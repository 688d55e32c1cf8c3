----------------------------- MODULE HttpSession -----------------------------
(***************************************************************************)
(* One connection of the HTTP server: HttpServer::handleClient             *)
(* (src/net/http/http_server.cc) with HttpSession::recvRequest and         *)
(* sendResponse (src/net/http/http_session.cc), the parser, and            *)
(* ServletDispatcher (src/net/http/servlet.cc).                            *)
(*                                                                         *)
(* The client writes its requests into a stream; a read returns any part   *)
(* of what has arrived.  Names of headers and servlets are short           *)
(* sequences of characters that stand for the real ones.                   *)
(***************************************************************************)
EXTENDS HttpRequestParser

CONSTANTS
    Plans,       \* what the client sends: sequences of requests
    BuffSize,    \* http.request.buffer_size
    Keepalive,   \* HttpServer::keepalive_
    Servlets,    \* the paths in servlets_
    GlobServlets,\* the patterns in globServlets_
    MaxReads     \* bound: reads that return less than has arrived, per request

BuffSizeAssumption == BuffSize \in Nat \ {0}

VARIABLES
    plan,       \* the requests of this client
    pipelined,  \* whether it sends without waiting for the answers
    nsent,      \* how many it has sent
    stream,     \* what has arrived and was not read
    parser,     \* the parser of this recvRequest
    reads,      \* the reads of this request
    left,       \* what is missing of the body
    phase,      \* where handleClient is
    handled,    \* the requests that reached a servlet
    responses,  \* the servlet and the connection header of every response
    torn,       \* whether a read has ended inside a token
    lost        \* whether bytes were read that belong to no request

sessionVars == <<plan, pipelined, nsent, stream, parser, reads, left, phase, handled, responses,
                 torn, lost>>

SessionTypeOK ==
    /\ plan \in Plans
    /\ nsent \in 0..Len(plan) /\ Len(responses) = Len(handled)
    /\ reads \in 0..MaxReads
    /\ left \in Nat
    /\ phase \in {"recv", "body", "handle", "closed", "undefined"}
    /\ {pipelined, torn, lost} \subseteq BOOLEAN

\* A request as the client writes it.
Line(request, text) == text \o request.eol

RequestText(request) ==
    IF request.kind # "http" THEN request.path \o request.body
    ELSE Line(request, request.method \o <<"SP">> \o request.scheme \o request.path \o request.query
                       \o request.fragment \o <<"SP">> \o HTTP1 \o request.version)
         \o FlattenSeq([i \in DOMAIN request.headers |->
                Line(request, request.headers[i][1] \o <<":", "SP">> \o request.headers[i][2])])
         \o Line(request, <<>>) \o request.body

SessionInit ==
    /\ plan \in Plans /\ pipelined \in BOOLEAN
    /\ nsent = 0 /\ stream = <<>>
    /\ parser = HttpRequestParserNew /\ reads = 0 /\ left = 0
    /\ phase = "recv" /\ handled = <<>> /\ responses = <<>>
    /\ torn = FALSE /\ lost = FALSE

ClientSend ==
    /\ nsent < Len(plan) /\ phase \notin {"closed", "undefined"}
    /\ pipelined \/ Len(responses) = nsent
    /\ nsent' = nsent + 1
    /\ stream' = stream \o RequestText(plan[nsent + 1])
    /\ UNCHANGED <<plan, pipelined, parser, reads, left, phase, handled, responses, torn, lost>>

Close == phase' = "closed" /\ UNCHANGED left

\* The length looked up before the parser ran on this read.
HeadersDoneEarly(rest) ==
    LET length == GetContentLength(parser.request) IN
    /\ left' = IF length > Len(rest) THEN length - Len(rest) ELSE 0
    /\ phase' = IF left' > 0 THEN "body" ELSE "handle"
    /\ lost' = (lost \/ Len(rest) > length)

\* The headers are complete and rest was read behind them: as much of it as
\* Content-Length says is the body, and no more is kept.
HeadersDone(rest) ==
    LET length == GetContentLength(parser'.request) IN
    /\ left' = IF length > Len(rest) THEN length - Len(rest) ELSE 0
    /\ phase' = IF left' > 0 THEN "body" ELSE "handle"
    /\ lost' = (lost \/ Len(rest) > length)

\* One turn of recvRequest's loop: a read of n bytes, and the parser on them.
Recv(n) ==
    /\ phase = "recv"
    /\ reads = MaxReads => n = Len(stream) \/ n = BuffSize
    /\ stream' = SubSeq(stream, n + 1, Len(stream))
    /\ \E r \in { Execute(parser, SubSeq(stream, 1, n)) } :
          LET rest == SubSeq(stream, r.p + 1, n)
              body == SubSeq(rest, 1, Min({Len(rest), GetContentLength(r.request)}))
          IN
          /\ parser' = [Parser(r) EXCEPT !.request.body = IF IsFinished(r) THEN body ELSE @]
          /\ CASE r.undefined -> phase' = "undefined" /\ UNCHANGED <<left, lost>>
               [] r.error /\ ~r.undefined -> Close /\ UNCHANGED lost
               [] IsFinished(r) /\ ~r.error /\ ~r.undefined -> HeadersDone(rest)
               [] OTHER -> UNCHANGED <<phase, left, lost>>
          /\ torn' = (torn \/ ~(r.error \/ BetweenTokens(r.cs)))
    /\ reads' = IF n < Len(stream) /\ reads < MaxReads THEN reads + 1 ELSE reads
    /\ UNCHANGED <<plan, pipelined, nsent, handled, responses>>

\* A read of more than is missing.
RecvBodyTooMuch(n) ==
    /\ phase = "body"
    /\ parser' = [parser EXCEPT !.request.body = @ \o SubSeq(stream, 1, n)]
    /\ left' = left - n
    /\ phase' = IF left' = 0 THEN "handle" ELSE "body"
    /\ stream' = SubSeq(stream, n + 1, Len(stream))
    /\ UNCHANGED <<plan, pipelined, nsent, reads, handled, responses, torn, lost>>

\* A read into the beginning of the body.
RecvBodyOver(n) ==
    /\ phase = "body" /\ n <= left
    /\ parser' = [parser EXCEPT !.request.body = SubSeq(stream, 1, n)]
    /\ left' = left - n
    /\ phase' = IF left' = 0 THEN "handle" ELSE "body"
    /\ stream' = SubSeq(stream, n + 1, Len(stream))
    /\ UNCHANGED <<plan, pipelined, nsent, reads, handled, responses, torn, lost>>

\* A turn of readFixSize, which asks for no more than is missing.
RecvBody(n) ==
    /\ phase = "body" /\ n <= left
    /\ parser' = [parser EXCEPT !.request.body = @ \o SubSeq(stream, 1, n)]
    /\ left' = left - n
    /\ phase' = IF left' = 0 THEN "handle" ELSE "body"
    /\ stream' = SubSeq(stream, n + 1, Len(stream))
    /\ UNCHANGED <<plan, pipelined, nsent, reads, handled, responses, torn, lost>>

\* The peer closes, or the receive timeout passes, and nothing is left to read.
RecvFail ==
    /\ phase \in {"recv", "body"} /\ stream = <<>>
    /\ Close
    /\ UNCHANGED <<plan, pipelined, nsent, stream, parser, reads, handled, responses, torn, lost>>

\* HttpRequest::init: a request is answered and closed unless it says keep-alive.
IsClose(request) == GetHeader(request, Connection, <<>>) # KeepAlive

\* getMatchedServlet: the exact path; a glob servlet whose name is the path (the name
\* of every FunctionServlet, not the pattern it was added for); else not found.
FunctionServletName == <<"T", "T">>

GetMatchedServlet(path) ==
    CASE path \in Servlets -> "servlet"
      [] GlobServlets # {} /\ path = FunctionServletName -> "glob"
      [] OTHER -> "notFound"

\* A parser that is used for the next request as it is.
HandleClientReused ==
    /\ phase = "handle"
    /\ LET close == IsClose(parser.request) \/ ~Keepalive IN
        /\ responses' = Append(responses, [servlet |-> GetMatchedServlet(parser.request.path), close |-> close])
        /\ phase' = IF close THEN "closed" ELSE "recv"
    /\ handled' = Append(handled, parser.request)
    /\ reads' = 0
    /\ UNCHANGED <<plan, pipelined, nsent, stream, parser, left, torn, lost>>

\* The rest of handleClient's loop: the servlet, the response, and whether to go on.
HandleClient ==
    /\ phase = "handle"
    /\ LET close == IsClose(parser.request) \/ ~Keepalive IN
        /\ responses' = Append(responses, [servlet |-> GetMatchedServlet(parser.request.path), close |-> close])
        /\ phase' = IF close THEN "closed" ELSE "recv"
    /\ handled' = Append(handled, parser.request)
    /\ parser' = HttpRequestParserNew /\ reads' = 0
    /\ UNCHANGED <<plan, pipelined, nsent, stream, left, torn, lost>>

Server ==
    \/ \E n \in 1..Len(stream) : n <= BuffSize /\ Recv(n)
    \/ \E n \in 1..Len(stream) : RecvBody(n)
    \/ HandleClient

SessionNext == ClientSend \/ RecvFail \/ Server

\* Bytes that have arrived are read, and the coroutine of the connection is scheduled.
SessionSpec == SessionInit /\ [][SessionNext]_sessionVars /\ WF_sessionVars(Server)

-----------------------------------------------------------------------------

\* What a request must look like to the servlet. A method may be abbreviated.
AsSent(request) ==
    LET name(i) == request.headers[i][1]
        names == { name(i) : i \in DOMAIN request.headers }
        last(n) == Max({ i \in DOMAIN request.headers : name(i) = n })
        part(text) == IF text = <<>> THEN <<>> ELSE Tail(text)
    IN [method |-> IF request.kind = "http" THEN String2HttpMethod(request.method) ELSE <<>>,
        path |-> request.path, query |-> part(request.query),
        fragment |-> part(request.fragment), version |-> request.version,
        headers |-> [n \in names |-> request.headers[last(n)][2]],
        body |-> IF request.kind = "http" THEN request.body ELSE <<>>]

\* The requests from the k-th to the m-th as they follow one another in the stream.
Texts(requests, k, m) == FlattenSeq([i \in 1..m - k + 1 |-> RequestText(requests[k + i - 1])])

\* What the parser makes of a request that it has in one piece, with all that follows: it
\* finishes where the body begins if the request is well-formed, and else does not finish
\* or reports an error. No line begins with a CR that is not part of a line end.
ParsedInOnePiece(requests, k) ==
    LET text == Texts(requests, k, Len(requests))
        r == Execute(HttpRequestParserNew, text)
        result == AsSent(requests[k])
        accepted == IsFinished(r) /\ ~r.error /\ ~r.undefined
    IN /\ requests[k].ok = accepted
       /\ accepted =>
            /\ [r.request EXCEPT !.body = result.body] = result
            /\ GetContentLength(r.request) = Len(result.body)
            /\ RequestText(requests[k]) = SubSeq(text, 1, r.p) \o result.body
       /\ \A i \in 1..Len(text) - 1 :
            Execute(HttpRequestParserNew, SubSeq(text, 1, i)).cs = <<"line-cr">> => text[i + 1] = "LF"

\* What the proofs assume of what clients send: the parser understands it when it has it
\* in one piece.
PlansAssumption ==
    \A requests \in Plans :
        /\ requests \in Seq(ToSet(requests))
        /\ \A k \in DOMAIN requests :
            /\ RequestText(requests[k]) \in Seq(Char) /\ AsSent(requests[k]).body \in Seq(Char)
            /\ ParsedInOnePiece(requests, k)

HandledAsSent == \A k \in DOMAIN handled : plan[k].ok /\ handled[k] = AsSent(plan[k])

\* However the bytes of a well-formed request are cut into reads, as long as no read ends
\* inside a token, the servlet gets exactly what the client wrote, one call per request and
\* in order, and it never gets a malformed one: what recvRequest keeps between two reads
\* is the state of the machine and nothing of the buffer.
RequestAsSent == ~torn /\ ~lost => HandledAsSent

\* The parser makes up for nothing: bytes behind a request in the buffer are thrown away
\* with the buffer, and this can only happen to a client that does not wait for answers.
LostOnlyWhenPipelined == lost /\ ~torn => pipelined /\ nsent > 1

\* A well-formed request that has arrived is answered, unless an answer before it closes
\* the connection or its bytes were thrown away.
Unanswered ==
    /\ nsent > Len(responses) /\ ~torn /\ ~lost
    /\ \A i \in 1..nsent : plan[i].ok
    /\ \A j \in DOMAIN responses : ~responses[j].close

EveryRequestAnswered == Unanswered ~> ~Unanswered

\* What the comments of recvRequest and execute say: a request that one read does not
\* complete is parsed on with the next.
RequestInAnyPieces == ~lost => HandledAsSent
=============================================================================
