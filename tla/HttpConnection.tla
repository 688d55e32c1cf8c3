---------------------------- MODULE HttpConnection ----------------------------
(***************************************************************************)
(* HttpConnection::recvResponse (src/net/http/http_connection.cc) with its *)
(* parser: how a client puts a response together from the reads of its     *)
(* socket.                                                                 *)
(*                                                                         *)
(* The peer writes one response into the stream; a read returns any part   *)
(* of what has arrived, and may fail at any time.                          *)
(***************************************************************************)
EXTENDS HttpResponseParser

CONSTANTS
    Responses,          \* what the peer sends
    ResponseBuffSize    \* http.request.buffer_size, which recvResponse uses for responses

ResponseBuffSizeAssumption == ResponseBuffSize \in Nat \ {0}

VARIABLES
    sent,       \* the response of the peer
    arriving,   \* what was not read yet
    data,       \* what is in the buffer
    respParser,
    body,
    missing,    \* what is missing of the body, or of a chunk with its line end
    loop,       \* which of its loops recvResponse is in
    cut,        \* whether a read has ended inside a token
    failed      \* whether a read has failed

connVars == <<sent, arriving, data, respParser, body, missing, loop, cut, failed>>

Reading == {"head", "chunk", "chunk-body", "body"}

ConnectionTypeOK ==
    /\ sent \in Responses
    /\ Len(data) <= ResponseBuffSize
    /\ missing \in Nat /\ (loop \in {"chunk-body", "body"} => missing > 0)
    /\ loop \in Reading \cup {"next-chunk", "returned", "closed"}
    /\ loop \in {"head", "body", "chunk-body"} => data = <<>>
    /\ {cut, failed} \subseteq BOOLEAN

\* A response as the peer writes it, in chunks if it has any.
WithEol(r, text) == text \o r.eol

ChunkText(r, c) == WithEol(r, c.size \o c.ext) \o c.data \o <<"CR", "LF">>

\* The chunks from the k-th on.
RestText(r, k) ==
    FlattenSeq([i \in 1..Len(r.chunks) - k + 1 |-> ChunkText(r, r.chunks[k + i - 1])])

ResponseText(r) ==
    WithEol(r, HTTP \o <<"1", ".">> \o r.version \o <<"SP">> \o r.status \o <<"SP">> \o r.reason)
    \o FlattenSeq([i \in DOMAIN r.headers |->
           WithEol(r, r.headers[i][1] \o <<":", "SP">> \o r.headers[i][2])])
    \o WithEol(r, <<>>) \o r.body
    \o RestText(r, 1)

ConnInit ==
    /\ sent \in Responses /\ arriving = ResponseText(sent)
    /\ data = <<>> /\ respParser = HttpResponseParserNew /\ body = <<>> /\ missing = 0
    /\ loop = "head" /\ cut = FALSE /\ failed = FALSE

\* read: n characters, at most size. Bound: once a read has cut a token, the others
\* return as much as they can.
Read(n, size) ==
    /\ n <= size
    /\ cut => n = Len(arriving) \/ n = size
    /\ arriving' = SubSeq(arriving, n + 1, Len(arriving))

Got(n) == SubSeq(arriving, 1, n)

Behind(s, n) == SubSeq(s, n + 1, Len(s))

\* A response without chunks has a body only if it says how long it is.
BodyBegins(rest, response) ==
    LET length == BodyLength(response) IN
    /\ body' = SubSeq(rest, 1, Min({length, Len(rest)}))
    /\ missing' = IF length > Len(rest) THEN length - Len(rest) ELSE 0
    /\ loop' = IF missing' > 0 THEN "body" ELSE "returned"
    /\ data' = <<>>

\* An error comes first, even if the parser has reached the end.
IsComplete(r) == IsAtEnd(r) /\ ~HasError(r)

\* One turn of the first loop: a read, and the parser on it.
RecvHead(n) ==
    /\ loop = "head" /\ Read(n, ResponseBuffSize)
    /\ \E r \in { ExecResponse(respParser, Got(n), FALSE) } :
        LET rest == Behind(r.buf, r.p) IN
        /\ respParser' = ParserOf(r)
        /\ CASE HasError(r) -> loop' = "closed" /\ UNCHANGED <<data, body, missing>>
             [] IsComplete(r) /\ r.chunked ->
                    loop' = "next-chunk" /\ data' = rest /\ UNCHANGED <<body, missing>>
             [] IsComplete(r) /\ ~r.chunked -> BodyBegins(rest, r.response)
             [] OTHER -> UNCHANGED <<loop, data, body, missing>>
        /\ cut' = (cut \/ ~(HasError(r) \/ AtTokenEnd(r.cs)))
    /\ UNCHANGED <<sent, failed>>

\* The line end of a chunk that is not in the buffer is not counted.
ChunkHeaderDoneShort(rest, r) ==
    LET size == r.contentLen IN
    IF size + 2 <= Len(rest)
    THEN /\ body' = body \o SubSeq(rest, 1, size)
         /\ data' = Behind(rest, size + 2)
         /\ loop' = IF r.chunksDone THEN "returned" ELSE "next-chunk"
         /\ UNCHANGED missing
    ELSE /\ body' = body \o rest
         /\ missing' = size - Len(rest)
         /\ data' = <<>>
         /\ loop' = "chunk-body"

\* The header of a chunk is complete: the chunk and its line end are in the buffer,
\* or what there is of them is taken and the rest is read.
ChunkHeaderDone(rest, r) ==
    LET size == r.contentLen IN
    IF size + 2 <= Len(rest)
    THEN /\ body' = body \o SubSeq(rest, 1, size)
         /\ data' = Behind(rest, size + 2)
         /\ loop' = IF r.chunksDone THEN "returned" ELSE "next-chunk"
         /\ UNCHANGED missing
    ELSE /\ body' = body \o rest
         /\ missing' = size - Len(rest) + 2
         /\ data' = <<>>
         /\ loop' = "chunk-body"

\* The parser on the header of a chunk. If the header is not complete what there is
\* of it is forgotten.
ParseChunk(buffer) ==
    \E r \in { ExecResponse(respParser, buffer, TRUE) } :
        /\ respParser' = ParserOf(r)
        /\ CASE HasError(r) -> loop' = "closed" /\ UNCHANGED <<data, body, missing>>
             [] IsComplete(r) -> ChunkHeaderDone(Behind(r.buf, r.p), r)
             [] OTHER -> loop' = "chunk" /\ data' = <<>> /\ UNCHANGED <<body, missing>>
        /\ cut' = (cut \/ ~(HasError(r) \/ IsAtEnd(r)))

BufferedChunk ==
    /\ loop = "next-chunk" /\ data # <<>>
    /\ ParseChunk(data)
    /\ UNCHANGED <<sent, arriving, failed>>

RecvChunk(n) ==
    /\ loop = "chunk" \/ (loop = "next-chunk" /\ data = <<>>)
    /\ Read(n, ResponseBuffSize)
    /\ ParseChunk(Got(n))
    /\ UNCHANGED <<sent, failed>>

\* The line end of the chunk is kept.
RecvChunkBodyWhole(n) ==
    /\ loop = "chunk-body" /\ Read(n, Min({missing, ResponseBuffSize}))
    /\ missing' = missing - n /\ body' = body \o Got(n)
    /\ loop' = IF missing' > 0 THEN loop
               ELSE IF respParser.chunksDone THEN "returned" ELSE "next-chunk"
    /\ UNCHANGED <<sent, data, respParser, cut, failed>>

\* A turn of the loop that reads the rest of a chunk; at its end the line end is cut off.
RecvChunkBody(n) ==
    /\ loop = "chunk-body" /\ Read(n, Min({missing, ResponseBuffSize}))
    /\ missing' = missing - n
    /\ LET all == body \o Got(n) IN
        IF missing' > 0 THEN body' = all /\ UNCHANGED loop
        ELSE /\ body' = SubSeq(all, 1, Len(all) - 2)
             /\ loop' = IF respParser.chunksDone THEN "returned" ELSE "next-chunk"
    /\ UNCHANGED <<sent, data, respParser, cut, failed>>

\* A turn of readFixSize.
ReadFixSize(n) ==
    /\ loop = "body" /\ Read(n, missing)
    /\ missing' = missing - n /\ body' = body \o Got(n)
    /\ loop' = IF missing' = 0 THEN "returned" ELSE "body"
    /\ UNCHANGED <<sent, data, respParser, cut, failed>>

\* The peer closes, or the receive timeout passes.
ReadFail ==
    /\ loop \in Reading \/ (loop = "next-chunk" /\ data = <<>>)
    /\ loop' = "closed" /\ failed' = TRUE
    /\ UNCHANGED <<sent, arriving, data, respParser, body, missing, cut>>

ConnNext ==
    \/ BufferedChunk
    \/ ReadFail
    \/ \E n \in 1..Len(arriving) :
        RecvHead(n) \/ RecvChunk(n) \/ RecvChunkBody(n) \/ ReadFixSize(n)

ConnSpec == ConnInit /\ [][ConnNext]_connVars

-----------------------------------------------------------------------------

\* The extension of a chunk, whose name has one letter here, as a header.
Extension(c) == IF c.ext = <<>> THEN <<>> ELSE << << <<c.ext[2]>>, SubSeq(c.ext, 4, Len(c.ext)) >> >>

\* What recvResponse knows of the response behind its k-th chunk: the parser keeps the
\* extensions of chunks with the headers.
SentUpTo(r, k) ==
    LET fields == r.headers \o FlattenSeq([i \in 1..k |-> Extension(r.chunks[i])])
        names == { fields[i][1] : i \in DOMAIN fields }
        last(n) == Max({ i \in DOMAIN fields : fields[i][1] = n })
    IN [version |-> r.version, status |-> r.status, reason |-> r.reason,
        headers |-> [n \in names |-> fields[last(n)][2]]]

HeadAsSent(r) == SentUpTo(r, Len(r.chunks))

DataUpTo(r, k) == FlattenSeq([i \in 1..k |-> r.chunks[i].data])

BodyAsSent(r) == IF r.chunks = <<>> THEN r.body ELSE DataUpTo(r, Len(r.chunks))

\* A parser that begins anew and has stored response, as execute() makes it for a chunk.
FreshParser(response) == [HttpResponseParserNew EXCEPT !.response = response]

\* What the parser makes of a response, and of the k-th chunk, that it has in one piece
\* with all that follows.
WholeHead(r) == ExecResponse(HttpResponseParserNew, ResponseText(r), FALSE)
WholeChunk(r, k) == ExecResponse(FreshParser(SentUpTo(r, k - 1)), RestText(r, k), TRUE)

HeadParsed(r) ==
    LET w == WholeHead(r) IN
    /\ IsComplete(w)
    /\ w.response = SentUpTo(r, 0) /\ w.chunked = (r.chunks # <<>>)
    /\ IF w.chunked THEN r.body = <<>> ELSE BodyLength(w.response) = Len(r.body)
    /\ ResponseText(r) = SubSeq(ResponseText(r), 1, w.p) \o (r.body \o RestText(r, 1))

ChunkParsed(r, k) ==
    LET w == WholeChunk(r, k)
        text == r.chunks[k].data
    IN /\ IsComplete(w)
       /\ w.response = SentUpTo(r, k)
       /\ w.contentLen = Len(text) /\ w.chunksDone = (k = Len(r.chunks))
       /\ RestText(r, k) =
             SubSeq(RestText(r, k), 1, w.p) \o (text \o <<"CR", "LF">> \o RestText(r, k + 1))

Refused(w) == ~IsComplete(w)

\* The value of a header stands on its line: what skips the spaces in front of it does not
\* take up a word of a later line.
Unfolded(ps, text) ==
    \A i \in 0..Len(text) - 1 :
        LET at == ExecResponse(ps, SubSeq(text, 1, i), FALSE).cs
            m == MovesOf(at, text[i + 1])
        IN AtTokenEnd(at) /\ (\E e \in m : e.from[1] = "skip") => AtTokenEnd({ e.to : e \in m })

\* What the proofs assume of what servers send: the parser understands it, if it is
\* well-formed and in one piece.
ResponsesAssumption ==
    \A r \in Responses :
        LET chunks == DOMAIN r.chunks IN
        /\ {ResponseText(r), r.body} \subseteq Seq(RespChar) /\ r.chunks \in Seq(ToSet(r.chunks))
        /\ Unfolded(HttpResponseParserNew, ResponseText(r))
        /\ \A k \in chunks :
             /\ {ChunkText(r, r.chunks[k]), r.chunks[k].data} \subseteq Seq(RespChar)
             /\ Unfolded(FreshParser(SentUpTo(r, k - 1)), RestText(r, k))
        /\ IF r.ok THEN HeadParsed(r) /\ \A k \in chunks : ChunkParsed(r, k)
           ELSE \/ Refused(WholeHead(r))
                \/ /\ HeadParsed(r)
                   /\ \E k \in chunks : /\ Refused(WholeChunk(r, k))
                                        /\ \A i \in 1..k - 1 : ChunkParsed(r, i)

\* A response that is returned is the one the peer sent, with its whole body and nothing
\* else but the extensions of its chunks, which the parser reports as headers. It does not
\* matter where the reads were cut, as long as no token was: in the headers, in a chunk,
\* between its data and its line end, or inside the line end.
ResponseAsSent ==
    loop = "returned" /\ ~cut =>
        sent.ok /\ respParser.response = HeadAsSent(sent) /\ body = BodyAsSent(sent)

\* recvResponse knows where a response ends: it never waits for more when all of a
\* response has been read, it does not give a well-formed one up, and it leaves nothing
\* of it to the next response on the connection, in its buffer or in the socket.
EndIsKnown ==
    sent.ok /\ ~cut =>
        /\ (loop \in Reading \/ (loop = "next-chunk" /\ data = <<>>)) => arriving # <<>>
        /\ loop = "closed" => failed
        /\ loop = "returned" => arriving = <<>> /\ data = <<>>
=============================================================================
