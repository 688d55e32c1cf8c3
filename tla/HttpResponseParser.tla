------------------------- MODULE HttpResponseParser -------------------------
(***************************************************************************)
(* The parser of HTTP responses: the machine httpclient_parser that Ragel  *)
(* makes of src/net/http/http_client_parser.rl, and HttpResponseParser     *)
(* (src/net/http/http_parser.cc), whose callbacks store what it reports.   *)
(*                                                                         *)
(* A header line is read as a header of any name and, at the same time, as *)
(* one of the three that the grammar knows.  A state of the generated      *)
(* machine is therefore a set of places in the grammar: cs is that set,    *)
(* and a character moves every place at once.  Letters have one case       *)
(* except in "HTTP": the machine ignores the case of the names.            *)
(* SP, CR, LF and SEMI are a space, the line end's two and a semicolon.     *)
(***************************************************************************)
EXTENDS HttpParser

Decimal == {"0", "1", "2", "9"}
Xdigit == Decimal \cup {"a", "c", "d", "e", "f"}
Letter == {"a", "c", "d", "e", "f", "g", "h", "i", "k", "l", "n", "o", "r", "s", "t", "u"}
TokChar == Decimal \cup Letter \cup {"H", "T", "P", "-", "."}
Space == {"SP", "CR", "LF"}
RespChar == TokChar \cup Space \cup {":", "SEMI", "=", "/", "X"}

Lower(c) == CASE c = "T" -> "t" [] c = "H" -> "h" [] OTHER -> c
AnyCase(l) == { c \in RespChar : Lower(c) = l }

ConnectionField == <<"c", "o", "n", "n", "e", "c", "t", "i", "o", "n">>
ContentLengthField == <<"c", "o", "n", "t", "e", "n", "t", "-", "l", "e", "n", "g", "t", "h">>
TransferEncodingField ==
    <<"t", "r", "a", "n", "s", "f", "e", "r", "-", "e", "n", "c", "o", "d", "i", "n", "g">>
CloseWord == <<"c", "l", "o", "s", "e">>
ChunkedWord == <<"c", "h", "u", "n", "k", "e", "d">>

\* A message is a response, or the header of a chunk.
Message ==
    { Edge(<<"start">>, {"H"}, {"Mark"}, <<"http", 1>>),
      Edge(<<"start">>, Xdigit, {"Mark"}, <<"chunk">>) }

\* What follows a chunk's size or an extension of it.
ChunkEnd(q, do) ==
    { Edge(q, {"CR"}, do, <<"blank-cr">>),
      Edge(q, {"LF"}, do \cup {"Done"}, <<"done">>),
      Edge(q, {"SEMI"}, do, <<"ext">>) }

ChunkedHeader ==
    { Edge(<<"chunk">>, Xdigit, {}, <<"chunk">>),
      Edge(<<"ext">>, TokChar, {"StartField"}, <<"ext-name">>),
      Edge(<<"ext-name">>, TokChar, {}, <<"ext-name">>),
      Edge(<<"ext-name">>, {"="}, {"Mark", "WriteField"}, <<"ext=">>),
      Edge(<<"ext=">>, TokChar, {"Mark"}, <<"ext-value">>),
      Edge(<<"ext-value">>, TokChar, {}, <<"ext-value">>) }
    \cup ChunkEnd(<<"chunk">>, {"ChunkSize"})
    \cup ChunkEnd(<<"ext-name">>, {"Mark", "WriteField", "WriteValue"})
    \cup ChunkEnd(<<"ext-value">>, {"WriteValue"})

HTTP == <<"H", "T", "T", "P", "/">>

StatusLine ==
    { Edge(<<"http", k>>, {HTTP[k + 1]}, {}, <<"http", k + 1>>) : k \in 1..4 }
    \cup { Edge(<<"http", 5>>, Decimal, {}, <<"major">>),
           Edge(<<"major">>, Decimal, {}, <<"major">>),
           Edge(<<"major">>, {"."}, {}, <<"minor0">>),
           Edge(<<"minor0">>, Decimal, {}, <<"minor">>),
           Edge(<<"minor">>, Decimal, {}, <<"minor">>),
           Edge(<<"minor">>, {"SP"}, {"Version"}, <<"status0">>),
           Edge(<<"status0">>, Decimal, {"Mark"}, <<"status">>),
           Edge(<<"status">>, Decimal, {}, <<"status">>),
           Edge(<<"status">>, {"SP"}, {"Status"}, <<"reason0">>) }

Reason ==
    { Edge(<<"reason0">>, RespChar \ {"LF"}, {"Mark"}, <<"reason">>),
      Edge(<<"reason">>, RespChar \ {"CR", "LF"}, {}, <<"reason">>),
      Edge(<<"reason">>, {"CR"}, {"Reason"}, <<"cr">>),
      Edge(<<"reason">>, {"LF"}, {"Reason"}, <<"line">>) }

\* The beginning of a line; do is what the line before has left to do.
LineFrom(q, do) ==
    { Edge(q, TokChar, do \cup {"StartField"}, <<"field">>),
      Edge(q, {"CR"}, do, <<"blank-cr">>),
      Edge(q, {"LF"}, do \cup {"Done"}, <<"done">>) }
    \cup { Edge(q, AnyCase(Head(name)), do \cup {"StartField"}, <<"name", name, 1>>) :
             name \in {ConnectionField, ContentLengthField, TransferEncodingField} }

HeaderLine ==
    LineFrom(<<"line">>, {})
    \cup { Edge(<<"cr">>, {"LF"}, {}, <<"line">>),
           Edge(<<"blank-cr">>, {"LF"}, {"Done"}, <<"done">>) }

\* A header of any name. The first of its spaces are not part of the value.
Field ==
    { Edge(<<"field">>, TokChar, {}, <<"field">>),
      Edge(<<"field">>, {":"}, {"WriteField"}, <<"value0">>),
      Edge(<<"value0">>, {"SP"}, {"Mark"}, <<"value0">>) }

ValueEndFrom(q, do) ==
    { Edge(q, {"CR"}, do \cup {"WriteValue"}, <<"cr">>),
      Edge(q, {"LF"}, do \cup {"WriteValue"}, <<"line">>) }

FieldValue ==
    { Edge(<<"value0">>, RespChar \ Space, {"Mark"}, <<"value">>),
      Edge(<<"value">>, RespChar \ {"CR", "LF"}, {}, <<"value">>) }
    \cup ValueEndFrom(<<"value0">>, {"Mark"}) \cup ValueEndFrom(<<"value">>, {})

\* A name the grammar knows. After its colon even line ends count as spaces.
Name(name) ==
    { Edge(<<"name", name, k>>, AnyCase(name[k + 1]), {}, <<"name", name, k + 1>>) :
        k \in 1..Len(name) - 1 }
    \cup { Edge(<<"name", name, Len(name)>>, {":"}, {"WriteField"}, <<"skip", name>>),
           Edge(<<"skip", name>>, Space, {}, <<"skip", name>>) }

\* The word that such a header must hold.
Word(name, word, do) ==
    { Edge(<<"skip", name>>, AnyCase(Head(word)), do, <<"word", word, 1>>) }
    \cup { Edge(<<"word", word, k>>, AnyCase(word[k + 1]), {}, <<"word", word, k + 1>>) :
             k \in 1..Len(word) - 1 }

\* "Connection: close" is noticed on the next line.
ConnClose ==
    Name(ConnectionField) \cup Word(ConnectionField, CloseWord, {})
    \cup { Edge(<<"word", CloseWord, Len(CloseWord)>>, {"LF"}, {}, <<"line-after-close">>),
           Edge(<<"word", CloseWord, Len(CloseWord)>>, {"CR"}, {}, <<"close-cr">>),
           Edge(<<"close-cr">>, {"LF"}, {}, <<"line-after-close">>) }

LineAfterClose == LineFrom(<<"line-after-close">>, {"Close"})

TransferEncodingChunked ==
    Name(TransferEncodingField) \cup Word(TransferEncodingField, ChunkedWord, {"Mark"})
    \cup { Edge(<<"word", ChunkedWord, Len(ChunkedWord)>>, {"LF"},
                {"WriteValue", "Chunked"}, <<"line">>),
           Edge(<<"word", ChunkedWord, Len(ChunkedWord)>>, {"CR"}, {"WriteValue"}, <<"chunked-cr">>),
           Edge(<<"chunked-cr">>, {"LF"}, {"Chunked"}, <<"line">>) }

ContentLengthNumber ==
    { Edge(<<"skip", ContentLengthField>>, Decimal, {"Mark"}, <<"number">>),
      Edge(<<"number">>, Decimal, {}, <<"number">>) }
    \cup ValueEndFrom(<<"number">>, {"ContentLen"})

EdgeTable ==
    Message \cup ChunkedHeader \cup StatusLine \cup Reason \cup HeaderLine \cup Field \cup FieldValue
    \cup ConnClose \cup LineAfterClose \cup TransferEncodingChunked
    \cup Name(ContentLengthField) \cup ContentLengthNumber

EdgesFrom == [q \in { e.from : e \in EdgeTable } |-> { e \in EdgeTable : e.from = q }]

\* The edges that c takes from the places in cs. The machine stops for good where a
\* message is done, even if a value could still go on there.
MovesOf(cs, c) ==
    IF <<"done">> \in cs THEN {}
    ELSE { e \in UNION { EdgesFrom[q] : q \in cs \cap DOMAIN EdgesFrom } : c \in e.on }

\* The order in which the actions of one edge of the machine run.
ActionOrder ==
    << "Mark", "StartField", "WriteField", "ContentLen", "ChunkSize", "Close", "Chunked",
       "Version", "Status", "Reason", "WriteValue", "Done" >>

-----------------------------------------------------------------------------

Numeral == [c \in Xdigit |->
    CASE c = "0" -> 0 [] c = "1" -> 1 [] c = "2" -> 2 [] c = "9" -> 9
      [] c = "a" -> 10 [] c = "c" -> 12 [] c = "d" -> 13 [] c = "e" -> 14 [] c = "f" -> 15]

NumberIn(base, text) == FoldLeft(LAMBDA n, c : base * n + Numeral[c], 0, text)

\* What httpclient_parser_init sets.
Restarted(parser) ==
    [parser EXCEPT !.cs = {<<"start">>}, !.contentLen = -1, !.chunked = FALSE, !.chunksDone = FALSE,
                   !.close = FALSE]

\* A new parser with its HttpResponse; <<>> stands for the version and status a response
\* has by default.
HttpResponseParserNew ==
    [cs |-> {<<"start">>}, contentLen |-> -1, chunked |-> FALSE, chunksDone |-> FALSE,
     close |-> FALSE, error |-> FALSE,
     response |-> [version |-> <<>>, status |-> <<>>, reason |-> <<>>, headers |-> NoHeaders]]

\* "HTTP/1." is compared for as many characters as there are, less the last.
OnResponseVersion(r) ==
    LET text == Text(r, r.mark) IN
    IF text # <<>> /\ IsPrefix(Front(text), HTTP \o <<"1", ".">>) /\ Last(text) \in {"0", "1"}
    THEN [r EXCEPT !.response.version = <<Last(text)>>]
    ELSE [r EXCEPT !.error = TRUE]

OnResponseStatus(r) == [r EXCEPT !.response.status = Text(r, r.mark)]

OnResponseReason(r) == [r EXCEPT !.response.reason = Text(r, r.mark)]

OnResponseHttpField(r) ==
    LET name == SubSeq(r.buf, r.fieldStart + 1, r.fieldStart + r.fieldLen) IN
    IF name = <<>> THEN r
    ELSE [r EXCEPT !.response.headers =
             [n \in DOMAIN @ \cup {name} |-> IF n = name THEN Text(r, r.mark) ELSE @[n]]]

\* strtol takes the digits at the mark, wherever the size ends.
ChunkSize(r) ==
    LET size == NumberIn(16, Text(r, r.mark))
    IN [r EXCEPT !.chunked = TRUE, !.contentLen = size, !.chunksDone = size <= 0]

DoAct(r, act) ==
    CASE act = "Mark" -> [r EXCEPT !.mark = r.p]
      [] act = "StartField" -> [r EXCEPT !.fieldStart = r.p]
      [] act = "WriteField" -> [r EXCEPT !.fieldLen = r.p - r.fieldStart]
      [] act = "ContentLen" -> [r EXCEPT !.contentLen = NumberIn(10, Text(r, r.mark))]
      [] act = "ChunkSize" -> ChunkSize(r)
      [] act = "Close" -> [r EXCEPT !.close = TRUE]
      [] act = "Chunked" -> [r EXCEPT !.chunked = TRUE]
      [] act = "Version" -> OnResponseVersion(r)
      [] act = "Status" -> OnResponseStatus(r)
      [] act = "Reason" -> OnResponseReason(r)
      [] act = "WriteValue" -> OnResponseHttpField(r)
      [] act = "Done" -> [r EXCEPT !.stop = TRUE]

\* One character. Done leaves the loop after it, an error before it.
Advance(r, c) ==
    IF r.stop THEN r
    ELSE LET m == MovesOf(r.cs, c) IN
         IF m = {} THEN [r EXCEPT !.cs = {}, !.stop = TRUE]
         ELSE LET acts == UNION { e.do : e \in m }
                  d == FoldLeft(LAMBDA q, a : IF a \in acts THEN DoAct(q, a) ELSE q, r, ActionOrder)
              IN [d EXCEPT !.cs = { e.to : e \in m }, !.p = d.p + 1]

\* HttpResponseParser::execute: the marks begin at 0 in every call, and a call for a
\* chunk begins the machine anew.
Begin(ps, buffer) ==
    [cs |-> ps.cs, contentLen |-> ps.contentLen, chunked |-> ps.chunked,
     chunksDone |-> ps.chunksDone, close |-> ps.close, error |-> ps.error, response |-> ps.response,
     buf |-> buffer, p |-> 0, mark |-> 0, fieldStart |-> 0, fieldLen |-> 0, stop |-> FALSE]

ExecResponse(parser, buffer, chunk) ==
    LET begin == Begin(IF chunk THEN Restarted(parser) ELSE parser, buffer)
        run[i \in 0..Len(buffer)] ==
            IF i = 0 THEN begin ELSE CHOOSE t \in { Advance(r, buffer[i]) : r \in {run[i - 1]} } : TRUE
    IN run[Len(buffer)]

ParserOf(r) == [cs |-> r.cs, contentLen |-> r.contentLen, chunked |-> r.chunked,
              chunksDone |-> r.chunksDone, close |-> r.close, error |-> r.error,
              response |-> r.response]

\* Of the machine's final states only the first counts: a response whose last header is
\* one of the three with nothing in it leaves the machine in another.
IsAtEnd(parser) == parser.cs = {<<"done">>}

HasError(parser) == parser.error \/ parser.cs = {}

\* Where a buffer may end and nothing that has begun is forgotten: before a mark.
TokenEnds ==
    { <<"start">>, <<"status0">>, <<"reason0">>, <<"line">>, <<"line-after-close">>, <<"cr">>,
      <<"blank-cr">>, <<"close-cr">>, <<"chunked-cr">>, <<"done">> }

AtTokenEnd(cs) == cs \cap TokenEnds # {} /\ \A q \in cs \ TokenEnds : q[1] = "skip"

\* getHeaderAs<size_t>: 0 if the header is missing or not a number.
BodyLength(response) ==
    LET value == GetHeader(response, ContentLengthField, <<>>) IN
    IF value = <<>> \/ ~(ToSet(value) \subseteq Decimal) THEN 0 ELSE NumberIn(10, value)
=============================================================================
