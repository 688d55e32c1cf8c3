-------------------------- MODULE MCClientResponses --------------------------
(***************************************************************************)
(* The responses that HttpConnection receives.                             *)
(***************************************************************************)
EXTENDS HttpResponseParser

Plain ==
    [ok |-> TRUE, version |-> <<"1">>, status |-> <<"2", "0", "0">>, reason |-> <<"o">>,
     headers |-> <<>>, body |-> <<>>, chunks |-> <<>>, eol |-> <<"CR", "LF">>]

Chunk(size, ext, text) == [size |-> size, ext |-> ext, data |-> text]

LastChunk == Chunk(<<"0">>, <<>>, <<>>)

Eleven == <<"a", "CR", "LF", "d", "1", "2", "9", "CR", "LF", "0", "CR">>

InChunks(cs) ==
    [Plain EXCEPT !.headers = << <<TransferEncodingField, ChunkedWord>> >>,
                  !.chunks = Append(cs, LastChunk)]

WithHeaders(hs) == [Plain EXCEPT !.headers = hs]

WithBody(length, text) ==
    [WithHeaders(<< <<ContentLengthField, length>> >>) EXCEPT !.body = text, !.eol = <<"LF">>]

Bodies ==
    { WithBody(<<"0">>, <<>>), WithBody(<<"2">>, <<"LF", "CR">>),
      WithBody(<<"1", "1">>, Eleven),
      InChunks(<<>>), InChunks(<<Chunk(<<"2">>, <<>>, <<"0", "CR">>)>>),
      InChunks(<<Chunk(<<"1">>, <<"SEMI", "a">>, <<"e">>), Chunk(<<"c">>, <<>>, Append(Eleven, "LF"))>>),
      InChunks(<<Chunk(<<"1", "c">>, <<>>, Eleven \o Eleven \o <<"f", "f", "f", "f", "f", "f">>)>>),
      [InChunks(<<Chunk(<<"0", "2">>, <<"SEMI", "a", "=", "d">>, <<"0", "CR">>)>>) EXCEPT !.eol = <<"LF">>] }

Heads ==
    { WithHeaders(<< <<ConnectionField, CloseWord>>, <<<<"a">>, <<>>>>, <<<<"a">>, <<"1", "SP", ":">>>> >>),
      WithHeaders(<< <<ConnectionField, ChunkedWord>>, <<TransferEncodingField, CloseWord>>,
                     <<ContentLengthField, <<"0">>>> >>),
      [WithHeaders(<< <<<<"c", "o">>, <<"X">>>>, <<<<"T">>, <<>>>>, <<ConnectionField, CloseWord>> >>)
          EXCEPT !.eol = <<"LF">>, !.version = <<"0">>, !.reason = <<"SP", "t", "X">>] }

\* A version that is not 1.0 or 1.1; a header line without a colon, and without a name;
\* a chunk whose size is not a number.
Bad ==
    { [Plain EXCEPT !.ok = FALSE, !.version = <<"2">>],
      [Plain EXCEPT !.ok = FALSE, !.reason = <<"o", "LF", "d">>],
      [WithHeaders(<< <<<<>>, <<"a">>>> >>) EXCEPT !.ok = FALSE],
      [InChunks(<<Chunk(<<"X">>, <<>>, <<"a">>)>>) EXCEPT !.ok = FALSE] }

MCResponses == Bodies \cup { Plain } \cup Heads \cup Bad
=============================================================================
