--------------------------- MODULE HttpClientProofs ---------------------------
(***************************************************************************)
(* That the client gets what the server wrote, however the bytes are cut   *)
(* into reads, and that a caller of the pool gets the answer to its own    *)
(* request.                                                                *)
(*                                                                         *)
(* The first part is about the parser.  A run of execute() over a piece of *)
(* a text is compared, character by character, with the run over the whole *)
(* text (Like): they are in the same state and have stored the same, and   *)
(* where a mark of the one is live, it points to the same character as     *)
(* that of the other.  A mark is live in a state from which an action that *)
(* uses it can come before one that sets it (LiveAt).  PieceByPiece is     *)
(* what follows for two calls of execute() one after another.              *)
(*                                                                         *)
(* The second part is the inductive invariant of recvResponse,             *)
(* ConnectionInv: what is in the body, in the buffer and on its way is     *)
(* together the rest of the response from the place that loop says.        *)
(* The responses themselves are a constant: what is assumed of them is     *)
(* that a whole response, given to the parser at once, is parsed           *)
(* (ResponsesAssumption).                                                  *)
(*                                                                         *)
(* The third part is about HttpConnectionPool.  OwnAnswer is not           *)
(* inductive: that RecvResponse reads the right answer depends on what is  *)
(* still on its way, at the server and at the client, since the            *)
(* connection's first request.  OnlyOwn says what that may be.             *)
(***************************************************************************)
EXTENDS HttpConnection, HttpConnectionPool, SequenceLemmas

-----------------------------------------------------------------------------

(* The actions of a step run in their order, those that are not in acts not at all. *)
One(x, a, acts) == IF a \in acts THEN DoAct(x, a) ELSE x

DoAll(r, acts) == FoldLeft(LAMBDA q, a : IF a \in acts THEN DoAct(q, a) ELSE q, r, ActionOrder)

IsFold(g, r, acts, n) ==
    g = [s \in SUBSET (1..n) |->
            IF s = {} THEN r
            ELSE IF ActionOrder[Max(s)] \in acts THEN DoAct(g[s \ {Max(s)}], ActionOrder[Max(s)])
                 ELSE g[s \ {Max(s)}]]

LEMMA FoldExists ==
  ASSUME NEW r, NEW acts, NEW m \in Nat
  PROVE  \E g : IsFold(g, r, acts, m)
<1> DEFINE Missing == { n \in Nat : ~ \E g : IsFold(g, r, acts, n) }
<1>1. SUFFICES ASSUME Missing # {} PROVE FALSE
  BY DEF IsFold
<1>2. PICK n \in Missing : \A k \in Missing : n <= k
  BY <1>1, FirstPosition
<1>3. n # 0
  <2> DEFINE g == [s \in SUBSET (1..0) |-> r]
  <2>1. SUBSET (1..0) = {{}}
    OBVIOUS
  <2>2. IsFold(g, r, acts, 0)
    BY <2>1 DEF IsFold
  <2> QED
    BY <2>2
<1>4. PICK g : IsFold(g, r, acts, n - 1)
  BY <1>2, <1>3
<1> DEFINE h == [s \in SUBSET (1..n) |-> IF n \in s THEN One(g[s \ {n}], ActionOrder[n], acts) ELSE g[s]]
<1>5. ASSUME NEW s \in SUBSET (1..n)
      PROVE  h[s] = IF s = {} THEN r ELSE One(h[s \ {Max(s)}], ActionOrder[Max(s)], acts)
  <2>1. n \in Nat /\ n - 1 \in Nat
    BY <1>2, <1>3
  <2>2. CASE n \in s
    <3>1. Max(s) = n
      <4>1. Max(s) \in s /\ n <= Max(s)
        BY <2>1, <2>2, MaxOfPositions
      <4>2. Max(s) \in 1..n
        BY <4>1
      <4> QED
        BY <2>1, <4>1, <4>2
    <3>2. s \ {n} \in SUBSET (1..n) /\ n \notin s \ {n}
      OBVIOUS
    <3>3. h[s \ {n}] = g[s \ {n}] /\ h[s] = One(g[s \ {n}], ActionOrder[n], acts)
      BY <2>2, <3>2
    <3> QED
      BY <2>2, <3>1, <3>3
  <2>3. CASE n \notin s
    <3>1. s \in SUBSET (1..(n - 1))
      BY <2>1, <2>3
    <3>2. h[s] = g[s] /\ h[s \ {Max(s)}] = g[s \ {Max(s)}]
      BY <2>3
    <3>3. g[s] = IF s = {} THEN r ELSE One(g[s \ {Max(s)}], ActionOrder[Max(s)], acts)
      BY <1>4, <3>1, Zenon DEF IsFold, One
    <3> QED
      BY <3>2, <3>3
  <2> QED
    BY <2>2, <2>3
<1>6. IsFold(h, r, acts, n)
  BY <1>5, Zenon DEF IsFold, One
<1> QED
  BY <1>2, <1>6

LEMMA FoldSteps ==
  ASSUME NEW r, NEW acts
  PROVE  \E f : /\ f[0] = r
                /\ \A i \in 1..12 : f[i] = One(f[i - 1], ActionOrder[i], acts)
                /\ DoAll(r, acts) = f[12]
<1> DEFINE n == 12
<1>1. n \in Nat /\ DOMAIN ActionOrder = 1..n
  BY DEF ActionOrder
<1> HIDE DEF n
<1> DEFINE g == CHOOSE h : IsFold(h, r, acts, n)
<1>2. IsFold(g, r, acts, n)
  BY <1>1, FoldExists
<1>3. DoAll(r, acts) = g[1..n]
  BY <1>1, Zenon DEF FoldLeft, MapThenFoldSet, IsFold, DoAll
<1> DEFINE f == [i \in 0..n |-> g[1..i]]
<1>4. f[0] = r
  <2>1. 1..0 = {} /\ {} \in SUBSET (1..n)
    OBVIOUS
  <2>2. g[{}] = r
    BY <1>2, <2>1, Zenon DEF IsFold
  <2> QED
    BY <1>1, <2>1, <2>2
<1>5. ASSUME NEW i \in 1..n PROVE f[i] = One(f[i - 1], ActionOrder[i], acts)
  <2>1. i \in Nat /\ i - 1 \in 0..n /\ i \in 0..n /\ i \in 1..i
    BY <1>1
  <2>5. 1..i \in SUBSET (1..n) /\ 1..i # {}
    <3>1. i <= n /\ n \in Nat
      BY <1>1
    <3>2. \A j \in 1..i : j \in 1..n
      BY <2>1, <3>1
    <3> QED
      BY <2>1, <3>2, Zenon
  <2>2. Max(1..i) = i
    <3>1. Max(1..i) \in 1..i /\ i <= Max(1..i)
      BY <2>1, <2>5, MaxOfPositions
    <3> QED
      BY <2>1, <3>1
  <2>3. (1..i) \ {i} = 1..(i - 1)
    BY <2>1
  <2>4. g[1..i] = One(g[(1..i) \ {Max(1..i)}], ActionOrder[Max(1..i)], acts)
    BY <1>2, <2>5, Zenon DEF IsFold, One
  <2> HIDE DEF g
  <2> QED
    BY <2>1, <2>2, <2>3, <2>4
<1>6. f[n] = g[1..n]
  BY <1>1
<1> HIDE DEF f, g
<1> QED
  BY <1>3, <1>4, <1>5, <1>6 DEF n

(* A call of execute() goes through the buffer character by character. *)
Turn(r, c) == CHOOSE t \in { Advance(q, c) : q \in {r} } : TRUE

IsRun(g, ps, buffer, n) ==
    g = [i \in 0..n |-> IF i = 0 THEN Begin(ps, buffer) ELSE Turn(g[i - 1], buffer[i])]

LEMMA TurnIsStep ==
  ASSUME NEW r, NEW c
  PROVE  Turn(r, c) = Advance(r, c)
<1>1. { Advance(q, c) : q \in {r} } = {Advance(r, c)}
  OBVIOUS
<1> QED
  BY <1>1, Zenon DEF Turn

LEMMA RunExists ==
  ASSUME NEW ps, NEW buffer, NEW m \in Nat
  PROVE  \E g : IsRun(g, ps, buffer, m)
<1> DEFINE Missing == { n \in Nat : ~ \E g : IsRun(g, ps, buffer, n) }
<1>1. SUFFICES ASSUME Missing # {} PROVE FALSE
  OBVIOUS
<1>2. PICK n \in Missing : \A k \in Missing : n <= k
  BY <1>1, FirstPosition
<1>3. n # 0
  <2> DEFINE g == [i \in 0..0 |-> Begin(ps, buffer)]
  <2>1. g = [i \in 0..0 |-> IF i = 0 THEN Begin(ps, buffer) ELSE Turn(g[i - 1], buffer[i])]
    OBVIOUS
  <2> QED
    BY <2>1 DEF IsRun
<1>4. n \in Nat /\ n - 1 \in Nat
  BY <1>2, <1>3
<1>5. PICK g : IsRun(g, ps, buffer, n - 1)
  BY <1>2, <1>4
<1> DEFINE h == [i \in 0..n |-> IF i = n THEN Turn(g[n - 1], buffer[n]) ELSE g[i]]
<1>6. ASSUME NEW i \in 0..n
      PROVE  h[i] = IF i = 0 THEN Begin(ps, buffer) ELSE Turn(h[i - 1], buffer[i])
  <2>1. CASE i = n
    <3>1. h[n] = Turn(g[n - 1], buffer[n]) /\ h[n - 1] = g[n - 1]
      BY <1>4
    <3> QED
      BY <1>3, <2>1, <3>1
  <2>2. CASE i # n
    <3>1. i \in 0..n - 1 /\ (i # 0 => i - 1 \in 0..n /\ i - 1 # n)
      BY <1>4, <2>2
    <3>2. h[i] = g[i] /\ (i # 0 => h[i - 1] = g[i - 1])
      BY <2>2, <3>1
    <3>3. g[i] = IF i = 0 THEN Begin(ps, buffer) ELSE Turn(g[i - 1], buffer[i])
      BY <1>5, <3>1, Zenon DEF IsRun
    <3> QED
      BY <3>2, <3>3
  <2> QED
    BY <2>1, <2>2
<1>7. IsRun(h, ps, buffer, n)
  BY <1>6, Zenon DEF IsRun
<1> QED
  BY <1>2, <1>7

LEMMA ExecuteSteps ==
  ASSUME NEW ps, NEW S, NEW buffer \in Seq(S)
  PROVE  \E f : /\ f[0] = Begin(ps, buffer)
                /\ \A i \in 1..Len(buffer) : f[i] = Advance(f[i - 1], buffer[i])
                /\ ExecResponse(ps, buffer, FALSE) = f[Len(buffer)]
<1> DEFINE n == Len(buffer)
           f == CHOOSE g : IsRun(g, ps, buffer, n)
<1>1. n \in Nat
  OBVIOUS
<1>2. IsRun(f, ps, buffer, n)
  BY <1>1, RunExists
<1>3. ExecResponse(ps, buffer, FALSE) = f[n]
  BY Zenon DEF ExecResponse, IsRun, Turn
<1> HIDE DEF f
<1>4. \A i \in 0..n : f[i] = IF i = 0 THEN Begin(ps, buffer) ELSE Turn(f[i - 1], buffer[i])
  BY <1>2, Zenon DEF IsRun
<1>5. f[0] = Begin(ps, buffer)
  BY <1>1, <1>4
<1>6. \A i \in 1..n : f[i] = Advance(f[i - 1], buffer[i])
  BY <1>1, <1>4, TurnIsStep
<1> QED
  BY <1>3, <1>5, <1>6

-----------------------------------------------------------------------------

\* The places in which mark, fieldStart and fieldLen are going to be used.
MarkLive(q) ==
    \/ q[1] \in {"http", "major", "minor0", "minor", "chunk", "ext-value", "status", "reason", "value",
                 "number"}
    \/ q[1] = "word" /\ q[2] = ChunkedWord
FieldLive(q) == q[1] \in {"field", "name", "ext-name"}
LengthLive(q) ==
    \/ q[1] \in {"value0", "value", "skip", "number", "ext=", "ext-value"}
    \/ q[1] = "word" /\ q[2] = ChunkedWord

\* The actions that use what lies behind the mark.
Storing == {"ContentLen", "ChunkSize", "Version", "Status", "Reason", "WriteValue"}

\* The places that the machine is in at the beginning of a message and in the header of a
\* chunk: it is in no other at the same time.
Single == { <<"start">>, <<"chunk">>, <<"ext">>, <<"ext-name">>, <<"ext=">>, <<"ext-value">> }

LineStarts == { <<"line">>, <<"line-after-close">> }

\* An edge uses nothing that was not set, on it or before.
EdgeOK(e) ==
    /\ e.do \cap Storing # {} \/ MarkLive(e.to) => MarkLive(e.from) \/ "Mark" \in e.do
    /\ "WriteField" \in e.do \/ FieldLive(e.to) => FieldLive(e.from) \/ "StartField" \in e.do
    /\ "WriteValue" \in e.do \/ LengthLive(e.to) => LengthLive(e.from) \/ "WriteField" \in e.do
    /\ "WriteValue" \in e.do => e.from[1] # "skip"
    /\ "StartField" \in e.do => e.from \in LineStarts \cup { <<"ext">> }
    /\ e.to \in LineStarts => e.on = {"LF"}
    /\ "LF" \in e.on => e.to \in TokenEnds \/ e.to[1] = "skip"
    /\ e.to \in Single => e.from \in Single
    /\ e.to = <<"done">> <=> "Done" \in e.do

Words == {ConnectionField, ContentLengthField, TransferEncodingField, CloseWord, ChunkedWord}

(* No letter of a word of the grammar is an LF. *)
LEMMA LettersOfWords ==
  ASSUME NEW word \in Words
  PROVE  /\ "LF" \notin AnyCase(Head(word))
         /\ \A k \in 1..Len(word) - 1 : "LF" \notin AnyCase(word[k + 1])
<1>1. \A l : l # "LF" => "LF" \notin AnyCase(l)
  BY DEF AnyCase, Lower
<1>2. Len(word) \in Nat /\ Len(word) > 0 /\ \A k \in 1..Len(word) : word[k] # "LF"
  <2>1. CASE word = ConnectionField
    BY <2>1 DEF ConnectionField
  <2>2. CASE word = ContentLengthField
    BY <2>2 DEF ContentLengthField
  <2>3. CASE word = TransferEncodingField
    BY <2>3 DEF TransferEncodingField
  <2>4. CASE word = CloseWord
    BY <2>4 DEF CloseWord
  <2>5. CASE word = ChunkedWord
    BY <2>5 DEF ChunkedWord
  <2> QED
    BY <2>1, <2>2, <2>3, <2>4, <2>5 DEF Words
<1>3. Head(word) = word[1] /\ 1 \in 1..Len(word)
  BY <1>2 DEF Words, ConnectionField, ContentLengthField, TransferEncodingField, CloseWord, ChunkedWord
<1> HIDE DEF Words
<1> QED
  BY <1>1, <1>2, <1>3

(* Every edge of the machine. *)
LEMMA TableOK == \A e \in EdgeTable : EdgeOK(e)
<1> USE DEF EdgeOK, MarkLive, FieldLive, LengthLive, Storing, Single, LineStarts, TokenEnds, Edge
<1>1. \A e \in Message : EdgeOK(e)
  BY DEF Message, Xdigit, Decimal
<1>2. ASSUME NEW q \in { <<"chunk">>, <<"ext-name">>, <<"ext-value">> },
             NEW do \in { {"ChunkSize"}, {"Mark", "WriteField", "WriteValue"}, {"WriteValue"} },
             "ChunkSize" \in do => q = <<"chunk">>,
             "WriteField" \in do => q = <<"ext-name">>,
             do = {"WriteValue"} => q = <<"ext-value">>
      PROVE  \A e \in ChunkEnd(q, do) : EdgeOK(e)
  BY <1>2 DEF ChunkEnd
<1>3. \A e \in ChunkedHeader : EdgeOK(e)
  <2>1. \A e \in ChunkEnd(<<"chunk">>, {"ChunkSize"})
                 \cup ChunkEnd(<<"ext-name">>, {"Mark", "WriteField", "WriteValue"})
                 \cup ChunkEnd(<<"ext-value">>, {"WriteValue"}) : EdgeOK(e)
    BY <1>2
  <2>2. \A e \in { Edge(<<"chunk">>, Xdigit, {}, <<"chunk">>),
      Edge(<<"ext">>, TokChar, {"StartField"}, <<"ext-name">>),
      Edge(<<"ext-name">>, TokChar, {}, <<"ext-name">>),
      Edge(<<"ext-name">>, {"="}, {"Mark", "WriteField"}, <<"ext=">>),
      Edge(<<"ext=">>, TokChar, {"Mark"}, <<"ext-value">>),
      Edge(<<"ext-value">>, TokChar, {}, <<"ext-value">>) } : EdgeOK(e)
    BY DEF TokChar, Decimal, Letter, Xdigit
  <2> HIDE DEF EdgeOK, Edge
  <2> QED
    BY <2>1, <2>2, Zenon DEF ChunkedHeader
<1>4. \A e \in StatusLine : EdgeOK(e)
  BY DEF StatusLine, HTTP, Decimal
<1>5. \A e \in Reason : EdgeOK(e)
  BY DEF Reason
<1>6. \A q \in LineStarts : \A do \in {{}, {"Close"}} : \A e \in LineFrom(q, do) : EdgeOK(e)
  <2>1. \A name \in {ConnectionField, ContentLengthField, TransferEncodingField} : "LF" \notin AnyCase(Head(name))
    BY LettersOfWords, Zenon DEF Words
  <2> SUFFICES ASSUME NEW q \in LineStarts, NEW do \in {{}, {"Close"}}
               PROVE  \A e \in LineFrom(q, do) : EdgeOK(e)
    OBVIOUS
  <2>2. \A name : "LF" \notin AnyCase(Head(name)) =>
           EdgeOK(Edge(q, AnyCase(Head(name)), do \cup {"StartField"}, <<"name", name, 1>>))
    BY SMTT(20)
  <2>3. \A e \in { Edge(q, TokChar, do \cup {"StartField"}, <<"field">>),
                   Edge(q, {"CR"}, do, <<"blank-cr">>),
                   Edge(q, {"LF"}, do \cup {"Done"}, <<"done">>) } : EdgeOK(e)
    BY DEF TokChar, Decimal, Letter
  <2> HIDE DEF EdgeOK, Edge
  <2> QED
    BY <2>1, <2>2, <2>3 DEF LineFrom
<1>7. \A e \in HeaderLine \cup LineAfterClose : EdgeOK(e)
  BY <1>6 DEF HeaderLine, LineAfterClose
<1>8. \A e \in Field : EdgeOK(e)
  BY DEF Field, TokChar, Decimal, Letter
<1>9. \A e \in FieldValue : EdgeOK(e)
  BY DEF FieldValue, ValueEndFrom, Space
<1>10. ASSUME NEW name \in Words PROVE \A e \in Name(name) : EdgeOK(e)
  <2>1. \A k : "LF" \notin AnyCase(name[k + 1]) =>
           EdgeOK(Edge(<<"name", name, k>>, AnyCase(name[k + 1]), {}, <<"name", name, k + 1>>))
    BY SMTT(20)
  <2>2. /\ EdgeOK(Edge(<<"name", name, Len(name)>>, {":"}, {"WriteField"}, <<"skip", name>>))
        /\ EdgeOK(Edge(<<"skip", name>>, Space, {}, <<"skip", name>>))
    BY SMTT(20)
  <2> HIDE DEF EdgeOK, Edge
  <2> QED
    BY <2>1, <2>2, LettersOfWords DEF Name
<1>11. ASSUME NEW name, NEW word \in Words, NEW do \in {{}, {"Mark"}}, word = ChunkedWord => do = {"Mark"}
       PROVE  \A e \in Word(name, word, do) : EdgeOK(e)
  <2>1. \A k : "LF" \notin AnyCase(word[k + 1]) =>
           EdgeOK(Edge(<<"word", word, k>>, AnyCase(word[k + 1]), {}, <<"word", word, k + 1>>))
    BY SMTT(20)
  <2>2. "LF" \notin AnyCase(Head(word)) =>
           EdgeOK(Edge(<<"skip", name>>, AnyCase(Head(word)), do, <<"word", word, 1>>))
    BY <1>11, SMTT(20)
  <2> HIDE DEF EdgeOK, Edge
  <2> QED
    BY <2>1, <2>2, LettersOfWords DEF Word
<1>12. ConnectionField \in Words /\ ContentLengthField \in Words /\ TransferEncodingField \in Words /\ CloseWord \in Words
       /\ ChunkedWord \in Words /\ CloseWord # ChunkedWord
  BY DEF Words, CloseWord, ChunkedWord
<1>13. \A e \in ConnClose : EdgeOK(e)
  <2>1. \A e \in Name(ConnectionField) \cup Word(ConnectionField, CloseWord, {}) : EdgeOK(e)
    BY <1>10, <1>11, <1>12
  <2>2. \A e \in { Edge(<<"word", CloseWord, Len(CloseWord)>>, {"LF"}, {}, <<"line-after-close">>),
           Edge(<<"word", CloseWord, Len(CloseWord)>>, {"CR"}, {}, <<"close-cr">>),
           Edge(<<"close-cr">>, {"LF"}, {}, <<"line-after-close">>) } : EdgeOK(e)
    OBVIOUS
  <2> HIDE DEF EdgeOK, Edge
  <2> QED
    BY <2>1, <2>2, Zenon DEF ConnClose
<1>14. \A e \in TransferEncodingChunked : EdgeOK(e)
  <2>1. \A e \in Name(TransferEncodingField) \cup Word(TransferEncodingField, ChunkedWord, {"Mark"}) : EdgeOK(e)
    BY <1>10, <1>11, <1>12
  <2>2. \A e \in { Edge(<<"word", ChunkedWord, Len(ChunkedWord)>>, {"LF"}, {"WriteValue", "Chunked"}, <<"line">>),
           Edge(<<"word", ChunkedWord, Len(ChunkedWord)>>, {"CR"}, {"WriteValue"}, <<"chunked-cr">>),
           Edge(<<"chunked-cr">>, {"LF"}, {"Chunked"}, <<"line">>) } : EdgeOK(e)
    OBVIOUS
  <2> HIDE DEF EdgeOK, Edge
  <2> QED
    BY <2>1, <2>2, Zenon DEF TransferEncodingChunked
<1>15. \A e \in ContentLengthNumber : EdgeOK(e)
  BY DEF ContentLengthNumber, ValueEndFrom, Decimal
<1> HIDE DEF EdgeOK, MarkLive, FieldLive, LengthLive, Storing, Single, LineStarts, TokenEnds, Edge
<1> QED
  BY <1>1, <1>3, <1>4, <1>5, <1>7, <1>8, <1>9, <1>10, <1>12, <1>13, <1>14, <1>15, Zenon DEF EdgeTable

(* No two edges leave such a place on the same character. *)
LEMMA SingleEdges ==
  ASSUME NEW e \in EdgeTable, NEW f \in EdgeTable, e.from \in Single, f.from = e.from,
         NEW c, c \in e.on, c \in f.on
  PROVE  e = f
<1> DEFINE Elsewhere(g) == g.from \notin Single
           Small == Message \cup ChunkedHeader
<1>1. \A g \in EdgeTable : Elsewhere(g) \/ g \in Small
  <2> USE DEF Edge, Single
  <2>1. \A g \in StatusLine \cup Reason : Elsewhere(g)
    BY DEF StatusLine, Reason
  <2>2. \A q \in LineStarts : \A do : \A g \in LineFrom(q, do) : Elsewhere(g)
    BY DEF LineFrom, LineStarts
  <2>3. \A g \in HeaderLine \cup LineAfterClose : Elsewhere(g)
    BY <2>2 DEF HeaderLine, LineAfterClose, LineStarts
  <2>4. \A g \in Field \cup FieldValue : Elsewhere(g)
    BY DEF Field, FieldValue, ValueEndFrom
  <2>5. \A name : \A g \in Name(name) : Elsewhere(g)
    BY DEF Name
  <2>6. \A name, word, do : \A g \in Word(name, word, do) : Elsewhere(g)
    BY DEF Word
  <2>7. \A g \in ConnClose \cup TransferEncodingChunked : Elsewhere(g)
    BY <2>5, <2>6 DEF ConnClose, TransferEncodingChunked
  <2>8. \A g \in ContentLengthNumber : Elsewhere(g)
    BY DEF ContentLengthNumber, ValueEndFrom
  <2> HIDE DEF Elsewhere, Edge, Single
  <2> QED
    BY <2>1, <2>3, <2>4, <2>5, <2>7, <2>8, Zenon DEF EdgeTable
<1>2. e \in Small /\ f \in Small
  BY <1>1
<1> HIDE DEF Small
<1> USE DEF Edge, Xdigit, Decimal, TokChar, Letter
<1>3. CASE e.from = <<"start">>
  BY <1>2, <1>3, SMTT(40) DEF Small, Message, ChunkedHeader, ChunkEnd
<1>4. CASE e.from = <<"chunk">>
  BY <1>2, <1>4, SMTT(40) DEF Small, Message, ChunkedHeader, ChunkEnd
<1>5. CASE e.from = <<"ext">>
  BY <1>2, <1>5, SMTT(40) DEF Small, Message, ChunkedHeader, ChunkEnd
<1>6. CASE e.from = <<"ext-name">>
  BY <1>2, <1>6 DEF Small, Message, ChunkedHeader, ChunkEnd
<1>7. CASE e.from = <<"ext=">>
  BY <1>2, <1>7 DEF Small, Message, ChunkedHeader, ChunkEnd
<1>8. CASE e.from = <<"ext-value">>
  BY <1>2, <1>8 DEF Small, Message, ChunkedHeader, ChunkEnd
<1> QED
  BY <1>3, <1>4, <1>5, <1>6, <1>7, <1>8 DEF Single

LEMMA MovesOK ==
  ASSUME NEW cs, NEW c, NEW e \in MovesOf(cs, c)
  PROVE  e \in EdgeTable /\ e.from \in cs /\ c \in e.on /\ EdgeOK(e) /\ <<"done">> \notin cs
<1>1. <<"done">> \notin cs /\ c \in e.on /\ e \in UNION { EdgesFrom[q] : q \in cs \cap DOMAIN EdgesFrom }
  BY DEF MovesOf
<1>2. PICK q \in cs \cap DOMAIN EdgesFrom : e \in EdgesFrom[q]
  BY <1>1
<1>3. e \in EdgeTable /\ e.from = q
  BY <1>2 DEF EdgesFrom
<1> QED
  BY <1>1, <1>2, <1>3, TableOK

\* The places that the machine is in together.
Coherent(cs) ==
    /\ \A q \in cs : q \in Single => cs = {q}
    /\ cs \cap LineStarts # {} => AtTokenEnd(cs)

\* What is live in a state. Between two tokens nothing is: a place that still skips spaces
\* behind the colon of a line before finds nothing more.
LiveAt(cs) ==
    IF AtTokenEnd(cs) THEN {}
    ELSE { x \in {"mark", "field", "length"} :
             \E q \in cs : \/ x = "mark" /\ MarkLive(q)
                           \/ x = "field" /\ FieldLive(q)
                           \/ x = "length" /\ LengthLive(q) }

\* What is live after the actions of a step, and whether they use nothing else.
LiveBehind(live, acts) ==
    { x \in {"mark", "field", "length"} :
        \/ x \in live /\ (x = "length" => "StartField" \notin acts)
        \/ x = "mark" /\ "Mark" \in acts
        \/ x = "field" /\ "StartField" \in acts
        \/ x = "length" /\ "WriteField" \in acts }

Allowed(live, acts) ==
    /\ acts \cap Storing # {} => "mark" \in LiveBehind(live, acts)
    /\ "WriteField" \in acts => "field" \in LiveBehind(live, acts)
    /\ "WriteValue" \in acts => "length" \in LiveBehind(live, acts)

\* Where the edges of a step lead, and what they do.
Targets(m) == { e.to : e \in m }
Acts(m) == UNION { e.do : e \in m }

\* What skips the spaces of a value takes up no word of a later line.
SkipsEnd(cs, x) ==
    LET m == MovesOf(cs, x)
    IN AtTokenEnd(cs) /\ (\E e \in m : e.from[1] = "skip") => AtTokenEnd(Targets(m))

(* Where a line begins nothing is live. *)
LEMMA DeadPlaces ==
  ASSUME NEW q
  PROVE  /\ q \in TokenEnds \cup { <<"ext">> } => ~MarkLive(q) /\ ~FieldLive(q) /\ ~LengthLive(q)
         /\ q[1] = "skip" => ~MarkLive(q) /\ ~FieldLive(q)
<1>1. \A x \in {"start", "status0", "reason0", "line", "line-after-close", "cr", "blank-cr", "close-cr",
                "chunked-cr", "done", "ext"} :
         ~MarkLive(<<x>>) /\ ~FieldLive(<<x>>) /\ ~LengthLive(<<x>>)
  BY DEF MarkLive, FieldLive, LengthLive
<1>2. q[1] = "skip" => ~MarkLive(q) /\ ~FieldLive(q)
  BY DEF MarkLive, FieldLive
<1> QED
  BY <1>1, <1>2 DEF TokenEnds

LEMMA LiveAlongMoves ==
  ASSUME NEW cs, Coherent(cs), NEW c, SkipsEnd(cs, c), MovesOf(cs, c) # {}
  PROVE  LET m == MovesOf(cs, c) IN
         /\ Allowed(LiveAt(cs), Acts(m))
         /\ LiveAt(Targets(m)) \subseteq LiveBehind(LiveAt(cs), Acts(m))
         /\ Coherent(Targets(m))
         /\ <<"done">> \in Targets(m) <=> "Done" \in Acts(m)
<1> DEFINE m == MovesOf(cs, c)
           to == Targets(m)
           acts == Acts(m)
<1>0. m = MovesOf(cs, c) /\ (AtTokenEnd(cs) /\ (\E e \in m : e.from[1] = "skip") => AtTokenEnd(to))
  BY DEF SkipsEnd
<1>2. /\ \A a : a \in acts <=> \E e \in m : a \in e.do
      /\ \A q : q \in to <=> \E e \in m : q = e.to
  BY DEF Acts, Targets
<1> SUFFICES /\ Allowed(LiveAt(cs), acts) /\ LiveAt(to) \subseteq LiveBehind(LiveAt(cs), acts)
             /\ Coherent(to) /\ (<<"done">> \in to <=> "Done" \in acts)
  OBVIOUS
<1> HIDE DEF m, to, acts
<1>1. \A e \in m : e \in EdgeTable /\ e.from \in cs /\ c \in e.on /\ EdgeOK(e)
  BY <1>0, MovesOK
<1>3. Coherent(to)
  <2>1. ASSUME NEW q \in to, q \in Single PROVE to = {q}
    <3>1. PICK e \in m : q = e.to
      BY <1>2
    <3>2. e.from \in Single
      BY <1>1, <2>1, <3>1 DEF EdgeOK
    <3>3. cs = {e.from}
      BY <1>1, <3>2 DEF Coherent
    <3>4. \A f \in m : f = e
      BY <1>1, <3>2, <3>3, SingleEdges
    <3> QED
      BY <1>2, <3>1, <3>4
  <2>2. ASSUME NEW q \in to, q \in LineStarts PROVE AtTokenEnd(to)
    <3>1. PICK e \in m : q = e.to
      BY <1>2
    <3>2. c = "LF"
      BY <1>1, <2>2, <3>1 DEF EdgeOK
    <3>3. \A f \in m : f.to \in TokenEnds \/ f.to[1] = "skip"
      BY <1>1, <3>2 DEF EdgeOK
    <3>4. q \in TokenEnds
      BY <2>2 DEF LineStarts, TokenEnds
    <3> QED
      BY <1>2, <3>3, <3>4 DEF AtTokenEnd
  <2> QED
    BY <2>1, <2>2 DEF Coherent
<1>4. <<"done">> \in to <=> "Done" \in acts
  BY <1>1, <1>2 DEF EdgeOK
\* The edges of m whose places are dead.
<1> DEFINE Dead(q) == ~MarkLive(q) /\ ~FieldLive(q) /\ ~LengthLive(q)
           live == LiveAt(cs)
<1>5. ASSUME \A e \in m : Dead(e.from) \/ (e.from[1] = "skip" /\ AtTokenEnd(to))
      PROVE  Allowed({}, acts) /\ LiveAt(to) \subseteq LiveBehind({}, acts)
  <2>1. \A e \in m : ~MarkLive(e.from) /\ ~FieldLive(e.from) /\ ("WriteValue" \in e.do => ~LengthLive(e.from))
    BY <1>1, <1>5, DeadPlaces DEF EdgeOK
  <2>2. Allowed({}, acts)
    <3>1. acts \cap Storing # {} => "Mark" \in acts
      BY <1>1, <1>2, <2>1 DEF EdgeOK
    <3>2. "WriteField" \in acts => "StartField" \in acts
      BY <1>1, <1>2, <2>1 DEF EdgeOK
    <3>3. "WriteValue" \in acts => "WriteField" \in acts
      BY <1>1, <1>2, <2>1 DEF EdgeOK
    <3> QED
      BY <3>1, <3>2, <3>3 DEF Allowed, LiveBehind
  <2>3. CASE AtTokenEnd(to)
    BY <2>2, <2>3 DEF LiveAt
  <2>4. CASE ~AtTokenEnd(to)
    <3>1. \A e \in m : Dead(e.from)
      BY <1>5, <2>4
    <3>2. /\ \A e \in m : MarkLive(e.to) => "Mark" \in acts
          /\ \A e \in m : FieldLive(e.to) => "StartField" \in acts
          /\ \A e \in m : LengthLive(e.to) => "WriteField" \in acts
      BY <1>1, <1>2, <3>1 DEF EdgeOK
    <3>3. \A x \in LiveAt(to) : x \in LiveBehind({}, acts)
      BY <1>2, <3>2, <2>4 DEF LiveAt, LiveBehind
    <3> QED
      BY <2>2, <3>3
  <2> QED
    BY <2>3, <2>4
<1>6. CASE AtTokenEnd(cs)
  <2>1. live = {}
    BY <1>6 DEF LiveAt
  <2>2. \A e \in m : e.from \in TokenEnds \/ e.from[1] = "skip"
    BY <1>1, <1>6 DEF AtTokenEnd
  <2>3. \A e \in m : Dead(e.from) \/ (e.from[1] = "skip" /\ AtTokenEnd(to))
    BY <1>0, <1>6, <2>2, DeadPlaces
  <2> QED
    BY <1>3, <1>4, <1>5, <2>1, <2>3
<1>7. CASE ~AtTokenEnd(cs) /\ "StartField" \in acts
  <2>1. PICK e \in m : "StartField" \in e.do
    BY <1>2, <1>7
  <2>2. e.from = <<"ext">>
    BY <1>1, <1>7, <2>1 DEF EdgeOK, Coherent
  <2>3. cs = { <<"ext">> }
    BY <1>1, <2>2 DEF Coherent, Single
  <2>4. \A f \in m : Dead(f.from)
    BY <1>1, <2>3, DeadPlaces
  <2>5. live = {}
    BY <2>3, <1>7, DeadPlaces DEF LiveAt
  <2> QED
    BY <1>3, <1>4, <1>5, <2>4, <2>5
<1>8. CASE ~AtTokenEnd(cs) /\ "StartField" \notin acts
  <2>1. /\ \A e \in m : MarkLive(e.from) => "mark" \in live
        /\ \A e \in m : FieldLive(e.from) => "field" \in live
        /\ \A e \in m : LengthLive(e.from) => "length" \in live
    BY <1>1, <1>8 DEF LiveAt
  <2> HIDE DEF live
  <2>2. /\ \A e \in m : e.do \cap Storing # {} \/ MarkLive(e.to) => "mark" \in live \/ "Mark" \in acts
        /\ \A e \in m : "WriteField" \in e.do \/ FieldLive(e.to) => "field" \in live \/ "StartField" \in acts
        /\ \A e \in m : "WriteValue" \in e.do \/ LengthLive(e.to) => "length" \in live \/ "WriteField" \in acts
    BY <1>1, <1>2, <2>1 DEF EdgeOK
  <2>3. Allowed(live, acts)
    BY <1>2, <1>8, <2>2 DEF Allowed, LiveBehind
  <2>4. \A x \in LiveAt(to) : x \in LiveBehind(live, acts)
    BY <1>2, <1>8, <2>2 DEF LiveAt, LiveBehind
  <2> QED
    BY <1>3, <1>4, <2>3, <2>4 DEF live
<1> QED
  BY <1>6, <1>7, <1>8

-----------------------------------------------------------------------------

IsResponse(q) ==
    q = [version |-> q.version, status |-> q.status, reason |-> q.reason, headers |-> q.headers]

\* A call of execute() on a buffer, at some character.
IsRunOf(r, buffer) ==
    /\ r = [cs |-> r.cs, contentLen |-> r.contentLen, chunked |-> r.chunked,
            chunksDone |-> r.chunksDone, close |-> r.close, error |-> r.error,
            response |-> r.response, buf |-> buffer, p |-> r.p, mark |-> r.mark,
            fieldStart |-> r.fieldStart, fieldLen |-> r.fieldLen, stop |-> r.stop]
    /\ IsResponse(r.response)
    /\ r.p \in 0..Len(buffer)

\* The buffer piece is what follows the first c characters of text.
Shifted(text, piece, c) ==
    /\ text \in Seq(RespChar) /\ piece \in Seq(RespChar)
    /\ c \in Nat /\ c + Len(piece) <= Len(text)
    /\ \A j \in 1..Len(piece) : piece[j] = text[c + j]

\* What a parser has to be to go on like another.
SameParser(a, b) ==
    /\ a.cs = b.cs /\ a.contentLen = b.contentLen /\ a.chunked = b.chunked
    /\ a.chunksDone = b.chunksDone /\ a.close = b.close /\ a.error = b.error
    /\ a.response = b.response

\* The marks that are live, in a run on the piece and in one on the text.
SameMarks(r, w, c, p, live) ==
    /\ "mark" \in live => r.mark \in 0..p /\ w.mark = r.mark + c
    /\ "field" \in live => r.fieldStart \in 0..p /\ w.fieldStart = r.fieldStart + c
    /\ "length" \in live =>
        /\ r.fieldStart \in Nat /\ r.fieldLen \in Nat /\ r.fieldStart + r.fieldLen <= p
        /\ w.fieldStart = r.fieldStart + c /\ w.fieldLen = r.fieldLen

\* A run r on the piece, which has read p characters, and a run w on the text that differ
\* in nothing but where the piece begins; of the marks, those that are live.
Like(r, w, text, piece, c, p, stop, live) ==
    /\ IsRunOf(r, piece) /\ IsRunOf(w, text)
    /\ r.p = p /\ w.p = p + c /\ r.stop = stop /\ w.stop = stop
    /\ SameParser(r, w)
    /\ SameMarks(r, w, c, p, live)

(* What the parser keeps, set in both runs. *)
LEMMA FieldsLike ==
  ASSUME NEW text, NEW piece, NEW c, NEW p, NEW stop, NEW r, NEW w, NEW live,
         Like(r, w, text, piece, c, p, stop, live), NEW v
  PROVE  /\ Like([r EXCEPT !.cs = v], [w EXCEPT !.cs = v], text, piece, c, p, stop, live)
         /\ Like([r EXCEPT !.contentLen = v], [w EXCEPT !.contentLen = v], text, piece, c, p, stop, live)
         /\ Like([r EXCEPT !.chunked = v], [w EXCEPT !.chunked = v], text, piece, c, p, stop, live)
         /\ Like([r EXCEPT !.chunksDone = v], [w EXCEPT !.chunksDone = v], text, piece, c, p, stop, live)
         /\ Like([r EXCEPT !.close = v], [w EXCEPT !.close = v], text, piece, c, p, stop, live)
         /\ Like([r EXCEPT !.error = v], [w EXCEPT !.error = v], text, piece, c, p, stop, live)
         /\ Like([r EXCEPT !.stop = v], [w EXCEPT !.stop = v], text, piece, c, p, v, live)
         /\ Like([r EXCEPT !.response.version = v], [w EXCEPT !.response.version = v],
                 text, piece, c, p, stop, live)
         /\ Like([r EXCEPT !.response.status = v], [w EXCEPT !.response.status = v],
                 text, piece, c, p, stop, live)
         /\ Like([r EXCEPT !.response.reason = v], [w EXCEPT !.response.reason = v],
                 text, piece, c, p, stop, live)
         /\ Like([r EXCEPT !.response.headers = v], [w EXCEPT !.response.headers = v],
                 text, piece, c, p, stop, live)
<1> USE DEF Like, IsRunOf, SameParser, SameMarks
<1>1. Like([r EXCEPT !.cs = v], [w EXCEPT !.cs = v], text, piece, c, p, stop, live)
  OBVIOUS
<1>2. Like([r EXCEPT !.contentLen = v], [w EXCEPT !.contentLen = v], text, piece, c, p, stop, live)
  OBVIOUS
<1>3. Like([r EXCEPT !.chunked = v], [w EXCEPT !.chunked = v], text, piece, c, p, stop, live)
  OBVIOUS
<1>4. Like([r EXCEPT !.chunksDone = v], [w EXCEPT !.chunksDone = v], text, piece, c, p, stop, live)
  OBVIOUS
<1>5. Like([r EXCEPT !.close = v], [w EXCEPT !.close = v], text, piece, c, p, stop, live)
  OBVIOUS
<1>6. Like([r EXCEPT !.error = v], [w EXCEPT !.error = v], text, piece, c, p, stop, live)
  OBVIOUS
<1>7. Like([r EXCEPT !.stop = v], [w EXCEPT !.stop = v], text, piece, c, p, v, live)
  OBVIOUS
<1> USE DEF IsResponse
<1>8. Like([r EXCEPT !.response.version = v], [w EXCEPT !.response.version = v],
           text, piece, c, p, stop, live)
  OBVIOUS
<1>9. Like([r EXCEPT !.response.status = v], [w EXCEPT !.response.status = v],
           text, piece, c, p, stop, live)
  OBVIOUS
<1>10. Like([r EXCEPT !.response.reason = v], [w EXCEPT !.response.reason = v],
            text, piece, c, p, stop, live)
  OBVIOUS
<1>11. Like([r EXCEPT !.response.headers = v], [w EXCEPT !.response.headers = v],
            text, piece, c, p, stop, live)
  OBVIOUS
<1> HIDE DEF Like
<1> QED
  BY <1>1, <1>2, <1>3, <1>4, <1>5, <1>6, <1>7, <1>8, <1>9, <1>10, <1>11, Zenon

\* The stretch from a to b of the piece, in both.
SameStretch(text, piece, c, a, b) == SubSeq(text, a + c + 1, b + c) = SubSeq(piece, a + 1, b)

LEMMA SameText ==
  ASSUME NEW text, NEW piece, NEW c, Shifted(text, piece, c)
  PROVE  \A a \in Nat : \A b \in 0..Len(piece) : a <= b => SameStretch(text, piece, c, a, b)
<1> SUFFICES ASSUME NEW a \in Nat, NEW b \in 0..Len(piece), a <= b
             PROVE  SubSeq(text, a + c + 1, b + c) = SubSeq(piece, a + 1, b)
  BY DEF SameStretch
<1> DEFINE s == SubSeq(text, a + c + 1, b + c)
           u == SubSeq(piece, a + 1, b)
<1>1. /\ text \in Seq(RespChar) /\ piece \in Seq(RespChar) /\ c \in Nat /\ b \in Nat
      /\ Len(text) \in Nat /\ Len(piece) \in Nat
      /\ c + Len(piece) <= Len(text) /\ b <= Len(piece)
      /\ \A j \in 1..Len(piece) : piece[j] = text[c + j]
  BY DEF Shifted
<1>2. /\ u \in Seq(RespChar) /\ Len(u) = b - a
      /\ \A j \in 1..b - a : u[j] = piece[a + j]
  <2>1. \A j \in a + 1..b : piece[j] \in RespChar
    BY <1>1
  <2>2. /\ u \in Seq(RespChar)
        /\ Len(u) = IF a + 1 <= b THEN b - (a + 1) + 1 ELSE 0
        /\ \A j \in 1..b - (a + 1) + 1 : u[j] = piece[a + 1 + j - 1]
    BY <1>1, <2>1, SubSeqProperties
  <2> HIDE DEF u
  <2>3. \A j \in 1..b - a : u[j] = piece[a + j]
    <3> TAKE j \in 1..b - a
    <3>1. j \in 1..b - (a + 1) + 1 /\ a + 1 + j - 1 = a + j
      BY <1>1
    <3> QED
      BY <2>2, <3>1
  <2> QED
    BY <1>1, <2>2, <2>3
<1>3. /\ s \in Seq(RespChar) /\ Len(s) = b - a
      /\ \A j \in 1..b - a : s[j] = text[a + c + j]
  <2>1. \A j \in a + c + 1..b + c : text[j] \in RespChar
    BY <1>1
  <2>2. /\ s \in Seq(RespChar)
        /\ Len(s) = IF a + c + 1 <= b + c THEN b + c - (a + c + 1) + 1 ELSE 0
        /\ \A j \in 1..b + c - (a + c + 1) + 1 : s[j] = text[a + c + 1 + j - 1]
    BY <1>1, <2>1, SubSeqProperties
  <2> HIDE DEF s
  <2>3. \A j \in 1..b - a : s[j] = text[a + c + j]
    <3> TAKE j \in 1..b - a
    <3>1. j \in 1..b + c - (a + c + 1) + 1 /\ a + c + 1 + j - 1 = a + c + j
      BY <1>1
    <3> QED
      BY <2>2, <3>1
  <2> QED
    BY <1>1, <2>2, <2>3
<1>4. \A j \in 1..b - a : text[a + c + j] = piece[a + j]
  <2> TAKE j \in 1..b - a
  <2>1. a + j \in 1..Len(piece) /\ a + c + j = c + (a + j)
    BY <1>1
  <2> QED
    BY <1>1, <2>1
<1> HIDE DEF s, u
<1>5. \A j \in 1..b - a : s[j] = u[j]
  BY <1>2, <1>3, <1>4
<1>6. s = u
  <2>1. Len(s) = Len(u) /\ \A j \in 1..Len(u) : s[j] = u[j]
    BY <1>2, <1>3, <1>5
  <2> QED
    BY <1>2, <1>3, <2>1, SeqEqual
<1> QED
  BY <1>6 DEF s, u

(* Actions that set a mark. *)
LEMMA MarkLike ==
  ASSUME NEW text, NEW piece, NEW c, Shifted(text, piece, c), NEW p, NEW stop, NEW r, NEW w, NEW live,
         Like(r, w, text, piece, c, p, stop, live)
  PROVE  /\ Like(DoAct(r, "Mark"), DoAct(w, "Mark"), text, piece, c, p, stop, live \cup {"mark"})
         /\ Like(DoAct(r, "StartField"), DoAct(w, "StartField"), text, piece, c, p, stop,
                 (live \ {"length"}) \cup {"field"})
         /\ "field" \in live =>
              Like(DoAct(r, "WriteField"), DoAct(w, "WriteField"), text, piece, c, p, stop,
                   live \cup {"length"})
<1>1. /\ c \in Nat /\ Len(piece) \in Nat /\ p \in Nat /\ r.p = p /\ w.p = p + c
      /\ IsRunOf(r, piece) /\ IsRunOf(w, text) /\ r.stop = stop /\ w.stop = stop
      /\ SameParser(r, w) /\ SameMarks(r, w, c, p, live)
  BY DEF Shifted, Like, IsRunOf
<1>2. /\ DoAct(r, "Mark") = [r EXCEPT !.mark = r.p] /\ DoAct(w, "Mark") = [w EXCEPT !.mark = w.p]
      /\ DoAct(r, "StartField") = [r EXCEPT !.fieldStart = r.p]
      /\ DoAct(w, "StartField") = [w EXCEPT !.fieldStart = w.p]
      /\ DoAct(r, "WriteField") = [r EXCEPT !.fieldLen = r.p - r.fieldStart]
      /\ DoAct(w, "WriteField") = [w EXCEPT !.fieldLen = w.p - w.fieldStart]
  BY Zenon DEF DoAct
<1>3. Like(DoAct(r, "Mark"), DoAct(w, "Mark"), text, piece, c, p, stop, live \cup {"mark"})
  <2>1. Like([r EXCEPT !.mark = r.p], [w EXCEPT !.mark = w.p], text, piece, c, p, stop,
             live \cup {"mark"})
    BY <1>1 DEF Like, IsRunOf, SameParser, SameMarks
  <2> QED
    BY <1>2, <2>1, Zenon
<1>4. Like(DoAct(r, "StartField"), DoAct(w, "StartField"), text, piece, c, p, stop,
           (live \ {"length"}) \cup {"field"})
  <2>1. Like([r EXCEPT !.fieldStart = r.p], [w EXCEPT !.fieldStart = w.p], text, piece, c, p, stop,
             (live \ {"length"}) \cup {"field"})
    BY <1>1 DEF Like, IsRunOf, SameParser, SameMarks
  <2> QED
    BY <1>2, <2>1, Zenon
<1>5. ASSUME "field" \in live
      PROVE  Like(DoAct(r, "WriteField"), DoAct(w, "WriteField"), text, piece, c, p, stop,
                  live \cup {"length"})
  <2>1. r.fieldStart \in 0..p /\ w.fieldStart = r.fieldStart + c
    BY <1>1, <1>5 DEF SameMarks
  <2>2. /\ r.p - r.fieldStart \in Nat /\ r.fieldStart \in Nat
        /\ r.fieldStart + (r.p - r.fieldStart) <= p
        /\ w.p - w.fieldStart = r.p - r.fieldStart
    BY <1>1, <2>1
  <2>3. \A l \in Nat : r.fieldStart + l <= p =>
            Like([r EXCEPT !.fieldLen = l], [w EXCEPT !.fieldLen = l], text, piece, c, p, stop,
                 live \cup {"length"})
    <3> TAKE l \in Nat
    <3> HAVE r.fieldStart + l <= p
    <3> DEFINE d == [r EXCEPT !.fieldLen = l]
               f == [w EXCEPT !.fieldLen = l]
    <3>1. /\ IsRunOf(d, piece) /\ d.p = r.p /\ d.stop = r.stop /\ SameParser(d, r)
          /\ d.mark = r.mark /\ d.fieldStart = r.fieldStart /\ d.fieldLen = l
      BY <1>1 DEF IsRunOf, SameParser
    <3>2. /\ IsRunOf(f, text) /\ f.p = w.p /\ f.stop = w.stop /\ SameParser(f, w)
          /\ f.mark = w.mark /\ f.fieldStart = w.fieldStart /\ f.fieldLen = l
      BY <1>1 DEF IsRunOf, SameParser
    <3> HIDE DEF d, f
    <3>3. SameMarks(d, f, c, p, live \cup {"length"})
      BY <1>1, <2>1, <2>2, <3>1, <3>2 DEF SameMarks
    <3>4. SameParser(d, f)
      BY <1>1, <3>1, <3>2 DEF SameParser
    <3>5. Like(d, f, text, piece, c, p, stop, live \cup {"length"})
      BY <1>1, <3>1, <3>2, <3>3, <3>4 DEF Like
    <3> QED
      BY <3>5 DEF d, f
  <2> DEFINE l == r.p - r.fieldStart
  <2>4. DoAct(r, "WriteField") = [r EXCEPT !.fieldLen = l]
    BY <1>2, Zenon
  <2>5. DoAct(w, "WriteField") = [w EXCEPT !.fieldLen = l]
    BY <1>2, <2>2, Zenon
  <2>6. l \in Nat /\ r.fieldStart + l <= p
    BY <1>1, <2>2
  <2> HIDE DEF l
  <2> QED
    BY <2>3, <2>4, <2>5, <2>6, Zenon
<1> QED
  BY <1>3, <1>4, <1>5

LEMMA FewerLive ==
  ASSUME NEW text, NEW piece, NEW c, NEW p, NEW stop, NEW r, NEW w, NEW live, NEW some \in SUBSET live,
         Like(r, w, text, piece, c, p, stop, live)
  PROVE  Like(r, w, text, piece, c, p, stop, some)
  BY DEF Like, SameMarks

(* Actions that store the text behind the mark, or what it says. *)
LEMMA TextLike ==
  ASSUME NEW text, NEW piece, NEW c, Shifted(text, piece, c), NEW p, NEW stop, NEW r, NEW w, NEW live,
         Like(r, w, text, piece, c, p, stop, live), "mark" \in live
  PROVE  \A act \in {"ContentLen", "ChunkSize", "Version", "Status", "Reason"} :
            Like(DoAct(r, act), DoAct(w, act), text, piece, c, p, stop, live)
<1> DEFINE t == Text(r, r.mark)
           L(d, f) == Like(d, f, text, piece, c, p, stop, live)
<1>1. /\ c \in Nat /\ p \in 0..Len(piece) /\ p \in Nat /\ r.p = p /\ w.p = p + c
      /\ r.mark \in Nat /\ r.mark <= p /\ w.mark = r.mark + c /\ r.buf = piece /\ w.buf = text
      /\ r.mark + 1 + c = w.mark + 1
  BY DEF Shifted, Like, IsRunOf, SameMarks
<1>2. Text(w, w.mark) = t
  <2>1. SameStretch(text, piece, c, r.mark, p)
    BY <1>1, SameText
  <2>2. SubSeq(text, r.mark + c + 1, p + c) = SubSeq(piece, r.mark + 1, p)
    BY <2>1 DEF SameStretch
  <2>3. Text(w, w.mark) = SubSeq(text, r.mark + c + 1, p + c)
    BY <1>1 DEF Text
  <2>4. Text(r, r.mark) = SubSeq(piece, r.mark + 1, p)
    BY <1>1 DEF Text
  <2> QED
    BY <2>2, <2>3, <2>4
<1>3. L(r, w)
  OBVIOUS
<1>4. \A d, f, v : L(d, f) =>
        /\ L([d EXCEPT !.contentLen = v], [f EXCEPT !.contentLen = v])
        /\ L([d EXCEPT !.chunked = v], [f EXCEPT !.chunked = v])
        /\ L([d EXCEPT !.chunksDone = v], [f EXCEPT !.chunksDone = v])
        /\ L([d EXCEPT !.error = v], [f EXCEPT !.error = v])
        /\ L([d EXCEPT !.response.version = v], [f EXCEPT !.response.version = v])
        /\ L([d EXCEPT !.response.status = v], [f EXCEPT !.response.status = v])
        /\ L([d EXCEPT !.response.reason = v], [f EXCEPT !.response.reason = v])
  <2> TAKE d, f, v
  <2> HAVE L(d, f)
  <2> QED
    BY FieldsLike, Zenon
<1> HIDE DEF t, L
<1>5. L(DoAct(r, "ContentLen"), DoAct(w, "ContentLen"))
  <2>1. /\ DoAct(r, "ContentLen") = [r EXCEPT !.contentLen = NumberIn(10, t)]
        /\ DoAct(w, "ContentLen") = [w EXCEPT !.contentLen = NumberIn(10, t)]
    BY <1>2, Zenon DEF DoAct, t
  <2> DEFINE size == NumberIn(10, t)
  <2> HIDE DEF size
  <2>2. L([r EXCEPT !.contentLen = size], [w EXCEPT !.contentLen = size])
    BY <1>3, <1>4, Zenon
  <2> QED
    BY <2>1, <2>2, Zenon DEF size
<1>6. L(DoAct(r, "ChunkSize"), DoAct(w, "ChunkSize"))
  <2> DEFINE size == NumberIn(16, t)
             done == size <= 0
  <2>1. DoAct(r, "ChunkSize") = ChunkSize(r) /\ DoAct(w, "ChunkSize") = ChunkSize(w)
    BY Zenon DEF DoAct
  <2>2. /\ ChunkSize(r) = [r EXCEPT !.chunked = TRUE, !.contentLen = size, !.chunksDone = done]
        /\ ChunkSize(w) = [w EXCEPT !.chunked = TRUE, !.contentLen = size, !.chunksDone = done]
    BY <1>2, Zenon DEF ChunkSize, t
  <2> HIDE DEF size, done
  <2> DEFINE One1(q) == [q EXCEPT !.chunked = TRUE]
             Two(q) == [One1(q) EXCEPT !.contentLen = size]
             Three(q) == [Two(q) EXCEPT !.chunksDone = done]
  <2>3. \A q : [q EXCEPT !.chunked = TRUE, !.contentLen = size, !.chunksDone = done] = Three(q)
    OBVIOUS
  <2>4. L(One1(r), One1(w))
    BY <1>3, <1>4, Zenon
  <2> HIDE DEF One1
  <2>5. L(Two(r), Two(w))
    BY <1>4, <2>4, Zenon
  <2> HIDE DEF Two
  <2>6. L(Three(r), Three(w))
    BY <1>4, <2>5, Zenon
  <2> HIDE DEF Three
  <2> QED
    BY <2>1, <2>2, <2>3, <2>6
<1>7. L(DoAct(r, "Version"), DoAct(w, "Version"))
  <2>1. DoAct(r, "Version") = OnResponseVersion(r) /\ DoAct(w, "Version") = OnResponseVersion(w)
    BY Zenon DEF DoAct
  <2>2. /\ L([r EXCEPT !.error = TRUE], [w EXCEPT !.error = TRUE])
        /\ L([r EXCEPT !.response.version = <<Last(t)>>], [w EXCEPT !.response.version = <<Last(t)>>])
    BY <1>3, <1>4, Zenon
  <2> QED
    BY <1>2, <2>1, <2>2, Zenon DEF OnResponseVersion, t
<1>8. L(DoAct(r, "Status"), DoAct(w, "Status"))
  <2>1. /\ DoAct(r, "Status") = [r EXCEPT !.response.status = t]
        /\ DoAct(w, "Status") = [w EXCEPT !.response.status = t]
    BY <1>2, Zenon DEF DoAct, OnResponseStatus, t
  <2>2. L([r EXCEPT !.response.status = t], [w EXCEPT !.response.status = t])
    BY <1>3, <1>4, Zenon
  <2> QED
    BY <2>1, <2>2, Zenon
<1>9. L(DoAct(r, "Reason"), DoAct(w, "Reason"))
  <2>1. /\ DoAct(r, "Reason") = [r EXCEPT !.response.reason = t]
        /\ DoAct(w, "Reason") = [w EXCEPT !.response.reason = t]
    BY <1>2, Zenon DEF DoAct, OnResponseReason, t
  <2>2. L([r EXCEPT !.response.reason = t], [w EXCEPT !.response.reason = t])
    BY <1>3, <1>4, Zenon
  <2> QED
    BY <2>1, <2>2, Zenon
<1> QED
  BY <1>5, <1>6, <1>7, <1>8, <1>9 DEF L

(* A header, and what only notes something. *)
LEMMA OtherLike ==
  ASSUME NEW text, NEW piece, NEW c, Shifted(text, piece, c), NEW p, NEW stop, NEW r, NEW w, NEW live,
         Like(r, w, text, piece, c, p, stop, live)
  PROVE  /\ Like(DoAct(r, "Close"), DoAct(w, "Close"), text, piece, c, p, stop, live)
         /\ Like(DoAct(r, "Chunked"), DoAct(w, "Chunked"), text, piece, c, p, stop, live)
         /\ Like(DoAct(r, "Done"), DoAct(w, "Done"), text, piece, c, p, TRUE, live)
         /\ {"mark", "length"} \subseteq live =>
              Like(DoAct(r, "WriteValue"), DoAct(w, "WriteValue"), text, piece, c, p, stop, live)
<1>1. /\ DoAct(r, "Close") = [r EXCEPT !.close = TRUE] /\ DoAct(w, "Close") = [w EXCEPT !.close = TRUE]
      /\ DoAct(r, "Chunked") = [r EXCEPT !.chunked = TRUE] /\ DoAct(w, "Chunked") = [w EXCEPT !.chunked = TRUE]
      /\ DoAct(r, "Done") = [r EXCEPT !.stop = TRUE] /\ DoAct(w, "Done") = [w EXCEPT !.stop = TRUE]
  BY Zenon DEF DoAct
<1>2. Like(DoAct(r, "Close"), DoAct(w, "Close"), text, piece, c, p, stop, live)
  <2>1. Like([r EXCEPT !.close = TRUE], [w EXCEPT !.close = TRUE], text, piece, c, p, stop, live)
    BY FieldsLike, Zenon
  <2> QED
    BY <1>1, <2>1, Zenon
<1>3. Like(DoAct(r, "Chunked"), DoAct(w, "Chunked"), text, piece, c, p, stop, live)
  <2>1. Like([r EXCEPT !.chunked = TRUE], [w EXCEPT !.chunked = TRUE], text, piece, c, p, stop, live)
    BY FieldsLike, Zenon
  <2> QED
    BY <1>1, <2>1, Zenon
<1>4. Like(DoAct(r, "Done"), DoAct(w, "Done"), text, piece, c, p, TRUE, live)
  <2>1. Like([r EXCEPT !.stop = TRUE], [w EXCEPT !.stop = TRUE], text, piece, c, p, TRUE, live)
    BY FieldsLike, Zenon
  <2> QED
    BY <1>1, <2>1, Zenon
<1>5. ASSUME {"mark", "length"} \subseteq live
      PROVE  Like(DoAct(r, "WriteValue"), DoAct(w, "WriteValue"), text, piece, c, p, stop, live)
  <2> DEFINE t == Text(r, r.mark)
             a == r.fieldStart
             b == r.fieldStart + r.fieldLen
             name == SubSeq(piece, a + 1, b)
  <2>1. /\ c \in Nat /\ Len(piece) \in Nat /\ p \in 0..Len(piece) /\ p \in Nat /\ r.p = p /\ w.p = p + c
        /\ r.mark \in Nat /\ r.mark <= p /\ w.mark = r.mark + c /\ r.buf = piece /\ w.buf = text
        /\ r.fieldStart \in Nat /\ r.fieldLen \in Nat /\ r.fieldStart + r.fieldLen <= p
        /\ w.fieldStart = r.fieldStart + c /\ w.fieldLen = r.fieldLen
    BY <1>5 DEF Shifted, Like, IsRunOf, SameMarks
  <2>2. Text(w, w.mark) = t
    <3>1. SameStretch(text, piece, c, r.mark, p)
      BY <2>1, SameText
    <3>2. SubSeq(text, r.mark + c + 1, p + c) = SubSeq(piece, r.mark + 1, p)
      BY <3>1 DEF SameStretch
    <3>3. Text(w, w.mark) = SubSeq(text, r.mark + c + 1, p + c)
      BY <2>1 DEF Text
    <3>4. Text(r, r.mark) = SubSeq(piece, r.mark + 1, p)
      BY <2>1 DEF Text
    <3> QED
      BY <3>2, <3>3, <3>4
  <2>3. SubSeq(w.buf, w.fieldStart + 1, w.fieldStart + w.fieldLen) = name
    <3>1. a \in Nat /\ b \in 0..Len(piece) /\ a <= b
      BY <2>1
    <3>2. w.fieldStart + 1 = a + c + 1 /\ w.fieldStart + w.fieldLen = b + c
      BY <2>1
    <3> HIDE DEF a, b
    <3>3. SameStretch(text, piece, c, a, b)
      BY <3>1, SameText
    <3> QED
      BY <2>1, <3>2, <3>3 DEF SameStretch
  <2>4. SubSeq(r.buf, r.fieldStart + 1, r.fieldStart + r.fieldLen) = name /\ Text(r, r.mark) = t
    BY <2>1
  <2> HIDE DEF t, name
  <2> DEFINE With(h) == [n \in DOMAIN h \cup {name} |-> IF n = name THEN t ELSE h[n]]
  <2>5. r.response.headers = w.response.headers
    BY DEF Like, SameParser
  <2>6. /\ OnResponseHttpField(r) = IF name = <<>> THEN r
                                    ELSE [r EXCEPT !.response.headers = With(r.response.headers)]
        /\ OnResponseHttpField(w) = IF name = <<>> THEN w
                                    ELSE [w EXCEPT !.response.headers = With(w.response.headers)]
    BY <2>2, <2>3, <2>4, Zenon DEF OnResponseHttpField
  <2>7. /\ DoAct(r, "WriteValue") = OnResponseHttpField(r)
        /\ DoAct(w, "WriteValue") = OnResponseHttpField(w)
    BY Zenon DEF DoAct
  <2> DEFINE h == With(r.response.headers)
  <2>8. With(w.response.headers) = h
    BY <2>5, Zenon
  <2> HIDE DEF With, h
  <2>9. Like([r EXCEPT !.response.headers = h], [w EXCEPT !.response.headers = h],
             text, piece, c, p, stop, live)
    BY FieldsLike, Zenon
  <2> QED
    BY <2>6, <2>7, <2>8, <2>9, Zenon DEF h
<1> QED
  BY <1>2, <1>3, <1>4, <1>5

(* The actions of a step, one after another. *)
LEMMA ActsLike ==
  ASSUME NEW text, NEW piece, NEW c, Shifted(text, piece, c), NEW p, NEW stop, NEW r, NEW w, NEW live,
         Like(r, w, text, piece, c, p, stop, live),
         NEW acts, Allowed(live, acts)
  PROVE  Like(DoAll(r, acts), DoAll(w, acts), text, piece, c, p,
              IF "Done" \in acts THEN TRUE ELSE stop, LiveBehind(live, acts))
<1> DEFINE L(d, f, s, l) == Like(d, f, text, piece, c, p, s, l)
           all == LiveBehind(live, acts)
           live1 == live \cup (IF "Mark" \in acts THEN {"mark"} ELSE {})
           live2 == IF "StartField" \in acts THEN (live1 \ {"length"}) \cup {"field"} ELSE live1
           live3 == live2 \cup (IF "WriteField" \in acts THEN {"length"} ELSE {})
           end == IF "Done" \in acts THEN TRUE ELSE stop
<1>1. \A d, f, s, l : L(d, f, s, l) =>
        /\ L(DoAct(d, "Mark"), DoAct(f, "Mark"), s, l \cup {"mark"})
        /\ L(DoAct(d, "StartField"), DoAct(f, "StartField"), s, (l \ {"length"}) \cup {"field"})
        /\ "field" \in l => L(DoAct(d, "WriteField"), DoAct(f, "WriteField"), s, l \cup {"length"})
  BY MarkLike
<1>2. \A d, f, s, l : L(d, f, s, l) =>
        /\ "mark" \in l => \A act \in {"ContentLen", "ChunkSize", "Version", "Status", "Reason"} :
                              L(DoAct(d, act), DoAct(f, act), s, l)
        /\ \A act \in {"Close", "Chunked"} : L(DoAct(d, act), DoAct(f, act), s, l)
        /\ {"mark", "length"} \subseteq l => L(DoAct(d, "WriteValue"), DoAct(f, "WriteValue"), s, l)
        /\ L(DoAct(d, "Done"), DoAct(f, "Done"), TRUE, l)
  BY TextLike, OtherLike, ZenonT(40)
<1>3. /\ live3 \cap {"mark", "field", "length"} = all
      /\ "WriteField" \in acts => "field" \in live2
      /\ acts \cap Storing # {} => "mark" \in all
      /\ "WriteValue" \in acts => {"mark", "length"} \subseteq all
  BY DEF Allowed, LiveBehind, Storing
<1>4. PICK f : /\ f[0] = r
               /\ \A i \in 1..12 : f[i] = One(f[i - 1], ActionOrder[i], acts)
               /\ DoAll(r, acts) = f[12]
  BY FoldSteps
<1>5. PICK g : /\ g[0] = w
               /\ \A i \in 1..12 : g[i] = One(g[i - 1], ActionOrder[i], acts)
               /\ DoAll(w, acts) = g[12]
  BY FoldSteps
<1>6. L(f[0], g[0], stop, live)
  BY <1>4, <1>5
<1> HIDE DEF L, all
\* The actions that set marks.
<1>7. /\ f[1] = One(f[0], "Mark", acts) /\ g[1] = One(g[0], "Mark", acts)
      /\ f[2] = One(f[1], "StartField", acts) /\ g[2] = One(g[1], "StartField", acts)
      /\ f[3] = One(f[2], "WriteField", acts) /\ g[3] = One(g[2], "WriteField", acts)
  BY <1>4, <1>5 DEF ActionOrder
<1>8. L(f[1], g[1], stop, live1)
  <2>1. CASE "Mark" \in acts
    <3>1. live1 = live \cup {"mark"}
      BY <2>1
    <3>2. f[1] = DoAct(f[0], "Mark") /\ g[1] = DoAct(g[0], "Mark")
      BY <1>7, <2>1 DEF One
    <3>3. L(DoAct(f[0], "Mark"), DoAct(g[0], "Mark"), stop, live \cup {"mark"})
      BY <1>1, <1>6, <3>1, Zenon
    <3> QED
      BY <3>1, <3>2, <3>3, Zenon
  <2>2. CASE "Mark" \notin acts
    <3>1. live1 = live
      BY <2>2
    <3> QED
      BY <1>6, <1>7, <2>2, <3>1, Zenon DEF One
  <2> QED
    BY <2>1, <2>2
<1> HIDE DEF live1
<1>9. L(f[2], g[2], stop, live2)
  <2>1. CASE "StartField" \in acts
    <3>1. live2 = (live1 \ {"length"}) \cup {"field"}
      BY <2>1
    <3>2. f[2] = DoAct(f[1], "StartField") /\ g[2] = DoAct(g[1], "StartField")
      BY <1>7, <2>1 DEF One
    <3>3. L(DoAct(f[1], "StartField"), DoAct(g[1], "StartField"), stop, (live1 \ {"length"}) \cup {"field"})
      BY <1>1, <1>8, <3>1, Zenon
    <3> QED
      BY <3>1, <3>2, <3>3, Zenon
  <2>2. CASE "StartField" \notin acts
    <3>1. live2 = live1
      BY <2>2
    <3> QED
      BY <1>7, <1>8, <2>2, <3>1, Zenon DEF One
  <2> QED
    BY <2>1, <2>2
<1> HIDE DEF live2
<1>10. L(f[3], g[3], stop, live3)
  <2>1. CASE "WriteField" \in acts
    <3>1. live3 = live2 \cup {"length"} /\ "field" \in live2
      BY <1>3, <2>1
    <3>2. f[3] = DoAct(f[2], "WriteField") /\ g[3] = DoAct(g[2], "WriteField")
      BY <1>7, <2>1 DEF One
    <3>3. L(DoAct(f[2], "WriteField"), DoAct(g[2], "WriteField"), stop, live2 \cup {"length"})
      BY <1>1, <1>9, <3>1, Zenon
    <3> QED
      BY <3>1, <3>2, <3>3, Zenon
  <2>2. CASE "WriteField" \notin acts
    <3>1. live3 = live2
      BY <2>2
    <3> QED
      BY <1>7, <1>9, <2>2, <3>1, Zenon DEF One
  <2> QED
    BY <2>1, <2>2
<1> HIDE DEF live3
<1>11. L(f[3], g[3], stop, all)
  <2>1. all \in SUBSET live3
    BY <1>3
  <2> QED
    BY <1>10, <2>1, FewerLive DEF L
\* The others.
<1>12. ASSUME NEW act \in Storing \cup {"Close", "Chunked"}, NEW d, NEW e, L(d, e, stop, all)
       PROVE  L(One(d, act, acts), One(e, act, acts), stop, all)
  <2>1. CASE act \notin acts
    BY <1>12, <2>1 DEF One
  <2>2. CASE act \in acts
    <3>1. L(DoAct(d, act), DoAct(e, act), stop, all)
      BY <1>2, <1>3, <1>12, <2>2 DEF Storing
    <3> QED
      BY <2>2, <3>1 DEF One
  <2> QED
    BY <2>1, <2>2
<1>13. \A i \in 4..11 : ActionOrder[i] \in Storing \cup {"Close", "Chunked"}
  <2> TAKE i \in 4..11
  <2>1. i = 4 \/ i = 5 \/ i = 6 \/ i = 7 \/ i = 8 \/ i = 9 \/ i = 10 \/ i = 11
    OBVIOUS
  <2> QED
    BY <2>1 DEF ActionOrder, Storing
<1>14. \A i \in 4..11 : L(f[i - 1], g[i - 1], stop, all) => L(f[i], g[i], stop, all)
  <2> TAKE i \in 4..11
  <2>1. i \in 1..12
    OBVIOUS
  <2>2. f[i] = One(f[i - 1], ActionOrder[i], acts) /\ g[i] = One(g[i - 1], ActionOrder[i], acts)
    BY <1>4, <1>5, <2>1
  <2> QED
    BY <1>12, <1>13, <2>2, Zenon
<1>15. L(f[11], g[11], stop, all)
  <2>1. L(f[4], g[4], stop, all)
    BY <1>11, <1>14
  <2>2. L(f[5], g[5], stop, all)
    BY <2>1, <1>14
  <2>3. L(f[6], g[6], stop, all)
    BY <2>2, <1>14
  <2>4. L(f[7], g[7], stop, all)
    BY <2>3, <1>14
  <2>5. L(f[8], g[8], stop, all)
    BY <2>4, <1>14
  <2>6. L(f[9], g[9], stop, all)
    BY <2>5, <1>14
  <2>7. L(f[10], g[10], stop, all)
    BY <2>6, <1>14
  <2> QED
    BY <2>7, <1>14
<1>16. f[12] = One(f[11], "Done", acts) /\ g[12] = One(g[11], "Done", acts)
  BY <1>4, <1>5 DEF ActionOrder
<1>17. L(f[12], g[12], end, all)
  BY <1>2, <1>15, <1>16, Zenon DEF One
<1> QED
  BY <1>4, <1>5, <1>17 DEF L, all

\* Where a run is: it has stopped behind a message or in front of an error, or it has
\* parsed all characters up to the i-th.
At(r, i) ==
    /\ r.stop \in BOOLEAN
    /\ r.stop <=> <<"done">> \in r.cs \/ r.cs = {}
    /\ r.p <= i
    /\ ~r.stop => r.p = i
    /\ Coherent(r.cs)

\* The two runs behind i characters of the piece.
Alike(r, w, text, piece, c, i) ==
    Like(r, w, text, piece, c, r.p, r.stop, LiveAt(r.cs)) /\ At(r, i)

\* One character more, along the edges in m.
Fail(r) == [r EXCEPT !.cs = {}, !.stop = TRUE]
Go(r, m) ==
    LET d == DoAll(r, Acts(m)) IN [d EXCEPT !.cs = Targets(m), !.p = d.p + 1]

LEMMA StepGoes ==
  ASSUME NEW r, NEW x, ~r.stop
  PROVE  LET m == MovesOf(r.cs, x) IN Advance(r, x) = IF m = {} THEN Fail(r) ELSE Go(r, m)
  BY Zenon DEF Advance, Fail, Go, DoAll, Acts, Targets

(* A character counts in both. *)
LEMMA PlaceLike ==
  ASSUME NEW text, NEW piece, NEW c, Shifted(text, piece, c), NEW p, NEW stop, NEW r, NEW w, NEW live,
         Like(r, w, text, piece, c, p, stop, live), p + 1 <= Len(piece)
  PROVE  Like([r EXCEPT !.p = r.p + 1], [w EXCEPT !.p = w.p + 1], text, piece, c, p + 1, stop, live)
<1>1. /\ c \in Nat /\ Len(piece) \in Nat /\ p \in Nat /\ r.p = p /\ w.p = p + c
      /\ IsRunOf(r, piece) /\ IsRunOf(w, text) /\ r.stop = stop /\ w.stop = stop
      /\ SameParser(r, w) /\ SameMarks(r, w, c, p, live)
      /\ Len(text) \in Nat /\ c + Len(piece) <= Len(text)
  BY DEF Shifted, Like, IsRunOf
<1>2. \A m \in 0..Len(piece), n \in 0..Len(text) :
         m = p + 1 /\ n = p + 1 + c =>
            Like([r EXCEPT !.p = m], [w EXCEPT !.p = n], text, piece, c, p + 1, stop, live)
  <2> TAKE m \in 0..Len(piece), n \in 0..Len(text)
  <2> HAVE m = p + 1 /\ n = p + 1 + c
  <2> DEFINE d == [r EXCEPT !.p = m]
             f == [w EXCEPT !.p = n]
  <2>1. /\ IsRunOf(d, piece) /\ d.p = m /\ d.stop = r.stop /\ SameParser(d, r)
        /\ d.mark = r.mark /\ d.fieldStart = r.fieldStart /\ d.fieldLen = r.fieldLen
    BY <1>1, SMTT(40) DEF IsRunOf, SameParser
  <2>2. /\ IsRunOf(f, text) /\ f.p = n /\ f.stop = w.stop /\ SameParser(f, w)
        /\ f.mark = w.mark /\ f.fieldStart = w.fieldStart /\ f.fieldLen = w.fieldLen
    <3>1. IsRunOf(w, text)
      BY <1>1
    <3> QED
      BY <3>1 DEF IsRunOf, SameParser
  <2> HIDE DEF d, f
  <2>3. SameMarks(d, f, c, p + 1, live)
    BY <1>1, <2>1, <2>2 DEF SameMarks
  <2>4. SameParser(d, f)
    BY <1>1, <2>1, <2>2 DEF SameParser
  <2>5. Like(d, f, text, piece, c, p + 1, stop, live)
    BY <1>1, <2>1, <2>2, <2>3, <2>4 DEF Like
  <2> QED
    BY <2>5 DEF d, f
<1>3. r.p + 1 \in 0..Len(piece) /\ w.p + 1 \in 0..Len(text) /\ r.p + 1 = p + 1 /\ w.p + 1 = p + 1 + c
  BY <1>1
<1> DEFINE m == r.p + 1
           n == w.p + 1
<1> HIDE DEF m, n
<1>4. Like([r EXCEPT !.p = m], [w EXCEPT !.p = n], text, piece, c, p + 1, stop, live)
  BY <1>2, <1>3 DEF m, n
<1> QED
  BY <1>4 DEF m, n

(* One character more keeps the two runs alike. *)
LEMMA StepLike ==
  ASSUME NEW text, NEW piece, NEW c, Shifted(text, piece, c),
         NEW i \in 0..Len(piece) - 1, NEW x, NEW r, NEW w, Alike(r, w, text, piece, c, i),
         ~r.stop => SkipsEnd(r.cs, x)
  PROVE  Alike(Advance(r, x), Advance(w, x), text, piece, c, i + 1)
<1>0. /\ c \in Nat /\ Len(piece) \in Nat /\ i \in Nat /\ i + 1 <= Len(piece)
  BY DEF Shifted
<1>1. /\ w.cs = r.cs /\ w.stop = r.stop /\ IsRunOf(r, piece)
      /\ r.p \in Nat /\ r.p <= i /\ Coherent(r.cs) /\ r.stop \in BOOLEAN
      /\ Like(r, w, text, piece, c, r.p, r.stop, LiveAt(r.cs))
  BY <1>0 DEF Like, IsRunOf, Alike, SameParser, At
<1>2. CASE r.stop
  <2>1. Advance(r, x) = r /\ Advance(w, x) = w
    BY <1>1, <1>2 DEF Advance
  <2>2. At(r, i + 1)
    BY <1>0, <1>1, <1>2 DEF At, Alike
  <2> QED
    BY <2>1, <2>2 DEF Alike
<1>3. CASE ~r.stop /\ MovesOf(r.cs, x) = {}
  <2>1. Advance(r, x) = Fail(r) /\ Advance(w, x) = Fail(w)
    BY <1>1, <1>3, StepGoes, Zenon
  <2>2. LiveAt({}) = {} /\ Coherent({})
    BY DEF LiveAt, AtTokenEnd, Coherent
  <2>3. Like(Fail(r), Fail(w), text, piece, c, r.p, TRUE, {})
    <3>1. Like(r, w, text, piece, c, r.p, r.stop, {})
      BY <1>1, FewerLive
    <3> DEFINE NoPlace(q) == [q EXCEPT !.cs = {}]
    <3>2. Like(NoPlace(r), NoPlace(w), text, piece, c, r.p, r.stop, {})
      BY <3>1, FieldsLike, Zenon
    <3>3. \A q : Fail(q) = [NoPlace(q) EXCEPT !.stop = TRUE]
      BY DEF Fail
    <3> HIDE DEF NoPlace
    <3>4. Like([NoPlace(r) EXCEPT !.stop = TRUE], [NoPlace(w) EXCEPT !.stop = TRUE],
               text, piece, c, r.p, TRUE, {})
      BY <3>2, FieldsLike, Zenon
    <3> QED
      BY <3>3, <3>4, Zenon
  <2>4. Fail(r).cs = {} /\ Fail(r).p = r.p /\ Fail(r).stop = TRUE
    BY <1>1 DEF IsRunOf, Fail
  <2>5. At(Fail(r), i + 1)
    <3> DEFINE d == Fail(r)
    <3>1. d.cs = {} /\ d.p <= i + 1 /\ d.stop = TRUE
      BY <1>0, <1>1, <2>4
    <3> HIDE DEF d
    <3>2. Coherent(d.cs)
      BY <2>2, <3>1
    <3>3. At(d, i + 1)
      BY <3>1, <3>2, Zenon DEF At
    <3> QED
      BY <3>3 DEF d
  <2> QED
    BY <2>1, <2>2, <2>3, <2>4, <2>5 DEF Alike
<1>4. CASE ~r.stop /\ MovesOf(r.cs, x) # {}
  <2> DEFINE m == MovesOf(r.cs, x)
             to == Targets(m)
             acts == Acts(m)
             live == LiveAt(r.cs)
             d == DoAll(r, acts)
             f == DoAll(w, acts)
             end == IF "Done" \in acts THEN TRUE ELSE r.stop
  <2>1. /\ Advance(r, x) = [d EXCEPT !.cs = to, !.p = d.p + 1]
        /\ Advance(w, x) = [f EXCEPT !.cs = to, !.p = f.p + 1]
    <3>1. Advance(r, x) = Go(r, m)
      BY <1>4, StepGoes, Zenon
    <3>2. Advance(w, x) = Go(w, m)
      BY <1>1, <1>4, StepGoes, Zenon
    <3> QED
      BY <3>1, <3>2, Zenon DEF Go
  <2>2. /\ Allowed(live, acts) /\ LiveAt(to) \subseteq LiveBehind(live, acts) /\ Coherent(to)
        /\ <<"done">> \in to <=> "Done" \in acts
    <3>1. Coherent(r.cs) /\ SkipsEnd(r.cs, x) /\ MovesOf(r.cs, x) # {}
      BY <1>1, <1>4
    <3> QED
      BY <3>1, LiveAlongMoves, Zenon
  <2> HIDE DEF m, live, to, acts
  <2>3. Like(r, w, text, piece, c, r.p, r.stop, live)
    BY <1>1 DEF live
  <2>4. Like(d, f, text, piece, c, r.p, end, LiveBehind(live, acts))
    BY <2>2, <2>3, ActsLike
  <2> HIDE DEF d, f
  <2>5. Like(d, f, text, piece, c, r.p, end, LiveAt(to))
    BY <2>2, <2>4, FewerLive
  <2>6. r.p = i /\ r.p + 1 <= Len(piece)
    BY <1>0, <1>4 DEF At, Alike
  <2> HIDE DEF end
  <2> DEFINE Put(q) == [q EXCEPT !.cs = to]
             r1 == [Put(d) EXCEPT !.p = Put(d).p + 1]
             w1 == [Put(f) EXCEPT !.p = Put(f).p + 1]
  <2>7. Like(Put(d), Put(f), text, piece, c, r.p, end, LiveAt(to))
    BY <2>5, FieldsLike, Zenon
  <2>8. Advance(r, x) = r1 /\ Advance(w, x) = w1
    <3>1. \A q : [q EXCEPT !.cs = to, !.p = q.p + 1] = [Put(q) EXCEPT !.p = Put(q).p + 1]
      OBVIOUS
    <3> QED
      BY <2>1, <3>1, Zenon
  <2>9. Put(d).cs = to
    BY <2>5 DEF Like, IsRunOf
  <2> HIDE DEF Put
  <2>10. Like(r1, w1, text, piece, c, r.p + 1, end, LiveAt(to))
    BY <2>6, <2>7, PlaceLike
  <2>11. r1.cs = to /\ r1.p = i + 1 /\ r1.stop = end
    <3>1. r1.p = r.p + 1 /\ r1.stop = end
      BY <2>10 DEF Like
    <3>2. r1.cs = to
      BY <2>7, <2>9 DEF Like, IsRunOf
    <3> QED
      BY <2>6, <3>1, <3>2
  <2> HIDE DEF r1, w1
  <2>12. At(r1, i + 1)
    <3>1. end \in BOOLEAN /\ (end <=> <<"done">> \in to)
      BY <1>1, <1>4, <2>2 DEF end
    <3>2. to # {}
      BY <1>4 DEF to, m, Targets
    <3> QED
      BY <1>0, <2>2, <2>11, <3>1, <3>2 DEF At
  <2>13. Like(r1, w1, text, piece, c, r1.p, r1.stop, LiveAt(r1.cs))
    BY <2>6, <2>10, <2>11
  <2> QED
    BY <2>8, <2>12, <2>13 DEF Alike
<1> QED
  BY <1>2, <1>3, <1>4

-----------------------------------------------------------------------------

\* f goes through the run of execute() on buffer with the parser ps.
IsChain(f, ps, buffer) ==
    /\ f[0] = Begin(ps, buffer)
    /\ \A i \in 1..Len(buffer) : f[i] = Advance(f[i - 1], buffer[i])

SkipsEndAt(f, text, i) == ~f[i].stop => SkipsEnd(f[i].cs, text[i + 1])

LEMMA PieceRuns ==
  ASSUME NEW text, NEW piece, NEW c, Shifted(text, piece, c),
         NEW f, \A i \in 1..Len(text) : f[i] = Advance(f[i - 1], text[i]),
         NEW ps, NEW g, IsChain(g, ps, piece),
         Alike(g[0], f[c], text, piece, c, 0),
         \A i \in c..c + Len(piece) - 1 : SkipsEndAt(f, text, i)
  PROVE  \A j \in 0..Len(piece) : Alike(g[j], f[c + j], text, piece, c, j)
<1> DEFINE OK(j) == Alike(g[j], f[c + j], text, piece, c, j)
           Bad == { j \in 0..Len(piece) : ~OK(j) }
<1>0. /\ c \in Nat /\ Len(piece) \in Nat /\ Len(text) \in Nat /\ c + Len(piece) <= Len(text)
      /\ \A j \in 1..Len(piece) : piece[j] = text[c + j]
  BY DEF Shifted
<1>1. SUFFICES ASSUME Bad # {} PROVE FALSE
  OBVIOUS
<1>2. PICK n \in Bad : \A k \in Bad : n <= k
  <2>1. Bad \in SUBSET Nat
    BY <1>0
  <2> HIDE DEF Bad
  <2> QED
    BY <1>1, <2>1, FirstPosition
<1>3. n # 0
  <2>1. c + 0 = c
    BY <1>0
  <2>2. OK(0)
    BY <2>1
  <2> QED
    BY <1>2, <2>2
<1>4. n - 1 \in 0..Len(piece) - 1 /\ n \in 1..Len(piece) /\ OK(n - 1)
  <2>1. n \in 1..Len(piece) /\ n - 1 \in 0..Len(piece) - 1 /\ n - 1 \in 0..Len(piece) /\ ~(n <= n - 1)
    BY <1>0, <1>2, <1>3
  <2>2. n - 1 \notin Bad
    BY <1>2, <2>1
  <2> QED
    BY <2>1, <2>2
<1>5. g[n] = Advance(g[n - 1], piece[n]) /\ f[c + n] = Advance(f[c + (n - 1)], piece[n])
  <2>1. c + n \in 1..Len(text) /\ c + n - 1 = c + (n - 1)
    BY <1>0, <1>4
  <2>2. f[c + n] = Advance(f[c + (n - 1)], text[c + n]) /\ text[c + n] = piece[n]
    BY <1>0, <1>4, <2>1
  <2> QED
    BY <1>4, <2>2 DEF IsChain
<1>6. ~g[n - 1].stop => SkipsEnd(g[n - 1].cs, piece[n])
  <2>1. c + (n - 1) \in c..c + Len(piece) - 1 /\ c + (n - 1) + 1 = c + n
    BY <1>0, <1>4
  <2>2. SkipsEndAt(f, text, c + (n - 1))
    BY <2>1
  <2>3. f[c + (n - 1)].cs = g[n - 1].cs /\ f[c + (n - 1)].stop = g[n - 1].stop
    BY <1>4 DEF Alike, Like, SameParser
  <2>4. text[c + n] = piece[n]
    BY <1>0, <1>4
  <2> QED
    BY <2>1, <2>2, <2>3, <2>4 DEF SkipsEndAt
<1>7. OK(n)
  <2> DEFINE r == g[n - 1]
             w == f[c + (n - 1)]
             k == n - 1
  <2>1. Alike(r, w, text, piece, c, k) /\ k \in 0..Len(piece) - 1 /\ (~r.stop => SkipsEnd(r.cs, piece[n]))
    BY <1>4, <1>6
  <2>2. k + 1 = n
    BY <1>0, <1>4
  <2> HIDE DEF r, w, k
  <2>3. Alike(Advance(r, piece[n]), Advance(w, piece[n]), text, piece, c, k + 1)
    BY <2>1, StepLike
  <2> QED
    BY <1>5, <2>2, <2>3 DEF r, w
<1> QED
  BY <1>2, <1>7

LEMMA PrefixShifted ==
  ASSUME NEW text \in Seq(RespChar), NEW i \in 0..Len(text)
  PROVE  /\ Shifted(text, SubSeq(text, 1, i), 0)
         /\ Len(SubSeq(text, 1, i)) = i
<1> DEFINE u == SubSeq(text, 1, i)
<1>1. Len(text) \in Nat /\ i \in Nat /\ i <= Len(text) /\ \A j \in 1..i : text[j] \in RespChar
  OBVIOUS
<1>2. u \in Seq(RespChar) /\ Len(u) = i /\ \A j \in 1..i : u[j] = text[j]
  <2>1. /\ u \in Seq(RespChar) /\ Len(u) = IF 1 <= i THEN i - 1 + 1 ELSE 0
        /\ \A j \in 1..i - 1 + 1 : u[j] = text[1 + j - 1]
    BY <1>1, SubSeqProperties
  <2> HIDE DEF u
  <2> QED
    BY <1>1, <2>1
<1> HIDE DEF u
<1>3. Shifted(text, u, 0)
  BY <1>1, <1>2 DEF Shifted
<1> QED
  BY <1>2, <1>3 DEF u

\* What a parser that begins anew makes of the first i characters.
NewRun(response, text, i) == ExecResponse(FreshParser(response), SubSeq(text, 1, i), FALSE)

(* The beginning of a message. *)
LEMMA StartFacts ==
  /\ AtTokenEnd({<<"start">>}) /\ Coherent({<<"start">>})
  /\ <<"done">> \notin {<<"start">>}
  BY DEF AtTokenEnd, Coherent, TokenEnds, LineStarts

LEMMA FreshFields ==
  ASSUME NEW response
  PROVE  LET ps == FreshParser(response) IN
         /\ ps.cs = {<<"start">>} /\ ps.contentLen = -1 /\ ps.chunked = FALSE /\ ps.chunksDone = FALSE
         /\ ps.close = FALSE /\ ps.error = FALSE /\ ps.response = response
  BY DEF FreshParser, HttpResponseParserNew

LEMMA FreshIsParser ==
  ASSUME NEW response
  PROVE  FreshParser(response) = ParserOf(FreshParser(response))
<1> DEFINE new == HttpResponseParserNew
           q == new.response
           ps == FreshParser(response)
<1>1. new = [cs |-> {<<"start">>}, contentLen |-> -1, chunked |-> FALSE, chunksDone |-> FALSE,
             close |-> FALSE, error |-> FALSE, response |-> q]
  BY DEF HttpResponseParserNew
<1>2. ps = [new EXCEPT !.response = response]
  BY DEF FreshParser
<1> HIDE DEF new, q
<1>3. ps = ParserOf(ps)
  <2> HIDE DEF ps
  <2> QED
    BY <1>1, <1>2 DEF ParserOf
<1> QED
  BY <1>3

(* Two parsers that are the same begin alike, wherever nothing is live. *)
LEMMA BeginLike ==
  ASSUME NEW text, NEW piece, NEW c, Shifted(text, piece, c), NEW ps, NEW w,
         IsRunOf(w, text), SameParser(ps, w), w.p = c, w.stop = FALSE,
         AtTokenEnd(ps.cs), Coherent(ps.cs), <<"done">> \notin ps.cs
  PROVE  Alike(Begin(ps, piece), w, text, piece, c, 0)
<1> DEFINE b == Begin(ps, piece)
<1>1. /\ b.stop = FALSE /\ b.p = 0 /\ SameParser(b, ps) /\ IsRunOf(b, piece) /\ b.cs = ps.cs
  <2>1. Len(piece) \in Nat /\ IsResponse(ps.response)
    BY DEF Shifted, IsRunOf, SameParser
  <2> QED
    BY <2>1 DEF Begin, SameParser, IsRunOf
<1> HIDE DEF b
<1>2. SameParser(b, w)
  BY <1>1 DEF SameParser
<1>3. LiveAt(b.cs) = {}
  BY <1>1 DEF LiveAt
<1>4. Like(b, w, text, piece, c, b.p, b.stop, {})
  <2>1. w.p = b.p + c
    BY <1>1 DEF Shifted
  <2> QED
    BY <1>1, <1>2, <2>1 DEF Like, SameMarks
<1>5. At(b, 0)
  <2>1. b.stop \in BOOLEAN /\ ~b.stop
    BY <1>1, Zenon
  <2>2. b.cs # {}
    BY <1>1 DEF AtTokenEnd
  <2> QED
    BY <1>1, <2>1, <2>2 DEF At
<1> QED
  BY <1>3, <1>4, <1>5 DEF Alike, b

LEMMA WholeRun ==
  ASSUME NEW response, IsResponse(response), NEW text \in Seq(RespChar),
         Unfolded(FreshParser(response), text)
  PROVE  \E f : /\ IsChain(f, FreshParser(response), text)
                /\ ExecResponse(FreshParser(response), text, FALSE) = f[Len(text)]
                /\ \A i \in 0..Len(text) - 1 : SkipsEndAt(f, text, i)
                /\ \A i \in 0..Len(text) :
                     Alike(NewRun(response, text, i), f[i], text, SubSeq(text, 1, i), 0, i)
<1> DEFINE ps == FreshParser(response)
<1>0. Len(text) \in Nat
  OBVIOUS
<1> HIDE DEF ps
<1>1. PICK f : IsChain(f, ps, text) /\ ExecResponse(ps, text, FALSE) = f[Len(text)]
  BY ExecuteSteps DEF IsChain
<1>2. ASSUME NEW i \in 0..Len(text), \A k \in 0..i - 1 : SkipsEndAt(f, text, k)
      PROVE  Alike(NewRun(response, text, i), f[i], text, SubSeq(text, 1, i), 0, i)
  <2> DEFINE piece == SubSeq(text, 1, i)
  <2>1. Shifted(text, piece, 0) /\ Len(piece) = i /\ i \in Nat
    BY <1>0, PrefixShifted
  <2>2. piece \in Seq(RespChar)
    BY <2>1 DEF Shifted
  <2> HIDE DEF piece
  <2>3. PICK g : IsChain(g, ps, piece) /\ ExecResponse(ps, piece, FALSE) = g[Len(piece)]
    BY <2>2, ExecuteSteps DEF IsChain
  <2>4. g[0] = Begin(ps, piece) /\ f[0] = Begin(ps, text)
    BY <1>1, <2>3 DEF IsChain
  <2>5. Alike(g[0], f[0], text, piece, 0, 0)
    <3>1. ps.cs = {<<"start">>} /\ ps.response = response
      BY FreshFields DEF ps
    <3>2. /\ IsRunOf(f[0], text) /\ SameParser(ps, f[0]) /\ f[0].p = 0 /\ f[0].stop = FALSE
      BY <1>0, <2>4, <3>1 DEF Begin, IsRunOf, SameParser
    <3> QED
      <4>1. AtTokenEnd(ps.cs) /\ Coherent(ps.cs) /\ <<"done">> \notin ps.cs
        BY <3>1, StartFacts
      <4> QED
        BY <2>1, <2>4, <3>2, <4>1, BeginLike, Zenon
  <2>6. \A k \in 0..0 + Len(piece) - 1 : SkipsEndAt(f, text, k)
    BY <1>2, <2>1
  <2>7. \A k \in 1..Len(text) : f[k] = Advance(f[k - 1], text[k])
    BY <1>1 DEF IsChain
  <2>8. \A j \in 0..Len(piece) : Alike(g[j], f[0 + j], text, piece, 0, j)
    BY <2>1, <2>3, <2>5, <2>6, <2>7, PieceRuns
  <2>9. Alike(g[i], f[i], text, piece, 0, i)
    <3>1. i \in 0..Len(piece) /\ 0 + i = i
      BY <2>1
    <3> QED
      BY <2>8, <3>1
  <2>10. g[i] = NewRun(response, text, i)
    BY <2>1, <2>3 DEF NewRun, piece, ps
  <2> QED
    BY <2>9, <2>10 DEF piece
<1>3. \A i \in 0..Len(text) - 1 : SkipsEndAt(f, text, i)
  <2> DEFINE Bad == { i \in 0..Len(text) - 1 : ~SkipsEndAt(f, text, i) }
  <2>1. SUFFICES ASSUME Bad # {} PROVE FALSE
    OBVIOUS
  <2>2. PICK n \in Bad : \A k \in Bad : n <= k
    <3>1. Bad \in SUBSET Nat
      BY <1>0
    <3> HIDE DEF Bad
    <3> QED
      BY <2>1, <3>1, FirstPosition
  <2>3. n \in 0..Len(text) - 1 /\ ~SkipsEndAt(f, text, n)
    BY <2>2
  <2>4. \A k \in 0..n - 1 : SkipsEndAt(f, text, k)
    <3> TAKE k \in 0..n - 1
    <3>1. k \in 0..Len(text) - 1 /\ ~(n <= k)
      BY <1>0, <2>3
    <3>2. k \notin Bad
      BY <2>2, <3>1
    <3> QED
      BY <3>1, <3>2
  <2>5. Alike(NewRun(response, text, n), f[n], text, SubSeq(text, 1, n), 0, n)
    <3>1. n \in 0..Len(text)
      BY <1>0, <2>3
    <3> QED
      BY <1>2, <2>4, <3>1
  <2>6. NewRun(response, text, n).cs = f[n].cs
    BY <2>5 DEF Alike, Like, SameParser
  <2>7. SkipsEnd(f[n].cs, text[n + 1])
    BY <2>3, <2>6 DEF Unfolded, SkipsEnd, Targets, NewRun
  <2> QED
    BY <2>3, <2>7 DEF SkipsEndAt
<1>4. \A i \in 0..Len(text) :
         Alike(NewRun(response, text, i), f[i], text, SubSeq(text, 1, i), 0, i)
  <2> TAKE i \in 0..Len(text)
  <2>1. \A k \in 0..i - 1 : SkipsEndAt(f, text, k)
    BY <1>0, <1>3
  <2> QED
    BY <1>2, <2>1
<1> QED
  BY <1>1, <1>3, <1>4 DEF ps

(* No action takes an error back. *)
LEMMA StepError ==
  ASSUME NEW buffer, NEW r, IsRunOf(r, buffer), NEW x
  PROVE  Advance(r, x).error = r.error \/ Advance(r, x).error = TRUE
<1> DEFINE E(d) == /\ "error" \in DOMAIN d /\ "response" \in DOMAIN d
                   /\ d.error = r.error \/ d.error = TRUE
<1>1. E(r)
  BY DEF IsRunOf
<1>2. ASSUME NEW d, E(d), NEW v
      PROVE  /\ E([d EXCEPT !.mark = v]) /\ E([d EXCEPT !.fieldStart = v])
             /\ E([d EXCEPT !.fieldLen = v]) /\ E([d EXCEPT !.contentLen = v])
             /\ E([d EXCEPT !.chunked = v]) /\ E([d EXCEPT !.chunksDone = v])
             /\ E([d EXCEPT !.close = v]) /\ E([d EXCEPT !.error = TRUE])
             /\ E([d EXCEPT !.stop = v]) /\ E([d EXCEPT !.cs = v]) /\ E([d EXCEPT !.p = v])
  BY <1>2
<1>3. ASSUME NEW d, E(d), NEW v
      PROVE  /\ E([d EXCEPT !.response.version = v]) /\ E([d EXCEPT !.response.status = v])
             /\ E([d EXCEPT !.response.reason = v]) /\ E([d EXCEPT !.response.headers = v])
  BY <1>3
<1> HIDE DEF E
<1>4. ASSUME NEW d, E(d), NEW act \in { ActionOrder[i] : i \in 1..12 } PROVE E(DoAct(d, act))
  <2>1. E(DoAct(d, "Mark")) /\ E(DoAct(d, "StartField")) /\ E(DoAct(d, "WriteField"))
    <3>1. /\ DoAct(d, "Mark") = [d EXCEPT !.mark = d.p]
          /\ DoAct(d, "StartField") = [d EXCEPT !.fieldStart = d.p]
          /\ DoAct(d, "WriteField") = [d EXCEPT !.fieldLen = d.p - d.fieldStart]
      BY Zenon DEF DoAct
    <3>2. /\ E([d EXCEPT !.mark = d.p]) /\ E([d EXCEPT !.fieldStart = d.p])
          /\ E([d EXCEPT !.fieldLen = d.p - d.fieldStart])
      BY <1>2, <1>4, Zenon
    <3> QED
      BY <3>1, <3>2, Zenon
  <2>2. E(DoAct(d, "ContentLen")) /\ E(DoAct(d, "Close")) /\ E(DoAct(d, "Chunked")) /\ E(DoAct(d, "Done"))
    <3>1. /\ DoAct(d, "ContentLen") = [d EXCEPT !.contentLen = NumberIn(10, Text(d, d.mark))]
          /\ DoAct(d, "Close") = [d EXCEPT !.close = TRUE]
          /\ DoAct(d, "Chunked") = [d EXCEPT !.chunked = TRUE]
          /\ DoAct(d, "Done") = [d EXCEPT !.stop = TRUE]
      BY Zenon DEF DoAct
    <3>2. /\ E([d EXCEPT !.contentLen = NumberIn(10, Text(d, d.mark))])
          /\ E([d EXCEPT !.close = TRUE]) /\ E([d EXCEPT !.chunked = TRUE])
          /\ E([d EXCEPT !.stop = TRUE])
      BY <1>2, <1>4, Zenon
    <3> QED
      BY <3>1, <3>2, Zenon
  <2>3. E(DoAct(d, "ChunkSize"))
    <3> DEFINE size == NumberIn(16, Text(d, d.mark))
               done == size <= 0
               One1 == [d EXCEPT !.chunked = TRUE]
               Two == [One1 EXCEPT !.contentLen = size]
               Three == [Two EXCEPT !.chunksDone = done]
    <3>1. DoAct(d, "ChunkSize") = [d EXCEPT !.chunked = TRUE, !.contentLen = size, !.chunksDone = done]
      BY Zenon DEF DoAct, ChunkSize
    <3> HIDE DEF size, done
    <3>2. [d EXCEPT !.chunked = TRUE, !.contentLen = size, !.chunksDone = done] = Three
      OBVIOUS
    <3>3. E(One1)
      BY <1>2, <1>4, Zenon
    <3> HIDE DEF One1
    <3>4. E(Two)
      BY <1>2, <3>3, Zenon
    <3> HIDE DEF Two
    <3>5. E(Three)
      BY <1>2, <3>4, Zenon
    <3> QED
      BY <3>1, <3>2, <3>5, Zenon
  <2>4. E(DoAct(d, "Version")) /\ E(DoAct(d, "Status")) /\ E(DoAct(d, "Reason"))
    <3>1. /\ DoAct(d, "Version") = OnResponseVersion(d)
          /\ DoAct(d, "Status") = [d EXCEPT !.response.status = Text(d, d.mark)]
          /\ DoAct(d, "Reason") = [d EXCEPT !.response.reason = Text(d, d.mark)]
      BY Zenon DEF DoAct, OnResponseStatus, OnResponseReason
    <3>2. /\ E([d EXCEPT !.error = TRUE])
          /\ E([d EXCEPT !.response.version = <<Last(Text(d, d.mark))>>])
      BY <1>2, <1>3, <1>4, Zenon
    <3>3. E(OnResponseVersion(d))
      BY <3>2, Zenon DEF OnResponseVersion
    <3>4. /\ E([d EXCEPT !.response.status = Text(d, d.mark)])
          /\ E([d EXCEPT !.response.reason = Text(d, d.mark)])
      BY <1>3, <1>4, Zenon
    <3> QED
      BY <3>1, <3>3, <3>4, Zenon
  <2>5. E(DoAct(d, "WriteValue"))
    <3>1. DoAct(d, "WriteValue") = OnResponseHttpField(d)
      BY Zenon DEF DoAct
    <3>2. OnResponseHttpField(d) = d \/ \E h : OnResponseHttpField(d) = [d EXCEPT !.response.headers = h]
      BY Zenon DEF OnResponseHttpField
    <3>3. \A h : E([d EXCEPT !.response.headers = h])
      BY <1>3, <1>4, Zenon
    <3> QED
      BY <1>4, <3>1, <3>2, <3>3, Zenon
  <2>6. act \in {"Mark", "StartField", "WriteField", "ContentLen", "ChunkSize", "Close", "Chunked",
                 "Version", "Status", "Reason", "WriteValue", "Done"}
    BY DEF ActionOrder
  <2> QED
    BY <2>1, <2>2, <2>3, <2>4, <2>5, <2>6
<1>5. ASSUME NEW acts PROVE E(DoAll(r, acts))
  <2>1. PICK f : /\ f[0] = r
                 /\ \A i \in 1..12 : f[i] = One(f[i - 1], ActionOrder[i], acts)
                 /\ DoAll(r, acts) = f[12]
    BY FoldSteps
  <2>2. \A i \in 1..12 : E(f[i - 1]) => E(f[i])
    <3> TAKE i \in 1..12
    <3>1. f[i] = f[i - 1] \/ f[i] = DoAct(f[i - 1], ActionOrder[i])
      BY <2>1, Zenon DEF One
    <3> QED
      BY <1>4, <3>1, Zenon
  <2> DEFINE Bad == { i \in 0..12 : ~E(f[i]) }
  <2>3. CASE Bad = {}
    BY <2>1, <2>3
  <2>4. CASE Bad # {}
    <3>1. PICK n \in Bad : \A k \in Bad : n <= k
      <4>1. Bad \in SUBSET Nat
        OBVIOUS
      <4> HIDE DEF Bad
      <4> QED
        BY <2>4, <4>1, FirstPosition
    <3>2. n # 0
      BY <1>1, <2>1, <3>1
    <3>3. n \in 1..12 /\ n - 1 \in 0..12 /\ ~(n <= n - 1)
      BY <3>1, <3>2
    <3>4. n - 1 \notin Bad
      BY <3>1, <3>3
    <3> QED
      BY <2>2, <3>1, <3>3, <3>4
  <2> QED
    BY <2>3, <2>4
<1>6. CASE r.stop
  BY <1>6 DEF Advance
<1>7. CASE ~r.stop /\ MovesOf(r.cs, x) = {}
  <2>1. Advance(r, x) = [r EXCEPT !.cs = {}, !.stop = TRUE]
    BY <1>7, StepGoes, Zenon DEF Fail
  <2> QED
    BY <1>1, <2>1 DEF E
<1>8. CASE ~r.stop /\ MovesOf(r.cs, x) # {}
  <2> DEFINE m == MovesOf(r.cs, x)
             d == DoAll(r, Acts(m))
  <2>1. Advance(r, x) = [d EXCEPT !.cs = Targets(m), !.p = d.p + 1]
    BY <1>8, StepGoes, Zenon DEF Go
  <2>2. E(d)
    BY <1>5
  <2> HIDE DEF d, m
  <2> QED
    BY <2>1, <2>2 DEF E
<1> QED
  BY <1>6, <1>7, <1>8

(* A run that has stopped stays as it is, and an error stays. *)
LEMMA RunStays ==
  ASSUME NEW text, NEW f, \A i \in 1..Len(text) : f[i] = Advance(f[i - 1], text[i]), Len(text) \in Nat,
         NEW a \in 0..Len(text), \A i \in a..Len(text) : IsRunOf(f[i], text)
  PROVE  /\ f[a].stop => \A i \in a..Len(text) : f[i] = f[a]
         /\ f[a].error => \A i \in a..Len(text) : f[i].error
         /\ f[a].error \in BOOLEAN => \A i \in a..Len(text) : f[i].error \in BOOLEAN
<1>0. a \in Nat
  OBVIOUS
<1> DEFINE OK(i) == /\ f[a].stop => f[i] = f[a]
                    /\ f[a].error => f[i].error
                    /\ f[a].error \in BOOLEAN => f[i].error \in BOOLEAN
           Bad == { i \in a..Len(text) : ~OK(i) }
<1>1. CASE Bad = {}
  BY <1>1
<1>2. CASE Bad # {}
  <2>1. PICK n \in Bad : \A k \in Bad : n <= k
    <3>1. Bad \in SUBSET Nat
      BY <1>0
    <3> HIDE DEF Bad
    <3> QED
      BY <1>2, <3>1, FirstPosition
  <2>2. OK(a)
    OBVIOUS
  <2>3. n \in 1..Len(text) /\ n - 1 \in a..Len(text) /\ ~(n <= n - 1)
    <3>1. n # a
      BY <2>1, <2>2
    <3> QED
      BY <1>0, <2>1, <3>1
  <2>4. OK(n - 1)
    <3>1. n - 1 \notin Bad
      BY <2>1, <2>3
    <3> QED
      BY <2>3, <3>1
  <2>5. f[n] = Advance(f[n - 1], text[n]) /\ IsRunOf(f[n - 1], text)
    BY <2>3
  <2>6. f[n].error = f[n - 1].error \/ f[n].error = TRUE
    <3>1. \/ Advance(f[n - 1], text[n]).error = f[n - 1].error
          \/ Advance(f[n - 1], text[n]).error = TRUE
      BY <2>5, StepError, Zenon
    <3> QED
      BY <2>5, <3>1
  <2>7. f[a].stop => f[n] = f[a]
    BY <2>4, <2>5 DEF Advance
  <2>8. OK(n)
    BY <2>4, <2>6, <2>7
  <2> QED
    BY <2>1, <2>8
<1> QED
  BY <1>1, <1>2

\* What r, a run on what follows the first c characters of a text, has to do with w, the run
\* on the whole text.
RunsAsWhole(r, w, response, text, piece, c) ==
    /\ IsRunOf(r, piece)
    /\ SameParser(r, NewRun(response, text, c + Len(piece)))
    /\ <<"done">> \in r.cs \/ r.cs = {} \/ c + Len(piece) = Len(text) => SameParser(r, w)
    /\ <<"done">> \in r.cs => w.p = r.p + c
    /\ r.error => w.error
    /\ r.error \in BOOLEAN
    /\ r.cs = {} => w.cs = {}

(* A message that is cut into pieces between its tokens is parsed as if it had come in one. *)
LEMMA PieceByPiece ==
  ASSUME NEW response, IsResponse(response), NEW text \in Seq(RespChar),
         Unfolded(FreshParser(response), text), NEW piece, NEW c, Shifted(text, piece, c),
         NEW ps, SameParser(ps, NewRun(response, text, c)),
         <<"done">> \notin ps.cs, AtTokenEnd(ps.cs)
  PROVE  RunsAsWhole(ExecResponse(ps, piece, FALSE), ExecResponse(FreshParser(response), text, FALSE),
                     response, text, piece, c)
<1> DEFINE n == Len(piece)
           r == ExecResponse(ps, piece, FALSE)
           whole == ExecResponse(FreshParser(response), text, FALSE)
           w == NewRun(response, text, c)
<1>0. n \in Nat /\ Len(text) \in Nat /\ c \in Nat /\ c + n <= Len(text) /\ piece \in Seq(RespChar)
  BY DEF Shifted
<1> HIDE DEF r, whole, w
<1>1. PICK f : /\ IsChain(f, FreshParser(response), text)
               /\ whole = f[Len(text)]
               /\ \A i \in 0..Len(text) - 1 : SkipsEndAt(f, text, i)
               /\ \A i \in 0..Len(text) :
                    Alike(NewRun(response, text, i), f[i], text, SubSeq(text, 1, i), 0, i)
  BY WholeRun DEF whole
<1>2. PICK g : IsChain(g, ps, piece) /\ r = g[n]
  BY <1>0, ExecuteSteps DEF IsChain, r
<1>3. c \in 0..Len(text) /\ c + n \in 0..Len(text)
  BY <1>0
<1>4. Alike(w, f[c], text, SubSeq(text, 1, c), 0, c)
  BY <1>1, <1>3 DEF w
<1>5. SameParser(ps, w)
  BY DEF w
<1>6. /\ ~w.stop /\ w.stop \in BOOLEAN /\ w.p = c /\ Coherent(w.cs)
      /\ f[c].stop = w.stop /\ f[c].p = w.p + 0 /\ SameParser(w, f[c]) /\ IsRunOf(f[c], text)
  <2>1. At(w, c) /\ Like(w, f[c], text, SubSeq(text, 1, c), 0, w.p, w.stop, LiveAt(w.cs))
    BY <1>4 DEF Alike
  <2>2. w.cs = ps.cs
    BY <1>5 DEF SameParser
  <2>3. ~w.stop
    BY <2>1, <2>2 DEF At, AtTokenEnd
  <2> QED
    BY <2>1, <2>3 DEF At, Like
<1>7. Alike(Begin(ps, piece), f[c], text, piece, c, 0)
  <2>1. f[c].stop = FALSE
    BY <1>6, Zenon
  <2>2. f[c].p = c
    BY <1>0, <1>6
  <2>3. SameParser(ps, f[c])
    BY <1>5, <1>6 DEF SameParser
  <2>4. Coherent(ps.cs)
    BY <1>5, <1>6 DEF SameParser
  <2> QED
    BY <1>6, <2>1, <2>2, <2>3, <2>4, BeginLike, Zenon
<1>8. Alike(r, f[c + n], text, piece, c, n)
  <2>1. Alike(g[0], f[c], text, piece, c, 0)
    BY <1>2, <1>7 DEF IsChain
  <2>2. \A i \in c..c + n - 1 : SkipsEndAt(f, text, i)
    BY <1>0, <1>1
  <2>3. \A i \in 1..Len(text) : f[i] = Advance(f[i - 1], text[i])
    BY <1>1 DEF IsChain
  <2>4. \A j \in 0..n : Alike(g[j], f[c + j], text, piece, c, j)
    BY <1>2, <2>1, <2>2, <2>3, PieceRuns
  <2> QED
    BY <1>0, <1>2, <2>4
<1>9. /\ IsRunOf(r, piece) /\ SameParser(r, f[c + n]) /\ f[c + n].p = r.p + c /\ f[c + n].stop = r.stop
      /\ At(r, n)
  BY <1>8 DEF Alike, Like
<1>10. SameParser(r, NewRun(response, text, c + n))
  <2>1. Alike(NewRun(response, text, c + n), f[c + n], text, SubSeq(text, 1, c + n), 0, c + n)
    BY <1>1, <1>3
  <2> QED
    BY <1>9, <2>1 DEF Alike, Like, SameParser
<1>11. \A i \in 0..Len(text) : IsRunOf(f[i], text)
  BY <1>1 DEF Alike, Like
<1>12. /\ r.stop => whole = f[c + n]
       /\ f[c + n].error => whole.error
       /\ f[c + n].error \in BOOLEAN
  <2>1. \A i \in 1..Len(text) : f[i] = Advance(f[i - 1], text[i])
    BY <1>1 DEF IsChain
  <2>2. /\ f[c + n].stop => \A i \in c + n..Len(text) : f[i] = f[c + n]
        /\ f[c + n].error => \A i \in c + n..Len(text) : f[i].error
    <3>1. \A i \in c + n..Len(text) : IsRunOf(f[i], text)
      BY <1>0, <1>11
    <3> DEFINE a == c + n
    <3> HIDE DEF a
    <3>2. a \in 0..Len(text) /\ \A i \in a..Len(text) : IsRunOf(f[i], text)
      BY <1>3, <3>1 DEF a
    <3>3. /\ f[a].stop => \A i \in a..Len(text) : f[i] = f[a]
          /\ f[a].error => \A i \in a..Len(text) : f[i].error
      BY <1>0, <2>1, <3>2, RunStays
    <3> QED
      BY <3>3 DEF a
  <2>3. f[c + n].error \in BOOLEAN
    <3>1. f[0].error = FALSE
      <4>1. FreshParser(response).error = FALSE
        BY FreshFields
      <4> QED
        BY <1>1, <4>1 DEF IsChain, Begin
    <3>2. 0 \in 0..Len(text)
      BY <1>0
    <3>3. f[0].error \in BOOLEAN => \A i \in 0..Len(text) : f[i].error \in BOOLEAN
      BY <1>0, <1>11, <2>1, <3>2, RunStays
    <3> QED
      BY <1>3, <3>1, <3>3
  <2>4. Len(text) \in c + n..Len(text)
    BY <1>0
  <2> QED
    BY <1>1, <1>9, <2>2, <2>3, <2>4
<1>13. ASSUME <<"done">> \in r.cs \/ r.cs = {} \/ c + n = Len(text) PROVE SameParser(r, whole)
  <2>1. CASE <<"done">> \in r.cs \/ r.cs = {}
    BY <1>9, <1>12, <2>1 DEF At
  <2>2. CASE c + n = Len(text)
    BY <1>1, <1>9, <2>2
  <2> QED
    BY <1>13, <2>1, <2>2
<1> QED
  BY <1>9, <1>10, <1>12, <1>13 DEF RunsAsWhole, At, SameParser, r, whole

(* The first call has what a parser that begins anew has. *)
LEMMA FromStart ==
  ASSUME NEW response, IsResponse(response), NEW text \in Seq(RespChar),
         Unfolded(FreshParser(response), text)
  PROVE  SameParser(FreshParser(response), NewRun(response, text, 0))
<1>1. 0 \in 0..Len(text)
  OBVIOUS
<1>2. PICK f : /\ IsChain(f, FreshParser(response), text)
               /\ \A i \in 0..Len(text) :
                    Alike(NewRun(response, text, i), f[i], text, SubSeq(text, 1, i), 0, i)
  BY WholeRun
<1>3. SameParser(NewRun(response, text, 0), f[0])
  BY <1>1, <1>2 DEF Alike, Like
<1>4. SameParser(FreshParser(response), f[0])
  BY <1>2 DEF IsChain, Begin, SameParser
<1> QED
  BY <1>3, <1>4 DEF SameParser

(* A parser whose message is done makes nothing of what follows. *)
LEMMA DoneIsStuck ==
  ASSUME NEW ps, <<"done">> \in ps.cs, NEW S, NEW buffer \in Seq(S), buffer # <<>>
  PROVE  ExecResponse(ps, buffer, FALSE).cs = {}
<1> DEFINE n == Len(buffer)
<1>1. n \in Nat /\ n # 0
  OBVIOUS
<1>2. PICK f : /\ f[0] = Begin(ps, buffer)
               /\ \A i \in 1..n : f[i] = Advance(f[i - 1], buffer[i])
               /\ ExecResponse(ps, buffer, FALSE) = f[n]
  BY ExecuteSteps
<1> DEFINE Stuck(i) == f[i].cs = {} /\ f[i].stop
           Bad == { i \in 1..n : ~Stuck(i) }
<1>3. f[0].stop = FALSE /\ <<"done">> \in f[0].cs
  BY <1>2 DEF Begin
<1>4. Stuck(1)
  <2>1. MovesOf(f[0].cs, buffer[1]) = {}
    BY <1>3 DEF MovesOf
  <2>2. f[1] = [f[0] EXCEPT !.cs = {}, !.stop = TRUE]
    <3>1. f[1] = Advance(f[0], buffer[1])
      BY <1>1, <1>2
    <3> QED
      BY <1>3, <2>1, <3>1 DEF Advance
  <2> QED
    BY <1>2, <2>2 DEF Begin
<1>5. Bad = {}
  <2>1. SUFFICES ASSUME Bad # {} PROVE FALSE
    OBVIOUS
  <2>2. PICK k \in Bad : \A j \in Bad : k <= j
    <3>1. Bad \in SUBSET Nat
      OBVIOUS
    <3> HIDE DEF Bad
    <3> QED
      BY <2>1, <3>1, FirstPosition
  <2>3. k # 1
    BY <1>4, <2>2
  <2>4. k - 1 \in 1..n /\ k \in 1..n /\ ~(k <= k - 1)
    BY <1>1, <2>2, <2>3
  <2>5. Stuck(k - 1)
    BY <2>2, <2>4
  <2>6. f[k] = f[k - 1]
    BY <1>2, <2>4, <2>5 DEF Advance
  <2> QED
    BY <2>2, <2>5, <2>6
<1>6. Stuck(n)
  BY <1>1, <1>5
<1> QED
  BY <1>2, <1>6

RunOf(begin, buffer) ==
    LET run[i \in 0..Len(buffer)] == IF i = 0 THEN begin ELSE Turn(run[i - 1], buffer[i])
    IN run[Len(buffer)]

(* For a chunk the parser begins anew, and keeps the response. *)
LEMMA ExecuteChunk ==
  ASSUME NEW ps, ps = ParserOf(ps), ps.error = FALSE, NEW buffer
  PROVE  ExecResponse(ps, buffer, TRUE) = ExecResponse(FreshParser(ps.response), buffer, FALSE)
<1>1. ExecResponse(ps, buffer, TRUE) = RunOf(Begin(Restarted(ps), buffer), buffer)
  BY Zenon DEF ExecResponse, RunOf, Turn
<1>2. ExecResponse(FreshParser(ps.response), buffer, FALSE) = RunOf(Begin(FreshParser(ps.response), buffer), buffer)
  BY Zenon DEF ExecResponse, RunOf, Turn
<1>3. Begin(Restarted(ps), buffer) = Begin(FreshParser(ps.response), buffer)
  <2> DEFINE q == FreshParser(ps.response)
             t == Restarted(ps)
  <2>1. /\ q.cs = {<<"start">>} /\ q.contentLen = -1 /\ q.chunked = FALSE /\ q.chunksDone = FALSE
        /\ q.close = FALSE /\ q.error = FALSE /\ q.response = ps.response
    BY FreshFields
  <2>2. /\ t.cs = {<<"start">>} /\ t.contentLen = -1 /\ t.chunked = FALSE /\ t.chunksDone = FALSE
        /\ t.close = FALSE /\ t.error = FALSE /\ t.response = ps.response
    BY DEF Restarted, ParserOf
  <2> HIDE DEF q, t
  <2>3. Begin(t, buffer) = Begin(q, buffer)
    BY <2>1, <2>2, Zenon DEF Begin
  <2> QED
    BY <2>3 DEF q, t
<1> QED
  BY <1>1, <1>2, <1>3

-----------------------------------------------------------------------------

(* A sequence is what a read takes of it with what it leaves. *)
LEMMA SplitAt ==
  ASSUME NEW S, NEW s \in Seq(S), NEW n \in 0..Len(s)
  PROVE  /\ SubSeq(s, 1, n) \in Seq(S) /\ Len(SubSeq(s, 1, n)) = n
         /\ Behind(s, n) \in Seq(S) /\ Len(Behind(s, n)) = Len(s) - n
         /\ s = SubSeq(s, 1, n) \o Behind(s, n)
<1>1. Len(s) \in Nat /\ n \in Nat /\ n <= Len(s)
  OBVIOUS
<1>2. /\ SubSeq(s, 1, n) \in Seq(S) /\ Len(SubSeq(s, 1, n)) = n
      /\ Behind(s, n) \in Seq(S) /\ Len(Behind(s, n)) = Len(s) - n
  BY SplitElements DEF Behind
<1>3. SubSeq(s, 1, n) \o SubSeq(s, n + 1, Len(s)) = SubSeq(s, 1, Len(s))
  <2>1. 1 \in 1..Len(s) + 1 /\ n \in 1 - 1..Len(s) /\ Len(s) \in n..Len(s)
    BY <1>1
  <2> QED
    BY <2>1, ConcatAdjacentSubSeq
<1>4. SubSeq(s, 1, Len(s)) = s
  BY SubSeqFull
<1> QED
  BY <1>2, <1>3, <1>4 DEF Behind

(* Where two texts are the same, so are their first and their last parts. *)
LEMMA SameLengths ==
  ASSUME NEW S, NEW a \in Seq(S), NEW b \in Seq(S), NEW x \in Seq(S), NEW y \in Seq(S),
         a \o b = x \o y, Len(a) = Len(x)
  PROVE  a = x /\ b = y
<1> DEFINE u == a \o b
           v == x \o y
<1>1. /\ Len(a) \in Nat /\ Len(b) \in Nat /\ Len(u) = Len(a) + Len(b)
      /\ \A i \in 1..Len(a) + Len(b) : u[i] = IF i <= Len(a) THEN a[i] ELSE b[i - Len(a)]
  <2>1. Len(a) \in Nat /\ Len(b) \in Nat
    OBVIOUS
  <2>2. /\ Len(u) = Len(a) + Len(b)
        /\ \A i \in 1..Len(a) + Len(b) : u[i] = IF i <= Len(a) THEN a[i] ELSE b[i - Len(a)]
    BY ConcatProperties, Zenon
  <2> QED
    BY <2>1, <2>2
<1>2. /\ Len(x) \in Nat /\ Len(y) \in Nat /\ Len(v) = Len(x) + Len(y)
      /\ \A i \in 1..Len(x) + Len(y) : v[i] = IF i <= Len(x) THEN x[i] ELSE y[i - Len(x)]
  <2>1. Len(x) \in Nat /\ Len(y) \in Nat
    OBVIOUS
  <2>2. /\ Len(v) = Len(x) + Len(y)
        /\ \A i \in 1..Len(x) + Len(y) : v[i] = IF i <= Len(x) THEN x[i] ELSE y[i - Len(x)]
    BY ConcatProperties, Zenon
  <2> QED
    BY <2>1, <2>2
<1>3. u = v
  OBVIOUS
<1> HIDE DEF u, v
<1>4. \A i \in 1..Len(a) : a[i] = x[i]
  BY <1>1, <1>2, <1>3
<1>5. a = x
  BY <1>4, SeqEqual
<1>6. Len(b) = Len(y)
  BY <1>1, <1>2, <1>3
<1>7. \A i \in 1..Len(b) : b[i] = y[i]
  <2> TAKE i \in 1..Len(b)
  <2>1. Len(a) + i \in 1..Len(a) + Len(b) /\ ~(Len(a) + i <= Len(a)) /\ Len(a) + i - Len(a) = i
    BY <1>1
  <2>2. u[Len(a) + i] = b[i]
    BY <1>1, <2>1
  <2>3. v[Len(a) + i] = y[i]
    BY <1>2, <1>6, <2>1
  <2> QED
    BY <1>3, <2>2, <2>3
<1> QED
  BY <1>5, <1>6, <1>7, SeqEqual

LEMMA Associative ==
  ASSUME NEW S
  PROVE  \A a, b, c \in Seq(S) : (a \o b) \o c = a \o (b \o c)
<1> SUFFICES ASSUME NEW a \in Seq(S), NEW b \in Seq(S), NEW c \in Seq(S)
             PROVE  (a \o b) \o c = a \o (b \o c)
  OBVIOUS
<1> QED
  BY ConcatAssociative

LEMMA CharsAssociative == \A a, b, c \in Seq(RespChar) : (a \o b) \o c = a \o (b \o c)
  BY Associative

LEMMA FirstPart ==
  ASSUME NEW S, NEW a \in Seq(S), NEW b \in Seq(S), NEW x \in Seq(S), NEW y \in Seq(S),
         a \o b = x \o y, Len(a) <= Len(x)
  PROVE  LET z == Behind(x, Len(a)) IN
         /\ z \in Seq(S) /\ Len(z) = Len(x) - Len(a)
         /\ x = a \o z /\ b = z \o y
<1> DEFINE z == Behind(x, Len(a))
           first == SubSeq(x, 1, Len(a))
<1>1. Len(a) \in 0..Len(x)
  OBVIOUS
<1>2. /\ first \in Seq(S) /\ Len(first) = Len(a) /\ z \in Seq(S) /\ Len(z) = Len(x) - Len(a)
      /\ x = first \o z
  BY <1>1, SplitAt
<1> HIDE DEF first, z
<1>3. x \o y = first \o (z \o y)
  <2>1. first \in Seq(S) /\ z \in Seq(S)
    BY <1>2
  <2>2. (first \o z) \o y = first \o (z \o y)
    BY <2>1, ConcatAssociative, SMTT(40)
  <2> QED
    BY <1>2, <2>2, Zenon
<1>4. z \o y \in Seq(S)
  BY <1>2, ConcatProperties
<1>5. a = first /\ b = z \o y
  BY <1>2, <1>3, <1>4, SameLengths, ZenonT(40)
<1> QED
  BY <1>2, <1>5 DEF z

(* What is left of the text behind the head, and the data of the chunks, chunk by chunk. *)
LEMMA ChunkFacts ==
  ASSUME ResponsesAssumption, NEW r \in Responses
  PROVE  /\ Len(r.chunks) \in Nat /\ DOMAIN r.chunks = 1..Len(r.chunks)
         /\ ResponseText(r) \in Seq(RespChar) /\ r.body \in Seq(RespChar)
         /\ \A k \in 1..Len(r.chunks) :
              ChunkText(r, r.chunks[k]) \in Seq(RespChar) /\ r.chunks[k].data \in Seq(RespChar)
<1>1. r.chunks \in Seq(ToSet(r.chunks)) /\ {ResponseText(r), r.body} \subseteq Seq(RespChar)
  BY DEF ResponsesAssumption
<1>2. DOMAIN r.chunks = 1..Len(r.chunks) /\ Len(r.chunks) \in Nat
  BY <1>1
<1>3. \A k \in DOMAIN r.chunks : {ChunkText(r, r.chunks[k]), r.chunks[k].data} \subseteq Seq(RespChar)
  BY DEF ResponsesAssumption
<1> QED
  BY <1>1, <1>2, <1>3

LEMMA RestOfText ==
  ASSUME ResponsesAssumption, NEW r \in Responses
  PROVE  /\ \A k \in 1..Len(r.chunks) + 1 : RestText(r, k) \in Seq(RespChar)
         /\ RestText(r, Len(r.chunks) + 1) = <<>>
<1> DEFINE n == Len(r.chunks)
           texts(k) == [i \in 1..n - k + 1 |-> ChunkText(r, r.chunks[k + i - 1])]
<1>1. n \in Nat /\ \A k \in 1..n : ChunkText(r, r.chunks[k]) \in Seq(RespChar)
  BY ChunkFacts
<1>2. ASSUME NEW k \in 1..n + 1
      PROVE  RestText(r, k) \in Seq(RespChar)
  <2>1. n - k + 1 \in Nat /\ \A i \in 1..n - k + 1 : ChunkText(r, r.chunks[k + i - 1]) \in Seq(RespChar)
    <3>1. n - k + 1 \in Nat /\ \A i \in 1..n - k + 1 : k + i - 1 \in 1..n
      BY <1>1
    <3> QED
      BY <1>1, <3>1
  <2>2. texts(k) \in [1..n - k + 1 -> Seq(RespChar)]
    BY <2>1
  <2>3. texts(k) \in Seq(Seq(RespChar))
    <3> DEFINE m == n - k + 1
               t == texts(k)
               T == Seq(RespChar)
    <3>1. m \in Nat /\ t \in [1..m -> T]
      BY <2>1, <2>2
    <3> HIDE DEF m, t, T
    <3>2. t \in Seq(T)
      BY <3>1
    <3> QED
      BY <3>2 DEF t, T
  <2>4. FlattenSeq(texts(k)) \in Seq(RespChar)
    BY <2>3, FlattenType
  <2> QED
    BY <2>4 DEF RestText
<1>3. RestText(r, n + 1) = <<>>
  <2>1. n - (n + 1) + 1 = 0
    BY <1>1
  <2>2. texts(n + 1) = <<>>
    <3>1. texts(n + 1) = [i \in 1..0 |-> ChunkText(r, r.chunks[n + 1 + i - 1])]
      BY <2>1
    <3>2. 1..0 = {}
      OBVIOUS
    <3> QED
      BY <3>1, <3>2
  <2>3. FlattenSeq(<<>>) = <<>>
    BY FlattenEmpty
  <2> QED
    BY <2>2, <2>3 DEF RestText
<1> QED
  BY <1>2, <1>3

LEMMA DataOfChunks ==
  ASSUME ResponsesAssumption, NEW r \in Responses
  PROVE  /\ DataUpTo(r, 0) = <<>>
         /\ \A k \in 0..Len(r.chunks) : DataUpTo(r, k) \in Seq(RespChar)
         /\ \A k \in 1..Len(r.chunks) : DataUpTo(r, k) = DataUpTo(r, k - 1) \o r.chunks[k].data
<1> DEFINE n == Len(r.chunks)
           d(i) == r.chunks[i].data
           T == Seq(RespChar)
           parts(k) == [i \in 1..k |-> d(i)]
<1>1. n \in Nat /\ \A i \in 1..n : d(i) \in T
  BY ChunkFacts
<1>2. \A k : DataUpTo(r, k) = FlattenSeq(parts(k))
  BY DEF DataUpTo
<1> HIDE DEF n, d
<1>3. \A k \in 0..n : parts(k) \in Seq(T)
  <2> TAKE k \in 0..n
  <2>1. k \in Nat /\ parts(k) \in [1..k -> T]
    BY <1>1
  <2> HIDE DEF parts, T
  <2> QED
    BY <2>1
<1>4. \A k \in 0..n : FlattenSeq(parts(k)) \in Seq(RespChar)
  BY <1>3, FlattenType
<1>5. FlattenSeq(parts(0)) = <<>>
  <2>1. parts(0) = <<>>
    OBVIOUS
  <2>2. FlattenSeq(<<>>) = <<>>
    BY FlattenEmpty
  <2> QED
    BY <2>1, <2>2
<1>6. ASSUME NEW k \in 1..n
      PROVE  FlattenSeq(parts(k)) = FlattenSeq(parts(k - 1)) \o d(k)
  <2>1. k - 1 \in 0..n /\ k \in 0..n /\ k \in Nat /\ d(k) \in T
    BY <1>1
  <2>2. parts(k - 1) \in Seq(T) /\ parts(k) \in Seq(T)
    BY <1>3, <2>1
  <2>3. parts(k) = Append(parts(k - 1), d(k))
    <3>1. Len(parts(k - 1)) = k - 1 /\ Len(parts(k)) = k
      BY <2>1
    <3>2. \A i \in 1..k : parts(k)[i] = d(i)
      OBVIOUS
    <3>3. \A i \in 1..k - 1 : parts(k - 1)[i] = d(i)
      OBVIOUS
    <3> DEFINE a == parts(k)
               b == parts(k - 1)
    <3>4. /\ a \in Seq(T) /\ b \in Seq(T) /\ Len(b) = k - 1 /\ Len(a) = k
          /\ \A i \in 1..k : a[i] = d(i)
          /\ \A i \in 1..k - 1 : b[i] = d(i)
      BY <2>2, <3>1, <3>2, <3>3
    <3> HIDE DEF a, b, T
    <3>5. /\ Append(b, d(k)) \in Seq(T) /\ Len(Append(b, d(k))) = k
          /\ \A i \in 1..k : Append(b, d(k))[i] = IF i = k THEN d(k) ELSE b[i]
      BY <2>1, <3>4
    <3>6. \A i \in 1..k : a[i] = Append(b, d(k))[i]
      BY <2>1, <3>4, <3>5
    <3>7. a = Append(b, d(k))
      BY <3>4, <3>5, <3>6, SeqEqual
    <3> QED
      BY <3>7 DEF a, b
  <2> HIDE DEF parts
  <2>4. FlattenSeq(Append(parts(k - 1), d(k))) = FlattenSeq(parts(k - 1)) \o d(k)
    BY <2>1, <2>2, FlattenAppend
  <2> QED
    BY <2>3, <2>4
<1> QED
  BY <1>2, <1>4, <1>5, <1>6 DEF n, d

(* What a chunk is followed by. *)
LEMMA LineEnd == <<"CR", "LF">> \in Seq(RespChar) /\ Len(<<"CR", "LF">>) = 2
  BY DEF RespChar, Space

(* What is stored is a response. *)
LEMMA StoredResponse ==
  /\ HttpResponseParserNew = FreshParser(HttpResponseParserNew.response)
  /\ IsResponse(HttpResponseParserNew.response)
  /\ \A r, k : IsResponse(SentUpTo(r, k))
<1>1. HttpResponseParserNew = FreshParser(HttpResponseParserNew.response)
  BY DEF HttpResponseParserNew, FreshParser
<1>2. IsResponse(HttpResponseParserNew.response)
  BY DEF HttpResponseParserNew, IsResponse
<1>3. \A r, k : IsResponse(SentUpTo(r, k))
  BY DEF SentUpTo, IsResponse
<1> QED
  BY <1>1, <1>2, <1>3

-----------------------------------------------------------------------------

\* The text t is a and then b.
IsSplit(t, a, b) == a \in Seq(RespChar) /\ b \in Seq(RespChar) /\ t = a \o b

\* The head and the first k chunks have been understood.
UpTo(k) ==
    /\ HeadParsed(sent) /\ \A i \in 1..k : ChunkParsed(sent, i)
    /\ respParser = ParserOf(respParser) /\ respParser.error = FALSE /\ respParser.response = SentUpTo(sent, k)

\* The parser is where it would be had it had all that was read of the head at once, or it
\* has found the head's end in a head that it does not understand.
AtHead ==
    LET text == ResponseText(sent)
        c == Len(text) - Len(arriving)
    IN /\ data = <<>> /\ body = <<>>
       /\ Shifted(text, arriving, c)
       /\ \/ /\ <<"done">> \notin respParser.cs /\ AtTokenEnd(respParser.cs)
             /\ SameParser(respParser, NewRun(HttpResponseParserNew.response, text, c))
          \/ <<"done">> \in respParser.cs /\ Refused(WholeHead(sent))

\* The buffer and what was not read yet begin with a chunk.
AtChunk ==
    \E k \in 1..Len(sent.chunks) :
        /\ UpTo(k - 1)
        /\ IsSplit(RestText(sent, k), data, arriving) /\ body = DataUpTo(sent, k - 1)

\* Of a chunk and its line end, x has been read.
InChunk ==
    \E k \in 1..Len(sent.chunks) :
        LET before == DataUpTo(sent, k - 1)
            x == Behind(body, Len(before))
            text == sent.chunks[k].data
        IN /\ UpTo(k) /\ respParser.chunksDone = (k = Len(sent.chunks))
           /\ data = <<>> /\ IsSplit(body, before, x)
           /\ IsSplit(text \o <<"CR", "LF">> \o RestText(sent, k + 1), x, arriving)
           /\ missing = Len(text) + 2 - Len(x) /\ missing > 0

InBody ==
    /\ sent.chunks = <<>> /\ UpTo(0)
    /\ data = <<>> /\ IsSplit(sent.body, body, arriving)
    /\ missing = Len(sent.body) - Len(body) /\ missing > 0

Returned ==
    /\ sent.ok /\ respParser.response = HeadAsSent(sent) /\ body = BodyAsSent(sent)
    /\ arriving = <<>> /\ data = <<>>

InStep ==
    /\ loop \in {"head", "next-chunk", "chunk-body", "body", "returned", "closed"}
    /\ loop = "head" => AtHead
    /\ loop = "next-chunk" => AtChunk
    /\ loop = "chunk-body" => InChunk
    /\ loop = "body" => InBody
    /\ loop = "returned" => Returned
    /\ loop = "closed" => (sent.ok => failed)

ConnectionInv == sent \in Responses /\ (~cut => InStep)

-----------------------------------------------------------------------------

(* What a read leaves unread is the rest of the text. *)
LEMMA BehindFirst ==
  ASSUME NEW S, NEW a \in Seq(S), NEW b \in Seq(S)
  PROVE  /\ Behind(a \o b, Len(a)) = b
         /\ SubSeq(a \o b, 1, Len(a)) = a
<1> DEFINE s == a \o b
<1>1. s \in Seq(S) /\ Len(s) = Len(a) + Len(b)
  BY ConcatProperties
<1>2. Len(a) \in 0..Len(s)
  BY <1>1
<1> HIDE DEF s
<1>3. /\ SubSeq(s, 1, Len(a)) \in Seq(S) /\ Len(SubSeq(s, 1, Len(a))) = Len(a)
      /\ Behind(s, Len(a)) \in Seq(S) /\ s = SubSeq(s, 1, Len(a)) \o Behind(s, Len(a))
  BY <1>1, <1>2, SplitAt
<1> DEFINE x == SubSeq(s, 1, Len(a))
           y == Behind(s, Len(a))
<1>4. x \in Seq(S) /\ y \in Seq(S) /\ a \o b = x \o y /\ Len(a) = Len(x)
  BY <1>3 DEF s
<1> HIDE DEF x, y
<1>5. a = x /\ b = y
  BY <1>4, SameLengths
<1> QED
  BY <1>5 DEF x, y, s

LEMMA PieceOf ==
  ASSUME NEW a \in Seq(RespChar), NEW b \in Seq(RespChar), NEW text, text = a \o b
  PROVE  text \in Seq(RespChar) /\ Shifted(text, a, 0)
<1>1. /\ text \in Seq(RespChar) /\ Len(text) = Len(a) + Len(b)
      /\ \A i \in 1..Len(a) + Len(b) : text[i] = IF i <= Len(a) THEN a[i] ELSE b[i - Len(a)]
  BY ConcatProperties, Zenon
<1>2. Len(a) \in Nat /\ Len(b) \in Nat
  OBVIOUS
<1>3. \A j \in 1..Len(a) : a[j] = text[0 + j]
  BY <1>1, <1>2
<1> QED
  BY <1>1, <1>2, <1>3 DEF Shifted

LEMMA SmallerOfTwo ==
  ASSUME NEW a \in Nat, NEW b \in Nat
  PROVE  Min({a, b}) = IF a <= b THEN a ELSE b
<1>1. \E x \in {a, b} : \A y \in {a, b} : x <= y
  OBVIOUS
<1> DEFINE m == CHOOSE x \in {a, b} : \A y \in {a, b} : x <= y
<1>2. m \in {a, b} /\ \A y \in {a, b} : m <= y
  BY <1>1
<1>3. Min({a, b}) = m
  BY DEF Min
<1> HIDE DEF m
<1> QED
  BY <1>2, <1>3

(* What is assumed of the responses, in the order in which they are read. *)
LEMMA Understood ==
  ASSUME ResponsesAssumption, NEW r \in Responses
  PROVE  /\ ~Refused(WholeHead(r)) => HeadParsed(r)
         /\ r.ok => HeadParsed(r) /\ \A k \in 1..Len(r.chunks) : ChunkParsed(r, k)
         /\ \A k \in 1..Len(r.chunks) :
              HeadParsed(r) /\ ~Refused(WholeChunk(r, k)) /\ (\A i \in 1..k - 1 : ChunkParsed(r, i))
              => ChunkParsed(r, k)
         /\ HeadParsed(r) /\ (\A k \in 1..Len(r.chunks) : ChunkParsed(r, k)) => r.ok
<1>1. /\ DOMAIN r.chunks = 1..Len(r.chunks) /\ Len(r.chunks) \in Nat
  BY ChunkFacts
<1>2. IF r.ok THEN HeadParsed(r) /\ \A k \in 1..Len(r.chunks) : ChunkParsed(r, k)
      ELSE \/ Refused(WholeHead(r))
           \/ /\ HeadParsed(r)
              /\ \E k \in 1..Len(r.chunks) : /\ Refused(WholeChunk(r, k))
                                             /\ \A i \in 1..k - 1 : ChunkParsed(r, i)
  BY <1>1 DEF ResponsesAssumption
<1>3. HeadParsed(r) => ~Refused(WholeHead(r))
  BY DEF HeadParsed, Refused
<1>4. \A k \in 1..Len(r.chunks) : ChunkParsed(r, k) => ~Refused(WholeChunk(r, k))
  BY DEF ChunkParsed, Refused
<1>5. ASSUME NEW k \in 1..Len(r.chunks), ~Refused(WholeChunk(r, k)), \A i \in 1..k - 1 : ChunkParsed(r, i),
             ~r.ok, ~Refused(WholeHead(r))
      PROVE  ChunkParsed(r, k)
  <2>1. PICK j \in 1..Len(r.chunks) : /\ Refused(WholeChunk(r, j))
                                      /\ \A i \in 1..j - 1 : ChunkParsed(r, i)
    BY <1>2, <1>5
  <2>2. j # k /\ ~(j \in 1..k - 1)
    BY <1>4, <1>5, <2>1
  <2>3. k \in 1..j - 1
    BY <1>1, <2>2
  <2> QED
    BY <2>1, <2>3
<1>6. ASSUME NEW k \in 1..Len(r.chunks), HeadParsed(r), ~Refused(WholeChunk(r, k)),
             \A i \in 1..k - 1 : ChunkParsed(r, i)
      PROVE  ChunkParsed(r, k)
  BY <1>2, <1>3, <1>5, <1>6
<1>7. HeadParsed(r) /\ (\A k \in 1..Len(r.chunks) : ChunkParsed(r, k)) => r.ok
  BY <1>2, <1>3, <1>4
<1> QED
  BY <1>2, <1>6, <1>7

LEMMA BaseCase ==
  ASSUME ResponsesAssumption, ConnInit
  PROVE  ConnectionInv
<1> DEFINE T == ResponseText(sent)
           new == HttpResponseParserNew
<1>1. sent \in Responses /\ arriving = T /\ loop = "head" /\ data = <<>> /\ body = <<>> /\ respParser = new
  BY DEF ConnInit
<1>2. T \in Seq(RespChar) /\ Unfolded(new, T)
  BY <1>1, ChunkFacts DEF ResponsesAssumption
<1>3. Len(T) - Len(T) = 0
  BY <1>2
<1>4. Shifted(T, T, 0)
  BY <1>2 DEF Shifted
<1>5. SameParser(new, NewRun(new.response, T, 0))
  <2>1. new = FreshParser(new.response) /\ IsResponse(new.response)
    BY StoredResponse
  <2> HIDE DEF new, T
  <2> QED
    BY <1>2, <2>1, FromStart
<1>6. <<"done">> \notin new.cs /\ AtTokenEnd(new.cs)
  <2>1. new.cs = {<<"start">>}
    BY DEF HttpResponseParserNew
  <2> HIDE DEF new
  <2> QED
    BY <2>1, StartFacts
<1>7. AtHead
  BY <1>1, <1>3, <1>4, <1>5, <1>6 DEF AtHead
<1> QED
  BY <1>1, <1>7 DEF ConnectionInv, InStep

(* The first piece of a text, for a parser that begins anew. *)
LEMMA FirstPiece ==
  ASSUME NEW response, IsResponse(response), NEW text \in Seq(RespChar),
         Unfolded(FreshParser(response), text), NEW piece, Shifted(text, piece, 0)
  PROVE  LET r == ExecResponse(FreshParser(response), piece, FALSE)
             whole == ExecResponse(FreshParser(response), text, FALSE)
         IN /\ IsRunOf(r, piece)
            /\ <<"done">> \in r.cs => SameParser(r, whole) /\ whole.p = r.p
            /\ r.error => whole.error
            /\ r.error \in BOOLEAN
            /\ r.cs = {} => whole.cs = {}
<1> DEFINE ps == FreshParser(response)
           r == ExecResponse(ps, piece, FALSE)
           whole == ExecResponse(FreshParser(response), text, FALSE)
<1>1. SameParser(ps, NewRun(response, text, 0))
  BY FromStart
<1>2. <<"done">> \notin ps.cs /\ AtTokenEnd(ps.cs)
  <2>1. ps.cs = {<<"start">>}
    BY FreshFields
  <2> QED
    BY <2>1, StartFacts
<1> HIDE DEF ps
<1>3. RunsAsWhole(r, whole, response, text, piece, 0)
  BY <1>1, <1>2, PieceByPiece, Zenon
<1> HIDE DEF r, whole
<1>4. r.p + 0 = r.p
  BY <1>3 DEF RunsAsWhole, IsRunOf
<1>5. /\ IsRunOf(r, piece)
      /\ <<"done">> \in r.cs => SameParser(r, whole) /\ whole.p = r.p
      /\ r.error => whole.error
      /\ r.error \in BOOLEAN
      /\ r.cs = {} => whole.cs = {}
  BY <1>3, <1>4, Zenon DEF RunsAsWhole
<1> QED
  BY <1>5 DEF r, whole, ps

(* What a run makes of the beginning of a chunk. *)
LEMMA ChunkRead ==
  ASSUME ResponsesAssumption, NEW r \in Responses, NEW k \in 1..Len(r.chunks),
         NEW ps, ps = ParserOf(ps), ps.error = FALSE, ps.response = SentUpTo(r, k - 1),
         NEW buffer \in Seq(RespChar), NEW rest \in Seq(RespChar), buffer \o rest = RestText(r, k)
  PROVE  LET e == ExecResponse(ps, buffer, TRUE)
             w == WholeChunk(r, k)
         IN /\ IsRunOf(e, buffer) /\ e.error \in BOOLEAN
            /\ HasError(e) => Refused(w)
            /\ <<"done">> \in e.cs => SameParser(e, w) /\ w.p = e.p
<1> DEFINE q == SentUpTo(r, k - 1)
           text == RestText(r, k)
           e == ExecResponse(ps, buffer, TRUE)
           w == WholeChunk(r, k)
           fresh == FreshParser(q)
<1>1. fresh = ParserOf(fresh) /\ fresh.error = FALSE /\ fresh.response = q
  BY FreshFields, FreshIsParser
<1>2. e = ExecResponse(fresh, buffer, FALSE)
  BY ExecuteChunk
<1>3. w = ExecResponse(fresh, text, FALSE)
  <2>1. w = ExecResponse(fresh, text, TRUE)
    BY DEF WholeChunk
  <2> HIDE DEF w, fresh, text, q
  <2>2. ExecResponse(fresh, text, TRUE) = ExecResponse(FreshParser(fresh.response), text, FALSE)
    BY <1>1, ExecuteChunk, Zenon
  <2>3. FreshParser(fresh.response) = fresh
    BY <1>1 DEF fresh
  <2> QED
    BY <2>1, <2>2, <2>3
<1>4. text \in Seq(RespChar) /\ Shifted(text, buffer, 0)
  BY PieceOf
<1>5. IsResponse(q) /\ Unfolded(fresh, text)
  <2>1. k \in DOMAIN r.chunks
    BY ChunkFacts
  <2> QED
    BY <2>1, StoredResponse DEF ResponsesAssumption
<1> HIDE DEF e, w, text, q
<1>6. /\ IsRunOf(e, buffer)
      /\ <<"done">> \in e.cs => SameParser(e, w) /\ w.p = e.p
      /\ e.error => w.error
      /\ e.error \in BOOLEAN
      /\ e.cs = {} => w.cs = {}
  BY <1>2, <1>3, <1>4, <1>5, FirstPiece
<1> QED
  BY <1>6 DEF HasError, Refused, IsComplete, e, w

(* What follows the first c characters of a text. *)
LEMMA BehindElements ==
  ASSUME NEW S, NEW s \in Seq(S), NEW n \in 0..Len(s)
  PROVE  \A j \in 1..Len(s) - n : Behind(s, n)[j] = s[n + j]
<1>1. Len(s) \in Nat /\ n \in Nat /\ n + 1 \in Int
  OBVIOUS
<1>2. \A i \in n + 1..Len(s) : s[i] \in S
  BY <1>1
<1>3. \A i \in 1..Len(s) - (n + 1) + 1 : SubSeq(s, n + 1, Len(s))[i] = s[n + 1 + i - 1]
  BY <1>1, <1>2, SubSeqProperties
<1> TAKE j \in 1..Len(s) - n
<1>4. j \in 1..Len(s) - (n + 1) + 1 /\ n + 1 + j - 1 = n + j
  BY <1>1
<1> QED
  BY <1>3, <1>4 DEF Behind

(* A read takes the next characters of the text, and leaves what follows them. *)
LEMMA ReadOfText ==
  ASSUME NEW text, NEW s, NEW c, Shifted(text, s, c), c + Len(s) = Len(text),
         NEW n \in 0..Len(s)
  PROVE  LET piece == SubSeq(s, 1, n) IN
         /\ Shifted(text, piece, c) /\ Len(piece) = n
         /\ Shifted(text, Behind(s, n), c + n)
         /\ c + n = Len(text) - Len(Behind(s, n))
         /\ \A p \in 0..n : /\ c + p \in 0..Len(text)
                            /\ Behind(piece, p) \o Behind(s, n) = Behind(text, c + p)
<1> DEFINE a == SubSeq(s, 1, n)
           b == Behind(s, n)
           x == SubSeq(text, 1, c)
           y == Behind(text, c)
<1>1. /\ text \in Seq(RespChar) /\ s \in Seq(RespChar) /\ c \in Nat /\ n \in Nat /\ n <= Len(s)
      /\ Len(s) \in Nat /\ Len(text) \in Nat
      /\ \A j \in 1..Len(s) : s[j] = text[c + j]
  BY DEF Shifted
<1>2. /\ a \in Seq(RespChar) /\ Len(a) = n /\ b \in Seq(RespChar) /\ Len(b) = Len(s) - n /\ s = a \o b
  BY <1>1, SplitAt
<1>3. c \in 0..Len(text)
  BY <1>1
<1>4. /\ x \in Seq(RespChar) /\ Len(x) = c /\ y \in Seq(RespChar) /\ Len(y) = Len(text) - c /\ text = x \o y
  BY <1>1, <1>3, SplitAt
<1>5. \A j \in 1..Len(text) - c : y[j] = text[c + j]
  BY <1>1, <1>3, BehindElements
<1>6. \A j \in 1..Len(s) - n : b[j] = s[n + j]
  BY <1>1, BehindElements
<1>7. \A j \in 1..n : a[j] = s[j]
  BY <1>1
<1> HIDE DEF a, b, x, y
<1>8. y = s
  <2>1. Len(y) = Len(s) /\ y \in Seq(RespChar) /\ Len(text) - c = Len(s)
    BY <1>1, <1>4
  <2>2. \A j \in 1..Len(y) : y[j] = s[j]
    BY <1>1, <1>5, <2>1
  <2> QED
    BY <1>1, <2>1, <2>2, SeqEqual
<1>9. Shifted(text, a, c)
  BY <1>1, <1>2, <1>7 DEF Shifted
<1>10. Shifted(text, b, c + n) /\ c + n = Len(text) - Len(b)
  <2>1. \A j \in 1..Len(b) : b[j] = text[c + n + j]
    <3> TAKE j \in 1..Len(b)
    <3>1. n + j \in 1..Len(s) /\ c + (n + j) = c + n + j /\ j \in 1..Len(s) - n
      BY <1>1, <1>2
    <3> QED
      BY <1>1, <1>6, <3>1
  <2>2. c + n \in Nat /\ c + n + Len(b) <= Len(text) /\ c + n = Len(text) - Len(b)
    <3>1. Len(b) = Len(s) - n
      BY <1>2
    <3> QED
      BY <1>1, <3>1
  <2> QED
    BY <1>1, <1>2, <2>1, <2>2 DEF Shifted
<1>11. ASSUME NEW p \in 0..n
       PROVE  c + p \in 0..Len(text) /\ Behind(a, p) \o b = Behind(text, c + p)
  <2> DEFINE a1 == SubSeq(a, 1, p)
             a2 == Behind(a, p)
  <2>1. a1 \in Seq(RespChar) /\ Len(a1) = p /\ a2 \in Seq(RespChar) /\ a = a1 \o a2
    BY <1>2, SplitAt
  <2> HIDE DEF a1, a2
  <2>2. s = a1 \o (a2 \o b)
    <3>1. a1 \in Seq(RespChar) /\ a2 \in Seq(RespChar) /\ b \in Seq(RespChar)
      BY <1>2, <2>1
    <3>2. (a1 \o a2) \o b = a1 \o (a2 \o b)
      BY <3>1, CharsAssociative, Zenon
    <3>3. s = a \o b /\ a = a1 \o a2
      BY <1>2, <2>1
    <3> QED
      BY <3>2, <3>3, Zenon
  <2>3. a2 \o b \in Seq(RespChar)
    BY <1>2, <2>1, ConcatProperties
  <2>4. text = (x \o a1) \o (a2 \o b)
    <3> DEFINE v == a2 \o b
    <3>1. x \in Seq(RespChar) /\ a1 \in Seq(RespChar) /\ v \in Seq(RespChar) /\ text = x \o s /\ s = a1 \o v
      BY <1>4, <1>8, <2>1, <2>2, <2>3
    <3> HIDE DEF v
    <3>2. (x \o a1) \o v = x \o (a1 \o v)
      BY <3>1, CharsAssociative, Zenon
    <3>3. text = (x \o a1) \o v
      BY <3>1, <3>2, Zenon
    <3> QED
      BY <3>3 DEF v
  <2>5. x \o a1 \in Seq(RespChar) /\ Len(x \o a1) = c + p
    BY <1>4, <2>1, ConcatProperties
  <2>6. Behind(text, c + p) = a2 \o b
    <3> DEFINE u == x \o a1
               v == a2 \o b
    <3>1. u \in Seq(RespChar) /\ Len(u) = c + p /\ v \in Seq(RespChar) /\ text = u \o v
      BY <2>3, <2>4, <2>5
    <3> HIDE DEF u, v
    <3>2. Behind(u \o v, Len(u)) = v
      BY <3>1, BehindFirst
    <3> QED
      BY <3>1, <3>2 DEF v
  <2>7. c + p \in 0..Len(text)
    BY <1>1
  <2> QED
    BY <2>6, <2>7 DEF a2
<1> QED
  BY <1>2, <1>9, <1>10, <1>11 DEF a, b

(* A turn of the first loop. *)
LEMMA HeadKeeps ==
  ASSUME ResponsesAssumption, sent \in Responses, loop = "head", AtHead,
         NEW n \in 1..Len(arriving), RecvHead(n), ~cut'
  PROVE  InStep'
<1> DEFINE T == ResponseText(sent)
           c == Len(T) - Len(arriving)
           new == HttpResponseParserNew.response
           piece == Got(n)
           r == ExecResponse(respParser, piece, FALSE)
           whole == WholeHead(sent)
           rest == Behind(r.buf, r.p)
<1>1. /\ sent' = sent /\ failed' = failed /\ arriving' = Behind(arriving, n) /\ respParser' = ParserOf(r)
      /\ CASE HasError(r) -> loop' = "closed" /\ UNCHANGED <<data, body, missing>>
           [] IsComplete(r) /\ r.chunked ->
                  loop' = "next-chunk" /\ data' = rest /\ UNCHANGED <<body, missing>>
           [] IsComplete(r) /\ ~r.chunked -> BodyBegins(rest, r.response)
           [] OTHER -> UNCHANGED <<loop, data, body, missing>>
      /\ HasError(r) \/ AtTokenEnd(r.cs)
  BY Zenon DEF RecvHead, Read, Behind
<1>2. /\ data = <<>> /\ body = <<>>
      /\ Shifted(T, arriving, c)
      /\ \/ /\ <<"done">> \notin respParser.cs /\ AtTokenEnd(respParser.cs)
            /\ SameParser(respParser, NewRun(new, T, c))
         \/ <<"done">> \in respParser.cs /\ Refused(whole)
  BY DEF AtHead
<1>3. /\ T \in Seq(RespChar) /\ arriving \in Seq(RespChar) /\ n \in Nat \ {0} /\ n <= Len(arriving)
      /\ n \in 0..Len(arriving)
  BY <1>2 DEF Shifted
<1>4. c + Len(arriving) = Len(T)
  BY <1>3
<1> HIDE DEF T, c, new, piece, r, whole, rest
<1>5. /\ Shifted(T, piece, c) /\ Len(piece) = n
      /\ Shifted(T, Behind(arriving, n), c + n)
      /\ c + n = Len(T) - Len(Behind(arriving, n))
      /\ \A p \in 0..n : /\ c + p \in 0..Len(T)
                         /\ Behind(piece, p) \o Behind(arriving, n) = Behind(T, c + p)
  <2>1. Shifted(T, arriving, c)
    BY <1>2
  <2>2. piece = SubSeq(arriving, 1, n)
    BY DEF piece, Got
  <2> QED
    BY <1>3, <1>4, <2>1, <2>2, ReadOfText
<1>6. Refused(whole) => ~sent.ok
  BY Understood DEF HeadParsed, Refused, whole
<1>7. CASE <<"done">> \in respParser.cs /\ Refused(whole)
  <2>1. r.cs = {}
    <3>1. piece \in Seq(RespChar) /\ piece # <<>>
      BY <1>3, <1>5 DEF Shifted
    <3> QED
      BY <1>7, <3>1, DoneIsStuck DEF r
  <2>2. loop' = "closed"
    <3>1. HasError(r)
      BY <2>1 DEF HasError
    <3> QED
      BY <1>1, <3>1 DEF IsComplete
  <2> QED
    BY <1>1, <1>6, <1>7, <2>2 DEF InStep
<1>8. CASE /\ <<"done">> \notin respParser.cs /\ AtTokenEnd(respParser.cs)
           /\ SameParser(respParser, NewRun(new, T, c))
  <2>1. RunsAsWhole(r, whole, new, T, piece, c)
    <3>1. IsResponse(new) /\ Unfolded(FreshParser(new), T)
      BY StoredResponse DEF ResponsesAssumption, new, T
    <3>2. whole = ExecResponse(FreshParser(new), T, FALSE)
      BY StoredResponse DEF WholeHead, new, T, whole
    <3>3. RunsAsWhole(r, ExecResponse(FreshParser(new), T, FALSE), new, T, piece, c)
      BY <1>3, <1>5, <1>8, <3>1, PieceByPiece, Zenon DEF r
    <3> QED
      BY <3>2, <3>3, Zenon
  <2>2. /\ IsRunOf(r, piece)
        /\ SameParser(r, NewRun(new, T, c + n))
        /\ <<"done">> \in r.cs => SameParser(r, whole) /\ whole.p = r.p + c
        /\ HasError(r) => Refused(whole)
        /\ r.error \in BOOLEAN
    BY <1>5, <2>1 DEF RunsAsWhole, HasError, Refused, IsComplete
  <2>3. CASE HasError(r)
    <3>1. loop' = "closed"
      BY <1>1, <2>3 DEF IsComplete
    <3>2. ~sent'.ok
      BY <1>1, <1>6, <2>2, <2>3
    <3> QED
      BY <3>1, <3>2 DEF InStep
  <2>4. CASE ~HasError(r) /\ ~IsAtEnd(r)
    <3>1. /\ loop' = "head" /\ data' = <<>> /\ body' = <<>>
      BY <1>1, <1>2, <2>4 DEF IsComplete
    <3>2. AtTokenEnd(r.cs)
      BY <1>1, <2>4
    <3>3. ParserOf(r).cs = r.cs /\ SameParser(ParserOf(r), r)
      BY DEF ParserOf, SameParser
    <3>4. \/ /\ <<"done">> \notin respParser'.cs /\ AtTokenEnd(respParser'.cs)
             /\ SameParser(respParser', NewRun(new, T, c + n))
          \/ <<"done">> \in respParser'.cs /\ Refused(whole)
      <4>1. CASE <<"done">> \in r.cs
        <5>1. whole.cs = r.cs
          BY <2>2, <4>1 DEF SameParser
        <5>2. Refused(whole)
          BY <2>4, <5>1 DEF Refused, IsComplete, IsAtEnd
        <5> QED
          BY <1>1, <3>3, <4>1, <5>2
      <4>2. CASE <<"done">> \notin r.cs
        <5>1. SameParser(ParserOf(r), NewRun(new, T, c + n))
          BY <2>2, <3>3 DEF SameParser
        <5> QED
          BY <1>1, <3>2, <3>3, <4>2, <5>1
      <4> QED
        BY <4>1, <4>2
    <3>5. AtHead'
      <4>1. c + n = Len(T) - Len(arriving') /\ Shifted(T, arriving', c + n)
        BY <1>1, <1>5
      <4>2. ResponseText(sent') = T /\ WholeHead(sent') = whole
        BY <1>1 DEF T, whole
      <4>3. Shifted(ResponseText(sent'), arriving', Len(ResponseText(sent')) - Len(arriving'))
        BY <4>1, <4>2
      <4>4. \/ /\ <<"done">> \notin respParser'.cs /\ AtTokenEnd(respParser'.cs)
               /\ SameParser(respParser', NewRun(new, ResponseText(sent'),
                                             Len(ResponseText(sent')) - Len(arriving')))
            \/ <<"done">> \in respParser'.cs /\ Refused(WholeHead(sent'))
        BY <3>4, <4>1, <4>2
      <4> QED
        BY <3>1, <4>3, <4>4 DEF AtHead, new
    <3> QED
      BY <3>1, <3>5 DEF InStep
  <2>5. CASE ~HasError(r) /\ IsAtEnd(r)
    <3>1. SameParser(r, whole) /\ whole.p = r.p + c /\ <<"done">> \in r.cs
      BY <2>2, <2>5 DEF IsAtEnd
    <3>2. ~Refused(whole) /\ r.error = FALSE
      BY <2>2, <2>5, <3>1 DEF SameParser, Refused, IsComplete, HasError, IsAtEnd
    <3>3. HeadParsed(sent)
      BY <3>2, Understood DEF whole
    <3>4. /\ r.response = SentUpTo(sent, 0) /\ r.chunked = (sent.chunks # <<>>)
          /\ IF r.chunked THEN sent.body = <<>> ELSE BodyLength(r.response) = Len(sent.body)
          /\ T = SubSeq(T, 1, whole.p) \o (sent.body \o RestText(sent, 1))
      BY <3>1, <3>3, Zenon DEF HeadParsed, SameParser, whole, T
    <3>5. /\ Len(sent.chunks) \in Nat /\ sent.body \in Seq(RespChar) /\ RestText(sent, 1) \in Seq(RespChar)
      <4>1. Len(sent.chunks) \in Nat /\ sent.body \in Seq(RespChar)
        BY ChunkFacts
      <4>2. 1 \in 1..Len(sent.chunks) + 1
        BY <4>1
      <4> QED
        BY <4>1, <4>2, RestOfText
    <3>6. rest \in Seq(RespChar) /\ arriving' \in Seq(RespChar) /\ rest \o arriving' = sent.body \o RestText(sent, 1)
      <4>1. r.p \in 0..n /\ rest = Behind(piece, r.p)
        BY <1>5, <2>2 DEF IsRunOf, rest
      <4>2. c + r.p = whole.p /\ whole.p \in 0..Len(T) /\ rest \o arriving' = Behind(T, whole.p)
        <5>1. c + r.p \in 0..Len(T) /\ Behind(piece, r.p) \o Behind(arriving, n) = Behind(T, c + r.p)
          BY <1>5, <4>1
        <5>2. c + r.p = whole.p
          BY <1>2, <3>1, <4>1 DEF Shifted
        <5> QED
          BY <1>1, <4>1, <5>1, <5>2
      <4>3. rest \in Seq(RespChar) /\ arriving' \in Seq(RespChar)
        <5>1. piece \in Seq(RespChar)
          BY <1>5 DEF Shifted
        <5> QED
          BY <1>1, <1>3, <1>5, <4>1, <5>1, SplitAt
      <4>4. Behind(T, whole.p) = sent.body \o RestText(sent, 1)
        <5> DEFINE a == SubSeq(T, 1, whole.p)
                   b == sent.body \o RestText(sent, 1)
        <5>1. a \in Seq(RespChar) /\ Len(a) = whole.p
          BY <1>3, <4>2, SplitAt
        <5>2. b \in Seq(RespChar)
          BY <3>5, ConcatProperties
        <5>3. T = a \o b
          BY <3>4
        <5> HIDE DEF a, b
        <5>4. Behind(a \o b, Len(a)) = b
          BY <5>1, <5>2, BehindFirst
        <5> QED
          BY <5>1, <5>3, <5>4 DEF b
      <4> QED
        BY <4>2, <4>3, <4>4
    <3>7. UpTo(0)'
      <4>1. /\ ParserOf(ParserOf(r)) = ParserOf(r) /\ ParserOf(r).error = FALSE
            /\ ParserOf(r).response = SentUpTo(sent, 0)
        BY <3>2, <3>4 DEF ParserOf
      <4>2. \A i \in 1..0 : ChunkParsed(sent', i)
        OBVIOUS
      <4> QED
        BY <1>1, <3>3, <4>1, <4>2 DEF UpTo
    <3>8. DataUpTo(sent, 0) = <<>>
      BY DataOfChunks
    <3>9. CASE r.chunked
      <4>1. loop' = "next-chunk" /\ data' = rest /\ body' = <<>>
        BY <1>1, <1>2, <2>5, <3>9 DEF IsComplete
      <4>2. sent.body = <<>> /\ sent.chunks # <<>>
        BY <3>4, <3>9
      <4>3. 1 \in 1..Len(sent.chunks) /\ 1 - 1 = 0
        BY <3>5, <4>2, ChunkFacts DEF ResponsesAssumption
      <4>4. rest \o arriving' = RestText(sent, 1)
        <5>1. sent.body \o RestText(sent, 1) = RestText(sent, 1)
          BY <3>5, <4>2, ConcatEmptySeq
        <5> QED
          BY <3>6, <5>1
      <4>5. AtChunk'
        BY <1>1, <3>6, <3>7, <3>8, <4>1, <4>3, <4>4 DEF AtChunk, IsSplit
      <4> QED
        BY <4>1, <4>5 DEF InStep
    <3>10. CASE ~r.chunked
      <4>1. BodyBegins(rest, r.response)
        BY <1>1, <2>5, <3>10 DEF IsComplete
      <4>2. sent.chunks = <<>> /\ Len(sent.chunks) = 0
        <5>1. r.chunked = (sent.chunks # <<>>)
          BY <3>4, Zenon
        <5>2. sent.chunks = <<>>
          BY <3>10, <5>1, Zenon
        <5> QED
          BY <5>2
      <4>3. sent.ok
        BY <3>3, <4>2, Understood
      <4>4. rest \o arriving' = sent.body
        <5>1. RestText(sent, 1) = <<>>
          BY <4>2, RestOfText
        <5>2. sent.body \o <<>> = sent.body
          BY <3>5, ConcatEmptySeq
        <5> QED
          BY <3>6, <5>1, <5>2
      <4>5. Len(rest) \in Nat /\ Len(arriving') \in Nat /\ Len(sent.body) = Len(rest) + Len(arriving')
        <5>1. Len(rest \o arriving') = Len(rest) + Len(arriving')
          BY <3>6, ConcatProperties
        <5> QED
          BY <3>6, <4>4, <5>1
      <4>6. BodyLength(r.response) = Len(sent.body)
        <5>1. IF r.chunked THEN sent.body = <<>> ELSE BodyLength(r.response) = Len(sent.body)
          BY <3>4, Zenon
        <5> QED
          BY <3>10, <5>1
      <4>7. /\ body' = rest /\ data' = <<>>
            /\ missing' = IF Len(sent.body) > Len(rest) THEN Len(sent.body) - Len(rest) ELSE 0
            /\ loop' = IF missing' > 0 THEN "body" ELSE "returned"
        <5>1. Min({Len(sent.body), Len(rest)}) = Len(rest)
          <6>1. Len(sent.body) \in Nat /\ Len(rest) \in Nat /\ Len(rest) <= Len(sent.body)
            BY <4>5
          <6>2. Min({Len(sent.body), Len(rest)})
                  = IF Len(sent.body) <= Len(rest) THEN Len(sent.body) ELSE Len(rest)
            BY <6>1, SmallerOfTwo
          <6> QED
            BY <6>1, <6>2
        <5>2. SubSeq(rest, 1, Len(rest)) = rest
          BY <3>6, SubSeqFull
        <5> QED
          BY <4>1, <4>6, <5>1, <5>2 DEF BodyBegins
      <4>8. CASE Len(arriving') # 0
        <5>1. loop' = "body" /\ missing' = Len(sent.body) - Len(rest) /\ missing' > 0
          BY <4>5, <4>7, <4>8
        <5>2. InBody'
          BY <1>1, <3>6, <3>7, <4>2, <4>4, <4>7, <5>1 DEF InBody, IsSplit
        <5> QED
          BY <5>1, <5>2 DEF InStep
      <4>9. CASE Len(arriving') = 0
        <5>1. loop' = "returned" /\ arriving' = <<>>
          BY <3>6, <4>5, <4>7, <4>9
        <5>2. body' = sent.body
          <6>1. rest \o <<>> = rest
            BY <3>6, ConcatEmptySeq
          <6> QED
            BY <4>4, <4>7, <5>1, <6>1
        <5>3. Returned'
          <6>1. respParser'.response = HeadAsSent(sent)
            BY <1>1, <3>4, <4>2 DEF ParserOf, HeadAsSent
          <6>2. BodyAsSent(sent) = sent.body
            BY <4>2 DEF BodyAsSent
          <6> QED
            BY <1>1, <4>3, <4>7, <5>1, <5>2, <6>1, <6>2 DEF Returned
        <5> QED
          BY <5>1, <5>3 DEF InStep
      <4> QED
        BY <4>8, <4>9
    <3> QED
      BY <3>9, <3>10
  <2> QED
    BY <2>3, <2>4, <2>5
<1> QED
  BY <1>2, <1>7, <1>8

(* Parts of a text can be put together in any order. *)
LEMMA Regrouped ==
  ASSUME NEW t, NEW u, NEW a, NEW b, NEW c
  PROVE  /\ IsSplit(t, a, u) /\ IsSplit(u, b, c) => IsSplit(t, a \o b, c)
         /\ IsSplit(t, u, c) /\ IsSplit(u, a, b) => IsSplit(t, a, b \o c)
<1>1. ASSUME a \in Seq(RespChar), b \in Seq(RespChar), c \in Seq(RespChar)
      PROVE  /\ (a \o b) \o c = a \o (b \o c)
             /\ a \o b \in Seq(RespChar) /\ b \o c \in Seq(RespChar)
  <2>1. (a \o b) \o c = a \o (b \o c)
    BY <1>1, CharsAssociative, Zenon
  <2>2. a \o b \in Seq(RespChar) /\ b \o c \in Seq(RespChar)
    BY <1>1, ConcatProperties
  <2> QED
    BY <2>1, <2>2
<1>2. ASSUME IsSplit(t, a, u), IsSplit(u, b, c)
      PROVE  IsSplit(t, a \o b, c)
  BY <1>1, <1>2, Zenon DEF IsSplit
<1>3. ASSUME IsSplit(t, u, c), IsSplit(u, a, b)
      PROVE  IsSplit(t, a, b \o c)
  BY <1>1, <1>3, Zenon DEF IsSplit
<1> QED
  BY <1>2, <1>3

LEMMA SplitType ==
  ASSUME NEW t, NEW a, NEW b, IsSplit(t, a, b)
  PROVE  /\ t \in Seq(RespChar) /\ a \in Seq(RespChar) /\ b \in Seq(RespChar)
         /\ Len(a) \in Nat /\ Len(b) \in Nat /\ Len(t) = Len(a) + Len(b)
         /\ SubSeq(t, 1, Len(a)) = a /\ Behind(t, Len(a)) = b
         /\ a = <<>> => b = t
         /\ b = <<>> => a = t
         /\ t = <<>> => a = <<>> /\ b = <<>>
<1>1. a \in Seq(RespChar) /\ b \in Seq(RespChar) /\ t = a \o b
  BY DEF IsSplit
<1>2. Len(a) \in Nat /\ Len(b) \in Nat
  BY <1>1
<1>3. a \o b \in Seq(RespChar) /\ Len(a \o b) = Len(a) + Len(b)
  BY <1>1, ConcatProperties
<1>4. SubSeq(a \o b, 1, Len(a)) = a /\ Behind(a \o b, Len(a)) = b
  BY <1>1, BehindFirst
<1>5. /\ a = <<>> => b = t
      /\ b = <<>> => a = t
      /\ t = <<>> => a = <<>> /\ b = <<>>
  BY <1>1, ConcatEmptySeq, ConcatEqualIffEmpty
<1> QED
  BY <1>1, <1>2, <1>3, <1>4, <1>5, Zenon

LEMMA SplitAnywhere ==
  ASSUME NEW t \in Seq(RespChar), NEW n \in 0..Len(t)
  PROVE  IsSplit(t, SubSeq(t, 1, n), Behind(t, n)) /\ Len(SubSeq(t, 1, n)) = n
  BY SplitAt DEF IsSplit

LEMMA SplitAlike ==
  ASSUME NEW t, NEW a, NEW b, NEW x, NEW y, IsSplit(t, a, b), IsSplit(t, x, y), Len(a) = Len(x)
  PROVE  a = x /\ b = y
<1>1. /\ a \in Seq(RespChar) /\ b \in Seq(RespChar) /\ x \in Seq(RespChar) /\ y \in Seq(RespChar)
      /\ a \o b = x \o y
  BY DEF IsSplit
<1> QED
  BY <1>1, SameLengths

(* Of a text that is a buffer and what was not read, and also p characters and b, the end of
   the buffer and what was not read are b. *)
LEMMA RestOfBuffer ==
  ASSUME NEW all, NEW buffer, NEW s, IsSplit(all, buffer, s),
         NEW p \in 0..Len(buffer), NEW x, NEW b, IsSplit(all, x, b), Len(x) = p
  PROVE  IsSplit(b, Behind(buffer, p), s)
<1> DEFINE a == SubSeq(buffer, 1, p)
           rest == Behind(buffer, p)
<1>1. IsSplit(buffer, a, rest) /\ Len(a) = p
  <2>1. buffer \in Seq(RespChar)
    BY SplitType
  <2> QED
    BY <2>1, SplitAnywhere
<1> HIDE DEF a, rest
<1>2. IsSplit(all, a, rest \o s)
  BY <1>1, Regrouped, Zenon
<1>3. b = rest \o s
  <2> DEFINE y == rest \o s
  <2>1. IsSplit(all, a, y) /\ Len(a) = Len(x)
    BY <1>1, <1>2
  <2> HIDE DEF y
  <2>2. b = y
    BY <2>1, SplitAlike
  <2> QED
    BY <2>2 DEF y
<1>4. rest \in Seq(RespChar) /\ s \in Seq(RespChar)
  BY <1>1, SplitType
<1> QED
  BY <1>3, <1>4 DEF IsSplit, rest

(* What was read goes beyond the first part of what is expected, or not. *)
LEMMA ReadBeyond ==
  ASSUME NEW t, NEW rest, NEW s, NEW v, NEW tail, IsSplit(t, rest, s), IsSplit(t, v, tail),
         Len(v) <= Len(rest)
  PROVE  IsSplit(rest, v, Behind(rest, Len(v))) /\ IsSplit(tail, Behind(rest, Len(v)), s)
<1>1. /\ rest \in Seq(RespChar) /\ v \in Seq(RespChar) /\ Len(v) \in 0..Len(rest)
      /\ s \in Seq(RespChar) /\ tail \in Seq(RespChar)
  <2>1. rest \in Seq(RespChar) /\ s \in Seq(RespChar) /\ v \in Seq(RespChar) /\ tail \in Seq(RespChar)
    BY SplitType
  <2>2. Len(v) \in Nat /\ Len(rest) \in Nat
    BY <2>1
  <2> QED
    BY <2>1, <2>2
<1> DEFINE n == Len(v)
<1>2. IsSplit(tail, Behind(rest, n), s)
  BY <1>1, RestOfBuffer
<1> DEFINE x == SubSeq(rest, 1, n)
           y == Behind(rest, n)
<1>3. IsSplit(rest, x, y) /\ Len(x) = n
  BY <1>1, SplitAnywhere
<1>4. IsSplit(t, x, y \o s)
  <2> HIDE DEF x, y
  <2> QED
    BY <1>3, Regrouped, Zenon
<1>5. x = v
  <2> HIDE DEF x
  <2> QED
    BY <1>3, <1>4, SplitAlike
<1> QED
  BY <1>2, <1>3, <1>5

(* The header of the k-th chunk, in a buffer that begins with it. *)
LEMMA ParseKeeps ==
  ASSUME ResponsesAssumption, sent \in Responses, NEW k \in 1..Len(sent.chunks), UpTo(k - 1),
         body = DataUpTo(sent, k - 1), NEW buffer, ParseChunk(buffer),
         sent' = sent, IsSplit(RestText(sent, k), buffer, arriving'), ~cut'
  PROVE  InStep'
<1> DEFINE r == ExecResponse(respParser, buffer, TRUE)
           w == WholeChunk(sent, k)
           rest == Behind(r.buf, r.p)
           text == sent.chunks[k].data
           tail == RestText(sent, k + 1)
           eol == <<"CR", "LF">>
           n == Len(sent.chunks)
<1>1. /\ respParser' = ParserOf(r)
      /\ CASE HasError(r) -> loop' = "closed" /\ UNCHANGED <<data, body, missing>>
           [] IsComplete(r) -> ChunkHeaderDone(rest, r)
           [] OTHER -> loop' = "chunk" /\ data' = <<>> /\ UNCHANGED <<body, missing>>
      /\ HasError(r) \/ IsAtEnd(r)
  BY Zenon DEF ParseChunk
<1>2. /\ n \in Nat /\ k \in Nat /\ k \in 1..n /\ k - 1 \in 0..n /\ k \in 0..n /\ k + 1 \in 1..n + 1
      /\ text \in Seq(RespChar) /\ tail \in Seq(RespChar) /\ RestText(sent, n + 1) = <<>>
  <2>1. n \in Nat /\ text \in Seq(RespChar)
    BY ChunkFacts
  <2>2. k \in Nat /\ k - 1 \in 0..n /\ k \in 0..n /\ k + 1 \in 1..n + 1
    BY <2>1
  <2> QED
    BY <2>1, <2>2, RestOfText
<1> HIDE DEF r, w, rest, text, tail, eol, n
<1>3. /\ IsRunOf(r, buffer) /\ r.error \in BOOLEAN
      /\ HasError(r) => Refused(w)
      /\ <<"done">> \in r.cs => SameParser(r, w) /\ w.p = r.p
  <2>1. buffer \in Seq(RespChar) /\ arriving' \in Seq(RespChar) /\ buffer \o arriving' = RestText(sent, k)
    BY DEF IsSplit
  <2>2. respParser = ParserOf(respParser) /\ respParser.error = FALSE /\ respParser.response = SentUpTo(sent, k - 1)
    BY DEF UpTo
  <2> QED
    BY <2>1, <2>2, ChunkRead DEF r, w
<1>4. HeadParsed(sent) /\ \A i \in 1..k - 1 : ChunkParsed(sent, i)
  BY DEF UpTo
<1>5. Refused(w) => ~sent.ok
  BY <1>2, Understood DEF ChunkParsed, Refused, w, n
<1>6. CASE HasError(r)
  <2>1. loop' = "closed"
    BY <1>1, <1>6 DEF IsComplete
  <2> QED
    BY <1>3, <1>5, <1>6, <2>1 DEF InStep
<1>7. CASE ~HasError(r)
  <2>1. ChunkHeaderDone(rest, r)
    BY <1>1, <1>7 DEF IsComplete
  <2>2. SameParser(r, w) /\ w.p = r.p /\ r.error = FALSE
    BY <1>1, <1>3, <1>7 DEF IsAtEnd, HasError
  <2>3. ~Refused(w)
    BY <1>1, <1>7, <2>2 DEF Refused, IsComplete, IsAtEnd, HasError, SameParser
  <2>4. ChunkParsed(sent, k)
    BY <1>2, <1>4, <2>3, Understood DEF w, n
  <2>5. /\ r.response = SentUpTo(sent, k) /\ r.contentLen = Len(text) /\ r.chunksDone = (k = n)
        /\ RestText(sent, k) = SubSeq(RestText(sent, k), 1, r.p) \o (text \o eol \o tail)
    BY <2>2, <2>4, Zenon DEF ChunkParsed, SameParser, w, text, eol, tail, n
  <2>6. UpTo(k)'
    <3>1. /\ ParserOf(ParserOf(r)) = ParserOf(r) /\ ParserOf(r).error = FALSE
          /\ ParserOf(r).response = SentUpTo(sent, k)
      BY <2>2, <2>5 DEF ParserOf
    <3>2. \A i \in 1..k : ChunkParsed(sent, i)
      <4> TAKE i \in 1..k
      <4>1. i = k \/ i \in 1..k - 1
        BY <1>2
      <4> QED
        BY <1>4, <2>4, <4>1
    <3> QED
      BY <1>1, <1>4, <3>1, <3>2 DEF UpTo
  <2>7. respParser'.chunksDone = (k = n)
    BY <1>1, <2>5 DEF ParserOf
  <2>8. eol \in Seq(RespChar) /\ Len(eol) = 2 /\ text \o eol \in Seq(RespChar) /\ Len(text \o eol) = Len(text) + 2
    BY <1>2, LineEnd, ConcatProperties DEF eol
  <2> DEFINE v == text \o eol
             expected == v \o tail
  <2>9. IsSplit(expected, rest, arriving')
    <3> DEFINE all == RestText(sent, k)
               x == SubSeq(all, 1, r.p)
    <3>1. rest = Behind(buffer, r.p) /\ r.p \in 0..Len(buffer)
      BY <1>3 DEF IsRunOf, rest
    <3>2. all \in Seq(RespChar) /\ r.p \in 0..Len(all)
      <4> HIDE DEF all
      <4>1. IsSplit(all, buffer, arriving')
        BY DEF all
      <4>2. /\ all \in Seq(RespChar) /\ Len(buffer) \in Nat /\ Len(arriving') \in Nat
            /\ Len(all) = Len(buffer) + Len(arriving')
        BY <4>1, SplitType
      <4> QED
        BY <3>1, <4>2
    <3>3. x \in Seq(RespChar) /\ Len(x) = r.p
      BY <3>2, SplitAt
    <3>4. expected \in Seq(RespChar)
      BY <1>2, <2>8, ConcatProperties
    <3>5. IsSplit(all, x, expected)
      BY <2>5, <3>3, <3>4, Zenon DEF IsSplit
    <3> HIDE DEF x, expected
    <3>6. IsSplit(expected, Behind(buffer, r.p), arriving')
      BY <3>1, <3>3, <3>5, RestOfBuffer
    <3> QED
      BY <3>1, <3>6
  <2>10. /\ DataUpTo(sent, k - 1) \in Seq(RespChar)
         /\ DataUpTo(sent, k) = DataUpTo(sent, k - 1) \o text
    BY <1>2, DataOfChunks DEF text, n
  <2>11. /\ IsSplit(expected, v, tail) /\ IsSplit(v, text, eol) /\ Len(v) = Len(text) + 2
         /\ Len(text) \in Nat /\ rest \in Seq(RespChar) /\ Len(rest) \in Nat
    <3>1. rest \in Seq(RespChar)
      <4> HIDE DEF expected
      <4> QED
        BY <2>9, SplitType
    <3> QED
      BY <1>2, <2>8, <3>1 DEF IsSplit
  <2> HIDE DEF v, expected
  <2>12. CASE Len(text) + 2 <= Len(rest)
    <3>1. /\ body' = body \o SubSeq(rest, 1, Len(text))
          /\ data' = Behind(rest, Len(text) + 2)
          /\ loop' = IF r.chunksDone THEN "returned" ELSE "next-chunk"
      BY <2>1, <2>5, <2>12 DEF ChunkHeaderDone
    <3> DEFINE z == Behind(rest, Len(text) + 2)
    <3>2. IsSplit(rest, v, z) /\ IsSplit(tail, z, arriving')
      <4>1. Len(v) <= Len(rest) /\ z = Behind(rest, Len(v))
        BY <2>11, <2>12
      <4> HIDE DEF z
      <4> QED
        BY <2>9, <2>11, <4>1, ReadBeyond
    <3> HIDE DEF z
    <3>3. SubSeq(rest, 1, Len(text)) = text
      <4>1. IsSplit(rest, text, eol \o z)
        BY <2>11, <3>2, Regrouped, Zenon
      <4> DEFINE y == eol \o z
      <4> HIDE DEF y
      <4>2. IsSplit(rest, text, y)
        BY <4>1 DEF y
      <4> QED
        BY <4>2, SplitType
    <3>4. body' = DataUpTo(sent, k)
      BY <2>10, <3>1, <3>3
    <3>5. data' = z
      BY <3>1 DEF z
    <3>6. CASE k = n
      <4>1. loop' = "returned"
        BY <2>5, <3>1, <3>6
      <4>2. sent.ok
        BY <1>4, <2>4, <2>6, <3>6, Understood DEF UpTo, n
      <4>3. tail = <<>>
        BY <1>2, <3>6 DEF tail
      <4>4. data' = <<>> /\ arriving' = <<>>
        BY <3>2, <3>5, <4>3, SplitType
      <4>5. sent.chunks # <<>>
        BY <1>2, <3>6 DEF n
      <4>6. body' = BodyAsSent(sent) /\ respParser'.response = HeadAsSent(sent)
        BY <1>1, <2>5, <3>4, <3>6, <4>5 DEF BodyAsSent, HeadAsSent, ParserOf, n
      <4>7. Returned'
        BY <4>2, <4>4, <4>6 DEF Returned
      <4> QED
        BY <4>1, <4>7 DEF InStep
    <3>7. CASE k # n
      <4>1. loop' = "next-chunk"
        BY <2>5, <3>1, <3>7
      <4>2. k + 1 \in 1..n /\ k + 1 - 1 = k
        BY <1>2, <3>7
      <4>4. AtChunk'
        <5>1. UpTo(k + 1 - 1)' /\ body' = DataUpTo(sent', k + 1 - 1)
          BY <2>6, <3>4, <4>2
        <5>2. IsSplit(RestText(sent', k + 1), data', arriving')
          BY <3>2, <3>5 DEF tail
        <5>3. k + 1 \in 1..Len(sent'.chunks)
          BY <4>2 DEF n
        <5> QED
          BY <5>1, <5>2, <5>3 DEF AtChunk
      <4> QED
        BY <4>1, <4>4 DEF InStep
    <3> QED
      BY <3>6, <3>7
  <2>13. CASE ~(Len(text) + 2 <= Len(rest))
    <3>1. /\ body' = body \o rest /\ missing' = Len(text) - Len(rest) + 2
          /\ data' = <<>> /\ loop' = "chunk-body"
      BY <2>1, <2>5, <2>13 DEF ChunkHeaderDone
    <3> DEFINE before == DataUpTo(sent, k - 1)
    <3>2. IsSplit(body', before, rest)
      BY <2>10, <2>11, <3>1 DEF IsSplit
    <3> HIDE DEF before
    <3>3. Behind(body', Len(before)) = rest
      BY <3>2, SplitType
    <3>4. missing' = Len(text) + 2 - Len(rest) /\ missing' > 0
      BY <2>11, <2>13, <3>1
    <3>5. InChunk'
      BY <1>2, <2>6, <2>7, <2>9, <3>1, <3>2, <3>3, <3>4
         DEF InChunk, before, text, eol, tail, n, v, expected
    <3> QED
      BY <3>1, <3>5 DEF InStep
  <2> QED
    BY <2>12, <2>13
<1> QED
  BY <1>6, <1>7

(* What a turn of the loops does, wherever the buffer comes from. *)
LEMMA BufferedChunkKeeps ==
  ASSUME ResponsesAssumption, sent \in Responses, loop = "next-chunk", AtChunk,
         BufferedChunk, ~cut'
  PROVE  InStep'
<1>1. PICK k \in 1..Len(sent.chunks) :
        /\ UpTo(k - 1)
        /\ IsSplit(RestText(sent, k), data, arriving) /\ body = DataUpTo(sent, k - 1)
  BY DEF AtChunk
<1>2. ParseChunk(data) /\ sent' = sent /\ arriving' = arriving
  BY DEF BufferedChunk
<1> QED
  BY <1>1, <1>2, ParseKeeps

LEMMA ChunkKeeps ==
  ASSUME ResponsesAssumption, sent \in Responses, loop = "next-chunk", AtChunk,
         NEW n \in 1..Len(arriving), RecvChunk(n), ~cut'
  PROVE  InStep'
<1>1. PICK k \in 1..Len(sent.chunks) :
        /\ UpTo(k - 1)
        /\ IsSplit(RestText(sent, k), data, arriving) /\ body = DataUpTo(sent, k - 1)
  BY DEF AtChunk
<1>2. ParseChunk(Got(n)) /\ sent' = sent /\ arriving' = Behind(arriving, n) /\ data = <<>>
  BY DEF RecvChunk, Read, Behind
<1>3. arriving = RestText(sent, k) /\ arriving \in Seq(RespChar)
  BY <1>1, <1>2, SplitType
<1>4. IsSplit(RestText(sent, k), Got(n), arriving')
  <2>1. n \in 0..Len(arriving)
    OBVIOUS
  <2> QED
    BY <1>2, <1>3, <2>1, SplitAnywhere DEF Got
<1> QED
  BY <1>1, <1>2, <1>4, ParseKeeps

(* The end of a chunk, with its line end or without: what follows was not read. *)
LEMMA ChunkEnds ==
  ASSUME ResponsesAssumption, sent \in Responses, NEW k \in 1..Len(sent.chunks), UpTo(k)',
         sent' = sent, data' = <<>>, arriving' = RestText(sent, k + 1), body' = DataUpTo(sent, k),
         loop' = IF k = Len(sent.chunks) THEN "returned" ELSE "next-chunk"
  PROVE  InStep'
<1> DEFINE n == Len(sent.chunks)
<1>1. /\ n \in Nat /\ k \in Nat /\ k \in 1..n /\ k + 1 \in 1..n + 1
      /\ RestText(sent, k + 1) \in Seq(RespChar) /\ RestText(sent, n + 1) = <<>>
  <2>1. n \in Nat
    BY ChunkFacts
  <2>2. k \in Nat /\ k + 1 \in 1..n + 1
    BY <2>1
  <2> QED
    BY <2>1, <2>2, RestOfText
<1> HIDE DEF n
<1>2. CASE k = n
  <2>1. sent.ok
    BY <1>2, Understood DEF UpTo, n
  <2>2. sent.chunks # <<>>
    BY <1>1, <1>2 DEF n
  <2>3. body' = BodyAsSent(sent) /\ respParser'.response = HeadAsSent(sent)
    BY <1>2, <2>2 DEF UpTo, BodyAsSent, HeadAsSent, n
  <2>4. Returned'
    BY <1>1, <1>2, <2>1, <2>3 DEF Returned
  <2> QED
    BY <1>2, <2>4 DEF InStep, n
<1>3. CASE k # n
  <2>1. k + 1 \in 1..n /\ k + 1 - 1 = k
    BY <1>1, <1>3
  <2>2. IsSplit(RestText(sent, k + 1), data', arriving')
    <3>1. <<>> \in Seq(RespChar) /\ <<>> \o RestText(sent, k + 1) = RestText(sent, k + 1)
      BY <1>1, ConcatEmptySeq
    <3> QED
      BY <1>1, <3>1 DEF IsSplit
  <2>3. UpTo(k + 1 - 1)' /\ body' = DataUpTo(sent', k + 1 - 1)
    BY <2>1
  <2>4. AtChunk'
    BY <2>1, <2>2, <2>3 DEF AtChunk, n
  <2> QED
    BY <1>3, <2>4 DEF InStep, n
<1> QED
  BY <1>2, <1>3

(* A turn of the loop that reads the rest of a chunk. *)
LEMMA ChunkBodyKeeps ==
  ASSUME ResponsesAssumption, ResponseBuffSizeAssumption, sent \in Responses, loop = "chunk-body", InChunk,
         NEW n \in 1..Len(arriving), RecvChunkBody(n)
  PROVE  InStep'
<1>1. PICK k \in 1..Len(sent.chunks) :
        LET before == DataUpTo(sent, k - 1)
            x == Behind(body, Len(before))
            text == sent.chunks[k].data
        IN /\ UpTo(k) /\ respParser.chunksDone = (k = Len(sent.chunks))
           /\ data = <<>> /\ IsSplit(body, before, x)
           /\ IsSplit(text \o <<"CR", "LF">> \o RestText(sent, k + 1), x, arriving)
           /\ missing = Len(text) + 2 - Len(x) /\ missing > 0
  BY DEF InChunk
<1> DEFINE before == DataUpTo(sent, k - 1)
           x == Behind(body, Len(before))
           text == sent.chunks[k].data
           eol == <<"CR", "LF">>
           tail == RestText(sent, k + 1)
           v == text \o eol
           expected == v \o tail
           got == Got(n)
           y == x \o got
           all == body \o got
<1>2. /\ UpTo(k) /\ respParser.chunksDone = (k = Len(sent.chunks)) /\ data = <<>>
      /\ IsSplit(body, before, x) /\ IsSplit(expected, x, arriving)
      /\ missing = Len(text) + 2 - Len(x) /\ missing > 0
  BY <1>1
<1>3. /\ text \in Seq(RespChar) /\ tail \in Seq(RespChar) /\ eol \in Seq(RespChar) /\ Len(eol) = 2
      /\ DataUpTo(sent, k) = before \o text
  <2>1. k + 1 \in 1..Len(sent.chunks) + 1
    BY ChunkFacts
  <2> QED
    BY <2>1, ChunkFacts, RestOfText, DataOfChunks, LineEnd
<1>4. IsSplit(v, text, eol) /\ IsSplit(expected, v, tail) /\ Len(v) = Len(text) + 2 /\ Len(text) \in Nat
  <2>1. v \in Seq(RespChar) /\ Len(v) = Len(text) + 2
    BY <1>3, ConcatProperties
  <2> QED
    BY <1>3, <2>1 DEF IsSplit
<1> HIDE DEF before, x, text, eol, tail, v, expected, got, y, all
<1>5. Len(x) \in Nat /\ arriving \in Seq(RespChar) /\ body \in Seq(RespChar) /\ x \in Seq(RespChar)
  BY <1>2, SplitType
<1>6. missing \in Nat /\ missing # 0
  BY <1>2, <1>4, <1>5
<1>7. n <= missing
  <2>1. n <= Min({missing, ResponseBuffSize})
    BY DEF RecvChunkBody, Read
  <2>2. Min({missing, ResponseBuffSize}) = IF missing <= ResponseBuffSize THEN missing ELSE ResponseBuffSize
    BY <1>6, SmallerOfTwo DEF ResponseBuffSizeAssumption
  <2> QED
    BY <1>6, <2>1, <2>2 DEF ResponseBuffSizeAssumption
<1>8. /\ sent' = sent /\ data' = <<>> /\ respParser' = respParser /\ arriving' = Behind(arriving, n)
      /\ missing' = missing - n
      /\ IF missing' > 0 THEN body' = all /\ loop' = "chunk-body"
         ELSE /\ body' = SubSeq(all, 1, Len(all) - 2)
              /\ loop' = IF k = Len(sent.chunks) THEN "returned" ELSE "next-chunk"
  BY <1>2, Zenon DEF RecvChunkBody, Read, Behind, all, got
<1>9. IsSplit(arriving, got, arriving') /\ Len(got) = n
  <2>1. n \in 0..Len(arriving)
    OBVIOUS
  <2> QED
    BY <1>5, <1>8, <2>1, SplitAnywhere DEF got, Got
<1>10. IsSplit(expected, y, arriving')
  BY <1>2, <1>9, Regrouped, Zenon DEF y
<1>11. IsSplit(all, before, y)
  <2>1. got \in Seq(RespChar)
    BY <1>9, SplitType
  <2>2. IsSplit(all, body, got)
    BY <1>5, <2>1 DEF IsSplit, all
  <2> QED
    BY <1>2, <2>2, Regrouped, Zenon DEF y
<1>12. Len(y) = Len(x) + n
  <2>1. got \in Seq(RespChar)
    BY <1>9, SplitType
  <2>2. Len(x \o got) = Len(x) + Len(got)
    BY <1>5, <2>1, ConcatProperties
  <2> QED
    BY <1>9, <2>2 DEF y
<1>13. missing' = Len(text) + 2 - Len(y) /\ missing' \in Nat
  BY <1>2, <1>4, <1>5, <1>6, <1>7, <1>8, <1>12
<1>14. UpTo(k)'
  BY <1>2, <1>8 DEF UpTo
<1>15. CASE missing' > 0
  <2>1. loop' = "chunk-body" /\ body' = all
    BY <1>8, <1>15
  <2>2. Behind(body', Len(before)) = y
    BY <1>11, <2>1, SplitType
  <2>3. InChunk'
    <3>1. /\ respParser'.chunksDone = (k = Len(sent'.chunks))
          /\ IsSplit(body', before, y) /\ IsSplit(expected, y, arriving')
      BY <1>2, <1>8, <1>10, <1>11, <2>1
    <3> QED
      BY <1>8, <1>13, <1>14, <1>15, <2>2, <3>1 DEF InChunk, before, text, eol, tail, v, expected
  <2> QED
    BY <2>1, <2>3 DEF InStep
<1>16. CASE ~(missing' > 0)
  <2>1. Len(y) = Len(v)
    BY <1>4, <1>5, <1>12, <1>13, <1>16
  <2>2. y = v /\ arriving' = tail
    BY <1>4, <1>10, <2>1, SplitAlike
  <2>3. IsSplit(all, before \o text, eol)
    <3>1. IsSplit(all, before, v)
      BY <1>11, <2>2
    <3> QED
      BY <1>4, <3>1, Regrouped, Zenon
  <2> DEFINE d == before \o text
  <2>4. IsSplit(all, d, eol)
    BY <2>3
  <2> HIDE DEF d
  <2>5. SubSeq(all, 1, Len(d)) = d /\ Len(d) \in Nat /\ Len(all) = Len(d) + Len(eol)
    BY <2>4, SplitType
  <2>6. Len(all) - 2 = Len(d)
    BY <1>3, <2>5
  <2>7. body' = DataUpTo(sent, k)
    BY <1>3, <1>8, <1>16, <2>5, <2>6 DEF d
  <2>8. loop' = IF k = Len(sent.chunks) THEN "returned" ELSE "next-chunk"
    BY <1>8, <1>16
  <2>9. arriving' = RestText(sent, k + 1)
    BY <2>2 DEF tail
  <2> QED
    BY <1>8, <1>14, <2>7, <2>8, <2>9, ChunkEnds
<1> QED
  BY <1>15, <1>16

(* A turn of readFixSize. *)
LEMMA BodyKeeps ==
  ASSUME ResponsesAssumption, sent \in Responses, loop = "body", InBody,
         NEW n \in 1..Len(arriving), ReadFixSize(n)
  PROVE  InStep'
<1> DEFINE got == Got(n)
<1>1. /\ sent.chunks = <<>> /\ UpTo(0) /\ data = <<>> /\ IsSplit(sent.body, body, arriving)
      /\ missing = Len(sent.body) - Len(body) /\ missing > 0
  BY DEF InBody
<1>2. /\ sent' = sent /\ data' = <<>> /\ respParser' = respParser /\ arriving' = Behind(arriving, n)
      /\ missing' = missing - n /\ body' = body \o got /\ n <= missing
      /\ loop' = IF missing' = 0 THEN "returned" ELSE "body"
  BY <1>1, Zenon DEF ReadFixSize, Read, Behind
<1>3. /\ arriving \in Seq(RespChar) /\ body \in Seq(RespChar) /\ Len(body) \in Nat /\ Len(arriving) \in Nat
      /\ Len(sent.body) = Len(body) + Len(arriving)
  BY <1>1, SplitType
<1> HIDE DEF got
<1>4. IsSplit(arriving, got, arriving') /\ Len(got) = n
  <2>1. n \in 0..Len(arriving)
    OBVIOUS
  <2> QED
    BY <1>2, <1>3, <2>1, SplitAnywhere DEF got, Got
<1>5. IsSplit(sent.body, body', arriving')
  BY <1>1, <1>2, <1>4, Regrouped, Zenon
<1>6. /\ Len(body') \in Nat /\ Len(arriving') \in Nat /\ Len(sent.body) = Len(body') + Len(arriving')
      /\ arriving' \in Seq(RespChar)
  BY <1>5, SplitType
<1>7. Len(arriving') = Len(arriving) - n
  BY <1>4, SplitType
<1>8. missing' = Len(sent.body) - Len(body') /\ missing' = Len(arriving')
  <2>1. missing' = missing - n /\ missing = Len(sent.body) - Len(body)
    BY <1>1, <1>2, Zenon
  <2> DEFINE a == Len(body')
             b == Len(arriving')
             c == Len(arriving)
             d == Len(body)
             e == Len(sent.body)
  <2>2. /\ a \in Nat /\ b \in Nat /\ e = a + b /\ d \in Nat /\ c \in Nat /\ e = d + c
        /\ b = c - n /\ n \in Int /\ missing' = missing - n /\ missing = e - d
    <3>1. a \in Nat /\ b \in Nat /\ e = a + b
      BY <1>6, Zenon
    <3>2. d \in Nat /\ c \in Nat /\ e = d + c
      BY <1>3, Zenon
    <3>3. b = c - n /\ missing' = missing - n /\ missing = e - d
      BY <1>7, <2>1, Zenon
    <3>4. n \in Int
      OBVIOUS
    <3> QED
      BY <3>1, <3>2, <3>3, <3>4, Zenon
  <2> HIDE DEF a, b, c, d, e
  <2>3. missing' = e - a /\ missing' = b
    BY <2>2
  <2> QED
    BY <2>3 DEF a, b, e
<1>9. UpTo(0)'
  BY <1>1, <1>2 DEF UpTo
<1>10. CASE missing' = 0
  <2>1. arriving' = <<>> /\ loop' = "returned"
    <3>1. Len(arriving') = 0 /\ arriving' \in Seq(RespChar)
      BY <1>6, <1>8, <1>10
    <3>2. arriving' = <<>>
      BY <3>1
    <3> QED
      BY <1>2, <1>10, <3>2
  <2>2. body' = sent.body
    BY <1>5, <2>1, SplitType
  <2>3. sent.ok
    <3>1. Len(sent.chunks) = 0
      BY <1>1
    <3> QED
      BY <1>1, <3>1, Understood DEF UpTo
  <2>4. respParser'.response = HeadAsSent(sent) /\ BodyAsSent(sent) = sent.body
    <3>1. Len(sent.chunks) = 0
      BY <1>1
    <3> QED
      BY <1>1, <1>2, <3>1 DEF UpTo, HeadAsSent, BodyAsSent
  <2>5. Returned'
    BY <1>2, <2>1, <2>2, <2>3, <2>4 DEF Returned
  <2> QED
    BY <2>1, <2>5 DEF InStep
<1>11. CASE missing' # 0
  <2>1. loop' = "body" /\ missing' > 0
    BY <1>2, <1>6, <1>8, <1>11
  <2>2. InBody'
    BY <1>1, <1>2, <1>5, <1>8, <1>9, <2>1 DEF InBody
  <2> QED
    BY <2>1, <2>2 DEF InStep
<1> QED
  BY <1>10, <1>11

-----------------------------------------------------------------------------

LEMMA NextKeeps ==
  ASSUME ResponsesAssumption, ResponseBuffSizeAssumption, ConnectionInv, [ConnNext]_connVars
  PROVE  ConnectionInv'
<1>1. sent \in Responses /\ (~cut => InStep)
  BY DEF ConnectionInv
<1>2. CASE UNCHANGED connVars
  BY <1>1, <1>2 DEF connVars, ConnectionInv, InStep, AtHead, AtChunk, InChunk, InBody, Returned, UpTo
<1>3. CASE ConnNext
  <2>1. sent' = sent /\ (cut => cut')
    <3>1. ASSUME NEW buffer, ParseChunk(buffer) PROVE cut => cut'
      BY <3>1 DEF ParseChunk
    <3>2. CASE BufferedChunk
      BY <3>1, <3>2 DEF BufferedChunk
    <3>3. CASE ReadFail
      BY <3>3 DEF ReadFail
    <3>4. ASSUME NEW n \in 1..Len(arriving),
                 RecvHead(n) \/ RecvChunk(n) \/ RecvChunkBody(n) \/ ReadFixSize(n)
          PROVE  sent' = sent /\ (cut => cut')
      <4>1. CASE RecvHead(n)
        BY <4>1, Zenon DEF RecvHead
      <4>2. CASE RecvChunk(n)
        BY <3>1, <4>2 DEF RecvChunk
      <4>3. CASE RecvChunkBody(n) \/ ReadFixSize(n)
        BY <4>3 DEF RecvChunkBody, ReadFixSize
      <4> QED
        BY <3>4, <4>1, <4>2, <4>3
    <3> QED
      BY <1>3, <3>2, <3>3, <3>4 DEF ConnNext
  <2>2. SUFFICES ASSUME ~cut' PROVE InStep'
    BY <1>1, <2>1 DEF ConnectionInv
  <2>3. InStep
    BY <1>1, <2>1, <2>2
  <2>4. CASE BufferedChunk
    <3>1. loop = "next-chunk"
      BY <2>4 DEF BufferedChunk
    <3> QED
      BY <1>1, <2>2, <2>3, <2>4, <3>1, BufferedChunkKeeps DEF InStep
  <2>5. CASE ReadFail
    <3>1. loop' = "closed" /\ failed' = TRUE
      BY <2>5 DEF ReadFail
    <3> QED
      BY <3>1 DEF InStep
  <2>6. ASSUME NEW n \in 1..Len(arriving), RecvHead(n)
        PROVE  InStep'
    <3>1. loop = "head"
      BY <2>6 DEF RecvHead
    <3> QED
      BY <1>1, <2>2, <2>3, <2>6, <3>1, HeadKeeps DEF InStep
  <2>7. ASSUME NEW n \in 1..Len(arriving), RecvChunk(n)
        PROVE  InStep'
    <3>1. loop = "next-chunk"
      BY <2>3, <2>7 DEF RecvChunk, InStep
    <3> QED
      BY <1>1, <2>2, <2>3, <2>7, <3>1, ChunkKeeps DEF InStep
  <2>8. ASSUME NEW n \in 1..Len(arriving), RecvChunkBody(n)
        PROVE  InStep'
    <3>1. loop = "chunk-body"
      BY <2>8 DEF RecvChunkBody
    <3> QED
      BY <1>1, <2>3, <2>8, <3>1, ChunkBodyKeeps DEF InStep
  <2>9. ASSUME NEW n \in 1..Len(arriving), ReadFixSize(n)
        PROVE  InStep'
    <3>1. loop = "body"
      BY <2>9 DEF ReadFixSize
    <3> QED
      BY <1>1, <2>3, <2>9, <3>1, BodyKeeps DEF InStep
  <2> QED
    BY <1>3, <2>4, <2>5, <2>6, <2>7, <2>8, <2>9 DEF ConnNext
<1> QED
  BY <1>2, <1>3

(* What is to come of a response is not empty while recvResponse waits for it. *)
LEMMA NothingLeftNowhere ==
  ASSUME ResponsesAssumption, sent \in Responses, sent.ok, InStep,
         loop \in Reading \/ (loop = "next-chunk" /\ data = <<>>), arriving = <<>>
  PROVE  FALSE
<1>1. /\ HeadParsed(sent) /\ \A k \in 1..Len(sent.chunks) : ChunkParsed(sent, k)
  BY Understood
<1>2. CASE loop = "head"
  <2> DEFINE T == ResponseText(sent)
             c == Len(T) - Len(arriving)
             new == HttpResponseParserNew.response
             whole == WholeHead(sent)
  <2>1. AtHead
    BY <1>2 DEF InStep
  <2>2. T \in Seq(RespChar) /\ c = Len(T)
    BY <2>1 DEF AtHead, Shifted
  <2>3. ~Refused(whole) /\ <<"done">> \in whole.cs
    BY <1>1 DEF HeadParsed, Refused, IsComplete, IsAtEnd
  <2>4. <<"done">> \notin respParser.cs /\ SameParser(respParser, NewRun(new, T, c))
    BY <2>1, <2>3 DEF AtHead
  <2>5. NewRun(new, T, Len(T)) = whole
    BY <2>2, SubSeqFull, StoredResponse DEF NewRun, WholeHead
  <2> QED
    <3>1. NewRun(new, T, c) = whole
      BY <2>2, <2>5
    <3> HIDE DEF T, c, new, whole
    <3> QED
      BY <2>3, <2>4, <3>1 DEF SameParser
<1>3. CASE loop = "next-chunk" /\ data = <<>>
  <2>1. PICK k \in 1..Len(sent.chunks) : IsSplit(RestText(sent, k), data, arriving)
    BY <1>3 DEF InStep, AtChunk
  <2> DEFINE text == sent.chunks[k].data
             eol == <<"CR", "LF">>
             tail == RestText(sent, k + 1)
             v == text \o eol
             x == SubSeq(RestText(sent, k), 1, WholeChunk(sent, k).p)
  <2>2. RestText(sent, k) = <<>>
    BY <1>3, <2>1, SplitType
  <2>3. text \in Seq(RespChar) /\ tail \in Seq(RespChar) /\ v \in Seq(RespChar) /\ Len(v) = Len(text) + 2
    <3>1. k + 1 \in 1..Len(sent.chunks) + 1
      BY ChunkFacts
    <3>2. text \in Seq(RespChar) /\ tail \in Seq(RespChar)
      BY <3>1, ChunkFacts, RestOfText
    <3> QED
      BY <3>2, LineEnd, ConcatProperties
  <2>4. RestText(sent, k) = x \o (v \o tail)
    BY <1>1 DEF ChunkParsed
  <2>5. x = <<>>
    BY <2>2
  <2>6. v \o tail \in Seq(RespChar) /\ Len(v \o tail) = Len(v) + Len(tail)
    BY <2>3, ConcatProperties
  <2>7. v \o tail = <<>>
    <3> DEFINE y == v \o tail
    <3>1. <<>> \o y = <<>> /\ y \in Seq(RespChar)
      BY <2>2, <2>4, <2>5, <2>6
    <3> HIDE DEF y
    <3>2. y = <<>>
      BY <3>1, ConcatEmptySeq
    <3> QED
      BY <3>2 DEF y
  <2> HIDE DEF v, tail, text
  <2> QED
    BY <2>3, <2>6, <2>7
<1>4. CASE loop = "chunk-body"
  <2>1. PICK k \in 1..Len(sent.chunks) :
          LET before == DataUpTo(sent, k - 1)
              x == Behind(body, Len(before))
              text == sent.chunks[k].data
          IN /\ IsSplit(text \o <<"CR", "LF">> \o RestText(sent, k + 1), x, arriving)
             /\ missing = Len(text) + 2 - Len(x) /\ missing > 0
    BY <1>4 DEF InStep, InChunk
  <2> DEFINE x == Behind(body, Len(DataUpTo(sent, k - 1)))
             text == sent.chunks[k].data
             eol == <<"CR", "LF">>
             tail == RestText(sent, k + 1)
             v == text \o eol
  <2>2. /\ IsSplit(v \o tail, x, arriving) /\ missing = Len(text) + 2 - Len(x) /\ missing > 0
    BY <2>1
  <2>3. text \in Seq(RespChar) /\ tail \in Seq(RespChar) /\ v \in Seq(RespChar) /\ Len(v) = Len(text) + 2
    <3>1. k + 1 \in 1..Len(sent.chunks) + 1
      BY ChunkFacts
    <3>2. text \in Seq(RespChar) /\ tail \in Seq(RespChar)
      BY <3>1, ChunkFacts, RestOfText
    <3> QED
      BY <3>2, LineEnd, ConcatProperties
  <2> HIDE DEF x, text, tail, v
  <2>4. Len(v \o tail) = Len(v) + Len(tail)
    BY <2>3, ConcatProperties
  <2>5. x = v \o tail
    BY <2>2, SplitType
  <2> QED
    <3>1. Len(x) = Len(text) + 2 + Len(tail) /\ Len(text) \in Nat /\ Len(tail) \in Nat
      BY <2>3, <2>4, <2>5
    <3> QED
      BY <2>2, <3>1
<1>5. CASE loop = "body"
  <2>1. IsSplit(sent.body, body, arriving) /\ missing = Len(sent.body) - Len(body) /\ missing > 0
    BY <1>5 DEF InStep, InBody
  <2>2. body = sent.body /\ Len(body) \in Nat
    BY <2>1, SplitType
  <2> QED
    BY <2>1, <2>2
<1> QED
  BY <1>2, <1>3, <1>4, <1>5 DEF InStep, Reading

-----------------------------------------------------------------------------

(* HttpConnection: until a read ends inside a token, what recvResponse has in its parser,    *)
(* its buffer and the body is what belongs to the place in the response at which it reads on. *)
THEOREM ConnectionInvariantHolds ==
  ASSUME ResponsesAssumption, ResponseBuffSizeAssumption
  PROVE  ConnSpec => []ConnectionInv
<1>1. ConnInit => ConnectionInv
  BY BaseCase
<1>2. ConnectionInv /\ [ConnNext]_connVars => ConnectionInv'
  BY NextKeeps
<1> QED
  BY <1>1, <1>2, PTL DEF ConnSpec

(* HttpConnection: a response that recvResponse returns is the one that the peer sent, with  *)
(* all of its body and nothing of the line ends between its chunks, wherever the reads were  *)
(* cut between tokens.                                                                       *)
THEOREM ResponsesAreAsSent ==
  ASSUME ResponsesAssumption, ResponseBuffSizeAssumption
  PROVE  ConnSpec => []ResponseAsSent
<1>1. ConnectionInv => ResponseAsSent
  BY DEF ConnectionInv, InStep, Returned, ResponseAsSent
<1> QED
  BY <1>1, ConnectionInvariantHolds, PTL

(* HttpConnection: recvResponse does not wait for more than the peer sends, gives no         *)
(* well-formed response up, and leaves nothing of one to the next on the connection.         *)
THEOREM EndsAreKnown ==
  ASSUME ResponsesAssumption, ResponseBuffSizeAssumption
  PROVE  ConnSpec => []EndIsKnown
<1>1. ConnectionInv => EndIsKnown
  <2>1. SUFFICES ASSUME ConnectionInv, sent.ok, ~cut
                 PROVE  /\ (loop \in Reading \/ (loop = "next-chunk" /\ data = <<>>)) => arriving # <<>>
                        /\ loop = "closed" => failed
                        /\ loop = "returned" => arriving = <<>> /\ data = <<>>
    BY DEF EndIsKnown
  <2>2. sent \in Responses /\ InStep
    BY <2>1 DEF ConnectionInv
  <2>3. (loop \in Reading \/ (loop = "next-chunk" /\ data = <<>>)) => arriving # <<>>
    BY <2>1, <2>2, NothingLeftNowhere
  <2> QED
    BY <2>1, <2>2, <2>3 DEF InStep, Returned
<1> QED
  BY <1>1, ConnectionInvariantHolds, PTL

-----------------------------------------------------------------------------

\* What the theorems assume of the constants.
PoolAssumption == NoConnectionAssumption /\ MaxRequests \in Nat

Requests == Callers \X Nat

PoolTypes ==
    /\ PoolTypeOK
    /\ created \subseteq Connections /\ mistaken \subseteq created
    /\ connection \in [Callers -> Connections \cup {NoConnection}]
    /\ \A k \in Callers : connection[k] # NoConnection => connection[k] \in created
    /\ requests \in [Connections -> Seq(Requests)] /\ answers \in [Connections -> Seq(Requests)]

\* Nothing was sent over a connection that does not exist.
Fresh == \A c \in Connections \ created : requests[c] = <<>> /\ answers[c] = <<>>

\* A connection that is not shared has one user, and is open until that closes it.
OneUser ==
    \A c \in created \ shared, k \in Callers : connection[k] = c =>
        /\ step[k] # "closed" => c \in connected
        /\ \A j \in Callers : connection[j] = c => j = k

\* A connection on its way into connections_ is not in it, and nobody shares it.
Pushing ==
    \A k \in Callers : step[k] = "push" => connection[k] \notin ToSet(connections) \cup shared

\* What is destroyed is closed, and what a caller has closed stays closed.
Closed ==
    /\ destroyed \cap connected = {}
    /\ \A k \in Callers : step[k] = "closed" => connection[k] \notin connected

\* While an unshared connection is open, what is on its way over it is the request of the
\* caller that waits on it, or the answer to that, and else nothing.
OnlyOwn ==
    \A c \in connected \ shared :
        /\ (\A k \in Callers : connection[k] = c => step[k] \in {"push", "send"})
           => requests[c] = <<>> /\ answers[c] = <<>>
        /\ \A k \in Callers : connection[k] = c /\ step[k] = "recv" =>
            \/ requests[c] = << <<k, number[k]>> >> /\ answers[c] = <<>>
            \/ requests[c] = <<>> /\ answers[c] = << <<k, number[k]>> >>

NoneMistaken == \A c \in created \ shared : c \notin mistaken

PoolInv == PoolTypes /\ Fresh /\ OneUser /\ Pushing /\ Closed /\ OnlyOwn /\ NoneMistaken

-----------------------------------------------------------------------------

LEMMA PoolBaseCase ==
  ASSUME PoolAssumption, PoolInit
  PROVE  PoolInv
<1>1. connections \in Seq(Connections) /\ IsInjective(connections) /\ ToSet(connections) = {}
  BY EmptyElements DEF PoolInit
<1>2. requests \in [Connections -> Seq(Requests)] /\ answers \in [Connections -> Seq(Requests)]
  BY DEF PoolInit
<1>4. tornList \in BOOLEAN /\ destroyed = {}
  BY DEF PoolInit
<1>5. \A k \in Callers : (connection[k] = NoConnection) = (step[k] \in {"idle", "connect"})
  BY DEF PoolInit
<1>3. PoolTypes
  BY <1>1, <1>2, <1>4, <1>5
  DEF PoolInit, PoolAssumption, NoConnectionAssumption, PoolTypes, PoolTypeOK
<1> QED
  BY <1>3 DEF PoolInit, PoolInv, Fresh, OneUser, Pushing, Closed, OnlyOwn, NoneMistaken

(* The loop of getConnection: what is erased is closed, what is taken is the first *)
(* connection that is open.                                                        *)
LEMMA LoopOfGetConnection ==
  ASSUME PoolTypes, NEW k \in Callers, GetConnection(k)
  PROVE  /\ connections' \in Seq(Connections) /\ IsInjective(connections')
         /\ ToSet(connections') \subseteq ToSet(connections)
         /\ ToSet(connections) \cap connected \subseteq ToSet(connections')
         /\ \/ step' = [step EXCEPT ![k] = "connect"] /\ UNCHANGED <<connection, shared>>
            \/ \E c \in ToSet(connections') \cap connected : Take(k, c)
<1> DEFINE open == { i \in DOMAIN connections : connections[i] \in connected }
<1>1. /\ connections \in Seq(Connections) /\ IsInjective(connections)
      /\ Len(connections) \in Nat /\ DOMAIN connections = 1..Len(connections)
  BY DEF PoolTypes, PoolTypeOK
<1>2. CASE open = {}
  <2>1. /\ connections' = <<>>
        /\ step' = [step EXCEPT ![k] = "connect"] /\ UNCHANGED <<connection, shared>>
    BY <1>2 DEF GetConnection
  <2>2. ToSet(connections) \cap connected = {}
    BY <1>2 DEF ToSet
  <2> QED
    BY <2>1, <2>2, EmptyElements
<1>3. CASE open # {}
  <2> DEFINE first == CHOOSE i \in open : \A j \in open : i <= j
             kept == SubSeq(connections, first, Len(connections))
  <2>1. open \in SUBSET Nat
    BY <1>1
  <2>2. \E i \in open : \A j \in open : i <= j
    BY <1>3, <2>1, FirstPosition
  <2>3. first \in open /\ \A j \in open : first <= j
    BY <2>2
  <2>4. connections' = kept /\ Take(k, connections[first])
    BY <1>3 DEF GetConnection
  <2> HIDE DEF first
  <2>5. first \in DOMAIN connections /\ connections[first] \in connected
    BY <2>3
  <2>6. /\ kept \in Seq(Connections) /\ IsInjective(kept)
        /\ ToSet(kept) = { connections[j] : j \in first..Len(connections) }
    BY <1>1, <2>5, SuffixElements
  <2> HIDE DEF kept
  <2>7. ToSet(kept) \subseteq ToSet(connections)
    <3>1. first..Len(connections) \subseteq DOMAIN connections
      BY <1>1, <2>5
    <3> QED
      BY <2>6, <3>1 DEF ToSet
  <2>8. ToSet(connections) \cap connected \subseteq ToSet(kept)
    <3> SUFFICES ASSUME NEW j \in DOMAIN connections, connections[j] \in connected
                 PROVE  connections[j] \in ToSet(kept)
      BY DEF ToSet
    <3>1. j \in first..Len(connections)
      BY <1>1, <2>3, <2>5
    <3> QED
      BY <2>6, <3>1
  <2>9. connections[first] \in ToSet(kept) \cap connected
    BY <2>5, <2>8 DEF ToSet
  <2> QED
    BY <2>4, <2>6, <2>7, <2>8, <2>9
<1> QED
  BY <1>2, <1>3

(* A caller that uses no connection takes an open one: another user makes it shared. *)
LEMMA TakeKeeps ==
  ASSUME PoolAssumption, PoolInv, NEW k \in Callers, connection[k] = NoConnection,
         NEW c \in connected, Take(k, c), c \in ToSet(connections'),
         ToSet(connections') \subseteq ToSet(connections),
         connections' \in Seq(Connections), IsInjective(connections'),
         destroyed' \subseteq created, destroyed' \cap connected = {}, tornList' \in BOOLEAN,
         \A j \in Callers \ {k} : number'[j] = number[j],
         number' \in [Callers -> 0..MaxRequests],
         UNCHANGED <<created, connected, requests, answers, mistaken>>
  PROVE  PoolInv'
<1> USE DEF PoolInv
<1>1. /\ connection' = [connection EXCEPT ![k] = c] /\ step' = [step EXCEPT ![k] = "send"]
      /\ shared' = IF Using(c) = {} THEN shared ELSE shared \cup {c}
  BY DEF Take
<1>2. /\ connected \subseteq created /\ created \subseteq Connections
      /\ NoConnection \notin Connections /\ shared \subseteq shared' /\ shared \subseteq created
      /\ shared' \subseteq shared \cup {c} /\ ToSet(connections) \subseteq created
      /\ connection \in [Callers -> Connections \cup {NoConnection}]
      /\ step \in [Callers -> {"idle", "connect", "push", "send", "recv", "closed"}]
      /\ \A j \in Callers : connection[j] # NoConnection => connection[j] \in created
  BY <1>1 DEF PoolTypes, PoolTypeOK, PoolAssumption, NoConnectionAssumption
<1>3. /\ connection'[k] = c /\ step'[k] = "send"
      /\ \A j \in Callers \ {k} : connection'[j] = connection[j] /\ step'[j] = step[j]
  BY <1>1, <1>2
<1>4. c \notin shared' => \A j \in Callers : connection[j] # c
  BY <1>1 DEF Using
<1>5. PoolTypes'
  <2>1. /\ connection' \in [Callers -> Connections \cup {NoConnection}]
        /\ step' \in [Callers -> {"idle", "connect", "push", "send", "recv", "closed"}]
        /\ shared' \subseteq created
    BY <1>1, <1>2
  <2>2. \A j \in Callers : (connection'[j] = NoConnection) = (step'[j] \in {"idle", "connect"})
    <3> SUFFICES ASSUME NEW j \in Callers
                 PROVE  (connection'[j] = NoConnection) = (step'[j] \in {"idle", "connect"})
      OBVIOUS
    <3>1. CASE j = k
      BY <1>2, <1>3, <3>1
    <3>2. CASE j # k
      BY <1>3, <3>2 DEF PoolTypes, PoolTypeOK
    <3> QED
      BY <3>1, <3>2
  <2>3. \A j \in Callers : connection'[j] # NoConnection => connection'[j] \in created
    BY <1>2, <1>3
  <2>4. mistaken' \subseteq created
    BY DEF PoolTypes
  <2> QED
    BY <1>2, <2>1, <2>2, <2>3, <2>4 DEF PoolTypes, PoolTypeOK
<1>6. Fresh'
  BY DEF Fresh
<1>7. OneUser'
  <2> SUFFICES ASSUME NEW d \in created \ shared', NEW j \in Callers, connection'[j] = d
               PROVE  /\ step'[j] # "closed" => d \in connected
                      /\ \A m \in Callers : connection'[m] = d => m = j
    BY DEF OneUser
  <2>1. CASE j = k
    BY <1>3, <1>4, <2>1
  <2>2. CASE j # k
    <3>1. connection[j] = d /\ d \in created \ shared /\ d # c /\ step'[j] = step[j]
      BY <1>2, <1>3, <1>4, <2>2
    <3>2. /\ step[j] # "closed" => d \in connected
          /\ \A m \in Callers : connection[m] = d => m = j
      BY <3>1 DEF OneUser
    <3> QED
      BY <1>3, <3>1, <3>2
  <2> QED
    BY <2>1, <2>2
<1>8. OnlyOwn'
  <2> SUFFICES ASSUME NEW d \in connected \ shared'
               PROVE  /\ (\A j \in Callers : connection'[j] = d => step'[j] \in {"push", "send"})
                         => requests[d] = <<>> /\ answers[d] = <<>>
                      /\ \A j \in Callers : connection'[j] = d /\ step'[j] = "recv" =>
                          \/ requests[d] = << <<j, number'[j]>> >> /\ answers[d] = <<>>
                          \/ requests[d] = <<>> /\ answers[d] = << <<j, number'[j]>> >>
    BY DEF OnlyOwn
  <2>1. CASE d = c
    <3>1. requests[d] = <<>> /\ answers[d] = <<>>
      BY <1>2, <1>4, <2>1 DEF OnlyOwn
    <3>2. \A j \in Callers : connection'[j] = d => j = k
      BY <1>3, <1>4, <2>1
    <3> QED
      BY <1>3, <3>1, <3>2
  <2>2. CASE d # c
    <3>1. d \in connected \ shared
      BY <1>2, <2>2
    <3>2. \A j \in Callers :
             connection'[j] = d => /\ j # k /\ connection[j] = d
                                   /\ step'[j] = step[j] /\ number'[j] = number[j]
      BY <1>3, <2>2
    <3>3. \A j \in Callers : connection[j] = d => j # k /\ connection'[j] = d /\ step'[j] = step[j]
      BY <1>2, <1>3, <3>1
    <3> QED
      BY <3>1, <3>2, <3>3 DEF OnlyOwn
  <2> QED
    BY <2>1, <2>2
<1>9. NoneMistaken'
  BY <1>2 DEF NoneMistaken
<1>10. Pushing'
  <2> SUFFICES ASSUME NEW j \in Callers, step'[j] = "push"
               PROVE  connection'[j] \notin ToSet(connections') \cup shared'
    BY DEF Pushing
  <2>1. j # k /\ connection'[j] = connection[j] /\ step[j] = "push"
    BY <1>3
  <2> QED
    BY <1>2, <2>1 DEF Pushing
<1>11. Closed'
  <2> SUFFICES ASSUME NEW j \in Callers, step'[j] = "closed"
               PROVE  connection'[j] \notin connected
    BY DEF Closed
  <2>1. j # k /\ connection'[j] = connection[j] /\ step[j] = "closed"
    BY <1>3
  <2> QED
    BY <2>1 DEF Closed
<1> QED
  BY <1>5, <1>6, <1>7, <1>8, <1>9, <1>10, <1>11

(* doRequest returns: what the caller leaves behind on a connection that stays open. *)
LEMMA ReturnKeeps ==
  ASSUME PoolAssumption, PoolInv, NEW k \in Callers, Return(k),
         UNCHANGED <<connections, created, connected, number, destroyed, tornList>>,
         requests' \in [Connections -> Seq(Requests)], answers' \in [Connections -> Seq(Requests)],
         \A d \in Connections \ {connection[k]} : requests'[d] = requests[d] /\ answers'[d] = answers[d],
         connection[k] \in connected \ shared
            => requests'[connection[k]] = <<>> /\ answers'[connection[k]] = <<>>,
         mistaken' = mistaken \/ (connection[k] \in shared /\ mistaken' = mistaken \cup {connection[k]})
  PROVE  PoolInv'
<1> USE DEF PoolInv
<1>1. /\ connection' = [connection EXCEPT ![k] = NoConnection] /\ step' = [step EXCEPT ![k] = "idle"]
      /\ shared' = shared
  BY DEF Return
<1>2. /\ connected \subseteq created /\ created \subseteq Connections /\ shared \subseteq created
      /\ NoConnection \notin Connections
      /\ connection \in [Callers -> Connections \cup {NoConnection}]
      /\ step \in [Callers -> {"idle", "connect", "push", "send", "recv", "closed"}]
      /\ \A j \in Callers : connection[j] # NoConnection => connection[j] \in created
  BY DEF PoolTypes, PoolTypeOK, PoolAssumption, NoConnectionAssumption
<1>3. /\ connection'[k] = NoConnection /\ step'[k] = "idle"
      /\ \A j \in Callers \ {k} : connection'[j] = connection[j] /\ step'[j] = step[j]
  BY <1>1, <1>2
<1>4. PoolTypes'
  <2>1. /\ connection' \in [Callers -> Connections \cup {NoConnection}]
        /\ step' \in [Callers -> {"idle", "connect", "push", "send", "recv", "closed"}]
    BY <1>1, <1>2
  <2>2. \A j \in Callers : (connection'[j] = NoConnection) = (step'[j] \in {"idle", "connect"})
    <3> SUFFICES ASSUME NEW j \in Callers
                 PROVE  (connection'[j] = NoConnection) = (step'[j] \in {"idle", "connect"})
      OBVIOUS
    <3>1. CASE j = k
      BY <1>3, <3>1
    <3>2. CASE j # k
      BY <1>3, <3>2 DEF PoolTypes, PoolTypeOK
    <3> QED
      BY <3>1, <3>2
  <2>3. \A j \in Callers : connection'[j] # NoConnection => connection'[j] \in created
    BY <1>2, <1>3
  <2>4. mistaken' \subseteq created
    BY <1>2 DEF PoolTypes
  <2> QED
    BY <1>1, <1>2, <2>1, <2>2, <2>3, <2>4 DEF PoolTypes, PoolTypeOK
<1>5. Fresh'
  <2> SUFFICES ASSUME NEW d \in Connections \ created
               PROVE  requests'[d] = <<>> /\ answers'[d] = <<>>
    BY DEF Fresh
  <2>1. d # connection[k]
    BY <1>2
  <2> QED
    BY <2>1 DEF Fresh
<1>6. OneUser'
  <2> SUFFICES ASSUME NEW d \in created \ shared, NEW j \in Callers, connection'[j] = d
               PROVE  /\ step'[j] # "closed" => d \in connected
                      /\ \A m \in Callers : connection'[m] = d => m = j
    BY <1>1 DEF OneUser
  <2>1. j # k /\ connection[j] = d /\ step'[j] = step[j]
    BY <1>2, <1>3
  <2>2. /\ step[j] # "closed" => d \in connected
        /\ \A m \in Callers : connection[m] = d => m = j
    BY <2>1 DEF OneUser
  <2> QED
    BY <1>2, <1>3, <2>1, <2>2
<1>7. OnlyOwn'
  <2> SUFFICES ASSUME NEW d \in connected \ shared
               PROVE  /\ (\A j \in Callers : connection'[j] = d => step'[j] \in {"push", "send"})
                         => requests'[d] = <<>> /\ answers'[d] = <<>>
                      /\ \A j \in Callers : connection'[j] = d /\ step'[j] = "recv" =>
                          \/ requests'[d] = << <<j, number[j]>> >> /\ answers'[d] = <<>>
                          \/ requests'[d] = <<>> /\ answers'[d] = << <<j, number[j]>> >>
    BY <1>1 DEF OnlyOwn
  <2>1. CASE d = connection[k]
    <3>1. \A j \in Callers : connection'[j] # d
      BY <1>2, <1>3, <2>1 DEF OneUser
    <3> QED
      BY <2>1, <3>1
  <2>2. CASE d # connection[k]
    <3>1. d \in connected \ shared /\ requests'[d] = requests[d] /\ answers'[d] = answers[d]
      BY <1>2, <2>2
    <3>2. \A j \in Callers : connection'[j] = d => connection[j] = d /\ step'[j] = step[j]
      BY <1>2, <1>3
    <3>3. \A j \in Callers : connection[j] = d => connection'[j] = d /\ step'[j] = step[j]
      BY <1>3, <2>2
    <3>4. /\ (\A j \in Callers : connection[j] = d => step[j] \in {"push", "send"})
             => requests[d] = <<>> /\ answers[d] = <<>>
          /\ \A j \in Callers : connection[j] = d /\ step[j] = "recv" =>
              \/ requests[d] = << <<j, number[j]>> >> /\ answers[d] = <<>>
              \/ requests[d] = <<>> /\ answers[d] = << <<j, number[j]>> >>
      BY <3>1 DEF OnlyOwn
    <3>5. ASSUME \A j \in Callers : connection'[j] = d => step'[j] \in {"push", "send"}
          PROVE  requests[d] = <<>> /\ answers[d] = <<>>
      BY <3>3, <3>4, <3>5
    <3> QED
      BY <3>1, <3>2, <3>4, <3>5
  <2> QED
    BY <2>1, <2>2
<1>8. NoneMistaken'
  BY <1>1 DEF NoneMistaken
<1>9. Pushing'
  <2> SUFFICES ASSUME NEW j \in Callers, step'[j] = "push"
               PROVE  connection'[j] \notin ToSet(connections) \cup shared
    BY <1>1 DEF Pushing
  <2>1. connection'[j] = connection[j] /\ step[j] = "push"
    BY <1>3
  <2> QED
    BY <2>1 DEF Pushing
<1>10. Closed'
  <2> SUFFICES ASSUME NEW j \in Callers, step'[j] = "closed"
               PROVE  connection'[j] \notin connected
    BY DEF Closed
  <2>1. connection'[j] = connection[j] /\ step[j] = "closed"
    BY <1>3
  <2> QED
    BY <2>1 DEF Closed
<1> QED
  BY <1>4, <1>5, <1>6, <1>7, <1>8, <1>9, <1>10

(* What is on its way over the connection of a caller that waits. *)
LEMMA OwnRequest ==
  ASSUME PoolAssumption, PoolInv, NEW k \in Callers, step[k] = "recv", connection[k] \notin shared
  PROVE  \/ requests[connection[k]] = << <<k, number[k]>> >> /\ answers[connection[k]] = <<>>
         \/ requests[connection[k]] = <<>> /\ answers[connection[k]] = << <<k, number[k]>> >>
<1>1. connection[k] \in created
  BY DEF PoolInv, PoolTypes, PoolTypeOK
<1>2. connection[k] \in connected
  BY <1>1 DEF PoolInv, OneUser
<1> QED
  BY <1>2 DEF PoolInv, OnlyOwn

-----------------------------------------------------------------------------

LEMMA PoolNextKeeps ==
  ASSUME PoolAssumption, PoolInv, [PoolNext]_poolVars
  PROVE  PoolInv'
<1> USE DEF PoolInv
<1>1. /\ connected \subseteq created /\ created \subseteq Connections
      /\ NoConnection \notin Connections
      /\ connections \in Seq(Connections) /\ IsInjective(connections)
      /\ ToSet(connections) \subseteq created /\ destroyed \subseteq created
      /\ destroyed \cap connected = {} /\ shared \subseteq created
      /\ connection \in [Callers -> Connections \cup {NoConnection}]
      /\ step \in [Callers -> {"idle", "connect", "push", "send", "recv", "closed"}]
      /\ number \in [Callers -> 0..MaxRequests] /\ MaxRequests \in Nat
      /\ requests \in [Connections -> Seq(Requests)] /\ answers \in [Connections -> Seq(Requests)]
  BY DEF PoolTypes, PoolTypeOK, PoolAssumption, NoConnectionAssumption, Closed
<1>2. \A k \in Callers : /\ connection[k] = NoConnection <=> step[k] \in {"idle", "connect"}
                         /\ step[k] \in {"push", "send", "recv", "closed"} => connection[k] \in created
  BY <1>1 DEF PoolTypes, PoolTypeOK
<1>3. ASSUME NEW k \in Callers, GetConnection(k)
      PROVE  PoolInv'
  <2>1. /\ step[k] = "idle" /\ number[k] < MaxRequests
        /\ number' = [number EXCEPT ![k] = @ + 1]
        /\ destroyed' = destroyed \cup (ToSet(connections) \ ToSet(connections'))
        /\ UNCHANGED <<created, connected, requests, answers, mistaken>>
    BY <1>3 DEF GetConnection
  <2>2. connection[k] = NoConnection
    BY <1>2, <2>1
  <2>3. /\ number' \in [Callers -> 0..MaxRequests]
        /\ \A j \in Callers \ {k} : number'[j] = number[j]
    BY <1>1, <2>1
  <2>4. /\ connections' \in Seq(Connections) /\ IsInjective(connections')
        /\ ToSet(connections') \subseteq ToSet(connections)
        /\ ToSet(connections) \cap connected \subseteq ToSet(connections')
        /\ \/ step' = [step EXCEPT ![k] = "connect"] /\ UNCHANGED <<connection, shared>>
           \/ \E c \in ToSet(connections') \cap connected : Take(k, c)
    BY <1>3, LoopOfGetConnection
  <2>7. destroyed' \subseteq created /\ destroyed' \cap connected = {}
    BY <1>1, <2>1, <2>4
  <2>8. tornList' \in BOOLEAN
    <3>1. tornList' = (tornList \/ Pushes(k))
      BY <1>3 DEF GetConnection
    <3> QED
      BY <3>1, Zenon
  <2>5. ASSUME NEW c \in ToSet(connections') \cap connected, Take(k, c)
        PROVE  PoolInv'
    BY <1>1, <2>1, <2>2, <2>3, <2>4, <2>5, <2>7, <2>8, TakeKeeps
  <2>6. CASE step' = [step EXCEPT ![k] = "connect"] /\ UNCHANGED <<connection, shared>>
    <3>1. step'[k] = "connect" /\ \A j \in Callers \ {k} : step'[j] = step[j]
      BY <1>1, <2>6
    <3>2. \A j \in Callers : (connection[j] = NoConnection) = (step'[j] \in {"idle", "connect"})
      <4> SUFFICES ASSUME NEW j \in Callers
                   PROVE  (connection[j] = NoConnection) = (step'[j] \in {"idle", "connect"})
        OBVIOUS
      <4> QED
        BY <2>2, <3>1 DEF PoolTypes, PoolTypeOK
    <3>3. step' \in [Callers -> {"idle", "connect", "push", "send", "recv", "closed"}]
      BY <1>1, <2>6
    <3>4. PoolTypes'
      BY <1>1, <2>1, <2>3, <2>4, <2>6, <2>7, <2>8, <3>2, <3>3 DEF PoolTypes, PoolTypeOK
    <3>5. OneUser'
      <4>1. \A c \in created : \A j \in Callers : connection[j] = c => step'[j] = step[j]
        BY <1>1, <2>2, <3>1
      <4> QED
        BY <2>1, <2>6, <4>1 DEF OneUser
    <3>8. Pushing' /\ Closed'
      <4>1. \A j \in Callers : step'[j] \in {"push", "closed"} => step[j] = step'[j]
        BY <3>1
      <4> QED
        BY <2>1, <2>4, <2>6, <2>7, <4>1 DEF Pushing, Closed
    <3>6. \A c \in connected, j \in Callers : connection[j] = c =>
             j # k /\ step'[j] = step[j] /\ number'[j] = number[j]
      BY <1>1, <2>2, <2>3, <3>1
    <3>7. OnlyOwn'
      BY <2>1, <2>6, <3>6 DEF OnlyOwn
    <3> QED
      BY <2>1, <2>6, <3>4, <3>5, <3>7, <3>8 DEF Fresh, NoneMistaken
  <2> QED
    BY <2>4, <2>5, <2>6
<1>4. ASSUME NEW k \in Callers, Connect(k)
      PROVE  PoolInv'
  <2>1. /\ step[k] = "connect" /\ step' = [step EXCEPT ![k] = "push"]
        /\ UNCHANGED <<connections, requests, answers, number, destroyed, tornList, shared, mistaken>>
    BY <1>4 DEF Connect
  <2>2. PICK c \in Connections \ created :
          /\ created' = created \cup {c} /\ connected' = connected \cup {c}
          /\ connection' = [connection EXCEPT ![k] = c]
    BY <1>4 DEF Connect
  <2>3. connection[k] = NoConnection
    BY <1>2, <2>1
  <2>4. /\ connection'[k] = c /\ step'[k] = "push"
        /\ \A j \in Callers \ {k} : connection'[j] = connection[j] /\ step'[j] = step[j]
    BY <1>1, <2>1, <2>2
  <2>5. \A j \in Callers : connection[j] # c /\ (connection[j] # NoConnection => connection[j] \in created)
    BY <1>1, <2>2 DEF PoolTypes
  <2>6. PoolTypes'
    <3>1. /\ connection' \in [Callers -> Connections \cup {NoConnection}]
          /\ step' \in [Callers -> {"idle", "connect", "push", "send", "recv", "closed"}]
      BY <1>1, <2>1, <2>2
    <3>2. \A j \in Callers : (connection'[j] = NoConnection) = (step'[j] \in {"idle", "connect"})
      <4> SUFFICES ASSUME NEW j \in Callers
                   PROVE  (connection'[j] = NoConnection) = (step'[j] \in {"idle", "connect"})
        OBVIOUS
      <4>1. CASE j = k
        BY <1>1, <2>4, <4>1
      <4>2. CASE j # k
        BY <2>4, <4>2 DEF PoolTypes, PoolTypeOK
      <4> QED
        BY <4>1, <4>2
    <3>3. \A j \in Callers : connection'[j] # NoConnection => connection'[j] \in created'
      BY <2>2, <2>4, <2>5
    <3>4. /\ created' \subseteq Connections /\ connected' \subseteq created'
          /\ created \subseteq created'
      BY <1>1, <2>2
    <3> QED
      BY <1>1, <2>1, <3>1, <3>2, <3>3, <3>4 DEF PoolTypes, PoolTypeOK
  <2>7. Fresh'
    BY <2>1, <2>2 DEF Fresh
  <2>8. OneUser'
    <3> SUFFICES ASSUME NEW d \in created' \ shared, NEW j \in Callers, connection'[j] = d
                 PROVE  /\ step'[j] # "closed" => d \in connected'
                        /\ \A m \in Callers : connection'[m] = d => m = j
      BY <2>1 DEF OneUser
    <3>1. CASE j = k
      BY <2>2, <2>4, <2>5, <3>1
    <3>2. CASE j # k
      <4>1. connection[j] = d /\ d \in created \ shared /\ d # c /\ step'[j] = step[j]
        BY <2>2, <2>4, <2>5, <3>2
      <4>2. /\ step[j] # "closed" => d \in connected
            /\ \A m \in Callers : connection[m] = d => m = j
        BY <4>1 DEF OneUser
      <4> QED
        BY <2>2, <2>4, <4>1, <4>2
    <3> QED
      BY <3>1, <3>2
  <2>9. OnlyOwn'
    <3> SUFFICES ASSUME NEW d \in connected' \ shared
                 PROVE  /\ (\A j \in Callers : connection'[j] = d => step'[j] \in {"push", "send"})
                           => requests[d] = <<>> /\ answers[d] = <<>>
                        /\ \A j \in Callers : connection'[j] = d /\ step'[j] = "recv" =>
                            \/ requests[d] = << <<j, number[j]>> >> /\ answers[d] = <<>>
                            \/ requests[d] = <<>> /\ answers[d] = << <<j, number[j]>> >>
      BY <2>1 DEF OnlyOwn
    <3>1. CASE d = c
      <4>1. requests[c] = <<>> /\ answers[c] = <<>>
        BY <2>2 DEF Fresh
      <4>2. \A j \in Callers : connection'[j] = c => j = k
        BY <2>4, <2>5
      <4> QED
        BY <2>4, <3>1, <4>1, <4>2
    <3>2. CASE d # c
      <4>1. d \in connected \ shared /\ d # NoConnection
        BY <1>1, <2>2, <3>2
      <4>2. \A j \in Callers : connection'[j] = d => connection[j] = d /\ step'[j] = step[j]
        BY <2>4, <3>2
      <4>3. \A j \in Callers : connection[j] = d => connection'[j] = d /\ step'[j] = step[j]
        BY <2>3, <2>4, <4>1
      <4> QED
        BY <4>1, <4>2, <4>3 DEF OnlyOwn
    <3> QED
      BY <3>1, <3>2
  <2>10. NoneMistaken'
    BY <1>1, <2>1, <2>2 DEF NoneMistaken, PoolTypes
  <2>11. Pushing'
    <3> SUFFICES ASSUME NEW j \in Callers, step'[j] = "push"
                 PROVE  connection'[j] \notin ToSet(connections) \cup shared
      BY <2>1 DEF Pushing
    <3>1. CASE j = k
      BY <1>1, <2>2, <2>4, <3>1
    <3>2. CASE j # k
      BY <2>4, <3>2 DEF Pushing
    <3> QED
      BY <3>1, <3>2
  <2>12. Closed'
    <3>1. destroyed \cap connected' = {}
      BY <1>1, <2>2
    <3>2. ASSUME NEW j \in Callers, step'[j] = "closed"
          PROVE  connection'[j] \notin connected'
      <4>1. j # k /\ connection'[j] = connection[j] /\ step[j] = "closed"
        BY <2>4, <3>2
      <4> QED
        BY <2>2, <2>5, <4>1 DEF Closed
    <3> QED
      BY <2>1, <3>1, <3>2 DEF Closed
  <2> QED
    BY <2>6, <2>7, <2>8, <2>9, <2>10, <2>11, <2>12
<1>12. ASSUME NEW k \in Callers, Push(k)
       PROVE  PoolInv'
  <2> DEFINE c == connection[k]
  <2>1. /\ step[k] = "push" /\ step' = [step EXCEPT ![k] = "send"]
        /\ connections' = Append(connections, c) \/ connections' = connections
        /\ UNCHANGED <<created, connected, requests, answers, connection, number, destroyed, shared,
                       mistaken>>
    BY <1>12 DEF Push
  <2>2. /\ step'[k] = "send"
        /\ \A j \in Callers \ {k} : step'[j] = step[j]
    BY <1>1, <2>1
  <2>3. c \in created /\ c \notin ToSet(connections) /\ c \notin shared
    BY <1>2, <2>1 DEF Pushing
  <2>4. /\ connections' \in Seq(Connections) /\ IsInjective(connections')
        /\ ToSet(connections') \subseteq ToSet(connections) \cup {c}
    <3>1. /\ ToSet(Append(connections, c)) = ToSet(connections) \cup {c}
          /\ IsInjective(Append(connections, c)) /\ Append(connections, c) \in Seq(Connections)
      BY <1>1, <2>3, AppendElements
    <3> QED
      BY <1>1, <2>1, <3>1
  <2>5. PoolTypes'
    <3>1. step' \in [Callers -> {"idle", "connect", "push", "send", "recv", "closed"}]
      BY <1>1, <2>1
    <3>2. \A j \in Callers : (connection[j] = NoConnection) = (step'[j] \in {"idle", "connect"})
      <4> SUFFICES ASSUME NEW j \in Callers
                   PROVE  (connection[j] = NoConnection) = (step'[j] \in {"idle", "connect"})
        OBVIOUS
      <4> QED
        BY <1>2, <2>1, <2>2 DEF PoolTypes, PoolTypeOK
    <3>3. tornList' \in BOOLEAN
      <4>1. tornList' = (tornList \/ Pushes(k))
        BY <1>12 DEF Push
      <4> QED
        BY <4>1, Zenon
    <3>4. ToSet(connections') \subseteq created
      BY <1>1, <2>3, <2>4
    <3> QED
      BY <1>1, <2>1, <2>4, <3>1, <3>2, <3>3, <3>4 DEF PoolTypes, PoolTypeOK
  <2>6. Fresh' /\ NoneMistaken'
    BY <2>1 DEF Fresh, NoneMistaken
  <2>7. OneUser'
    <3>1. \A j \in Callers : step'[j] = "closed" <=> step[j] = "closed"
      BY <2>1, <2>2
    <3> QED
      BY <2>1, <3>1 DEF OneUser
  <2>8. OnlyOwn'
    <3>1. \A j \in Callers : /\ step'[j] \in {"push", "send"} <=> step[j] \in {"push", "send"}
                             /\ step'[j] = "recv" <=> step[j] = "recv"
      BY <2>1, <2>2
    <3> QED
      BY <2>1, <3>1 DEF OnlyOwn
  <2>9. Pushing'
    <3> SUFFICES ASSUME NEW j \in Callers, step'[j] = "push"
                 PROVE  connection[j] \notin ToSet(connections') \cup shared
      BY <2>1 DEF Pushing
    <3>1. j # k /\ step[j] = "push"
      BY <2>2
    <3>2. connection[j] # c
      BY <2>3, <3>1 DEF OneUser
    <3> QED
      BY <2>4, <3>1, <3>2 DEF Pushing
  <2>10. Closed'
    BY <2>1, <2>2 DEF Closed
  <2> QED
    BY <2>5, <2>6, <2>7, <2>8, <2>9, <2>10
<1>5. ASSUME NEW k \in Callers, ConnectFail(k)
      PROVE  PoolInv'
  <2>1. /\ step[k] = "connect" /\ Return(k)
        /\ UNCHANGED <<connections, created, connected, requests, answers, number, destroyed, tornList,
                       mistaken>>
    BY <1>5 DEF ConnectFail
  <2>2. connection[k] \notin connected
    BY <1>1, <1>2, <2>1
  <2> QED
    BY <1>1, <2>1, <2>2, ReturnKeeps
<1>6. ASSUME NEW k \in Callers, Send(k)
      PROVE  PoolInv'
  <2> DEFINE c == connection[k]
  <2>1. /\ step[k] = "send" /\ c \in connected
        /\ requests' = [requests EXCEPT ![c] = Append(@, <<k, number[k]>>)]
        /\ step' = [step EXCEPT ![k] = "recv"]
        /\ UNCHANGED <<connections, created, connected, answers, connection, number, destroyed,
                       tornList, shared, mistaken>>
    BY <1>6 DEF Send
  <2>2. c \in Connections /\ <<k, number[k]>> \in Requests
    BY <1>1, <2>1 DEF Requests
  <2>3. /\ step'[k] = "recv" /\ \A j \in Callers \ {k} : step'[j] = step[j]
        /\ \A d \in Connections \ {c} : requests'[d] = requests[d]
        /\ requests'[c] = Append(requests[c], <<k, number[k]>>)
    BY <1>1, <2>1, <2>2
  <2>4. PoolTypes'
    <3>1. requests' \in [Connections -> Seq(Requests)]
      BY <1>1, <2>1, <2>2
    <3>2. step' \in [Callers -> {"idle", "connect", "push", "send", "recv", "closed"}]
      BY <1>1, <2>1
    <3>3. \A j \in Callers : (connection[j] = NoConnection) = (step'[j] \in {"idle", "connect"})
      <4> SUFFICES ASSUME NEW j \in Callers
                   PROVE  (connection[j] = NoConnection) = (step'[j] \in {"idle", "connect"})
        OBVIOUS
      <4> QED
        BY <1>2, <2>1, <2>3 DEF PoolTypes, PoolTypeOK
    <3> QED
      BY <2>1, <3>1, <3>2, <3>3 DEF PoolTypes, PoolTypeOK
  <2>5. Fresh'
    BY <1>1, <2>1, <2>3 DEF Fresh
  <2>6. OneUser' /\ Pushing' /\ Closed'
    <3>1. \A j \in Callers : /\ step'[j] = "closed" <=> step[j] = "closed"
                             /\ step'[j] = "push" <=> step[j] = "push"
      BY <2>1, <2>3
    <3> QED
      BY <2>1, <3>1 DEF OneUser, Pushing, Closed
  <2>7. OnlyOwn'
    <3> SUFFICES ASSUME NEW d \in connected \ shared
                 PROVE  /\ (\A j \in Callers : connection[j] = d => step'[j] \in {"push", "send"})
                           => requests'[d] = <<>> /\ answers[d] = <<>>
                        /\ \A j \in Callers : connection[j] = d /\ step'[j] = "recv" =>
                            \/ requests'[d] = << <<j, number[j]>> >> /\ answers[d] = <<>>
                            \/ requests'[d] = <<>> /\ answers[d] = << <<j, number[j]>> >>
      <4>1. UNCHANGED <<connected, answers, connection, number, shared>>
        BY <2>1
      <4> QED
        BY <4>1 DEF OnlyOwn
    <3>1. CASE d = c
      <4>1. \A j \in Callers : connection[j] = c => j = k
        BY <1>1, <2>1, <3>1 DEF OneUser
      <4>2. requests[c] = <<>> /\ answers[c] = <<>>
        BY <2>1, <3>1, <4>1 DEF OnlyOwn
      <4>3. requests'[c] = << <<k, number[k]>> >>
        BY <2>3, <4>2
      <4> QED
        BY <2>3, <3>1, <4>1, <4>2, <4>3
    <3>2. CASE d # c
      <4>1. \A j \in Callers : connection[j] = d => step'[j] = step[j]
        BY <2>3, <3>2
      <4>2. requests'[d] = requests[d]
        BY <1>1, <2>3, <3>2
      <4> QED
        BY <4>1, <4>2 DEF OnlyOwn
    <3> QED
      BY <3>1, <3>2
  <2> QED
    BY <2>1, <2>4, <2>5, <2>6, <2>7 DEF NoneMistaken
<1>7. ASSUME NEW k \in Callers, SendFail(k)
      PROVE  PoolInv'
  <2>1. /\ step[k] = "send" /\ Return(k)
        /\ answers' = [answers EXCEPT ![connection[k]] = <<>>]
        /\ requests' = [requests EXCEPT ![connection[k]] = <<>>]
        /\ UNCHANGED <<connections, created, connected, number, destroyed, tornList, mistaken>>
    BY <1>7 DEF SendFail
  <2>2. connection[k] \in Connections
    BY <1>1, <1>2, <2>1
  <2>3. requests' \in [Connections -> Seq(Requests)] /\ answers' \in [Connections -> Seq(Requests)]
    <3>1. <<>> \in Seq(Requests)
      OBVIOUS
    <3> QED
      BY <1>1, <2>1, <3>1
  <2>4. /\ requests'[connection[k]] = <<>> /\ answers'[connection[k]] = <<>>
        /\ \A d \in Connections \ {connection[k]} : requests'[d] = requests[d] /\ answers'[d] = answers[d]
    BY <1>1, <2>1, <2>2
  <2> QED
    BY <2>1, <2>3, <2>4, ReturnKeeps
<1>8. ASSUME NEW k \in Callers, RecvResponse(k)
      PROVE  PoolInv'
  <2> DEFINE c == connection[k]
  <2>1. /\ step[k] = "recv" /\ c \in connected /\ answers[c] # <<>> /\ Return(k)
        /\ mistaken' = IF Head(answers[c]) = <<k, number[k]>> THEN mistaken ELSE mistaken \cup {c}
        /\ answers' = [answers EXCEPT ![c] = Tail(@)]
        /\ UNCHANGED <<connections, created, connected, requests, number, destroyed, tornList>>
    BY <1>8 DEF RecvResponse
  <2>2. c \in Connections
    BY <1>1, <2>1
  <2>3. answers' \in [Connections -> Seq(Requests)]
    BY <1>1, <2>1, <2>2
  <2>4. /\ answers'[c] = Tail(answers[c])
        /\ \A d \in Connections \ {c} : answers'[d] = answers[d]
    BY <1>1, <2>1, <2>2
  <2>5. ASSUME c \notin shared
        PROVE  requests[c] = <<>> /\ answers[c] = << <<k, number[k]>> >>
    BY <2>1, <2>5, OwnRequest
  <2>6. c \notin shared => requests'[c] = <<>> /\ answers'[c] = <<>>
    <3>1. Tail(<< <<k, number[k]>> >>) = <<>>
      OBVIOUS
    <3> QED
      BY <2>1, <2>4, <2>5, <3>1
  <2>7. mistaken' = mistaken \/ (c \in shared /\ mistaken' = mistaken \cup {c})
    BY <2>1, <2>5
  <2> QED
    BY <1>1, <2>1, <2>3, <2>4, <2>6, <2>7, ReturnKeeps
<1>9. ASSUME NEW k \in Callers, RecvTimeout(k)
      PROVE  PoolInv'
  <2> DEFINE c == connection[k]
  <2>1. /\ step[k] = "recv" /\ step' = [step EXCEPT ![k] = "closed"]
        /\ connected' = connected \ {c}
        /\ UNCHANGED <<connections, created, requests, answers, connection, number, destroyed, tornList,
                       shared, mistaken>>
    BY <1>9 DEF RecvTimeout
  <2>2. step'[k] = "closed" /\ \A j \in Callers \ {k} : step'[j] = step[j]
    BY <1>1, <2>1
  <2>3. PoolTypes'
    <3>1. step' \in [Callers -> {"idle", "connect", "push", "send", "recv", "closed"}]
      BY <1>1, <2>1
    <3>2. \A j \in Callers : (connection[j] = NoConnection) = (step'[j] \in {"idle", "connect"})
      <4> SUFFICES ASSUME NEW j \in Callers
                   PROVE  (connection[j] = NoConnection) = (step'[j] \in {"idle", "connect"})
        OBVIOUS
      <4> QED
        BY <1>2, <2>1, <2>2 DEF PoolTypes, PoolTypeOK
    <3> QED
      BY <1>1, <2>1, <3>1, <3>2 DEF PoolTypes, PoolTypeOK
  <2>4. Fresh' /\ NoneMistaken'
    BY <2>1 DEF Fresh, NoneMistaken
  <2>5. OneUser'
    <3> SUFFICES ASSUME NEW d \in created \ shared, NEW j \in Callers, connection[j] = d
                 PROVE  /\ step'[j] # "closed" => d \in connected'
                        /\ \A m \in Callers : connection[m] = d => m = j
      BY <2>1 DEF OneUser
    <3>1. /\ step[j] # "closed" => d \in connected
          /\ \A m \in Callers : connection[m] = d => m = j
      BY DEF OneUser
    <3>2. step'[j] # "closed" => j # k /\ step[j] # "closed" /\ d # c
      BY <2>2, <3>1
    <3> QED
      BY <2>1, <3>1, <3>2
  <2>6. OnlyOwn'
    <3> SUFFICES ASSUME NEW d \in connected \ shared, d # c
                 PROVE  /\ (\A j \in Callers : connection[j] = d => step'[j] \in {"push", "send"})
                           => requests[d] = <<>> /\ answers[d] = <<>>
                        /\ \A j \in Callers : connection[j] = d /\ step'[j] = "recv" =>
                            \/ requests[d] = << <<j, number[j]>> >> /\ answers[d] = <<>>
                            \/ requests[d] = <<>> /\ answers[d] = << <<j, number[j]>> >>
      BY <2>1 DEF OnlyOwn
    <3>1. \A j \in Callers : connection[j] = d => step'[j] = step[j]
      BY <2>2
    <3> QED
      BY <3>1 DEF OnlyOwn
  <2>7. Pushing' /\ Closed'
    <3>1. \A j \in Callers : /\ step'[j] = "push" => step[j] = "push"
                             /\ step'[j] = "closed" => j = k \/ step[j] = "closed"
      BY <2>2
    <3> QED
      BY <2>1, <3>1 DEF Pushing, Closed
  <2> QED
    BY <2>3, <2>4, <2>5, <2>6, <2>7
<1>13. ASSUME NEW k \in Callers, ReturnTimeout(k)
       PROVE  PoolInv'
  <2>1. /\ step[k] = "closed" /\ Return(k)
        /\ UNCHANGED <<connections, created, connected, requests, answers, number, destroyed, tornList,
                       mistaken>>
    BY <1>13 DEF ReturnTimeout
  <2>2. connection[k] \notin connected
    BY <2>1 DEF Closed
  <2> QED
    BY <1>1, <2>1, <2>2, ReturnKeeps
<1>10. ASSUME NEW c \in Connections, Answer(c)
       PROVE  PoolInv'
  <2>1. /\ requests[c] # <<>>
        /\ answers' = [answers EXCEPT ![c] = Append(@, Head(requests[c]))]
        /\ requests' = [requests EXCEPT ![c] = Tail(@)]
        /\ UNCHANGED <<connections, created, connected, step, connection, number, destroyed, tornList,
                       shared, mistaken>>
    BY <1>10 DEF Answer
  <2>2. requests' \in [Connections -> Seq(Requests)] /\ answers' \in [Connections -> Seq(Requests)]
    <3> DEFINE r == requests[c]
    <3>1. r \in Seq(Requests) /\ r # <<>> /\ answers[c] \in Seq(Requests)
      BY <1>1, <2>1
    <3> HIDE DEF r
    <3>2. Tail(r) \in Seq(Requests) /\ Head(r) \in Requests
      BY <3>1
    <3>3. Append(answers[c], Head(r)) \in Seq(Requests)
      BY <3>1, <3>2
    <3> USE DEF r
    <3> QED
      BY <1>1, <2>1, <3>2, <3>3
  <2>3. /\ requests'[c] = Tail(requests[c]) /\ answers'[c] = Append(answers[c], Head(requests[c]))
        /\ \A d \in Connections \ {c} : requests'[d] = requests[d] /\ answers'[d] = answers[d]
    BY <1>1, <2>1
  <2>4. PoolTypes'
    BY <2>1, <2>2 DEF PoolTypes, PoolTypeOK
  <2>5. Fresh'
    BY <2>1, <2>3 DEF Fresh
  <2>6. OneUser' /\ Pushing' /\ Closed'
    BY <2>1 DEF OneUser, Pushing, Closed
  <2>7. OnlyOwn'
    <3> SUFFICES ASSUME NEW d \in connected \ shared
                 PROVE  /\ (\A j \in Callers : connection[j] = d => step[j] \in {"push", "send"})
                           => requests'[d] = <<>> /\ answers'[d] = <<>>
                        /\ \A j \in Callers : connection[j] = d /\ step[j] = "recv" =>
                            \/ requests'[d] = << <<j, number[j]>> >> /\ answers'[d] = <<>>
                            \/ requests'[d] = <<>> /\ answers'[d] = << <<j, number[j]>> >>
      BY <2>1 DEF OnlyOwn
    <3>1. CASE d = c
      <4>1. PICK k \in Callers : connection[k] = c /\ step[k] \notin {"push", "send"}
        BY <2>1, <3>1 DEF OnlyOwn
      <4>2. step[k] = "recv"
        BY <1>1, <1>2, <3>1, <4>1 DEF Closed
      <4>3. requests[c] = << <<k, number[k]>> >> /\ answers[c] = <<>>
        BY <2>1, <3>1, <4>1, <4>2 DEF OnlyOwn
      <4>4. requests'[c] = <<>> /\ answers'[c] = << <<k, number[k]>> >>
        BY <2>3, <4>3
      <4>5. \A j \in Callers : connection[j] = c => j = k
        BY <1>1, <3>1, <4>1 DEF OneUser
      <4> QED
        BY <3>1, <4>1, <4>4, <4>5
    <3>2. CASE d # c
      BY <1>1, <2>3, <3>2 DEF OnlyOwn
    <3> QED
      BY <3>1, <3>2
  <2> QED
    BY <2>1, <2>4, <2>5, <2>6, <2>7 DEF NoneMistaken
<1>11. CASE UNCHANGED poolVars
  BY <1>11
  DEF poolVars, PoolTypes, PoolTypeOK, Fresh, OneUser, Pushing, Closed, OnlyOwn, NoneMistaken
<1> QED
  BY <1>3, <1>4, <1>5, <1>6, <1>7, <1>8, <1>9, <1>10, <1>11, <1>12, <1>13 DEF PoolNext

-----------------------------------------------------------------------------

(* The inductive invariant holds, for every number of callers, of connections *)
(* and of requests.                                                           *)
THEOREM PoolInvariantHolds ==
  ASSUME PoolAssumption
  PROVE  PoolSpec => []PoolInv
<1>1. PoolInit => PoolInv
  BY PoolBaseCase
<1>2. PoolInv /\ [PoolNext]_poolVars => PoolInv'
  BY PoolNextKeeps
<1> QED
  BY <1>1, <1>2, PTL DEF PoolSpec

(* The variables keep their types; in particular connections_ never holds a   *)
(* connection twice, and a caller has a connection from connecting or taking  *)
(* one until it returns.                                                      *)
THEOREM PoolTypeCorrect ==
  ASSUME PoolAssumption
  PROVE  PoolSpec => []PoolTypeOK
<1>1. PoolInv => PoolTypeOK
  BY DEF PoolInv, PoolTypes
<1> QED
  BY <1>1, PoolInvariantHolds, PTL

(* On a connection that no two callers have used at once, doRequest returns   *)
(* the answer to its own request, also after timeouts, and getConnection does *)
(* not destroy the connection before its user has closed it, also when a push *)
(* without the mutex was lost.                                                *)
THEOREM AnswersAreOwn ==
  ASSUME PoolAssumption
  PROVE  PoolSpec => []OwnAnswer
<1>1. PoolInv => OwnAnswer
  BY DEF PoolInv, OneUser, Closed, NoneMistaken, OwnAnswer, Using
<1> QED
  BY <1>1, PoolInvariantHolds, PTL
=============================================================================
