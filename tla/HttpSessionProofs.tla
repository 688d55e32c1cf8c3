-------------------------- MODULE HttpSessionProofs --------------------------
(***************************************************************************)
(* That the servlets get what the client wrote, however the bytes are cut  *)
(* into reads.                                                             *)
(*                                                                         *)
(* The first half is about the parser.  A run of execute() over a piece of *)
(* a text is compared, character by character, with the run over the whole *)
(* text (Like): they are in the same state and have stored the same, and   *)
(* where a mark of the one is live, it points to the same character as     *)
(* that of the other.  A mark is live in a state from which an action that *)
(* uses it can come before one that sets it (LiveAt).  PieceByPiece is     *)
(* what follows for two calls of execute() one after another.              *)
(*                                                                         *)
(* The second half is the inductive invariant of the session, SessionInv:  *)
(* what the server has read, what it holds and what is on its way are      *)
(* together what the client wrote.                                         *)
(***************************************************************************)
EXTENDS HttpSession, SequenceLemmas

-----------------------------------------------------------------------------

(* The actions of an edge run one after another. *)
IsFold(g, r, acts, n) ==
    g = [s \in SUBSET (1..n) |->
            IF s = {} THEN r ELSE Do(g[s \ {Max(s)}], acts[Max(s)])]

LEMMA FoldExists ==
  ASSUME NEW r, NEW acts, NEW m \in Nat
  PROVE  \E g : IsFold(g, r, acts, m)
<1> DEFINE Missing == { n \in Nat : ~ \E g : IsFold(g, r, acts, n) }
<1>1. SUFFICES ASSUME Missing # {} PROVE FALSE
  BY DEF IsFold
<1>2. PICK n \in Missing : \A k \in Missing : n <= k
  BY <1>1, FirstPosition
<1>3. n # 0
  <2> DEFINE g == [s \in SUBSET (1..0) |-> r]
  <2>1. SUBSET (1..0) = {{}}
    OBVIOUS
  <2>2. IsFold(g, r, acts, 0)
    BY <2>1 DEF IsFold
  <2> QED
    BY <2>2
<1>4. PICK g : IsFold(g, r, acts, n - 1)
  BY <1>2, <1>3
<1> DEFINE h == [s \in SUBSET (1..n) |-> IF n \in s THEN Do(g[s \ {n}], acts[n]) ELSE g[s]]
<1>5. ASSUME NEW s \in SUBSET (1..n)
      PROVE  h[s] = IF s = {} THEN r ELSE Do(h[s \ {Max(s)}], acts[Max(s)])
  <2>1. n \in Nat /\ n - 1 \in Nat
    BY <1>2, <1>3
  <2>2. CASE n \in s
    <3>1. Max(s) = n
      <4>1. Max(s) \in s /\ n <= Max(s)
        BY <2>1, <2>2, MaxOfPositions
      <4>2. Max(s) \in 1..n
        BY <4>1
      <4> QED
        BY <2>1, <4>1, <4>2
    <3>2. s \ {n} \in SUBSET (1..n) /\ n \notin s \ {n}
      OBVIOUS
    <3>3. h[s \ {n}] = g[s \ {n}] /\ h[s] = Do(g[s \ {n}], acts[n])
      BY <2>2, <3>2
    <3> QED
      BY <2>2, <3>1, <3>3
  <2>3. CASE n \notin s
    <3>1. s \in SUBSET (1..(n - 1))
      BY <2>1, <2>3
    <3>2. h[s] = g[s] /\ h[s \ {Max(s)}] = g[s \ {Max(s)}]
      BY <2>3
    <3>3. g[s] = IF s = {} THEN r ELSE Do(g[s \ {Max(s)}], acts[Max(s)])
      BY <1>4, <3>1 DEF IsFold
    <3> QED
      BY <3>2, <3>3
  <2> QED
    BY <2>2, <2>3
<1>6. IsFold(h, r, acts, n)
  BY <1>5, Zenon DEF IsFold
<1> QED
  BY <1>2, <1>6

DoAll(r, acts) == FoldLeft(Do, r, acts)

\* f goes through the results of the actions of acts, one by one, up to d.
IsPath(f, r, acts, d) ==
    /\ f[0] = r
    /\ \A i \in 1..Len(acts) : f[i] = Do(f[i - 1], acts[i])
    /\ d = f[Len(acts)]

LEMMA FoldSteps ==
  ASSUME NEW r, NEW S, NEW acts \in Seq(S)
  PROVE  \E f : IsPath(f, r, acts, DoAll(r, acts))
<1> DEFINE n == Len(acts)
<1>1. n \in Nat /\ DOMAIN acts = 1..n
  OBVIOUS
<1> DEFINE g == CHOOSE h : IsFold(h, r, acts, n)
<1>2. IsFold(g, r, acts, n)
  BY <1>1, FoldExists
<1>3. FoldLeft(Do, r, acts) = g[1..n]
  BY <1>1, Zenon DEF FoldLeft, MapThenFoldSet, IsFold
<1> DEFINE f == [i \in 0..n |-> g[1..i]]
<1>4. f[0] = r
  <2>1. 1..0 = {} /\ {} \in SUBSET (1..n)
    OBVIOUS
  <2>2. g[{}] = r
    BY <1>2, <2>1, Zenon DEF IsFold
  <2> QED
    BY <1>1, <2>1, <2>2
<1>5. ASSUME NEW i \in 1..n PROVE f[i] = Do(f[i - 1], acts[i])
  <2>1. i \in Nat /\ i - 1 \in 0..n /\ i \in 0..n /\ i \in 1..i
    BY <1>1
  <2>5. 1..i \in SUBSET (1..n) /\ 1..i # {}
    BY <1>1, <2>1, SMTT(20)
  <2>2. Max(1..i) = i
    <3>1. Max(1..i) \in 1..i /\ i <= Max(1..i)
      BY <2>1, <2>5, MaxOfPositions
    <3> QED
      BY <2>1, <3>1
  <2>3. (1..i) \ {i} = 1..(i - 1)
    BY <2>1
  <2>4. g[1..i] = Do(g[(1..i) \ {Max(1..i)}], acts[Max(1..i)])
    BY <1>2, <2>5, Zenon DEF IsFold
  <2> HIDE DEF g
  <2> QED
    BY <2>1, <2>2, <2>3, <2>4
<1>6. DoAll(r, acts) = f[n]
  BY <1>1, <1>3 DEF DoAll
<1> QED
  BY <1>4, <1>5, <1>6 DEF IsPath

(* A call of execute() goes through the buffer character by character. *)
Begin(ps, buffer) ==
    [cs |-> ps.cs, queryStart |-> ps.queryStart, error |-> ps.error,
     undefined |-> ps.undefined, request |-> ps.request,
     buf |-> buffer, p |-> 0, mark |-> 0, fieldStart |-> 0, fieldLen |-> 0, stop |-> FALSE]

Turn(r, c) == CHOOSE t \in { Step(q, c) : q \in {r} } : TRUE

IsRun(g, ps, buffer, n) ==
    g = [i \in 0..n |-> IF i = 0 THEN Begin(ps, buffer) ELSE Turn(g[i - 1], buffer[i])]

LEMMA TurnIsStep ==
  ASSUME NEW r, NEW c
  PROVE  Turn(r, c) = Step(r, c)
<1>1. { Step(q, c) : q \in {r} } = {Step(r, c)}
  OBVIOUS
<1> QED
  BY <1>1, Zenon DEF Turn

LEMMA RunExists ==
  ASSUME NEW ps, NEW buffer, NEW m \in Nat
  PROVE  \E g : IsRun(g, ps, buffer, m)
<1> DEFINE Missing == { n \in Nat : ~ \E g : IsRun(g, ps, buffer, n) }
<1>1. SUFFICES ASSUME Missing # {} PROVE FALSE
  OBVIOUS
<1>2. PICK n \in Missing : \A k \in Missing : n <= k
  BY <1>1, FirstPosition
<1>3. n # 0
  <2> DEFINE g == [i \in 0..0 |-> Begin(ps, buffer)]
  <2>1. g = [i \in 0..0 |-> IF i = 0 THEN Begin(ps, buffer) ELSE Turn(g[i - 1], buffer[i])]
    OBVIOUS
  <2> QED
    BY <2>1 DEF IsRun
<1>4. n \in Nat /\ n - 1 \in Nat
  BY <1>2, <1>3
<1>5. PICK g : IsRun(g, ps, buffer, n - 1)
  BY <1>2, <1>4
<1> DEFINE h == [i \in 0..n |-> IF i = n THEN Turn(g[n - 1], buffer[n]) ELSE g[i]]
<1>6. ASSUME NEW i \in 0..n
      PROVE  h[i] = IF i = 0 THEN Begin(ps, buffer) ELSE Turn(h[i - 1], buffer[i])
  <2>1. CASE i = n
    <3>1. h[n] = Turn(g[n - 1], buffer[n]) /\ h[n - 1] = g[n - 1]
      BY <1>4
    <3> QED
      BY <1>3, <2>1, <3>1
  <2>2. CASE i # n
    <3>1. i \in 0..n - 1 /\ (i # 0 => i - 1 \in 0..n /\ i - 1 # n)
      BY <1>4, <2>2
    <3>2. h[i] = g[i] /\ (i # 0 => h[i - 1] = g[i - 1])
      BY <2>2, <3>1
    <3>3. g[i] = IF i = 0 THEN Begin(ps, buffer) ELSE Turn(g[i - 1], buffer[i])
      BY <1>5, <3>1, Zenon DEF IsRun
    <3> QED
      BY <3>2, <3>3
  <2> QED
    BY <2>1, <2>2
<1>7. IsRun(h, ps, buffer, n)
  BY <1>6, Zenon DEF IsRun
<1> QED
  BY <1>2, <1>7

LEMMA ExecuteSteps ==
  ASSUME NEW ps, NEW S, NEW buffer \in Seq(S)
  PROVE  \E f : /\ f[0] = Begin(ps, buffer)
                /\ \A i \in 1..Len(buffer) : f[i] = Step(f[i - 1], buffer[i])
                /\ Execute(ps, buffer) = f[Len(buffer)]
<1> DEFINE n == Len(buffer)
           f == CHOOSE g : IsRun(g, ps, buffer, n)
<1>1. n \in Nat
  OBVIOUS
<1>2. IsRun(f, ps, buffer, n)
  BY <1>1, RunExists
<1>3. Execute(ps, buffer) = f[n]
  BY Zenon DEF Execute, IsRun, Begin, Turn
<1> HIDE DEF f
<1>4. \A i \in 0..n : f[i] = IF i = 0 THEN Begin(ps, buffer) ELSE Turn(f[i - 1], buffer[i])
  BY <1>2, Zenon DEF IsRun
<1>5. f[0] = Begin(ps, buffer)
  BY <1>1, <1>4
<1>6. \A i \in 1..n : f[i] = Step(f[i - 1], buffer[i])
  BY <1>1, <1>4, TurnIsStep
<1> QED
  BY <1>3, <1>5, <1>6

-----------------------------------------------------------------------------

\* A state inside an escape, and the state it goes back to.
Base(s) == IF s[1] \in {"%", "%x"} THEN s[2] ELSE s

\* The states in which mark, queryStart, fieldStart and fieldLen are going to be used.
MarkLive(s) ==
    \/ Base(s)[1] \in {"method", "slash", "scheme", "rel", "path", "auth", "name", "user:", "user",
                       "host", "hostname", "port", "closed", "ip6", "ip6:", "ip4", "ipv", "frag",
                       "value", "xml0", "xmlname"}
    \/ s[1] = "version" /\ s[2] # 0
    \/ s = <<"target", "json">>

QueryLive(s) == Base(s)[1] = "query"
FieldLive(s) == s[1] \in {"field", "line-cr", "value0", "value"}
LengthLive(s) == s[1] \in {"value0", "value"}

\* What edges do: those that mark first, those that use a mark set before, the others.
Marking ==
    { <<"Mark">>, <<"Mark", "Path">>, <<"Mark", "Path", "Uri">>, <<"Mark", "Fragment">>,
      <<"Mark", "WriteValue">> }
Using ==
    { <<"Method">>, <<"Path">>, <<"Path", "Uri">>, <<"Fragment">>, <<"Version">>, <<"WriteValue">> }
Ending == { <<"Done">>, <<"StartField", "Done">>, <<"Xml", "Done">>, <<"Json", "Done">> }
Rest ==
    { <<>>, <<"StartQuery">>, <<"Query", "Uri">>, <<"StartQuery", "Query", "Uri">>, <<"StartField">>,
      <<"WriteField">> }

\* An edge uses nothing that was not set, on it or before, and only Done leads to the end.
EdgeOK(e) ==
    /\ e.do \in Marking \cup Using \cup Ending \cup Rest
    /\ e.do \in Using \/ (MarkLive(e.to) /\ e.do \notin Marking) => MarkLive(e.from)
    /\ e.do = <<"Query", "Uri">> \/ (QueryLive(e.to) /\ e.do # <<"StartQuery">>) => QueryLive(e.from)
    /\ e.do = <<"WriteField">> \/ (FieldLive(e.to) /\ e.do # <<"StartField">>) => FieldLive(e.from)
    /\ \/ e.do \in { <<"WriteValue">>, <<"Mark", "WriteValue">> }
       \/ LengthLive(e.to) /\ e.do # <<"WriteField">>
       => LengthLive(e.from)
    /\ e.do = <<"StartField">> => ~LengthLive(e.to)
    /\ e.to = <<"done">> <=> e.do \in Ending

(* The ends of a path and the escapes in it. *)
LEMMA EndPathOK ==
  ASSUME NEW s, NEW x, NEW do \in {<<>>, <<"Mark">>}, do = <<>> => MarkLive(s)
  PROVE  \A e \in EndPath(s, x, do) : EdgeOK(e)
<1> HIDE DEF MarkLive
<1> USE DEF EndPath, EdgeOK, QueryLive, FieldLive, LengthLive, Marking, Using, Ending, Rest, Edge
<1>1. /\ ~MarkLive(<<"version", 0>>) /\ ~MarkLive(<<"frag0">>) /\ ~MarkLive(<<"query0">>)
      /\ ~MarkLive(<<"json0">>)
  BY DEF MarkLive, Base
<1>2. /\ Base(<<"version", 0>>)[1] = "version" /\ Base(<<"frag0">>)[1] = "frag0"
      /\ Base(<<"query0">>)[1] = "query0" /\ Base(<<"json0">>)[1] = "json0"
  BY DEF Base
<1>3. CASE do = <<>>
  BY <1>1, <1>2, <1>3, SMTT(30)
<1>4. CASE do = <<"Mark">>
  BY <1>1, <1>2, <1>4, SMTT(30)
<1> QED
  BY <1>3, <1>4

LEMMA PctOK ==
  ASSUME NEW s, NEW t, NEW do \in {<<>>, <<"Mark">>}, do = <<>> => MarkLive(s),
         t[1] \in {"rel", "path", "name", "user", "hostname", "frag"}
  PROVE  \A e \in Pct(s, do, t) : EdgeOK(e)
<1>1. /\ MarkLive(t) /\ MarkLive(<<"%", t>>) /\ MarkLive(<<"%x", t>>)
      /\ ~QueryLive(t) /\ ~QueryLive(<<"%", t>>) /\ ~QueryLive(<<"%x", t>>)
      /\ ~FieldLive(t) /\ ~FieldLive(<<"%", t>>) /\ ~FieldLive(<<"%x", t>>)
      /\ ~LengthLive(t) /\ ~LengthLive(<<"%", t>>) /\ ~LengthLive(<<"%x", t>>)
      /\ t # <<"done">> /\ <<"%", t>> # <<"done">> /\ <<"%x", t>> # <<"done">>
  BY DEF MarkLive, QueryLive, FieldLive, LengthLive, Base
<1> DEFINE a == Edge(s, {"%"}, do, <<"%", t>>)
           b == Edge(<<"%", t>>, Hex, <<>>, <<"%x", t>>)
           c == Edge(<<"%x", t>>, Hex, <<>>, t)
<1>2. /\ a.from = s /\ a.do = do /\ a.to = <<"%", t>>
      /\ b.from = <<"%", t>> /\ b.do = <<>> /\ b.to = <<"%x", t>>
      /\ c.from = <<"%x", t>> /\ c.do = <<>> /\ c.to = t
  BY DEF Edge
<1>3. \A e \in Pct(s, do, t) : e = a \/ e = b \/ e = c
  BY DEF Pct
<1> HIDE DEF a, b, c
<1>4. EdgeOK(a)
  <2>1. /\ do \in Marking \cup Rest /\ do \notin Using /\ do \notin Ending
        /\ do # <<"Query", "Uri">> /\ do # <<"WriteField">> /\ do # <<"WriteValue">>
        /\ do # <<"Mark", "WriteValue">> /\ do # <<"StartField">> /\ (do \notin Marking => do = <<>>)
    <3>1. CASE do = <<>>
      BY <3>1 DEF Marking, Using, Ending, Rest
    <3>2. CASE do = <<"Mark">>
      BY <3>2 DEF Marking, Using, Ending, Rest
    <3> QED
      BY <3>1, <3>2
  <2> QED
    BY <1>1, <1>2, <2>1, Zenon DEF EdgeOK
<1>5. /\ <<>> \in Rest /\ <<>> \notin Using /\ <<>> \notin Ending
      /\ <<>> # <<"Query", "Uri">> /\ <<>> # <<"WriteField">> /\ <<>> # <<"WriteValue">>
      /\ <<>> # <<"Mark", "WriteValue">> /\ <<>> # <<"StartField">>
  BY DEF Using, Ending, Rest
<1>6. EdgeOK(b)
  BY <1>1, <1>2, <1>5, Zenon DEF EdgeOK
<1>7. EdgeOK(c)
  BY <1>1, <1>2, <1>5, Zenon DEF EdgeOK
<1> QED
  BY <1>3, <1>4, <1>6, <1>7

(* Every edge of the machine. *)
LEMMA TableOK == \A e \in Table : EdgeOK(e)
<1> USE DEF EdgeOK, MarkLive, QueryLive, FieldLive, LengthLive, Base, Marking, Using,
            Ending, Rest, Edge
<1>1. \A e \in Method : EdgeOK(e)
  <2>1. \A e \in { Edge(<<"start">>, Upper \cup Digit, <<"Mark">>, <<"method", 1>>),
                   Edge(<<"start">>, {"<"}, <<"Mark">>, <<"xml0">>),
                   Edge(<<"start">>, {"@"}, <<"Mark">>, <<"target", "json">>) } : EdgeOK(e)
    BY SMTT(60)
  <2>2. \A k \in 1..19 : EdgeOK(Edge(<<"method", k>>, Upper \cup Digit, <<>>, <<"method", k + 1>>))
    BY SMTT(60)
  <2>3. \A k \in 1..20 : EdgeOK(Edge(<<"method", k>>, {"SP"}, <<"Method">>, <<"target", "uri">>))
    <3> TAKE k \in 1..20
    <3> DEFINE e == Edge(<<"method", k>>, {"SP"}, <<"Method">>, <<"target", "uri">>)
    <3>1. e.from = <<"method", k>> /\ e.do = <<"Method">> /\ e.to = <<"target", "uri">>
      OBVIOUS
    <3>2. /\ MarkLive(<<"method", k>>) /\ ~QueryLive(<<"target", "uri">>) /\ ~FieldLive(<<"target", "uri">>)
          /\ ~LengthLive(<<"target", "uri">>) /\ <<"target", "uri">> # <<"done">>
      OBVIOUS
    <3>3. /\ <<"Method">> \in Using /\ <<"Method">> \notin Ending /\ <<"Method">> # <<"Query", "Uri">>
          /\ <<"Method">> # <<"WriteField">> /\ <<"Method">> # <<"WriteValue">>
          /\ <<"Method">> # <<"Mark", "WriteValue">> /\ <<"Method">> # <<"StartField">>
      OBVIOUS
    <3> HIDE DEF e, MarkLive, QueryLive, FieldLive, LengthLive, Using, Ending, Marking, Rest, Base
    <3>4. EdgeOK(e)
      BY <3>1, <3>2, <3>3, Zenon DEF EdgeOK
    <3> QED
      BY <3>4 DEF e
  <2> HIDE DEF EdgeOK, MarkLive, Edge
  <2> QED
    BY <2>1, <2>2, <2>3 DEF Method
<1>2. \A e \in Target : EdgeOK(e)
  <2> DEFINE s == <<"target", "uri">>
  <2>1. \A e \in { Edge(s, {"/"}, <<"Mark">>, <<"slash", "uri">>),
                   Edge(s, Alpha, <<"Mark">>, <<"scheme">>),
                   Edge(s, (Reg \cup {"@"}) \ Alpha, <<"Mark">>, <<"rel", "uri">>) } : EdgeOK(e)
    <3>1. ASSUME NEW on, NEW to \in { <<"slash", "uri">>, <<"scheme">>, <<"rel", "uri">> }
          PROVE  EdgeOK(Edge(s, on, <<"Mark">>, to))
      <4> DEFINE e == Edge(s, on, <<"Mark">>, to)
      <4>1. e.do = <<"Mark">> /\ e.to = to
        OBVIOUS
      <4>2. ~QueryLive(to) /\ ~FieldLive(to) /\ ~LengthLive(to) /\ to # <<"done">>
        OBVIOUS
      <4>3. /\ <<"Mark">> \in Marking /\ <<"Mark">> \notin Using /\ <<"Mark">> \notin Ending
            /\ <<"Mark">> # <<"Query", "Uri">> /\ <<"Mark">> # <<"WriteField">>
            /\ <<"Mark">> # <<"WriteValue">> /\ <<"Mark">> # <<"Mark", "WriteValue">>
            /\ <<"Mark">> # <<"StartField">>
        OBVIOUS
      <4> HIDE DEF e, MarkLive, QueryLive, FieldLive, LengthLive, Using, Ending, Marking, Rest, Base
      <4>4. EdgeOK(e)
        BY <4>1, <4>2, <4>3, Zenon DEF EdgeOK
      <4> QED
        BY <4>4 DEF e
    <3> HIDE DEF EdgeOK, Edge, MarkLive, QueryLive, FieldLive, LengthLive, Base
    <3> QED
      BY <3>1
  <2>2. \A e \in EndPath(s, "uri", <<"Mark">>) : EdgeOK(e)
    BY EndPathOK, Zenon
  <2>3. \A e \in Pct(s, <<"Mark">>, <<"rel", "uri">>) : EdgeOK(e)
    <3>1. <<"rel", "uri">>[1] = "rel"
      OBVIOUS
    <3> HIDE DEF EdgeOK, MarkLive, Edge
    <3> QED
      BY <3>1, PctOK
  <2> HIDE DEF EdgeOK, MarkLive, Edge
  <2> QED
    BY <2>1, <2>2, <2>3, Zenon DEF Target
<1>3. \A e \in SocketTarget : EdgeOK(e)
  BY DEF SocketTarget, Pct, EndPath, QueryFrom, FragmentFrom, ValueFrom
<1>4. \A e \in Query : EdgeOK(e)
  BY DEF Query, Pct, EndPath, QueryFrom, FragmentFrom, ValueFrom
<1>5. \A e \in Fragment : EdgeOK(e)
  BY DEF Fragment, Pct, EndPath, QueryFrom, FragmentFrom, ValueFrom
<1>6. \A e \in Version : EdgeOK(e)
  BY DEF Version, Pct, EndPath, QueryFrom, FragmentFrom, ValueFrom
<1>7. \A e \in Value : EdgeOK(e)
  BY DEF Value, Pct, EndPath, QueryFrom, FragmentFrom, ValueFrom
<1>8. \A e \in Xml : EdgeOK(e)
  BY DEF Xml, Pct, EndPath, QueryFrom, FragmentFrom, ValueFrom
<1>9. \A e \in Json : EdgeOK(e)
  BY SMTT(20) DEF Json, Pct, EndPath, QueryFrom, FragmentFrom, ValueFrom
<1>10. \A e \in Scheme : EdgeOK(e)
  <2> DEFINE s == <<"scheme">>
             c == <<"colon">>
  <2>1. \A e \in { Edge(s, Schemec, <<>>, s),
                   Edge(s, (Reg \cup {"@"}) \ Schemec, <<>>, <<"rel", "uri">>),
                   Edge(s, {"/"}, <<>>, <<"path", "uri">>) } : EdgeOK(e)
    BY SMTT(60)
  <2>5. \A e \in { Edge(s, {":"}, <<>>, c),
                   Edge(c, {"/"}, <<"Mark">>, <<"slash", "uri">>),
                   Edge(c, Pchar, <<"Mark">>, <<"path", "uri">>) } : EdgeOK(e)
    BY SMTT(60)
  <2>2. MarkLive(s) /\ <<"rel", "uri">>[1] = "rel" /\ <<"path", "uri">>[1] = "path"
    OBVIOUS
  <2> HIDE DEF EdgeOK, MarkLive, Edge
  <2>3. \A e \in EndPath(s, "uri", <<>>) \cup EndPath(c, "uri", <<"Mark">>) : EdgeOK(e)
    BY <2>2, EndPathOK
  <2>4. \A e \in Pct(s, <<>>, <<"rel", "uri">>) \cup Pct(c, <<"Mark">>, <<"path", "uri">>) : EdgeOK(e)
    BY <2>2, PctOK
  <2> QED
    BY <2>1, <2>3, <2>4, <2>5, Zenon DEF Scheme
<1>11. \A e \in Header : EdgeOK(e)
  <2>1. \A e \in { Edge(<<"line">>, Tok \ {"CR", "LF"}, <<"StartField">>, <<"field">>),
                   Edge(<<"line">>, {"CR"}, <<"StartField">>, <<"line-cr">>),
                   Edge(<<"line">>, {"LF"}, <<"StartField", "Done">>, <<"done">>),
                   Edge(<<"line-cr">>, {"LF"}, <<"Done">>, <<"done">>) } : EdgeOK(e)
    BY SMTT(60)
  <2>2. \A e \in { Edge(<<"line-cr">>, Tok \ {"LF"}, <<>>, <<"field">>),
                   Edge(<<"field">>, Tok, <<>>, <<"field">>),
                   Edge(<<"cr">>, {"LF"}, <<>>, <<"line">>) } : EdgeOK(e)
    OBVIOUS
  <2>3. \A s \in {<<"field">>, <<"line-cr">>} : EdgeOK(Edge(s, {":"}, <<"WriteField">>, <<"value0">>))
    OBVIOUS
  <2> HIDE DEF EdgeOK, MarkLive, Edge
  <2> QED
    BY <2>1, <2>2, <2>3, Zenon DEF Header
<1>12. \A x \in {"uri", "json"} : \A e \in RelativePath(x) : EdgeOK(e)
  BY DEF RelativePath, Pct, EndPath
<1>13. \A x \in {"uri", "json"} : \A e \in Path(x) : EdgeOK(e)
  BY DEF Path, Pct, EndPath
<1>14. \A x \in {"uri", "json"} : \A e \in Slash(x) : EdgeOK(e)
  BY SMTT(40) DEF Slash, Pct, EndPath
<1>15. \A x \in {"uri", "json"} : \A e \in Authority(x) : EdgeOK(e)
  <2> SUFFICES ASSUME NEW x \in {"uri", "json"} PROVE \A e \in Authority(x) : EdgeOK(e)
    OBVIOUS
  <2>1. ASSUME NEW s \in {<<"auth", x>>, <<"name", x>>}
        PROVE  \A e \in AuthorityFrom(s, x) : EdgeOK(e)
    <3>1. \A e \in { Edge(s, Reg, <<>>, <<"name", x>>), Edge(s, {":"}, <<>>, <<"user:", x>>),
                   Edge(s, {"@"}, <<>>, <<"host", x>>), Edge(s, {"/"}, <<>>, <<"path", x>>) } :
            EdgeOK(e)
      BY SMTT(60)
    <3>2. MarkLive(s) /\ <<"name", x>>[1] = "name"
      OBVIOUS
    <3> HIDE DEF EdgeOK, MarkLive, Edge
    <3> QED
      BY <3>1, <3>2, EndPathOK, PctOK DEF AuthorityFrom
  <2>2. EdgeOK(Edge(<<"auth", x>>, {"["}, <<>>, Lit!Open(x)))
    BY DEF Lit!Open, Lit!Ip6
  <2> HIDE DEF EdgeOK, MarkLive, Edge
  <2> QED
    BY <2>1, <2>2 DEF Authority
<1>16. \A x \in {"uri", "json"} : \A e \in UserOrPort(x) : EdgeOK(e)
  BY DEF UserOrPort, Pct, EndPath
<1>17. \A x \in {"uri", "json"} : \A e \in Host(x) : EdgeOK(e)
  <2> SUFFICES ASSUME NEW x \in {"uri", "json"} PROVE \A e \in Host(x) : EdgeOK(e)
    OBVIOUS
  <2>1. ASSUME NEW s \in {<<"host", x>>, <<"hostname", x>>}
        PROVE  \A e \in HostFrom(s, x) : EdgeOK(e)
    <3>1. \A e \in { Edge(s, Reg, <<>>, <<"hostname", x>>), Edge(s, {":"}, <<>>, <<"port", x>>),
                   Edge(s, {"/"}, <<>>, <<"path", x>>) } :
            EdgeOK(e)
      BY SMTT(60)
    <3>2. MarkLive(s) /\ <<"hostname", x>>[1] = "hostname"
      OBVIOUS
    <3> HIDE DEF EdgeOK, MarkLive, Edge
    <3> QED
      BY <3>1, <3>2, EndPathOK, PctOK DEF HostFrom
  <2>2. EdgeOK(Edge(<<"host", x>>, {"["}, <<>>, Lit!Open(x)))
    BY DEF Lit!Open, Lit!Ip6
  <2> HIDE DEF EdgeOK, MarkLive, Edge
  <2> QED
    BY <2>1, <2>2 DEF Host
<1>18. \A x \in {"uri", "json"} : \A e \in Port(x) : EdgeOK(e)
  BY DEF Port, EndPath, Lit!Closed
<1> HIDE DEF EdgeOK, MarkLive, Edge
<1> QED
  BY <1>1, <1>2, <1>3, <1>4, <1>5, <1>6, <1>7, <1>8, <1>9, <1>10, <1>11, <1>12, <1>13, <1>14, <1>15, <1>16, <1>17, <1>18,
     Zenon DEF Table, SocketPath, SocketAuthority, SocketUser, SocketHost

(* The edges inside a bracketed address do nothing. *)
LEMMA AddressOK ==
  ASSUME NEW s, NEW c, NEW t \in Lit!Address(s, c, UserInfo)
  PROVE  EdgeOK(Edge(s, {c}, <<>>, t))
<1>1. /\ s[1] \in {"ip6", "ip6:", "ip4", "ipv"}
      /\ t[1] \in {"ip6", "ip6:", "ip4", "ipv", "closed"}
  <2>1. CASE s[1] = "ip6"
    <3>1. t \in Lit!Group(s, c) \cup Lit!Colon(s, c) \cup Lit!Gap(s, c) \cup Lit!Close(s, c)
               \cup Lit!Quad(s, c) \cup Lit!Future(s, c, UserInfo)
      BY <2>1, SMT DEF Lit!Address
    <3>2. t \in Lit!Group(s, c) \cup Lit!Colon(s, c) => \E g, n, d, o : t = Lit!Ip6(s[2], g, n, d, o)
      BY Zenon DEF Lit!Group, Lit!Colon
    <3>3. t \in Lit!Gap(s, c) => t = <<"ip6:", s[2]>> \/ t = Lit!Ip6(s[2], s[4], 0, 0, "")
      BY Zenon DEF Lit!Gap
    <3>4. t \in Lit!Close(s, c) \cup Lit!Quad(s, c) => t \in {Lit!Closed(s[2]), Lit!Ip4(s[2], 2, "")}
      BY Zenon DEF Lit!Close, Lit!Quad
    <3>5. t \in Lit!Future(s, c, UserInfo) => t[1] \in {"ipv", "closed"}
      BY DEF Lit!Future, Lit!Closed
    <3>6. /\ \A g, n, d, o : Lit!Ip6(s[2], g, n, d, o)[1] = "ip6"
          /\ <<"ip6:", s[2]>>[1] = "ip6:" /\ Lit!Closed(s[2])[1] = "closed"
          /\ Lit!Ip4(s[2], 2, "")[1] = "ip4"
      BY DEF Lit!Ip6, Lit!Closed, Lit!Ip4
    <3> QED
      <4>1. CASE t \in Lit!Group(s, c) \cup Lit!Colon(s, c)
        BY <2>1, <3>2, <3>6, <4>1, Zenon
      <4>2. CASE t \in Lit!Gap(s, c)
        <5>1. t = <<"ip6:", s[2]>> \/ t = Lit!Ip6(s[2], s[4], 0, 0, "")
          BY <3>3, <4>2, Zenon
        <5>2. t[1] = "ip6:" \/ t[1] = "ip6"
          BY <3>6, <5>1, ZenonT(30)
        <5> QED
          BY <2>1, <5>2
      <4>3. CASE t \in Lit!Close(s, c) \cup Lit!Quad(s, c)
        BY <2>1, <3>4, <3>6, <4>3, Zenon
      <4>4. CASE t \in Lit!Future(s, c, UserInfo)
        BY <2>1, <3>5, <4>4, Zenon
      <4> QED
        BY <3>1, <4>1, <4>2, <4>3, <4>4, Zenon
  <2>2. CASE s[1] = "ip6:"
    <3>1. t \in {u \in {Lit!Ip6(s[2], 0, 0, 0, "")} : c = ":"}
      BY <2>2, Zenon DEF Lit!Address
    <3>2. t = Lit!Ip6(s[2], 0, 0, 0, "")
      BY <3>1, Zenon
    <3> QED
      BY <2>2, <3>2 DEF Lit!Ip6
  <2>3. CASE s[1] = "ip4"
    <3>1. t \in Lit!Octets(s, c)
      BY <2>3, SMT DEF Lit!Address
    <3>2. (\E j, o : t = Lit!Ip4(s[2], j, o)) \/ t = Lit!Closed(s[2])
      BY <3>1, Zenon DEF Lit!Octets
    <3> QED
      BY <2>3, <3>2 DEF Lit!Ip4, Lit!Closed
  <2>4. CASE s[1] = "ipv"
    <3>1. t \in Lit!Future(s, c, UserInfo)
      BY <2>4, SMT DEF Lit!Address
    <3> QED
      BY <2>4, <3>1 DEF Lit!Future, Lit!Closed
  <2>5. CASE s[1] \notin {"ip6", "ip6:", "ip4", "ipv"}
    <3>1. Lit!Address(s, c, UserInfo) = {}
      BY <2>5, Zenon DEF Lit!Address
    <3> QED
      BY <3>1, Zenon
  <2> QED
    BY <2>1, <2>2, <2>3, <2>4, <2>5
<1>2. MarkLive(s) /\ ~QueryLive(t) /\ ~FieldLive(t) /\ ~LengthLive(t) /\ t # <<"done">>
  <2>1. <<"done">>[1] = "done"
    OBVIOUS
  <2> QED
    BY <1>1, <2>1 DEF MarkLive, QueryLive, FieldLive, LengthLive, Base
<1> QED
  BY <1>2 DEF EdgeOK, Edge, Marking, Using, Ending, Rest

LEMMA MovesOK ==
  ASSUME NEW s, NEW c, NEW e \in Moves(s, c)
  PROVE  EdgeOK(e) /\ e.from = s /\ c \in e.on
<1>1. CASE e \in { d \in IF s \in DOMAIN From THEN From[s] ELSE {} : c \in d.on }
  <2>1. e \in From[s] /\ s \in DOMAIN From /\ c \in e.on
    BY <1>1
  <2>2. e \in Table /\ e.from = s
    BY <2>1 DEF From
  <2> QED
    BY <2>1, <2>2, TableOK
<1>2. CASE e \in { Edge(s, {c}, <<>>, t) : t \in Lit!Address(s, c, UserInfo) }
  <2>1. PICK t \in Lit!Address(s, c, UserInfo) : e = Edge(s, {c}, <<>>, t)
    BY <1>2
  <2>2. EdgeOK(e)
    BY <2>1, AddressOK
  <2> QED
    BY <2>1, <2>2 DEF Edge
<1> QED
  BY <1>1, <1>2, Zenon DEF Moves

(* Behind the CR of a blank line the LF ends the headers. *)
LEMMA BlankLineOK == \A e \in Table : e.from = <<"line-cr">> /\ "LF" \in e.on => e.to = <<"done">>
<1> DEFINE P(e) == e.from # <<"line-cr">>
<1> USE DEF Edge
<1>1. ASSUME NEW s, NEW x, NEW do, s # <<"line-cr">> PROVE \A e \in EndPath(s, x, do) : P(e)
  <2>1. CASE x = "json"
    BY <1>1, <2>1 DEF EndPath
  <2>2. CASE x # "json"
    BY <1>1, <2>2 DEF EndPath
  <2> QED
    BY <2>1, <2>2
<1>2. ASSUME NEW s, NEW t, NEW do, s # <<"line-cr">> PROVE \A e \in Pct(s, do, t) : P(e)
  <2>1. <<"%", t>> # <<"line-cr">> /\ <<"%x", t>> # <<"line-cr">>
    OBVIOUS
  <2>2. \A e \in Pct(s, do, t) : e.from \in {s, <<"%", t>>, <<"%x", t>>}
    BY DEF Pct
  <2> QED
    BY <1>2, <2>1, <2>2
<1>3. \A e \in Method : P(e)
  BY DEF Method
<1>4. \A e \in Target \cup SocketTarget \cup Scheme : P(e)
  BY <1>1, <1>2 DEF Target, SocketTarget, Scheme
<1>5. \A x : \A e \in RelativePath(x) \cup Path(x) \cup Slash(x) : P(e)
  BY <1>1, <1>2 DEF RelativePath, Path, Slash
<1>6. \A x : \A e \in Authority(x) \cup UserOrPort(x) : P(e)
  BY <1>1, <1>2 DEF Authority, AuthorityFrom, UserOrPort
<1>7. \A x : \A e \in Host(x) \cup Port(x) : P(e)
  BY <1>1, <1>2 DEF Host, HostFrom, Port, Lit!Closed
<1>8. \A e \in Query \cup Fragment \cup Version \cup Value : P(e)
  BY <1>1, <1>2 DEF Query, QueryFrom, Fragment, FragmentFrom, Version, Value, ValueFrom
<1>9. \A e \in Xml \cup Json : P(e)
  BY DEF Xml, Json
<1>10. \A e \in Header : e.from = <<"line-cr">> /\ "LF" \in e.on => e.to = <<"done">>
  BY DEF Header
<1> HIDE DEF Edge
<1> QED
  BY <1>3, <1>4, <1>5, <1>6, <1>7, <1>8, <1>9, <1>10, Zenon
     DEF Table, SocketPath, SocketAuthority, SocketUser, SocketHost

-----------------------------------------------------------------------------

IsRequest(q) ==
    q = [method |-> q.method, path |-> q.path, query |-> q.query, fragment |-> q.fragment,
         version |-> q.version, headers |-> q.headers, body |-> q.body]

\* A call of execute() on a buffer, at some character.
IsRunOf(r, buffer) ==
    /\ r = [cs |-> r.cs, queryStart |-> r.queryStart, error |-> r.error, undefined |-> r.undefined,
            request |-> r.request, buf |-> buffer, p |-> r.p, mark |-> r.mark,
            fieldStart |-> r.fieldStart, fieldLen |-> r.fieldLen, stop |-> r.stop]
    /\ IsRequest(r.request)
    /\ r.p \in 0..Len(buffer)

\* The buffer piece is what follows the first c characters of text.
Shifted(text, piece, c) ==
    /\ text \in Seq(Char) /\ piece \in Seq(Char)
    /\ c \in Nat /\ c + Len(piece) <= Len(text)
    /\ \A j \in 1..Len(piece) : piece[j] = text[c + j]

\* What is live in a state. In line-cr nothing is: an LF follows.
LiveAt(s) ==
    { x \in {"mark", "query", "field", "length"} :
        \/ x = "mark" /\ MarkLive(s)
        \/ x = "query" /\ QueryLive(s)
        \/ x = "field" /\ FieldLive(s) /\ s # <<"line-cr">>
        \/ x = "length" /\ LengthLive(s) }

\* A run r on the piece and a run w on the text that differ in nothing but where the
\* piece begins; of the marks, those that are live.
Like(r, w, text, piece, c, live) ==
    /\ IsRunOf(r, piece) /\ IsRunOf(w, text)
    /\ w.p = r.p + c
    /\ w.cs = r.cs /\ w.error = r.error /\ w.undefined = r.undefined
    /\ w.request = r.request /\ w.stop = r.stop
    /\ "mark" \in live => r.mark \in 0..r.p /\ w.mark = r.mark + c
    /\ "query" \in live => r.queryStart \in 0..r.p /\ w.queryStart = r.queryStart + c
    /\ "field" \in live => r.fieldStart \in 0..r.p /\ w.fieldStart = r.fieldStart + c
    /\ "length" \in live =>
        /\ r.fieldStart \in Nat /\ r.fieldLen \in Nat /\ r.fieldStart + r.fieldLen <= r.p
        /\ w.fieldLen = r.fieldLen

\* The stretch from a to b of the piece, in both.
SameStretch(text, piece, c, a, b) == SubSeq(text, a + c + 1, b + c) = SubSeq(piece, a + 1, b)

LEMMA SameText ==
  ASSUME NEW text, NEW piece, NEW c, Shifted(text, piece, c)
  PROVE  \A a \in Nat : \A b \in 0..Len(piece) : a <= b => SameStretch(text, piece, c, a, b)
<1> SUFFICES ASSUME NEW a \in Nat, NEW b \in 0..Len(piece), a <= b
             PROVE  SubSeq(text, a + c + 1, b + c) = SubSeq(piece, a + 1, b)
  BY DEF SameStretch
<1> DEFINE s == SubSeq(text, a + c + 1, b + c)
           u == SubSeq(piece, a + 1, b)
<1>1. /\ text \in Seq(Char) /\ piece \in Seq(Char) /\ c \in Nat /\ b \in Nat
      /\ Len(text) \in Nat /\ Len(piece) \in Nat
      /\ c + Len(piece) <= Len(text) /\ b <= Len(piece)
      /\ \A j \in 1..Len(piece) : piece[j] = text[c + j]
  BY DEF Shifted
<1>2. /\ u \in Seq(Char) /\ Len(u) = b - a
      /\ \A j \in 1..b - a : u[j] = piece[a + j]
  <2>1. \A j \in a + 1..b : piece[j] \in Char
    BY <1>1
  <2>2. /\ u \in Seq(Char)
        /\ Len(u) = IF a + 1 <= b THEN b - (a + 1) + 1 ELSE 0
        /\ \A j \in 1..b - (a + 1) + 1 : u[j] = piece[a + 1 + j - 1]
    BY <1>1, <2>1, SubSeqProperties
  <2> HIDE DEF u
  <2>3. \A j \in 1..b - a : u[j] = piece[a + j]
    <3> TAKE j \in 1..b - a
    <3>1. j \in 1..b - (a + 1) + 1 /\ a + 1 + j - 1 = a + j
      BY <1>1
    <3> QED
      BY <2>2, <3>1
  <2> QED
    BY <1>1, <2>2, <2>3
<1>3. /\ s \in Seq(Char) /\ Len(s) = b - a
      /\ \A j \in 1..b - a : s[j] = text[a + c + j]
  <2>1. \A j \in a + c + 1..b + c : text[j] \in Char
    BY <1>1
  <2>2. /\ s \in Seq(Char)
        /\ Len(s) = IF a + c + 1 <= b + c THEN b + c - (a + c + 1) + 1 ELSE 0
        /\ \A j \in 1..b + c - (a + c + 1) + 1 : s[j] = text[a + c + 1 + j - 1]
    BY <1>1, <2>1, SubSeqProperties
  <2> HIDE DEF s
  <2>3. \A j \in 1..b - a : s[j] = text[a + c + j]
    <3> TAKE j \in 1..b - a
    <3>1. j \in 1..b + c - (a + c + 1) + 1 /\ a + c + 1 + j - 1 = a + c + j
      BY <1>1
    <3> QED
      BY <2>2, <3>1
  <2> QED
    BY <1>1, <2>2, <2>3
<1>4. \A j \in 1..b - a : text[a + c + j] = piece[a + j]
  <2> TAKE j \in 1..b - a
  <2>1. a + j \in 1..Len(piece) /\ a + c + j = c + (a + j)
    BY <1>1
  <2> QED
    BY <1>1, <2>1
<1> HIDE DEF s, u
<1>5. \A j \in 1..b - a : s[j] = u[j]
  BY <1>2, <1>3, <1>4
<1>6. s = u
  <2>1. Len(s) = Len(u) /\ \A j \in 1..Len(u) : s[j] = u[j]
    BY <1>2, <1>3, <1>5
  <2> QED
    BY <1>2, <1>3, <2>1
<1> QED
  BY <1>6 DEF s, u

(* Actions that set a mark. *)
LEMMA MarkLike ==
  ASSUME NEW text, NEW piece, NEW c, Shifted(text, piece, c),
         NEW r, NEW w, NEW live, Like(r, w, text, piece, c, live)
  PROVE  /\ Like(Do(r, "Mark"), Do(w, "Mark"), text, piece, c, live \cup {"mark"})
         /\ Like(Do(r, "StartQuery"), Do(w, "StartQuery"), text, piece, c, live \cup {"query"})
         /\ Like(Do(r, "StartField"), Do(w, "StartField"), text, piece, c,
                 (live \ {"length"}) \cup {"field"})
         /\ "field" \in live =>
              Like(Do(r, "WriteField"), Do(w, "WriteField"), text, piece, c, live \cup {"length"})
<1>1. c \in Nat /\ Len(piece) \in Nat /\ Len(text) \in Nat /\ c + Len(piece) <= Len(text)
  BY DEF Shifted
<1>2. /\ Do(r, "Mark") = [r EXCEPT !.mark = r.p] /\ Do(w, "Mark") = [w EXCEPT !.mark = w.p]
      /\ Do(r, "StartQuery") = [r EXCEPT !.queryStart = r.p]
      /\ Do(w, "StartQuery") = [w EXCEPT !.queryStart = w.p]
      /\ Do(r, "StartField") = [r EXCEPT !.fieldStart = r.p]
      /\ Do(w, "StartField") = [w EXCEPT !.fieldStart = w.p]
      /\ Do(r, "WriteField") = [r EXCEPT !.fieldLen = r.p - r.fieldStart]
      /\ Do(w, "WriteField") = [w EXCEPT !.fieldLen = w.p - w.fieldStart]
  BY Zenon DEF Do
<1>3. Like([r EXCEPT !.mark = r.p], [w EXCEPT !.mark = w.p], text, piece, c, live \cup {"mark"})
  BY <1>1 DEF Like, IsRunOf
<1>4. Like([r EXCEPT !.queryStart = r.p], [w EXCEPT !.queryStart = w.p], text, piece, c,
           live \cup {"query"})
  BY <1>1 DEF Like, IsRunOf
<1>5. Like([r EXCEPT !.fieldStart = r.p], [w EXCEPT !.fieldStart = w.p], text, piece, c,
           (live \ {"length"}) \cup {"field"})
  BY <1>1 DEF Like, IsRunOf
<1>6. ASSUME "field" \in live
      PROVE  Like([r EXCEPT !.fieldLen = r.p - r.fieldStart], [w EXCEPT !.fieldLen = w.p - w.fieldStart],
                  text, piece, c, live \cup {"length"})
  <2>1. /\ w.p - w.fieldStart = r.p - r.fieldStart
        /\ r.p - r.fieldStart \in Nat /\ r.fieldStart + (r.p - r.fieldStart) <= r.p
    <3>1. /\ r.fieldStart \in 0..r.p /\ w.fieldStart = r.fieldStart + c
          /\ r.p \in Nat /\ w.p = r.p + c
      BY <1>6 DEF Like, IsRunOf
    <3> QED
      BY <1>1, <3>1
  <2>2. \A l \in Nat : r.fieldStart + l <= r.p =>
            Like([r EXCEPT !.fieldLen = l], [w EXCEPT !.fieldLen = l], text, piece, c,
                 live \cup {"length"})
    <3> TAKE l \in Nat
    <3> HAVE r.fieldStart + l <= r.p
    <3> DEFINE d == [r EXCEPT !.fieldLen = l]
               f == [w EXCEPT !.fieldLen = l]
    <3>1. /\ IsRunOf(d, piece) /\ d.p = r.p /\ d.cs = r.cs /\ d.error = r.error
          /\ d.undefined = r.undefined /\ d.request = r.request /\ d.stop = r.stop
          /\ d.mark = r.mark /\ d.queryStart = r.queryStart /\ d.fieldStart = r.fieldStart
          /\ d.fieldLen = l
      BY DEF Like, IsRunOf
    <3>2. /\ IsRunOf(f, text) /\ f.p = w.p /\ f.cs = w.cs /\ f.error = w.error
          /\ f.undefined = w.undefined /\ f.request = w.request /\ f.stop = w.stop
          /\ f.mark = w.mark /\ f.queryStart = w.queryStart /\ f.fieldStart = w.fieldStart
          /\ f.fieldLen = l
      BY DEF Like, IsRunOf
    <3>3. r.fieldStart \in Nat
      BY <1>1, <1>6 DEF Like, IsRunOf
    <3> HIDE DEF d, f
    <3>4. Like(d, f, text, piece, c, live \cup {"length"})
      BY <1>1, <3>1, <3>2, <3>3 DEF Like
    <3> QED
      BY <3>4 DEF d, f
  <2> QED
    BY <2>1, <2>2
<1> QED
  BY <1>2, <1>3, <1>4, <1>5, <1>6

(* Actions that store the text behind the mark. *)
LEMMA TextLike ==
  ASSUME NEW text, NEW piece, NEW c, Shifted(text, piece, c),
         NEW r, NEW w, NEW live, Like(r, w, text, piece, c, live), "mark" \in live
  PROVE  \A act \in {"Method", "Path", "Fragment", "Version"} :
            Like(Do(r, act), Do(w, act), text, piece, c, live)
<1>1. c \in Nat /\ Len(piece) \in Nat /\ Len(text) \in Nat /\ c + Len(piece) <= Len(text)
  BY DEF Shifted
<1> DEFINE t == Text(r, r.mark)
<1>2. Text(w, w.mark) = t
  <2>1. /\ r.mark \in Nat /\ r.p \in 0..Len(piece) /\ r.mark <= r.p
        /\ w.mark = r.mark + c /\ w.p = r.p + c /\ r.buf = piece /\ w.buf = text
    BY <1>1 DEF Like, IsRunOf
  <2>2. SameStretch(text, piece, c, r.mark, r.p)
    <3>1. r.mark \in Nat /\ r.p \in 0..Len(piece) /\ r.mark <= r.p
      BY <2>1
    <3> QED
      BY <3>1, SameText
  <2> QED
    BY <2>1, <2>2 DEF Text, SameStretch
<1>3. Like([r EXCEPT !.error = TRUE], [w EXCEPT !.error = TRUE], text, piece, c, live)
  <2>1. \A e : Like([r EXCEPT !.error = e], [w EXCEPT !.error = e], text, piece, c, live)
    BY DEF Like, IsRunOf
  <2> QED
    BY <2>1, Zenon
<1> HIDE DEF t
<1>4. /\ Like([r EXCEPT !.request.method = String2HttpMethod(t)],
              [w EXCEPT !.request.method = String2HttpMethod(t)], text, piece, c, live)
      /\ Like([r EXCEPT !.request.path = t], [w EXCEPT !.request.path = t], text, piece, c, live)
  BY DEF Like, IsRunOf, IsRequest
<1>5. /\ Like([r EXCEPT !.request.fragment = t], [w EXCEPT !.request.fragment = t], text, piece, c, live)
      /\ Like([r EXCEPT !.request.version = <<Last(t)>>], [w EXCEPT !.request.version = <<Last(t)>>],
              text, piece, c, live)
  BY SMTT(20) DEF Like, IsRunOf, IsRequest
<1>6. Like(Do(r, "Method"), Do(w, "Method"), text, piece, c, live)
  <2>1. /\ Do(r, "Method") = OnRequestMethod(r) /\ Do(w, "Method") = OnRequestMethod(w)
    BY Zenon DEF Do
  <2> QED
    BY <1>2, <1>3, <1>4, <2>1 DEF OnRequestMethod, t
<1>7. Like(Do(r, "Path"), Do(w, "Path"), text, piece, c, live)
  <2>1. /\ Do(r, "Path") = OnRequestPath(r) /\ Do(w, "Path") = OnRequestPath(w)
    BY Zenon DEF Do
  <2> QED
    BY <1>2, <1>4, <2>1 DEF OnRequestPath, t
<1>8. Like(Do(r, "Fragment"), Do(w, "Fragment"), text, piece, c, live)
  <2>1. /\ Do(r, "Fragment") = OnRequestFragment(r) /\ Do(w, "Fragment") = OnRequestFragment(w)
    BY Zenon DEF Do
  <2> QED
    BY <1>2, <1>5, <2>1 DEF OnRequestFragment, t
<1>9. Like(Do(r, "Version"), Do(w, "Version"), text, piece, c, live)
  <2>1. /\ Do(r, "Version") = OnRequestVersion(r) /\ Do(w, "Version") = OnRequestVersion(w)
    BY Zenon DEF Do
  <2> QED
    BY <1>2, <1>3, <1>5, <2>1, Zenon DEF OnRequestVersion, t
<1> QED
  BY <1>6, <1>7, <1>8, <1>9

(* The query, a header, and what only ends a token or the loop. *)
LEMMA OtherLike ==
  ASSUME NEW text, NEW piece, NEW c, Shifted(text, piece, c),
         NEW r, NEW w, NEW live, Like(r, w, text, piece, c, live)
  PROVE  /\ \A act \in {"Uri", "Xml", "Json", "Done"} :
              Like(Do(r, act), Do(w, act), text, piece, c, live)
         /\ "query" \in live => Like(Do(r, "Query"), Do(w, "Query"), text, piece, c, live)
         /\ {"mark", "field", "length"} \subseteq live =>
              Like(Do(r, "WriteValue"), Do(w, "WriteValue"), text, piece, c, live)
<1>1. c \in Nat /\ Len(piece) \in Nat /\ Len(text) \in Nat /\ c + Len(piece) <= Len(text)
  BY DEF Shifted
<1>2. \A act \in {"Uri", "Xml", "Json"} : Do(r, act) = r /\ Do(w, act) = w
  BY DEF Do
<1>3. Like(Do(r, "Done"), Do(w, "Done"), text, piece, c, live)
  <2>1. Do(r, "Done") = [r EXCEPT !.stop = TRUE] /\ Do(w, "Done") = [w EXCEPT !.stop = TRUE]
    BY Zenon DEF Do
  <2>2. \A s : Like([r EXCEPT !.stop = s], [w EXCEPT !.stop = s], text, piece, c, live)
    BY DEF Like, IsRunOf
  <2> QED
    BY <2>1, <2>2, Zenon
<1>4. ASSUME "query" \in live
      PROVE  Like(Do(r, "Query"), Do(w, "Query"), text, piece, c, live)
  <2>1. /\ r.queryStart \in Nat /\ r.p \in 0..Len(piece) /\ r.queryStart <= r.p
        /\ w.queryStart = r.queryStart + c /\ w.p = r.p + c /\ r.buf = piece /\ w.buf = text
    BY <1>1, <1>4 DEF Like, IsRunOf
  <2> DEFINE t == Text(r, r.queryStart)
  <2>2. Text(w, w.queryStart) = t
    <3>1. SameStretch(text, piece, c, r.queryStart, r.p)
      <4>1. r.queryStart \in Nat /\ r.p \in 0..Len(piece) /\ r.queryStart <= r.p
        BY <2>1
      <4> QED
        BY <4>1, SameText
    <3> QED
      BY <2>1, <3>1 DEF Text, SameStretch
  <2> HIDE DEF t
  <2>3. Like([r EXCEPT !.request.query = t], [w EXCEPT !.request.query = t], text, piece, c, live)
    BY DEF Like, IsRunOf, IsRequest
  <2>4. ~(r.queryStart > r.p) /\ ~(w.queryStart > w.p)
    BY <1>1, <2>1
  <2>5. /\ Do(r, "Query") = OnRequestQuery(r) /\ Do(w, "Query") = OnRequestQuery(w)
    BY Zenon DEF Do
  <2> QED
    BY <2>2, <2>3, <2>4, <2>5, Zenon DEF OnRequestQuery, t
<1>5. ASSUME {"mark", "field", "length"} \subseteq live
      PROVE  Like(Do(r, "WriteValue"), Do(w, "WriteValue"), text, piece, c, live)
  <2>1. /\ r.mark \in Nat /\ r.p \in 0..Len(piece) /\ r.mark <= r.p
        /\ w.mark = r.mark + c /\ w.p = r.p + c /\ r.buf = piece /\ w.buf = text
        /\ r.fieldStart \in Nat /\ w.fieldStart = r.fieldStart + c
        /\ r.fieldLen \in Nat /\ w.fieldLen = r.fieldLen /\ r.fieldStart + r.fieldLen <= r.p
    BY <1>1, <1>5 DEF Like, IsRunOf
  <2> DEFINE t == Text(r, r.mark)
             name == SubSeq(piece, r.fieldStart + 1, r.fieldStart + r.fieldLen)
  <2>2. Text(w, w.mark) = t
    <3>1. SameStretch(text, piece, c, r.mark, r.p)
      <4>1. r.mark \in Nat /\ r.p \in 0..Len(piece) /\ r.mark <= r.p
        BY <2>1
      <4> QED
        BY <4>1, SameText
    <3> QED
      BY <2>1, <3>1 DEF Text, SameStretch
  <2>3. SubSeq(w.buf, w.fieldStart + 1, w.fieldStart + w.fieldLen) = name
    <3>1. /\ r.fieldStart \in Nat /\ r.fieldStart + r.fieldLen \in 0..Len(piece)
          /\ r.fieldStart <= r.fieldStart + r.fieldLen
      BY <1>1, <2>1
    <3>2. SameStretch(text, piece, c, r.fieldStart, r.fieldStart + r.fieldLen)
      BY <3>1, SameText
    <3>3. w.fieldStart + w.fieldLen = (r.fieldStart + r.fieldLen) + c
      BY <1>1, <2>1
    <3> QED
      BY <2>1, <3>2, <3>3 DEF SameStretch
  <2> HIDE DEF t, name
  <2> DEFINE With(h) == [n \in DOMAIN h \cup {name} |-> IF n = name THEN t ELSE h[n]]
  <2>4. \A h : Like([r EXCEPT !.request.headers = h], [w EXCEPT !.request.headers = h],
                    text, piece, c, live)
    BY DEF Like, IsRunOf, IsRequest
  <2>5. r.request.headers = w.request.headers
    BY DEF Like
  <2>6. /\ Do(r, "WriteValue") = OnRequestHttpField(r)
        /\ Do(w, "WriteValue") = OnRequestHttpField(w)
    BY Zenon DEF Do
  <2>7. /\ SubSeq(r.buf, r.fieldStart + 1, r.fieldStart + r.fieldLen) = name
        /\ Text(r, r.mark) = t
    BY <2>1 DEF name, t
  <2>8. /\ OnRequestHttpField(r) = IF name = <<>> THEN r
                                   ELSE [r EXCEPT !.request.headers = With(r.request.headers)]
        /\ OnRequestHttpField(w) = IF name = <<>> THEN w
                                   ELSE [w EXCEPT !.request.headers = With(w.request.headers)]
    BY <2>2, <2>3, <2>7, Zenon DEF OnRequestHttpField
  <2> HIDE DEF With
  <2> QED
    BY <2>4, <2>5, <2>6, <2>8
<1> QED
  BY <1>2, <1>3, <1>4, <1>5

(* What an edge does, written out. *)
LEMMA ActsWrittenOut ==
  ASSUME NEW r
  PROVE  /\ DoAll(r, <<>>) = r
         /\ \A a : DoAll(r, <<a>>) = Do(r, a)
         /\ \A a, b : DoAll(r, <<a, b>>) = Do(Do(r, a), b)
         /\ \A a, b, d : DoAll(r, <<a, b, d>>) = Do(Do(Do(r, a), b), d)
<1>1. DoAll(r, <<>>) = r
  <2>1. <<>> \in Seq({}) /\ Len(<<>>) = 0
    OBVIOUS
  <2>2. PICK f : IsPath(f, r, <<>>, DoAll(r, <<>>))
    BY <2>1, FoldSteps
  <2> QED
    BY <2>1, <2>2 DEF IsPath
<1>2. ASSUME NEW a PROVE DoAll(r, <<a>>) = Do(r, a)
  <2>1. <<a>> \in Seq({a}) /\ Len(<<a>>) = 1 /\ <<a>>[1] = a
    OBVIOUS
  <2>2. PICK f : IsPath(f, r, <<a>>, DoAll(r, <<a>>))
    BY <2>1, FoldSteps
  <2>3. f[0] = r /\ f[1] = Do(f[0], a) /\ DoAll(r, <<a>>) = f[1]
    BY <2>1, <2>2 DEF IsPath
  <2> QED
    BY <2>3
<1>3. ASSUME NEW a, NEW b PROVE DoAll(r, <<a, b>>) = Do(Do(r, a), b)
  <2> DEFINE s == <<a, b>>
  <2>1. s \in Seq({a, b}) /\ Len(s) = 2 /\ s[1] = a /\ s[2] = b
    OBVIOUS
  <2>2. PICK f : IsPath(f, r, s, DoAll(r, s))
    BY <2>1, FoldSteps
  <2> HIDE DEF s
  <2>3. f[0] = r /\ f[1] = Do(f[0], a) /\ f[2] = Do(f[1], b) /\ DoAll(r, s) = f[2]
    BY <2>1, <2>2 DEF IsPath
  <2> QED
    BY <2>3 DEF s
<1>4. ASSUME NEW a, NEW b, NEW d PROVE DoAll(r, <<a, b, d>>) = Do(Do(Do(r, a), b), d)
  <2> DEFINE s == <<a, b, d>>
  <2>1. s \in Seq({a, b, d}) /\ Len(s) = 3 /\ s[1] = a /\ s[2] = b /\ s[3] = d
    OBVIOUS
  <2>2. PICK f : IsPath(f, r, s, DoAll(r, s))
    BY <2>1, FoldSteps
  <2> HIDE DEF s
  <2>3. /\ f[0] = r /\ f[1] = Do(f[0], a) /\ f[2] = Do(f[1], b) /\ f[3] = Do(f[2], d)
        /\ DoAll(r, s) = f[3]
    BY <2>1, <2>2 DEF IsPath
  <2> QED
    BY <2>3 DEF s
<1> QED
  BY <1>1, <1>2, <1>3, <1>4

LEMMA ActsOfEdges ==
  ASSUME NEW r
  PROVE  /\ DoAll(r, <<"Method">>) = Do(r, "Method")
         /\ DoAll(r, <<"Path">>) = Do(r, "Path")
         /\ DoAll(r, <<"Path", "Uri">>) = Do(Do(r, "Path"), "Uri")
         /\ DoAll(r, <<"Fragment">>) = Do(r, "Fragment")
         /\ DoAll(r, <<"Version">>) = Do(r, "Version")
         /\ DoAll(r, <<"WriteValue">>) = Do(r, "WriteValue")
         /\ DoAll(r, <<"Mark">>) = Do(r, "Mark")
         /\ DoAll(r, <<"Mark", "Path">>) = Do(Do(r, "Mark"), "Path")
         /\ DoAll(r, <<"Mark", "Path", "Uri">>) = Do(Do(Do(r, "Mark"), "Path"), "Uri")
         /\ DoAll(r, <<"Mark", "Fragment">>) = Do(Do(r, "Mark"), "Fragment")
         /\ DoAll(r, <<"Mark", "WriteValue">>) = Do(Do(r, "Mark"), "WriteValue")
         /\ DoAll(r, <<"Done">>) = Do(r, "Done")
         /\ DoAll(r, <<"StartField", "Done">>) = Do(Do(r, "StartField"), "Done")
         /\ DoAll(r, <<"Xml", "Done">>) = Do(Do(r, "Xml"), "Done")
         /\ DoAll(r, <<"Json", "Done">>) = Do(Do(r, "Json"), "Done")
         /\ DoAll(r, <<"StartQuery">>) = Do(r, "StartQuery")
         /\ DoAll(r, <<"Query", "Uri">>) = Do(Do(r, "Query"), "Uri")
         /\ DoAll(r, <<"StartQuery", "Query", "Uri">>) = Do(Do(Do(r, "StartQuery"), "Query"), "Uri")
         /\ DoAll(r, <<"StartField">>) = Do(r, "StartField")
         /\ DoAll(r, <<"WriteField">>) = Do(r, "WriteField")
<1>1. /\ DoAll(r, <<"Method">>) = Do(r, "Method")
      /\ DoAll(r, <<"Path">>) = Do(r, "Path")
      /\ DoAll(r, <<"Fragment">>) = Do(r, "Fragment")
      /\ DoAll(r, <<"Version">>) = Do(r, "Version")
      /\ DoAll(r, <<"WriteValue">>) = Do(r, "WriteValue")
      /\ DoAll(r, <<"Mark">>) = Do(r, "Mark")
      /\ DoAll(r, <<"Done">>) = Do(r, "Done")
      /\ DoAll(r, <<"StartQuery">>) = Do(r, "StartQuery")
      /\ DoAll(r, <<"StartField">>) = Do(r, "StartField")
      /\ DoAll(r, <<"WriteField">>) = Do(r, "WriteField")
  BY ActsWrittenOut, Zenon
<1>2. /\ DoAll(r, <<"Path", "Uri">>) = Do(Do(r, "Path"), "Uri")
      /\ DoAll(r, <<"Mark", "Path">>) = Do(Do(r, "Mark"), "Path")
      /\ DoAll(r, <<"Mark", "Fragment">>) = Do(Do(r, "Mark"), "Fragment")
      /\ DoAll(r, <<"Mark", "WriteValue">>) = Do(Do(r, "Mark"), "WriteValue")
      /\ DoAll(r, <<"StartField", "Done">>) = Do(Do(r, "StartField"), "Done")
      /\ DoAll(r, <<"Xml", "Done">>) = Do(Do(r, "Xml"), "Done")
      /\ DoAll(r, <<"Json", "Done">>) = Do(Do(r, "Json"), "Done")
      /\ DoAll(r, <<"Query", "Uri">>) = Do(Do(r, "Query"), "Uri")
  <2>1. \A a, b : DoAll(r, <<a, b>>) = Do(Do(r, a), b)
    BY ActsWrittenOut, Zenon
  <2> QED
    BY <2>1
<1>3. /\ DoAll(r, <<"Mark", "Path", "Uri">>) = Do(Do(Do(r, "Mark"), "Path"), "Uri")
      /\ DoAll(r, <<"StartQuery", "Query", "Uri">>) = Do(Do(Do(r, "StartQuery"), "Query"), "Uri")
  BY ActsWrittenOut, SMTT(20)
<1> QED
  BY <1>1, <1>2, <1>3

\* The live marks after the actions of an edge.
LiveBehind(live, acts) ==
    IF acts \in Ending THEN {}
    ELSE (live \cup (IF acts \in Marking THEN {"mark"} ELSE {})
               \cup (IF acts \in {<<"StartQuery">>, <<"StartQuery", "Query", "Uri">>}
                     THEN {"query"} ELSE {})
               \cup (IF acts = <<"StartField">> THEN {"field"} ELSE {})
               \cup (IF acts = <<"WriteField">> THEN {"length"} ELSE {}))
         \ (IF acts = <<"StartField">> THEN {"length"} ELSE {})

LEMMA FewerLive ==
  ASSUME NEW text, NEW piece, NEW c, NEW r, NEW w, NEW live, NEW some \in SUBSET live,
         Like(r, w, text, piece, c, live)
  PROVE  Like(r, w, text, piece, c, some)
  BY DEF Like

LEMMA ActsLike ==
  ASSUME NEW text, NEW piece, NEW c, Shifted(text, piece, c),
         NEW r, NEW w, NEW live, Like(r, w, text, piece, c, live),
         NEW acts \in Marking \cup Using \cup Ending \cup Rest,
         acts \in Using => "mark" \in live,
         acts = <<"Query", "Uri">> => "query" \in live,
         acts = <<"WriteField">> => "field" \in live,
         acts \in {<<"WriteValue">>, <<"Mark", "WriteValue">>} => {"field", "length"} \subseteq live
  PROVE  Like(DoAll(r, acts), DoAll(w, acts), text, piece, c, LiveBehind(live, acts))
<1> DEFINE L(acs, lv) == Like(DoAll(r, acs), DoAll(w, acs), text, piece, c, lv)
           M(r1, w1, lv) == Like(r1, w1, text, piece, c, lv)
<1>0. \A r1, w1, lv : M(r1, w1, lv) =>
        /\ M(Do(r1, "Mark"), Do(w1, "Mark"), lv \cup {"mark"})
        /\ M(Do(r1, "StartQuery"), Do(w1, "StartQuery"), lv \cup {"query"})
        /\ M(Do(r1, "StartField"), Do(w1, "StartField"), (lv \ {"length"}) \cup {"field"})
        /\ "field" \in lv => M(Do(r1, "WriteField"), Do(w1, "WriteField"), lv \cup {"length"})
  BY MarkLike
<1>1. \A r1, w1, lv : M(r1, w1, lv) /\ "mark" \in lv =>
        \A act \in {"Method", "Path", "Fragment", "Version"} : M(Do(r1, act), Do(w1, act), lv)
  BY TextLike
<1>2. \A r1, w1, lv : M(r1, w1, lv) =>
        /\ \A act \in {"Uri", "Xml", "Json", "Done"} : M(Do(r1, act), Do(w1, act), lv)
        /\ "query" \in lv => M(Do(r1, "Query"), Do(w1, "Query"), lv)
        /\ {"mark", "field", "length"} \subseteq lv => M(Do(r1, "WriteValue"), Do(w1, "WriteValue"), lv)
  BY OtherLike
<1>3. M(r, w, live)
  OBVIOUS
<1> HIDE DEF M
<1>4. CASE acts \in Marking
  <2> DEFINE r1 == Do(r, "Mark")
             w1 == Do(w, "Mark")
             lv == live \cup {"mark"}
  <2>1. M(r1, w1, lv)
    BY <1>0, <1>3
  <2>2. M(Do(r1, "Path"), Do(w1, "Path"), lv) /\ M(Do(r1, "Fragment"), Do(w1, "Fragment"), lv)
    BY <1>1, <2>1
  <2>3. M(Do(Do(r1, "Path"), "Uri"), Do(Do(w1, "Path"), "Uri"), lv)
    BY <1>2, <2>2
  <2>4. acts = <<"Mark", "WriteValue">> => M(Do(r1, "WriteValue"), Do(w1, "WriteValue"), lv)
    BY <1>2, <2>1
  <2>5. M(DoAll(r, acts), DoAll(w, acts), lv)
    BY <1>4, <2>1, <2>2, <2>3, <2>4, ActsOfEdges DEF Marking
  <2>6. LiveBehind(live, acts) \subseteq lv
    BY <1>4 DEF LiveBehind, Marking
  <2> QED
    BY <2>5, <2>6, FewerLive DEF M
<1>5. CASE acts \in Using
  <2>1. M(Do(r, "Path"), Do(w, "Path"), live) /\ M(Do(r, "Fragment"), Do(w, "Fragment"), live)
        /\ M(Do(r, "Method"), Do(w, "Method"), live) /\ M(Do(r, "Version"), Do(w, "Version"), live)
    BY <1>1, <1>3, <1>5
  <2>2. M(Do(Do(r, "Path"), "Uri"), Do(Do(w, "Path"), "Uri"), live)
    BY <1>2, <2>1
  <2>3. acts = <<"WriteValue">> => M(Do(r, "WriteValue"), Do(w, "WriteValue"), live)
    BY <1>2, <1>3, <1>5
  <2>4. M(DoAll(r, acts), DoAll(w, acts), live)
    BY <1>5, <2>1, <2>2, <2>3, ActsOfEdges DEF Using
  <2>5. LiveBehind(live, acts) \subseteq live
    BY <1>5 DEF LiveBehind, Using, Marking
  <2> QED
    BY <2>4, <2>5, FewerLive DEF M
<1>6. CASE acts \in Ending
  <2> DEFINE lf == (live \ {"length"}) \cup {"field"}
  <2>1. /\ M(Do(r, "StartField"), Do(w, "StartField"), lf)
        /\ M(Do(r, "Xml"), Do(w, "Xml"), live) /\ M(Do(r, "Json"), Do(w, "Json"), live)
        /\ M(Do(r, "Done"), Do(w, "Done"), live)
    BY <1>0, <1>2, <1>3
  <2>2. /\ M(Do(Do(r, "StartField"), "Done"), Do(Do(w, "StartField"), "Done"), lf)
        /\ M(Do(Do(r, "Xml"), "Done"), Do(Do(w, "Xml"), "Done"), live)
        /\ M(Do(Do(r, "Json"), "Done"), Do(Do(w, "Json"), "Done"), live)
    BY <1>2, <2>1
  <2>3. \E lv : M(DoAll(r, acts), DoAll(w, acts), lv)
    BY <1>6, <2>1, <2>2, ActsOfEdges DEF Ending
  <2>4. LiveBehind(live, acts) = {}
    BY <1>6 DEF LiveBehind
  <2> QED
    BY <2>3, <2>4, FewerLive DEF M
<1>7. CASE acts \in Rest
  <2> DEFINE r1 == Do(r, "StartQuery")
             w1 == Do(w, "StartQuery")
             lq == live \cup {"query"}
             lf == (live \ {"length"}) \cup {"field"}
  <2>1. /\ M(r1, w1, lq)
        /\ M(Do(r, "StartField"), Do(w, "StartField"), lf)
        /\ acts = <<"WriteField">> => M(Do(r, "WriteField"), Do(w, "WriteField"), live \cup {"length"})
    BY <1>0, <1>3
  <2>2. /\ M(Do(r1, "Query"), Do(w1, "Query"), lq)
        /\ acts = <<"Query", "Uri">> => M(Do(r, "Query"), Do(w, "Query"), live)
    BY <1>2, <1>3, <2>1
  <2>3. /\ M(Do(Do(r1, "Query"), "Uri"), Do(Do(w1, "Query"), "Uri"), lq)
        /\ acts = <<"Query", "Uri">> => M(Do(Do(r, "Query"), "Uri"), Do(Do(w, "Query"), "Uri"), live)
    BY <1>2, <2>2
  <2> HIDE DEF r1, w1
  <2>4. CASE acts = <<>>
    BY <1>3, <2>4, FewerLive, ActsWrittenOut DEF M, LiveBehind, Marking
  <2>5. CASE acts = <<"StartQuery">>
    <3>1. DoAll(r, acts) = r1 /\ DoAll(w, acts) = w1
      BY <2>5, ActsOfEdges DEF r1, w1
    <3>2. LiveBehind(live, acts) \subseteq lq
      BY <2>5 DEF LiveBehind, Marking
    <3> QED
      BY <2>1, <3>1, <3>2, FewerLive DEF M
  <2>6. CASE acts = <<"StartQuery", "Query", "Uri">>
    <3>1. DoAll(r, acts) = Do(Do(r1, "Query"), "Uri") /\ DoAll(w, acts) = Do(Do(w1, "Query"), "Uri")
      BY <2>6, ActsOfEdges DEF r1, w1
    <3>2. LiveBehind(live, acts) \subseteq lq
      BY <2>6 DEF LiveBehind, Marking
    <3> QED
      BY <2>3, <3>1, <3>2, FewerLive DEF M
  <2>7. CASE acts = <<"Query", "Uri">>
    <3>1. DoAll(r, acts) = Do(Do(r, "Query"), "Uri") /\ DoAll(w, acts) = Do(Do(w, "Query"), "Uri")
      BY <2>7, ActsOfEdges
    <3>2. LiveBehind(live, acts) \subseteq live
      BY <2>7 DEF LiveBehind, Marking
    <3> QED
      BY <2>3, <2>7, <3>1, <3>2, FewerLive DEF M
  <2>8. CASE acts = <<"StartField">>
    <3>1. DoAll(r, acts) = Do(r, "StartField") /\ DoAll(w, acts) = Do(w, "StartField")
      BY <2>8, ActsOfEdges
    <3>2. LiveBehind(live, acts) \subseteq lf
      BY <2>8 DEF LiveBehind, Marking
    <3> QED
      BY <2>1, <3>1, <3>2, FewerLive DEF M
  <2>9. CASE acts = <<"WriteField">>
    <3>1. DoAll(r, acts) = Do(r, "WriteField") /\ DoAll(w, acts) = Do(w, "WriteField")
      BY <2>9, ActsOfEdges
    <3>2. LiveBehind(live, acts) \subseteq live \cup {"length"}
      BY <2>9 DEF LiveBehind, Marking
    <3> QED
      BY <2>1, <2>9, <3>1, <3>2, FewerLive DEF M
  <2> QED
    BY <1>7, <2>4, <2>5, <2>6, <2>7, <2>8, <2>9 DEF Rest
<1> QED
  BY <1>4, <1>5, <1>6, <1>7

\* What no action but Done changes.
Keeps(r, d, buffer, stop) == IsRunOf(d, buffer) /\ d.p = r.p /\ d.stop = stop

LEMMA DoKeeps ==
  ASSUME NEW buffer, NEW r, IsRunOf(r, buffer)
  PROVE  /\ \A act \in {"Mark", "StartField", "WriteField", "StartQuery", "Uri", "Xml", "Json"} :
              Keeps(r, Do(r, act), buffer, r.stop)
         /\ \A act \in {"Method", "Path", "Query", "Fragment", "Version", "WriteValue"} :
              Keeps(r, Do(r, act), buffer, r.stop)
         /\ Keeps(r, Do(r, "Done"), buffer, TRUE)
<1> USE DEF Keeps, IsRunOf
<1>1. \A v : /\ Keeps(r, [r EXCEPT !.mark = v], buffer, r.stop)
             /\ Keeps(r, [r EXCEPT !.fieldStart = v], buffer, r.stop)
             /\ Keeps(r, [r EXCEPT !.fieldLen = v], buffer, r.stop)
             /\ Keeps(r, [r EXCEPT !.queryStart = v], buffer, r.stop)
  OBVIOUS
<1>2. \A v : /\ Keeps(r, [r EXCEPT !.error = v], buffer, r.stop)
             /\ Keeps(r, [r EXCEPT !.undefined = v], buffer, r.stop)
             /\ Keeps(r, [r EXCEPT !.stop = v], buffer, v)
  OBVIOUS
<1>3. \A v : /\ Keeps(r, [r EXCEPT !.request.method = v], buffer, r.stop)
             /\ Keeps(r, [r EXCEPT !.request.path = v], buffer, r.stop)
             /\ Keeps(r, [r EXCEPT !.request.query = v], buffer, r.stop)
  BY DEF IsRequest
<1>4. \A v : /\ Keeps(r, [r EXCEPT !.request.fragment = v], buffer, r.stop)
             /\ Keeps(r, [r EXCEPT !.request.version = v], buffer, r.stop)
             /\ Keeps(r, [r EXCEPT !.request.headers = v], buffer, r.stop)
  BY DEF IsRequest
<1>5. Keeps(r, r, buffer, r.stop)
  OBVIOUS
<1> HIDE DEF Keeps, IsRunOf
<1>6. \A act \in {"Mark", "StartField", "WriteField", "StartQuery", "Uri", "Xml", "Json"} :
         Keeps(r, Do(r, act), buffer, r.stop)
  <2>1. /\ Do(r, "Mark") = [r EXCEPT !.mark = r.p]
        /\ Do(r, "StartField") = [r EXCEPT !.fieldStart = r.p]
        /\ Do(r, "WriteField") = [r EXCEPT !.fieldLen = r.p - r.fieldStart]
        /\ Do(r, "StartQuery") = [r EXCEPT !.queryStart = r.p]
    BY Zenon DEF Do
  <2>2. \A act \in {"Uri", "Xml", "Json"} : Do(r, act) = r
    BY DEF Do
  <2>3. /\ Keeps(r, Do(r, "Mark"), buffer, r.stop)
        /\ Keeps(r, Do(r, "StartField"), buffer, r.stop)
        /\ Keeps(r, Do(r, "WriteField"), buffer, r.stop)
        /\ Keeps(r, Do(r, "StartQuery"), buffer, r.stop)
    BY <1>1, <2>1, Zenon
  <2>4. \A act \in {"Uri", "Xml", "Json"} : Keeps(r, Do(r, act), buffer, r.stop)
    BY <1>5, <2>2
  <2> QED
    BY <2>3, <2>4
<1>7. Keeps(r, Do(r, "Done"), buffer, TRUE)
  <2>1. Do(r, "Done") = [r EXCEPT !.stop = TRUE]
    BY Zenon DEF Do
  <2> QED
    BY <1>2, <2>1, Zenon
<1>8. \A act \in {"Method", "Path", "Query", "Fragment", "Version", "WriteValue"} :
         Keeps(r, Do(r, act), buffer, r.stop)
  <2>1. Do(r, "Method") = OnRequestMethod(r) /\ Do(r, "Path") = OnRequestPath(r)
    BY Zenon DEF Do
  <2>2. Do(r, "Query") = OnRequestQuery(r) /\ Do(r, "Fragment") = OnRequestFragment(r)
    BY Zenon DEF Do
  <2>3. Do(r, "Version") = OnRequestVersion(r) /\ Do(r, "WriteValue") = OnRequestHttpField(r)
    BY Zenon DEF Do
  <2>4. Keeps(r, OnRequestMethod(r), buffer, r.stop) /\ Keeps(r, OnRequestPath(r), buffer, r.stop)
    BY <1>2, <1>3, Zenon DEF OnRequestMethod, OnRequestPath
  <2>5. Keeps(r, OnRequestQuery(r), buffer, r.stop) /\ Keeps(r, OnRequestFragment(r), buffer, r.stop)
    BY <1>2, <1>3, <1>4, Zenon DEF OnRequestQuery, OnRequestFragment
  <2>6. Keeps(r, OnRequestVersion(r), buffer, r.stop) /\ Keeps(r, OnRequestHttpField(r), buffer, r.stop)
    BY <1>2, <1>4, <1>5, Zenon DEF OnRequestVersion, OnRequestHttpField
  <2> QED
    BY <2>1, <2>2, <2>3, <2>4, <2>5, <2>6
<1> QED
  BY <1>6, <1>7, <1>8

LEMMA DoAllKeeps ==
  ASSUME NEW buffer, NEW r, IsRunOf(r, buffer),
         NEW acts \in Marking \cup Using \cup Ending \cup Rest
  PROVE  Keeps(r, DoAll(r, acts), buffer, IF acts \in Ending THEN TRUE ELSE r.stop)
<1> DEFINE Quiet == {"Mark", "StartField", "WriteField", "StartQuery", "Uri", "Xml", "Json", "Method",
                     "Path", "Query", "Fragment", "Version", "WriteValue"}
<1>1. \A d : Keeps(r, d, buffer, r.stop) =>
         /\ \A act \in Quiet : Keeps(r, Do(d, act), buffer, r.stop)
         /\ Keeps(r, Do(d, "Done"), buffer, TRUE)
  <2> TAKE d
  <2> HAVE Keeps(r, d, buffer, r.stop)
  <2>1. IsRunOf(d, buffer) /\ d.p = r.p /\ d.stop = r.stop
    BY DEF Keeps
  <2>2. /\ \A act \in Quiet : Keeps(d, Do(d, act), buffer, d.stop)
        /\ Keeps(d, Do(d, "Done"), buffer, TRUE)
    BY <2>1, DoKeeps
  <2> QED
    BY <2>1, <2>2 DEF Keeps
<1>2. Keeps(r, r, buffer, r.stop)
  BY DEF Keeps
<1> HIDE DEF Quiet
<1>3. \A a \in Quiet : Keeps(r, Do(r, a), buffer, r.stop)
  BY <1>1, <1>2
<1>4. \A a \in Quiet, b \in Quiet : Keeps(r, Do(Do(r, a), b), buffer, r.stop)
  BY <1>1, <1>3
<1>5. \A a \in Quiet, b \in Quiet, e \in Quiet : Keeps(r, Do(Do(Do(r, a), b), e), buffer, r.stop)
  BY <1>1, <1>4
<1>6. /\ Keeps(r, Do(r, "Done"), buffer, TRUE)
      /\ \A a \in Quiet : Keeps(r, Do(Do(r, a), "Done"), buffer, TRUE)
  BY <1>1, <1>2, <1>3
<1>7. CASE acts \in Ending
  <2>1. {"StartField", "Xml", "Json"} \subseteq Quiet
    BY DEF Quiet
  <2>2. /\ Keeps(r, DoAll(r, <<"Done">>), buffer, TRUE)
        /\ Keeps(r, DoAll(r, <<"StartField", "Done">>), buffer, TRUE)
        /\ Keeps(r, DoAll(r, <<"Xml", "Done">>), buffer, TRUE)
        /\ Keeps(r, DoAll(r, <<"Json", "Done">>), buffer, TRUE)
    <3>1. /\ DoAll(r, <<"Done">>) = Do(r, "Done")
          /\ DoAll(r, <<"StartField", "Done">>) = Do(Do(r, "StartField"), "Done")
          /\ DoAll(r, <<"Xml", "Done">>) = Do(Do(r, "Xml"), "Done")
          /\ DoAll(r, <<"Json", "Done">>) = Do(Do(r, "Json"), "Done")
      BY ActsOfEdges, Zenon
    <3>2. "StartField" \in Quiet /\ "Xml" \in Quiet /\ "Json" \in Quiet
      BY <2>1
    <3> QED
      BY <1>6, <3>1, <3>2, Zenon
  <2>3. Keeps(r, DoAll(r, acts), buffer, TRUE)
    <3>1. acts \in { <<"Done">>, <<"StartField", "Done">>, <<"Xml", "Done">>, <<"Json", "Done">> }
      BY <1>7 DEF Ending
    <3> QED
      BY <2>2, <3>1, Zenon
  <2> QED
    BY <1>7, <2>3, Zenon
<1>8. CASE acts \notin Ending
  <2>1. Keeps(r, DoAll(r, acts), buffer, r.stop)
    <3>1. CASE acts \in {<<"Mark">>, <<"Method">>, <<"Path">>, <<"Fragment">>, <<"Version">>,
                         <<"WriteValue">>, <<"StartQuery">>, <<"StartField">>, <<"WriteField">>}
      BY <1>3, <3>1, ActsOfEdges DEF Quiet
    <3>2. CASE acts \in {<<"Mark", "Path">>, <<"Mark", "Fragment">>, <<"Mark", "WriteValue">>,
                         <<"Path", "Uri">>, <<"Query", "Uri">>}
      BY <1>4, <3>2, ActsOfEdges DEF Quiet
    <3>3. CASE acts \in {<<"Mark", "Path", "Uri">>, <<"StartQuery", "Query", "Uri">>}
      <4>1. /\ Keeps(r, Do(Do(Do(r, "Mark"), "Path"), "Uri"), buffer, r.stop)
            /\ Keeps(r, Do(Do(Do(r, "StartQuery"), "Query"), "Uri"), buffer, r.stop)
        <5>1. {"Mark", "Path", "Uri", "StartQuery", "Query"} \subseteq Quiet
          BY DEF Quiet
        <5> QED
          BY <1>5, <5>1
      <4> QED
        BY <3>3, <4>1, ActsOfEdges
    <3>4. CASE acts = <<>>
      BY <1>2, <3>4, ActsWrittenOut
    <3> QED
      BY <1>8, <3>1, <3>2, <3>3, <3>4 DEF Marking, Using, Rest
  <2> QED
    BY <1>8, <2>1, Zenon
<1> QED
  BY <1>7, <1>8

\* One character more, with an edge or into the error state.
Fail(r) == [r EXCEPT !.cs = <<"error">>, !.error = TRUE, !.stop = TRUE]
Go(r, e) == [DoAll(r, e.do) EXCEPT !.cs = e.to, !.p = DoAll(r, e.do).p + 1]

LEMMA StepGoes ==
  ASSUME NEW r, NEW x, ~r.stop
  PROVE  \/ Moves(r.cs, x) = {} /\ Step(r, x) = Fail(r)
         \/ \E e \in Moves(r.cs, x) : e = (CHOOSE d \in Moves(r.cs, x) : TRUE) /\ Step(r, x) = Go(r, e)
<1>1. CASE Moves(r.cs, x) = {}
  BY <1>1, Zenon DEF Step, Fail
<1>2. CASE Moves(r.cs, x) # {}
  <2> DEFINE e == CHOOSE d \in Moves(r.cs, x) : TRUE
  <2>1. e \in Moves(r.cs, x)
    BY <1>2
  <2>2. Step(r, x) = Go(r, e)
    BY <1>2, Zenon DEF Step, Go, DoAll
  <2> QED
    BY <2>1, <2>2
<1> QED
  BY <1>1, <1>2

LEMMA LiveAlongEdge ==
  ASSUME NEW s, NEW x, NEW e \in Moves(s, x), s = <<"line-cr">> => x = "LF"
  PROVE  /\ e.do \in Marking \cup Using \cup Ending \cup Rest
         /\ e.do \in Using => "mark" \in LiveAt(s)
         /\ e.do = <<"Query", "Uri">> => "query" \in LiveAt(s)
         /\ e.do = <<"WriteField">> => "field" \in LiveAt(s)
         /\ e.do \in {<<"WriteValue">>, <<"Mark", "WriteValue">>} => {"field", "length"} \subseteq LiveAt(s)
         /\ LiveAt(e.to) \subseteq LiveBehind(LiveAt(s), e.do)
         /\ e.to = <<"done">> <=> e.do \in Ending
<1>1. EdgeOK(e) /\ e.from = s /\ x \in e.on
  BY MovesOK
<1>2. LiveAt(<<"done">>) = {}
  <2>1. ~MarkLive(<<"done">>) /\ ~QueryLive(<<"done">>) /\ ~FieldLive(<<"done">>) /\ ~LengthLive(<<"done">>)
    BY DEF MarkLive, QueryLive, FieldLive, LengthLive, Base
  <2> QED
    BY <2>1 DEF LiveAt
<1>3. ASSUME s = <<"line-cr">> PROVE e.to = <<"done">>
  <2>1. e \in Table
    <3>1. Lit!Address(s, x, UserInfo) = {}
      <4>1. s[1] = "line-cr"
        BY <1>3
      <4> QED
        BY <4>1, Zenon DEF Lit!Address
    <3>2. e \in From[s] /\ s \in DOMAIN From
      BY <3>1 DEF Moves
    <3> QED
      BY <3>2 DEF From
  <2> QED
    BY <1>1, <1>3, <2>1, BlankLineOK
<1>4. LengthLive(s) => FieldLive(s) /\ s # <<"line-cr">>
  BY DEF LengthLive, FieldLive
<1>5. CASE e.to = <<"done">>
  <2>1. e.do \in Ending
    BY <1>1, <1>5 DEF EdgeOK
  <2>2. e.do \notin Using \cup Marking \cup Rest
    BY <2>1 DEF Ending, Using, Marking, Rest
  <2>3. LiveBehind(LiveAt(s), e.do) = {}
    BY <2>1 DEF LiveBehind
  <2>4. e.do \notin {<<"Query", "Uri">>, <<"WriteField">>, <<"WriteValue">>, <<"Mark", "WriteValue">>}
    BY <2>2 DEF Using, Marking, Rest
  <2> QED
    BY <1>2, <1>5, <2>1, <2>2, <2>3, <2>4
<1>6. CASE e.to # <<"done">>
  <2>1. e.do \notin Ending /\ s # <<"line-cr">>
    BY <1>1, <1>3, <1>6 DEF EdgeOK
  <2>2. /\ e.do \in Using \/ (MarkLive(e.to) /\ e.do \notin Marking) => "mark" \in LiveAt(s)
        /\ e.do = <<"Query", "Uri">> \/ (QueryLive(e.to) /\ e.do # <<"StartQuery">>) => "query" \in LiveAt(s)
        /\ e.do = <<"WriteField">> \/ (FieldLive(e.to) /\ e.do # <<"StartField">>) => "field" \in LiveAt(s)
        /\ \/ e.do \in { <<"WriteValue">>, <<"Mark", "WriteValue">> }
           \/ LengthLive(e.to) /\ e.do # <<"WriteField">>
           => "length" \in LiveAt(s)
        /\ "length" \in LiveAt(s) => "field" \in LiveAt(s)
    <3> HIDE DEF MarkLive, QueryLive, FieldLive, LengthLive
    <3>1. /\ MarkLive(s) => "mark" \in LiveAt(s)
          /\ QueryLive(s) => "query" \in LiveAt(s)
          /\ FieldLive(s) => "field" \in LiveAt(s)
          /\ LengthLive(s) => "length" \in LiveAt(s)
          /\ "length" \in LiveAt(s) => LengthLive(s)
      BY <2>1 DEF LiveAt
    <3> QED
      BY <1>1, <1>4, <3>1 DEF EdgeOK
  <2>3. LiveAt(e.to) \subseteq LiveBehind(LiveAt(s), e.do)
    <3>1. e.do = <<"StartField">> => ~LengthLive(e.to)
      BY <1>1 DEF EdgeOK
    <3>2. \A y \in LiveAt(e.to) :
             \/ y = "mark" /\ (e.do \in Marking \/ "mark" \in LiveAt(s))
             \/ y = "query" /\ (e.do = <<"StartQuery">> \/ "query" \in LiveAt(s))
             \/ y = "field" /\ (e.do = <<"StartField">> \/ "field" \in LiveAt(s))
             \/ y = "length" /\ e.do # <<"StartField">> /\ (e.do = <<"WriteField">> \/ "length" \in LiveAt(s))
      BY <2>2, <3>1 DEF LiveAt
    <3> HIDE DEF LiveAt
    <3> QED
      BY <2>1, <3>2 DEF LiveBehind
  <2>4. e.do \in Marking \cup Using \cup Ending \cup Rest
    BY <1>1 DEF EdgeOK
  <2> QED
    BY <1>6, <2>1, <2>2, <2>3, <2>4
<1> QED
  BY <1>5, <1>6

\* Where a run is: it has stopped behind a request or in front of an error, or it has parsed
\* all characters up to the i-th.
At(r, i) ==
    /\ r.stop \in BOOLEAN
    /\ r.stop => r.cs = <<"done">> \/ r.error
    /\ r.cs = <<"done">> => r.stop
    /\ r.p <= i
    /\ ~r.stop => r.p = i

(* The state, the error, the end and the position, set in both runs. *)
LEMMA FieldsLike ==
  ASSUME NEW text, NEW piece, NEW c, Shifted(text, piece, c),
         NEW r, NEW w, NEW live, Like(r, w, text, piece, c, live)
  PROVE  /\ \A v : /\ Like([r EXCEPT !.cs = v], [w EXCEPT !.cs = v], text, piece, c, live)
                   /\ Like([r EXCEPT !.error = v], [w EXCEPT !.error = v], text, piece, c, live)
                   /\ Like([r EXCEPT !.stop = v], [w EXCEPT !.stop = v], text, piece, c, live)
         /\ r.p + 1 <= Len(piece) =>
              Like([r EXCEPT !.p = r.p + 1], [w EXCEPT !.p = w.p + 1], text, piece, c, live)
<1>0. c \in Nat /\ Len(piece) \in Nat /\ Len(text) \in Nat /\ c + Len(piece) <= Len(text)
  BY DEF Shifted
<1>1. \A v : Like([r EXCEPT !.cs = v], [w EXCEPT !.cs = v], text, piece, c, live)
  BY DEF Like, IsRunOf
<1>2. \A v : Like([r EXCEPT !.error = v], [w EXCEPT !.error = v], text, piece, c, live)
  BY DEF Like, IsRunOf
<1>3. \A v : Like([r EXCEPT !.stop = v], [w EXCEPT !.stop = v], text, piece, c, live)
  BY DEF Like, IsRunOf
<1>4. ASSUME r.p + 1 <= Len(piece)
      PROVE  Like([r EXCEPT !.p = r.p + 1], [w EXCEPT !.p = w.p + 1], text, piece, c, live)
  <2>1. /\ r.p \in Nat /\ w.p = r.p + c
        /\ r.p + 1 \in 0..Len(piece) /\ w.p + 1 \in 0..Len(text) /\ w.p + 1 = r.p + 1 + c
    BY <1>0, <1>4 DEF Like, IsRunOf
  <2>2. \A m \in 0..Len(piece), n \in 0..Len(text) :
           n = m + c /\ r.p <= m => Like([r EXCEPT !.p = m], [w EXCEPT !.p = n], text, piece, c, live)
    <3> TAKE m \in 0..Len(piece), n \in 0..Len(text)
    <3> HAVE n = m + c /\ r.p <= m
    <3> DEFINE d == [r EXCEPT !.p = m]
               f == [w EXCEPT !.p = n]
    <3>1. /\ IsRunOf(d, piece) /\ d.p = m /\ d.cs = r.cs /\ d.error = r.error
          /\ d.undefined = r.undefined /\ d.request = r.request /\ d.stop = r.stop
          /\ d.mark = r.mark /\ d.queryStart = r.queryStart /\ d.fieldStart = r.fieldStart
          /\ d.fieldLen = r.fieldLen
      BY DEF Like, IsRunOf
    <3>2. /\ IsRunOf(f, text) /\ f.p = n /\ f.cs = w.cs /\ f.error = w.error
          /\ f.undefined = w.undefined /\ f.request = w.request /\ f.stop = w.stop
          /\ f.mark = w.mark /\ f.queryStart = w.queryStart /\ f.fieldStart = w.fieldStart
          /\ f.fieldLen = w.fieldLen
      BY DEF Like, IsRunOf
    <3> HIDE DEF d, f
    <3>3. /\ "mark" \in live => d.mark \in 0..d.p /\ f.mark = d.mark + c
          /\ "query" \in live => d.queryStart \in 0..d.p /\ f.queryStart = d.queryStart + c
      BY <1>0, <2>1, <3>1, <3>2, SMTT(20) DEF Like
    <3>4. /\ "field" \in live => d.fieldStart \in 0..d.p /\ f.fieldStart = d.fieldStart + c
          /\ "length" \in live =>
               /\ d.fieldStart \in Nat /\ d.fieldLen \in Nat /\ d.fieldStart + d.fieldLen <= d.p
               /\ f.fieldLen = d.fieldLen
      <4>1. "length" \in live => r.fieldStart + r.fieldLen <= m
        BY <1>0, <2>1, SMTT(20) DEF Like
      <4> QED
        BY <1>0, <2>1, <3>1, <3>2, <4>1 DEF Like
    <3>5. Like(d, f, text, piece, c, live)
      BY <3>1, <3>2, <3>3, <3>4 DEF Like
    <3> QED
      BY <3>5 DEF d, f
  <2> QED
    BY <2>1, <2>2
<1> QED
  BY <1>1, <1>2, <1>3, <1>4

(* One character more keeps the two runs alike. *)
LEMMA StepLike ==
  ASSUME NEW text, NEW piece, NEW c, Shifted(text, piece, c),
         NEW i \in 0..Len(piece) - 1, NEW x, NEW r, NEW w,
         Like(r, w, text, piece, c, LiveAt(r.cs)), At(r, i),
         ~r.stop => (r.cs = <<"line-cr">> => x = "LF")
  PROVE  /\ Like(Step(r, x), Step(w, x), text, piece, c, LiveAt(Step(r, x).cs))
         /\ At(Step(r, x), i + 1)
<1>0. /\ c \in Nat /\ Len(piece) \in Nat /\ Len(text) \in Nat /\ c + Len(piece) <= Len(text)
      /\ i \in Nat /\ i + 1 <= Len(piece)
  BY DEF Shifted
<1>1. /\ w.cs = r.cs /\ w.stop = r.stop /\ IsRunOf(r, piece) /\ IsRunOf(w, text)
      /\ r.p \in Nat /\ w.p = r.p + c
  BY <1>0 DEF Like, IsRunOf
<1>2. CASE r.stop
  <2>1. Step(r, x) = r /\ Step(w, x) = w
    BY <1>1, <1>2 DEF Step
  <2>2. At(r, i + 1)
    BY <1>0, <1>1, <1>2 DEF At
  <2> QED
    BY <2>1, <2>2
<1>3. CASE ~r.stop /\ Moves(r.cs, x) = {}
  <2>1. Step(r, x) = Fail(r) /\ Step(w, x) = Fail(w)
    BY <1>1, <1>3, StepGoes
  <2>2. LiveAt(<<"error">>) = {}
    <3>1. ~MarkLive(<<"error">>) /\ ~QueryLive(<<"error">>) /\ ~FieldLive(<<"error">>) /\ ~LengthLive(<<"error">>)
      BY DEF MarkLive, QueryLive, FieldLive, LengthLive, Base
    <3> QED
      BY <3>1 DEF LiveAt
  <2>3. \A q : Fail(q) = [[[q EXCEPT !.cs = <<"error">>] EXCEPT !.error = TRUE] EXCEPT !.stop = TRUE]
    BY DEF Fail
  <2>4. Like(Fail(r), Fail(w), text, piece, c, {})
    <3>1. Like(r, w, text, piece, c, {})
      BY FewerLive
    <3> DEFINE r1 == [r EXCEPT !.cs = <<"error">>]
               w1 == [w EXCEPT !.cs = <<"error">>]
               r2 == [r1 EXCEPT !.error = TRUE]
               w2 == [w1 EXCEPT !.error = TRUE]
    <3>2. Like(r1, w1, text, piece, c, {})
      BY <3>1, FieldsLike
    <3> HIDE DEF r1, w1
    <3>3. Like(r2, w2, text, piece, c, {})
      BY <3>2, FieldsLike, Zenon
    <3> HIDE DEF r2, w2
    <3>4. Like([r2 EXCEPT !.stop = TRUE], [w2 EXCEPT !.stop = TRUE], text, piece, c, {})
      BY <3>3, FieldsLike, Zenon
    <3> QED
      BY <2>3, <3>4, Zenon DEF r1, w1, r2, w2
  <2>5. /\ Fail(r).cs = <<"error">> /\ Fail(r).p = r.p
        /\ Fail(r).error = TRUE /\ Fail(r).stop = TRUE
    BY <1>1 DEF IsRunOf, Fail
  <2>6. At(Fail(r), i + 1)
    <3>1. r.p <= i + 1
      BY <1>0, <1>1 DEF At
    <3> QED
      BY <2>5, <3>1 DEF At
  <2> QED
    BY <2>1, <2>2, <2>4, <2>5, <2>6
<1>4. CASE ~r.stop /\ Moves(r.cs, x) # {}
  <2>1. PICK e \in Moves(r.cs, x) : e = (CHOOSE d \in Moves(r.cs, x) : TRUE) /\ Step(r, x) = Go(r, e)
    BY <1>4, StepGoes
  <2>2. Step(w, x) = Go(w, e)
    BY <1>1, <1>4, <2>1, StepGoes
  <2> DEFINE live == LiveAt(r.cs)
             d == DoAll(r, e.do)
             f == DoAll(w, e.do)
  <2>3. /\ e.do \in Marking \cup Using \cup Ending \cup Rest
        /\ e.do \in Using => "mark" \in live
        /\ e.do = <<"Query", "Uri">> => "query" \in live
        /\ e.do = <<"WriteField">> => "field" \in live
        /\ e.do \in {<<"WriteValue">>, <<"Mark", "WriteValue">>} => {"field", "length"} \subseteq live
        /\ LiveAt(e.to) \subseteq LiveBehind(live, e.do)
        /\ e.to = <<"done">> <=> e.do \in Ending
    BY <1>4, LiveAlongEdge
  <2>4. Like(d, f, text, piece, c, LiveAt(e.to))
    <3> HIDE DEF live, d, f
    <3>1. Like(r, w, text, piece, c, live)
      BY DEF live
    <3>2. Like(d, f, text, piece, c, LiveBehind(live, e.do))
      BY <2>3, <3>1, ActsLike DEF d, f
    <3> QED
      BY <2>3, <3>2, FewerLive
  <2>5. /\ d.p = r.p /\ d.stop = (IF e.do \in Ending THEN TRUE ELSE r.stop)
    BY <1>1, <2>3, DoAllKeeps DEF Keeps
  <2> HIDE DEF d, f
  <2>6. r.p = i /\ r.p + 1 \in 0..Len(piece) /\ d.p + 1 + c = f.p + 1 /\ f.p + 1 \in 0..Len(text)
    <3>1. r.p = i
      BY <1>4 DEF At
    <3>2. f.p = d.p + c
      BY <2>4 DEF Like
    <3> QED
      BY <1>0, <1>1, <2>5, <3>1, <3>2
  <2>7. Go(r, e) = [d EXCEPT !.cs = e.to, !.p = d.p + 1] /\ Go(w, e) = [f EXCEPT !.cs = e.to, !.p = f.p + 1]
    BY Zenon DEF Go, d, f
  <2>8. Like(Go(r, e), Go(w, e), text, piece, c, LiveAt(e.to))
    <3> DEFINE live1 == LiveAt(e.to)
    <3> HIDE DEF live1
    <3>1. Like(d, f, text, piece, c, live1)
      BY <2>4 DEF live1
    <3>2. \A q : [q EXCEPT !.cs = e.to, !.p = q.p + 1]
                = [[q EXCEPT !.cs = e.to] EXCEPT !.p = [q EXCEPT !.cs = e.to].p + 1]
      OBVIOUS
    <3> DEFINE d1 == [d EXCEPT !.cs = e.to]
               f1 == [f EXCEPT !.cs = e.to]
    <3>6. Like(d1, f1, text, piece, c, live1)
      BY <3>1, FieldsLike
    <3>7. d1.p = d.p
      BY <3>1 DEF Like, IsRunOf
    <3> HIDE DEF d1, f1
    <3>4. Like([d1 EXCEPT !.p = d1.p + 1], [f1 EXCEPT !.p = f1.p + 1], text, piece, c, live1)
      BY <1>0, <2>5, <2>6, <3>6, <3>7, FieldsLike
    <3>5. Like(Go(r, e), Go(w, e), text, piece, c, live1)
      BY <2>7, <3>2, <3>4 DEF d1, f1
    <3> QED
      BY <3>5 DEF live1
  <2>9. Go(r, e).cs = e.to /\ Go(r, e).p = i + 1 /\ Go(r, e).stop = d.stop
    <3>1. IsRunOf(d, piece)
      BY <2>4 DEF Like
    <3> QED
      BY <2>5, <2>6, <2>7, <3>1 DEF IsRunOf
  <2>10. At(Go(r, e), i + 1)
    <3>1. d.stop <=> e.to = <<"done">>
      BY <1>4, <2>3, <2>5
    <3>2. d.stop \in BOOLEAN
      BY <2>5 DEF At
    <3> QED
      BY <1>0, <2>9, <3>1, <3>2 DEF At
  <2> QED
    BY <2>1, <2>2, <2>8, <2>9, <2>10
<1> QED
  BY <1>2, <1>3, <1>4

-----------------------------------------------------------------------------

\* f goes through the run of execute() on buffer with the parser ps.
IsChain(f, ps, buffer) ==
    /\ f[0] = Begin(ps, buffer)
    /\ \A i \in 1..Len(buffer) : f[i] = Step(f[i - 1], buffer[i])

\* An LF follows where the text is behind the CR of a blank line.
BlankLines(f, text, i) == ~f[i].stop /\ f[i].cs = <<"line-cr">> => text[i + 1] = "LF"

LEMMA PieceRuns ==
  ASSUME NEW text, NEW piece, NEW c, Shifted(text, piece, c),
         NEW f, \A i \in 1..Len(text) : f[i] = Step(f[i - 1], text[i]),
         NEW ps, NEW g, IsChain(g, ps, piece),
         Like(g[0], f[c], text, piece, c, LiveAt(g[0].cs)), At(g[0], 0),
         \A i \in c..c + Len(piece) - 1 : BlankLines(f, text, i)
  PROVE  \A j \in 0..Len(piece) : Like(g[j], f[c + j], text, piece, c, LiveAt(g[j].cs)) /\ At(g[j], j)
<1> DEFINE OK(j) == Like(g[j], f[c + j], text, piece, c, LiveAt(g[j].cs)) /\ At(g[j], j)
           Bad == { j \in 0..Len(piece) : ~OK(j) }
<1>0. /\ c \in Nat /\ Len(piece) \in Nat /\ Len(text) \in Nat /\ c + Len(piece) <= Len(text)
      /\ \A j \in 1..Len(piece) : piece[j] = text[c + j]
  BY DEF Shifted
<1>1. SUFFICES ASSUME Bad # {} PROVE FALSE
  OBVIOUS
<1>2. PICK n \in Bad : \A k \in Bad : n <= k
  <2>1. Bad \in SUBSET Nat
    BY <1>0
  <2> HIDE DEF Bad
  <2> QED
    BY <1>1, <2>1, FirstPosition
<1>3. n # 0
  <2>1. c + 0 = c
    BY <1>0
  <2>2. OK(0)
    BY <2>1
  <2> QED
    BY <1>2, <2>2
<1>4. n - 1 \in 0..Len(piece) - 1 /\ n \in 1..Len(piece) /\ OK(n - 1)
  <2>1. n \in 1..Len(piece) /\ n - 1 \in 0..Len(piece) - 1 /\ n - 1 \in 0..Len(piece) /\ ~(n <= n - 1)
    BY <1>0, <1>2, <1>3
  <2>2. n - 1 \notin Bad
    BY <1>2, <2>1
  <2> QED
    BY <2>1, <2>2
<1>5. g[n] = Step(g[n - 1], piece[n]) /\ f[c + n] = Step(f[c + (n - 1)], piece[n])
  <2>1. c + n \in 1..Len(text) /\ c + n - 1 = c + (n - 1)
    BY <1>0, <1>4
  <2>2. f[c + n] = Step(f[c + (n - 1)], text[c + n]) /\ text[c + n] = piece[n]
    BY <1>0, <1>4, <2>1
  <2> QED
    BY <1>4, <2>2 DEF IsChain
<1>6. ~g[n - 1].stop => (g[n - 1].cs = <<"line-cr">> => piece[n] = "LF")
  <2>1. c + (n - 1) \in c..c + Len(piece) - 1 /\ c + (n - 1) + 1 = c + n
    BY <1>0, <1>4
  <2>2. BlankLines(f, text, c + (n - 1))
    BY <2>1
  <2>3. f[c + (n - 1)].cs = g[n - 1].cs /\ f[c + (n - 1)].stop = g[n - 1].stop
    BY <1>4 DEF Like
  <2>4. text[c + n] = piece[n]
    BY <1>0, <1>4
  <2> QED
    BY <2>1, <2>2, <2>3, <2>4 DEF BlankLines
<1>7. OK(n)
  <2> DEFINE r == g[n - 1]
             w == f[c + (n - 1)]
             k == n - 1
  <2>1. Like(r, w, text, piece, c, LiveAt(r.cs)) /\ At(r, k) /\ k \in 0..Len(piece) - 1
    BY <1>4
  <2>2. ~r.stop => (r.cs = <<"line-cr">> => piece[n] = "LF")
    BY <1>6
  <2>3. k + 1 = n
    BY <1>0, <1>4
  <2> HIDE DEF r, w, k
  <2>4. /\ Like(Step(r, piece[n]), Step(w, piece[n]), text, piece, c, LiveAt(Step(r, piece[n]).cs))
        /\ At(Step(r, piece[n]), k + 1)
    BY <2>1, <2>2, StepLike
  <2> QED
    BY <1>5, <2>3, <2>4 DEF r, w
<1> QED
  BY <1>2, <1>7

\* What a new parser makes of the first i characters.
NewRun(text, i) == Execute(HttpRequestParserNew, SubSeq(text, 1, i))

\* No line of the text begins with a CR that is not part of a line end.
BlankLinesEnd(text) ==
    \A i \in 1..Len(text) - 1 : NewRun(text, i).cs = <<"line-cr">> => text[i + 1] = "LF"

LEMMA PrefixShifted ==
  ASSUME NEW text \in Seq(Char), NEW i \in 0..Len(text)
  PROVE  /\ Shifted(text, SubSeq(text, 1, i), 0)
         /\ Len(SubSeq(text, 1, i)) = i
<1> DEFINE u == SubSeq(text, 1, i)
<1>1. Len(text) \in Nat /\ i \in Nat /\ i <= Len(text) /\ \A j \in 1..i : text[j] \in Char
  OBVIOUS
<1>2. u \in Seq(Char) /\ Len(u) = i /\ \A j \in 1..i : u[j] = text[j]
  <2>1. /\ u \in Seq(Char) /\ Len(u) = IF 1 <= i THEN i - 1 + 1 ELSE 0
        /\ \A j \in 1..i - 1 + 1 : u[j] = text[1 + j - 1]
    BY <1>1, SubSeqProperties
  <2> HIDE DEF u
  <2> QED
    BY <1>1, <2>1
<1> HIDE DEF u
<1>3. Shifted(text, u, 0)
  BY <1>1, <1>2 DEF Shifted
<1> QED
  BY <1>2, <1>3 DEF u

(* The run on a text that begins with a new parser. *)
LEMMA BeginLike ==
  ASSUME NEW text, NEW piece, NEW c, Shifted(text, piece, c), c = 0
  PROVE  LET b == Begin(HttpRequestParserNew, piece)
             e == Begin(HttpRequestParserNew, text)
         IN Like(b, e, text, piece, c, LiveAt(b.cs)) /\ At(b, 0)
<1>1. Len(piece) \in Nat /\ Len(text) \in Nat
  BY DEF Shifted
<1>2. LiveAt(<<"start">>) = {}
  <2>1. ~MarkLive(<<"start">>) /\ ~QueryLive(<<"start">>) /\ ~FieldLive(<<"start">>) /\ ~LengthLive(<<"start">>)
    BY DEF MarkLive, QueryLive, FieldLive, LengthLive, Base
  <2> QED
    BY <2>1 DEF LiveAt
<1> DEFINE b == Begin(HttpRequestParserNew, piece)
           e == Begin(HttpRequestParserNew, text)
<1>3. /\ b.cs = <<"start">> /\ b.stop = FALSE /\ b.p = 0
      /\ <<"start">> # <<"done">>
  BY DEF Begin, HttpRequestParserNew
<1>4. IsRunOf(b, piece) /\ IsRunOf(e, text)
  BY <1>1 DEF IsRunOf, IsRequest, Begin, HttpRequestParserNew
<1>5. /\ e.p = b.p /\ e.cs = b.cs /\ e.error = b.error /\ e.undefined = b.undefined
      /\ e.request = b.request /\ e.stop = b.stop
  BY DEF Begin
<1> HIDE DEF b, e
<1>6. Like(b, e, text, piece, c, {})
  BY <1>3, <1>4, <1>5 DEF Like
<1>7. At(b, 0)
  <2>1. b.stop \in BOOLEAN /\ ~b.stop
    BY <1>3, Zenon
  <2>2. b.cs # <<"done">> /\ b.p <= 0
    BY <1>3
  <2> QED
    BY <1>3, <2>1, <2>2 DEF At
<1> QED
  BY <1>2, <1>3, <1>6, <1>7 DEF b, e

LEMMA WholeRun ==
  ASSUME NEW text \in Seq(Char), BlankLinesEnd(text)
  PROVE  \E f : /\ IsChain(f, HttpRequestParserNew, text)
                /\ Execute(HttpRequestParserNew, text) = f[Len(text)]
                /\ \A i \in 0..Len(text) - 1 : BlankLines(f, text, i)
                /\ \A i \in 0..Len(text) :
                     /\ Like(NewRun(text, i), f[i], text, SubSeq(text, 1, i), 0, LiveAt(f[i].cs))
                     /\ At(NewRun(text, i), i)
<1>0. Len(text) \in Nat
  OBVIOUS
<1>1. PICK f : IsChain(f, HttpRequestParserNew, text) /\ Execute(HttpRequestParserNew, text) = f[Len(text)]
  BY ExecuteSteps DEF IsChain
<1>2. ASSUME NEW i \in 0..Len(text), \A k \in 0..i - 1 : BlankLines(f, text, k)
      PROVE  /\ Like(NewRun(text, i), f[i], text, SubSeq(text, 1, i), 0, LiveAt(f[i].cs))
             /\ At(NewRun(text, i), i)
  <2> DEFINE piece == SubSeq(text, 1, i)
  <2>1. Shifted(text, piece, 0) /\ Len(piece) = i /\ i \in Nat
    BY <1>0, PrefixShifted
  <2>2. piece \in Seq(Char)
    BY <2>1 DEF Shifted
  <2> HIDE DEF piece
  <2>3. PICK g : IsChain(g, HttpRequestParserNew, piece) /\ Execute(HttpRequestParserNew, piece) = g[Len(piece)]
    BY <2>2, ExecuteSteps DEF IsChain
  <2>4. g[0] = Begin(HttpRequestParserNew, piece) /\ f[0] = Begin(HttpRequestParserNew, text)
    BY <1>1, <2>3 DEF IsChain
  <2>5. Like(g[0], f[0], text, piece, 0, LiveAt(g[0].cs)) /\ At(g[0], 0)
    BY <2>1, <2>4, BeginLike
  <2>6. \A k \in 0..0 + Len(piece) - 1 : BlankLines(f, text, k)
    BY <1>2, <2>1
  <2>7. \A k \in 1..Len(text) : f[k] = Step(f[k - 1], text[k])
    BY <1>1 DEF IsChain
  <2>8. \A j \in 0..Len(piece) : Like(g[j], f[0 + j], text, piece, 0, LiveAt(g[j].cs)) /\ At(g[j], j)
    BY <2>1, <2>3, <2>5, <2>6, <2>7, PieceRuns
  <2>9. Like(g[i], f[i], text, piece, 0, LiveAt(g[i].cs)) /\ At(g[i], i)
    <3>1. i \in 0..Len(piece) /\ 0 + i = i
      BY <2>1
    <3> QED
      BY <2>8, <3>1
  <2>10. g[i] = NewRun(text, i) /\ g[i].cs = f[i].cs
    BY <2>1, <2>3, <2>9 DEF NewRun, piece, Like
  <2> QED
    BY <2>9, <2>10 DEF piece
<1>3. \A i \in 0..Len(text) - 1 : BlankLines(f, text, i)
  <2> DEFINE Bad == { i \in 0..Len(text) - 1 : ~BlankLines(f, text, i) }
  <2>1. SUFFICES ASSUME Bad # {} PROVE FALSE
    OBVIOUS
  <2>2. PICK n \in Bad : \A k \in Bad : n <= k
    <3>1. Bad \in SUBSET Nat
      BY <1>0
    <3> HIDE DEF Bad
    <3> QED
      BY <2>1, <3>1, FirstPosition
  <2>3. n \in 0..Len(text) - 1 /\ ~BlankLines(f, text, n)
    BY <2>2
  <2>4. \A k \in 0..n - 1 : BlankLines(f, text, k)
    <3> TAKE k \in 0..n - 1
    <3>1. k \in 0..Len(text) - 1 /\ ~(n <= k)
      BY <1>0, <2>3
    <3>2. k \notin Bad
      BY <2>2, <3>1
    <3> QED
      BY <3>1, <3>2
  <2>5. Like(NewRun(text, n), f[n], text, SubSeq(text, 1, n), 0, LiveAt(f[n].cs))
    <3>1. n \in 0..Len(text)
      BY <1>0, <2>3
    <3> QED
      BY <1>2, <2>4, <3>1
  <2>6. NewRun(text, n).cs = f[n].cs
    BY <2>5 DEF Like
  <2>7. n # 0
    <3>1. f[0].cs = <<"start">>
      BY <1>1 DEF IsChain, Begin, HttpRequestParserNew
    <3>2. BlankLines(f, text, 0)
      BY <3>1 DEF BlankLines
    <3> QED
      BY <2>3, <3>2
  <2>8. n \in 1..Len(text) - 1
    BY <1>0, <2>3, <2>7
  <2>9. f[n].cs = <<"line-cr">> => text[n + 1] = "LF"
    BY <2>6, <2>8 DEF BlankLinesEnd
  <2> QED
    BY <2>3, <2>9 DEF BlankLines
<1>4. \A i \in 0..Len(text) :
         /\ Like(NewRun(text, i), f[i], text, SubSeq(text, 1, i), 0, LiveAt(f[i].cs))
         /\ At(NewRun(text, i), i)
  <2> TAKE i \in 0..Len(text)
  <2>1. \A k \in 0..i - 1 : BlankLines(f, text, k)
    BY <1>0, <1>3
  <2> QED
    BY <1>2, <2>1
<1> QED
  BY <1>1, <1>3, <1>4

(* Between two tokens nothing is live. *)
LEMMA NothingLive ==
  ASSUME NEW s, BetweenTokens(s)
  PROVE  LiveAt(s) = {}
<1>1. \A x \in {"start", "query0", "frag0", "cr", "line", "done"} :
         ~MarkLive(<<x>>) /\ ~QueryLive(<<x>>) /\ ~FieldLive(<<x>>) /\ ~LengthLive(<<x>>)
  BY DEF MarkLive, QueryLive, FieldLive, LengthLive, Base
<1>2. /\ ~MarkLive(<<"target", "uri">>) /\ ~QueryLive(<<"target", "uri">>)
      /\ ~FieldLive(<<"target", "uri">>) /\ ~LengthLive(<<"target", "uri">>)
  BY DEF MarkLive, QueryLive, FieldLive, LengthLive, Base
<1>3. /\ ~MarkLive(<<"version", 0>>) /\ ~QueryLive(<<"version", 0>>)
      /\ ~FieldLive(<<"version", 0>>) /\ ~LengthLive(<<"version", 0>>)
  BY DEF MarkLive, QueryLive, FieldLive, LengthLive, Base
<1>4. ~MarkLive(<<"line-cr">>) /\ ~QueryLive(<<"line-cr">>) /\ ~LengthLive(<<"line-cr">>)
  BY DEF MarkLive, QueryLive, LengthLive, Base
<1>5. CASE s # <<"line-cr">>
  <2>1. ~MarkLive(s) /\ ~QueryLive(s) /\ ~FieldLive(s) /\ ~LengthLive(s)
    BY <1>1, <1>2, <1>3, <1>5 DEF BetweenTokens
  <2> QED
    BY <2>1 DEF LiveAt
<1>6. CASE s = <<"line-cr">>
  BY <1>4, <1>6 DEF LiveAt
<1> QED
  BY <1>5, <1>6

\* What a parser has to be to go on like another, whatever it remembers of its buffer.
SameParser(a, b) == a.cs = b.cs /\ a.error = b.error /\ a.undefined = b.undefined /\ a.request = b.request

(* A request that is cut into pieces between its tokens is parsed as if it had come in one. *)
LEMMA PieceByPiece ==
  ASSUME NEW text \in Seq(Char), BlankLinesEnd(text), NEW piece, NEW c, Shifted(text, piece, c),
         NEW ps, SameParser(ps, NewRun(text, c)), ps.cs # <<"done">>, ~ps.error, BetweenTokens(ps.cs)
  PROVE  LET r == Execute(ps, piece)
             whole == Execute(HttpRequestParserNew, text)
         IN /\ IsRunOf(r, piece)
            /\ SameParser(r, NewRun(text, c + Len(piece)))
            /\ r.cs = <<"done">> => SameParser(r, whole) /\ whole.p = r.p + c
<1> DEFINE n == Len(piece)
           r == Execute(ps, piece)
           w == NewRun(text, c)
<1>0. n \in Nat /\ Len(text) \in Nat /\ c \in Nat /\ c + n <= Len(text) /\ piece \in Seq(Char)
  BY DEF Shifted
<1>1. PICK f : /\ IsChain(f, HttpRequestParserNew, text)
               /\ Execute(HttpRequestParserNew, text) = f[Len(text)]
               /\ \A i \in 0..Len(text) - 1 : BlankLines(f, text, i)
               /\ \A i \in 0..Len(text) :
                    /\ Like(NewRun(text, i), f[i], text, SubSeq(text, 1, i), 0, LiveAt(f[i].cs))
                    /\ At(NewRun(text, i), i)
  BY WholeRun
<1>2. PICK g : IsChain(g, ps, piece) /\ r = g[n]
  BY <1>0, ExecuteSteps DEF IsChain
<1>3. c \in 0..Len(text) /\ c + n \in 0..Len(text)
  BY <1>0
<1> HIDE DEF r
<1>4. Like(w, f[c], text, SubSeq(text, 1, c), 0, LiveAt(f[c].cs)) /\ At(w, c)
  BY <1>1, <1>3
<1> DEFINE b == Begin(ps, piece)
<1>5. /\ b.cs = ps.cs /\ b.error = ps.error /\ b.undefined = ps.undefined /\ b.request = ps.request
      /\ b.stop = FALSE /\ b.p = 0 /\ b.buf = piece
  BY DEF Begin
<1>6. w.stop = FALSE /\ w.p = c
  <2>1. w.stop \in BOOLEAN /\ ~w.stop
    BY <1>4 DEF At, SameParser
  <2>2. w.stop = FALSE
    BY <2>1, Zenon
  <2>3. w.p = c
    BY <1>4, <2>1 DEF At
  <2> QED
    BY <2>2, <2>3
<1> HIDE DEF w
<1>7. /\ f[c].p = c /\ f[c].stop = w.stop /\ f[c].cs = ps.cs /\ f[c].error = ps.error
      /\ f[c].undefined = ps.undefined /\ f[c].request = ps.request
      /\ IsRunOf(f[c], text) /\ IsRequest(ps.request)
  <2>1. /\ f[c].p = w.p + 0 /\ f[c].stop = w.stop /\ f[c].cs = w.cs /\ f[c].error = w.error
        /\ f[c].undefined = w.undefined /\ f[c].request = w.request /\ IsRunOf(f[c], text)
    BY <1>4 DEF Like
  <2>2. IsRequest(f[c].request)
    BY <2>1 DEF IsRunOf
  <2>3. ps.cs = w.cs /\ ps.error = w.error /\ ps.undefined = w.undefined /\ ps.request = w.request
    BY DEF SameParser, w
  <2> QED
    BY <1>0, <1>6, <2>1, <2>2, <2>3
<1>8. Like(b, f[c], text, piece, c, LiveAt(b.cs)) /\ At(b, 0)
  <2>1. IsRunOf(b, piece)
    BY <1>0, <1>7 DEF IsRunOf, Begin
  <2> HIDE DEF b
  <2>2. Like(b, f[c], text, piece, c, {})
    <3>1. f[c].stop = b.stop
      BY <1>5, <1>6, <1>7, Zenon
    <3>2. f[c].p = b.p + c
      BY <1>0, <1>5, <1>7
    <3> QED
      BY <1>5, <1>7, <2>1, <3>1, <3>2 DEF Like
  <2>3. LiveAt(b.cs) = {}
    BY <1>5, NothingLive
  <2>4. At(b, 0)
    <3>1. b.stop \in BOOLEAN /\ ~b.stop
      BY <1>5, Zenon
    <3>2. b.cs # <<"done">> /\ b.p = 0 /\ b.p <= 0
      BY <1>5
    <3> QED
      BY <3>1, <3>2 DEF At
  <2> QED
    BY <2>2, <2>3, <2>4
<1>9. Like(r, f[c + n], text, piece, c, LiveAt(r.cs)) /\ At(r, n)
  <2>1. g[0] = b
    BY <1>2 DEF IsChain
  <2>2. \A i \in c..c + n - 1 : BlankLines(f, text, i)
    BY <1>0, <1>1
  <2>3. \A i \in 1..Len(text) : f[i] = Step(f[i - 1], text[i])
    BY <1>1 DEF IsChain
  <2> HIDE DEF b
  <2>4. \A j \in 0..n : Like(g[j], f[c + j], text, piece, c, LiveAt(g[j].cs)) /\ At(g[j], j)
    BY <1>2, <1>8, <2>1, <2>2, <2>3, PieceRuns
  <2> QED
    BY <1>0, <1>2, <2>4
<1>10. IsRunOf(r, piece) /\ SameParser(r, f[c + n]) /\ f[c + n].p = r.p + c /\ f[c + n].stop = r.stop
  BY <1>9 DEF Like, SameParser
<1>11. SameParser(r, NewRun(text, c + n))
  <2>1. SameParser(NewRun(text, c + n), f[c + n])
    BY <1>1, <1>3 DEF Like, SameParser
  <2> QED
    BY <1>10, <2>1 DEF SameParser
<1>12. ASSUME r.cs = <<"done">>
       PROVE  f[Len(text)] = f[c + n]
  <2> DEFINE m == c + n
             Bad == { i \in m..Len(text) : f[i] # f[m] }
  <2>1. m \in Nat /\ m <= Len(text)
    BY <1>0
  <2>2. f[m].stop
    BY <1>9, <1>10, <1>12 DEF At
  <2>3. \A i \in 1..Len(text) : f[i] = Step(f[i - 1], text[i])
    BY <1>1 DEF IsChain
  <2> HIDE DEF m
  <2>4. ASSUME Bad # {}
        PROVE  FALSE
    <3>1. Bad \in SUBSET Nat
      BY <1>0, <2>1
    <3>2. PICK k \in Bad : \A i \in Bad : k <= i
      <4> HIDE DEF Bad
      <4> QED
        BY <2>4, <3>1, FirstPosition
    <3>3. k \in m..Len(text) /\ f[k] # f[m]
      BY <3>2
    <3>4. k # m
      BY <3>3
    <3>5. k - 1 \in m..Len(text) /\ ~(k <= k - 1) /\ k \in 1..Len(text)
      BY <1>0, <2>1, <3>3, <3>4
    <3>6. k - 1 \notin Bad
      BY <3>2, <3>5
    <3>7. f[k - 1] = f[m]
      BY <3>5, <3>6
    <3>8. f[k] = Step(f[k - 1], text[k])
      BY <2>3, <3>5
    <3>9. f[k] = f[m]
      BY <2>2, <3>7, <3>8, Zenon DEF Step
    <3> QED
      BY <3>3, <3>9
  <2>5. Len(text) \in m..Len(text)
    BY <1>0, <2>1
  <2>6. f[Len(text)] = f[m]
    BY <2>4, <2>5
  <2> QED
    BY <2>6 DEF m
<1> QED
  BY <1>1, <1>10, <1>11, <1>12 DEF r

-----------------------------------------------------------------------------

(***************************************************************************)
(* The inductive invariant of a connection whose reads all ended between   *)
(* two tokens and that has lost nothing.                                   *)
(***************************************************************************)

\* The request that is being received, and its body.
Current == Len(handled) + 1
Request == plan[Current]
Body == AsSent(Request).body

\* What was sent of it and of those behind it, and how much of that was read.
Sent == Texts(plan, Current, nsent)
Gone == Len(Sent) - Len(stream)

\* The parser is where it would be if it had read all of this in one piece.
Receiving ==
    /\ SameParser(parser, NewRun(Texts(plan, Current, Len(plan)), Gone))
    /\ parser.cs # <<"done">> /\ ~parser.error /\ BetweenTokens(parser.cs)

\* The request is understood, and all but the last missing characters of it were read.
Understood(missing) ==
    /\ Current <= nsent /\ Request.ok
    /\ Gone = Len(RequestText(Request)) - missing
    /\ parser = Parser(parser) /\ IsRequest(parser.request)
    /\ [parser.request EXCEPT !.body = Body] = AsSent(Request)
    /\ parser.request.body = SubSeq(Body, 1, Len(Body) - missing)

Found == {"servlet", "glob", "notFound"}

InStep ==
    /\ handled \in Seq({ AsSent(plan[i]) : i \in DOMAIN plan })
    /\ responses \in Seq([servlet : Found, close : BOOLEAN])
    /\ Len(responses) = Len(handled) /\ Len(handled) <= nsent
    /\ ~pipelined => nsent <= Len(responses) + 1
    /\ HandledAsSent
    /\ phase \in {"recv", "body", "handle"} => Shifted(Sent, stream, Gone)
    /\ phase = "recv" => Receiving
    /\ phase = "body" => left \in 1..Len(Body) /\ Understood(left)
    /\ phase = "handle" => Understood(0)

SessionInv ==
    /\ plan \in Plans /\ nsent \in 0..Len(plan)
    /\ {pipelined, torn, lost} \subseteq BOOLEAN
    /\ LostOnlyWhenPipelined
    /\ ~torn /\ ~lost => InStep

\* Every request is a sequence of characters.
Writable(requests) ==
    /\ Len(requests) \in Nat /\ DOMAIN requests = 1..Len(requests)
    /\ \A i \in 1..Len(requests) : RequestText(requests[i]) \in Seq(Char)

\* The requests from the k-th to the m-th, one by one.
Written(requests, k, m) == [i \in 1..m - k + 1 |-> RequestText(requests[k + i - 1])]

LEMMA WrittenType ==
  ASSUME NEW requests, Writable(requests), NEW k \in Nat \ {0}, NEW m \in Nat,
         k <= m + 1, m <= Len(requests)
  PROVE  /\ Written(requests, k, m) \in Seq(Seq(Char)) /\ Len(Written(requests, k, m)) = m - k + 1
         /\ Texts(requests, k, m) = FlattenSeq(Written(requests, k, m))
         /\ Texts(requests, k, m) \in Seq(Char)
<1> DEFINE text(i) == RequestText(requests[k + i - 1])
           n == m - k + 1
           w == [i \in 1..n |-> text(i)]
<1>1. n \in Nat /\ \A i \in 1..n : k + i - 1 \in 1..Len(requests)
  BY DEF Writable
<1>2. \A i \in 1..n : text(i) \in Seq(Char)
  BY <1>1 DEF Writable
<1>3. w \in Seq(Seq(Char)) /\ Len(w) = n
  <2> HIDE DEF text, n
  <2> QED
    BY <1>1, <1>2
<1>4. Written(requests, k, m) = w /\ Texts(requests, k, m) = FlattenSeq(w)
  BY DEF Written, Texts
<1> QED
  BY <1>3, <1>4, FlattenType

(* Another request behind them. *)
LEMMA TextsAppend ==
  ASSUME NEW requests, Writable(requests), NEW k \in Nat \ {0}, NEW m \in Nat,
         k <= m + 1, m < Len(requests)
  PROVE  Texts(requests, k, m + 1) = Texts(requests, k, m) \o RequestText(requests[m + 1])
<1> DEFINE w == Written(requests, k, m)
           u == Written(requests, k, m + 1)
           e == RequestText(requests[m + 1])
<1>1. Len(requests) \in Nat /\ m + 1 \in 1..Len(requests) /\ e \in Seq(Char)
  BY DEF Writable
<1>2. w \in Seq(Seq(Char)) /\ Len(w) = m - k + 1 /\ Texts(requests, k, m) = FlattenSeq(w)
  <2>1. m <= Len(requests)
    BY <1>1
  <2> QED
    BY <2>1, WrittenType, Zenon
<1>3. u \in Seq(Seq(Char)) /\ Len(u) = m - k + 2 /\ Texts(requests, k, m + 1) = FlattenSeq(u)
  <2>1. m + 1 \in Nat /\ k <= m + 1 + 1 /\ m + 1 <= Len(requests) /\ m + 1 - k + 1 = m - k + 2
    BY <1>1
  <2>2. PICK n \in Nat : n = m + 1
    BY <2>1
  <2>3. k <= n + 1 /\ n <= Len(requests)
    BY <2>1, <2>2
  <2>4. /\ Written(requests, k, n) \in Seq(Seq(Char)) /\ Len(Written(requests, k, n)) = n - k + 1
        /\ Texts(requests, k, n) = FlattenSeq(Written(requests, k, n))
    BY <2>3, WrittenType, Zenon
  <2> QED
    BY <2>1, <2>2, <2>4
<1>4. \A i \in 1..m - k + 1 : u[i] = w[i]
  BY DEF Written
<1>5. u[m - k + 2] = e
  <2>1. k + (m - k + 2) - 1 = m + 1 /\ m - k + 2 \in 1..m + 1 - k + 1
    OBVIOUS
  <2>2. u[m - k + 2] = RequestText(requests[k + (m - k + 2) - 1])
    BY <2>1 DEF Written
  <2> QED
    BY <2>1, <2>2
<1> HIDE DEF w, u, e
<1>6. u = Append(w, e)
  <2>1. /\ Append(w, e) \in Seq(Seq(Char)) /\ Len(Append(w, e)) = m - k + 2
        /\ Append(w, e)[m - k + 2] = e /\ \A i \in 1..m - k + 1 : Append(w, e)[i] = w[i]
    BY <1>1, <1>2
  <2> DEFINE v == Append(w, e)
  <2>2. v \in Seq(Seq(Char)) /\ Len(v) = Len(u) /\ \A i \in 1..Len(u) : v[i] = u[i]
    BY <1>3, <1>4, <1>5, <2>1, SMTT(20)
  <2> HIDE DEF v
  <2>3. v = u
    BY <1>3, <2>2
  <2> QED
    BY <2>3 DEF v
<1> QED
  BY <1>1, <1>2, <1>3, <1>6, FlattenAppend DEF e

(* The first of them. *)
LEMMA TextsFirst ==
  ASSUME NEW requests, Writable(requests), NEW k \in Nat \ {0}, NEW m \in Nat,
         k <= m, m <= Len(requests)
  PROVE  Texts(requests, k, m) = RequestText(requests[k]) \o Texts(requests, k + 1, m)
<1> DEFINE w == Written(requests, k, m)
           u == Written(requests, k + 1, m)
<1>1. w \in Seq(Seq(Char)) /\ Len(w) = m - k + 1 /\ Texts(requests, k, m) = FlattenSeq(w)
  BY WrittenType
<1>2. u \in Seq(Seq(Char)) /\ Len(u) = m - k /\ Texts(requests, k + 1, m) = FlattenSeq(u)
  <2>1. k + 1 \in Nat \ {0} /\ k + 1 <= m + 1 /\ m - (k + 1) + 1 = m - k
    OBVIOUS
  <2>2. u \in Seq(Seq(Char)) /\ Len(u) = m - (k + 1) + 1 /\ Texts(requests, k + 1, m) = FlattenSeq(u)
    BY <2>1, WrittenType, Zenon
  <2> QED
    BY <2>1, <2>2
<1>3. w[1] = RequestText(requests[k])
  <2>1. 1 \in 1..m - k + 1 /\ k + 1 - 1 = k
    OBVIOUS
  <2>2. w[1] = RequestText(requests[k + 1 - 1])
    BY <2>1 DEF Written
  <2> QED
    BY <2>1, <2>2
<1>4. \A i \in 1..m - k : u[i] = w[i + 1]
  <2> TAKE i \in 1..m - k
  <2>1. i \in 1..m - (k + 1) + 1 /\ i + 1 \in 1..m - k + 1 /\ k + 1 + i - 1 = k + (i + 1) - 1
    OBVIOUS
  <2> QED
    BY <2>1 DEF Written
<1> HIDE DEF w, u
<1>5. SubSeq(w, 1, Len(w)) = w /\ u = SubSeq(w, 2, Len(w))
  BY <1>1, <1>2, <1>4
<1>6. 1 \in 1..Len(w)
  BY <1>1
<1>7. FlattenSeq(SubSeq(w, 1, Len(w))) = w[1] \o FlattenSeq(SubSeq(w, 1 + 1, Len(w)))
  BY <1>1, <1>6, FlattenSuffix
<1>8. 1 + 1 = 2
  OBVIOUS
<1>9. FlattenSeq(w) = w[1] \o FlattenSeq(u)
  BY <1>5, <1>7, <1>8
<1> QED
  BY <1>1, <1>2, <1>3, <1>9, Zenon

LEMMA NoTexts ==
  ASSUME NEW requests, NEW k \in Nat \ {0}, NEW m \in Nat, k = m + 1
  PROVE  Texts(requests, k, m) = <<>>
<1> DEFINE w == Written(requests, k, m)
<1>1. 1..m - k + 1 = {}
  OBVIOUS
<1>2. w = <<>>
  BY <1>1 DEF Written
<1>3. Texts(requests, k, m) = FlattenSeq(w)
  BY DEF Texts, Written
<1> QED
  BY <1>2, <1>3, FlattenEmpty

(* What was sent is a part of all that will be. *)
LEMMA SentOfAll ==
  ASSUME NEW requests, Writable(requests), NEW k \in Nat \ {0}, NEW m \in Nat,
         k <= m + 1, m <= Len(requests)
  PROVE  LET s == Texts(requests, k, m)
             a == Texts(requests, k, Len(requests))
         IN Len(s) <= Len(a) /\ \A j \in 1..Len(s) : a[j] = s[j]
<1> DEFINE s == Texts(requests, k, m)
           n == Len(requests)
           Part(i) == LET t == Texts(requests, k, i)
                      IN Len(s) <= Len(t) /\ \A j \in 1..Len(s) : t[j] = s[j]
           Bad == { i \in m..n : ~Part(i) }
<1>1. n \in Nat /\ s \in Seq(Char)
  BY WrittenType DEF Writable
<1>2. Part(m)
  BY <1>1
<1>3. ASSUME Bad # {}
      PROVE  FALSE
  <2>1. Bad \in SUBSET Nat
    BY <1>1
  <2>2. PICK x \in Bad : \A y \in Bad : x <= y
    <3> HIDE DEF Bad
    <3> QED
      BY <1>3, <2>1, FirstPosition
  <2>3. x \in m..n /\ ~Part(x)
    BY <2>2
  <2>4. x # m
    BY <1>2, <2>3
  <2>5. x - 1 \in m..n /\ x - 1 \in Nat /\ ~(x <= x - 1) /\ x - 1 < n /\ k <= x - 1 + 1 /\ x - 1 + 1 = x
        /\ x \in 1..n
    BY <1>1, <2>3, <2>4
  <2>6. x - 1 \notin Bad
    BY <2>2, <2>5
  <2>7. Part(x - 1)
    BY <2>5, <2>6
  <2> DEFINE t == Texts(requests, k, x - 1)
             u == Texts(requests, k, x)
             e == RequestText(requests[x])
  <2>8. t \in Seq(Char) /\ e \in Seq(Char)
    BY <2>5, WrittenType DEF Writable
  <2>9. u = t \o e
    <3>1. Texts(requests, k, x - 1 + 1) = Texts(requests, k, x - 1) \o RequestText(requests[x - 1 + 1])
      BY <2>5, TextsAppend
    <3> QED
      BY <2>5, <3>1
  <2>10. Len(s) <= Len(t) /\ \A j \in 1..Len(s) : t[j] = s[j]
    BY <2>7
  <2>11. Len(s) <= Len(u) /\ \A j \in 1..Len(s) : u[j] = s[j]
    <3> HIDE DEF s, t, u, e
    <3> QED
      BY <1>1, <2>8, <2>9, <2>10
  <2> QED
    BY <2>3, <2>11
<1>4. n \in m..n
  BY <1>1
<1> QED
  BY <1>3, <1>4

-----------------------------------------------------------------------------

(* What PlansAssumption says of the requests of one client. *)
LEMMA PlanFacts ==
  ASSUME PlansAssumption, NEW requests \in Plans
  PROVE  /\ Writable(requests)
         /\ \A k \in 1..Len(requests) : AsSent(requests[k]).body \in Seq(Char) /\ ParsedInOnePiece(requests, k)
<1>1. /\ requests \in Seq(ToSet(requests))
      /\ \A k \in DOMAIN requests :
            /\ RequestText(requests[k]) \in Seq(Char) /\ AsSent(requests[k]).body \in Seq(Char)
            /\ ParsedInOnePiece(requests, k)
  BY DEF PlansAssumption
<1>2. Len(requests) \in Nat /\ DOMAIN requests = 1..Len(requests)
  BY <1>1
<1> QED
  BY <1>1, <1>2 DEF Writable

(* All that a client sends from some request on. *)
LEMMA AllTexts ==
  ASSUME PlansAssumption, NEW requests \in Plans, NEW k \in 1..Len(requests) + 1
  PROVE  LET a == Texts(requests, k, Len(requests)) IN a \in Seq(Char) /\ BlankLinesEnd(a)
<1> DEFINE n == Len(requests)
           a == Texts(requests, k, n)
<1>1. Writable(requests) /\ n \in Nat /\ k \in Nat \ {0}
  BY PlanFacts DEF Writable
<1>2. a \in Seq(Char)
  BY <1>1, WrittenType
<1>3. CASE k = n + 1
  <2>1. a = <<>>
    BY <1>1, <1>3, NoTexts
  <2>2. 1..Len(a) - 1 = {}
    BY <2>1
  <2> QED
    BY <1>2, <2>2 DEF BlankLinesEnd
<1>4. CASE k # n + 1
  <2>1. k \in 1..n
    BY <1>1, <1>4
  <2>2. ParsedInOnePiece(requests, k)
    BY <2>1, PlanFacts
  <2>3. BlankLinesEnd(a)
    BY <2>2 DEF ParsedInOnePiece, BlankLinesEnd, NewRun
  <2> QED
    BY <1>2, <2>3
<1> QED
  BY <1>3, <1>4

(* A new parser has read nothing. *)
LEMMA NewParser ==
  ASSUME NEW text \in Seq(Char), BlankLinesEnd(text)
  PROVE  SameParser(HttpRequestParserNew, NewRun(text, 0))
<1>1. PICK f : /\ IsChain(f, HttpRequestParserNew, text)
               /\ \A i \in 0..Len(text) :
                    Like(NewRun(text, i), f[i], text, SubSeq(text, 1, i), 0, LiveAt(f[i].cs))
  BY WholeRun
<1>2. 0 \in 0..Len(text)
  OBVIOUS
<1>3. SameParser(f[0], NewRun(text, 0))
  BY <1>1, <1>2 DEF Like, SameParser
<1>4. SameParser(HttpRequestParserNew, f[0])
  BY <1>1 DEF IsChain, Begin, SameParser
<1> QED
  BY <1>3, <1>4 DEF SameParser

\* A read of n characters from the stream s, which is what follows the first c characters
\* of text.
Reads(text, s, c, n) == Shifted(text, s, c) /\ c + Len(s) = Len(text) /\ n \in 1..Len(s)

LeftBehind(text, s, c, n) ==
    LET rest == SubSeq(s, n + 1, Len(s))
    IN /\ Len(text) - Len(rest) = c + n /\ c + n <= Len(text)
       /\ Shifted(text, rest, Len(text) - Len(rest))

Brought(text, s, c, n) ==
    LET piece == SubSeq(s, 1, n) IN Shifted(text, piece, c) /\ Len(piece) = n

(* What is read of a stream is gone, what is not is left. *)
LEMMA ReadStream ==
  ASSUME NEW text, NEW s, NEW c, NEW n, Reads(text, s, c, n)
  PROVE  LeftBehind(text, s, c, n) /\ Brought(text, s, c, n)
<1> DEFINE rest == SubSeq(s, n + 1, Len(s))
           piece == SubSeq(s, 1, n)
<1>1. /\ text \in Seq(Char) /\ s \in Seq(Char) /\ c \in Nat /\ n \in Nat /\ n <= Len(s)
      /\ Len(s) \in Nat /\ Len(text) \in Nat
      /\ c + Len(s) = Len(text) /\ \A j \in 1..Len(s) : s[j] = text[c + j]
  BY DEF Shifted, Reads
<1>2. rest \in Seq(Char) /\ Len(rest) = Len(s) - n /\ \A j \in 1..Len(s) - n : rest[j] = s[n + j]
  <2>1. rest = [i \in 1..Len(s) - n |-> s[n + i]]
    <3>1. Len(s) - (n + 1) + 1 = Len(s) - n /\ \A i \in 1..Len(s) - n : n + 1 + i - 1 = n + i
      BY <1>1
    <3>2. rest = [i \in 1..Len(s) - (n + 1) + 1 |-> s[n + 1 + i - 1]]
      BY <1>1
    <3> QED
      BY <1>1, <3>1, <3>2
  <2>2. Len(s) - n \in Nat /\ \A i \in 1..Len(s) - n : s[n + i] \in Char
    BY <1>1
  <2> DEFINE k == Len(s) - n
             g(i) == s[n + i]
  <2>3. k \in Nat /\ \A i \in 1..k : g(i) \in Char
    BY <2>2
  <2>4. rest = [i \in 1..k |-> g(i)]
    BY <2>1
  <2> HIDE DEF rest, k, g
  <2>5. rest \in [1..k -> Char] /\ \A j \in 1..k : rest[j] = g(j)
    BY <2>3, <2>4
  <2>6. rest \in Seq(Char) /\ DOMAIN rest = 1..k
    BY <2>3, <2>5
  <2>7. Len(rest) = k
    BY <2>3, <2>6
  <2> QED
    BY <2>5, <2>6, <2>7 DEF k, g
<1>3. piece \in Seq(Char) /\ Len(piece) = n /\ \A j \in 1..n : piece[j] = s[j]
  BY <1>1
<1> HIDE DEF rest, piece
<1>4. \A j \in 1..Len(rest) : rest[j] = text[c + n + j]
  <2> TAKE j \in 1..Len(rest)
  <2>1. n + j \in 1..Len(s) /\ c + (n + j) = c + n + j /\ j \in 1..Len(s) - n
    BY <1>1, <1>2
  <2> QED
    BY <1>1, <1>2, <2>1
<1>5. Shifted(text, piece, c)
  BY <1>1, <1>3 DEF Shifted
<1>6. Len(text) - Len(rest) = c + n /\ c + n + Len(rest) <= Len(text) /\ c + n \in Nat
  <2> DEFINE x == Len(text)
             y == Len(s)
             z == Len(rest)
  <2>1. x \in Nat /\ y \in Nat /\ c \in Nat /\ n \in Nat /\ n <= y /\ x = c + y /\ z = y - n
    BY <1>1, <1>2
  <2> HIDE DEF x, y, z
  <2>2. x - z = c + n /\ c + n + z <= x /\ c + n \in Nat
    BY <2>1
  <2> QED
    BY <2>2 DEF x, y, z
<1>7. Shifted(text, rest, c + n)
  BY <1>1, <1>2, <1>4, <1>6 DEF Shifted
<1>8. c + n <= Len(text) /\ Shifted(text, rest, Len(text) - Len(rest))
  <2>1. Shifted(text, rest, Len(text) - Len(rest))
    BY <1>6, <1>7, Zenon
  <2>2. Len(rest) \in Nat
    BY <1>2
  <2> QED
    BY <1>1, <1>6, <2>1, <2>2
<1> QED
  BY <1>3, <1>5, <1>6, <1>8, Zenon DEF rest, piece, LeftBehind, Brought

LEMMA ConcatLength ==
  ASSUME NEW S, NEW x \in Seq(S), NEW y \in Seq(S)
  PROVE  Len(x \o y) = Len(x) + Len(y) /\ Len(x) \in Nat /\ Len(y) \in Nat
  OBVIOUS

(* Where the body of a request that is understood lies. *)
LEMMA BodyAtEnd ==
  ASSUME PlansAssumption, NEW requests \in Plans, NEW k \in 1..Len(requests), requests[k].ok
  PROVE  LET text == RequestText(requests[k])
             body == AsSent(requests[k]).body
             whole == Execute(HttpRequestParserNew, Texts(requests, k, Len(requests)))
         IN /\ text \in Seq(Char) /\ body \in Seq(Char)
            /\ whole.p \in Nat /\ whole.p + Len(body) = Len(text)
            /\ [whole.request EXCEPT !.body = body] = AsSent(requests[k])
            /\ GetContentLength(whole.request) = Len(body)
            /\ \A j \in 1..Len(body) : text[Len(text) - Len(body) + j] = body[j]
<1> DEFINE a == Texts(requests, k, Len(requests))
           text == RequestText(requests[k])
           body == AsSent(requests[k]).body
           whole == Execute(HttpRequestParserNew, a)
           head == SubSeq(a, 1, whole.p)
<1>1. /\ Len(requests) \in Nat /\ k \in 1..Len(requests) + 1
      /\ text \in Seq(Char) /\ body \in Seq(Char) /\ ParsedInOnePiece(requests, k)
  BY PlanFacts DEF Writable
<1>2. a \in Seq(Char) /\ BlankLinesEnd(a)
  BY <1>1, AllTexts
<1>3. whole.p \in 0..Len(a)
  <2>1. PICK f : /\ Execute(HttpRequestParserNew, a) = f[Len(a)]
                 /\ \A i \in 0..Len(a) :
                    Like(NewRun(a, i), f[i], a, SubSeq(a, 1, i), 0, LiveAt(f[i].cs))
    <3> HIDE DEF a
    <3> QED
      BY <1>2, WholeRun
  <2>2. Len(a) \in 0..Len(a)
    BY <1>2
  <2>3. IsRunOf(f[Len(a)], a)
    BY <2>1, <2>2 DEF Like
  <2> QED
    BY <2>1, <2>3 DEF IsRunOf
<1>4. LET accepted == IsFinished(whole) /\ ~whole.error /\ ~whole.undefined
      IN /\ requests[k].ok = accepted
         /\ accepted => /\ [whole.request EXCEPT !.body = body] = AsSent(requests[k])
                        /\ GetContentLength(whole.request) = Len(body)
                        /\ text = head \o body
  BY <1>1 DEF ParsedInOnePiece
<1>5. /\ [whole.request EXCEPT !.body = body] = AsSent(requests[k])
      /\ GetContentLength(whole.request) = Len(body)
      /\ text = head \o body
  BY <1>4
<1> HIDE DEF a, text, body, whole
<1>6. head \in Seq(Char) /\ Len(head) = whole.p
  BY <1>2, <1>3
<1> HIDE DEF head
<1>7. Len(text) = whole.p + Len(body) /\ whole.p \in Nat /\ Len(body) \in Nat
  <2>1. Len(head \o body) = Len(head) + Len(body) /\ Len(head) \in Nat /\ Len(body) \in Nat
    BY <1>1, <1>6, ConcatLength
  <2>2. Len(text) = Len(head) + Len(body)
    BY <1>5, <2>1
  <2> QED
    BY <1>6, <2>1, <2>2
<1>8. \A j \in 1..Len(body) : text[Len(text) - Len(body) + j] = body[j]
  <2> TAKE j \in 1..Len(body)
  <2>1. Len(text) - Len(body) + j = Len(head) + j
    BY <1>6, <1>7
  <2>2. (head \o body)[Len(head) + j] = body[j]
    BY <1>1, <1>6, SMTT(20)
  <2> QED
    BY <1>5, <2>1, <2>2
<1> QED
  BY <1>1, <1>5, <1>7, <1>8 DEF text, body, whole, a

(* The requests that are in the stream, and the first of them. *)
LEMMA FirstInStream ==
  ASSUME PlansAssumption, NEW requests \in Plans, NEW k \in 1..Len(requests), NEW m \in k..Len(requests)
  PROVE  LET text == Texts(requests, k, m)
             all == Texts(requests, k, Len(requests))
             first == RequestText(requests[k])
         IN /\ text \in Seq(Char) /\ all \in Seq(Char) /\ first \in Seq(Char)
            /\ Len(text) <= Len(all) /\ \A j \in 1..Len(text) : all[j] = text[j]
            /\ Len(first) <= Len(text) /\ \A j \in 1..Len(first) : text[j] = first[j]
            /\ Len(text) - Len(first) = Len(Texts(requests, k + 1, m))
            /\ k = m => text = first
            /\ Texts(requests, k + 1, m) \in Seq(Char)
            /\ \A j \in 1..Len(Texts(requests, k + 1, m)) :
                  text[Len(first) + j] = Texts(requests, k + 1, m)[j]
<1> DEFINE text == Texts(requests, k, m)
           all == Texts(requests, k, Len(requests))
           first == RequestText(requests[k])
           others == Texts(requests, k + 1, m)
<1>1. /\ Len(requests) \in Nat /\ k \in Nat \ {0} /\ m \in Nat /\ k <= m /\ m <= Len(requests)
      /\ Writable(requests) /\ first \in Seq(Char)
  BY PlanFacts DEF Writable
<1>2. k <= m + 1 /\ Len(requests) <= Len(requests) /\ k <= Len(requests) + 1
  BY <1>1
<1>3. k + 1 \in Nat \ {0} /\ k + 1 <= m + 1 /\ (k = m => k + 1 = m + 1)
  BY <1>1
<1>4. text \in Seq(Char) /\ all \in Seq(Char) /\ others \in Seq(Char)
  BY <1>1, <1>2, <1>3, WrittenType
<1>5. Len(text) <= Len(all) /\ \A j \in 1..Len(text) : all[j] = text[j]
  BY <1>1, <1>2, SentOfAll
<1>6. text = first \o others
  BY <1>1, TextsFirst
<1>7. k = m => others = <<>>
  BY <1>1, <1>3, NoTexts
<1> HIDE DEF text, all, first, others
<1>8. Len(first) <= Len(text) /\ \A j \in 1..Len(first) : text[j] = first[j]
  BY <1>1, <1>4, <1>6
<1>9. Len(text) - Len(first) = Len(others)
  <2>1. Len(text) = Len(first) + Len(others) /\ Len(first) \in Nat /\ Len(others) \in Nat
    BY <1>1, <1>4, <1>6
  <2> QED
    BY <2>1
<1>10. k = m => text = first
  BY <1>1, <1>6, <1>7
<1>11. \A j \in 1..Len(others) : text[Len(first) + j] = others[j]
  BY <1>1, <1>4, <1>6
<1> QED
  BY <1>1, <1>4, <1>5, <1>8, <1>9, <1>10, <1>11 DEF text, all, first, others

(* A read of recvRequest while the parser is where it would be on the whole stream. *)
LEMMA OneRead ==
  ASSUME PlansAssumption, NEW requests \in Plans, NEW k \in 1..Len(requests), NEW m \in k..Len(requests),
         NEW s, NEW c, Shifted(Texts(requests, k, m), s, c), c + Len(s) = Len(Texts(requests, k, m)),
         NEW ps, SameParser(ps, NewRun(Texts(requests, k, Len(requests)), c)),
         ps.cs # <<"done">>, ~ps.error, BetweenTokens(ps.cs), NEW n \in 1..Len(s)
  PROVE  LET request == requests[k]
             text == RequestText(request)
             body == AsSent(request).body
             piece == SubSeq(s, 1, n)
             r == Execute(ps, piece)
         IN /\ IsRunOf(r, piece) /\ Len(piece) = n
            /\ SameParser(r, NewRun(Texts(requests, k, Len(requests)), c + n))
            /\ IsFinished(r) /\ ~r.error /\ ~r.undefined =>
                 /\ request.ok
                 /\ [r.request EXCEPT !.body = body] = AsSent(request)
                 /\ GetContentLength(r.request) = Len(body)
                 /\ c + r.p + Len(body) = Len(text)
<1> DEFINE request == requests[k]
           text == RequestText(request)
           body == AsSent(request).body
           piece == SubSeq(s, 1, n)
           r == Execute(ps, piece)
           sent == Texts(requests, k, m)
           all == Texts(requests, k, Len(requests))
           whole == Execute(HttpRequestParserNew, all)
<1>1. Len(requests) \in Nat /\ k \in 1..Len(requests) + 1 /\ ParsedInOnePiece(requests, k)
  BY PlanFacts DEF Writable
<1>2. all \in Seq(Char) /\ BlankLinesEnd(all)
  BY <1>1, AllTexts
<1>3. Len(sent) <= Len(all) /\ \A j \in 1..Len(sent) : all[j] = sent[j]
  BY FirstInStream
<1>4. Shifted(sent, piece, c) /\ Len(piece) = n
  <2>1. Reads(sent, s, c, n)
    BY DEF Reads
  <2>2. Brought(sent, s, c, n)
    BY <2>1, ReadStream, Zenon
  <2> QED
    BY <2>2, Zenon DEF Brought
<1>5. Shifted(all, piece, c)
  <2>1. /\ c \in Nat /\ n \in Nat /\ c + n <= Len(sent) /\ piece \in Seq(Char) /\ Len(sent) \in Nat
        /\ \A j \in 1..n : piece[j] = sent[c + j]
    BY <1>4 DEF Shifted
  <2>2. \A j \in 1..n : c + j \in 1..Len(sent)
    BY <2>1
  <2>3. c + n <= Len(all)
    BY <1>2, <1>3, <2>1
  <2> HIDE DEF all, sent, piece
  <2>4. \A j \in 1..n : piece[j] = all[c + j]
    BY <1>3, <2>1, <2>2
  <2> QED
    BY <1>2, <1>4, <2>1, <2>3, <2>4 DEF Shifted
<1>6. /\ IsRunOf(r, piece)
      /\ SameParser(r, NewRun(all, c + n))
      /\ r.cs = <<"done">> => SameParser(r, whole) /\ whole.p = r.p + c
  <2> HIDE DEF all, sent, piece
  <2> QED
    BY <1>2, <1>4, <1>5, PieceByPiece DEF all
<1>7. ASSUME IsFinished(r), ~r.error, ~r.undefined
      PROVE  /\ request.ok
             /\ [r.request EXCEPT !.body = body] = AsSent(request)
             /\ GetContentLength(r.request) = Len(body)
             /\ c + r.p + Len(body) = Len(text)
  <2>1. r.cs = <<"done">>
    BY <1>7 DEF IsFinished
  <2>2. SameParser(r, whole) /\ whole.p = r.p + c
    BY <1>6, <2>1
  <2> HIDE DEF r
  <2>3. IsFinished(whole) /\ ~whole.error /\ ~whole.undefined /\ whole.request = r.request
    BY <1>7, <2>1, <2>2 DEF SameParser, IsFinished
  <2>4. request.ok
    BY <1>1, <2>3 DEF ParsedInOnePiece
  <2>5. /\ text \in Seq(Char) /\ body \in Seq(Char) /\ whole.p + Len(body) = Len(text)
        /\ [whole.request EXCEPT !.body = body] = AsSent(request)
        /\ GetContentLength(whole.request) = Len(body)
    BY <2>4, BodyAtEnd
  <2>6. c + r.p + Len(body) = Len(text)
    <3>1. c \in Nat /\ r.p \in Nat /\ Len(body) \in Nat
      BY <1>4, <1>5, <1>6, <2>5 DEF Shifted, IsRunOf
    <3> QED
      BY <2>2, <2>5, <3>1
  <2> QED
    BY <2>3, <2>4, <2>5, <2>6
<1> QED
  BY <1>4, <1>6, <1>7

\* What lies between the i-th and the n-th character of the stream s is the body of the
\* k-th request from its have-th character on.
BodyFollows(requests, k, m, s, c, have, i, n) ==
    /\ requests \in Plans /\ k \in 1..Len(requests) /\ m \in k..Len(requests) /\ requests[k].ok
    /\ Shifted(Texts(requests, k, m), s, c) /\ c + Len(s) = Len(Texts(requests, k, m))
    /\ have \in Nat /\ i \in Nat /\ n \in Nat /\ i <= n /\ n <= Len(s)
    /\ c + i + Len(AsSent(requests[k]).body) = Len(RequestText(requests[k])) + have
    /\ have + (n - i) <= Len(AsSent(requests[k]).body)

BodyGrows(requests, k, s, have, i, n) ==
    LET body == AsSent(requests[k]).body
    IN SubSeq(body, 1, have) \o SubSeq(s, i + 1, n) = SubSeq(body, 1, have + (n - i))

(* More of the body. *)
LEMMA MoreOfBody ==
  ASSUME PlansAssumption, NEW requests, NEW k, NEW m, NEW s, NEW c, NEW have, NEW i, NEW n,
         BodyFollows(requests, k, m, s, c, have, i, n)
  PROVE  BodyGrows(requests, k, s, have, i, n)
<1> DEFINE body == AsSent(requests[k]).body
           text == RequestText(requests[k])
           sent == Texts(requests, k, m)
           whole == Execute(HttpRequestParserNew, Texts(requests, k, Len(requests)))
           more == SubSeq(s, i + 1, n)
           b == SubSeq(body, 1, have)
           all == SubSeq(body, 1, have + (n - i))
<1>0. /\ requests \in Plans /\ k \in 1..Len(requests) /\ m \in k..Len(requests) /\ requests[k].ok
      /\ Shifted(sent, s, c) /\ have \in Nat /\ i \in Nat /\ n \in Nat /\ i <= n /\ n <= Len(s)
      /\ c + i + Len(body) = Len(text) + have /\ have + (n - i) <= Len(body)
  BY DEF BodyFollows
<1>01. /\ text \in Seq(Char) /\ body \in Seq(Char)
       /\ whole.p \in Nat /\ whole.p + Len(body) = Len(text)
       /\ \A j \in 1..Len(body) : text[Len(text) - Len(body) + j] = body[j]
  BY <1>0, BodyAtEnd
<1>02. /\ sent \in Seq(Char) /\ Len(text) <= Len(sent)
       /\ \A j \in 1..Len(text) : sent[j] = text[j]
  BY <1>0, FirstInStream
<1>03. /\ s \in Seq(Char) /\ c \in Nat
       /\ \A j \in 1..Len(s) : s[j] = sent[c + j]
  BY <1>0 DEF Shifted
<1>1. /\ text \in Seq(Char) /\ body \in Seq(Char) /\ sent \in Seq(Char) /\ s \in Seq(Char) /\ c \in Nat
      /\ whole.p \in Nat /\ whole.p + Len(body) = Len(text)
      /\ Len(text) <= Len(sent)
  BY <1>01, <1>02, <1>03, Zenon
<1>2. /\ \A j \in 1..Len(body) : text[Len(text) - Len(body) + j] = body[j]
      /\ \A j \in 1..Len(text) : sent[j] = text[j]
      /\ \A j \in 1..Len(s) : s[j] = sent[c + j]
  BY <1>01, <1>02, <1>03, Zenon
<1>3. /\ Len(s) \in Nat /\ Len(text) \in Nat /\ Len(body) \in Nat
      /\ Len(text) - Len(body) \in Nat
  BY <1>1
<1> HIDE DEF whole
<1>4. /\ c + i + Len(body) = Len(text) + have /\ have + (n - i) <= Len(body)
      /\ have \in Nat /\ i \in Nat /\ n \in Nat /\ i <= n /\ n <= Len(s)
  BY <1>0
<1>5. more \in Seq(Char) /\ Len(more) = n - i /\ \A j \in 1..n - i : more[j] = s[i + j]
  <2>1. i + 1 \in Int /\ n - (i + 1) + 1 = n - i /\ \A j \in 1..n - i : i + 1 + j - 1 = i + j /\ i + j \in 1..Len(s)
    BY <1>3, <1>4
  <2>2. more = [j \in 1..n - (i + 1) + 1 |-> s[i + 1 + j - 1]]
    BY <1>1, <1>4
  <2>3. more = [j \in 1..n - i |-> s[i + j]]
    BY <2>1, <2>2
  <2>4. \A j \in 1..n - i : s[i + j] \in Char
    BY <1>1, <2>1
  <2> HIDE DEF more
  <2> QED
    BY <1>4, <2>3, <2>4
<1>6. b \in Seq(Char) /\ Len(b) = have /\ \A j \in 1..have : b[j] = body[j]
  BY <1>1, <1>3, <1>4, SMTT(20)
<1>7. /\ all \in Seq(Char) /\ Len(all) = have + (n - i)
      /\ \A j \in 1..have + (n - i) : all[j] = body[j]
  BY <1>1, <1>3, <1>4
<1> HIDE DEF body, text, sent, more, b, all
<1>8. ASSUME NEW j \in 1..n - i
      PROVE  more[j] = body[have + j]
  <2> DEFINE x == Len(text)
             y == Len(body)
             z == Len(s)
  <2>1. /\ x \in Nat /\ y \in Nat /\ z \in Nat /\ y <= x /\ c \in Nat /\ n <= z
        /\ c + i + y = x + have /\ have + (n - i) <= y
    BY <1>1, <1>3, <1>4
  <2> HIDE DEF x, y, z
  <2>2. /\ have + j \in 1..y /\ c + (i + j) \in 1..x /\ i + j \in 1..z
        /\ c + (i + j) = x - y + (have + j)
    BY <1>4, <2>1
  <2>3. more[j] = s[i + j]
    BY <1>5
  <2>4. s[i + j] = sent[c + (i + j)]
    BY <1>2, <2>2 DEF z
  <2>5. sent[c + (i + j)] = text[c + (i + j)]
    BY <1>2, <2>2 DEF x
  <2>6. text[x - y + (have + j)] = body[have + j]
    BY <1>2, <2>2 DEF x, y
  <2> QED
    BY <2>2, <2>3, <2>4, <2>5, <2>6
<1>9. /\ b \o more \in Seq(Char) /\ Len(b \o more) = have + (n - i)
      /\ \A j \in 1..have : (b \o more)[j] = b[j]
      /\ \A j \in 1..n - i : (b \o more)[have + j] = more[j]
  <2>1. b \in Seq(Char) /\ more \in Seq(Char)
    BY <1>5, <1>6
  <2>2. /\ Len(b \o more) = Len(b) + Len(more) /\ b \o more \in Seq(Char)
        /\ \A j \in 1..Len(b) : (b \o more)[j] = b[j]
        /\ \A j \in 1..Len(more) : (b \o more)[Len(b) + j] = more[j]
    BY <2>1
  <2>3. Len(b) = have /\ Len(more) = n - i
    BY <1>5, <1>6
  <2> QED
    BY <2>2, <2>3, Zenon
<1>10. \A j \in 1..have + (n - i) : (b \o more)[j] = all[j]
  <2> TAKE j \in 1..have + (n - i)
  <2>1. CASE j <= have
    <3>1. j \in 1..have
      BY <2>1
    <3> QED
      BY <1>6, <1>7, <1>9, <3>1, Zenon
  <2>2. CASE ~(j <= have)
    <3>1. j - have \in 1..n - i /\ have + (j - have) = j
      BY <1>4, <2>2
    <3>2. (b \o more)[have + (j - have)] = body[have + (j - have)]
      BY <1>8, <1>9, <3>1, Zenon
    <3>3. (b \o more)[j] = body[j]
      BY <3>1, <3>2
    <3> QED
      BY <1>7, <3>3, Zenon
  <2> QED
    BY <2>1, <2>2
<1>11. b \o more = all
  <2> DEFINE x == b \o more
  <2>1. x \in Seq(Char) /\ Len(x) = Len(all) /\ \A j \in 1..Len(all) : x[j] = all[j]
    BY <1>7, <1>9, <1>10
  <2> HIDE DEF x
  <2>2. x = all
    BY <1>7, <2>1
  <2> QED
    BY <2>2 DEF x
<1> QED
  BY <1>11 DEF b, more, all, body, BodyGrows

-----------------------------------------------------------------------------

LEMMA InitSession ==
  ASSUME PlansAssumption, SessionInit
  PROVE  SessionInv
<1>1. /\ plan \in Plans /\ pipelined \in BOOLEAN /\ nsent = 0 /\ stream = <<>>
      /\ parser = HttpRequestParserNew /\ phase = "recv" /\ handled = <<>> /\ responses = <<>>
      /\ torn = FALSE /\ lost = FALSE
  BY DEF SessionInit
<1>2. Len(plan) \in Nat /\ nsent \in 0..Len(plan) /\ Current = 1 /\ 1 \in 1..Len(plan) + 1
  <2>1. Len(plan) \in Nat
    BY <1>1, PlanFacts DEF Writable
  <2> QED
    BY <1>1, <2>1 DEF Current
<1>3. Sent = <<>> /\ Gone = 0
  <2>1. Sent = <<>>
    BY <1>1, <1>2, NoTexts DEF Sent
  <2> QED
    BY <1>1, <2>1 DEF Gone
<1>4. Shifted(Sent, stream, Gone)
  BY <1>1, <1>3 DEF Shifted
<1>5. Receiving
  <2>1. SameParser(HttpRequestParserNew, NewRun(Texts(plan, 1, Len(plan)), 0))
    BY <1>1, <1>2, AllTexts, NewParser
  <2>2. /\ HttpRequestParserNew.cs # <<"done">> /\ ~HttpRequestParserNew.error
        /\ BetweenTokens(HttpRequestParserNew.cs)
    BY DEF HttpRequestParserNew, BetweenTokens
  <2> QED
    BY <1>1, <1>2, <1>3, <2>1, <2>2 DEF Receiving
<1>6. HandledAsSent
  BY <1>1 DEF HandledAsSent
<1>7. InStep
  BY <1>1, <1>2, <1>4, <1>5, <1>6 DEF InStep
<1> QED
  BY <1>1, <1>2, <1>7, Zenon DEF SessionInv, LostOnlyWhenPipelined

LEMMA ClientSendKeeps ==
  ASSUME PlansAssumption, SessionInv, ClientSend
  PROVE  SessionInv'
<1>1. /\ nsent < Len(plan) /\ (pipelined \/ Len(responses) = nsent) /\ nsent' = nsent + 1
      /\ stream' = stream \o RequestText(plan[nsent + 1])
      /\ UNCHANGED <<plan, pipelined, parser, reads, left, phase, handled, responses, torn, lost>>
  BY DEF ClientSend
<1>2. plan \in Plans /\ nsent \in Nat /\ Len(plan) \in Nat /\ nsent' \in 0..Len(plan) /\ Writable(plan)
  <2>1. plan \in Plans /\ nsent \in 0..Len(plan)
    BY DEF SessionInv
  <2> QED
    BY <1>1, <2>1, PlanFacts DEF Writable
<1>3. LostOnlyWhenPipelined'
  BY <1>1, <1>2 DEF SessionInv, LostOnlyWhenPipelined
<1>4. ASSUME InStep
      PROVE  InStep'
  <2> DEFINE e == RequestText(plan[nsent + 1])
  <2>1. Len(handled) \in Nat /\ Len(handled) <= nsent /\ Current \in Nat \ {0} /\ Current <= nsent + 1
        /\ Current' = Current
    BY <1>1, <1>2, <1>4 DEF InStep, Current
  <2>2. nsent + 1 \in 1..Len(plan) /\ nsent <= Len(plan) /\ e \in Seq(Char)
    BY <1>1, <1>2 DEF Writable
  <2>3. Sent' = Sent \o e
    BY <1>1, <1>2, <2>1, TextsAppend DEF Sent
  <2>4. Sent \in Seq(Char)
    BY <1>2, <2>1, <2>2, WrittenType DEF Sent
  <2>5. ASSUME Shifted(Sent, stream, Gone)
        PROVE  Shifted(Sent', stream', Gone') /\ Gone' = Gone
    <3>1. /\ stream \in Seq(Char) /\ Gone \in Nat /\ Gone + Len(stream) = Len(Sent)
          /\ Len(stream) \in Nat /\ Len(Sent) \in Nat
          /\ \A j \in 1..Len(stream) : stream[j] = Sent[Gone + j]
      BY <2>4, <2>5 DEF Shifted, Gone
    <3> HIDE DEF e
    <3>2. /\ stream' \in Seq(Char) /\ Len(stream') = Len(stream) + Len(e) /\ Len(e) \in Nat
          /\ \A j \in 1..Len(stream) : stream'[j] = stream[j]
          /\ \A j \in 1..Len(e) : stream'[Len(stream) + j] = e[j]
      BY <1>1, <2>2, <3>1 DEF e
    <3>3. /\ Sent' \in Seq(Char) /\ Len(Sent') = Len(Sent) + Len(e)
          /\ \A j \in 1..Len(Sent) : Sent'[j] = Sent[j]
          /\ \A j \in 1..Len(e) : Sent'[Len(Sent) + j] = e[j]
      BY <2>2, <2>3, <2>4
    <3>4. Gone' = Gone
      BY <3>1, <3>2, <3>3 DEF Gone
    <3>5. ASSUME NEW j \in 1..Len(stream')
          PROVE  stream'[j] = Sent'[Gone + j]
      <4>1. CASE j <= Len(stream)
        <5>1. j \in 1..Len(stream) /\ Gone + j \in 1..Len(Sent)
          BY <3>1, <3>2, <4>1
        <5> QED
          BY <3>1, <3>2, <3>3, <5>1, Zenon
      <4>2. CASE ~(j <= Len(stream))
        <5>1. /\ j - Len(stream) \in 1..Len(e) /\ Len(stream) + (j - Len(stream)) = j
              /\ Len(Sent) + (j - Len(stream)) = Gone + j
          <6> DEFINE x == Len(stream)
                     y == Len(e)
                     z == Len(Sent)
          <6>1. x \in Nat /\ y \in Nat /\ z \in Nat /\ Gone \in Nat /\ Gone + x = z
                /\ j \in 1..x + y /\ ~(j <= x)
            BY <3>1, <3>2, <4>2
          <6> HIDE DEF x, y, z
          <6>2. j - x \in 1..y /\ x + (j - x) = j /\ z + (j - x) = Gone + j
            BY <6>1
          <6> QED
            BY <6>2 DEF x, y, z
        <5> QED
          BY <3>2, <3>3, <5>1, Zenon
      <4> QED
        BY <4>1, <4>2
    <3>6. Gone + Len(stream') <= Len(Sent')
      BY <3>1, <3>2, <3>3
    <3> QED
      BY <3>1, <3>2, <3>3, <3>4, <3>5, <3>6 DEF Shifted
  <2>6. phase = "recv" => Receiving'
    <3>1. ASSUME phase = "recv"
          PROVE  Receiving'
      <4>1. Gone' = Gone /\ Receiving
        BY <1>4, <2>5, <3>1 DEF InStep
      <4> QED
        BY <1>1, <2>1, <4>1 DEF Receiving
    <3> QED
      BY <3>1
  <2>7. ASSUME NEW x, phase \in {"body", "handle"}, Understood(x)
        PROVE  Understood(x)'
    <3>1. Gone' = Gone /\ Request' = Request /\ Body' = Body
      BY <1>1, <1>4, <2>1, <2>5, <2>7 DEF InStep, Request, Body
    <3>2. Current <= nsent /\ Current' <= nsent'
      BY <1>1, <1>2, <2>1, <2>7 DEF Understood
    <3> QED
      BY <1>1, <2>7, <3>1, <3>2 DEF Understood
  <2>8. HandledAsSent'
    BY <1>1, <1>4 DEF HandledAsSent, InStep
  <2>9. ~pipelined' => nsent' <= Len(responses') + 1
    BY <1>1, <1>2, <1>4 DEF InStep
  <2>10. phase' \in {"recv", "body", "handle"} => Shifted(Sent', stream', Gone')
    BY <1>1, <1>4, <2>5 DEF InStep
  <2>11. phase' = "body" => left' \in 1..Len(Body') /\ Understood(left)'
    <3>1. ASSUME phase = "body"
          PROVE  left' \in 1..Len(Body') /\ Understood(left)'
      <4>1. left \in 1..Len(Body) /\ Understood(left)
        BY <1>4, <3>1 DEF InStep
      <4>2. Body' = Body
        BY <1>1, <2>1 DEF Body, Request
      <4>3. Understood(left)'
        BY <1>1, <2>7, <3>1, <4>1
      <4> QED
        BY <1>1, <4>1, <4>2, <4>3
    <3> QED
      BY <1>1, <3>1
  <2>12. phase' = "handle" => Understood(0)'
    BY <1>1, <1>4, <2>7 DEF InStep
  <2>13. Len(handled') <= nsent'
    BY <1>1, <1>2, <2>1
  <2> QED
    BY <1>1, <1>4, <2>6, <2>8, <2>9, <2>10, <2>11, <2>12, <2>13 DEF InStep
<1> QED
  BY <1>1, <1>2, <1>3, <1>4 DEF SessionInv

LEMMA RecvFailKeeps ==
  ASSUME SessionInv, RecvFail
  PROVE  SessionInv'
<1>1. /\ phase' = "closed"
      /\ UNCHANGED <<plan, pipelined, nsent, handled, responses, torn, lost>>
  BY DEF RecvFail, Close
<1>2. ASSUME InStep
      PROVE  InStep'
  <2>1. HandledAsSent'
    BY <1>1, <1>2 DEF InStep, HandledAsSent
  <2> QED
    BY <1>1, <1>2, <2>1 DEF InStep
<1>3. LostOnlyWhenPipelined'
  BY <1>1 DEF SessionInv, LostOnlyWhenPipelined
<1> QED
  BY <1>1, <1>2, <1>3 DEF SessionInv

(* What is known of the request that is being received. *)
LEMMA RequestFacts ==
  ASSUME PlansAssumption, SessionInv, InStep, Current <= nsent
  PROVE  /\ plan \in Plans /\ Current \in 1..Len(plan) /\ nsent \in Current..Len(plan)
         /\ Sent \in Seq(Char) /\ Len(Sent) \in Nat
         /\ phase \in {"recv", "body", "handle"} =>
               Gone + Len(stream) = Len(Sent) /\ Gone \in Nat /\ Len(stream) \in Nat
<1>1. plan \in Plans /\ nsent \in 0..Len(plan) /\ Len(plan) \in Nat
  BY PlanFacts DEF SessionInv, Writable
<1>2. Len(handled) \in Nat
  BY DEF InStep
<1>3. Current \in 1..Len(plan) /\ nsent \in Current..Len(plan)
  BY <1>1, <1>2 DEF Current
<1>4. Sent \in Seq(Char)
  BY <1>1, <1>3, FirstInStream DEF Sent
<1>5. Shifted(Sent, stream, Gone) => Gone + Len(stream) = Len(Sent) /\ Gone \in Nat /\ Len(stream) \in Nat
  BY <1>4 DEF Shifted, Gone
<1> QED
  BY <1>1, <1>3, <1>4, <1>5 DEF InStep

LEMMA RecvBodyKeeps ==
  ASSUME PlansAssumption, SessionInv, NEW n \in 1..Len(stream), RecvBody(n)
  PROVE  SessionInv'
<1>1. /\ phase = "body" /\ n <= left
      /\ parser' = [parser EXCEPT !.request.body = @ \o SubSeq(stream, 1, n)]
      /\ left' = left - n
      /\ phase' = IF left' = 0 THEN "handle" ELSE "body"
      /\ stream' = SubSeq(stream, n + 1, Len(stream))
      /\ UNCHANGED <<plan, pipelined, nsent, handled, responses, torn, lost>>
  BY DEF RecvBody
<1>2. LostOnlyWhenPipelined'
  BY <1>1 DEF SessionInv, LostOnlyWhenPipelined
<1>3. ASSUME InStep
      PROVE  InStep'
  <2>1. left \in 1..Len(Body) /\ Understood(left) /\ Shifted(Sent, stream, Gone)
    BY <1>1, <1>3 DEF InStep
  <2>2. Current <= nsent /\ Request.ok
    BY <2>1 DEF Understood
  <2>3. /\ plan \in Plans /\ Current \in 1..Len(plan) /\ nsent \in Current..Len(plan)
        /\ Gone + Len(stream) = Len(Sent) /\ Gone \in Nat /\ Len(stream) \in Nat
    BY <1>1, <1>3, <2>2, RequestFacts
  <2>4. /\ Current' = Current /\ Sent' = Sent /\ Request' = Request /\ Body' = Body
    BY <1>1 DEF Current, Sent, Request, Body
  <2>5. Shifted(Sent, SubSeq(stream, n + 1, Len(stream)), Len(Sent) - Len(SubSeq(stream, n + 1, Len(stream))))
        /\ Len(Sent) - Len(SubSeq(stream, n + 1, Len(stream))) = Gone + n
    <3>1. Reads(Sent, stream, Gone, n)
      BY <2>1, <2>3 DEF Reads
    <3>2. LeftBehind(Sent, stream, Gone, n)
      BY <3>1, ReadStream, Zenon
    <3> QED
      BY <3>2, Zenon DEF LeftBehind
  <2>6. Shifted(Sent', stream', Gone') /\ Gone' = Gone + n
    BY <1>1, <2>4, <2>5 DEF Gone
  <2>7. /\ RequestText(Request) \in Seq(Char) /\ Body \in Seq(Char)
        /\ Len(RequestText(Request)) \in Nat /\ Len(Body) \in Nat
        /\ Len(Body) <= Len(RequestText(Request))
    <3>1. /\ RequestText(Request) \in Seq(Char) /\ Body \in Seq(Char)
          /\ Execute(HttpRequestParserNew, Texts(plan, Current, Len(plan))).p \in Nat
          /\ Execute(HttpRequestParserNew, Texts(plan, Current, Len(plan))).p + Len(Body)
             = Len(RequestText(Request))
      BY <2>2, <2>3, BodyAtEnd DEF Request, Body
    <3> QED
      BY <3>1
  <2>8. n \in Nat /\ n <= Len(stream) /\ n <= left /\ left \in Nat /\ left <= Len(Body)
        /\ left - n \in Nat /\ Len(Body) - left \in Nat
        /\ Len(Body) - (left - n) = Len(Body) - left + n
    <3> DEFINE x == Len(Body)
               y == Len(stream)
    <3>1. x \in Nat /\ y \in Nat /\ left \in 1..x /\ n \in 1..y /\ n <= left
      BY <1>1, <2>1, <2>3, <2>7
    <3> HIDE DEF x, y
    <3>2. n \in Nat /\ n <= y /\ n <= left /\ left \in Nat /\ left <= x
          /\ left - n \in Nat /\ x - left \in Nat /\ x - (left - n) = x - left + n
      BY <3>1
    <3> QED
      BY <3>2 DEF x, y
  <2> DEFINE have == Len(Body) - left
  <2>9. /\ Gone = Len(RequestText(Request)) - left
        /\ parser = Parser(parser) /\ IsRequest(parser.request)
        /\ [parser.request EXCEPT !.body = Body] = AsSent(Request)
        /\ parser.request.body = SubSeq(Body, 1, have)
    BY <2>1 DEF Understood
  <2>10. SubSeq(Body, 1, have) \o SubSeq(stream, 1, n) = SubSeq(Body, 1, have + n)
    <3>1. Gone + 0 + Len(Body) = Len(RequestText(Request)) + have
      BY <2>7, <2>8, <2>9, SMTT(20)
    <3>2. have + (n - 0) <= Len(Body) /\ have \in Nat /\ 0 <= n /\ n <= Len(stream)
      BY <2>7, <2>8
    <3> HIDE DEF have
    <3>3. SubSeq(Body, 1, have) \o SubSeq(stream, 0 + 1, n) = SubSeq(Body, 1, have + (n - 0))
      <4>1. BodyFollows(plan, Current, nsent, stream, Gone, have, 0, n)
        BY <2>1, <2>2, <2>3, <2>8, <3>1, <3>2 DEF BodyFollows, Body, Request, Sent
      <4>2. BodyGrows(plan, Current, stream, have, 0, n)
        BY <4>1, MoreOfBody, Zenon
      <4> QED
        BY <4>2, Zenon DEF BodyGrows, Body, Request
    <3>4. 0 + 1 = 1 /\ n - 0 = n
      BY <2>8
    <3> QED
      BY <3>3, <3>4
  <2>11. /\ parser' = Parser(parser') /\ IsRequest(parser'.request)
         /\ [parser'.request EXCEPT !.body = Body] = [parser.request EXCEPT !.body = Body]
         /\ parser'.request.body = parser.request.body \o SubSeq(stream, 1, n)
    BY <1>1, <2>9 DEF Parser, IsRequest
  <2>12. Understood(left)'
    <3>1. Gone' = Len(RequestText(Request')) - left'
      BY <1>1, <2>3, <2>4, <2>6, <2>7, <2>8, <2>9
    <3>2. parser'.request.body = SubSeq(Body', 1, Len(Body') - left')
      BY <1>1, <2>4, <2>8, <2>9, <2>10, <2>11
    <3>3. [parser'.request EXCEPT !.body = Body'] = AsSent(Request')
      BY <2>4, <2>9, <2>11
    <3> QED
      BY <1>1, <2>2, <2>4, <2>11, <3>1, <3>2, <3>3 DEF Understood
  <2>13. HandledAsSent'
    BY <1>1, <1>3 DEF InStep, HandledAsSent
  <2>14. phase' = "body" => left' \in 1..Len(Body')
    BY <1>1, <2>4, <2>7, <2>8
  <2>15. phase' = "handle" => left' = 0
    BY <1>1
  <2>16. phase' \in {"body", "handle"}
    BY <1>1
  <2> QED
    BY <1>1, <1>3, <2>6, <2>12, <2>13, <2>14, <2>15, <2>16 DEF InStep
<1> QED
  BY <1>1, <1>2, <1>3 DEF SessionInv

LEMMA HandleClientKeeps ==
  ASSUME PlansAssumption, SessionInv, HandleClient
  PROVE  SessionInv'
<1> DEFINE answer == [servlet |-> GetMatchedServlet(parser.request.path),
                      close |-> IsClose(parser.request) \/ ~Keepalive]
<1>1. /\ phase = "handle" /\ phase' \in {"closed", "recv"}
      /\ responses' = Append(responses, answer)
      /\ handled' = Append(handled, parser.request)
      /\ parser' = HttpRequestParserNew
      /\ UNCHANGED <<plan, pipelined, nsent, stream, torn, lost>>
  BY DEF HandleClient
<1>2. answer \in [servlet : Found, close : BOOLEAN]
  <2>1. (IsClose(parser.request) \/ ~Keepalive) \in BOOLEAN
    BY DEF IsClose
  <2>2. GetMatchedServlet(parser.request.path) \in Found
    <3> DEFINE path == parser.request.path
               g == GlobServlets # {} /\ path = FunctionServletName
    <3>1. path \in Servlets /\ ~g => GetMatchedServlet(path) = "servlet"
      BY DEF GetMatchedServlet
    <3>2. path \notin Servlets /\ g => GetMatchedServlet(path) = "glob"
      BY DEF GetMatchedServlet
    <3>3. path \notin Servlets /\ ~g => GetMatchedServlet(path) = "notFound"
      BY DEF GetMatchedServlet
    <3>4. path \in Servlets /\ g => GetMatchedServlet(path) \in Found
      BY DEF GetMatchedServlet, Found
    <3> HIDE DEF g, path
    <3>5. GetMatchedServlet(path) \in Found
      BY <3>1, <3>2, <3>3, <3>4, Zenon DEF Found
    <3> QED
      BY <3>5 DEF path
  <2> QED
    BY <2>1, <2>2
<1> HIDE DEF answer
<1>3. LostOnlyWhenPipelined'
  BY <1>1 DEF SessionInv, LostOnlyWhenPipelined
<1>4. ASSUME InStep
      PROVE  InStep'
  <2>1. Understood(0) /\ Shifted(Sent, stream, Gone)
    BY <1>1, <1>4 DEF InStep
  <2>2. Current <= nsent /\ Request.ok /\ Gone = Len(RequestText(Request)) - 0
        /\ IsRequest(parser.request)
        /\ [parser.request EXCEPT !.body = Body] = AsSent(Request)
        /\ parser.request.body = SubSeq(Body, 1, Len(Body) - 0)
    BY <2>1 DEF Understood
  <2>3. /\ plan \in Plans /\ Current \in 1..Len(plan) /\ nsent \in Current..Len(plan)
        /\ Gone + Len(stream) = Len(Sent) /\ Gone \in Nat /\ Len(stream) \in Nat
    BY <1>1, <1>4, <2>2, RequestFacts
  <2>4. Len(plan) \in Nat /\ Body \in Seq(Char) /\ RequestText(Request) \in Seq(Char)
    BY <2>2, <2>3, BodyAtEnd, PlanFacts DEF Writable, Body, Request
  <2>5. parser.request = AsSent(Request)
    <3>1. Len(Body) - 0 = Len(Body) /\ SubSeq(Body, 1, Len(Body)) = Body
      BY <2>4
    <3>2. parser.request.body = Body
      BY <2>2, <3>1
    <3>3. [parser.request EXCEPT !.body = Body] = parser.request
      BY <2>2, <3>2 DEF IsRequest
    <3> QED
      BY <2>2, <3>3
  <2> DEFINE S == { AsSent(plan[i]) : i \in DOMAIN plan }
  <2>6. handled \in Seq(S) /\ Len(handled) \in Nat /\ DOMAIN handled = 1..Len(handled)
    BY <1>4 DEF InStep
  <2>7. AsSent(Request) \in S
    BY <2>3, PlanFacts DEF Request, Writable
  <2>8. /\ handled' \in Seq(S) /\ Len(handled') = Len(handled) + 1 /\ Len(handled') = Current
        /\ DOMAIN handled' = 1..Current
        /\ handled'[Current] = AsSent(Request)
        /\ \A i \in 1..Len(handled) : handled'[i] = handled[i]
    <3> HIDE DEF S
    <3>1. handled' = Append(handled, AsSent(Request))
      BY <1>1, <2>5
    <3> QED
      BY <2>6, <2>7, <3>1 DEF Current
  <2>9. HandledAsSent'
    <3>1. ASSUME NEW i \in 1..Current
          PROVE  plan[i].ok /\ handled'[i] = AsSent(plan[i])
      <4>1. CASE i = Current
        BY <2>2, <2>8, <4>1 DEF Request
      <4>2. CASE i # Current
        <5>1. i \in 1..Len(handled)
          BY <2>6, <4>2 DEF Current
        <5>2. plan[i].ok /\ handled[i] = AsSent(plan[i])
          BY <1>4, <2>6, <5>1 DEF InStep, HandledAsSent
        <5> QED
          BY <2>8, <5>1, <5>2
      <4> QED
        BY <4>1, <4>2
    <3> QED
      BY <1>1, <2>8, <3>1 DEF HandledAsSent
  <2>10. /\ responses' \in Seq([servlet : Found, close : BOOLEAN]) /\ Len(responses') = Len(responses) + 1
         /\ Len(responses) = Len(handled) /\ (~pipelined => nsent <= Len(responses) + 1)
    BY <1>1, <1>2, <1>4 DEF InStep
  <2>11. Len(handled') <= nsent' /\ Len(responses') = Len(handled') /\ (~pipelined' => nsent' <= Len(responses') + 1)
    BY <1>1, <2>2, <2>3, <2>6, <2>8, <2>10
  <2>12. Current' = Current + 1 /\ Sent' = Texts(plan, Current + 1, nsent)
    BY <1>1, <2>8 DEF Current, Sent
  <2> DEFINE first == RequestText(Request)
  <2>13. /\ Sent \in Seq(Char) /\ Sent' \in Seq(Char) /\ Len(Sent) - Len(first) = Len(Sent')
         /\ \A j \in 1..Len(Sent') : Sent[Len(first) + j] = Sent'[j]
    <3>1. PICK requests, k, m : requests = plan /\ k = Current /\ m = nsent
      OBVIOUS
    <3>2. requests \in Plans /\ k \in 1..Len(requests) /\ m \in k..Len(requests)
      BY <2>3, <3>1
    <3>3. /\ Texts(requests, k, m) \in Seq(Char) /\ Texts(requests, k + 1, m) \in Seq(Char)
          /\ Len(Texts(requests, k, m)) - Len(RequestText(requests[k])) = Len(Texts(requests, k + 1, m))
          /\ \A j \in 1..Len(Texts(requests, k + 1, m)) :
                Texts(requests, k, m)[Len(RequestText(requests[k])) + j] = Texts(requests, k + 1, m)[j]
      BY <3>2, FirstInStream
    <3>4. /\ Sent = Texts(requests, k, m) /\ Sent' = Texts(requests, k + 1, m)
          /\ first = RequestText(requests[k])
      BY <2>12, <3>1 DEF Sent, Request
    <3> HIDE DEF first
    <3> QED
      BY <3>3, <3>4
  <2>14. Gone = Len(first) /\ Len(Sent') = Len(stream) /\ Gone' = 0
    <3>1. Len(first) \in Nat /\ Len(Sent) \in Nat /\ Len(Sent') \in Nat
      BY <2>4, <2>13
    <3>2. Gone = Len(first) /\ Len(Sent') = Len(stream)
      BY <2>2, <2>3, <2>13, <3>1
    <3>3. Gone' = Len(Sent') - Len(stream)
      BY <1>1 DEF Gone
    <3> QED
      BY <2>3, <3>2, <3>3
  <2>15. Shifted(Sent', stream', Gone')
    <3>1. stream \in Seq(Char) /\ \A j \in 1..Len(stream) : stream[j] = Sent[Gone + j]
      BY <2>1 DEF Shifted
    <3>2. \A j \in 1..Len(stream) : stream[j] = Sent'[0 + j]
      <4> TAKE j \in 1..Len(stream)
      <4>1. 0 + j = j
        OBVIOUS
      <4> QED
        BY <2>13, <2>14, <3>1, <4>1
    <3>3. 0 + Len(stream) <= Len(Sent') /\ 0 \in Nat
      BY <2>3, <2>14
    <3> QED
      BY <1>1, <2>13, <2>14, <3>1, <3>2, <3>3 DEF Shifted
  <2>16. Receiving'
    <3>1. Current + 1 \in 1..Len(plan) + 1
      BY <2>3, <2>4
    <3>2. SameParser(HttpRequestParserNew, NewRun(Texts(plan, Current + 1, Len(plan)), 0))
      BY <2>3, <3>1, AllTexts, NewParser
    <3>3. /\ HttpRequestParserNew.cs # <<"done">> /\ ~HttpRequestParserNew.error
          /\ BetweenTokens(HttpRequestParserNew.cs)
      BY DEF HttpRequestParserNew, BetweenTokens
    <3> QED
      BY <1>1, <2>12, <2>14, <3>2, <3>3 DEF Receiving
  <2>17. phase' # "body" /\ phase' # "handle"
    BY <1>1
  <2> QED
    BY <1>1, <2>8, <2>9, <2>10, <2>11, <2>15, <2>16, <2>17 DEF InStep
<1> QED
  BY <1>1, <1>3, <1>4 DEF SessionInv

(* The part of a buffer that is taken for the body if no more was read than that. *)
LEMMA BodyOfBuffer ==
  ASSUME NEW rest \in Seq(Char), NEW length \in Nat
  PROVE  /\ Len(rest) <= length => SubSeq(rest, 1, Min({Len(rest), length})) = rest
         /\ IF length > Len(rest) THEN length - Len(rest) > 0 ELSE Len(rest) >= length
<1>1. Len(rest) \in Nat
  OBVIOUS
<1>2. ASSUME Len(rest) <= length
      PROVE  Min({Len(rest), length}) = Len(rest)
  <2> DEFINE n == Len(rest)
  <2>1. n \in {n, length} /\ \A y \in {n, length} : n <= y
    BY <1>1, <1>2
  <2>2. \A x \in {n, length} : (\A y \in {n, length} : x <= y) => x = n
    BY <1>1, <1>2
  <2> HIDE DEF n
  <2>3. (CHOOSE x \in {n, length} : \A y \in {n, length} : x <= y) = n
    BY <2>1, <2>2
  <2> QED
    BY <2>3 DEF Min, n
<1>3. SubSeq(rest, 1, Len(rest)) = rest
  OBVIOUS
<1> QED
  BY <1>1, <1>2, <1>3

(* The outcomes of a read. *)
LEMMA RecvOutcomes ==
  ASSUME NEW n \in 1..Len(stream), Recv(n)
  PROVE  LET r == Execute(parser, SubSeq(stream, 1, n))
             rest == SubSeq(stream, r.p + 1, n)
             body == SubSeq(rest, 1, Min({Len(rest), GetContentLength(r.request)}))
         IN /\ phase = "recv" /\ stream' = SubSeq(stream, n + 1, Len(stream))
            /\ UNCHANGED <<plan, pipelined, nsent, handled, responses>>
            /\ parser' = [Parser(r) EXCEPT !.request.body = IF IsFinished(r) THEN body ELSE @]
            /\ torn' = (torn \/ ~(r.error \/ BetweenTokens(r.cs)))
            /\ \/ phase' = "undefined" /\ lost' = lost
               \/ phase' = "closed" /\ lost' = lost
               \/ ~r.undefined /\ ~r.error /\ IsFinished(r) /\ HeadersDone(rest)
               \/ ~r.undefined /\ ~r.error /\ ~IsFinished(r) /\ phase' = phase /\ lost' = lost
<1> DEFINE r == Execute(parser, SubSeq(stream, 1, n))
           rest == SubSeq(stream, r.p + 1, n)
           body == SubSeq(rest, 1, Min({Len(rest), GetContentLength(r.request)}))
<1>1. /\ parser' = [Parser(r) EXCEPT !.request.body = IF IsFinished(r) THEN body ELSE @]
      /\ CASE r.undefined -> phase' = "undefined" /\ UNCHANGED <<left, lost>>
           [] r.error /\ ~r.undefined -> Close /\ UNCHANGED lost
           [] IsFinished(r) /\ ~r.error /\ ~r.undefined -> HeadersDone(rest)
           [] OTHER -> UNCHANGED <<phase, left, lost>>
      /\ torn' = (torn \/ ~(r.error \/ BetweenTokens(r.cs)))
      /\ phase = "recv" /\ stream' = SubSeq(stream, n + 1, Len(stream))
      /\ UNCHANGED <<plan, pipelined, nsent, handled, responses>>
  BY DEF Recv
<1> HIDE DEF r, rest
<1>2. \/ r.undefined /\ phase' = "undefined" /\ UNCHANGED <<left, lost>>
      \/ r.error /\ Close /\ UNCHANGED lost
      \/ IsFinished(r) /\ ~r.error /\ ~r.undefined /\ HeadersDone(rest)
      \/ ~r.undefined /\ ~r.error /\ ~IsFinished(r) /\ UNCHANGED <<phase, left, lost>>
  BY <1>1
<1> QED
  BY <1>1, <1>2 DEF r, rest, Close

LEMMA RecvKeeps ==
  ASSUME PlansAssumption, SessionInv, NEW n \in 1..Len(stream), Recv(n)
  PROVE  SessionInv'
<1> DEFINE r == Execute(parser, SubSeq(stream, 1, n))
           rest == SubSeq(stream, r.p + 1, n)
           body == SubSeq(rest, 1, Min({Len(rest), GetContentLength(r.request)}))
<1>1. /\ phase = "recv" /\ stream' = SubSeq(stream, n + 1, Len(stream))
      /\ UNCHANGED <<plan, pipelined, nsent, handled, responses>>
      /\ parser' = [Parser(r) EXCEPT !.request.body = IF IsFinished(r) THEN body ELSE @]
      /\ torn' = (torn \/ ~(r.error \/ BetweenTokens(r.cs)))
      /\ \/ phase' = "undefined" /\ lost' = lost
         \/ phase' = "closed" /\ lost' = lost
         \/ ~r.undefined /\ ~r.error /\ IsFinished(r) /\ HeadersDone(rest)
         \/ ~r.undefined /\ ~r.error /\ ~IsFinished(r) /\ phase' = phase /\ lost' = lost
  BY RecvOutcomes
<1> HIDE DEF r
<1>2. /\ plan \in Plans /\ nsent \in 0..Len(plan)
      /\ pipelined \in BOOLEAN /\ torn \in BOOLEAN /\ lost \in BOOLEAN
      /\ LostOnlyWhenPipelined /\ (~torn /\ ~lost => InStep)
  BY DEF SessionInv
<1>3. torn' \in BOOLEAN /\ (torn => torn') /\ lost' \in BOOLEAN /\ (lost => lost')
  <2>1. torn' \in BOOLEAN /\ (torn => torn')
    BY <1>1, <1>2, Zenon
  <2>2. lost' = lost \/ HeadersDone(rest)
    BY <1>1, Zenon
  <2>3. HeadersDone(rest) => lost' = (lost \/ Len(rest) > GetContentLength(parser'.request))
    BY DEF HeadersDone
  <2>4. lost' \in BOOLEAN /\ (lost => lost')
    BY <1>2, <2>2, <2>3, Zenon
  <2> QED
    BY <2>1, <2>4
<1>4. ASSUME ~torn', ~lost \/ ~lost', InStep
      PROVE  /\ lost' => pipelined /\ nsent > 1
             /\ ~lost' => InStep'
  <2>1. Shifted(Sent, stream, Gone) /\ Receiving
    BY <1>1, <1>4 DEF InStep
  <2>2. Current <= nsent
    <3>1. Len(plan) \in Nat /\ Len(handled) \in Nat /\ Len(handled) <= nsent /\ nsent \in Nat
      BY <1>2, <1>4, PlanFacts DEF InStep, Writable
    <3>2. CASE Current = nsent + 1
      <4>1. Current \in Nat \ {0}
        BY <3>1 DEF Current
      <4>2. Sent = <<>>
        BY <3>1, <3>2, <4>1, NoTexts DEF Sent
      <4>3. Len(stream) \in Nat /\ Gone + Len(stream) <= Len(Sent) /\ Gone \in Nat
        BY <2>1 DEF Shifted
      <4>4. Len(Sent) = 0
        BY <4>2
      <4> QED
        BY <4>3, <4>4
    <3> QED
      BY <3>1, <3>2 DEF Current
  <2>3. /\ plan \in Plans /\ Current \in 1..Len(plan) /\ nsent \in Current..Len(plan)
        /\ Gone + Len(stream) = Len(Sent) /\ Gone \in Nat /\ Len(stream) \in Nat /\ Len(Sent) \in Nat
    BY <1>1, <1>4, <2>2, RequestFacts
  <2>4. Current' = Current /\ Sent' = Sent /\ Request' = Request /\ Body' = Body
    BY <1>1 DEF Current, Sent, Request, Body
  <2>5. Shifted(Sent', stream', Gone') /\ Gone' = Gone + n /\ Gone + n <= Len(Sent)
    <3>1. Reads(Sent, stream, Gone, n)
      BY <2>1, <2>3 DEF Reads
    <3>2. LeftBehind(Sent, stream, Gone, n)
      BY <3>1, ReadStream, Zenon
    <3>3. Gone' = Len(Sent) - Len(stream')
      BY <2>4 DEF Gone
    <3> DEFINE rst == SubSeq(stream, n + 1, Len(stream))
    <3>4. /\ Len(Sent) - Len(rst) = Gone + n /\ Gone + n <= Len(Sent)
          /\ Shifted(Sent, rst, Len(Sent) - Len(rst))
      BY <3>2, Zenon DEF LeftBehind
    <3>5. stream' = rst
      BY <1>1
    <3> HIDE DEF rst
    <3> QED
      BY <2>4, <3>3, <3>4, <3>5, Zenon
  <2> DEFINE all == Texts(plan, Current, Len(plan))
             first == RequestText(Request)
  <2>6. /\ IsRunOf(r, SubSeq(stream, 1, n)) /\ Len(SubSeq(stream, 1, n)) = n
        /\ SameParser(r, NewRun(all, Gone + n))
        /\ IsFinished(r) /\ ~r.error /\ ~r.undefined =>
             /\ Request.ok
             /\ [r.request EXCEPT !.body = Body] = AsSent(Request)
             /\ GetContentLength(r.request) = Len(Body)
             /\ Gone + r.p + Len(Body) = Len(first)
    <3>1. PICK requests, k, m, s, c, ps : /\ requests = plan /\ k = Current /\ m = nsent
                                          /\ s = stream /\ c = Gone /\ ps = parser
      OBVIOUS
    <3>2. /\ requests \in Plans /\ k \in 1..Len(requests) /\ m \in k..Len(requests)
          /\ Shifted(Texts(requests, k, m), s, c) /\ c + Len(s) = Len(Texts(requests, k, m))
          /\ SameParser(ps, NewRun(Texts(requests, k, Len(requests)), c))
          /\ ps.cs # <<"done">> /\ ~ps.error /\ BetweenTokens(ps.cs) /\ n \in 1..Len(s)
      BY <2>1, <2>3, <3>1 DEF Receiving, Sent
    <3> DEFINE q == Execute(ps, SubSeq(s, 1, n))
    <3>3. /\ IsRunOf(q, SubSeq(s, 1, n)) /\ Len(SubSeq(s, 1, n)) = n
          /\ SameParser(q, NewRun(Texts(requests, k, Len(requests)), c + n))
          /\ IsFinished(q) /\ ~q.error /\ ~q.undefined =>
               /\ requests[k].ok
               /\ [q.request EXCEPT !.body = AsSent(requests[k]).body] = AsSent(requests[k])
               /\ GetContentLength(q.request) = Len(AsSent(requests[k]).body)
               /\ c + q.p + Len(AsSent(requests[k]).body) = Len(RequestText(requests[k]))
      BY <3>2, OneRead, SMTT(20)
    <3>4. q = r
      BY <3>1 DEF r
    <3> HIDE DEF q
    <3> QED
      BY <3>1, <3>3, <3>4 DEF Request, Body
  <2>7. HandledAsSent'
    BY <1>1, <1>4 DEF InStep, HandledAsSent
  <2>8. CASE phase' \in {"undefined", "closed"} /\ lost' = lost
    BY <1>1, <1>2, <1>4, <2>7, <2>8 DEF InStep, LostOnlyWhenPipelined
  <2>9. CASE ~r.undefined /\ ~r.error /\ ~IsFinished(r) /\ phase' = phase /\ lost' = lost
    <3>1. /\ parser'.cs = r.cs /\ parser'.error = r.error /\ parser'.undefined = r.undefined
          /\ parser'.request = r.request
      BY <1>1, <2>6, <2>9 DEF Parser, IsRunOf, IsRequest
    <3>2. BetweenTokens(r.cs)
      BY <1>1, <1>4, <2>9, Zenon
    <3>3. SameParser(parser', NewRun(all, Gone + n))
      BY <2>6, <3>1 DEF SameParser
    <3>4. Receiving'
      BY <1>1, <2>4, <2>5, <2>9, <3>1, <3>2, <3>3 DEF Receiving, IsFinished
    <3> QED
      BY <1>1, <1>2, <1>4, <2>5, <2>7, <2>9, <3>4 DEF InStep, LostOnlyWhenPipelined
  <2>10. CASE ~r.undefined /\ ~r.error /\ IsFinished(r) /\ HeadersDone(rest)
    <3>1. /\ Request.ok
          /\ [r.request EXCEPT !.body = Body] = AsSent(Request)
          /\ GetContentLength(r.request) = Len(Body)
          /\ Gone + r.p + Len(Body) = Len(first)
          /\ IsRequest(r.request) /\ r.p \in 0..n
      BY <2>6, <2>10 DEF IsRunOf
    <3>2. Body \in Seq(Char) /\ first \in Seq(Char) /\ Len(Body) \in Nat /\ Len(first) \in Nat
      <4>1. Body \in Seq(Char) /\ first \in Seq(Char)
        BY <2>3, <3>1, BodyAtEnd DEF Body, Request
      <4> QED
        BY <4>1
    <3>3. rest \in Seq(Char) /\ Len(rest) = n - r.p /\ n - r.p \in Nat /\ n \in Nat /\ n <= Len(stream)
      <4>1. stream \in Seq(Char)
        BY <2>1 DEF Shifted
      <4>2. r.p + 1 \in 1..n + 1 /\ n - (r.p + 1) + 1 = n - r.p /\ n - r.p \in Nat /\ n \in Nat
            /\ n <= Len(stream)
        <5> DEFINE x == r.p
        <5>1. n \in Nat /\ n <= Len(stream) /\ x \in 0..n
          BY <2>3, <3>1
        <5> HIDE DEF x
        <5>2. x + 1 \in 1..n + 1 /\ n - (x + 1) + 1 = n - x /\ n - x \in Nat
          BY <5>1
        <5> QED
          BY <5>1, <5>2 DEF x
      <4> DEFINE at == r.p + 1
      <4>3. at \in 1..n + 1
        BY <4>2
      <4> HIDE DEF at
      <4>4. SubSeq(stream, at, n) \in Seq(Char) /\ Len(SubSeq(stream, at, n)) = n - at + 1
        BY <4>1, <4>2, <4>3
      <4> QED
        BY <4>2, <4>4 DEF at
    <3>4. parser' = [Parser(r) EXCEPT !.request.body = body]
      BY <1>1, <2>10, Zenon
    <3>5. /\ parser' = Parser(parser') /\ IsRequest(parser'.request)
          /\ parser'.request.headers = r.request.headers
          /\ parser'.request.body = body
          /\ [parser'.request EXCEPT !.body = Body] = [r.request EXCEPT !.body = Body]
      <4> HIDE DEF body
      <4> QED
        BY <3>1, <3>4 DEF Parser, IsRequest
    <3>6. GetContentLength(parser'.request) = Len(Body)
      <4>1. GetContentLength(parser'.request) = GetContentLength(r.request)
        <5>1. PICK a, b : a = parser'.request /\ b = r.request
          OBVIOUS
        <5>2. GetHeader(a, ContentLength, <<>>) = GetHeader(b, ContentLength, <<>>)
          BY <3>5, <5>1 DEF GetHeader
        <5>3. GetContentLength(a) = GetContentLength(b)
          BY <5>2 DEF GetContentLength
        <5> QED
          BY <5>1, <5>3
      <4> QED
        BY <3>1, <4>1
    <3>7. /\ left' = IF Len(Body) > Len(rest) THEN Len(Body) - Len(rest) ELSE 0
          /\ phase' = IF left' > 0 THEN "body" ELSE "handle"
          /\ lost' = (lost \/ Len(rest) > Len(Body))
      <4> HIDE DEF rest
      <4> QED
        BY <2>10, <3>6 DEF HeadersDone
    <3>8. CASE Len(rest) > Len(Body)
      <4>1. lost'
        BY <3>7, <3>8
      <4>2. Gone + n > Len(first)
        <5> DEFINE x == Len(rest)
                   y == Len(Body)
                   z == Len(first)
                   q == r.p
        <5>1. /\ x \in Nat /\ y \in Nat /\ z \in Nat /\ Gone \in Nat /\ q \in Nat /\ n \in Nat
              /\ Gone + q + y = z /\ x = n - q /\ x > y
          BY <2>3, <3>1, <3>2, <3>3, <3>8
        <5> HIDE DEF x, y, z, q
        <5>2. Gone + n > z
          BY <5>1
        <5> QED
          BY <5>2 DEF z
      <4>3. Current # nsent
        <5>1. Current = nsent => Sent = first
          BY <2>3, FirstInStream DEF Sent, Request
        <5> QED
          BY <2>3, <2>5, <3>2, <4>2, <5>1
      <4>4. nsent > 1 /\ nsent > Len(handled) + 1 /\ nsent \in Int /\ Len(handled) \in Int
        BY <1>4, <2>3, <4>3 DEF Current, InStep
      <4>5. pipelined
        <5>1. ~pipelined => nsent <= Len(handled) + 1
          BY <1>4 DEF InStep
        <5> QED
          BY <4>4, <5>1
      <4> QED
        BY <4>1, <4>4, <4>5
    <3>9. CASE ~(Len(rest) > Len(Body))
      <4>1. ~lost'
        BY <1>2, <1>3, <1>4, <3>7, <3>9
      <4>2. Len(rest) <= Len(Body) /\ left' = Len(Body) - Len(rest) /\ left' \in Nat /\ left' <= Len(Body)
            /\ Len(Body) - left' = Len(rest) /\ Len(rest) \in Nat
        <5> DEFINE x == Len(rest)
                   y == Len(Body)
        <5>1. x \in Nat /\ y \in Nat /\ ~(x > y) /\ left' = IF y > x THEN y - x ELSE 0
          BY <3>2, <3>3, <3>7, <3>9
        <5> HIDE DEF x, y
        <5>2. x <= y /\ left' = y - x /\ left' \in Nat /\ left' <= y /\ y - left' = x /\ x \in Nat
          BY <5>1
        <5> QED
          BY <5>2 DEF x, y
      <4>3. body = rest
        <5> HIDE DEF rest
        <5> QED
          BY <3>1, <3>2, <3>3, <4>2, BodyOfBuffer
      <4>4. rest = SubSeq(Body, 1, Len(rest))
        <5>1. BodyFollows(plan, Current, nsent, stream, Gone, 0, r.p, n)
          <6>1. r.p \in Nat /\ r.p <= n /\ 0 + (n - r.p) <= Len(Body)
                /\ Gone + r.p + Len(Body) = Len(first) + 0
            BY <3>1, <3>2, <3>3, <4>2
          <6> QED
            BY <2>1, <2>3, <3>1, <3>3, <6>1 DEF BodyFollows, Body, Request, Sent
        <5>2. BodyGrows(plan, Current, stream, 0, r.p, n)
          BY <5>1, MoreOfBody, Zenon
        <5>3. SubSeq(Body, 1, 0) \o rest = SubSeq(Body, 1, 0 + (n - r.p))
          BY <5>2, Zenon DEF BodyGrows, Body, Request
        <5>4. 0 + (n - r.p) = Len(rest)
          BY <3>3
        <5> HIDE DEF rest
        <5>5. SubSeq(Body, 1, 0) = <<>> /\ <<>> \o rest = rest
          BY <3>2, <3>3
        <5> QED
          BY <5>3, <5>4, <5>5
      <4>5. Understood(left)'
        <5>1. Gone' = Len(first) - left'
          <6> DEFINE x == Len(rest)
                     y == Len(Body)
                     z == Len(first)
                     q == r.p
          <6>1. /\ x \in Nat /\ y \in Nat /\ z \in Nat /\ Gone \in Nat /\ q \in Nat /\ n \in Nat
                /\ Gone + q + y = z /\ x = n - q /\ left' = y - x
            BY <2>3, <3>1, <3>2, <3>3, <4>2
          <6> HIDE DEF x, y, z, q
          <6>2. Gone + n = z - left'
            BY <6>1
          <6> QED
            BY <2>5, <6>2 DEF z
        <5>2. parser'.request.body = SubSeq(Body, 1, Len(Body) - left')
          BY <3>5, <4>2, <4>3, <4>4, Zenon
        <5>3. [parser'.request EXCEPT !.body = Body] = AsSent(Request)
          BY <3>1, <3>5, Zenon
        <5>4. Current' <= nsent'
          BY <1>1, <2>2, <2>4
        <5> QED
          BY <2>4, <3>1, <3>5, <5>1, <5>2, <5>3, <5>4 DEF Understood
      <4>6. phase' = "body" => left' \in 1..Len(Body')
        <5>1. phase' = "body" => left' > 0
          BY <3>7
        <5>2. PICK x, y : x = left' /\ y = Len(Body)
          OBVIOUS
        <5>3. x \in Nat /\ y \in Nat /\ x <= y
          BY <3>2, <4>2, <5>2
        <5>4. x > 0 => x \in 1..y
          BY <5>3
        <5> QED
          BY <2>4, <5>1, <5>2, <5>4
      <4>7. phase' = "handle" => left' = 0
        <5>1. phase' = "handle" => ~(left' > 0)
          BY <3>7
        <5>2. PICK x : x = left'
          OBVIOUS
        <5>3. x \in Nat
          BY <4>2, <5>2
        <5>4. ~(x > 0) => x = 0
          BY <5>3
        <5> QED
          BY <5>1, <5>2, <5>4
      <4>8. phase' \in {"body", "handle"}
        BY <3>7
      <4> QED
        BY <1>1, <1>4, <2>5, <2>7, <4>1, <4>5, <4>6, <4>7, <4>8 DEF InStep
    <3> QED
      BY <3>8, <3>9
  <2> QED
    BY <1>1, <2>8, <2>9, <2>10
<1>5. LostOnlyWhenPipelined' /\ (~torn' /\ ~lost' => InStep')
  <2>1. CASE torn
    BY <1>3, <2>1 DEF LostOnlyWhenPipelined
  <2>2. CASE ~torn /\ lost
    <3>1. lost' /\ pipelined' = pipelined /\ nsent' = nsent
      BY <1>1, <1>3, <2>2
    <3> QED
      BY <1>2, <2>2, <3>1 DEF LostOnlyWhenPipelined
  <2>3. CASE ~torn /\ ~lost
    <3>1. pipelined' = pipelined /\ nsent' = nsent
      BY <1>1
    <3> QED
      BY <1>2, <1>4, <2>3, <3>1 DEF LostOnlyWhenPipelined
  <2> QED
    BY <2>1, <2>2, <2>3
<1> QED
  BY <1>1, <1>2, <1>3, <1>5 DEF SessionInv

-----------------------------------------------------------------------------

LEMMA StepKeeps ==
  ASSUME PlansAssumption, SessionInv, [SessionNext]_sessionVars
  PROVE  SessionInv'
<1>1. CASE ClientSend
  BY <1>1, ClientSendKeeps
<1>2. CASE RecvFail
  BY <1>2, RecvFailKeeps
<1>3. ASSUME NEW n \in 1..Len(stream), Recv(n)
      PROVE  SessionInv'
  BY <1>3, RecvKeeps
<1>4. ASSUME NEW n \in 1..Len(stream), RecvBody(n)
      PROVE  SessionInv'
  BY <1>4, RecvBodyKeeps
<1>5. CASE HandleClient
  BY <1>5, HandleClientKeeps
<1>6. CASE UNCHANGED sessionVars
  <2>1. UNCHANGED <<plan, pipelined, nsent, stream, parser, left, phase, handled, responses, torn, lost>>
    BY <1>6 DEF sessionVars
  <2>2. /\ Current' = Current /\ Request' = Request /\ Body' = Body /\ Sent' = Sent /\ Gone' = Gone
    BY <2>1 DEF Current, Request, Body, Sent, Gone
  <2>3. Receiving' = Receiving
    BY <2>1, <2>2 DEF Receiving
  <2>4. \A x : Understood(x)' = Understood(x)
    BY <2>1, <2>2 DEF Understood
  <2>5. Understood(left)' = Understood(left)
    BY <2>1, <2>2 DEF Understood
  <2>6. HandledAsSent' = HandledAsSent
    BY <2>1 DEF HandledAsSent
  <2>7. InStep => InStep'
    BY <2>1, <2>2, <2>3, <2>4, <2>5, <2>6 DEF InStep
  <2> QED
    BY <2>1, <2>7 DEF SessionInv, LostOnlyWhenPipelined
<1> QED
  BY <1>1, <1>2, <1>3, <1>4, <1>5, <1>6 DEF SessionNext, Server

(* What recvRequest keeps from one read to the next, and what it has thrown away, for      *)
(* clients whose requests the parser understands when it has them in one piece.            *)
THEOREM SessionInvariantHolds ==
  ASSUME PlansAssumption
  PROVE  SessionSpec => []SessionInv
<1>1. SessionInit => SessionInv
  BY InitSession
<1>2. SessionInv /\ [SessionNext]_sessionVars => SessionInv'
  BY StepKeeps
<1> QED
  BY <1>1, <1>2, PTL DEF SessionSpec

(* recvRequest with its reads of any size that end between tokens: servlets get exactly   *)
(* what the client wrote, one call per request and in order, and no malformed request.    *)
THEOREM RequestsAreAsSent ==
  ASSUME PlansAssumption
  PROVE  SessionSpec => []RequestAsSent
<1>1. SessionInv => RequestAsSent
  BY DEF SessionInv, InStep, RequestAsSent
<1> QED
  BY <1>1, SessionInvariantHolds, PTL

(* recvRequest throws away bytes behind a request only if the client has sent another     *)
(* one without waiting for the answer.                                                     *)
THEOREM OnlyPipelinedBytesAreLost ==
  ASSUME PlansAssumption
  PROVE  SessionSpec => []LostOnlyWhenPipelined
<1>1. SessionInv => LostOnlyWhenPipelined
  BY DEF SessionInv
<1> QED
  BY <1>1, SessionInvariantHolds, PTL

=============================================================================
