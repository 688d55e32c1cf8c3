---------------------------- MODULE SequenceLemmas ----------------------------
(***************************************************************************)
(* What the operations on queues do to the set of a queue's elements, and  *)
(* that they keep the elements of a queue distinct.                        *)
(***************************************************************************)
EXTENDS SequencesExt, SequenceTheorems, WellFoundedInduction, TLAPS

(* The empty queue *)
LEMMA EmptyElements == ToSet(<<>>) = {} /\ IsInjective(<<>>)
  BY DEF ToSet, IsInjective

LEMMA ElementsType ==
  ASSUME NEW S, NEW s \in Seq(S)
  PROVE  ToSet(s) \subseteq S /\ (s # <<>> => Head(s) \in ToSet(s))
  BY DEF ToSet

(* push_back *)
LEMMA AppendElements ==
  ASSUME NEW S, NEW s \in Seq(S), NEW e \in S
  PROVE  /\ ToSet(Append(s, e)) = ToSet(s) \cup {e}
         /\ IsInjective(s) /\ e \notin ToSet(s) => IsInjective(Append(s, e))
<1>1. /\ Append(s, e) \in Seq(S)
      /\ DOMAIN Append(s, e) = 1..Len(s) + 1
      /\ \A i \in 1..Len(s) : Append(s, e)[i] = s[i]
      /\ Append(s, e)[Len(s) + 1] = e
      /\ DOMAIN s = 1..Len(s) /\ Len(s) \in Nat
  OBVIOUS
<1> QED
  BY <1>1 DEF ToSet, IsInjective

(* pop_front *)
LEMMA TailElements ==
  ASSUME NEW S, NEW s \in Seq(S), s # <<>>
  PROVE  /\ Head(s) \in ToSet(s)
         /\ ToSet(s) = ToSet(Tail(s)) \cup {Head(s)}
         /\ IsInjective(s) => IsInjective(Tail(s)) /\ Head(s) \notin ToSet(Tail(s))
<1>1. /\ Len(s) \in Nat \ {0} /\ DOMAIN s = 1..Len(s)
      /\ DOMAIN Tail(s) = 1..Len(s) - 1
      /\ \A i \in 1..Len(s) - 1 : Tail(s)[i] = s[i + 1]
      /\ Head(s) = s[1]
  OBVIOUS
<1>2. ToSet(s) \subseteq ToSet(Tail(s)) \cup {Head(s)}
  <2> SUFFICES ASSUME NEW i \in DOMAIN s, i # 1 PROVE s[i] \in ToSet(Tail(s))
    BY <1>1 DEF ToSet
  <2>1. i - 1 \in DOMAIN Tail(s) /\ Tail(s)[i - 1] = s[i]
    BY <1>1
  <2> QED
    BY <2>1 DEF ToSet
<1>3. ToSet(Tail(s)) \cup {Head(s)} \subseteq ToSet(s)
  BY <1>1 DEF ToSet
<1>4. ASSUME IsInjective(s) PROVE IsInjective(Tail(s)) /\ Head(s) \notin ToSet(Tail(s))
  BY <1>1, <1>4 DEF ToSet, IsInjective
<1> QED
  BY <1>1, <1>2, <1>3, <1>4 DEF ToSet

(* One queue behind another *)
LEMMA ConcatElements ==
  ASSUME NEW S, NEW s \in Seq(S), NEW u \in Seq(S)
  PROVE  /\ ToSet(s \o u) = ToSet(s) \cup ToSet(u)
         /\ IsInjective(s) /\ IsInjective(u) /\ ToSet(s) \cap ToSet(u) = {} => IsInjective(s \o u)
<1>1. /\ Len(s) \in Nat /\ Len(u) \in Nat
      /\ DOMAIN s = 1..Len(s) /\ DOMAIN u = 1..Len(u)
      /\ DOMAIN (s \o u) = 1..Len(s) + Len(u)
      /\ \A i \in 1..Len(s) + Len(u) : (s \o u)[i] = IF i <= Len(s) THEN s[i] ELSE u[i - Len(s)]
  OBVIOUS
<1>2. ToSet(s \o u) \subseteq ToSet(s) \cup ToSet(u)
  BY <1>1 DEF ToSet
<1>3. ToSet(s) \subseteq ToSet(s \o u)
  BY <1>1 DEF ToSet
<1>4. ToSet(u) \subseteq ToSet(s \o u)
  <2> SUFFICES ASSUME NEW i \in DOMAIN u PROVE u[i] \in ToSet(s \o u)
    BY DEF ToSet
  <2>1. i + Len(s) \in DOMAIN (s \o u) /\ (s \o u)[i + Len(s)] = u[i]
    BY <1>1
  <2> QED
    BY <2>1 DEF ToSet
<1>5. ASSUME IsInjective(s), IsInjective(u), ToSet(s) \cap ToSet(u) = {} PROVE IsInjective(s \o u)
  <2> SUFFICES ASSUME NEW i \in DOMAIN (s \o u), NEW j \in DOMAIN (s \o u),
                      (s \o u)[i] = (s \o u)[j]
               PROVE  i = j
    BY DEF IsInjective
  <2>1. CASE i <= Len(s) /\ j <= Len(s)
    BY <1>1, <1>5, <2>1 DEF IsInjective
  <2>2. CASE i > Len(s) /\ j > Len(s)
    BY <1>1, <1>5, <2>2 DEF IsInjective
  <2>3. CASE i <= Len(s) /\ j > Len(s)
    <3>1. s[i] \in ToSet(s) /\ u[j - Len(s)] \in ToSet(u)
      BY <1>1, <2>3 DEF ToSet
    <3> QED
      BY <1>1, <1>5, <2>3, <3>1
  <2>4. CASE i > Len(s) /\ j <= Len(s)
    <3>1. s[j] \in ToSet(s) /\ u[i - Len(s)] \in ToSet(u)
      BY <1>1, <2>4 DEF ToSet
    <3> QED
      BY <1>1, <1>5, <2>4, <3>1
  <2> QED
    BY <1>1, <2>1, <2>2, <2>3, <2>4
<1> QED
  BY <1>2, <1>3, <1>4, <1>5

(* Erasing at the front up to a position *)
LEMMA SuffixElements ==
  ASSUME NEW S, NEW s \in Seq(S), NEW i \in DOMAIN s
  PROVE  /\ SubSeq(s, i, Len(s)) \in Seq(S)
         /\ ToSet(SubSeq(s, i, Len(s))) = { s[j] : j \in i..Len(s) }
         /\ IsInjective(s) => IsInjective(SubSeq(s, i, Len(s)))
<1> DEFINE u == SubSeq(s, i, Len(s))
<1>1. /\ Len(s) \in Nat /\ DOMAIN s = 1..Len(s) /\ i \in 1..Len(s)
      /\ u \in Seq(S) /\ Len(u) = Len(s) - i + 1
      /\ \A j \in 1..Len(s) - i + 1 : u[j] = s[i + j - 1]
  BY SubSeqProperties
<1>2. DOMAIN u = 1..Len(s) - i + 1
  BY <1>1
<1> HIDE DEF u
<1>3. ASSUME NEW j \in i..Len(s) PROVE s[j] \in ToSet(u)
  <2>1. j - i + 1 \in 1..Len(s) - i + 1 /\ i + (j - i + 1) - 1 = j
    BY <1>1
  <2>2. j - i + 1 \in DOMAIN u /\ u[j - i + 1] = s[j]
    BY <1>1, <1>2, <2>1
  <2> QED
    BY <2>2 DEF ToSet
<1>4. ASSUME NEW j \in DOMAIN u PROVE u[j] \in { s[m] : m \in i..Len(s) }
  <2>1. i + j - 1 \in i..Len(s) /\ u[j] = s[i + j - 1]
    BY <1>1, <1>2
  <2> QED
    BY <2>1
<1>5. ToSet(u) = { s[j] : j \in i..Len(s) }
  BY <1>3, <1>4 DEF ToSet
<1>6. ASSUME IsInjective(s) PROVE IsInjective(u)
  BY <1>1, <1>2, <1>6 DEF IsInjective
<1> QED
  BY <1>1, <1>5, <1>6 DEF u

(* A sequence is its beginning and the rest. *)
LEMMA SplitConcat ==
  ASSUME NEW S, NEW s \in Seq(S), NEW k \in 0..Len(s)
  PROVE  /\ SubSeq(s, 1, k) \in Seq(S) /\ SubSeq(s, k + 1, Len(s)) \in Seq(S)
         /\ SubSeq(s, 1, k) \o SubSeq(s, k + 1, Len(s)) = s
<1> DEFINE a == SubSeq(s, 1, k)
           b == SubSeq(s, k + 1, Len(s))
<1>1. /\ Len(s) \in Nat /\ k \in Nat /\ k <= Len(s) /\ 1 \in Int /\ k + 1 \in Int
      /\ \A i \in 1..Len(s) : s[i] \in S
  OBVIOUS
<1>2. a \in Seq(S) /\ Len(a) = k /\ \A i \in 1..k : a[i] = s[i]
  BY <1>1, SubSeqProperties
<1>3. b \in Seq(S) /\ Len(b) = Len(s) - k /\ \A i \in 1..Len(s) - k : b[i] = s[k + i]
  <2>1. /\ b \in Seq(S) /\ Len(b) = IF k + 1 <= Len(s) THEN Len(s) - (k + 1) + 1 ELSE 0
        /\ \A i \in 1..Len(s) - (k + 1) + 1 : b[i] = s[(k + 1) + i - 1]
    BY <1>1, SubSeqProperties
  <2> QED
    BY <1>1, <2>1
<1> HIDE DEF a, b
<1>4. /\ a \o b \in Seq(S) /\ Len(a \o b) = Len(s)
      /\ \A i \in 1..Len(s) : (a \o b)[i] = IF i <= k THEN a[i] ELSE b[i - k]
  <2>1. /\ a \o b \in Seq(S) /\ Len(a \o b) = Len(a) + Len(b)
        /\ \A i \in 1..Len(a) + Len(b) : (a \o b)[i] = IF i <= Len(a) THEN a[i] ELSE b[i - Len(a)]
    BY <1>2, <1>3, ConcatProperties
  <2>2. Len(a) = k /\ Len(a) + Len(b) = Len(s)
    BY <1>1, <1>2, <1>3
  <2> QED
    BY <2>1, <2>2
<1>5. \A i \in 1..Len(s) : (a \o b)[i] = s[i]
  <2> SUFFICES ASSUME NEW i \in 1..Len(s) PROVE (a \o b)[i] = s[i]
    OBVIOUS
  <2>1. CASE i <= k
    BY <1>1, <1>2, <1>4, <2>1
  <2>2. CASE ~ (i <= k)
    BY <1>1, <1>3, <1>4, <2>2
  <2> QED
    BY <2>1, <2>2
<1>6. a \o b = s
  BY <1>4, <1>5, SeqEqual
<1> QED
  BY <1>2, <1>3, <1>6 DEF a, b

(* Taking a queue apart at a position *)
LEMMA SplitElements ==
  ASSUME NEW S, NEW s \in Seq(S), NEW k \in 0..Len(s)
  PROVE  LET a == SubSeq(s, 1, k)
             b == SubSeq(s, k + 1, Len(s))
         IN /\ a \in Seq(S) /\ b \in Seq(S)
            /\ Len(a) = k /\ Len(b) = Len(s) - k
            /\ ToSet(s) = ToSet(a) \cup ToSet(b)
            /\ IsInjective(s) => IsInjective(a) /\ IsInjective(b) /\ ToSet(a) \cap ToSet(b) = {}
<1> DEFINE a == SubSeq(s, 1, k)
           b == SubSeq(s, k + 1, Len(s))
<1>1. Len(s) \in Nat /\ k \in Nat /\ k <= Len(s) /\ DOMAIN s = 1..Len(s) /\ \A i \in 1..Len(s) : s[i] \in S
  OBVIOUS
<1>2. a \in Seq(S) /\ Len(a) = k /\ \A i \in 1..k : a[i] = s[i]
  <2>1. \A i \in 1..k : s[i] \in S
    BY <1>1
  <2> QED
    BY <1>1, <2>1, SubSeqProperties
<1>3. b \in Seq(S) /\ Len(b) = Len(s) - k /\ \A i \in 1..Len(s) - k : b[i] = s[k + i]
  <2>1. \A i \in k + 1..Len(s) : s[i] \in S
    BY <1>1
  <2>2. b \in Seq(S) /\ Len(b) = (IF k + 1 <= Len(s) THEN Len(s) - (k + 1) + 1 ELSE 0)
        /\ \A i \in 1..Len(s) - (k + 1) + 1 : b[i] = s[k + 1 + i - 1]
    BY <1>1, <2>1, SubSeqProperties
  <2>3. \A i \in 1..Len(s) - k : i \in 1..Len(s) - (k + 1) + 1 /\ k + 1 + i - 1 = k + i
    BY <1>1
  <2> HIDE DEF b
  <2>4. Len(b) = Len(s) - k
    <3> DEFINE n == Len(s)
    <3>1. Len(b) = IF k + 1 <= n THEN n - (k + 1) + 1 ELSE 0
      BY <2>2, Zenon
    <3>2. n \in Nat /\ k \in Nat /\ k <= n
      BY <1>1
    <3> HIDE DEF n
    <3>3. Len(b) = n - k
      BY <3>1, <3>2
    <3> QED
      BY <3>3, Zenon DEF n
  <2> QED
    BY <2>2, <2>3, <2>4
<1>4. DOMAIN a = 1..k /\ DOMAIN b = 1..Len(s) - k
  BY <1>2, <1>3
<1> HIDE DEF a, b
<1>5. ToSet(s) \subseteq ToSet(a) \cup ToSet(b)
  <2> SUFFICES ASSUME NEW i \in 1..Len(s) PROVE s[i] \in ToSet(a) \cup ToSet(b)
    BY <1>1 DEF ToSet
  <2>1. CASE i <= k
    BY <1>1, <1>2, <1>4, <2>1 DEF ToSet
  <2>2. CASE i > k
    <3>1. i - k \in 1..Len(s) - k /\ k + (i - k) = i
      BY <1>1, <2>2
    <3> QED
      BY <1>3, <1>4, <3>1 DEF ToSet
  <2> QED
    BY <1>1, <2>1, <2>2
<1>6. \A i \in 1..Len(s) - k : k + i \in 1..Len(s)
  BY <1>1
<1>7. \A i \in 1..k : i \in 1..Len(s)
  BY <1>1
<1>8. ToSet(a) \cup ToSet(b) \subseteq ToSet(s)
  BY <1>1, <1>2, <1>3, <1>4, <1>6, <1>7 DEF ToSet
<1>9. ASSUME IsInjective(s)
      PROVE  IsInjective(a) /\ IsInjective(b) /\ ToSet(a) \cap ToSet(b) = {}
  <2>1. IsInjective(a)
    BY <1>1, <1>2, <1>4, <1>7, <1>9 DEF IsInjective
  <2>2. IsInjective(b)
    <3> SUFFICES ASSUME NEW i \in 1..Len(s) - k, NEW j \in 1..Len(s) - k, b[i] = b[j] PROVE i = j
      BY <1>4 DEF IsInjective
    <3>1. k + i = k + j
      BY <1>1, <1>3, <1>6, <1>9 DEF IsInjective
    <3> QED
      BY <1>1, <3>1
  <2>3. ASSUME NEW i \in 1..k, NEW j \in 1..Len(s) - k PROVE a[i] # b[j]
    <3>1. i # k + j
      BY <1>1
    <3> QED
      BY <1>1, <1>2, <1>3, <1>6, <1>7, <1>9, <3>1 DEF IsInjective
  <2> QED
    BY <1>4, <2>1, <2>2, <2>3 DEF ToSet
<1> QED
  BY <1>2, <1>3, <1>5, <1>8, <1>9 DEF a, b

(* The first of some positions *)
LEMMA FirstPosition ==
  ASSUME NEW T \in SUBSET Nat, T # {}
  PROVE  \E x \in T : \A y \in T : x <= y
<1> DEFINE Less == OpToRel(<, Nat)
<1>1. Less = { ss \in Nat \X Nat : ss[1] < ss[2] }
  BY Zenon DEF OpToRel
<1>2. IsWellFoundedOn(Less, Nat)
  BY NatLessThanWellFounded
<1> HIDE DEF Less
<1>3. PICK x \in T : \A y \in T : ~ (<<y, x>> \in Less)
  BY <1>2, WFMin
<1>4. ASSUME NEW y \in T PROVE x <= y
  <2>1. ~ (<<y, x>> \in { ss \in Nat \X Nat : ss[1] < ss[2] })
    BY <1>1, <1>3
  <2>2. x \in Nat /\ y \in Nat /\ ~ (y < x)
    BY <2>1
  <2> QED
    BY <2>2
<1> QED
  BY <1>4


-----------------------------------------------------------------------------

(* FlattenSeq.  The induction on the length of a sequence is written as the    *)
(* choice of a first position where the claim would fail.                      *)

\* The i-th value of g joins the first i sequences, as far as n; FlattenSeq chooses such a
\* function for the whole length.
Flattens(s, n, g) == g = [i \in 1..n |-> IF i = 1 THEN s[i] ELSE g[i-1] \o s[i]]

IsFlattening(s, g) == Flattens(s, Len(s), g)

LEMMA FlattenChooses ==
  ASSUME NEW s, Len(s) # 0
  PROVE  FlattenSeq(s) = (CHOOSE g : IsFlattening(s, g))[Len(s)]
  BY Zenon DEF FlattenSeq, IsFlattening, Flattens

LEMMA FlattenEmpty ==
  ASSUME NEW s, Len(s) = 0
  PROVE  FlattenSeq(s) = s
  BY DEF FlattenSeq

(* There is such a function. *)
LEMMA FlatteningExists ==
  ASSUME NEW S, NEW s \in Seq(Seq(S))
  PROVE  \E g \in [1..Len(s) -> Seq(S)] : IsFlattening(s, g)
<1> DEFINE Missing == { n \in 0..Len(s) : ~ \E g \in [1..n -> Seq(S)] : Flattens(s, n, g) }
<1>1. Len(s) \in Nat /\ \A i \in 1..Len(s) : s[i] \in Seq(S)
  OBVIOUS
<1>2. SUFFICES ASSUME Missing # {} PROVE FALSE
  <2>1. Len(s) \notin Missing
    BY <1>2
  <2>2. \E g \in [1..Len(s) -> Seq(S)] : Flattens(s, Len(s), g)
    BY <1>1, <2>1
  <2> QED
    BY <2>2 DEF IsFlattening
<1>3. PICK n \in Missing : \A m \in Missing : n <= m
  <2>1. Missing \in SUBSET Nat
    BY <1>1
  <2> HIDE DEF Missing
  <2> QED
    BY <1>2, <2>1, FirstPosition
<1>4. CASE n = 0
  <2> DEFINE g == [i \in 1..0 |-> <<>>]
  <2>1. g \in [1..0 -> Seq(S)]
    OBVIOUS
  <2>2. Flattens(s, 0, g)
    BY DEF Flattens
  <2> QED
    BY <1>3, <1>4, <2>1, <2>2
<1>5. CASE n # 0
  <2>1. n \in 1..Len(s) /\ n - 1 \in 0..Len(s) /\ n - 1 \notin Missing
    <3>1. n \in 0..Len(s)
      BY <1>3
    <3>2. n \in 1..Len(s) /\ n - 1 \in 0..Len(s) /\ ~ (n <= n - 1)
      BY <1>1, <1>5, <3>1
    <3> HIDE DEF Missing
    <3> QED
      BY <1>3, <3>2
  <2>2. PICK g \in [1..n - 1 -> Seq(S)] : Flattens(s, n - 1, g)
    BY <2>1
  <2> DEFINE next == IF n = 1 THEN s[1] ELSE g[n - 1] \o s[n]
             h == [i \in 1..n |-> IF i = n THEN next ELSE g[i]]
  <2>3. next \in Seq(S)
    <3>1. CASE n = 1
      BY <1>1, <2>1, <3>1
    <3>2. CASE n # 1
      <4>1. g[n - 1] \in Seq(S) /\ s[n] \in Seq(S)
        BY <1>1, <2>1, <3>2
      <4> QED
        BY <3>2, <4>1
    <3> QED
      BY <3>1, <3>2
  <2>4. h \in [1..n -> Seq(S)]
    <3> HIDE DEF next
    <3> QED
      BY <2>1, <2>3
  <2>5. ASSUME NEW i \in 1..n - 1 PROVE h[i] = g[i]
    <3>1. i \in 1..n /\ i # n
      BY <1>1, <2>1
    <3> HIDE DEF next
    <3> QED
      BY <3>1
  <2>6. h[n] = next
    BY <2>1
  <2>7. ASSUME NEW i \in 1..n
        PROVE  h[i] = IF i = 1 THEN s[i] ELSE h[i - 1] \o s[i]
    <3> HIDE DEF h
    <3>1. CASE i = n
      BY <2>1, <2>5, <2>6, <3>1
    <3>2. CASE i # n
      <4>1. i \in 1..n - 1 /\ (i # 1 => i - 1 \in 1..n - 1)
        BY <2>1, <3>2
      <4>2. g[i] = IF i = 1 THEN s[i] ELSE g[i - 1] \o s[i]
        BY <2>2, <4>1 DEF Flattens
      <4> QED
        BY <2>5, <4>1, <4>2
    <3> QED
      BY <3>1, <3>2
  <2>8. Flattens(s, n, h)
    <3>1. h = [i \in 1..n |-> h[i]]
      OBVIOUS
    <3> HIDE DEF h
    <3> QED
      BY <2>7, <3>1 DEF Flattens
  <2> QED
    BY <1>3, <2>4, <2>8
<1> QED
  BY <1>4, <1>5

(* What FlattenSeq makes of a sequence of sequences, step by step. *)
LEMMA FlattenSteps ==
  ASSUME NEW S, NEW s \in Seq(Seq(S)), s # <<>>
  PROVE  \E g \in [1..Len(s) -> Seq(S)] :
            /\ FlattenSeq(s) = g[Len(s)]
            /\ g[1] = s[1]
            /\ \A i \in 2..Len(s) : g[i] = g[i - 1] \o s[i]
<1> DEFINE g == CHOOSE f : IsFlattening(s, f)
<1>1. PICK h \in [1..Len(s) -> Seq(S)] : IsFlattening(s, h)
  BY FlatteningExists
<1>2. IsFlattening(s, g)
  BY <1>1
<1>3. Len(s) \in Nat \ {0}
  OBVIOUS
<1>4. FlattenSeq(s) = g[Len(s)]
  BY <1>3, FlattenChooses
<1> HIDE DEF g
<1>5. /\ g[1] = s[1] /\ \A i \in 2..Len(s) : g[i] = g[i - 1] \o s[i]
      /\ DOMAIN g = 1..Len(s) /\ g = [i \in 1..Len(s) |-> g[i]]
  <2>1. g = [i \in 1..Len(s) |-> IF i = 1 THEN s[i] ELSE g[i-1] \o s[i]]
    BY <1>2 DEF IsFlattening, Flattens
  <2>2. DOMAIN g = 1..Len(s)
    BY <2>1
  <2>3. \A i \in 1..Len(s) : g[i] = IF i = 1 THEN s[i] ELSE g[i-1] \o s[i]
    BY Zenon, <2>1
  <2>4. g = [i \in 1..Len(s) |-> g[i]]
    BY <2>1, <2>2
  <2>5. g[1] = s[1]
    BY <1>3, <2>3
  <2>6. ASSUME NEW i \in 2..Len(s) PROVE g[i] = g[i - 1] \o s[i]
    <3>1. i \in 1..Len(s) /\ i # 1
      BY <1>3
    <3> QED
      BY <2>3, <3>1
  <2> QED
    BY <2>2, <2>4, <2>5, <2>6
<1>6. ASSUME NEW i \in 1..Len(s) PROVE g[i] \in Seq(S)
  <2> DEFINE Bad == { m \in 1..Len(s) : g[m] \notin Seq(S) }
  <2> SUFFICES ASSUME Bad # {} PROVE FALSE
    BY <1>6
  <2>1. Bad \in SUBSET Nat
    BY <1>3
  <2>2. PICK m \in Bad : \A x \in Bad : m <= x
    <3> HIDE DEF Bad
    <3> QED
      BY <2>1, FirstPosition
  <2>3. m \in 1..Len(s) /\ s[m] \in Seq(S)
    BY <2>2
  <2>4. m # 1
    BY <1>5, <2>2, <2>3
  <2>5. m - 1 \in 1..Len(s) /\ m \in 2..Len(s) /\ m - 1 \notin Bad
    BY <1>3, <2>2, <2>3, <2>4
  <2>6. g[m - 1] \in Seq(S)
    BY <2>5
  <2>7. g[m] \in Seq(S)
    <3>1. g[m] = g[m - 1] \o s[m]
      BY <1>5, <2>5
    <3>2. g[m - 1] \o s[m] \in Seq(S)
      BY <2>3, <2>6
    <3> QED
      BY <3>1, <3>2
  <2> QED
    BY <2>2, <2>7
<1>7. g \in [1..Len(s) -> Seq(S)]
  BY <1>5, <1>6
<1> QED
  BY <1>4, <1>5, <1>7

(* A sequence of one, and one more at the end *)
LEMMA FlattenAppend ==
  ASSUME NEW S, NEW s \in Seq(Seq(S)), NEW e \in Seq(S)
  PROVE  /\ FlattenSeq(s) \in Seq(S)
         /\ FlattenSeq(Append(s, e)) = FlattenSeq(s) \o e
<1> DEFINE t == Append(s, e)
<1>1. /\ Len(s) \in Nat /\ t \in Seq(Seq(S)) /\ t # <<>> /\ Len(t) = Len(s) + 1
      /\ t[Len(s) + 1] = e /\ \A i \in 1..Len(s) : t[i] = s[i]
  <2> DEFINE E == Seq(S)
  <2>1. s \in Seq(E) /\ e \in E
    OBVIOUS
  <2> HIDE DEF E
  <2>2. /\ Len(s) \in Nat /\ t \in Seq(E) /\ Len(t) = Len(s) + 1
        /\ t[Len(s) + 1] = e /\ \A i \in 1..Len(s) : t[i] = s[i]
    BY <2>1
  <2>3. t # <<>>
    BY <2>1
  <2> QED
    BY <2>2, <2>3 DEF E
<1> HIDE DEF t
<1>2. PICK G \in [1..Len(t) -> Seq(S)] :
         /\ FlattenSeq(t) = G[Len(t)] /\ G[1] = t[1]
         /\ \A i \in 2..Len(t) : G[i] = G[i - 1] \o t[i]
  <2>1. t \in Seq(Seq(S)) /\ t # <<>>
    BY <1>1
  <2> QED
    BY <2>1, FlattenSteps, Zenon
<1>3. CASE s = <<>>
  <2>1. FlattenSeq(s) = <<>>
    BY <1>3, FlattenEmpty
  <2>2. FlattenSeq(t) = e
    BY <1>1, <1>2, <1>3
  <2> QED
    BY <2>1, <2>2 DEF t
<1>4. CASE s # <<>>
  <2>1. PICK g \in [1..Len(s) -> Seq(S)] :
           /\ FlattenSeq(s) = g[Len(s)] /\ g[1] = s[1]
           /\ \A i \in 2..Len(s) : g[i] = g[i - 1] \o s[i]
    BY <1>4, FlattenSteps
  <2>2. Len(s) \in Nat \ {0}
    BY <1>1, <1>4
  <2>3. \A i \in 1..Len(s) : G[i] = g[i]
    <3> DEFINE Differ == { i \in 1..Len(s) : G[i] # g[i] }
    <3> SUFFICES ASSUME Differ # {} PROVE FALSE
      OBVIOUS
    <3>1. Differ \in SUBSET Nat
      BY <2>2
    <3>2. PICK i \in Differ : \A j \in Differ : i <= j
      <4> HIDE DEF Differ
      <4> QED
        BY <3>1, FirstPosition
    <3>3. i \in 1..Len(s) /\ i # 1
      BY <1>1, <1>2, <2>1, <2>2, <3>2
    <3>4. /\ i - 1 \in 1..Len(s) /\ i \in 2..Len(s) /\ i \in 2..Len(t)
          /\ ~ (i <= i - 1)
      BY <1>1, <2>2, <3>3
    <3>5. i - 1 \notin Differ
      <4> HIDE DEF Differ
      <4> QED
        BY <3>2, <3>4
    <3>6. G[i - 1] = g[i - 1]
      BY <3>4, <3>5
    <3>7. G[i] = g[i]
      BY <1>1, <1>2, <2>1, <3>3, <3>4, <3>6
    <3> QED
      BY <3>2, <3>7
  <2>4. G[Len(t)] = G[Len(s)] \o e
    <3>1. Len(t) \in 2..Len(t) /\ Len(t) - 1 = Len(s)
      BY <1>1, <2>2
    <3> QED
      BY <1>1, <1>2, <3>1
  <2>5. FlattenSeq(t) = FlattenSeq(s) \o e
    <3>1. G[Len(s)] = g[Len(s)]
      BY <2>2, <2>3
    <3> QED
      BY <1>2, <2>1, <2>4, <3>1, Zenon
  <2>6. FlattenSeq(s) \in Seq(S)
    <3>1. Len(s) \in 1..Len(s)
      BY <2>2
    <3>2. g[Len(s)] \in Seq(S)
      BY <3>1
    <3> QED
      BY <2>1, <3>2, Zenon
  <2> QED
    BY <2>5, <2>6 DEF t
<1> QED
  BY <1>3, <1>4

LEMMA FlattenType ==
  ASSUME NEW S, NEW s \in Seq(Seq(S))
  PROVE  FlattenSeq(s) \in Seq(S)
<1>1. <<>> \in Seq(S)
  OBVIOUS
<1> QED
  BY <1>1, FlattenAppend

LEMMA FlattenBoth ==
  ASSUME NEW S, NEW a \in Seq(Seq(S)), NEW b \in Seq(Seq(S)), NEW x \in Seq(S), NEW e \in Seq(S),
         FlattenSeq(a) = x \o FlattenSeq(b)
  PROVE  FlattenSeq(Append(a, e)) = x \o FlattenSeq(Append(b, e))
<1>1. /\ FlattenSeq(Append(a, e)) = FlattenSeq(a) \o e
      /\ FlattenSeq(Append(b, e)) = FlattenSeq(b) \o e
      /\ FlattenSeq(b) \in Seq(S)
  BY FlattenAppend
<1>2. \A y \in Seq(S) : (x \o y) \o e = x \o (y \o e)
  BY ConcatAssociative, SMTT(20)
<1> QED
  BY <1>1, <1>2

(* The first sequence comes first. *)
LEMMA FlattenSuffix ==
  ASSUME NEW S, NEW s \in Seq(Seq(S)), NEW i \in 1..Len(s)
  PROVE  FlattenSeq(SubSeq(s, i, Len(s))) = s[i] \o FlattenSeq(SubSeq(s, i + 1, Len(s)))
<1>1. Len(s) \in Nat /\ i \in Nat \ {0} /\ i <= Len(s) /\ s[i] \in Seq(S)
  OBVIOUS
<1> DEFINE P(n) == FlattenSeq(SubSeq(s, i, n)) = s[i] \o FlattenSeq(SubSeq(s, i + 1, n))
           Fail == { n \in i..Len(s) : ~ P(n) }
<1> SUFFICES ASSUME Fail # {} PROVE FALSE
  <2>1. Len(s) \in i..Len(s)
    BY <1>1
  <2> HIDE DEF P
  <2>2. P(Len(s))
    BY <2>1
  <2> QED
    BY <2>2 DEF P
<1> HIDE DEF P
<1>2. Fail \in SUBSET Nat
  BY <1>1
<1>3. PICK n \in Fail : \A m \in Fail : n <= m
  <2> HIDE DEF Fail
  <2> QED
    BY <1>2, FirstPosition
<1>4. n \in i..Len(s) /\ ~ P(n)
  BY <1>3
<1>5. CASE n = i
  <2>1. SubSeq(s, i, i) = << s[i] >> /\ SubSeq(s, i + 1, i) = <<>>
    <3>1. i \in i..Len(s) /\ i + 1 \in Int /\ i \in Int /\ i < i + 1
      BY <1>1
    <3>2. SubSeq(s, i + 1, i) = <<>>
      BY <3>1, SubSeqEmpty
    <3>3. SubSeq(s, i, i) = << s[i] >> \o SubSeq(s, i + 1, i)
      BY <3>1, SubSeqRecursiveFirst
    <3>4. << s[i] >> \in Seq({ s[i] })
      OBVIOUS
    <3>5. << s[i] >> \o <<>> = << s[i] >>
      BY <3>4, ConcatEmptySeq, Zenon
    <3> QED
      BY <3>2, <3>3, <3>5, Zenon
  <2>2. << s[i] >> = Append(<<>>, s[i]) /\ <<>> \in Seq(Seq(S)) /\ <<>> \in Seq(S)
    BY <1>1
  <2>3. FlattenSeq(<<>>) = <<>>
    BY FlattenEmpty
  <2>4. FlattenSeq(<< s[i] >>) = <<>> \o s[i]
    BY <1>1, <2>2, <2>3, FlattenAppend
  <2>5. s[i] \o <<>> = s[i] /\ <<>> \o s[i] = s[i]
    BY <1>1
  <2>6. P(i)
    BY <2>1, <2>3, <2>4, <2>5 DEF P
  <2> QED
    BY <1>4, <1>5, <2>6
<1>6. CASE n # i
  <2>1. n - 1 \in i..Len(s) /\ ~ (n <= n - 1) /\ n \in 1..Len(s) /\ s[n] \in Seq(S)
    BY <1>1, <1>4, <1>6
  <2>2. n - 1 \notin Fail
    <3> HIDE DEF Fail
    <3> QED
      BY <1>3, <2>1
  <2>3. P(n - 1)
    BY <2>1, <2>2
  <2> DEFINE a == SubSeq(s, i, n - 1)
             b == SubSeq(s, i + 1, n - 1)
  <2>4. /\ a \in Seq(Seq(S)) /\ b \in Seq(Seq(S))
        /\ SubSeq(s, i, n) = Append(a, s[n]) /\ SubSeq(s, i + 1, n) = Append(b, s[n])
    <3> DEFINE E == Seq(S)
    <3>1. s \in Seq(E)
      OBVIOUS
    <3> HIDE DEF E
    <3>2. /\ a \in Seq(E) /\ b \in Seq(E)
          /\ SubSeq(s, i, n) = Append(a, s[n]) /\ SubSeq(s, i + 1, n) = Append(b, s[n])
      <4>1. /\ n - 1 \in Int /\ i + 1 \in Int /\ i \in Int
            /\ \A j \in i..n - 1 : s[j] \in E
            /\ \A j \in i + 1..n - 1 : s[j] \in E
            /\ s[n] \in E
        BY <1>1, <2>1, <3>1
      <4>2. a \in Seq(E) /\ b \in Seq(E)
        BY <4>1, SubSeqProperties
      <4>3. i \in 1..Len(s) /\ i + 1 \in 1..Len(s) /\ n \in i..Len(s) /\ n \in i + 1..Len(s)
        BY <1>1, <1>4, <1>6
      <4>4. SubSeq(s, i, n) = a \o << s[n] >> /\ SubSeq(s, i + 1, n) = b \o << s[n] >>
        BY <3>1, <4>3, SubSeqRecursiveSecond
      <4>5. Append(a, s[n]) = a \o << s[n] >> /\ Append(b, s[n]) = b \o << s[n] >>
        BY <4>1, <4>2, AppendIsConcat
      <4> QED
        BY <4>2, <4>4, <4>5
    <3> QED
      BY <3>2 DEF E
  <2>5. FlattenSeq(a) = s[i] \o FlattenSeq(b)
    BY <2>3 DEF P
  <2> HIDE DEF a, b
  <2>6. FlattenSeq(Append(a, s[n])) = s[i] \o FlattenSeq(Append(b, s[n]))
    <3> HIDE DEF Fail
    <3> QED
      BY <1>1, <2>1, <2>4, <2>5, FlattenBoth, ZenonT(30)
  <2>7. P(n)
    BY <2>4, <2>6, Zenon DEF P
  <2> QED
    BY <1>4, <2>7
<1> QED
  BY <1>5, <1>6

(* Max takes the last element of a set of positions. *)
LEMMA MaxOfPositions ==
  ASSUME NEW n \in Nat, NEW s \in SUBSET (1..n), s # {}
  PROVE  /\ Max(s) \in s
         /\ \A i \in s : i <= Max(s)
<1> DEFINE Back == { n - i : i \in s }
<1>1. Back \in SUBSET Nat /\ Back # {}
  <2>1. PICK e \in s : TRUE
    OBVIOUS
  <2>2. n - e \in Back /\ \A i \in s : n - i \in Nat
    BY <2>1
  <2> QED
    BY <2>2
<1>2. PICK x \in Back : \A y \in Back : x <= y
  BY <1>1, FirstPosition
<1>3. n - x \in s /\ \A i \in s : i <= n - x
  BY <1>2
<1> QED
  BY <1>3 DEF Max
=============================================================================
