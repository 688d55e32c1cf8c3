--------------------------- MODULE SchedulerProofs ---------------------------
(***************************************************************************)
(* Proofs about Scheduler, for any number of processors and tasks and any  *)
(* number of rounds of the balance thread.                                 *)
(***************************************************************************)
EXTENDS Scheduler, ProcessorProofs, FiniteSetTheorems

ActiveEntry == [load : Nat, proc : Procs]
Share == [proc : Procs, n : Nat]

LEMMA ProcsAre == N \in Nat \ {0} /\ Procs = 0..(N - 1)
<1>1. N \in Nat
  BY SchedulerAssumption, FS_CardinalityType DEF N
<1>2. Procs = 0..(N - 1) /\ Procs # {}
  BY SchedulerAssumption DEF N
<1> QED
  BY <1>1, <1>2

-----------------------------------------------------------------------------
(* The loads, which the average is computed from                            *)

(* SumLoads chooses such a function for k. *)
Sums(k, g) == g = [j \in 0..k |-> IF j = 0 THEN 0 ELSE g[j - 1] + Load(j)]

LEMMA LoadType ==
  ASSUME actives \in Seq(ActiveEntry), NEW k \in 1..Len(actives)
  PROVE  Load(k) \in Nat /\ actives[k].proc \in Procs
<1>1. actives[k] \in ActiveEntry
  OBVIOUS
<1> QED
  BY <1>1 DEF ActiveEntry, Load

LEMMA SumsExist ==
  ASSUME actives \in Seq(ActiveEntry), NEW k \in 0..Len(actives)
  PROVE  \E g \in [0..k -> Nat] : Sums(k, g)
<1> DEFINE Missing == { n \in 0..Len(actives) : ~ \E g \in [0..n -> Nat] : Sums(n, g) }
<1>1. Len(actives) \in Nat /\ \A j \in 1..Len(actives) : Load(j) \in Nat
  BY LoadType
<1>2. SUFFICES ASSUME Missing # {} PROVE FALSE
  BY <1>2
<1>3. PICK n \in Missing : \A m \in Missing : n <= m
  <2>1. Missing \in SUBSET Nat
    BY <1>1
  <2> HIDE DEF Missing
  <2> QED
    BY <1>2, <2>1, FirstPosition
<1>4. n \in 0..Len(actives) /\ ~ \E g \in [0..n -> Nat] : Sums(n, g)
  BY <1>3
<1>5. CASE n = 0
  <2> DEFINE g == [j \in 0..0 |-> 0]
  <2>1. g \in [0..0 -> Nat]
    OBVIOUS
  <2>2. Sums(0, g)
    BY DEF Sums
  <2> QED
    BY <1>4, <1>5, <2>1, <2>2
<1>6. CASE n # 0
  <2>1. n \in 1..Len(actives) /\ n - 1 \in 0..Len(actives) /\ ~ (n <= n - 1)
    BY <1>1, <1>4, <1>6
  <2>2. n - 1 \notin Missing
    <3> HIDE DEF Missing
    <3> QED
      BY <1>3, <2>1
  <2>3. PICK g \in [0..n - 1 -> Nat] : Sums(n - 1, g)
    BY <2>1, <2>2
  <2> HIDE DEF Missing
  <2> DEFINE h == [j \in 0..n |-> IF j = n THEN g[n - 1] + Load(n) ELSE g[j]]
  <2>4. g[n - 1] \in Nat /\ Load(n) \in Nat /\ g[n - 1] + Load(n) \in Nat
    BY <1>1, <2>1
  <2>5. h \in [0..n -> Nat]
    BY <2>1, <2>4
  <2>6. h[n] = g[n - 1] + Load(n) /\ \A j \in 0..n - 1 : h[j] = g[j]
    BY <2>1
  <2>7. \A j \in 0..n - 1 : g[j] = IF j = 0 THEN 0 ELSE g[j - 1] + Load(j)
    BY <2>3, Zenon DEF Sums
  <2> HIDE DEF h
  <2>8. ASSUME NEW j \in 0..n
        PROVE  h[j] = IF j = 0 THEN 0 ELSE h[j - 1] + Load(j)
    <3>1. CASE j = n
      <4>1. n - 1 \in 0..n - 1 /\ n # 0
        BY <2>1
      <4> QED
        BY <2>6, <3>1, <4>1
    <3>2. CASE j # n
      <4>1. j \in 0..n - 1 /\ (j # 0 => j - 1 \in 0..n - 1)
        BY <2>1, <3>2
      <4> QED
        BY <2>6, <2>7, <4>1
    <3> QED
      BY <3>1, <3>2
  <2>9. Sums(n, h)
    <3>1. h = [j \in 0..n |-> h[j]]
      BY <2>5
    <3> QED
      BY <2>8, <3>1 DEF Sums
  <2> QED
    BY <1>4, <2>5, <2>9
<1> QED
  BY <1>5, <1>6

(* What SumLoads is, step by step *)
LEMMA SumIsLast ==
  ASSUME actives \in Seq(ActiveEntry), NEW k \in 0..Len(actives),
         NEW g \in [0..k -> Nat], Sums(k, g), NEW j \in 0..k
  PROVE  SumLoads(j) = g[j]
<1> DEFINE f == CHOOSE x : Sums(j, x)
<1>1. Len(actives) \in Nat /\ k \in Nat /\ j \in Nat /\ j \in 0..Len(actives)
  OBVIOUS
<1>2. Sums(j, f)
  BY <1>1, SumsExist
<1>3. SumLoads(j) = f[j]
  BY Zenon DEF SumLoads, Sums
<1> HIDE DEF f
<1>4. \A i \in 0..j : f[i] = IF i = 0 THEN 0 ELSE f[i - 1] + Load(i)
  BY <1>2, Zenon DEF Sums
<1>5. \A i \in 0..k : g[i] = IF i = 0 THEN 0 ELSE g[i - 1] + Load(i)
  BY Zenon DEF Sums
<1> DEFINE Differ == { i \in 0..j : f[i] # g[i] }
<1>6. SUFFICES ASSUME Differ # {} PROVE FALSE
  <2>1. j \in 0..j
    BY <1>1
  <2> QED
    BY <1>3, <2>1
<1>7. PICK i \in Differ : \A m \in Differ : i <= m
  <2>1. Differ \in SUBSET Nat
    BY <1>1
  <2> HIDE DEF Differ
  <2> QED
    BY <1>6, <2>1, FirstPosition
<1>8. i \in 0..j /\ f[i] # g[i] /\ i \in 0..k
  BY <1>1, <1>7
<1>9. i # 0
  BY <1>4, <1>5, <1>8
<1>10. i - 1 \in 0..j /\ ~ (i <= i - 1)
  BY <1>1, <1>8, <1>9
<1>11. i - 1 \notin Differ
  <2> HIDE DEF Differ
  <2> QED
    BY <1>7, <1>10
<1>12. f[i - 1] = g[i - 1]
  BY <1>10, <1>11
<1> QED
  BY <1>4, <1>5, <1>8, <1>9, <1>12

LEMMA SumSteps ==
  ASSUME actives \in Seq(ActiveEntry)
  PROVE  /\ SumLoads(0) = 0
         /\ \A k \in 0..Len(actives) : SumLoads(k) \in Nat
         /\ \A k \in 1..Len(actives) : SumLoads(k) = SumLoads(k - 1) + Load(k)
<1> DEFINE n == Len(actives)
<1>1. n \in Nat /\ n \in 0..n
  OBVIOUS
<1>2. PICK g \in [0..n -> Nat] : Sums(n, g)
  BY <1>1, SumsExist
<1>3. \A j \in 0..n : SumLoads(j) = g[j]
  BY <1>1, <1>2, SumIsLast
<1>4. \A i \in 0..n : g[i] = IF i = 0 THEN 0 ELSE g[i - 1] + Load(i)
  BY <1>2, Zenon DEF Sums
<1> HIDE DEF n
<1>5. SumLoads(0) = 0
  <2>1. 0 \in 0..n
    BY <1>1
  <2> QED
    BY <1>3, <1>4, <2>1
<1>6. ASSUME NEW k \in 0..n PROVE SumLoads(k) \in Nat
  BY <1>3
<1>7. ASSUME NEW k \in 1..n PROVE SumLoads(k) = SumLoads(k - 1) + Load(k)
  <2>1. k \in 0..n /\ k - 1 \in 0..n /\ k # 0
    BY <1>1
  <2> QED
    BY <1>3, <1>4, <2>1
<1> QED
  BY <1>5, <1>6, <1>7 DEF n

-----------------------------------------------------------------------------
(* Positions in a sorted list                                               *)

LEMMA PrefixIsInterval ==
  ASSUME NEW n \in Nat, NEW T \in SUBSET (1..n),
         \A i, j \in 1..n : i <= j /\ j \in T => i \in T
  PROVE  Cardinality(T) \in 0..n /\ T = 1..Cardinality(T)
<1>1. \E k \in 0..n : T = 1..k
  <2> DEFINE Above == (1..n) \ T
  <2>1. CASE Above = {}
    <3>1. T = 1..n
      BY <2>1, Zenon
    <3>2. n \in 0..n
      OBVIOUS
    <3> QED
      BY <3>1, <3>2, Zenon
  <2>2. CASE Above # {}
    <3>1. PICK f \in Above : \A y \in Above : f <= y
      <4>1. Above \in SUBSET Nat
        OBVIOUS
      <4> HIDE DEF Above
      <4> QED
        BY <2>2, <4>1, FirstPosition
    <3>2. f \in 1..n /\ f - 1 \in 0..n
      BY <3>1
    <3>3. \A i \in 1..n : i \in T <=> i <= f - 1
      BY <3>1, <3>2
    <3> HIDE DEF Above
    <3>4. ASSUME NEW x PROVE x \in T <=> x \in 1..f - 1
      <4>1. T \subseteq 1..n /\ 1..f - 1 \subseteq 1..n
        BY <3>2
      <4>2. ASSUME x \in 1..n PROVE x \in T <=> x \in 1..f - 1
        <5>1. x \in 1..f - 1 <=> x <= f - 1
          BY <3>2, <4>2
        <5> QED
          BY <3>3, <4>2, <5>1, Zenon
      <4> QED
        BY <4>1, <4>2, Zenon
    <3>5. T = 1..f - 1
      BY <3>4
    <3> QED
      BY <3>2, <3>5, Zenon
  <2> QED
    BY <2>1, <2>2
<1>2. PICK k \in 0..n : T = 1..k
  BY <1>1
<1>3. Cardinality(1..k) = k
  <2>1. Cardinality(1..k) = IF 1 > k THEN 0 ELSE k - 1 + 1
    BY FS_Interval
  <2> QED
    BY <2>1
<1> QED
  BY <1>2, <1>3

LEMMA SuffixIsInterval ==
  ASSUME NEW n \in Nat, NEW T \in SUBSET (1..n),
         \A i, j \in 1..n : i <= j /\ i \in T => j \in T
  PROVE  Cardinality(T) \in 0..n /\ T = n + 1 - Cardinality(T)..n
<1> DEFINE U == (1..n) \ T
<1>1. Cardinality(U) \in 0..n /\ U = 1..Cardinality(U)
  <2>1. U \in SUBSET (1..n) /\ \A i, j \in 1..n : i <= j /\ j \in U => i \in U
    OBVIOUS
  <2> HIDE DEF U
  <2> QED
    BY <2>1, PrefixIsInterval
<1> DEFINE k == Cardinality(U)
<1>2. \A i \in 1..n : i \in T <=> i \in k + 1..n
  BY <1>1
<1>3. k \in 0..n
  BY <1>1
<1> HIDE DEF U, k
<1>4. T = k + 1..n
  <2>1. ASSUME NEW x PROVE x \in T <=> x \in k + 1..n
    <3>1. T \subseteq 1..n /\ k + 1..n \subseteq 1..n
      BY <1>3
    <3> QED
      BY <1>2, <3>1, Zenon
  <2> QED
    BY <2>1
<1>5. Cardinality(k + 1..n) = n - k
  <2>1. Cardinality(k + 1..n) = IF k + 1 > n THEN 0 ELSE n - (k + 1) + 1
    BY <1>3, FS_Interval
  <2> QED
    BY <1>3, <2>1
<1>6. n - k \in 0..n /\ n + 1 - (n - k) = k + 1
  BY <1>3
<1> QED
  BY <1>4, <1>5, <1>6

(* actives is a multimap, sorted by load. *)
Sorted(m) == \A i, j \in 1..Len(m) : i <= j => m[i].load <= m[j].load

Emplaced(m, e, u) ==
    /\ u \in Seq(ActiveEntry) /\ Sorted(u)
    /\ Len(u) = Len(m) + 1 /\ ToSet(u) = ToSet(m) \cup {e}

LEMMA EmplaceSorts ==
  ASSUME NEW m \in Seq(ActiveEntry), Sorted(m), NEW load \in Nat, NEW p \in Procs
  PROVE  Emplaced(m, [load |-> load, proc |-> p], Emplace(m, load, p))
<1> DEFINE e == [load |-> load, proc |-> p]
           T == {i \in DOMAIN m : m[i].load <= load}
           k == Cardinality(T)
           n == Len(m)
<1>1. n \in Nat /\ DOMAIN m = 1..n /\ e \in ActiveEntry /\ e.load = load
      /\ \A i \in 1..n : m[i] \in ActiveEntry /\ m[i].load \in Nat
  <2>1. e \in ActiveEntry
    BY DEF ActiveEntry
  <2>2. ASSUME NEW i \in 1..n PROVE m[i] \in ActiveEntry /\ m[i].load \in Nat
    <3>1. m[i] \in ActiveEntry
      OBVIOUS
    <3> QED
      BY <3>1 DEF ActiveEntry
  <2> QED
    BY <2>1, <2>2
<1>2. k \in 0..n /\ T = 1..k
  <2>1. T \in SUBSET (1..n)
    BY <1>1
  <2>2. \A i, j \in 1..n : i <= j /\ j \in T => i \in T
    BY <1>1 DEF Sorted
  <2> HIDE DEF T, n
  <2> QED
    BY <1>1, <2>1, <2>2, PrefixIsInterval
<1> DEFINE a == SubSeq(m, 1, k)
           b == SubSeq(m, k + 1, n)
           u == a \o <<e>> \o b
<1>3. Emplace(m, load, p) = u
  <2>1. Emplace(m, load, p) = SubSeq(m, 1, (k + 1) - 1) \o <<e>> \o SubSeq(m, k + 1, Len(m))
    BY Zenon DEF Emplace, InsertAt
  <2>2. (k + 1) - 1 = k
    BY <1>2
  <2> HIDE DEF k, e
  <2> QED
    BY <2>1, <2>2
<1>4. a \in Seq(ActiveEntry) /\ Len(a) = k /\ \A i \in 1..k : a[i] = m[i]
  <2>1. \A i \in 1..k : m[i] \in ActiveEntry
    BY <1>1, <1>2
  <2> HIDE DEF k
  <2> QED
    BY <1>2, <2>1, SubSeqProperties
<1>5. b \in Seq(ActiveEntry) /\ Len(b) = n - k /\ ToSet(m) = ToSet(a) \cup ToSet(b)
  <2> HIDE DEF k
  <2> QED
    BY <1>2, SplitElements
<1>6. \A i \in 1..n - k : b[i] = m[k + i]
  <2> HIDE DEF k
  <2>1. \A i \in k + 1..n : m[i] \in ActiveEntry
    BY <1>1, <1>2
  <2>2. \A i \in 1..n - (k + 1) + 1 : b[i] = m[k + 1 + i - 1]
    BY <1>1, <1>2, <2>1, SubSeqProperties
  <2> HIDE DEF b, n
  <2>3. \A i \in 1..n - k : i \in 1..n - (k + 1) + 1 /\ k + 1 + i - 1 = k + i
    BY <1>1, <1>2
  <2> QED
    BY <2>2, <2>3
<1> HIDE DEF e, k, n, a, b
<1>7. u \in Seq(ActiveEntry) /\ Len(u) = n + 1 /\ ToSet(u) = ToSet(m) \cup {e}
  <2>1. <<e>> \in Seq(ActiveEntry) /\ Len(<<e>>) = 1 /\ ToSet(<<e>>) = {e}
    BY <1>1 DEF ToSet
  <2>2. a \o <<e>> \in Seq(ActiveEntry) /\ ToSet(a \o <<e>>) = ToSet(a) \cup {e}
        /\ Len(a \o <<e>>) = k + 1
    <3>1. ToSet(a \o <<e>>) = ToSet(a) \cup ToSet(<<e>>)
      BY <1>4, <2>1, ConcatElements
    <3> QED
      BY <1>2, <1>4, <2>1, <3>1
  <2> DEFINE c == a \o <<e>>
  <2> HIDE DEF c
  <2>3. ToSet(c \o b) = ToSet(c) \cup ToSet(b)
    <3>1. c \in Seq(ActiveEntry)
      BY <2>2 DEF c
    <3> QED
      BY <1>5, <3>1, ConcatElements
  <2>4. Len(u) = k + 1 + (n - k) /\ u \in Seq(ActiveEntry)
    <3>1. c \in Seq(ActiveEntry) /\ Len(c) = k + 1
      BY <2>2 DEF c
    <3>2. Len(c \o b) = Len(c) + Len(b) /\ c \o b \in Seq(ActiveEntry)
      BY <1>5, <3>1
    <3> QED
      BY <1>5, <3>1, <3>2 DEF c
  <2>5. k + 1 + (n - k) = n + 1
    BY <1>1, <1>2
  <2> QED
    BY <1>5, <2>2, <2>3, <2>4, <2>5 DEF c
<1>8. \A i \in 1..n + 1 : u[i] = IF i <= k THEN m[i] ELSE IF i = k + 1 THEN e ELSE m[i - 1]
  <2> SUFFICES ASSUME NEW i \in 1..n + 1
               PROVE  u[i] = IF i <= k THEN m[i] ELSE IF i = k + 1 THEN e ELSE m[i - 1]
    OBVIOUS
  <2>1. \A x \in 1..k + 1 : (a \o <<e>>)[x] = IF x <= k THEN a[x] ELSE e
    BY <1>2, <1>4
  <2>2. Len(a \o <<e>>) = k + 1 /\ a \o <<e>> \in Seq(ActiveEntry)
    BY <1>1, <1>2, <1>4
  <2>3. u[i] = IF i <= k + 1 THEN (a \o <<e>>)[i] ELSE b[i - (k + 1)]
    BY <1>1, <1>2, <1>5, <2>2
  <2>4. CASE i <= k + 1
    BY <1>1, <1>2, <1>4, <2>1, <2>3, <2>4
  <2>5. CASE i > k + 1
    <3>1. i - (k + 1) \in 1..n - k /\ k + (i - (k + 1)) = i - 1 /\ ~ (i <= k + 1) /\ ~ (i <= k)
          /\ i # k + 1
      BY <1>1, <1>2, <2>5
    <3> QED
      BY <1>6, <2>3, <3>1
  <2>6. i <= k + 1 \/ i > k + 1
    BY <1>1, <1>2
  <2> QED
    BY <2>4, <2>5, <2>6
<1>9. Sorted(u)
  <2> SUFFICES ASSUME NEW i \in 1..n + 1, NEW j \in 1..n + 1, i <= j
               PROVE  u[i].load <= u[j].load
    BY <1>7 DEF Sorted
  <2>1. \A x \in 1..k : m[x].load <= load
    BY <1>2 DEF k
  <2>2. \A x \in k + 1..n : m[x].load >= load
    <3> SUFFICES ASSUME NEW x \in k + 1..n PROVE m[x].load >= load
      OBVIOUS
    <3>1. x \in 1..n /\ x \notin 1..k
      BY <1>1, <1>2
    <3>2. ~ (m[x].load <= load)
      BY <1>1, <1>2, <3>1
    <3> QED
      BY <1>1, <3>1, <3>2
  <2>3. \A x, y \in 1..n : x <= y => m[x].load <= m[y].load
    BY DEF Sorted, n
  <2> HIDE DEF u, T
  <2>4. CASE j <= k
    <3>1. i <= k /\ i \in 1..n /\ j \in 1..n
      BY <1>1, <1>2, <2>4
    <3> QED
      BY <1>8, <2>3, <2>4, <3>1
  <2>5. CASE j = k + 1
    <3>1. i = k + 1 \/ i \in 1..k
      BY <1>1, <1>2, <2>5
    <3>2. u[j].load = load
      BY <1>1, <1>2, <1>8, <2>5
    <3>3. CASE i = k + 1
      BY <2>5, <3>2, <3>3
    <3>4. CASE i \in 1..k
      BY <1>2, <1>8, <2>1, <3>2, <3>4
    <3> QED
      BY <3>1, <3>3, <3>4
  <2>6. CASE j > k + 1
    <3>1. j - 1 \in k + 1..n /\ j - 1 \in 1..n /\ ~ (j <= k) /\ j # k + 1
      BY <1>1, <1>2, <2>6
    <3>2. u[j] = m[j - 1]
      BY <1>8, <3>1
    <3>3. CASE i <= k
      <4>1. i \in 1..n /\ i <= j - 1
        BY <1>1, <1>2, <2>6, <3>3
      <4> QED
        BY <1>8, <2>3, <3>1, <3>2, <3>3, <4>1
    <3>4. CASE i = k + 1
      <4>1. u[i].load = load
        BY <1>1, <1>2, <1>8, <3>4
      <4> QED
        BY <1>1, <2>2, <3>1, <3>2, <4>1
    <3>5. CASE i > k + 1
      <4>1. i - 1 \in 1..n /\ i - 1 <= j - 1 /\ ~ (i <= k) /\ i # k + 1
        BY <1>1, <1>2, <3>5
      <4> QED
        BY <1>8, <2>3, <3>1, <3>2, <4>1
    <3> QED
      BY <1>1, <1>2, <3>3, <3>4, <3>5
  <2> QED
    BY <1>1, <1>2, <2>4, <2>5, <2>6
<1> QED
  BY <1>3, <1>7, <1>9 DEF Emplaced, e, n

-----------------------------------------------------------------------------
(* Indices, averages and shares                                             *)

LEMMA RingIndex ==
  ASSUME NEW n \in Nat \ {0}, NEW x \in Nat
  PROVE  /\ x % n \in 0..n - 1
         /\ x < n => x % n = x
         /\ x = n => x % n = 0
<1>1. x % n \in 0..n - 1
  OBVIOUS
<1>2. ASSUME x < n PROVE x % n = x
  BY <1>2
<1>3. ASSUME x = n PROVE x % n = 0
  BY <1>3
<1> QED
  BY <1>1, <1>2, <1>3

LEMMA Division ==
  ASSUME NEW x \in Nat, NEW n \in Nat \ {0}
  PROVE  x \div n \in Nat /\ n * (x \div n) <= x /\ x < n * (x \div n) + n
  OBVIOUS

LEMMA AverageType ==
  ASSUME actives \in Seq(ActiveEntry), NEW k \in 1..Len(actives), NEW m \in Nat
  PROVE  Average(k, m) \in Nat
<1>1. SumLoads(k) + m \in Nat /\ k \in Nat \ {0}
  BY SumSteps
<1> QED
  BY <1>1, Division DEF Average

LEMMA SizeTType ==
  ASSUME NEW x \in Int
  PROVE  SizeT(x) \in Nat /\ (x \in Nat /\ x < SizeMax => SizeT(x) = x)
  BY SchedulerAssumption DEF SizeT

LEMMA GivePlanType ==
  ASSUME actives \in Seq(ActiveEntry), Sorted(actives), actives # <<>>
  PROVE  /\ GivePlan \in Seq(Share)
         /\ Len(GivePlan) \in 0..Len(actives)
         /\ \A k \in 1..Len(GivePlan) :
               GivePlan[k] = [proc |-> actives[k].proc, n |-> Average(Len(actives), 0) - Load(k)]
         /\ \A k \in 1..Len(actives) : k <= Len(GivePlan) <=> Load(k) < Average(Len(actives), 0)
<1> DEFINE n == Len(actives)
           avg == Average(n, 0)
           T == {j \in 1..n : Load(j) < avg}
           c == Cardinality(T)
           plan0 == [k \in 1..c |-> [proc |-> actives[k].proc, n |-> avg - Load(k)]]
<1>1. n \in Nat \ {0} /\ n \in 1..n /\ \A j \in 1..n : Load(j) \in Nat /\ actives[j].proc \in Procs
  BY LoadType
<1>2. avg \in Nat
  BY <1>1, AverageType
<1>3. c \in 0..n /\ T = 1..c
  <2>1. \A i, j \in 1..n : i <= j /\ j \in T => i \in T
    <3>1. \A i, j \in 1..n : i <= j => Load(i) <= Load(j)
      BY DEF Sorted, Load
    <3> HIDE DEF n, avg
    <3> QED
      BY <1>1, <1>2, <3>1
  <2> HIDE DEF T
  <2> QED
    BY <1>1, <2>1, PrefixIsInterval DEF T
<1>4. /\ \A k \in 1..c : k \in 1..n /\ Load(k) < avg
      /\ \A k \in 1..n : k <= c <=> Load(k) < avg
  BY <1>3
<1>5. GivePlan = plan0
  BY Zenon DEF GivePlan
<1> HIDE DEF n, avg, T, c
<1>6. ASSUME NEW k \in 1..c PROVE [proc |-> actives[k].proc, n |-> avg - Load(k)] \in Share
  <2>1. avg - Load(k) \in Nat /\ actives[k].proc \in Procs
    BY <1>1, <1>2, <1>4
  <2> QED
    BY <2>1 DEF Share
<1>7. plan0 \in [1..c -> Share] /\ DOMAIN plan0 = 1..c
  BY <1>6
<1>8. plan0 \in Seq(Share) /\ Len(plan0) = c
  <2>1. c \in Nat
    BY <1>3
  <2> HIDE DEF plan0
  <2> QED
    BY <1>7, <2>1
<1> QED
  BY <1>3, <1>4, <1>5, <1>8 DEF n, avg

LEMMA StealPlanType ==
  ASSUME actives \in Seq(ActiveEntry), Sorted(actives), actives # <<>>
  PROVE  /\ StealPlan \in Seq(Share)
         /\ Len(StealPlan) \in 0..Len(actives)
         /\ \A i \in 1..Len(StealPlan) :
               StealPlan[i].n = Load(Len(actives) + 1 - i) - Average(Len(actives), 0)
         /\ \A k \in 1..Len(actives) :
               k <= Len(actives) - Len(StealPlan) <=> Load(k) <= Average(Len(actives), 0)
<1> DEFINE n == Len(actives)
           avg == Average(n, 0)
           T == {j \in 1..n : Load(j) > avg}
           c == Cardinality(T)
           share(k) == [proc |-> actives[k].proc, n |-> Load(k) - avg]
           plan0 == [i \in 1..c |-> share(n + 1 - i)]
<1>1. n \in Nat \ {0} /\ n \in 1..n /\ \A j \in 1..n : Load(j) \in Nat /\ actives[j].proc \in Procs
  BY LoadType
<1>2. avg \in Nat
  BY <1>1, AverageType
<1>3. c \in 0..n /\ T = n + 1 - c..n
  <2>1. \A i, j \in 1..n : i <= j /\ i \in T => j \in T
    <3>1. \A i, j \in 1..n : i <= j => Load(i) <= Load(j)
      BY DEF Sorted, Load
    <3> HIDE DEF n, avg
    <3> QED
      BY <1>1, <1>2, <3>1
  <2> HIDE DEF T
  <2> QED
    BY <1>1, <2>1, SuffixIsInterval DEF T
<1>4. \A k \in n + 1 - c..n : k \in 1..n /\ Load(k) > avg
  BY <1>3
<1>5. \A k \in 1..n : k <= n - c <=> Load(k) <= avg
  <2> SUFFICES ASSUME NEW k \in 1..n PROVE k <= n - c <=> Load(k) <= avg
    OBVIOUS
  <2>1. k \in T <=> k \in n + 1 - c..n
    BY <1>3
  <2>2. Load(k) \in Nat /\ (k \in T <=> Load(k) > avg)
    BY <1>1
  <2> HIDE DEF T, n, avg, c
  <2> QED
    BY <1>1, <1>2, <1>3, <2>1, <2>2
<1>6. StealPlan = plan0
  BY Zenon DEF StealPlan
<1> HIDE DEF n, avg, T, c
<1>7. ASSUME NEW i \in 1..c PROVE share(n + 1 - i) \in Share
  <2>1. n + 1 - i \in n + 1 - c..n
    BY <1>1, <1>3
  <2> DEFINE k == n + 1 - i
  <2> HIDE DEF k
  <2>2. k \in 1..n /\ Load(k) > avg
    BY <1>4, <2>1 DEF k
  <2>3. Load(k) - avg \in Nat /\ actives[k].proc \in Procs
    BY <1>1, <1>2, <2>2
  <2>4. share(k) \in Share
    BY <2>3 DEF Share
  <2> QED
    BY <2>4 DEF k
<1>8. \A i \in 1..c : share(n + 1 - i).n = Load(n + 1 - i) - avg
  OBVIOUS
<1> HIDE DEF share
<1>9. plan0 \in [1..c -> Share]
  BY <1>7
<1>10. plan0 \in Seq(Share) /\ Len(plan0) = c /\ \A i \in 1..c : plan0[i] = share(n + 1 - i)
  <2>1. c \in Nat
    BY <1>3
  <2>2. \A i \in 1..c : plan0[i] = share(n + 1 - i)
    OBVIOUS
  <2> HIDE DEF plan0
  <2> QED
    BY <1>9, <2>1, <2>2
<1> QED
  BY <1>3, <1>6, <1>10, <1>5, <1>8 DEF n, avg

(* The least busy processor is never too busy, so that avg is the average of *)
(* one processor at least.                                                   *)
LEMMA BlockPlanType ==
  ASSUME actives \in Seq(ActiveEntry), Sorted(actives), actives # <<>>, NEW m \in Nat
  PROVE  /\ BlockPlan(m) \in Seq(Share)
         /\ \E k \in 1..Len(actives) :
               /\ k <= Len(BlockPlan(m))
               /\ \A i \in 1..k : /\ Load(i) <= Average(k, m)
                                  /\ BlockPlan(m)[i].n = SizeT(Average(k, m) - Load(i))
<1> DEFINE n == Len(actives)
           busy == {k \in 1..n : TooBusy(k, m)}
           last == IF busy = {} THEN n ELSE Min(busy)
           avg == Average(IF busy = {} THEN last ELSE last - 1, m)
           plan0 == [k \in 1..last |-> [proc |-> actives[k].proc, n |-> SizeT(avg - Load(k))]]
<1>1. n \in Nat \ {0} /\ n \in 1..n /\ \A j \in 1..n : Load(j) \in Nat /\ actives[j].proc \in Procs
  BY LoadType
<1>2. 1 \notin busy
  <2>1. SumLoads(1) = Load(1) /\ Load(1) \in Nat
    <3>1. 1 \in 1..n /\ 1 - 1 = 0
      BY <1>1
    <3>2. SumLoads(1) = SumLoads(1 - 1) + Load(1) /\ SumLoads(0) = 0
      BY <3>1, SumSteps
    <3> QED
      BY <1>1, <3>1, <3>2
  <2>2. Average(1, m) = Load(1) + m
    BY <2>1 DEF Average
  <2> QED
    BY <2>1, <2>2 DEF TooBusy
<1>3. busy # {} => Min(busy) \in busy
  <2> SUFFICES ASSUME busy # {} PROVE Min(busy) \in busy
    OBVIOUS
  <2>1. busy \in SUBSET Nat
    BY <1>1
  <2> HIDE DEF busy
  <2>2. \E x \in busy : \A y \in busy : x <= y
    BY <2>1, FirstPosition
  <2> QED
    BY <2>2 DEF Min
<1>4. last \in 1..n /\ (busy # {} => last - 1 \in 1..n)
  <2>1. busy \subseteq 1..n
    OBVIOUS
  <2> HIDE DEF busy
  <2>2. CASE busy = {}
    BY <1>1, <2>2
  <2>3. CASE busy # {}
    <3>1. Min(busy) \in 1..n /\ Min(busy) # 1 /\ last = Min(busy)
      BY <1>2, <1>3, <2>1, <2>3
    <3> QED
      BY <1>1, <3>1
  <2> QED
    BY <2>2, <2>3
<1>5. avg \in Nat
  <2>1. CASE busy = {}
    <3>1. avg = Average(last, m)
      BY <2>1
    <3> HIDE DEF avg, last, busy
    <3> QED
      BY <1>4, <3>1, AverageType
  <2>2. CASE busy # {}
    <3>1. avg = Average(last - 1, m)
      BY <2>2
    <3> HIDE DEF avg, last, busy
    <3> QED
      BY <1>4, <2>2, <3>1, AverageType
  <2> QED
    BY <2>1, <2>2
<1>6. BlockPlan(m) = plan0
  BY Zenon DEF BlockPlan
<1> DEFINE k == IF busy = {} THEN last ELSE last - 1
<1>7. k \in 1..n /\ k <= last /\ k \notin busy /\ avg = Average(k, m)
  <2>1. avg = Average(k, m)
    OBVIOUS
  <2>2. CASE busy = {}
    <3>1. k = last
      BY <2>2
    <3> HIDE DEF last, k, avg
    <3> QED
      BY <1>1, <1>4, <2>1, <2>2, <3>1
  <2>3. CASE busy # {}
    <3>1. k = last - 1 /\ last = Min(busy) /\ \A y \in busy : last <= y
      <4>1. busy \in SUBSET Nat
        BY <1>1
      <4> HIDE DEF busy
      <4>2. \E x \in busy : \A y \in busy : x <= y
        BY <2>3, <4>1, FirstPosition
      <4>3. \A y \in busy : Min(busy) <= y
        BY <4>2 DEF Min
      <4> QED
        BY <2>3, <4>3
    <3> HIDE DEF last, k, avg, busy
    <3> QED
      BY <1>1, <1>4, <2>1, <2>3, <3>1
  <2> QED
    BY <2>2, <2>3
<1>8. \A i \in 1..k : i \in 1..last /\ Load(i) <= avg
  <2>1. ~(Load(k) > Average(k, m))
    BY <1>7 DEF TooBusy
  <2>2. \A i, j \in 1..n : i <= j => Load(i) <= Load(j)
    BY DEF Sorted, Load
  <2> HIDE DEF n, k, avg, last, busy
  <2> SUFFICES ASSUME NEW i \in 1..k PROVE i \in 1..last /\ Load(i) <= avg
    OBVIOUS
  <2>3. i \in 1..n /\ i <= k /\ i \in 1..last
    BY <1>1, <1>4, <1>7
  <2> QED
    BY <1>1, <1>5, <1>7, <2>1, <2>2, <2>3
<1> HIDE DEF k
<1> HIDE DEF n, busy, last, avg
<1>9. ASSUME NEW i \in 1..last
      PROVE  [proc |-> actives[i].proc, n |-> SizeT(avg - Load(i))] \in Share
  <2>1. i \in 1..n
    BY <1>1, <1>4
  <2>2. avg - Load(i) \in Int /\ actives[i].proc \in Procs
    BY <1>1, <1>5, <2>1
  <2>3. SizeT(avg - Load(i)) \in Nat
    BY <2>2, SizeTType
  <2> QED
    BY <2>2, <2>3 DEF Share
<1>10. /\ plan0 \in Seq(Share) /\ Len(plan0) = last
       /\ \A i \in 1..last : plan0[i].n = SizeT(avg - Load(i))
  <2>1. plan0 \in [1..last -> Share] /\ \A i \in 1..last : plan0[i].n = SizeT(avg - Load(i))
    BY <1>9
  <2>2. last \in Nat
    BY <1>1, <1>4
  <2> HIDE DEF plan0
  <2> QED
    BY <2>1, <2>2
<1> HIDE DEF plan0
<1>11. /\ k \in 1..Len(actives) /\ k <= Len(plan0)
       /\ \A i \in 1..k : Load(i) <= Average(k, m) /\ plan0[i].n = SizeT(Average(k, m) - Load(i))
  BY <1>10, <1>7, <1>8 DEF n
<1> QED
  BY <1>6, <1>10, <1>11

-----------------------------------------------------------------------------
(* What holds whether or not tasks suspend.  The processors keep their types *)
(* and notifications under the steps of the balance thread; and a processor  *)
(* that a round has found blocking stays out of service until the second     *)
(* loop of that round has passed it.                                         *)

PhaseSet == {"sleep", "scan", "mark", "blocked", "blockGive", "active",
             "stealNew", "stealRun", "activeGive"}

BalanceTypes ==
    /\ active \in [Procs -> BOOLEAN]
    /\ slice \in [Procs -> {"unmarked", "marked", "overdue"}]
    /\ lastActive \in Procs
    /\ calls \subseteq [proc : Procs, tasks : Lists]
    /\ taskCount \in Int /\ hidden \in Nat
    /\ bpc \in PhaseSet
    /\ cursor \in 0..N
    /\ blockings \subseteq Procs
    /\ actives \in Seq(ActiveEntry)
    /\ plan \in Seq(Share)
    /\ bpc = "stealRun" => plan # <<>>
    /\ hand \in Seq(Tasks)
    /\ rounds \in 0..MaxRounds

Looks ==
    /\ bpc \in {"sleep", "scan"} => actives = <<>>
    /\ bpc = "sleep" => blockings = {}
    /\ bpc = "scan" => \A p \in blockings : ~active[p]
    /\ bpc = "mark" => \A p \in blockings : cursor <= p => ~active[p]
    /\ bpc \in {"scan", "mark"} => cursor \in Procs
    /\ bpc \in {"blockGive", "active", "stealNew", "stealRun", "activeGive"} => actives # <<>>
    /\ Sorted(actives)

BaseInv ==
    /\ TypeOK /\ HasProcessor /\ NotedAdd
    /\ BalanceTypes /\ Looks /\ NoGiveToBlocked

(* A queue taken apart *)
Parts(s, a, b) ==
    /\ a \in Seq(Tasks) /\ b \in Seq(Tasks)
    /\ Len(s) = Len(a) + Len(b)
    /\ ToSet(s) = ToSet(a) \cup ToSet(b)
    /\ IsInjective(s) => IsInjective(a) /\ IsInjective(b) /\ ToSet(a) \cap ToSet(b) = {}

LEMMA SplitParts ==
  ASSUME NEW s \in Seq(Tasks), NEW k \in 0..Len(s)
  PROVE  Parts(s, SubSeq(s, 1, k), SubSeq(s, k + 1, Len(s)))
<1> DEFINE a == SubSeq(s, 1, k)
           b == SubSeq(s, k + 1, Len(s))
<1>1. /\ a \in Seq(Tasks) /\ b \in Seq(Tasks)
      /\ Len(a) = k /\ Len(b) = Len(s) - k
      /\ ToSet(s) = ToSet(a) \cup ToSet(b)
      /\ IsInjective(s) => IsInjective(a) /\ IsInjective(b) /\ ToSet(a) \cap ToSet(b) = {}
  BY SplitElements
<1> HIDE DEF a, b
<1>2. Len(s) = Len(a) + Len(b)
  <2>1. Len(s) \in Nat /\ k \in Nat
    OBVIOUS
  <2> QED
    BY <1>1, <2>1
<1>3. Parts(s, a, b)
  BY <1>1, <1>2, Zenon DEF Parts
<1> QED
  BY <1>3 DEF a, b

(* popFrontBulk takes up to n from the front, popBackBulk from the back.     *)
LEMMA FrontParts ==
  ASSUME NEW s \in Seq(Tasks), NEW n \in Nat
  PROVE  /\ Parts(s, FrontBulk(s, n), AfterFront(s, n))
         /\ Len(FrontBulk(s, n)) = Least(n, Len(s))
<1>1. Least(n, Len(s)) \in 0..Len(s)
  BY DEF Least
<1>2. Parts(s, FrontBulk(s, n), AfterFront(s, n))
  BY <1>1, SplitParts DEF FrontBulk, AfterFront
<1>3. Len(FrontBulk(s, n)) = Least(n, Len(s))
  <2> DEFINE k == Least(n, Len(s))
  <2> HIDE DEF k
  <2>1. k \in 0..Len(s)
    BY <1>1 DEF k
  <2>2. Len(SubSeq(s, 1, k)) = k
    BY <2>1, SplitElements
  <2> QED
    BY <2>2 DEF FrontBulk, k
<1> QED
  BY <1>2, <1>3

LEMMA BackParts ==
  ASSUME NEW s \in Seq(Tasks), NEW n \in Nat
  PROVE  /\ Parts(s, BeforeBack(s, n), BackBulk(s, n))
         /\ Len(BackBulk(s, n)) = Least(n, Len(s))
<1> DEFINE k == Len(s) - Least(n, Len(s))
<1>1. k \in 0..Len(s) /\ Len(s) \in Nat /\ Least(n, Len(s)) \in Nat
  BY DEF Least
<1> HIDE DEF k
<1>2. Parts(s, BeforeBack(s, n), BackBulk(s, n))
  <2>1. Parts(s, SubSeq(s, 1, k), SubSeq(s, k + 1, Len(s)))
    BY <1>1, SplitParts
  <2> QED
    BY <2>1 DEF BeforeBack, BackBulk, k
<1>3. Len(BackBulk(s, n)) = Least(n, Len(s))
  <2>1. Len(SubSeq(s, k + 1, Len(s))) = Len(s) - k
    BY <1>1, SplitElements
  <2>2. Len(s) - k = Least(n, Len(s))
    BY <1>1 DEF k
  <2> QED
    BY <2>1, <2>2 DEF BackBulk, k
<1> QED
  BY <1>2, <1>3

-----------------------------------------------------------------------------
(* The processors under the steps of the scheduler                           *)

LEMMA QueuesMoved ==
  ASSUME TypeOK, HasProcessor, UNCHANGED <<taken, loopVars, taskVars, wakeVars, waitSet>>,
         newQue' \in [Procs -> Seq(Tasks)], runQue' \in [Procs -> Seq(Tasks)], torn' \subseteq Threads,
         notified' \in [Procs -> BOOLEAN], signalled' \in [Procs -> BOOLEAN]
  PROVE  TypeOK' /\ HasProcessor'
<1>1. TypeOK'
  BY DEF TypeOK, loopVars, taskVars, wakeVars
<1>2. HasProcessor'
  BY DEF HasProcessor, loopVars, taskVars, wakeVars
<1> QED
  BY <1>1, <1>2

LEMMA AddTasksBase ==
  ASSUME TypeOK, HasProcessor, NotedAdd, NEW p \in Procs, NEW ts \in Seq(Tasks), AddTasks(p, ts)
  PROVE  TypeOK' /\ HasProcessor' /\ NotedAdd'
<1>1. newQue[p] \o ts \in Seq(Tasks)
  BY DEF TypeOK
<1>2. newQue' = [newQue EXCEPT ![p] = newQue[p] \o ts] /\ newQue' \in [Procs -> Seq(Tasks)]
  BY <1>1 DEF AddTasks, TypeOK
<1>3. /\ notified' \in [Procs -> BOOLEAN] /\ signalled' \in [Procs -> BOOLEAN]
      /\ signalled'[p] = (signalled[p] \/ pc[p] = "waiting")
      /\ notified'[p] = (notified[p] \/ pc[p] # "waiting")
      /\ \A q \in Procs \ {p} : signalled'[q] = signalled[q] /\ notified'[q] = notified[q]
  BY DEF AddTasks, Notify, TypeOK
<1>4. UNCHANGED <<runQue, taken, torn, loopVars, taskVars, wakeVars, waitSet>>
  BY DEF AddTasks
<1>5. TypeOK' /\ HasProcessor'
  BY <1>2, <1>3, <1>4, QueuesMoved DEF TypeOK
<1>6. NotedAdd'
  <2> SUFFICES ASSUME NEW q \in Procs, ~(ToSet(newQue'[q]) \subseteq silent')
               PROVE  /\ pc'[q] \in {"pick2", "wait"} => notified'[q]
                      /\ pc'[q] = "drain" /\ taken'[q] # <<>> => notified'[q]
                      /\ pc'[q] = "waiting" => signalled'[q]
    BY DEF NotedAdd
  <2>1. pc' = pc /\ taken' = taken /\ silent' = silent
    BY <1>4 DEF loopVars, taskVars
  <2>2. CASE q = p
    BY <1>3, <2>1, <2>2
  <2>3. CASE q # p
    <3>1. newQue'[q] = newQue[q]
      BY <1>2, <2>3 DEF TypeOK
    <3> QED
      BY <1>3, <2>1, <2>3, <3>1 DEF NotedAdd
  <2> QED
    BY <2>2, <2>3
<1> QED
  BY <1>5, <1>6

(* Tasks are taken from the queues of processor p. *)
LEMMA StealBase ==
  ASSUME TypeOK, HasProcessor, NotedAdd, NEW p \in Procs,
         newQue' \in [Procs -> Seq(Tasks)], runQue' \in [Procs -> Seq(Tasks)], torn' \subseteq Threads,
         \A q \in Procs : ToSet(newQue'[q]) \subseteq ToSet(newQue[q]),
         UNCHANGED <<taken, loopVars, condVars, taskVars, wakeVars, waitSet>>
  PROVE  TypeOK' /\ HasProcessor' /\ NotedAdd'
<1>1. TypeOK' /\ HasProcessor'
  BY QueuesMoved DEF TypeOK, condVars
<1>2. NotedAdd'
  BY DEF NotedAdd, loopVars, condVars, taskVars
<1> QED
  BY <1>1, <1>2

LEMMA SchedProcessors ==
  ASSUME BaseInv, [WakeNext]_allVars
  PROVE  TypeOK' /\ HasProcessor' /\ NotedAdd'
<1> USE DEF BaseInv
<1>1. ASSUME [Next]_vars PROVE TypeOK' /\ HasProcessor' /\ NotedAdd'
  BY <1>1, NextTypes, NextNotedAdd
<1>2. ASSUME NEW c \in calls, AddPicked(c) PROVE [Next]_vars
  <2>1. c.proc \in Procs /\ c.tasks \in Lists /\ AddTask(c.proc, c.tasks)
    BY <1>2 DEF AddPicked, BalanceTypes
  <2> QED
    BY <2>1 DEF Next
<1>3. ASSUME NEW p \in Procs, ProcessorStep(p) PROVE [Next]_vars
  BY <1>3 DEF ProcessorStep, Next
<1>4. ASSUME NEW w \in Threads, WakeLock(w) \/ WakeUp(w) PROVE [Next]_vars
  BY <1>4 DEF Next
<1>5. CASE BlockSteal
  <2>1. PICK p \in blockings : newQue' = [newQue EXCEPT ![p] = <<>>]
    BY <1>5 DEF BlockSteal
  <2>2. p \in Procs /\ UNCHANGED <<runQue, taken, torn>>
    BY <1>5 DEF BlockSteal, BalanceTypes
  <2>3. /\ newQue' \in [Procs -> Seq(Tasks)] /\ runQue' \in [Procs -> Seq(Tasks)]
        /\ torn' \subseteq Threads
        /\ \A q \in Procs : ToSet(newQue'[q]) \subseteq ToSet(newQue[q])
    BY <2>1, <2>2, EmptyElements DEF TypeOK
  <2> QED
    BY <1>5, <2>2, <2>3, StealBase DEF BlockSteal
<1>6. CASE Give
  <2>1. plan # <<>> /\ Head(plan) \in Share
    BY <1>6 DEF Give, BalanceTypes
  <2>2. Head(plan).proc \in Procs /\ Head(plan).n \in Nat
    BY <2>1 DEF Share
  <2>3. CASE UNCHANGED vars
    BY <1>1, <2>3
  <2>4. CASE AddTasks(Head(plan).proc, FrontBulk(hand, Head(plan).n))
    <3>1. FrontBulk(hand, Head(plan).n) \in Seq(Tasks)
      BY <2>2, FrontParts DEF BalanceTypes, Parts
    <3> QED
      BY <2>2, <2>4, <3>1, AddTasksBase
  <2> QED
    BY <1>6, <2>3, <2>4 DEF Give
<1>7. CASE GiveRest
  <2>1. CASE UNCHANGED vars
    BY <1>1, <2>1
  <2>2. CASE AddTasks(actives[1].proc, hand)
    <3>1. actives # <<>>
      BY <1>7 DEF GiveRest, Looks
    <3>2. actives[1].proc \in Procs
      <4>1. 1 \in 1..Len(actives) /\ actives \in Seq(ActiveEntry)
        BY <3>1 DEF BalanceTypes
      <4> QED
        BY <4>1, LoadType
    <3> QED
      BY <2>2, <3>2, AddTasksBase DEF BalanceTypes
  <2> QED
    BY <1>7, <2>1, <2>2 DEF GiveRest
<1>8. CASE StealNew
  <2> DEFINE p == Head(plan).proc
             n == Head(plan).n
  <2>1. p \in Procs /\ n \in Nat
    <3>1. Head(plan) \in Share
      BY <1>8 DEF StealNew, BalanceTypes
    <3> QED
      BY <3>1 DEF Share
  <2>2. newQue' = [newQue EXCEPT ![p] = BeforeBack(newQue[p], n)] /\ UNCHANGED <<runQue, torn>>
    BY <1>8 DEF StealNew
  <2> HIDE DEF p, n
  <2>3. Parts(newQue[p], BeforeBack(newQue[p], n), BackBulk(newQue[p], n))
    BY <2>1, BackParts DEF TypeOK
  <2>4. newQue' \in [Procs -> Seq(Tasks)]
    BY <2>1, <2>2, <2>3 DEF TypeOK, Parts
  <2>5. \A q \in Procs : ToSet(newQue'[q]) \subseteq ToSet(newQue[q])
    <3>1. ToSet(BeforeBack(newQue[p], n)) \subseteq ToSet(newQue[p])
      BY <2>3 DEF Parts
    <3> QED
      BY <2>1, <2>2, <3>1 DEF TypeOK
  <2> QED
    BY <1>8, <2>1, <2>2, <2>4, <2>5, StealBase DEF StealNew, TypeOK
<1>9. CASE StealRun
  <2> DEFINE p == Head(plan).proc
             n == Head(plan).n
  <2>1. p \in Procs /\ n \in Nat
    <3>1. Head(plan) \in Share
      BY <1>9 DEF StealRun, BalanceTypes
    <3> QED
      BY <3>1 DEF Share
  <2>2. /\ runQue' = [runQue EXCEPT ![p] = BeforeBack(runQue[p], n)]
        /\ TouchRunQue(p, NoProc) /\ UNCHANGED newQue
    BY <1>9 DEF StealRun
  <2> HIDE DEF p, n
  <2>3. Parts(runQue[p], BeforeBack(runQue[p], n), BackBulk(runQue[p], n))
    BY <2>1, BackParts DEF TypeOK
  <2>4. runQue' \in [Procs -> Seq(Tasks)]
    BY <2>1, <2>2, <2>3 DEF TypeOK, Parts
  <2>5. torn' \subseteq Threads
    BY <2>2, TouchTypes
  <2> QED
    BY <1>9, <2>1, <2>2, <2>4, <2>5, StealBase DEF StealRun, TypeOK
<1>10. CASE UNCHANGED vars
  BY <1>1, <1>10
<1>11. /\ \A ts \in Lists : PickProcessor(ts) => UNCHANGED vars
       /\ \A t \in Tasks : PickTwice(t) => UNCHANGED vars
  BY DEF PickProcessor, PickTwice
<1>12. ASSUME NEW p \in Procs, Overdue(p) PROVE UNCHANGED vars
  BY <1>12 DEF Overdue
<1>13. CASE BalanceStart \/ Scan \/ ScanActive \/ BlockStolen \/ NoActives \/ ActiveBegin \/ Stolen
  <2>1. UNCHANGED vars
    BY <1>13 DEF BalanceStart, Scan, ScanActive, BlockStolen, NoActives, ActiveBegin, Stolen
  <2> QED
    BY <1>10, <2>1
<1>14. CASE UNCHANGED allVars
  BY <1>10, <1>14 DEF allVars
<1> QED
  BY <1>1, <1>2, <1>3, <1>4, <1>5, <1>6, <1>7, <1>8, <1>9, <1>10, <1>11, <1>12, <1>13, <1>14
  DEF WakeNext, SchedNext, Balance

-----------------------------------------------------------------------------
(* The balance thread                                                        *)

BalanceInv == BalanceTypes /\ Looks /\ NoGiveToBlocked

(* A list of tasks has one. *)
LEMMA ListLength == ASSUME NEW ts \in Lists PROVE Len(ts) \in Nat \ {0}
<1>1. PICK n \in 1..MaxList : ts \in [1..n -> Tasks]
  BY DEF Lists
<1>2. n \in Nat \ {0} /\ MaxList \in Nat
  BY ProcessorAssumption
<1> QED
  BY <1>1, <1>2

(* Nothing that concerns the balance thread but the choice of a processor,   *)
(* time and the count of tasks changes.                                      *)
LEMMA QuietBalance ==
  ASSUME BalanceInv, UNCHANGED <<active, balanceVars>>,
         slice' \in [Procs -> {"unmarked", "marked", "overdue"}],
         lastActive' \in Procs, calls' \subseteq [proc : Procs, tasks : Lists],
         taskCount' \in Int, hidden' \in Nat
  PROVE  BalanceInv'
  BY DEF BalanceInv, BalanceTypes, Looks, NoGiveToBlocked, balanceVars, Load

(* The cursor stays on a processor, or has been around once. *)
LEMMA Advances ==
  ASSUME cursor \in Procs, NEW l, Advance(l)
  PROVE  /\ cursor' \in Procs /\ cursor' \in 0..N
         /\ \/ bpc' = bpc /\ cursor' = cursor + 1
            \/ bpc' = l /\ cursor' = 0
<1>1. N \in Nat \ {0} /\ Procs = 0..(N - 1) /\ cursor \in Nat /\ cursor < N
  BY ProcsAre
<1>2. cursor' = (cursor + 1) % N /\ bpc' = IF cursor + 1 = N THEN l ELSE bpc
  BY DEF Advance
<1>3. CASE cursor + 1 = N
  <2>1. (cursor + 1) % N = 0
    BY <1>1, <1>3, RingIndex
  <2> QED
    BY <1>1, <1>2, <1>3, <2>1
<1>4. CASE cursor + 1 # N
  <2>1. cursor + 1 \in Nat /\ cursor + 1 < N
    BY <1>1, <1>4
  <2>2. (cursor + 1) % N = cursor + 1
    BY <1>1, <2>1, RingIndex
  <2> QED
    BY <1>1, <1>2, <1>4, <2>1, <2>2
<1> QED
  BY <1>3, <1>4

LEMMA ScanBalance ==
  ASSUME BalanceInv, Scan
  PROVE  BalanceInv'
<1>1. bpc = "scan" /\ cursor \in Procs /\ actives = <<>> /\ \A p \in blockings : ~active[p]
  BY DEF Scan, BalanceInv, Looks
<1>2. /\ blockings' \subseteq Procs /\ active' \in [Procs -> BOOLEAN]
      /\ \A p \in blockings' : ~active'[p]
  BY <1>1 DEF Scan, BalanceInv, BalanceTypes
<1>3. /\ cursor' \in Procs /\ cursor' \in 0..N
      /\ bpc' \in {"scan", "mark"}
  BY <1>1, Advances DEF Scan
<1>4. UNCHANGED <<slice, lastActive, calls, taskCount, hidden, actives, plan, hand, rounds>>
  BY DEF Scan, countVars
<1>5. BalanceTypes'
  BY <1>2, <1>3, <1>4 DEF BalanceInv, BalanceTypes, PhaseSet
<1>6. Looks' /\ NoGiveToBlocked'
  BY <1>1, <1>2, <1>3, <1>4 DEF Looks, NoGiveToBlocked, Sorted
<1> QED
  BY <1>5, <1>6 DEF BalanceInv

LEMMA ScanActiveBalance ==
  ASSUME TypeOK, BalanceInv, ScanActive
  PROVE  BalanceInv'
<1>1. /\ bpc = "mark" /\ cursor \in Procs /\ \A p \in blockings : cursor <= p => ~active[p]
      /\ actives \in Seq(ActiveEntry) /\ Sorted(actives)
      /\ blockings \subseteq Procs
  BY DEF ScanActive, BalanceInv, BalanceTypes, Looks
<1>2. /\ cursor' \in Procs /\ cursor' \in 0..N
      /\ \/ bpc' = "mark" /\ cursor' = cursor + 1
         \/ bpc' = "blocked"
  BY <1>1, Advances DEF ScanActive
<1>3. UNCHANGED <<calls, taskCount, hidden, blockings, plan, hand, rounds>>
  BY DEF ScanActive, countVars
<1>4. \A p \in Procs : p \in Int
  BY ProcsAre
<1>5. CASE active[cursor]
  <2> DEFINE load == RunnableTaskCount(cursor)
             e == [load |-> load, proc |-> cursor]
  <2>1. load \in Nat
    BY <1>1 DEF RunnableTaskCount, TypeOK
  <2>2. Emplaced(actives, e, Emplace(actives, load, cursor))
    BY <1>1, <2>1, EmplaceSorts
  <2>3. /\ actives' = Emplace(actives, load, cursor) /\ Mark(cursor)
        /\ UNCHANGED <<active, lastActive>>
    BY <1>5 DEF ScanActive
  <2>4. actives' \in Seq(ActiveEntry) /\ Sorted(actives)' /\ ToSet(actives') = ToSet(actives) \cup {e}
    BY <2>2, <2>3 DEF Emplaced, Sorted
  <2>5. slice' \in [Procs -> {"unmarked", "marked", "overdue"}]
    BY <1>1, <2>3 DEF Mark, BalanceInv, BalanceTypes
  <2>6. BalanceTypes'
    BY <1>2, <1>3, <2>3, <2>4, <2>5 DEF BalanceInv, BalanceTypes, PhaseSet
  <2>7. cursor \notin blockings
    BY <1>1, <1>4, <1>5
  <2>8. NoGiveToBlocked'
    <3> SUFFICES ASSUME NEW k \in 1..Len(actives') PROVE actives'[k].proc \notin blockings
      BY <1>3 DEF NoGiveToBlocked
    <3>1. actives'[k] \in ToSet(actives) \cup {e}
      <4>1. actives'[k] \in ToSet(actives')
        BY <2>4 DEF ToSet
      <4> QED
        BY <2>4, <4>1
    <3>2. \A x \in ToSet(actives) : x.proc \notin blockings
      BY <1>1 DEF BalanceInv, NoGiveToBlocked, ToSet
    <3> QED
      BY <2>7, <3>1, <3>2
  <2>9. Looks'
    <3>1. bpc' = "mark" => \A p \in blockings : cursor' <= p => ~active[p]
      BY <1>1, <1>2, <1>4
    <3> QED
      BY <1>2, <1>3, <2>3, <2>4, <3>1 DEF Looks
  <2> QED
    BY <2>6, <2>8, <2>9 DEF BalanceInv
<1>6. CASE ~active[cursor]
  <2>1. /\ UNCHANGED <<actives, slice>>
        /\ active' \in [Procs -> BOOLEAN] /\ lastActive' \in Procs
        /\ \A p \in Procs : p # cursor => active'[p] = active[p]
    BY <1>1, <1>6 DEF ScanActive, BalanceInv, BalanceTypes
  <2>2. BalanceTypes'
    BY <1>2, <1>3, <2>1 DEF BalanceInv, BalanceTypes, PhaseSet
  <2>3. bpc' = "mark" => \A p \in blockings : cursor' <= p => ~active'[p]
    BY <1>1, <1>2, <1>4, <2>1
  <2>4. Looks' /\ NoGiveToBlocked'
    BY <1>1, <1>2, <1>3, <2>1, <2>3 DEF BalanceInv, Looks, NoGiveToBlocked, Sorted
  <2> QED
    BY <2>2, <2>4 DEF BalanceInv
<1> QED
  BY <1>5, <1>6

LEMMA BlockBalance ==
  ASSUME TypeOK, BalanceInv, BlockSteal \/ BlockStolen
  PROVE  BalanceInv'
<1>1. /\ bpc = "blocked" /\ actives # <<>> /\ actives \in Seq(ActiveEntry) /\ hand \in Seq(Tasks)
      /\ UNCHANGED <<active, slice, lastActive, calls, taskCount, hidden, blockings, actives, rounds>>
  BY DEF BlockSteal, BlockStolen, BalanceInv, BalanceTypes, countVars
<1>2. CASE BlockSteal
  <2>1. PICK p \in blockings : hand' = hand \o newQue[p] /\ cursor' = p + 1
    BY <1>2 DEF BlockSteal
  <2>2. p \in Procs
    BY DEF BalanceInv, BalanceTypes
  <2>3. cursor' \in 0..N
    BY <2>1, <2>2, ProcsAre
  <2>4. hand' \in Seq(Tasks)
    BY <1>1, <2>1, <2>2 DEF TypeOK
  <2>5. UNCHANGED <<plan, bpc>>
    BY <1>2 DEF BlockSteal
  <2> QED
    BY <1>1, <2>3, <2>4, <2>5 DEF BalanceInv, BalanceTypes, Looks, NoGiveToBlocked, Sorted
<1>3. CASE BlockStolen
  <2>1. cursor' = 0 /\ cursor' \in 0..N /\ UNCHANGED hand
    BY <1>3, ProcsAre DEF BlockStolen
  <2>2. bpc' \in {"blockGive", "active"}
    BY <1>3 DEF BlockStolen
  <2>3. plan' \in Seq(Share)
    <3>1. CASE hand # <<>>
      <4>1. Len(hand) \in Nat
        BY <1>1
      <4>2. Sorted(actives) /\ actives \in Seq(ActiveEntry) /\ actives # <<>>
        BY <1>3 DEF BlockStolen, BalanceInv, BalanceTypes, Looks
      <4> QED
        BY <1>3, <3>1, <4>1, <4>2, BlockPlanType DEF BlockStolen
    <3>2. CASE hand = <<>>
      BY <1>3, <3>2 DEF BlockStolen, BalanceInv, BalanceTypes
    <3> QED
      BY <3>1, <3>2
  <2> QED
    BY <1>1, <2>1, <2>2, <2>3 DEF BalanceInv, BalanceTypes, PhaseSet, Looks, NoGiveToBlocked, Sorted
<1> QED
  BY <1>2, <1>3

(* The end of a turn of runBalance *)
LEMMA EndBalance ==
  ASSUME BalanceInv, BalanceEnd, UNCHANGED <<active, slice, lastActive, calls, hidden, cursor, plan, rounds>>,
         hand' \in Seq(Tasks), taskCount' \in Int
  PROVE  BalanceInv'
<1>1. bpc' = "sleep" /\ blockings' = {} /\ actives' = <<>>
  BY DEF BalanceEnd
<1>2. BalanceTypes'
  BY <1>1 DEF BalanceInv, BalanceTypes, PhaseSet
<1>3. Looks' /\ NoGiveToBlocked'
  BY <1>1 DEF Looks, NoGiveToBlocked, Sorted
<1> QED
  BY <1>2, <1>3 DEF BalanceInv

(* The thread is behind the two loops. *)
LEMMA LaterBalance ==
  ASSUME BalanceInv, bpc \notin {"sleep", "scan", "mark", "blocked"}, UNCHANGED <<blockings, actives>>,
         bpc' \in {"blockGive", "active", "stealNew", "stealRun", "activeGive"},
         UNCHANGED <<active, slice, lastActive, calls, hidden, cursor, rounds>>,
         plan' \in Seq(Share), bpc' = "stealRun" => plan' # <<>>,
         hand' \in Seq(Tasks), taskCount' \in Int
  PROVE  BalanceInv'
<1>1. BalanceTypes'
  BY DEF BalanceInv, BalanceTypes, PhaseSet
<1>2. Looks' /\ NoGiveToBlocked'
  BY DEF BalanceInv, BalanceTypes, PhaseSet, Looks, NoGiveToBlocked, Sorted
<1> QED
  BY <1>1, <1>2 DEF BalanceInv

LEMMA SchedBalance ==
  ASSUME BaseInv, [WakeNext]_allVars
  PROVE  BalanceInv'
<1>1. TypeOK /\ BalanceInv
  BY DEF BaseInv, BalanceInv
<1>2. /\ active \in [Procs -> BOOLEAN] /\ slice \in [Procs -> {"unmarked", "marked", "overdue"}]
      /\ lastActive \in Procs /\ calls \subseteq [proc : Procs, tasks : Lists]
      /\ taskCount \in Int /\ hidden \in Nat
      /\ actives \in Seq(ActiveEntry) /\ plan \in Seq(Share) /\ hand \in Seq(Tasks)
      /\ Sorted(actives)
  BY <1>1 DEF BalanceInv, BalanceTypes, Looks
<1>3. plan # <<>> => Head(plan).proc \in Procs /\ Head(plan).n \in Nat /\ Tail(plan) \in Seq(Share)
  <2> SUFFICES ASSUME plan # <<>>
               PROVE  Head(plan).proc \in Procs /\ Head(plan).n \in Nat /\ Tail(plan) \in Seq(Share)
    OBVIOUS
  <2>1. Head(plan) \in Share /\ Tail(plan) \in Seq(Share)
    BY <1>2
  <2> QED
    BY <2>1 DEF Share
<1>18. NextAcceptable \subseteq Procs
  <2>1. \A i \in 1..N : (lastActive + i) % N \in Procs
    BY <1>2, ProcsAre, RingIndex
  <2> QED
    BY <2>1 DEF NextAcceptable
<1>4. ASSUME NEW ts \in Lists, PickProcessor(ts) PROVE BalanceInv'
  <2>1. PICK p \in NextAcceptable :
          lastActive' = p /\ calls' = calls \cup {[proc |-> p, tasks |-> ts]}
    BY <1>4 DEF PickProcessor
  <2>2. lastActive' \in Procs /\ calls' \subseteq [proc : Procs, tasks : Lists]
    BY <1>2, <1>18, <2>1
  <2>3. UNCHANGED <<active, slice, taskCount, hidden, balanceVars>>
    BY <1>4 DEF PickProcessor, countVars
  <2> QED
    BY <1>1, <1>2, <2>2, <2>3, QuietBalance
<1>19. ASSUME NEW t \in Tasks, PickTwice(t) PROVE BalanceInv'
  <2>1. lastActive' \in Procs /\ UNCHANGED <<active, slice, calls, taskCount, hidden, balanceVars>>
    BY <1>18, <1>19 DEF PickTwice, countVars
  <2> QED
    BY <1>1, <1>2, <2>1, QuietBalance
<1>5. ASSUME NEW c \in calls, AddPicked(c) PROVE BalanceInv'
  <2>1. Len(c.tasks) \in Nat \ {0}
    BY <1>2, ListLength
  <2>2. calls' \subseteq calls /\ taskCount' \in Int /\ hidden' \in Nat
    BY <1>2, <1>5, <2>1 DEF AddPicked
  <2>3. UNCHANGED <<active, slice, lastActive, balanceVars>>
    BY <1>5 DEF AddPicked
  <2> QED
    BY <1>1, <1>2, <2>2, <2>3, QuietBalance
<1>6. ASSUME NEW p \in Procs, ProcessorStep(p) PROVE BalanceInv'
  <2>1. slice' \in [Procs -> {"unmarked", "marked", "overdue"}]
    BY <1>2, <1>6 DEF ProcessorStep, CountSwitch
  <2>2. taskCount' \in Int
    BY <1>2, <1>6 DEF ProcessorStep, CountErase
  <2> QED
    BY <1>1, <1>2, <1>6, <2>1, <2>2, QuietBalance DEF ProcessorStep
<1>7. ASSUME NEW p \in Procs, Overdue(p) PROVE BalanceInv'
  <2>1. slice' \in [Procs -> {"unmarked", "marked", "overdue"}]
    BY <1>2, <1>7 DEF Overdue
  <2> QED
    BY <1>1, <1>2, <1>7, <2>1, QuietBalance DEF Overdue, countVars
<1>8. CASE BalanceStart
  <2>1. /\ bpc = "sleep" /\ bpc' = "scan" /\ cursor' = 0 /\ rounds' = rounds + 1 /\ rounds < MaxRounds
        /\ UNCHANGED <<active, slice, lastActive, calls, taskCount, hidden, blockings, actives, plan, hand>>
    BY <1>8 DEF BalanceStart, countVars
  <2>2. cursor' \in Procs /\ cursor' \in 0..N
    BY <2>1, ProcsAre
  <2>3. rounds' \in 0..MaxRounds
    BY <1>1, <2>1, SchedulerAssumption DEF BalanceInv, BalanceTypes
  <2>4. BalanceTypes'
    BY <1>1, <2>1, <2>2, <2>3 DEF BalanceInv, BalanceTypes, PhaseSet
  <2>5. Looks' /\ NoGiveToBlocked'
    BY <1>1, <2>1, <2>2 DEF BalanceInv, Looks, NoGiveToBlocked, Sorted
  <2> QED
    BY <2>4, <2>5 DEF BalanceInv
<1>9. CASE NoActives
  <2>1. hand' \in Seq(Tasks) /\ taskCount' \in Int
    BY <1>2, <1>9 DEF NoActives, countVars
  <2> QED
    BY <1>1, <1>9, <2>1, EndBalance DEF NoActives, countVars
<1>10. CASE Give
  <2>1. taskCount' \in Int /\ hand' \in Seq(Tasks) /\ plan' \in Seq(Share)
    <3>1. CASE plan' = <<>> /\ UNCHANGED <<vars, taskCount, hand>>
      BY <1>2, <3>1
    <3>2. CASE /\ AddTasks(Head(plan).proc, FrontBulk(hand, Head(plan).n))
               /\ hand' = AfterFront(hand, Head(plan).n)
               /\ plan' = Tail(plan)
      <4>1. AfterFront(hand, Head(plan).n) \in Seq(Tasks) /\ Tail(plan) \in Seq(Share)
        BY <1>2, <1>3, <1>10, FrontParts DEF Give, Parts
      <4>2. taskCount' = taskCount + 1
        BY <3>2 DEF AddTasks
      <4> QED
        BY <1>2, <3>2, <4>1, <4>2
    <3> QED
      BY <1>10, <3>1, <3>2, Zenon DEF Give
  <2> QED
    BY <1>1, <1>10, <2>1, LaterBalance DEF Give, countVars
<1>11. CASE GiveRest
  <2>1. hand' \in Seq(Tasks) /\ taskCount' \in Int
    BY <1>2, <1>11 DEF GiveRest, AddTasks
  <2>2. CASE bpc = "blockGive"
    BY <1>1, <1>2, <1>11, <2>1, <2>2, LaterBalance DEF GiveRest
  <2>3. CASE bpc # "blockGive"
    BY <1>1, <1>11, <2>1, <2>3, EndBalance DEF GiveRest
  <2> QED
    BY <2>2, <2>3
<1>12. CASE ActiveBegin
  <2>1. bpc = "active" /\ actives # <<>> /\ hand' \in Seq(Tasks) /\ taskCount' \in Int
    BY <1>1, <1>2, <1>12 DEF ActiveBegin, countVars, BalanceInv, Looks
  <2>2. CASE BalanceEnd /\ UNCHANGED plan
    BY <1>1, <1>12, <2>1, <2>2, EndBalance DEF ActiveBegin, countVars
  <2>3. CASE bpc' = "stealNew" /\ plan' = StealPlan /\ UNCHANGED <<blockings, actives>>
    <3>1. plan' \in Seq(Share)
      BY <1>2, <2>1, <2>3, StealPlanType
    <3> QED
      BY <1>1, <1>12, <2>1, <2>3, <3>1, LaterBalance DEF ActiveBegin, countVars
  <2> QED
    BY <1>12, <2>2, <2>3 DEF ActiveBegin
<1>13. CASE StealNew
  <2> DEFINE p == Head(plan).proc
             n == Head(plan).n
             got == BackBulk(newQue[p], n)
  <2>1. bpc = "stealNew" /\ plan # <<>> /\ p \in Procs /\ n \in Nat /\ Tail(plan) \in Seq(Share)
    BY <1>3, <1>13 DEF StealNew
  <2>2. /\ hand' = hand \o got
        /\ IF Len(got) < n
           THEN bpc' = "stealRun" /\ plan' = <<[proc |-> p, n |-> n - Len(got)]>> \o Tail(plan)
           ELSE plan' = Tail(plan) /\ UNCHANGED bpc
        /\ UNCHANGED <<active, slice, lastActive, calls, taskCount, hidden, cursor, blockings, actives, rounds>>
    BY <1>13 DEF StealNew, countVars
  <2> HIDE DEF p, n
  <2>3. got \in Seq(Tasks)
    BY <1>1, <2>1, BackParts DEF TypeOK, Parts
  <2> HIDE DEF got
  <2>4. hand' \in Seq(Tasks) /\ taskCount' \in Int
    BY <1>2, <2>2, <2>3
  <2>5. plan' \in Seq(Share) /\ (bpc' = "stealRun" => plan' # <<>>)
    <3>1. CASE Len(got) < n
      <4>1. n - Len(got) \in Nat
        BY <2>1, <2>3, <3>1
      <4>2. [proc |-> p, n |-> n - Len(got)] \in Share
        BY <2>1, <4>1 DEF Share
      <4>3. <<[proc |-> p, n |-> n - Len(got)]>> \in Seq(Share)
        BY <4>2
      <4>4. plan' = <<[proc |-> p, n |-> n - Len(got)]>> \o Tail(plan)
        BY <2>2, <3>1
      <4> DEFINE one == <<[proc |-> p, n |-> n - Len(got)]>>
      <4>5. Len(one) = 1
        OBVIOUS
      <4> HIDE DEF one
      <4>6. one \o Tail(plan) \in Seq(Share) /\ one \o Tail(plan) # <<>>
        BY <2>1, <4>3, <4>5 DEF one
      <4> QED
        BY <4>4, <4>6 DEF one
    <3>2. CASE ~(Len(got) < n)
      BY <2>1, <2>2, <3>2
    <3> QED
      BY <3>1, <3>2
  <2>6. bpc' \in {"stealNew", "stealRun"}
    BY <2>1, <2>2
  <2> QED
    BY <1>1, <2>1, <2>2, <2>4, <2>5, <2>6, LaterBalance
<1>14. CASE StealRun
  <2>1. bpc = "stealRun" /\ plan # <<>>
    BY <1>1, <1>14 DEF StealRun, BalanceInv, BalanceTypes
  <2>2. BackBulk(runQue[Head(plan).proc], Head(plan).n) \in Seq(Tasks)
    BY <1>1, <1>3, <2>1, BackParts DEF TypeOK, Parts
  <2>3. hand' \in Seq(Tasks) /\ plan' \in Seq(Share) /\ taskCount' \in Int
    BY <1>2, <1>3, <1>14, <2>1, <2>2 DEF StealRun, countVars
  <2> QED
    BY <1>1, <1>14, <2>1, <2>3, LaterBalance DEF StealRun, countVars
<1>15. CASE Stolen
  <2>1. bpc = "stealNew" /\ actives # <<>> /\ hand' \in Seq(Tasks) /\ taskCount' \in Int
    BY <1>1, <1>2, <1>15 DEF Stolen, BalanceInv, countVars, Looks
  <2>2. CASE BalanceEnd /\ UNCHANGED plan
    BY <1>1, <1>15, <2>1, <2>2, EndBalance DEF Stolen, countVars
  <2>3. CASE bpc' = "activeGive" /\ plan' = GivePlan /\ UNCHANGED <<blockings, actives>>
    <3>1. plan' \in Seq(Share)
      BY <1>2, <2>1, <2>3, GivePlanType
    <3> QED
      BY <1>1, <1>15, <2>1, <2>3, <3>1, LaterBalance DEF Stolen, countVars
  <2> QED
    BY <1>15, <2>2, <2>3 DEF Stolen
<1>16. CASE UNCHANGED schedVars
  BY <1>1, <1>2, <1>16, QuietBalance DEF schedVars, countVars
<1>17. CASE UNCHANGED allVars
  BY <1>16, <1>17 DEF allVars
<1> QED
  BY <1>1, <1>4, <1>5, <1>6, <1>7, <1>8, <1>9, <1>10, <1>11, <1>12, <1>13, <1>14, <1>15, <1>16, <1>17,
     <1>19, ScanBalance, ScanActiveBalance, BlockBalance
  DEF WakeNext, SchedNext, Balance

LEMMA SchedInitBase == SchedInit => BaseInv
<1> SUFFICES ASSUME SchedInit PROVE BaseInv
  OBVIOUS
<1>1. TypeOK /\ HasProcessor /\ NotedAdd
  BY InitHolds DEF SchedInit, IInv
<1>2. N \in Nat \ {0} /\ 0 \in Procs
  BY ProcsAre
<1>3. BalanceTypes
  BY <1>2, SchedulerAssumption DEF SchedInit, BalanceTypes, PhaseSet
<1>4. Looks /\ NoGiveToBlocked
  BY DEF SchedInit, Looks, NoGiveToBlocked, Sorted
<1> QED
  BY <1>1, <1>3, <1>4 DEF BaseInv

LEMMA NextBase == BaseInv /\ [WakeNext]_allVars => BaseInv'
  BY SchedProcessors, SchedBalance DEF BaseInv, BalanceInv

(* The invariant of every behaviour, with tasks that suspend or without. *)
THEOREM BaseInvariantHolds == WakeSpec => []BaseInv
<1>1. SchedInit => BaseInv
  BY SchedInitBase
<1>2. BaseInv /\ [WakeNext]_allVars => BaseInv'
  BY NextBase
<1> QED
  BY <1>1, <1>2, PTL DEF WakeSpec

LEMMA SchedIsWake == SchedSpec => WakeSpec
<1>1. [SchedNext]_allVars => [WakeNext]_allVars
  BY DEF WakeNext
<1> QED
  BY <1>1, PTL DEF SchedSpec, WakeSpec

(* A round never gives tasks to a processor that it has found blocking and   *)
(* whose new tasks it takes: the second loop may put such a processor back   *)
(* into service, but only the round after that counts it as active.          *)
THEOREM NeverGivesToBlocked == WakeSpec => []NoGiveToBlocked
<1>1. BaseInv => NoGiveToBlocked
  BY DEF BaseInv
<1> QED
  BY <1>1, BaseInvariantHolds, PTL

(* The same without waking threads *)
THEOREM SchedNeverGivesToBlocked == SchedSpec => []NoGiveToBlocked
  BY SchedIsWake, NeverGivesToBlocked, PTL

(* No processor sleeps on new tasks, whoever gave them to it: addTask or the *)
(* balance thread, which may at the same time take tasks away.               *)
THEOREM NoBalancedAddIsLost == WakeSpec => []NoLostAdd
<1>1. BaseInv => NoLostAdd
  BY DEF BaseInv, NotedAdd, NoLostAdd
<1> QED
  BY <1>1, BaseInvariantHolds, PTL

-----------------------------------------------------------------------------
(* What holds as long as no task suspends (MaxSuspends = 0).  With tasks     *)
(* that suspend it does not: a task that is woken before it has yielded is   *)
(* on runQue_ while it runs, and StealRun takes it from there.               *)

Live(t) == state[t] \in {"READY", "RUNNING"}

(* The tasks in the balance thread's hands are nowhere else... *)
HandApart == IsInjective(hand) /\ \A t \in ToSet(hand) : Live(t) /\ ~Held(t)

(* ... and every task that is nowhere else is there. *)
AllOwned == \A t \in Tasks : Live(t) => Held(t) \/ t \in ToSet(hand)

NoneBlocked == lost = {} /\ \A t \in Tasks : state[t] # "BLOCK"

HandOwned == Owned /\ HandApart /\ AllOwned /\ NoneBlocked

HandEmpty ==
    bpc \in {"sleep", "scan", "mark", "active"} \/ (bpc = "blocked" /\ actives = <<>>) => hand = <<>>

(* A step that gives tasks other owners and leaves the hands alone *)
LEMMA FollowsHand ==
  ASSUME HandOwned, OwnedStep, UNCHANGED <<hand, lost>>, \A t \in Tasks : state'[t] # "BLOCK",
         hand \in Seq(Tasks)
  PROVE  HandOwned'
<1>1. ToSet(hand) \subseteq Tasks
  BY ElementsType
<1>2. HandApart'
  BY <1>1 DEF HandOwned, HandApart, OwnedStep, Follows, Live
<1>3. AllOwned'
  BY DEF HandOwned, AllOwned, OwnedStep, Follows, Live
<1> QED
  BY <1>2, <1>3 DEF HandOwned, NoneBlocked, OwnedStep

LEMMA StutterHand ==
  ASSUME HandOwned, UNCHANGED <<vars, hand>>, hand \in Seq(Tasks)
  PROVE  HandOwned'
<1>1. UNCHANGED <<newQue, taken, runQue, running, nextTask, taskVars, lost, pc, waitSet, wref, wpc,
                  state, processor>>
  BY DEF vars, queVars, loopVars, taskVars, wakeVars
<1>2. \A r \in Refs : Alive(r)' <=> Alive(r)
  BY <1>1 DEF Alive, InWaitSet, Holders
<1>3. RunningState' /\ NextTaskKept'
  BY <1>1 DEF HandOwned, Owned, RunningState, NextTaskKept, InTask
<1>4. QueuesApart' /\ \A q \in Procs : NewSet(q)' = NewSet(q)
  BY <1>1, SameQueues DEF HandOwned
<1>5. OwnedStep
  BY <1>1, <1>2, <1>3, <1>4, QuietOwned DEF HandOwned, Owned, SharedOwned
<1> QED
  BY <1>1, <1>5, FollowsHand DEF HandOwned, NoneBlocked

LEMMA ProcessorHand ==
  ASSUME MaxSuspends = 0, TypeOK, TypeOK', HandOwned, hand \in Seq(Tasks),
         NEW p \in Procs, Process(p) \/ SpuriousWake(p) \/ User(p), UNCHANGED hand
  PROVE  HandOwned'
<1>1. OwnedStep
  BY ProcessorOwned DEF HandOwned
<1>2. UNCHANGED lost
  BY DEF Process, PickRun, PickNothing, PopNew, PushNew, WaitEnter, WaitEnd, SpuriousWake, SwitchYield,
         PushYield, PopYield, PopFirst, PopNothing, SwitchBlock, SwitchDone, SwitchErase, User, Yield, Finish,
         Suspend, SuspendReturn, wakeVars
<1>3. ~Suspend(p)
  BY DEF Suspend, InUser, TypeOK
<1>4. \A t \in Tasks : state'[t] = state[t] \/ state'[t] \in {"RUNNING", "DONE", "EXCEPT"}
  <2>1. ASSUME NEW t, Runs(p, t) PROVE \A u \in Tasks : state'[u] = state[u] \/ state'[u] = "RUNNING"
    BY <2>1 DEF Runs, TypeOK
  <2>2. CASE \E t : Runs(p, t)
    BY <2>1, <2>2
  <2>3. CASE UNCHANGED state
    BY <2>3
  <2>4. CASE Finish(p)
    BY <2>4 DEF Finish, TypeOK
  <2>5. PickRun(p) \/ PopFirst(p) => \E t : Runs(p, t)
    BY DEF PickRun, PopFirst
  <2>6. SwitchBlock(p) \/ SwitchErase(p) => (\E t : Runs(p, t)) \/ UNCHANGED state
    BY DEF SwitchBlock, SwitchErase, RunsNext
  <2>7. PickNothing(p) \/ PopNew(p) \/ PushNew(p) \/ WaitEnter(p) \/ WaitEnd(p) \/ SpuriousWake(p)
        \/ SwitchYield(p) \/ PushYield(p) \/ PopNothing(p)
        \/ SwitchDone(p) \/ Yield(p) \/ SuspendReturn(p) => UNCHANGED state
    BY DEF PickNothing, PopNew, PushNew, WaitEnter, WaitEnd, SpuriousWake, SwitchYield, PushYield,
           PopNothing, SwitchDone, Yield, SuspendReturn, taskVars
  <2> QED
    BY <1>3, <2>2, <2>3, <2>4, <2>5, <2>6, <2>7 DEF Process, PopYield, User
<1>5. \A t \in Tasks : state'[t] # "BLOCK"
  BY <1>4 DEF HandOwned, NoneBlocked
<1> QED
  BY <1>1, <1>2, <1>5, FollowsHand

LEMMA AddTaskHand ==
  ASSUME TypeOK, TypeOK', HandOwned, hand \in Seq(Tasks),
         NEW p \in Procs, NEW ts \in Lists, AddTask(p, ts), UNCHANGED hand
  PROVE  HandOwned'
<1> DEFINE T == ToSet(ts)
<1>1. Push(p, ts) /\ ts \in Seq(Tasks) /\ IsInjective(ts)
  BY ListsType DEF AddTask
<1>2. Owned' /\ \A u \in Tasks : IF u \in T THEN Held(u)' ELSE Follows(u)
  BY <1>1, PushOwned DEF HandOwned
<1>3. /\ \A t \in T : state[t] = "NEW"
      /\ state' = [t \in Tasks |-> IF t \in T THEN "READY" ELSE state[t]]
      /\ UNCHANGED lost
  BY <1>1 DEF Push, wakeVars
<1> HIDE DEF T
<1>4. \A u \in Tasks : state'[u] = IF u \in T THEN "READY" ELSE state[u]
  BY <1>3
<1>5. NoneBlocked'
  BY <1>3, <1>4 DEF HandOwned, NoneBlocked
<1>6. ToSet(hand) \subseteq Tasks \ T
  BY <1>3, ElementsType DEF HandOwned, HandApart, Live
<1>7. HandApart'
  BY <1>2, <1>4, <1>6 DEF HandOwned, HandApart, Follows, Live
<1>8. AllOwned'
  BY <1>2, <1>4 DEF HandOwned, AllOwned, Follows, Live
<1> QED
  BY <1>2, <1>5, <1>7, <1>8 DEF HandOwned

(* While only the queues change, nothing but them can come to own a task. *)
InQueue(t) == \E q \in Procs : t \in NewSet(q) \/ t \in ToSet(runQue[q])

LEMMA HeldElsewhere ==
  ASSUME UNCHANGED <<loopVars, taskVars, wakeVars, waitSet>>, NEW t \in Tasks,
         InQueue(t)' <=> InQueue(t)
  PROVE  Held(t)' <=> Held(t)
<1>1. Unowned(t)' <=> Unowned(t)
  BY DEF Unowned, Alive, InWaitSet, Holders, wakeVars
<1>2. UNCHANGED <<running, nextTask, state>>
  BY DEF loopVars, taskVars
<1>3. (\E q \in Procs : nextTask'[q] = t \/ (running'[q] = t /\ state'[t] = "RUNNING"))
      <=> (\E q \in Procs : nextTask[q] = t \/ (running[q] = t /\ state[t] = "RUNNING"))
  BY <1>2
<1>4. Held(t) <=> \/ InQueue(t) \/ ~Unowned(t)
                  \/ \E q \in Procs : nextTask[q] = t \/ (running[q] = t /\ state[t] = "RUNNING")
  BY DEF Held, InQueue
<1>5. Held(t)' <=> \/ InQueue(t)' \/ ~Unowned(t)'
                   \/ \E q \in Procs : nextTask'[q] = t \/ (running'[q] = t /\ state'[t] = "RUNNING")
  BY DEF Held, InQueue
<1> QED
  BY <1>1, <1>3, <1>4, <1>5

(* Ownership after a change of the queues only *)
LEMMA QueuesOwned ==
  ASSUME Owned, UNCHANGED <<loopVars, taskVars, wakeVars, waitSet>>, QueuesApart', NewOwned', RunOwned'
  PROVE  Owned'
<1>1. /\ \A r \in Refs : Alive(r)' <=> Alive(r)
      /\ \A t : Unowned(t)' <=> Unowned(t)
  BY DEF wakeVars, Alive, InWaitSet, Holders, Unowned
<1>2. UNCHANGED <<running, nextTask, pc, state, processor, epoch, wpc, wref, lost>>
  BY DEF loopVars, taskVars, wakeVars
<1>3. RunningState' /\ NextTaskKept'
  BY <1>2 DEF Owned, RunningState, NextTaskKept, InTask
<1>4. NextOwned'
  BY <1>1, <1>2 DEF Owned, NextOwned
<1>5. SharedOwned' /\ FreshWakeUp'
  BY <1>1, <1>2 DEF Owned, SharedOwned, FreshWakeUp
<1> QED
  BY <1>3, <1>4, <1>5 DEF Owned

LEMMA NoRefs == ASSUME MaxSuspends = 0 PROVE Refs = {}
<1>1. 1..MaxSuspends = {}
  OBVIOUS
<1> QED
  BY <1>1 DEF Refs

(* steal: tasks leave a queue of processor p for the thread's hands. *)
LEMMA StealHand ==
  ASSUME MaxSuspends = 0, TypeOK, HandOwned, hand \in Seq(Tasks), NEW p \in Procs,
         NEW got \in Seq(Tasks), IsInjective(got), hand' = hand \o got,
         ToSet(got) \subseteq ToSet(newQue[p]) \cup ToSet(runQue[p]),
         \A q \in Procs : /\ IsInjective(newQue'[q]) /\ IsInjective(runQue'[q])
                          /\ ToSet(newQue'[q]) \cap ToSet(taken[q]) = {}
                          /\ NewSet(q)' = NewSet(q) \ ToSet(got)
                          /\ ToSet(runQue'[q]) = ToSet(runQue[q]) \ ToSet(got),
         UNCHANGED <<taken, loopVars, taskVars, wakeVars, waitSet>>
  PROVE  HandOwned'
<1> DEFINE X == ToSet(got)
<1>1. UNCHANGED <<running, nextTask, state, processor, lost>>
  BY DEF loopVars, taskVars, wakeVars
<1>2. \A t : Unowned(t)' <=> Unowned(t)
  BY DEF wakeVars, Alive, InWaitSet, Holders, Unowned
<1>3. X \subseteq Tasks /\ ToSet(hand) \subseteq Tasks
  BY ElementsType
<1>4. ASSUME NEW t \in X
      PROVE  /\ t \in Tasks /\ Live(t) /\ Held(t)
             /\ \A q \in Procs : nextTask[q] # t /\ running[q] # t
  <2>1. CASE t \in ToSet(newQue[p])
    <3>1. t \in NewSet(p)
      BY <2>1 DEF NewSet
    <3> QED
      BY <1>3, <3>1 DEF HandOwned, Owned, NewOwned, Live, Held
  <2>2. CASE t \in ToSet(runQue[p])
    BY <1>3, <2>2 DEF HandOwned, NoneBlocked, Owned, RunOwned, Live, Held
  <2> QED
    BY <2>1, <2>2
<1>5. ASSUME NEW t \in X PROVE ~Held(t)'
  <2>1. Unowned(t)'
    BY <1>1, NoRefs DEF Unowned, HandOwned, NoneBlocked
  <2> QED
    BY <1>1, <1>4, <2>1 DEF Held
<1>6. ASSUME NEW t \in Tasks \ X PROVE Held(t)' <=> Held(t)
  <2>1. InQueue(t)' <=> InQueue(t)
    BY DEF InQueue
  <2> QED
    BY <2>1, HeldElsewhere
<1> HIDE DEF X
<1>7. X \cap ToSet(hand) = {}
  BY <1>4 DEF HandOwned, HandApart
<1>8. ToSet(hand') = ToSet(hand) \cup X /\ IsInjective(hand')
  <2>1. IsInjective(hand)
    BY DEF HandOwned, HandApart
  <2>2. ToSet(hand) \cap ToSet(got) = {}
    BY <1>7 DEF X
  <2>3. ToSet(hand \o got) = ToSet(hand) \cup ToSet(got)
    BY ConcatElements
  <2>4. IsInjective(hand \o got)
    BY <2>1, <2>2, ConcatElements
  <2> QED
    BY <2>3, <2>4 DEF X
<1>9. HandApart'
  BY <1>1, <1>3, <1>4, <1>5, <1>6, <1>7, <1>8 DEF HandOwned, HandApart, Live
<1>10. AllOwned'
  BY <1>1, <1>6, <1>8 DEF HandOwned, AllOwned, Live
<1>11. QueuesApart'
  BY DEF HandOwned, Owned, QueuesApart
<1>12. NewOwned'
  BY <1>1 DEF HandOwned, Owned, NewOwned
<1>13. RunOwned'
  <2> SUFFICES ASSUME NEW q \in Procs, NEW t \in ToSet(runQue'[q])
               PROVE  /\ state[t] \in {"READY", "RUNNING", "BLOCK"} /\ Unowned(t)
                      /\ state[t] = "BLOCK" => processor[t] = q
                      /\ \A x \in Procs : nextTask[x] # t /\ (running[x] = t => state[t] = "BLOCK")
    BY <1>1, <1>2 DEF RunOwned
  <2>1. t \in ToSet(runQue[q])
    OBVIOUS
  <2> QED
    BY <2>1 DEF HandOwned, Owned, RunOwned
<1>14. Owned'
  BY <1>11, <1>12, <1>13, QueuesOwned DEF HandOwned
<1> QED
  BY <1>1, <1>9, <1>10, <1>14 DEF HandOwned, NoneBlocked

(* ... from newQue_ *)
LEMMA StealNewHand ==
  ASSUME MaxSuspends = 0, TypeOK, HandOwned, hand \in Seq(Tasks), NEW p \in Procs,
         NEW kept, NEW got, Parts(newQue[p], kept, got),
         newQue' = [newQue EXCEPT ![p] = kept], hand' = hand \o got,
         UNCHANGED <<runQue, taken, loopVars, taskVars, wakeVars, waitSet>>
  PROVE  HandOwned'
<1>1. QueuesApart
  BY DEF HandOwned, Owned
<1>2. /\ got \in Seq(Tasks) /\ IsInjective(got) /\ IsInjective(kept)
      /\ ToSet(newQue[p]) = ToSet(kept) \cup ToSet(got) /\ ToSet(kept) \cap ToSet(got) = {}
  BY <1>1 DEF QueuesApart, Parts
<1>3. newQue'[p] = kept /\ \A q \in Procs \ {p} : newQue'[q] = newQue[q]
  BY DEF TypeOK
<1>4. ASSUME NEW q \in Procs
      PROVE  /\ IsInjective(newQue'[q]) /\ IsInjective(runQue'[q])
             /\ ToSet(newQue'[q]) \cap ToSet(taken[q]) = {}
             /\ NewSet(q)' = NewSet(q) \ ToSet(got)
             /\ ToSet(runQue'[q]) = ToSet(runQue[q]) \ ToSet(got)
  <2>1. /\ IsInjective(newQue[q]) /\ IsInjective(runQue[q])
        /\ ToSet(newQue[q]) \cap ToSet(taken[q]) = {}
    BY <1>1 DEF QueuesApart
  <2>2. /\ NewSet(p) \cap ToSet(runQue[q]) = {} /\ NewSet(q) \cap ToSet(runQue[p]) = {}
        /\ q # p => /\ NewSet(p) \cap NewSet(q) = {}
                    /\ ToSet(runQue[p]) \cap ToSet(runQue[q]) = {}
    BY <1>1 DEF QueuesApart
  <2>3. NewSet(q)' = ToSet(newQue'[q]) \cup ToSet(taken[q])
    BY DEF NewSet
  <2>4. CASE q = p
    BY <1>2, <1>3, <2>1, <2>2, <2>3, <2>4 DEF NewSet
  <2>5. CASE q # p
    BY <1>2, <1>3, <2>1, <2>2, <2>3, <2>5 DEF NewSet
  <2> QED
    BY <2>4, <2>5
<1> QED
  BY <1>2, <1>4, StealHand

(* ... from runQue_ *)
LEMMA StealRunHand ==
  ASSUME MaxSuspends = 0, TypeOK, HandOwned, hand \in Seq(Tasks), NEW p \in Procs,
         NEW kept, NEW got, Parts(runQue[p], kept, got),
         runQue' = [runQue EXCEPT ![p] = kept], hand' = hand \o got,
         UNCHANGED <<newQue, taken, loopVars, taskVars, wakeVars, waitSet>>
  PROVE  HandOwned'
<1>1. QueuesApart
  BY DEF HandOwned, Owned
<1>2. /\ got \in Seq(Tasks) /\ IsInjective(got) /\ IsInjective(kept)
      /\ ToSet(runQue[p]) = ToSet(kept) \cup ToSet(got) /\ ToSet(kept) \cap ToSet(got) = {}
  BY <1>1 DEF QueuesApart, Parts
<1>3. runQue'[p] = kept /\ \A q \in Procs \ {p} : runQue'[q] = runQue[q]
  BY DEF TypeOK
<1>4. ASSUME NEW q \in Procs
      PROVE  /\ IsInjective(newQue'[q]) /\ IsInjective(runQue'[q])
             /\ ToSet(newQue'[q]) \cap ToSet(taken[q]) = {}
             /\ NewSet(q)' = NewSet(q) \ ToSet(got)
             /\ ToSet(runQue'[q]) = ToSet(runQue[q]) \ ToSet(got)
  <2>1. /\ IsInjective(newQue[q]) /\ IsInjective(runQue[q])
        /\ ToSet(newQue[q]) \cap ToSet(taken[q]) = {}
    BY <1>1 DEF QueuesApart
  <2>2. /\ NewSet(p) \cap ToSet(runQue[q]) = {} /\ NewSet(q) \cap ToSet(runQue[p]) = {}
        /\ q # p => /\ NewSet(p) \cap NewSet(q) = {}
                    /\ ToSet(runQue[p]) \cap ToSet(runQue[q]) = {}
    BY <1>1 DEF QueuesApart
  <2>3. NewSet(q)' = ToSet(newQue'[q]) \cup ToSet(taken[q])
    BY DEF NewSet
  <2>4. CASE q = p
    BY <1>2, <1>3, <2>1, <2>2, <2>3, <2>4 DEF NewSet
  <2>5. CASE q # p
    BY <1>2, <1>3, <2>1, <2>2, <2>3, <2>5 DEF NewSet
  <2> QED
    BY <2>4, <2>5
<1> QED
  BY <1>2, <1>4, StealHand

(* addTask(tasks): the front of the thread's hands goes to processor p. *)
LEMMA GiveHand ==
  ASSUME TypeOK, HandOwned, NEW p \in Procs,
         NEW in, NEW rest, Parts(hand, in, rest), AddTasks(p, in), hand' = rest
  PROVE  HandOwned'
<1> USE ProcessorAssumption
<1> DEFINE X == ToSet(in)
<1>1. /\ UNCHANGED <<runQue, taken, loopVars, taskVars, wakeVars, waitSet>>
      /\ UNCHANGED <<running, nextTask, state, processor, lost>>
  BY DEF AddTasks, loopVars, taskVars, wakeVars
<1>2. \A t : Unowned(t)' <=> Unowned(t)
  BY <1>1 DEF wakeVars, Alive, InWaitSet, Holders, Unowned
<1>3. /\ in \in Seq(Tasks) /\ rest \in Seq(Tasks) /\ IsInjective(in) /\ IsInjective(rest)
      /\ ToSet(hand) = X \cup ToSet(rest) /\ X \cap ToSet(rest) = {}
  BY DEF Parts, HandOwned, HandApart
<1>4. X \subseteq Tasks /\ ToSet(rest) \subseteq Tasks
  BY <1>3, ElementsType
<1> HIDE DEF X
<1>5. ASSUME NEW t \in X
      PROVE  /\ Live(t) /\ t \notin lost
             /\ \A q \in Procs : /\ t \notin NewSet(q) /\ t \notin ToSet(runQue[q])
                                 /\ nextTask[q] # t /\ running[q] # t
  <2>1. t \in Tasks /\ Live(t) /\ ~Held(t)
    BY <1>3, <1>4 DEF HandOwned, HandApart
  <2>2. /\ t \notin lost
        /\ \A q \in Procs : t \notin NewSet(q) /\ t \notin ToSet(runQue[q]) /\ nextTask[q] # t
    BY <2>1 DEF Held, Unowned
  <2>3. ASSUME NEW q \in Procs PROVE running[q] # t
    BY <2>1 DEF HandOwned, Owned, RunningState, InTask, Held, Live
  <2> QED
    BY <2>1, <2>2, <2>3
<1>6. /\ NewSet(p)' = NewSet(p) \cup X /\ \A q \in Procs \ {p} : NewSet(q)' = NewSet(q)
      /\ \A q \in Procs : IsInjective(newQue'[q]) /\ ToSet(newQue'[q]) \cap ToSet(taken[q]) = {}
  <2>1. newQue'[p] = newQue[p] \o in /\ \A q \in Procs \ {p} : newQue'[q] = newQue[q]
    BY DEF AddTasks, TypeOK
  <2>2. /\ newQue[p] \in Seq(Tasks)
        /\ \A q \in Procs : IsInjective(newQue[q]) /\ ToSet(newQue[q]) \cap ToSet(taken[q]) = {}
    BY DEF TypeOK, HandOwned, Owned, QueuesApart
  <2>3. ToSet(newQue[p]) \cap ToSet(in) = {} /\ ToSet(taken[p]) \cap ToSet(in) = {}
    BY <1>5 DEF X, NewSet
  <2>4. ToSet(newQue[p] \o in) = ToSet(newQue[p]) \cup ToSet(in)
    BY <1>3, <2>2, ConcatElements
  <2>5. IsInjective(newQue[p] \o in)
    BY <1>3, <2>2, <2>3, ConcatElements
  <2>6. ToSet(newQue'[p]) = ToSet(newQue[p]) \cup X
    BY <2>1, <2>4 DEF X
  <2>7. /\ NewSet(p)' = NewSet(p) \cup X /\ \A q \in Procs \ {p} : NewSet(q)' = NewSet(q)
    BY <1>1, <2>1, <2>6 DEF NewSet
  <2>8. \A q \in Procs : IsInjective(newQue'[q]) /\ ToSet(newQue'[q]) \cap ToSet(taken[q]) = {}
    BY <2>1, <2>2, <2>3, <2>5, <2>6 DEF X
  <2> QED
    BY <2>7, <2>8
<1>7. ASSUME NEW t \in X PROVE Held(t)'
  BY <1>6 DEF Held
<1>8. ASSUME NEW t \in Tasks \ X PROVE Held(t)' <=> Held(t)
  <2>1. InQueue(t)' <=> InQueue(t)
    BY <1>1, <1>6 DEF InQueue
  <2> QED
    BY <1>1, <2>1, HeldElsewhere
<1>9. HandApart'
  BY <1>1, <1>3, <1>4, <1>8 DEF HandOwned, HandApart, Live
<1>10. AllOwned'
  BY <1>1, <1>3, <1>7, <1>8 DEF HandOwned, AllOwned, Live
<1>11. QueuesApart'
  <2> SUFFICES ASSUME NEW q \in Procs, NEW r \in Procs
               PROVE  /\ IsInjective(newQue'[q]) /\ IsInjective(taken'[q]) /\ IsInjective(runQue'[q])
                      /\ ToSet(newQue'[q]) \cap ToSet(taken'[q]) = {}
                      /\ NewSet(q)' \cap ToSet(runQue'[r]) = {}
                      /\ q # r => /\ NewSet(q)' \cap NewSet(r)' = {}
                                  /\ ToSet(runQue'[q]) \cap ToSet(runQue'[r]) = {}
    BY DEF QueuesApart
  <2>1. /\ IsInjective(newQue'[q]) /\ IsInjective(taken'[q]) /\ IsInjective(runQue'[q])
        /\ ToSet(newQue'[q]) \cap ToSet(taken'[q]) = {}
    BY <1>1, <1>6 DEF HandOwned, Owned, QueuesApart
  <2>2. NewSet(q)' \cap ToSet(runQue'[r]) = {}
    BY <1>1, <1>5, <1>6 DEF HandOwned, Owned, QueuesApart
  <2>3. q # r => NewSet(q)' \cap NewSet(r)' = {}
    BY <1>5, <1>6 DEF HandOwned, Owned, QueuesApart
  <2>4. q # r => ToSet(runQue'[q]) \cap ToSet(runQue'[r]) = {}
    BY <1>1 DEF HandOwned, Owned, QueuesApart
  <2> QED
    BY <2>1, <2>2, <2>3, <2>4
<1>12. NewOwned'
  <2> SUFFICES ASSUME NEW q \in Procs, NEW t \in NewSet(q)'
               PROVE  /\ state[t] \in {"READY", "RUNNING"} /\ t \notin lost
                      /\ \A x \in Procs : running[x] # t /\ nextTask[x] # t
    BY <1>1 DEF NewOwned
  <2>1. t \in X \/ t \in NewSet(q)
    BY <1>6
  <2> QED
    BY <1>5, <2>1 DEF HandOwned, Owned, NewOwned, Live
<1>13. RunOwned'
  <2>1. RunOwned /\ runQue' = runQue
    BY <1>1 DEF HandOwned, Owned
  <2> QED
    BY <1>1, <1>2, <2>1 DEF RunOwned
<1>14. Owned'
  BY <1>1, <1>11, <1>12, <1>13, QueuesOwned DEF HandOwned
<1> QED
  BY <1>1, <1>9, <1>10, <1>14 DEF HandOwned, NoneBlocked

(* A queue of which nothing, or everything, is taken *)
LEMMA AllParts ==
  ASSUME NEW s \in Seq(Tasks)
  PROVE  Parts(s, s, <<>>) /\ Parts(s, <<>>, s)
<1>1. <<>> \in Seq(Tasks) /\ Len(<<>>) = 0 /\ Len(s) \in Nat
  OBVIOUS
<1>2. ToSet(<<>>) = {} /\ IsInjective(<<>>)
  BY EmptyElements
<1>3. Len(s) = Len(s) + Len(<<>>) /\ Len(s) = Len(<<>>) + Len(s)
  BY <1>1
<1>4. Parts(s, s, <<>>)
  BY <1>1, <1>2, <1>3, Zenon DEF Parts
<1>5. Parts(s, <<>>, s)
  BY <1>1, <1>2, <1>3, Zenon DEF Parts
<1> QED
  BY <1>4, <1>5

LEMMA SchedHand ==
  ASSUME MaxSuspends = 0, BaseInv, HandOwned, HandEmpty, [SchedNext]_allVars
  PROVE  HandOwned'
<1>1. TypeOK /\ TypeOK' /\ hand \in Seq(Tasks)
  BY NextBase DEF BaseInv, BalanceTypes, WakeNext
<1>2. plan # <<>> => Head(plan).proc \in Procs /\ Head(plan).n \in Nat
  <2> SUFFICES ASSUME plan # <<>> PROVE Head(plan).proc \in Procs /\ Head(plan).n \in Nat
    OBVIOUS
  <2>1. Head(plan) \in Share
    BY DEF BaseInv, BalanceTypes
  <2> QED
    BY <2>1 DEF Share
<1>3. ASSUME UNCHANGED <<vars, hand>> PROVE HandOwned'
  BY <1>1, <1>3, StutterHand
<1>4. ASSUME NEW ts, PickProcessor(ts) \/ PickTwice(ts) PROVE HandOwned'
  BY <1>3, <1>4 DEF PickProcessor, PickTwice, balanceVars
<1>5. ASSUME NEW c \in calls, AddPicked(c) PROVE HandOwned'
  <2>1. c.proc \in Procs /\ c.tasks \in Lists
    BY DEF BaseInv, BalanceTypes
  <2> QED
    BY <1>1, <1>5, <2>1, AddTaskHand DEF AddPicked, balanceVars
<1>6. ASSUME NEW p \in Procs, ProcessorStep(p) PROVE HandOwned'
  BY <1>1, <1>6, ProcessorHand DEF ProcessorStep, balanceVars
<1>7. ASSUME NEW p \in Procs, Overdue(p) PROVE HandOwned'
  BY <1>3, <1>7 DEF Overdue, balanceVars
<1>8. CASE BalanceStart \/ Scan \/ ScanActive \/ BlockStolen \/ NoActives \/ ActiveBegin \/ Stolen
  BY <1>3, <1>8 DEF BalanceStart, Scan, ScanActive, BlockStolen, NoActives, ActiveBegin, Stolen
<1>9. CASE BlockSteal
  <2>1. PICK p \in blockings : hand' = hand \o newQue[p] /\ newQue' = [newQue EXCEPT ![p] = <<>>]
    BY <1>9 DEF BlockSteal
  <2>2. p \in Procs
    BY DEF BaseInv, BalanceTypes
  <2>3. Parts(newQue[p], <<>>, newQue[p])
    BY <1>1, <2>2, AllParts DEF TypeOK
  <2>4. UNCHANGED <<runQue, taken, loopVars, taskVars, wakeVars, waitSet>>
    BY <1>9 DEF BlockSteal
  <2> QED
    BY <1>1, <2>1, <2>2, <2>3, <2>4, StealNewHand
<1>10. CASE Give
  <2> DEFINE p == Head(plan).proc
             n == Head(plan).n
  <2>1. p \in Procs /\ n \in Nat
    BY <1>2, <1>10 DEF Give
  <2>2. \/ UNCHANGED <<vars, hand>>
        \/ AddTasks(p, FrontBulk(hand, n)) /\ hand' = AfterFront(hand, n)
    BY <1>10 DEF Give
  <2> HIDE DEF p, n
  <2>3. Parts(hand, FrontBulk(hand, n), AfterFront(hand, n))
    BY <1>1, <2>1, FrontParts
  <2> QED
    BY <1>1, <1>3, <2>1, <2>2, <2>3, GiveHand
<1>11. CASE GiveRest
  <2>1. CASE hand = <<>>
    BY <1>3, <1>11, <2>1 DEF GiveRest
  <2>2. CASE hand # <<>>
    <3>1. AddTasks(actives[1].proc, hand) /\ hand' = <<>>
      BY <1>11, <2>2 DEF GiveRest
    <3>2. actives # <<>> /\ actives \in Seq(ActiveEntry)
      BY <1>11 DEF GiveRest, BaseInv, Looks, BalanceTypes
    <3>3. 1 \in 1..Len(actives)
      BY <3>2
    <3>4. actives[1].proc \in Procs
      BY <3>2, <3>3, LoadType
    <3>5. Parts(hand, hand, <<>>)
      BY <1>1, AllParts
    <3> QED
      BY <1>1, <3>1, <3>4, <3>5, GiveHand
  <2> QED
    BY <2>1, <2>2
<1>12. CASE StealNew
  <2> DEFINE p == Head(plan).proc
             n == Head(plan).n
  <2>1. p \in Procs /\ n \in Nat
    BY <1>2, <1>12 DEF StealNew
  <2>2. /\ newQue' = [newQue EXCEPT ![p] = BeforeBack(newQue[p], n)]
        /\ hand' = hand \o BackBulk(newQue[p], n)
        /\ UNCHANGED <<runQue, taken, loopVars, taskVars, wakeVars, waitSet>>
    BY <1>12 DEF StealNew
  <2> HIDE DEF p, n
  <2>3. Parts(newQue[p], BeforeBack(newQue[p], n), BackBulk(newQue[p], n))
    BY <1>1, <2>1, BackParts DEF TypeOK
  <2> QED
    BY <1>1, <2>1, <2>2, <2>3, StealNewHand
<1>13. CASE StealRun
  <2> DEFINE p == Head(plan).proc
             n == Head(plan).n
  <2>1. p \in Procs /\ n \in Nat
    BY <1>2, <1>13 DEF StealRun, BaseInv, BalanceTypes
  <2>2. /\ runQue' = [runQue EXCEPT ![p] = BeforeBack(runQue[p], n)]
        /\ hand' = hand \o BackBulk(runQue[p], n)
        /\ UNCHANGED <<newQue, taken, loopVars, taskVars, wakeVars, waitSet>>
    BY <1>13 DEF StealRun
  <2> HIDE DEF p, n
  <2>3. Parts(runQue[p], BeforeBack(runQue[p], n), BackBulk(runQue[p], n))
    BY <1>1, <2>1, BackParts DEF TypeOK
  <2> QED
    BY <1>1, <2>1, <2>2, <2>3, StealRunHand
<1>14. CASE UNCHANGED allVars
  BY <1>3, <1>14 DEF allVars, schedVars, balanceVars
<1> QED
  BY <1>4, <1>5, <1>6, <1>7, <1>8, <1>9, <1>10, <1>11, <1>12, <1>13, <1>14 DEF SchedNext, Balance

LEMMA SchedHandEmpty ==
  ASSUME BaseInv, HandEmpty, [SchedNext]_allVars
  PROVE  HandEmpty'
<1>1. CASE UNCHANGED <<bpc, actives, hand>>
  BY <1>1 DEF HandEmpty
<1>2. ASSUME NEW c, PickProcessor(c) \/ PickTwice(c) \/ AddPicked(c)
      PROVE  UNCHANGED <<bpc, actives, hand>>
  BY <1>2 DEF PickProcessor, PickTwice, AddPicked, balanceVars
<1>3. ASSUME NEW p \in Procs, ProcessorStep(p) \/ Overdue(p) PROVE UNCHANGED <<bpc, actives, hand>>
  BY <1>3 DEF ProcessorStep, Overdue, balanceVars
<1>4. CASE BalanceStart \/ NoActives
  BY <1>4 DEF BalanceStart, NoActives, BalanceEnd, HandEmpty
<1>5. CASE Scan \/ ScanActive
  BY <1>5 DEF Scan, ScanActive, HandEmpty
<1>6. CASE BlockSteal
  BY <1>6 DEF BlockSteal, HandEmpty
<1>7. CASE BlockStolen
  BY <1>7 DEF BlockStolen, HandEmpty
<1>8. CASE Give
  BY <1>8 DEF Give, HandEmpty
<1>9. CASE GiveRest
  BY <1>9 DEF GiveRest, HandEmpty
<1>10. CASE ActiveBegin
  BY <1>10 DEF ActiveBegin, BalanceEnd, HandEmpty
<1>11. CASE StealNew \/ StealRun
  BY <1>11 DEF StealNew, StealRun, HandEmpty
<1>12. CASE Stolen
  BY <1>12 DEF Stolen, BalanceEnd, HandEmpty
<1>13. CASE UNCHANGED allVars
  BY <1>1, <1>13 DEF allVars, schedVars, balanceVars
<1> QED
  BY <1>1, <1>2, <1>3, <1>4, <1>5, <1>6, <1>7, <1>8, <1>9, <1>10, <1>11, <1>12, <1>13
  DEF SchedNext, Balance

LEMMA SchedInitHand == SchedInit => HandOwned /\ HandEmpty
<1> SUFFICES ASSUME SchedInit PROVE HandOwned /\ HandEmpty
  OBVIOUS
<1>1. Owned /\ lost = {} /\ hand = <<>> /\ \A t \in Tasks : state[t] = "NEW"
  BY InitHolds DEF SchedInit, IInv, Init
<1>2. HandApart
  BY <1>1, EmptyElements DEF HandApart
<1>3. AllOwned /\ NoneBlocked /\ HandEmpty
  BY <1>1 DEF AllOwned, Live, NoneBlocked, HandEmpty
<1> QED
  BY <1>1, <1>2, <1>3 DEF HandOwned

(* The invariant while no task suspends *)
THEOREM HandInvariantHolds ==
  ASSUME MaxSuspends = 0
  PROVE  SchedSpec => [](BaseInv /\ HandOwned /\ HandEmpty)
<1>1. SchedInit => BaseInv /\ HandOwned /\ HandEmpty
  BY SchedInitBase, SchedInitHand
<1>2. BaseInv /\ HandOwned /\ HandEmpty /\ [SchedNext]_allVars => (BaseInv /\ HandOwned /\ HandEmpty)'
  <2>1. [SchedNext]_allVars => [WakeNext]_allVars
    BY DEF WakeNext
  <2> QED
    BY <2>1, NextBase, SchedHand, SchedHandEmpty
<1> QED
  BY <1>1, <1>2, PTL DEF SchedSpec

(* A queue that no task is on twice has one place for each of its tasks. *)
LEMMA OnePlace ==
  ASSUME NEW s, IsInjective(s), NEW t
  PROVE  /\ t \in ToSet(s) => \E i : {j \in DOMAIN s : s[j] = t} = {i}
         /\ t \notin ToSet(s) => {j \in DOMAIN s : s[j] = t} = {}
<1>1. ASSUME t \in ToSet(s) PROVE \E i : {j \in DOMAIN s : s[j] = t} = {i}
  <2>1. PICK i \in DOMAIN s : s[i] = t
    BY <1>1 DEF ToSet
  <2>2. \A j \in DOMAIN s : s[j] = t => j = i
    BY <2>1 DEF IsInjective
  <2>3. {j \in DOMAIN s : s[j] = t} = {i}
    BY <2>1, <2>2
  <2> QED
    BY <2>3
<1>2. ASSUME t \notin ToSet(s) PROVE {j \in DOMAIN s : s[j] = t} = {}
  BY <1>2 DEF ToSet
<1> QED
  BY <1>1, <1>2

LEMMA HandIsOwner == BaseInv /\ HandOwned /\ HandEmpty => SchedOneOwner
<1> SUFFICES ASSUME BaseInv, HandOwned, HandEmpty PROVE SchedOneOwner
  OBVIOUS
<1>1. TypeOK /\ Owned
  BY DEF BaseInv, HandOwned
<1>2. ASSUME NEW t \in Tasks
      PROVE  /\ t \in ToSet(hand) => \E i : InHand(t) = {i}
             /\ t \notin ToSet(hand) => InHand(t) = {}
  BY OnePlace DEF InHand, HandOwned, HandApart
<1>3. ASSUME NEW t \in Tasks, state[t] \in {"NEW", "DONE", "EXCEPT"} PROVE InHand(t) = {}
  <2>1. t \notin ToSet(hand)
    BY <1>3 DEF HandOwned, HandApart, Live
  <2> QED
    BY <1>2, <2>1
<1>4. ASSUME NEW t \in Tasks, Live(t) PROVE Cardinality(Owners(t)) + Cardinality(InHand(t)) = 1
  <2>1. IF Held(t) THEN \E o : Owners(t) = {o} ELSE Owners(t) = {}
    BY <1>1, <1>4, OwnersByState DEF Live, HandOwned, NoneBlocked
  <2>2. CASE t \in ToSet(hand)
    <3>1. PICK i : InHand(t) = {i}
      BY <1>2, <2>2
    <3>2. Owners(t) = {}
      BY <2>1, <2>2 DEF HandOwned, HandApart
    <3>3. Cardinality({i}) = 1 /\ Cardinality({}) = 0
      BY FS_EmptySet, FS_Singleton
    <3> QED
      BY <3>1, <3>2, <3>3
  <2>3. CASE t \notin ToSet(hand)
    <3>1. InHand(t) = {}
      BY <1>2, <2>3
    <3>2. PICK o : Owners(t) = {o}
      BY <1>4, <2>1, <2>3 DEF HandOwned, AllOwned
    <3>3. Cardinality({o}) = 1 /\ Cardinality({}) = 0
      BY FS_EmptySet, FS_Singleton
    <3> QED
      BY <3>1, <3>2, <3>3
  <2> QED
    BY <2>2, <2>3
<1> QED
  BY <1>3, <1>4 DEF SchedOneOwner, Live, HandEmpty

(* Balancing neither loses nor duplicates a task: whatever the balance       *)
(* thread, the processors and the callers of addTask do at the same time, a  *)
(* task that has not ended is in one queue, or run by one processor, or in   *)
(* the balance thread's hands, and only there.                               *)
THEOREM BalancedTaskHasOneOwner ==
  ASSUME MaxSuspends = 0
  PROVE  SchedSpec => []SchedOneOwner
  BY HandInvariantHolds, HandIsOwner, PTL

-----------------------------------------------------------------------------
(* taskCount_, with what the lists hid from it, covers the tasks that have   *)
(* not ended, and those that have but whose processor has not come to        *)
(* SchedulerTaskOpt::onErase yet.                                            *)

Ends(p) == pc[p] \in {"switch", "drainDone"}

Counted == {t \in Tasks : Live(t) \/ \E p \in Procs : Ends(p) /\ running[p] = t}

CountInv == IsFiniteSet(Counted) /\ Cardinality(Counted) <= taskCount + hidden

LEMMA CountKept ==
  ASSUME CountInv, taskCount \in Int, hidden \in Int, Counted' \subseteq Counted,
         taskCount' \in Int, taskCount <= taskCount', UNCHANGED hidden
  PROVE  CountInv'
<1>1. IsFiniteSet(Counted') /\ Cardinality(Counted') <= Cardinality(Counted)
  BY FS_Subset DEF CountInv
<1>2. Cardinality(Counted) \in Nat /\ Cardinality(Counted') \in Nat
  BY <1>1, FS_CardinalityType DEF CountInv
<1> QED
  BY <1>1, <1>2 DEF CountInv

(* A step of a processor does not bring a task to life. *)
LEMMA LiveBefore ==
  ASSUME MaxSuspends = 0, HandOwned, OwnedStep, NEW t \in Tasks, Live(t)'
  PROVE  Live(t)
<1>1. CASE ~Held(t)
  BY <1>1 DEF OwnedStep, Follows, Live
<1>2. CASE Held(t)
  <2>1. Unowned(t)
    BY NoRefs DEF HandOwned, NoneBlocked, Unowned
  <2>2. state[t] # "BLOCK"
    BY DEF HandOwned, NoneBlocked
  <2>3. ASSUME NEW p \in Procs, t \in NewSet(p) \/ t \in ToSet(runQue[p]) PROVE Live(t)
    BY <2>2, <2>3 DEF HandOwned, Owned, NewOwned, RunOwned, Live
  <2>4. ASSUME NEW p \in Procs, nextTask[p] = t PROVE Live(t)
    BY <2>2, <2>4, ProcessorAssumption DEF HandOwned, Owned, NextOwned, Live
  <2> QED
    BY <1>2, <2>1, <2>3, <2>4 DEF Held, Live
<1> QED
  BY <1>1, <1>2

(* How the thread of a processor comes to the switch, and to the erase *)
LEMMA SwitchComes ==
  ASSUME TypeOK, NEW p \in Procs, Process(p) \/ SpuriousWake(p) \/ User(p)
  PROVE  /\ \A q \in Procs \ {p} : pc'[q] = pc[q] /\ running'[q] = running[q]
         /\ Ends(p)' => (pc[p] \in {"user", "blocked"} \/ Ends(p)) /\ running'[p] = running[p]
         /\ pc'[p] = "erase" => Ends(p) /\ UNCHANGED <<state, running>>
<1>1. ASSUME NEW t, Runs(p, t)
      PROVE  /\ \A q \in Procs \ {p} : pc'[q] = pc[q] /\ running'[q] = running[q]
             /\ pc'[p] = "user"
  BY <1>1 DEF Runs, TypeOK
<1>2. ASSUME RunsNext(p)
      PROVE  /\ \A q \in Procs \ {p} : pc'[q] = pc[q] /\ running'[q] = running[q]
             /\ pc'[p] \in {"user", "pick"}
  BY <1>1, <1>2 DEF RunsNext, TypeOK
<1>3. CASE PickRun(p) \/ PopFirst(p)
  BY <1>1, <1>3 DEF PickRun, PopFirst, Ends
<1>4. CASE SwitchBlock(p) \/ SwitchErase(p)
  BY <1>1, <1>2, <1>4 DEF SwitchBlock, SwitchErase, Ends
<1>5. CASE PickNothing(p) \/ PopNothing(p) \/ WaitEnter(p) \/ WaitEnd(p) \/ SpuriousWake(p)
  BY <1>5 DEF PickNothing, PopNothing, WaitEnter, WaitEnd, SpuriousWake, TypeOK, Ends
<1>6. CASE PopNew(p) \/ PushNew(p)
  <2>1. /\ UNCHANGED <<state, running>> /\ pc[p] \in DOMAIN AfterDrain
        /\ pc' = pc \/ pc' = [pc EXCEPT ![p] = AfterDrain[pc[p]]]
    BY <1>6 DEF PopNew, PushNew, taskVars, TypeOK
  <2>2. /\ \A q \in Procs \ {p} : pc'[q] = pc[q]
        /\ \/ pc'[p] = pc[p]
           \/ pc[p] \in {"drain", "woken", "drainYield"} /\ pc'[p] \in {"pick2", "pick", "push"}
           \/ pc[p] = "drainDone" /\ pc'[p] = "erase"
    BY <2>1, DrainPcs DEF TypeOK
  <2> QED
    BY <2>1, <2>2, DrainPcs DEF Ends
<1>7. CASE SwitchYield(p) \/ PushYield(p)
  BY <1>7 DEF SwitchYield, PushYield, TypeOK, Ends
<1>8. CASE SwitchDone(p)
  BY <1>8 DEF SwitchDone, TypeOK, Ends, taskVars
<1>9. CASE Yield(p) \/ Finish(p) \/ Suspend(p) \/ SuspendReturn(p)
  BY <1>9 DEF Yield, Finish, Suspend, SuspendReturn, InUser, TypeOK, Ends
<1> QED
  BY <1>3, <1>4, <1>5, <1>6, <1>7, <1>8, <1>9 DEF Process, PopYield, User

LEMMA ProcessorCount ==
  ASSUME MaxSuspends = 0, TypeOK, TypeOK', HandOwned, CountInv, taskCount \in Int, hidden \in Int,
         NEW p \in Procs, ProcessorStep(p)
  PROVE  CountInv'
<1>1. /\ Process(p) \/ SpuriousWake(p) \/ User(p)
      /\ UNCHANGED hidden
  BY DEF ProcessorStep
<1>2. OwnedStep
  BY <1>1, ProcessorOwned DEF HandOwned
<1>3. /\ \A q \in Procs \ {p} : pc'[q] = pc[q] /\ running'[q] = running[q]
      /\ Ends(p)' => (pc[p] \in {"user", "blocked"} \/ Ends(p)) /\ running'[p] = running[p]
      /\ pc'[p] = "erase" => Ends(p) /\ UNCHANGED <<state, running>>
  BY <1>1, SwitchComes
<1>4. pc[p] \in {"user", "blocked"} => Live(running[p])
  <2> SUFFICES ASSUME pc[p] \in {"user", "blocked"} PROVE Live(running[p])
    OBVIOUS
  <2>1. running[p] \in Tasks /\ state[running[p]] \in {"RUNNING", "BLOCK"}
    BY DEF HandOwned, Owned, RunningState, InTask
  <2> QED
    BY <2>1 DEF HandOwned, NoneBlocked, Live
<1>5. ASSUME NEW t \in Counted' PROVE t \in Counted
  <2>1. t \in Tasks /\ (Live(t)' \/ \E q \in Procs : Ends(q)' /\ running'[q] = t)
    BY DEF Counted
  <2>2. CASE Live(t)'
    BY <1>2, <2>1, <2>2, LiveBefore DEF Counted
  <2>3. ASSUME NEW q \in Procs, Ends(q)', running'[q] = t PROVE t \in Counted
    <3>1. CASE q = p
      BY <1>3, <1>4, <2>1, <2>3, <3>1 DEF Counted
    <3>2. CASE q # p
      BY <1>3, <2>1, <2>3, <3>2 DEF Counted, Ends
    <3> QED
      BY <3>1, <3>2
  <2> QED
    BY <2>1, <2>2, <2>3
<1>6. ASSUME NEW t, t = running[p], pc'[p] = "erase" PROVE CountInv'
  <2>1. Ends(p) /\ state' = state /\ running' = running
    BY <1>3, <1>6
  <2>2. t \in Tasks
    BY <1>6, <2>1 DEF HandOwned, Owned, RunningState, InTask, Ends
  <2>3. t \in Counted
    BY <1>6, <2>1, <2>2 DEF Counted
  <2>4. \A q \in Procs \ {p} : Ends(q) => running[q] # t
    BY <1>6, <2>1, <2>2 DEF HandOwned, Owned, RunningState, InTask, Ends
  <2>5. state'[t] \in {"DONE", "EXCEPT"}
    <3>1. RunningState'
      BY <1>2 DEF OwnedStep, Owned
    <3> QED
      BY <1>6, <2>1, <3>1 DEF RunningState
  <2>6. t \notin Counted'
    <3>1. ~Live(t)'
      BY <2>1, <2>5 DEF Live
    <3>2. ~Ends(p)' /\ \A q \in Procs \ {p} : Ends(q)' => running'[q] # t
      BY <1>3, <1>6, <2>4 DEF Ends
    <3> QED
      BY <3>1, <3>2 DEF Counted
  <2>7. Counted' \subseteq Counted \ {t}
    BY <1>5, <2>6
  <2>8. IsFiniteSet(Counted \ {t}) /\ Cardinality(Counted \ {t}) = Cardinality(Counted) - 1
    BY <2>3, FS_RemoveElement DEF CountInv
  <2>9. IsFiniteSet(Counted') /\ Cardinality(Counted') <= Cardinality(Counted \ {t})
    BY <2>7, <2>8, FS_Subset
  <2>10. Cardinality(Counted) \in Nat /\ Cardinality(Counted') \in Nat
    BY <2>9, FS_CardinalityType DEF CountInv
  <2>11. taskCount' = taskCount - 1
    BY <1>6 DEF ProcessorStep, CountErase
  <2> QED
    BY <1>1, <2>8, <2>9, <2>10, <2>11 DEF CountInv
<1>7. CASE pc'[p] # "erase"
  <2>1. taskCount' = taskCount
    BY <1>7 DEF ProcessorStep, CountErase
  <2> QED
    BY <1>1, <1>5, <2>1, CountKept
<1> QED
  BY <1>6, <1>7

(* A sequence has no more elements than places. *)
LEMMA FewElements ==
  ASSUME NEW ts \in Lists
  PROVE  IsFiniteSet(ToSet(ts)) /\ Cardinality(ToSet(ts)) <= Len(ts)
<1>1. ts \in Seq(Tasks) /\ Len(ts) \in Nat
  BY ListsType, ListLength
<1>2. DOMAIN ts = 1..Len(ts)
  BY <1>1
<1>3. IsFiniteSet(1..Len(ts)) /\ Cardinality(1..Len(ts)) = Len(ts)
  <2>1. 1 \in Int /\ Len(ts) \in Int
    BY <1>1
  <2> QED
    BY <1>1, <2>1, FS_Interval
<1>4. ts \in Surjection(1..Len(ts), ToSet(ts))
  BY <1>1, <1>2 DEF ToSet, Surjection
<1> QED
  BY <1>3, <1>4, FS_Surjection

LEMMA AddPickedCount ==
  ASSUME BaseInv, CountInv, NEW c \in calls, AddPicked(c)
  PROVE  CountInv'
<1> DEFINE T == ToSet(c.tasks)
           n == Len(c.tasks)
<1>1. /\ c.tasks \in Lists /\ taskCount \in Int /\ hidden \in Nat
  BY DEF BaseInv, BalanceTypes
<1>2. /\ state' = [t \in Tasks |-> IF t \in T THEN "READY" ELSE state[t]]
      /\ UNCHANGED <<pc, running>>
      /\ taskCount' = taskCount + 1 /\ hidden' = hidden + n - 1
  BY DEF AddPicked, AddTask, Push, loopVars
<1>3. IsFiniteSet(T) /\ Cardinality(T) <= n /\ n \in Nat
  BY <1>1, FewElements, ListLength
<1> HIDE DEF T, n
<1>4. Counted' \subseteq Counted \cup T
  BY <1>2 DEF Counted, Live, Ends
<1>5. /\ IsFiniteSet(Counted \cup T)
      /\ Cardinality(Counted \cup T) = Cardinality(Counted) + Cardinality(T) - Cardinality(Counted \cap T)
  BY <1>3, FS_Union DEF CountInv
<1>6. IsFiniteSet(Counted') /\ Cardinality(Counted') <= Cardinality(Counted \cup T)
  BY <1>4, <1>5, FS_Subset
<1>7. IsFiniteSet(Counted \cap T)
  BY <1>3, FS_Intersection DEF CountInv
<1>8. /\ Cardinality(Counted) \in Nat /\ Cardinality(T) \in Nat /\ Cardinality(Counted \cap T) \in Nat
      /\ Cardinality(Counted') \in Nat /\ Cardinality(Counted \cup T) \in Nat
  BY <1>3, <1>5, <1>6, <1>7, FS_CardinalityType DEF CountInv
<1>9. /\ Cardinality(Counted) <= taskCount + hidden
      /\ taskCount' + hidden' = taskCount + hidden + n
  BY <1>1, <1>2, <1>3, SMT DEF CountInv
<1>10. Cardinality(Counted') <= taskCount + hidden + n
  BY <1>1, <1>3, <1>5, <1>6, <1>8, <1>9
<1> QED
  BY <1>6, <1>9, <1>10 DEF CountInv

LEMMA SchedCount ==
  ASSUME MaxSuspends = 0, BaseInv, HandOwned, CountInv, [SchedNext]_allVars
  PROVE  CountInv'
<1>1. TypeOK /\ TypeOK' /\ taskCount \in Int /\ hidden \in Int
  BY NextBase DEF BaseInv, BalanceTypes, WakeNext
<1>2. ASSUME UNCHANGED <<state, pc, running, hidden>>,
             taskCount' = taskCount \/ taskCount' = taskCount + 1
      PROVE  CountInv'
  <2>1. Counted' = Counted
    BY <1>2 DEF Counted, Live, Ends
  <2>2. taskCount' \in Int /\ taskCount <= taskCount'
    BY <1>1, <1>2
  <2> QED
    BY <1>1, <1>2, <2>1, <2>2, CountKept
<1>3. ASSUME UNCHANGED <<vars, taskCount, hidden>> PROVE CountInv'
  BY <1>2, <1>3 DEF vars, loopVars, taskVars
<1>4. ASSUME NEW p, NEW ts, AddTasks(p, ts), UNCHANGED hidden PROVE CountInv'
  BY <1>2, <1>4 DEF AddTasks, loopVars, taskVars
<1>5. ASSUME NEW ts, PickProcessor(ts) \/ PickTwice(ts) PROVE CountInv'
  BY <1>3, <1>5 DEF PickProcessor, PickTwice, countVars
<1>6. ASSUME NEW p \in Procs, ProcessorStep(p) PROVE CountInv'
  BY <1>1, <1>6, ProcessorCount
<1>7. ASSUME NEW p \in Procs, Overdue(p) PROVE CountInv'
  BY <1>3, <1>7 DEF Overdue, countVars
<1>8. CASE BalanceStart \/ Scan \/ ScanActive \/ BlockStolen \/ NoActives \/ ActiveBegin \/ Stolen
  BY <1>3, <1>8 DEF BalanceStart, Scan, ScanActive, BlockStolen, NoActives, ActiveBegin, Stolen,
                    countVars
<1>9. CASE BlockSteal \/ StealNew \/ StealRun
  BY <1>2, <1>9 DEF BlockSteal, StealNew, StealRun, loopVars, taskVars, countVars
<1>10. CASE Give
  BY <1>3, <1>4, <1>10 DEF Give
<1>11. CASE GiveRest
  BY <1>3, <1>4, <1>11 DEF GiveRest
<1>12. CASE UNCHANGED allVars
  BY <1>3, <1>12 DEF allVars, schedVars, countVars
<1>13. ASSUME NEW c \in calls, AddPicked(c) PROVE CountInv'
  BY <1>13, AddPickedCount
<1> QED
  BY <1>5, <1>6, <1>7, <1>8, <1>9, <1>10, <1>11, <1>12, <1>13 DEF SchedNext, Balance

THEOREM CountInvariantHolds ==
  ASSUME MaxSuspends = 0
  PROVE  SchedSpec => []CountInv
<1>1. ASSUME SchedInit PROVE CountInv
  <2>1. /\ taskCount = 0 /\ hidden = 0 /\ \A t \in Tasks : state[t] = "NEW"
        /\ \A p \in Procs : pc[p] = "pick"
    BY <1>1 DEF SchedInit, Init
  <2>2. Counted = {}
    BY <2>1 DEF Counted, Live, Ends
  <2> QED
    BY <2>1, <2>2, FS_EmptySet DEF CountInv
<1>2. BaseInv /\ HandOwned /\ CountInv /\ [SchedNext]_allVars => CountInv'
  BY SchedCount
<1> QED
  BY <1>1, <1>2, HandInvariantHolds, PTL DEF SchedSpec

(* taskCount_, which each call of addTask counts up by one and each onErase  *)
(* down, falls below the number of tasks that exist by no more than what the *)
(* lists given to addTask hide from it: isEmpty() does not lie unless lists  *)
(* are added.                                                                *)
THEOREM CountCoversTasks ==
  ASSUME MaxSuspends = 0
  PROVE  SchedSpec => []CountCovers
<1>1. ASSUME HandOwned, CountInv, taskCount \in Int, hidden \in Int PROVE CountCovers
  <2> DEFINE Existing == {t \in Tasks : state[t] \in {"READY", "RUNNING", "BLOCK"}}
  <2>1. Existing \subseteq Counted
    BY <1>1 DEF HandOwned, NoneBlocked, Counted, Live
  <2>2. IsFiniteSet(Existing) /\ Cardinality(Existing) <= Cardinality(Counted)
    BY <1>1, <2>1, FS_Subset DEF CountInv
  <2>3. Cardinality(Existing) \in Nat /\ Cardinality(Counted) \in Nat
    BY <1>1, <2>2, FS_CardinalityType DEF CountInv
  <2>4. Cardinality(Existing) <= taskCount + hidden
    BY <1>1, <2>2, <2>3 DEF CountInv
  <2> QED
    BY <2>4 DEF CountCovers
<1>2. BaseInv => taskCount \in Int /\ hidden \in Int
  BY DEF BaseInv, BalanceTypes
<1> QED
  BY <1>1, <1>2, HandInvariantHolds, CountInvariantHolds, PTL

(* Every variable of the scheduler and of its processors keeps its type,     *)
(* whether tasks are woken by other threads or not; the loads and the plan   *)
(* of a round are those of processors that exist.                            *)
THEOREM SchedTypeCorrect == WakeSpec => []SchedTypeOK
<1>1. BaseInv => SchedTypeOK
  BY DEF BaseInv, SchedTypeOK, BalanceTypes, PhaseSet, ActiveEntry, Share
<1> QED
  BY <1>1, BaseInvariantHolds, PTL

-----------------------------------------------------------------------------
(* The shares.  What the processors after the j-th lack, up to the k-th, to  *)
(* have avg tasks each; it is negative if they have more than that.          *)

Short(avg, j, k) == (k - j) * avg - (SumLoads(k) - SumLoads(j))

LEMMA ShortSteps ==
  ASSUME actives \in Seq(ActiveEntry), NEW avg \in Nat, NEW j \in 0..Len(actives), NEW k \in 0..Len(actives)
  PROVE  /\ Short(avg, j, k) \in Int
         /\ Short(avg, k, k) = 0
         /\ j < k => /\ j + 1 \in 0..Len(actives) /\ k - 1 \in 0..Len(actives)
                     /\ Load(j + 1) \in Nat /\ Load(k) \in Nat
                     /\ Short(avg, j, k) = Short(avg, j + 1, k) + (avg - Load(j + 1))
                     /\ Short(avg, j, k) = Short(avg, j, k - 1) + (avg - Load(k))
<1>1. Len(actives) \in Nat /\ j \in Nat /\ k \in Nat /\ SumLoads(j) \in Nat /\ SumLoads(k) \in Nat
  BY SumSteps
<1>2. Short(avg, j, k) \in Int
  BY <1>1 DEF Short
<1>3. Short(avg, k, k) = 0
  <2>1. k - k = 0 /\ 0 * avg = 0 /\ SumLoads(k) - SumLoads(k) = 0
    BY <1>1
  <2> QED
    BY <2>1 DEF Short
<1>4. ASSUME j < k
      PROVE  /\ j + 1 \in 0..Len(actives) /\ k - 1 \in 0..Len(actives)
             /\ Load(j + 1) \in Nat /\ Load(k) \in Nat
             /\ Short(avg, j, k) = Short(avg, j + 1, k) + (avg - Load(j + 1))
             /\ Short(avg, j, k) = Short(avg, j, k - 1) + (avg - Load(k))
  <2>1. /\ j + 1 \in 0..Len(actives) /\ k - 1 \in 0..Len(actives)
        /\ j + 1 \in 1..Len(actives) /\ k \in 1..Len(actives)
        /\ (j + 1) - 1 = j
    BY <1>1, <1>4
  <2>2. Load(j + 1) \in Nat /\ Load(k) \in Nat
    BY <2>1, LoadType
  <2>3. SumLoads(j + 1) = SumLoads((j + 1) - 1) + Load(j + 1)
    BY <2>1, SumSteps
  <2>4. SumLoads(k) = SumLoads(k - 1) + Load(k) /\ SumLoads(k - 1) \in Nat
    BY <2>1, SumSteps
  <2>5. /\ (k - j) * avg = (k - (j + 1)) * avg + avg
        /\ (k - j) * avg = ((k - 1) - j) * avg + avg
        /\ (k - j) * avg \in Int /\ (k - (j + 1)) * avg \in Int /\ ((k - 1) - j) * avg \in Int
    BY <1>1
  <2>6. Short(avg, j, k) = Short(avg, j + 1, k) + (avg - Load(j + 1))
    BY <1>1, <2>1, <2>2, <2>3, <2>5 DEF Short
  <2>7. Short(avg, j, k) = Short(avg, j, k - 1) + (avg - Load(k))
    BY <1>1, <2>2, <2>4, <2>5 DEF Short
  <2> QED
    BY <2>1, <2>2, <2>6, <2>7
<1> QED
  BY <1>2, <1>3, <1>4

LEMMA ShortJoins ==
  ASSUME actives \in Seq(ActiveEntry), NEW avg \in Nat,
         NEW i \in 0..Len(actives), NEW j \in 0..Len(actives), NEW k \in 0..Len(actives)
  PROVE  Short(avg, i, k) = Short(avg, i, j) + Short(avg, j, k)
<1>1. /\ Len(actives) \in Nat /\ i \in Nat /\ j \in Nat /\ k \in Nat
      /\ SumLoads(i) \in Nat /\ SumLoads(j) \in Nat /\ SumLoads(k) \in Nat
  BY SumSteps
<1>2. (k - i) * avg = (j - i) * avg + (k - j) * avg
  BY <1>1
<1> QED
  BY <1>1, <1>2 DEF Short

(* Processors that have at most avg tasks lack some, or none... *)
LEMMA ShortIsNat ==
  ASSUME actives \in Seq(ActiveEntry), NEW avg \in Nat,
         NEW j \in 0..Len(actives), NEW k \in 0..Len(actives), j <= k,
         \A i \in j + 1..k : Load(i) <= avg
  PROVE  Short(avg, j, k) >= 0
<1> DEFINE Bad == {x \in j..k : Short(avg, j, x) < 0}
<1>1. Len(actives) \in Nat /\ j \in Nat /\ k \in Nat /\ j..k \subseteq 0..Len(actives) /\ k \in j..k
  OBVIOUS
<1>2. \A x \in j..k : Short(avg, j, x) \in Int
  BY <1>1, ShortSteps
<1>3. SUFFICES ASSUME Bad # {} PROVE FALSE
  BY <1>1, <1>2
<1>4. PICK x \in Bad : \A y \in Bad : x <= y
  <2>1. Bad \in SUBSET Nat
    BY <1>1
  <2> HIDE DEF Bad
  <2> QED
    BY <1>3, <2>1, FirstPosition
<1>5. x \in j..k /\ Short(avg, j, x) < 0 /\ x \in 0..Len(actives)
  BY <1>1
<1>6. x # j
  BY <1>5, ShortSteps
<1>7. j < x /\ x - 1 \in j..k /\ ~(x <= x - 1) /\ x \in j + 1..k
  BY <1>1, <1>5, <1>6
<1>8. x - 1 \notin Bad
  <2> HIDE DEF Bad
  <2> QED
    BY <1>4, <1>7
<1>9. Short(avg, j, x - 1) \in Int /\ Short(avg, j, x - 1) >= 0
  BY <1>2, <1>7, <1>8
<1>10. Load(x) \in Nat /\ Short(avg, j, x) = Short(avg, j, x - 1) + (avg - Load(x))
  BY <1>5, <1>7, ShortSteps
<1>11. Load(x) <= avg
  BY <1>7
<1> QED
  BY <1>2, <1>5, <1>9, <1>10, <1>11

(* ... and those that have just avg lack none. *)
LEMMA ShortIsZero ==
  ASSUME actives \in Seq(ActiveEntry), NEW avg \in Nat,
         NEW j \in 0..Len(actives), NEW k \in 0..Len(actives), j <= k,
         \A i \in j + 1..k : Load(i) = avg
  PROVE  Short(avg, j, k) = 0
<1> DEFINE Bad == {x \in j..k : Short(avg, j, x) # 0}
<1>1. Len(actives) \in Nat /\ j \in Nat /\ k \in Nat /\ j..k \subseteq 0..Len(actives) /\ k \in j..k
  OBVIOUS
<1>2. SUFFICES ASSUME Bad # {} PROVE FALSE
  BY <1>1
<1>3. PICK x \in Bad : \A y \in Bad : x <= y
  <2>1. Bad \in SUBSET Nat
    BY <1>1
  <2> HIDE DEF Bad
  <2> QED
    BY <1>2, <2>1, FirstPosition
<1>4. x \in j..k /\ Short(avg, j, x) # 0 /\ x \in 0..Len(actives)
  BY <1>1
<1>5. x # j
  BY <1>4, ShortSteps
<1>6. j < x /\ x - 1 \in j..k /\ ~(x <= x - 1) /\ x \in j + 1..k
  BY <1>1, <1>4, <1>5
<1>7. x - 1 \notin Bad
  <2> HIDE DEF Bad
  <2> QED
    BY <1>3, <1>6
<1>8. Short(avg, j, x - 1) = 0
  BY <1>6, <1>7
<1>9. Load(x) \in Nat /\ Short(avg, j, x) = Short(avg, j, x - 1) + (avg - Load(x))
  BY <1>4, <1>6, ShortSteps
<1>10. Load(x) = avg
  BY <1>6
<1> QED
  BY <1>4, <1>8, <1>9, <1>10

(* The average is not too large, and fewer tasks than processors remain.     *)
LEMMA AverageShort ==
  ASSUME actives \in Seq(ActiveEntry), NEW k \in 1..Len(actives), NEW m \in Nat
  PROVE  LET avg == Average(k, m)
         IN Short(avg, 0, k) <= m /\ m < Short(avg, 0, k) + k
<1> DEFINE x == SumLoads(k) + m
           avg == Average(k, m)
<1>1. k \in Nat \ {0} /\ k \in 0..Len(actives) /\ SumLoads(k) \in Nat /\ SumLoads(0) = 0 /\ x \in Nat
  BY SumSteps
<1>2. avg = x \div k
  BY DEF Average
<1> HIDE DEF x, avg
<1>3. avg \in Nat /\ k * avg <= x /\ x < k * avg + k
  BY <1>1, <1>2, Division
<1>4. (k - 0) * avg = k * avg /\ k * avg \in Nat
  BY <1>1, <1>3
<1>5. Short(avg, 0, k) = k * avg - SumLoads(k)
  BY <1>1, <1>4 DEF Short
<1>6. x = SumLoads(k) + m
  BY DEF x
<1>7. Short(avg, 0, k) <= m /\ m < Short(avg, 0, k) + k
  BY <1>1, <1>3, <1>4, <1>5, <1>6
<1> QED
  BY <1>7 DEF avg

(* The k least busy processors come to at most m more than the busiest has.  *)
LEMMA AverageBound ==
  ASSUME actives \in Seq(ActiveEntry), Sorted(actives), NEW k \in 1..Len(actives), NEW m \in Nat
  PROVE  Average(k, m) <= Load(k) + m
<1> DEFINE avg == Average(k, m)
           top == Load(k)
<1>1. /\ k \in Nat \ {0} /\ 0 \in 0..Len(actives) /\ k \in 0..Len(actives) /\ 0 <= k
      /\ 0 + 1..k \subseteq 1..Len(actives)
  OBVIOUS
<1>2. avg \in Nat /\ top \in Nat
  BY AverageType, LoadType
<1>3. \A i \in 0 + 1..k : Load(i) <= top
  BY DEF Sorted, Load
<1>4. Short(avg, 0, k) <= m
  BY AverageShort
<1> HIDE DEF avg, top
<1>5. Short(top, 0, k) >= 0
  BY <1>1, <1>2, <1>3, ShortIsNat
<1>6. SumLoads(k) \in Nat /\ SumLoads(0) = 0
  BY <1>1, SumSteps
<1>7. /\ Short(avg, 0, k) = k * avg - SumLoads(k) /\ Short(top, 0, k) = k * top - SumLoads(k)
      /\ k * avg \in Nat /\ k * top \in Nat
  <2>1. (k - 0) * avg = k * avg /\ (k - 0) * top = k * top /\ k * avg \in Nat /\ k * top \in Nat
    BY <1>1, <1>2
  <2> QED
    BY <1>6, <2>1 DEF Short
<1>8. k * avg <= k * top + m
  BY <1>4, <1>5, <1>6, <1>7
<1>9. ASSUME avg > top + m PROVE FALSE
  <2>1. k * avg >= k * (top + m + 1) /\ k * (top + m + 1) = k * top + k * (m + 1) /\ k * (m + 1) >= m + 1
    BY <1>1, <1>2, <1>9
  <2>2. k * (m + 1) \in Nat
    BY <1>1
  <2> QED
    BY <1>1, <1>2, <1>7, <1>8, <2>1, <2>2
<1>10. avg <= top + m
  BY <1>2, <1>9
<1> QED
  BY <1>10 DEF avg, top

(* Fewer tasks than half of what size_t can count *)
TasksFit == IsFiniteSet(Tasks) /\ 2 * Cardinality(Tasks) < SizeMax

(* No queue, and no pair of queues, was longer than that. *)
LoadsFit == \A e \in ToSet(actives) : e.load <= Cardinality(Tasks)

(* balanceActive has yet to steal from the Len(plan) processors up to the    *)
(* q-th, and holds at most what those after it had above the average.        *)
Steals(q) ==
    LET avg == Average(Len(actives), 0) IN
    /\ Len(plan) <= q
    /\ \A k \in 1..Len(actives) : k <= q - Len(plan) <=> Load(k) <= avg
    /\ \A i \in 1..Len(plan) : i > 1 \/ bpc = "stealNew" => plan[i].n = Load(q + 1 - i) - avg
    /\ bpc = "stealNew" => Len(hand) + Short(avg, q, Len(actives)) <= 0
    /\ bpc = "stealRun" => q >= 1 /\ Len(hand) + plan[1].n + Short(avg, q - 1, Len(actives)) <= 0

StealFits == bpc \in {"stealNew", "stealRun"} => \E q \in 0..Len(actives) : Steals(q)

(* The first k processors get what they lack of avg, the first j have it;    *)
(* what is left after that are fewer tasks than processors.                  *)
Gives(avg, j, k) ==
    /\ j <= k /\ k - j <= Len(plan)
    /\ \A i \in 1..k : Load(i) <= avg
    /\ \A i \in 1..k - j : plan[i].n = avg - Load(j + i)
    /\ Len(hand) < Len(actives) + Short(avg, j, k)

GiveFits ==
    bpc \in {"blockGive", "activeGive"} =>
        \E avg \in Nat : \E j, k \in 0..Len(actives) : Gives(avg, j, k)

FitInv == LoadsFit /\ StealFits /\ GiveFits

LEMMA QueueFits ==
  ASSUME IsFiniteSet(Tasks), NEW s \in Seq(Tasks), IsInjective(s)
  PROVE  Len(s) <= Cardinality(Tasks)
<1>1. Len(s) \in Nat /\ s \in [1..Len(s) -> Tasks] /\ Cardinality(Tasks) \in Nat
  BY FS_CardinalityType
<1> DEFINE n == Len(s)
<1> HIDE DEF n
<1>2. IsFiniteSet(1..n) /\ Cardinality(1..n) = n
  <2>1. n \in Nat
    BY <1>1 DEF n
  <2>2. IsFiniteSet(1..n) /\ Cardinality(1..n) = IF 1 > n THEN 0 ELSE n - 1 + 1
    BY <2>1, FS_Interval
  <2> QED
    BY <2>1, <2>2
<1>3. SUFFICES ASSUME Cardinality(Tasks) < Len(s) PROVE FALSE
  BY <1>1
<1>4. \E x, y \in 1..Len(s) : x # y /\ s[x] = s[y]
  BY <1>1, <1>2, <1>3, FS_PigeonHole DEF n
<1> QED
  BY <1>4 DEF IsInjective

LEMMA SameLoads ==
  ASSUME UNCHANGED actives
  PROVE  /\ \A k : Load(k)' = Load(k)
         /\ \A k, m : Average(k, m)' = Average(k, m)
         /\ \A avg, j, k : Short(avg, j, k)' = Short(avg, j, k)
<1>1. \A k : Load(k)' = Load(k)
  BY DEF Load
<1>2. \A k : SumLoads(k)' = SumLoads(k)
  BY DEF SumLoads, Load
<1> QED
  BY <1>1, <1>2 DEF Average, Short

LEMMA QuietFit ==
  ASSUME FitInv, UNCHANGED <<bpc, actives, plan, hand>>
  PROVE  FitInv'
<1>1. LoadsFit'
  BY DEF FitInv, LoadsFit
<1>2. StealFits'
  BY SameLoads DEF FitInv, StealFits, Steals
<1>3. GiveFits'
  BY SameLoads DEF FitInv, GiveFits, Gives
<1> QED
  BY <1>1, <1>2, <1>3 DEF FitInv

(* Outside of the phases that steal and give, only the loads count. *)
LEMMA LoadsFitOnly ==
  ASSUME LoadsFit', bpc' \notin {"stealNew", "stealRun", "blockGive", "activeGive"}
  PROVE  FitInv'
  BY DEF FitInv, StealFits, GiveFits

(* The second loop looks at queues that hold different tasks. *)
LEMMA ScanFit ==
  ASSUME IsFiniteSet(Tasks), BaseInv, Owned, LoadsFit, ScanActive
  PROVE  FitInv'
<1>1. /\ bpc = "mark" /\ cursor \in Procs /\ TypeOK
      /\ actives \in Seq(ActiveEntry) /\ Sorted(actives)
      /\ bpc' \in {"mark", "blocked"}
  BY DEF ScanActive, Advance, BaseInv, BalanceTypes, Looks
<1>2. CASE active[cursor]
  <2> DEFINE load == RunnableTaskCount(cursor)
             e == [load |-> load, proc |-> cursor]
             both == runQue[cursor] \o newQue[cursor]
  <2>1. runQue[cursor] \in Seq(Tasks) /\ newQue[cursor] \in Seq(Tasks)
    BY <1>1 DEF TypeOK
  <2>2. load \in Nat /\ both \in Seq(Tasks) /\ Len(both) = load
    <3> DEFINE r == runQue[cursor]
               q == newQue[cursor]
    <3> HIDE DEF r, q
    <3>1. r \in Seq(Tasks) /\ q \in Seq(Tasks)
      BY <2>1 DEF r, q
    <3>2. Len(r) + Len(q) \in Nat /\ r \o q \in Seq(Tasks) /\ Len(r \o q) = Len(r) + Len(q)
      BY <3>1
    <3> QED
      BY <3>2 DEF r, q, RunnableTaskCount
  <2>3. IsInjective(both)
    <3>1. /\ IsInjective(runQue[cursor]) /\ IsInjective(newQue[cursor])
          /\ ToSet(runQue[cursor]) \cap ToSet(newQue[cursor]) = {}
      BY <1>1 DEF Owned, QueuesApart, NewSet
    <3> QED
      BY <2>1, <3>1, ConcatElements
  <2>4. load <= Cardinality(Tasks)
    <3> HIDE DEF both, load
    <3> QED
      BY <2>2, <2>3, QueueFits
  <2>5. ToSet(actives') = ToSet(actives) \cup {e}
    BY <1>1, <1>2, <2>2, EmplaceSorts DEF ScanActive, Emplaced
  <2>6. e.load = load
    OBVIOUS
  <2> HIDE DEF e, load, both
  <2>7. LoadsFit'
    BY <2>4, <2>5, <2>6 DEF LoadsFit
  <2> QED
    BY <1>1, <2>7, LoadsFitOnly
<1>3. CASE ~active[cursor]
  <2>1. UNCHANGED actives
    BY <1>3 DEF ScanActive
  <2>2. LoadsFit'
    BY <2>1 DEF LoadsFit
  <2> QED
    BY <1>1, <2>2, LoadsFitOnly
<1> QED
  BY <1>2, <1>3

(* balanceBlock: the average of the tasks in hand and of those that the      *)
(* processors have that are not too busy                                     *)
LEMMA BlockFit ==
  ASSUME TasksFit, BaseInv, HandApart, LoadsFit, BlockStolen
  PROVE  FitInv'
<1> DEFINE m == Len(hand)
           n == Len(actives)
           c == Cardinality(Tasks)
<1>1. /\ actives \in Seq(ActiveEntry) /\ Sorted(actives) /\ actives # <<>> /\ hand \in Seq(Tasks)
      /\ m \in Nat /\ n \in Nat /\ UNCHANGED <<actives, hand>>
  BY DEF BlockStolen, BaseInv, BalanceTypes, Looks
<1>2. c \in Nat /\ m <= c /\ 2 * c < SizeMax
  BY <1>1, QueueFits, FS_CardinalityType DEF TasksFit, HandApart
<1>3. LoadsFit'
  BY <1>1 DEF LoadsFit
<1>4. CASE hand = <<>>
  <2>1. bpc' = "active"
    BY <1>4 DEF BlockStolen
  <2> QED
    BY <1>3, <2>1, LoadsFitOnly
<1>5. CASE hand # <<>>
  <2>1. bpc' = "blockGive" /\ plan' = BlockPlan(m)
    BY <1>5 DEF BlockStolen
  <2>2. BlockPlan(m) \in Seq(Share)
    BY <1>1, BlockPlanType
  <2>3. PICK k \in 1..n : /\ k <= Len(BlockPlan(m))
                          /\ \A i \in 1..k : /\ Load(i) <= Average(k, m)
                                             /\ BlockPlan(m)[i].n = SizeT(Average(k, m) - Load(i))
    BY <1>1, BlockPlanType
  <2>4. Average(k, m) \in Nat
    BY <1>1, AverageType
  <2>5. PICK avg \in Nat : avg = Average(k, m)
    BY <2>4
  <2>6. \A i \in 1..n : Load(i) \in Nat
    BY <1>1, LoadType
  <2>7. avg <= Load(k) + m
    BY <1>1, <2>5, AverageBound
  <2>8. m < Short(avg, 0, k) + k
    BY <1>1, <2>5, AverageShort
  <2>9. Load(k) <= c
    <3>1. actives[k] \in ToSet(actives)
      BY <1>1 DEF ToSet
    <3> QED
      BY <3>1 DEF LoadsFit, Load
  <2> HIDE DEF m, n, c
  <2>10. /\ \A i \in 1..k : Load(i) \in Nat
        /\ Load(k) \in Nat /\ k \in 0..n /\ 0 \in 0..n
    BY <1>1, <2>6
  <2>11. avg < SizeMax
    BY <1>1, <1>2, <2>10, <2>7, <2>9, SchedulerAssumption
  <2>12. ASSUME NEW i \in 1..k PROVE Load(i) <= avg /\ plan'[i].n = avg - Load(i)
    <3>1. Load(i) \in Nat /\ Load(i) <= avg /\ plan'[i].n = SizeT(avg - Load(i))
      BY <2>1, <2>3, <2>10, <2>5
    <3>2. avg - Load(i) \in Nat /\ avg - Load(i) < SizeMax
      BY <2>10, <2>11, <3>1, SchedulerAssumption
    <3> QED
      BY <3>1, <3>2, SizeTType
  <2>13. Short(avg, 0, k) \in Int
    BY <1>1, <2>10, ShortSteps DEF n
  <2>14. Len(hand) < n + Short(avg, 0, k)
    BY <1>1, <2>3, <2>10, <2>8, <2>13 DEF m
  <2>15. k - 0 = k /\ 0 <= k /\ \A i \in 1..k : 0 + i = i
    BY <1>1, <2>3
  <2>16. Gives(avg, 0, k)'
    <3>1. k <= Len(plan') /\ \A i \in 1..k : Load(i) <= avg /\ plan'[i].n = avg - Load(i)
      BY <2>1, <2>3, <2>12
    <3>2. /\ \A i : Load(i)' = Load(i)
          /\ Short(avg, 0, k)' = Short(avg, 0, k)
      BY <1>1, SameLoads
    <3>3. Len(hand') < Len(actives') + Short(avg, 0, k)'
      BY <1>1, <2>14, <3>2 DEF n
    <3>4. k - 0 <= Len(plan')
      BY <2>15, <3>1
    <3>5. \A i \in 1..k - 0 : plan'[i].n = avg - Load(0 + i)'
      BY <2>15, <3>1, <3>2
    <3>6. \A i \in 1..k : Load(i)' <= avg
      BY <3>1, <3>2
    <3> QED
      BY <2>15, <3>3, <3>4, <3>5, <3>6, Zenon DEF Gives
  <2>17. GiveFits'
    BY <1>1, <2>10, <2>16 DEF GiveFits, n
  <2>18. StealFits'
    BY <2>1 DEF StealFits
  <2> QED
    BY <1>3, <2>17, <2>18 DEF FitInv
<1> QED
  BY <1>4, <1>5

(* Steals after a step that leaves the loads alone *)
LEMMA StealsNext ==
  ASSUME UNCHANGED actives, NEW q \in 0..Len(actives),
         LET avg == Average(Len(actives), 0) IN
         /\ Len(plan') <= q
         /\ \A k \in 1..Len(actives) : k <= q - Len(plan') <=> Load(k) <= avg
         /\ \A i \in 1..Len(plan') : i > 1 \/ bpc' = "stealNew" => plan'[i].n = Load(q + 1 - i) - avg
         /\ bpc' = "stealNew" => Len(hand') + Short(avg, q, Len(actives)) <= 0
         /\ bpc' = "stealRun" => q >= 1 /\ Len(hand') + plan'[1].n + Short(avg, q - 1, Len(actives)) <= 0
  PROVE  StealFits'
<1>1. Len(actives') = Len(actives) /\ Average(Len(actives), 0)' = Average(Len(actives), 0)
  BY SameLoads
<1>2. Steals(q)'
  BY <1>1, SameLoads DEF Steals
<1> QED
  BY <1>2 DEF StealFits

LEMMA ActiveFit ==
  ASSUME BaseInv, HandEmpty, LoadsFit, ActiveBegin
  PROVE  FitInv'
<1>1. /\ bpc = "active" /\ hand = <<>> /\ hand' = hand
      /\ actives \in Seq(ActiveEntry) /\ Sorted(actives) /\ actives # <<>>
  BY DEF ActiveBegin, HandEmpty, BaseInv, BalanceTypes, Looks
<1>2. CASE BalanceEnd
  <2>1. actives' = <<>> /\ bpc' = "sleep"
    BY <1>2 DEF BalanceEnd
  <2>2. LoadsFit'
    BY <2>1, EmptyElements DEF LoadsFit
  <2> QED
    BY <2>1, <2>2, LoadsFitOnly
<1>3. CASE bpc' = "stealNew" /\ plan' = StealPlan /\ UNCHANGED actives
  <2> DEFINE n == Len(actives)
             avg == Average(n, 0)
  <2>1. n \in Nat /\ n \in 1..n /\ n \in 0..n
    BY <1>1
  <2>2. avg \in Nat
    BY <1>1, <2>1, AverageType
  <2>3. Short(avg, n, n) = 0 /\ Len(hand') = 0
    BY <1>1, <2>1, <2>2, ShortSteps
  <2>4. /\ Len(plan') \in 0..n
        /\ \A i \in 1..Len(plan') : plan'[i].n = Load(n + 1 - i) - avg
        /\ \A k \in 1..n : k <= n - Len(plan') <=> Load(k) <= avg
    BY <1>1, <1>3, StealPlanType
  <2>5. StealFits'
    <3> HIDE DEF avg
    <3>1. Len(hand') + Short(avg, n, n) <= 0
      BY <2>3
    <3>2. Len(plan') <= n
      BY <2>4
    <3> QED
      BY <1>3, <2>1, <2>4, <3>1, <3>2, StealsNext DEF avg
  <2>6. LoadsFit' /\ GiveFits'
    BY <1>3 DEF LoadsFit, GiveFits
  <2> QED
    BY <2>5, <2>6 DEF FitInv
<1> QED
  BY <1>2, <1>3 DEF ActiveBegin

LEMMA StealNewFit ==
  ASSUME BaseInv, FitInv, StealNew
  PROVE  FitInv'
<1> DEFINE n == Len(actives)
           avg == Average(n, 0)
           share == Head(plan).n
           got == BackBulk(newQue[Head(plan).proc], share)
<1>1. /\ bpc = "stealNew" /\ plan # <<>> /\ plan \in Seq(Share) /\ TypeOK
      /\ actives \in Seq(ActiveEntry) /\ actives # <<>> /\ hand \in Seq(Tasks)
  BY DEF StealNew, BaseInv, BalanceTypes, Looks
<1>2. /\ UNCHANGED actives /\ hand' = hand \o got
      /\ IF Len(got) < share
         THEN bpc' = "stealRun"
              /\ plan' = <<[proc |-> Head(plan).proc, n |-> share - Len(got)]>> \o Tail(plan)
         ELSE plan' = Tail(plan) /\ bpc' = bpc
  BY DEF StealNew
<1>3. PICK q \in 0..n : Steals(q)
  BY <1>1 DEF FitInv, StealFits
<1>4. n \in Nat \ {0} /\ n \in 1..n /\ n \in 0..n /\ Len(plan) \in Nat \ {0} /\ 1 \in 1..Len(plan)
  BY <1>1
<1>5. avg \in Nat
  BY <1>1, <1>4, AverageType
<1>6. /\ Len(plan) <= q
      /\ \A k \in 1..n : k <= q - Len(plan) <=> Load(k) <= avg
      /\ \A i \in 1..Len(plan) : plan[i].n = Load(q + 1 - i) - avg
      /\ Len(hand) + Short(avg, q, n) <= 0
  BY <1>1, <1>3 DEF Steals
<1>7. Head(plan) \in Share /\ Head(plan) = plan[1]
  BY <1>1
<1>8. share \in Nat /\ Head(plan).proc \in Procs /\ share = plan[1].n
  BY <1>7 DEF Share
<1>9. newQue[Head(plan).proc] \in Seq(Tasks)
  BY <1>1, <1>8 DEF TypeOK
<1>10. got \in Seq(Tasks) /\ Len(got) = Least(share, Len(newQue[Head(plan).proc]))
  BY <1>8, <1>9, BackParts DEF Parts
<1>11. Len(got) \in Nat /\ Len(got) <= share
  BY <1>8, <1>9, <1>10 DEF Least
<1>12. Len(hand) \in Nat /\ Len(hand') = Len(hand) + Len(got)
  BY <1>1, <1>2, <1>10
<1> HIDE DEF got, share
<1>13. share = Load(q) - avg
  <2>1. q + 1 - 1 = q
    BY <1>4
  <2> QED
    BY <1>4, <1>6, <1>8, <2>1
<1>14. /\ q \in 1..n /\ q - 1 \in 0..n /\ Load(q) \in Nat
       /\ Short(avg, q, n) \in Int /\ Short(avg, q - 1, n) \in Int
       /\ Short(avg, q - 1, n) = Short(avg, q, n) + (avg - Load(q))
  <2>1. q \in 1..n /\ q - 1 \in 0..n /\ q - 1 < n /\ (q - 1) + 1 = q
    BY <1>4, <1>6
  <2>2. actives \in Seq(ActiveEntry) /\ avg \in Nat /\ q \in 0..n /\ q - 1 \in 0..n /\ n \in 0..n
    BY <1>1, <1>4, <1>5, <2>1
  <2> HIDE DEF avg
  <2>3. Short(avg, q, n) \in Int /\ Short(avg, q - 1, n) \in Int
    BY <2>2, ShortSteps, Zenon
  <2>4. /\ Load((q - 1) + 1) \in Nat
        /\ Short(avg, q - 1, n) = Short(avg, (q - 1) + 1, n) + (avg - Load((q - 1) + 1))
    BY <2>1, <2>2, ShortSteps, Zenon
  <2> QED
    BY <2>1, <2>3, <2>4
<1>15. Len(hand) + share + Short(avg, q - 1, n) <= 0
  <2> HIDE DEF n, avg
  <2> QED
    BY <1>5, <1>6, <1>8, <1>12, <1>13, <1>14, SMTT(20)
<1>16. LoadsFit'
  BY <1>2 DEF FitInv, LoadsFit
<1>17. Len(Tail(plan)) = Len(plan) - 1 /\ \A i \in 1..Len(plan) - 1 : Tail(plan)[i] = plan[i + 1]
  BY <1>1
<1>18. CASE Len(got) < share
  <2> DEFINE one == <<[proc |-> Head(plan).proc, n |-> share - Len(got)]>>
  <2>1. bpc' = "stealRun" /\ plan' = one \o Tail(plan)
    BY <1>2, <1>18
  <2>2. /\ Len(plan') = Len(plan) /\ plan'[1].n = share - Len(got)
        /\ \A i \in 2..Len(plan) : plan'[i] = plan[i]
    BY <1>1, <1>4, <1>17, <2>1
  <2> HIDE DEF n, avg
  <2>3. Len(hand') + plan'[1].n + Short(avg, q - 1, n) <= 0
    <3>1. Len(hand') + plan'[1].n = Len(hand) + share
      BY <1>8, <1>11, <1>12, <2>2
    <3> QED
      BY <1>15, <3>1
  <2>4. ASSUME NEW i \in 1..Len(plan'), i > 1 PROVE plan'[i].n = Load(q + 1 - i) - avg
    <3>1. i \in 2..Len(plan) /\ i \in 1..Len(plan)
      BY <1>4, <2>2, <2>4
    <3> QED
      BY <1>6, <2>2, <3>1
  <2>5. StealFits'
    <3>1. bpc' # "stealNew" /\ q >= 1 /\ Len(plan') <= q
      BY <1>4, <1>6, <1>14, <2>1, <2>2
    <3>2. \A k \in 1..n : k <= q - Len(plan') <=> Load(k) <= avg
      BY <1>6, <2>2
    <3> QED
      BY <1>2, <1>14, <2>3, <2>4, <3>1, <3>2, StealsNext DEF n, avg
  <2> QED
    BY <1>16, <2>1, <2>5 DEF FitInv, GiveFits
<1>19. CASE ~(Len(got) < share)
  <2>1. bpc' = "stealNew" /\ plan' = Tail(plan)
    BY <1>1, <1>2, <1>19
  <2> HIDE DEF n, avg
  <2>2. Len(hand') + Short(avg, q - 1, n) <= 0
    BY <1>8, <1>11, <1>12, <1>14, <1>15, <1>19, SMTT(20)
  <2>3. Len(plan') <= q - 1 /\ (q - 1) - Len(plan') = q - Len(plan)
    BY <1>4, <1>6, <1>14, <1>17, <2>1
  <2>4. ASSUME NEW i \in 1..Len(plan') PROVE plan'[i].n = Load((q - 1) + 1 - i) - avg
    <3>1. i + 1 \in 1..Len(plan) /\ (q - 1) + 1 - i = q + 1 - (i + 1) /\ plan'[i] = plan[i + 1]
      BY <1>4, <1>14, <1>17, <2>1
    <3> QED
      BY <1>6, <3>1
  <2>5. StealFits'
    BY <1>2, <1>6, <1>14, <2>1, <2>2, <2>3, <2>4, StealsNext DEF n, avg
  <2> QED
    BY <1>16, <2>1, <2>5 DEF FitInv, GiveFits
<1> QED
  BY <1>18, <1>19

LEMMA StealRunFit ==
  ASSUME BaseInv, FitInv, StealRun
  PROVE  FitInv'
<1> DEFINE n == Len(actives)
           avg == Average(n, 0)
           share == Head(plan).n
           got == BackBulk(runQue[Head(plan).proc], share)
<1>1. /\ bpc = "stealRun" /\ plan # <<>> /\ plan \in Seq(Share) /\ TypeOK
      /\ actives \in Seq(ActiveEntry) /\ actives # <<>> /\ hand \in Seq(Tasks)
  BY DEF StealRun, BaseInv, BalanceTypes, Looks
<1>2. UNCHANGED actives /\ hand' = hand \o got /\ plan' = Tail(plan) /\ bpc' = "stealNew"
  BY DEF StealRun
<1>3. PICK q \in 0..n : Steals(q)
  BY <1>1 DEF FitInv, StealFits
<1>4. n \in Nat \ {0} /\ n \in 1..n /\ n \in 0..n /\ Len(plan) \in Nat \ {0} /\ 1 \in 1..Len(plan)
  BY <1>1
<1>5. avg \in Nat
  BY <1>1, <1>4, AverageType
<1>6. /\ Len(plan) <= q /\ q >= 1
      /\ \A k \in 1..n : k <= q - Len(plan) <=> Load(k) <= avg
      /\ \A i \in 1..Len(plan) : i > 1 => plan[i].n = Load(q + 1 - i) - avg
      /\ Len(hand) + plan[1].n + Short(avg, q - 1, n) <= 0
  BY <1>1, <1>3 DEF Steals
<1>7. Head(plan) \in Share /\ Head(plan) = plan[1]
  BY <1>1
<1>8. share \in Nat /\ Head(plan).proc \in Procs /\ share = plan[1].n
  BY <1>7 DEF Share
<1>9. runQue[Head(plan).proc] \in Seq(Tasks)
  BY <1>1, <1>8 DEF TypeOK
<1>10. got \in Seq(Tasks) /\ Len(got) = Least(share, Len(runQue[Head(plan).proc]))
  BY <1>8, <1>9, BackParts DEF Parts
<1>11. Len(got) \in Nat /\ Len(got) <= share
  BY <1>8, <1>9, <1>10 DEF Least
<1>12. Len(hand) \in Nat /\ Len(hand') = Len(hand) + Len(got)
  BY <1>1, <1>2, <1>10
<1> HIDE DEF got, share
<1>13. q \in 1..n /\ q - 1 \in 0..n
  BY <1>4, <1>6
<1>14. Short(avg, q - 1, n) \in Int
  <2>1. actives \in Seq(ActiveEntry) /\ q - 1 \in 0..n /\ n \in 0..n /\ avg \in Nat
    BY <1>1, <1>4, <1>5, <1>13
  <2> HIDE DEF avg
  <2> QED
    BY <2>1, ShortSteps, Zenon
<1>15. LoadsFit'
  BY <1>2 DEF FitInv, LoadsFit
<1>16. Len(Tail(plan)) = Len(plan) - 1 /\ \A i \in 1..Len(plan) - 1 : Tail(plan)[i] = plan[i + 1]
  BY <1>1
<1> HIDE DEF n, avg
<1>17. Len(hand') + Short(avg, q - 1, n) <= 0
  BY <1>6, <1>8, <1>11, <1>12, <1>14, SMTT(20)
<1>18. Len(plan') <= q - 1 /\ (q - 1) - Len(plan') = q - Len(plan)
  BY <1>2, <1>4, <1>6, <1>13, <1>16
<1>19. ASSUME NEW i \in 1..Len(plan') PROVE plan'[i].n = Load((q - 1) + 1 - i) - avg
  <2>1. i + 1 \in 1..Len(plan) /\ i + 1 > 1 /\ (q - 1) + 1 - i = q + 1 - (i + 1) /\ plan'[i] = plan[i + 1]
    BY <1>2, <1>4, <1>13, <1>16
  <2> QED
    BY <1>6, <2>1
<1>20. StealFits'
  BY <1>2, <1>6, <1>13, <1>17, <1>18, <1>19, StealsNext DEF n, avg
<1> QED
  BY <1>2, <1>15, <1>20 DEF FitInv, GiveFits

LEMMA EndFit ==
  ASSUME BalanceEnd
  PROVE  FitInv'
<1>1. actives' = <<>> /\ bpc' = "sleep"
  BY DEF BalanceEnd
<1>2. LoadsFit'
  BY <1>1, EmptyElements DEF LoadsFit
<1> QED
  BY <1>1, <1>2, LoadsFitOnly

(* Gives after a step that leaves the loads alone *)
LEMMA GivesNext ==
  ASSUME UNCHANGED actives, NEW avg \in Nat, NEW j \in 0..Len(actives), NEW k \in 0..Len(actives),
         j <= k, k - j <= Len(plan'),
         \A i \in 1..k : Load(i) <= avg,
         \A i \in 1..k - j : plan'[i].n = avg - Load(j + i),
         Len(hand') < Len(actives) + Short(avg, j, k)
  PROVE  GiveFits'
<1>1. Gives(avg, j, k)'
  BY SameLoads DEF Gives
<1> QED
  BY <1>1 DEF GiveFits

(* balanceActive has stolen what was above the average: it is at most what   *)
(* the others lack, and what the division by their number has rounded off.   *)
LEMMA StolenFit ==
  ASSUME BaseInv, FitInv, Stolen
  PROVE  FitInv'
<1> DEFINE n == Len(actives)
           c == Len(GivePlan)
<1>1. /\ bpc = "stealNew" /\ plan = <<>> /\ hand' = hand /\ hand \in Seq(Tasks)
      /\ actives \in Seq(ActiveEntry) /\ Sorted(actives) /\ actives # <<>>
  BY DEF Stolen, BaseInv, BalanceTypes, Looks
<1>2. CASE BalanceEnd
  BY <1>2, EndFit
<1>3. CASE bpc' = "activeGive" /\ plan' = GivePlan /\ UNCHANGED actives
  <2>1. n \in Nat \ {0} /\ n \in 1..n /\ n \in 0..n /\ 0 \in 0..n /\ Len(hand) \in Nat
    BY <1>1
  <2>2. Average(n, 0) \in Nat
    BY <1>1, <2>1, AverageType
  <2>3. PICK avg \in Nat : avg = Average(n, 0)
    BY <2>2
  <2>4. PICK q \in 0..n : Steals(q)
    BY <1>1 DEF FitInv, StealFits
  <2>5. Len(plan) = 0 /\ q - 0 = q
    BY <1>1, <2>1
  <2>6. (\A k \in 1..n : k <= q <=> Load(k) <= avg) /\ Len(hand) + Short(avg, q, n) <= 0
    BY <1>1, <2>3, <2>4, <2>5 DEF Steals
  <2>7. /\ c \in 0..n
        /\ \A i \in 1..c : GivePlan[i].n = avg - Load(i)
        /\ \A k \in 1..n : k <= c <=> Load(k) < avg
    <3> DEFINE average == Average(n, 0)
    <3>1. /\ c \in 0..n
          /\ \A i \in 1..c : GivePlan[i] = [proc |-> actives[i].proc, n |-> average - Load(i)]
          /\ \A k \in 1..n : k <= c <=> Load(k) < average
      BY <1>1, GivePlanType
    <3>2. average = avg
      BY <2>3
    <3>3. ASSUME NEW i \in 1..c PROVE GivePlan[i].n = average - Load(i)
      <4> DEFINE less == average - Load(i)
      <4>1. GivePlan[i] = [proc |-> actives[i].proc, n |-> less]
        BY <3>1
      <4> HIDE DEF less
      <4>2. GivePlan[i].n = less
        BY <4>1
      <4> QED
        BY <4>2 DEF less
    <3> HIDE DEF average, n, c
    <3> QED
      BY <3>1, <3>2, <3>3, Zenon
  <2>8. 0 < Short(avg, 0, n) + n
    BY <1>1, <2>1, <2>3, AverageShort
  <2>9. \A i \in 1..n : Load(i) \in Nat
    BY <1>1, LoadType
  <2>10. PICK d \in 0..n : d = c
    BY <2>7
  <2> HIDE DEF n, c
  <2>11. d <= q /\ (\A i \in 1..d : Load(i) <= avg) /\ \A i \in d + 1..q : Load(i) = avg
    <3>1. \A i \in 1..d : i \in 1..n /\ Load(i) < avg
      BY <2>1, <2>7, <2>10
    <3>2. \A i \in 1..d : Load(i) <= avg
      BY <2>9, <3>1
    <3>3. d = 0 \/ (d \in 1..d /\ d \in 1..n)
      BY <2>1, <2>10
    <3>4. d <= q
      BY <2>1, <2>6, <3>2, <3>3
    <3>5. ASSUME NEW i \in d + 1..q PROVE Load(i) = avg
      <4>1. i \in 1..n /\ ~(i <= d) /\ i <= q
        BY <2>1, <2>10, <3>5
      <4>2. Load(i) <= avg /\ ~(Load(i) < avg)
        BY <2>6, <2>7, <2>10, <4>1
      <4> QED
        BY <2>9, <4>1, <4>2
    <3> QED
      BY <3>2, <3>4, <3>5
  <2>12. actives \in Seq(ActiveEntry) /\ d \in 0..Len(actives) /\ q \in 0..Len(actives)
         /\ n \in 0..Len(actives) /\ 0 \in 0..Len(actives)
    BY <1>1, <2>1 DEF n
  <2>13. Short(avg, d, q) = 0
    BY <2>11, <2>12, ShortIsZero
  <2>14. /\ Short(avg, 0, n) = Short(avg, 0, q) + Short(avg, q, n)
         /\ Short(avg, 0, q) = Short(avg, 0, d) + Short(avg, d, q)
    BY <2>12, ShortJoins, ZenonT(30)
  <2>15. Short(avg, 0, n) \in Int /\ Short(avg, 0, q) \in Int /\ Short(avg, q, n) \in Int
         /\ Short(avg, 0, d) \in Int
    BY <2>12, ShortSteps, Zenon
  <2>16. Len(hand) < n + Short(avg, 0, d)
    BY <2>1, <2>6, <2>8, <2>13, <2>14, <2>15
  <2>17. GiveFits'
    <3>1. 0 <= d /\ d - 0 = d /\ \A i \in 1..d : 0 + i = i
      BY <2>1, <2>10
    <3>2. d - 0 <= Len(plan')
      BY <1>3, <2>1, <2>7, <2>10, <3>1 DEF c
    <3>3. \A i \in 1..d - 0 : plan'[i].n = avg - Load(0 + i)
      BY <1>3, <2>7, <2>10, <3>1
    <3>4. Len(hand') < Len(actives) + Short(avg, 0, d)
      BY <1>1, <2>16 DEF n
    <3> QED
      BY <1>3, <2>11, <2>12, <3>1, <3>2, <3>3, <3>4, GivesNext
  <2>18. LoadsFit' /\ StealFits'
    BY <1>3 DEF FitInv, LoadsFit, StealFits
  <2> QED
    BY <2>17, <2>18 DEF FitInv
<1> QED
  BY <1>2, <1>3 DEF Stolen

(* A turn of the loop that gives.  If the turn is cut short, either nothing  *)
(* is left or the processor lacks nothing, and then none after it does.      *)
LEMMA GiveFit ==
  ASSUME BaseInv, FitInv, Give
  PROVE  FitInv'
<1> DEFINE n == Len(actives)
           share == Head(plan).n
           in == FrontBulk(hand, share)
           rest == AfterFront(hand, share)
<1>1. /\ bpc \in {"blockGive", "activeGive"} /\ plan # <<>> /\ plan \in Seq(Share)
      /\ actives \in Seq(ActiveEntry) /\ Sorted(actives) /\ actives # <<>> /\ hand \in Seq(Tasks)
      /\ UNCHANGED <<bpc, actives>>
  BY DEF Give, BaseInv, BalanceTypes, Looks
<1>2. PICK avg \in Nat, j \in 0..n, k \in 0..n : Gives(avg, j, k)
  BY <1>1 DEF FitInv, GiveFits
<1>3. /\ j <= k /\ k - j <= Len(plan)
      /\ \A i \in 1..k : Load(i) <= avg
      /\ \A i \in 1..k - j : plan[i].n = avg - Load(j + i)
      /\ Len(hand) < n + Short(avg, j, k)
  BY <1>2 DEF Gives
<1>4. /\ n \in Nat \ {0} /\ Len(plan) \in Nat \ {0} /\ Len(hand) \in Nat
      /\ j \in Nat /\ k \in Nat /\ k <= n
  BY <1>1
<1>5. Head(plan) \in Share /\ Head(plan) = plan[1]
  BY <1>1
<1>6. share \in Nat /\ share = plan[1].n
  BY <1>5 DEF Share
<1>7. \A i \in 1..n : Load(i) \in Nat
  BY <1>1, LoadType
<1>8. \A i, l \in 1..n : i <= l => Load(i) <= Load(l)
  BY <1>1 DEF Sorted, Load
<1>9. /\ actives \in Seq(ActiveEntry) /\ j \in 0..Len(actives) /\ k \in 0..Len(actives)
      /\ Short(avg, j, k) \in Int /\ Short(avg, k, k) = 0
  <2>1. actives \in Seq(ActiveEntry) /\ j \in 0..Len(actives) /\ k \in 0..Len(actives)
    BY <1>1
  <2> QED
    BY <2>1, ShortSteps, Zenon
<1>10. /\ Len(in) = Least(share, Len(hand)) /\ Len(rest) \in Nat
       /\ Len(hand) = Len(in) + Len(rest) /\ Len(in) \in Nat
  <2>1. Len(in) = Least(share, Len(hand)) /\ Parts(hand, in, rest)
    BY <1>1, <1>6, FrontParts
  <2>2. in \in Seq(Tasks) /\ rest \in Seq(Tasks) /\ Len(hand) = Len(in) + Len(rest)
    BY <2>1 DEF Parts
  <2> HIDE DEF in, rest
  <2> QED
    BY <2>1, <2>2
<1>11. \/ /\ bpc = "blockGive" /\ in = <<>> /\ plan' = <<>> /\ hand' = hand
       \/ hand' = rest /\ plan' = Tail(plan)
  BY DEF Give
<1>12. in = <<>> => Len(in) = 0
  OBVIOUS
<1>13. Len(Tail(plan)) = Len(plan) - 1 /\ \A i \in 1..Len(plan) - 1 : Tail(plan)[i] = plan[i + 1]
  BY <1>1
<1> HIDE DEF n, share, in, rest
<1>14. LoadsFit' /\ StealFits'
  BY <1>1 DEF FitInv, LoadsFit, StealFits
<1>15. CASE /\ in = <<>> /\ plan' = <<>> /\ hand' = hand
  <2>1. Len(hand) < n
    <3>1. share = 0 \/ Len(hand) = 0
      BY <1>4, <1>6, <1>10, <1>12, <1>15 DEF Least
    <3>2. CASE Len(hand) = 0
      BY <1>4, <3>2
    <3>3. CASE j = k
      BY <1>3, <1>4, <1>9, <3>3
    <3>4. CASE share = 0 /\ j < k
      <4>1. 1 \in 1..k - j /\ j + 1 \in 1..k /\ j + 1 \in 1..n
        BY <1>4, <3>4
      <4>2. Load(j + 1) = avg
        <5>1. avg - Load(j + 1) = 0 /\ Load(j + 1) \in Nat
          BY <1>3, <1>6, <1>7, <3>4, <4>1
        <5> QED
          BY <5>1
      <4>3. ASSUME NEW i \in j + 1..k PROVE Load(i) = avg
        <5>1. i \in 1..k /\ i \in 1..n /\ j + 1 <= i
          BY <1>4
        <5>2. Load(i) \in Nat /\ Load(i) <= avg /\ Load(j + 1) <= Load(i)
          BY <1>3, <1>7, <1>8, <4>1, <5>1
        <5> QED
          BY <4>2, <5>2
      <4>4. Short(avg, j, k) = 0
        BY <1>3, <1>9, <4>3, ShortIsZero
      <4> QED
        BY <1>3, <1>4, <4>4
    <3> QED
      BY <1>3, <1>4, <3>1, <3>2, <3>3, <3>4
  <2>2. k <= k /\ k - k = 0 /\ Len(plan') = 0 /\ Len(hand') < n + Short(avg, k, k)
    BY <1>4, <1>9, <1>15, <2>1
  <2>3. k - k <= Len(plan') /\ 1..k - k = {}
    BY <2>2
  <2>4. GiveFits'
    BY <1>1, <1>3, <1>9, <2>2, <2>3, GivesNext DEF n
  <2> QED
    BY <1>14, <2>4 DEF FitInv
<1>16. CASE hand' = rest /\ plan' = Tail(plan) /\ j = k
  <2>1. Len(hand') < n + Short(avg, k, k)
    BY <1>3, <1>4, <1>9, <1>10, <1>16
  <2>2. k <= k /\ k - k = 0 /\ 1..k - k = {} /\ k - k <= Len(plan')
    BY <1>4, <1>13, <1>16
  <2>3. GiveFits'
    BY <1>1, <1>3, <1>9, <2>1, <2>2, GivesNext DEF n
  <2> QED
    BY <1>14, <2>3 DEF FitInv
<1>17. CASE hand' = rest /\ plan' = Tail(plan) /\ j < k
  <2>1. 1 \in 1..k - j /\ j + 1 \in 0..Len(actives) /\ j + 1 \in 1..n /\ j + 1 <= k
    BY <1>4, <1>17 DEF n
  <2>2. share = avg - Load(j + 1) /\ Load(j + 1) \in Nat
    BY <1>3, <1>6, <1>7, <2>1
  <2>3. Short(avg, j, k) = Short(avg, j + 1, k) + (avg - Load(j + 1))
    <3>1. actives \in Seq(ActiveEntry) /\ j \in 0..Len(actives) /\ k \in 0..Len(actives) /\ j < k
      BY <1>9, <1>17
    <3> QED
      BY <3>1, ShortSteps, Zenon
  <2>4. Short(avg, j + 1, k) \in Int
    BY <1>9, <2>1, ShortSteps, Zenon
  <2>5. Short(avg, j + 1, k) >= 0
    <3>1. \A i \in (j + 1) + 1..k : Load(i) <= avg
      BY <1>3, <1>4
    <3> QED
      BY <1>9, <2>1, <3>1, ShortIsNat
  <2>6. Len(hand') < n + Short(avg, j + 1, k)
    <3>1. CASE share < Len(hand)
      <4>1. Len(hand') = Len(hand) - share
        BY <1>4, <1>6, <1>10, <1>17, <3>1 DEF Least
      <4> DEFINE x == Short(avg, j + 1, k)
                 y == Short(avg, j, k)
                 l == Load(j + 1)
      <4>2. /\ x \in Int /\ l \in Nat /\ y = x + (avg - l) /\ share = avg - l
            /\ Len(hand) < n + y /\ Len(hand') = Len(hand) - share
        BY <1>3, <2>2, <2>3, <2>4, <4>1
      <4> HIDE DEF x, y, l
      <4>3. Len(hand') < n + x
        BY <1>4, <4>2
      <4> QED
        BY <4>3 DEF x
    <3>2. CASE ~(share < Len(hand))
      <4>1. Len(hand') = 0
        BY <1>4, <1>6, <1>10, <1>17, <3>2 DEF Least
      <4> QED
        BY <1>4, <2>4, <2>5, <4>1
    <3> QED
      BY <3>1, <3>2
  <2>7. k - (j + 1) <= Len(plan')
    BY <1>3, <1>4, <1>13, <1>17
  <2>8. ASSUME NEW i \in 1..k - (j + 1) PROVE plan'[i].n = avg - Load((j + 1) + i)
    <3>1. i + 1 \in 1..k - j /\ i \in 1..Len(plan) - 1 /\ j + (i + 1) = (j + 1) + i
      BY <1>3, <1>4
    <3> QED
      BY <1>3, <1>13, <1>17, <3>1
  <2>9. GiveFits'
    BY <1>1, <1>3, <1>9, <2>1, <2>6, <2>7, <2>8, GivesNext DEF n
  <2> QED
    BY <1>14, <2>9 DEF FitInv
<1>18. j = k \/ j < k
  BY <1>3, <1>4
<1> QED
  BY <1>11, <1>15, <1>16, <1>17, <1>18

LEMMA SchedFit ==
  ASSUME TasksFit, BaseInv, HandOwned, HandEmpty, FitInv, [SchedNext]_allVars
  PROVE  FitInv'
<1>1. LoadsFit /\ Owned /\ HandApart /\ IsFiniteSet(Tasks)
  BY DEF FitInv, HandOwned, TasksFit
<1>2. ASSUME UNCHANGED balanceVars PROVE FitInv'
  BY <1>2, QuietFit DEF balanceVars
<1>3. ASSUME NEW c, PickProcessor(c) \/ PickTwice(c) \/ AddPicked(c) PROVE FitInv'
  BY <1>2, <1>3 DEF PickProcessor, PickTwice, AddPicked
<1>4. ASSUME NEW p \in Procs, ProcessorStep(p) \/ Overdue(p) PROVE FitInv'
  BY <1>2, <1>4 DEF ProcessorStep, Overdue
<1>5. CASE BalanceStart \/ Scan \/ BlockSteal
  <2>1. UNCHANGED actives /\ bpc' \in {"scan", "mark", "blocked"}
    BY <1>5 DEF BalanceStart, Scan, Advance, BlockSteal
  <2>2. LoadsFit'
    BY <1>1, <2>1 DEF LoadsFit
  <2> QED
    BY <2>1, <2>2, LoadsFitOnly
<1>6. CASE ScanActive
  BY <1>1, <1>6, ScanFit
<1>7. CASE BlockStolen
  BY <1>1, <1>7, BlockFit
<1>8. CASE NoActives
  BY <1>8, EndFit DEF NoActives
<1>9. CASE Give
  BY <1>9, GiveFit
<1>10. CASE GiveRest
  <2>1. CASE BalanceEnd
    BY <2>1, EndFit
  <2>2. CASE bpc' = "active" /\ UNCHANGED <<blockings, actives>>
    <3>1. LoadsFit'
      BY <1>1, <2>2 DEF LoadsFit
    <3> QED
      BY <2>2, <3>1, LoadsFitOnly
  <2> QED
    BY <1>10, <2>1, <2>2 DEF GiveRest
<1>11. CASE ActiveBegin
  BY <1>1, <1>11, ActiveFit
<1>12. CASE StealNew
  BY <1>12, StealNewFit
<1>13. CASE StealRun
  BY <1>13, StealRunFit
<1>14. CASE Stolen
  BY <1>14, StolenFit
<1>15. CASE UNCHANGED allVars
  BY <1>2, <1>15 DEF allVars, schedVars
<1> QED
  BY <1>3, <1>4, <1>5, <1>6, <1>7, <1>8, <1>9, <1>10, <1>11, <1>12, <1>13, <1>14, <1>15
  DEF SchedNext, Balance

THEOREM FitInvariantHolds ==
  ASSUME MaxSuspends = 0, TasksFit
  PROVE  SchedSpec => []FitInv
<1>1. ASSUME SchedInit PROVE FitInv
  <2>1. actives = <<>> /\ bpc = "sleep"
    BY <1>1 DEF SchedInit
  <2> QED
    BY <2>1, EmptyElements DEF FitInv, LoadsFit, StealFits, GiveFits
<1>2. BaseInv /\ HandOwned /\ HandEmpty /\ FitInv /\ [SchedNext]_allVars => FitInv'
  BY SchedFit
<1> QED
  BY <1>1, <1>2, HandInvariantHolds, PTL DEF SchedSpec

(* The shares are computed from the right average: once every processor has  *)
(* its share, fewer tasks than processors are left over, whatever the loads  *)
(* were and however the queues have changed since they were looked at.       *)
THEOREM SmallRest ==
  ASSUME MaxSuspends = 0, TasksFit
  PROVE  SchedSpec => []RestIsSmall
<1>1. ASSUME BaseInv, FitInv PROVE RestIsSmall
  <2> SUFFICES ASSUME bpc \in {"blockGive", "activeGive"}, plan = <<>>
               PROVE  Len(hand) < Len(actives)
    BY DEF RestIsSmall
  <2>1. actives \in Seq(ActiveEntry)
    BY <1>1 DEF BaseInv, BalanceTypes
  <2>2. PICK avg \in Nat, j \in 0..Len(actives), k \in 0..Len(actives) : Gives(avg, j, k)
    BY <1>1 DEF FitInv, GiveFits
  <2>3. j <= k /\ k - j <= 0 /\ Len(hand) < Len(actives) + Short(avg, j, k)
    BY <2>2 DEF Gives
  <2>4. j = k /\ Len(actives) \in Nat
    BY <2>1, <2>3
  <2>5. Short(avg, k, k) = 0
    BY <2>1, ShortSteps, Zenon
  <2> QED
    BY <2>3, <2>4, <2>5
<1> QED
  BY <1>1, HandInvariantHolds, FitInvariantHolds, PTL
=============================================================================
