---------------------------- MODULE ResponseProofs ----------------------------
(* Proofs about an answer's dump, filter and copy, for every chunk and log. *)
EXTENDS ResponseProperties, SequenceTheorems, FiniteSetTheorems, TLAPS

(* Induction over the naturals, from the pigeonhole principle: below an n   *)
(* that is not in T, adding one would lead from T's numbers to all of them  *)
(* but 0.                                                                   *)
LEMMA Induction ==
    ASSUME NEW T, 0 \in T, \A n \in Nat : n \in T => n + 1 \in T
    PROVE  Nat \subseteq T
<1> SUFFICES ASSUME NEW n \in Nat, n \notin T PROVE FALSE
  OBVIOUS
<1> DEFINE A == {k \in 0..n : k \in T}
           up == [k \in A |-> k + 1]
<1>1. IsFiniteSet(A) /\ 0 \in A
  <2>1. IsFiniteSet(0..n) /\ A \in SUBSET (0..n) /\ 0 \in 0..n
    BY FS_Interval
  <2> QED
    BY <2>1, FS_Subset
<1>2. /\ IsFiniteSet(A \ {0}) /\ Cardinality(A \ {0}) = Cardinality(A) - 1
      /\ Cardinality(A) \in Nat
  BY <1>1, FS_RemoveElement, FS_CardinalityType
<1>3. \A k \in A : k \in Nat /\ k + 1 \in A \ {0}
  <2> SUFFICES ASSUME NEW k \in A PROVE k \in Nat /\ k + 1 \in A \ {0}
    OBVIOUS
  <2>1. k \in 0..n /\ k \in T /\ k # n
    OBVIOUS
  <2> QED
    BY <2>1
<1>4. up \in [A -> A \ {0}]
  BY <1>3
<1>5. PICK x \in A, y \in A : x # y /\ up[x] = up[y]
  <2>1. Cardinality(A \ {0}) < Cardinality(A)
    BY <1>2
  <2> HIDE DEF A, up
  <2> QED
    BY <1>1, <1>2, <1>4, <2>1, FS_PigeonHole
<1> QED
  BY <1>3, <1>5

(* f says what the loop of Select has collected after each element.         *)
Runs(f, s, W) ==
    /\ f[0] = <<>>
    /\ \A i \in 1..Len(s) :
         f[i] = IF s[i] \in W THEN Append(f[i - 1], s[i]) ELSE f[i - 1]

(* Select is what such a loop ends with. *)
LEMMA SelectIs ==
    ASSUME NEW S, NEW s \in Seq(S), NEW W, NEW f, Runs(f, s, W)
    PROVE  Select(s, W) = f[Len(s)]
<1> DEFINE n == Len(s)
           Loop(g) == [i \in 0..n |-> IF i = 0 THEN <<>>
                                      ELSE IF s[i] \in W THEN Append(g[i - 1], s[i])
                                           ELSE g[i - 1]]
           u == CHOOSE g : g = Loop(g)
           h == [i \in 0..n |-> f[i]]
<1>1. n \in Nat
  BY LenProperties
<1>2. h = Loop(h)
  <2>1. \A i \in 0..n : h[i] = f[i]
    OBVIOUS
  <2>2. \A i \in 0..n : i # 0 => i \in 1..n /\ i - 1 \in 0..n
    BY <1>1
  <2>3. \A i \in 0..n : f[i] = IF i = 0 THEN <<>>
                               ELSE IF s[i] \in W THEN Append(h[i - 1], s[i])
                                    ELSE h[i - 1]
    BY <2>1, <2>2 DEF Runs
  <2> QED
    BY <2>3
<1>3. u = Loop(u)
  BY <1>2
<1>4. u[0] = <<>> /\ \A i \in 1..n : u[i] = IF s[i] \in W THEN Append(u[i - 1], s[i])
                                            ELSE u[i - 1]
  <2>1. \A i \in 0..n : u[i] = IF i = 0 THEN <<>>
                               ELSE IF s[i] \in W THEN Append(u[i - 1], s[i])
                                    ELSE u[i - 1]
    BY <1>3
  <2>2. 0 \in 0..n /\ \A i \in 1..n : i \in 0..n /\ i # 0
    BY <1>1
  <2> HIDE DEF u, Loop, h
  <2> QED
    BY <2>1, <2>2
<1>5. Select(s, W) = u[n]
  BY DEF Select
<1> HIDE DEF u, Loop, h, n
<1> DEFINE T == {i \in Nat : i <= n => u[i] = f[i]}
<1>6. Nat \subseteq T
  <2>1. 0 \in T
    BY <1>4 DEF Runs
  <2>2. ASSUME NEW i \in Nat, i \in T PROVE i + 1 \in T
    <3> SUFFICES ASSUME i + 1 <= n PROVE u[i + 1] = f[i + 1]
      OBVIOUS
    <3>1. u[i] = f[i] /\ i + 1 \in 1..n /\ (i + 1) - 1 = i
      BY <1>1, <2>2
    <3> QED
      BY <1>4, <3>1 DEF Runs, n
  <2> HIDE DEF T
  <2> QED
    BY <2>1, <2>2, Induction
<1> QED
  BY <1>1, <1>5, <1>6 DEF n

(* There is one. *)
LEMMA SelectRuns ==
    ASSUME NEW S, NEW s \in Seq(S), NEW W
    PROVE  \E f \in [0..Len(s) -> Seq(S)] : Runs(f, s, W) /\ Select(s, W) = f[Len(s)]
<1> DEFINE n == Len(s)
           Step(f, i) == f[i] = IF s[i] \in W THEN Append(f[i - 1], s[i]) ELSE f[i - 1]
           T == {m \in Nat : m <= n => \E f \in [0..m -> Seq(S)] :
                                 f[0] = <<>> /\ \A i \in 1..m : Step(f, i)}
<1>1. n \in Nat /\ \A i \in 1..n : s[i] \in S
  BY LenProperties, ElementOfSeq
<1>2. Nat \subseteq T
  <2>1. 0 \in T
    <3>1. [i \in 0..0 |-> <<>>] \in [0..0 -> Seq(S)] /\ 0 \in 0..0 /\ 1..0 = {}
      BY EmptySeq
    <3> QED
      BY <3>1
  <2>2. ASSUME NEW m \in Nat, m \in T PROVE m + 1 \in T
    <3> SUFFICES ASSUME m + 1 <= n
                 PROVE  \E f \in [0..(m + 1) -> Seq(S)] :
                            f[0] = <<>> /\ \A i \in 1..(m + 1) : Step(f, i)
      <4> DEFINE P(k) == \E f \in [0..k -> Seq(S)] :
                            f[0] = <<>> /\ \A i \in 1..k : Step(f, i)
      <4>1. T = {k \in Nat : k <= n => P(k)} /\ m + 1 \in Nat
        OBVIOUS
      <4> HIDE DEF P, T
      <4>2. (m + 1 <= n => P(m + 1)) => m + 1 \in T
        BY <4>1
      <4> QED
        BY <4>2 DEF P
    <3>1. m <= n /\ m + 1 \in 1..n
      BY <1>1
    <3>2. PICK f \in [0..m -> Seq(S)] : f[0] = <<>> /\ \A i \in 1..m : Step(f, i)
      BY <2>2, <3>1
    <3> DEFINE g == [i \in 0..(m + 1) |-> IF i <= m THEN f[i]
                                          ELSE IF s[i] \in W THEN Append(f[m], s[i])
                                               ELSE f[m]]
    <3>3. f[m] \in Seq(S) /\ s[m + 1] \in S
      BY <1>1, <3>1, <3>2
    <3>4. Append(f[m], s[m + 1]) \in Seq(S)
      BY <3>3
    <3>5. \A i \in 0..(m + 1) : (i \in 0..m /\ i <= m) \/ (i = m + 1 /\ ~(i <= m))
      OBVIOUS
    <3>6. g \in [0..(m + 1) -> Seq(S)]
      BY <3>2, <3>3, <3>4, <3>5
    <3>7. \A i \in 0..m : g[i] = f[i]
      OBVIOUS
    <3>8. g[m + 1] = IF s[m + 1] \in W THEN Append(f[m], s[m + 1]) ELSE f[m]
      OBVIOUS
    <3> HIDE DEF g
    <3>9. g[0] = <<>> /\ \A i \in 1..(m + 1) : Step(g, i)
      <4>1. g[0] = <<>>
        BY <3>2, <3>7
      <4>2. ASSUME NEW i \in 1..m PROVE Step(g, i)
        <5>1. i \in 0..m /\ i - 1 \in 0..m
          OBVIOUS
        <5> QED
          BY <3>2, <3>7, <5>1
      <4>3. Step(g, m + 1)
        <5>1. (m + 1) - 1 = m /\ g[m] = f[m]
          BY <3>7
        <5> QED
          BY <3>8, <5>1
      <4>4. \A i \in 1..(m + 1) : i \in 1..m \/ i = m + 1
        OBVIOUS
      <4> HIDE DEF Step
      <4> QED
        BY <4>1, <4>2, <4>3, <4>4
    <3> QED
      BY <3>6, <3>9
  <2> HIDE DEF T
  <2> QED
    BY <2>1, <2>2, Induction
<1>3. PICK f \in [0..n -> Seq(S)] : f[0] = <<>> /\ \A i \in 1..n : Step(f, i)
  <2> HIDE DEF n, Step
  <2>1. n <= n
    BY <1>1
  <2>2. n \in T
    <3> HIDE DEF T
    <3> QED
      BY <1>1, <1>2
  <2> QED
    BY <2>1, <2>2
<1>4. Runs(f, s, W)
  BY <1>3 DEF Runs
<1>5. Select(s, W) = f[Len(s)]
  BY <1>4, SelectIs
<1> QED
  BY <1>4, <1>5

(* It is a sequence, and no longer than what it is taken from. *)
LEMMA SelectType ==
    ASSUME NEW S, NEW s \in Seq(S), NEW W
    PROVE  Select(s, W) \in Seq(S) /\ Len(Select(s, W)) <= Len(s)
<1> DEFINE n == Len(s)
<1>1. PICK f \in [0..n -> Seq(S)] : Runs(f, s, W) /\ Select(s, W) = f[n]
  BY SelectRuns
<1>2. n \in Nat /\ \A i \in 1..n : s[i] \in S
  BY LenProperties, ElementOfSeq
<1> HIDE DEF n
<1> DEFINE T == {i \in Nat : i <= n => Len(f[i]) <= i}
<1>3. Nat \subseteq T
  <2>1. 0 \in T
    BY <1>1, EmptySeq DEF Runs
  <2>2. ASSUME NEW i \in Nat, i \in T PROVE i + 1 \in T
    <3>1. ASSUME i + 1 <= n PROVE Len(f[i + 1]) <= i + 1
      <4>1. i \in 0..n /\ i + 1 \in 1..n /\ (i + 1) - 1 = i /\ Len(f[i]) <= i
        BY <1>2, <2>2, <3>1
      <4>2. f[i] \in Seq(S) /\ s[i + 1] \in S
        BY <1>1, <1>2, <4>1
      <4>3. Len(Append(f[i], s[i + 1])) = Len(f[i]) + 1 /\ Len(f[i]) \in Nat
        BY <4>2
      <4>4. f[i + 1] = IF s[i + 1] \in W THEN Append(f[i], s[i + 1]) ELSE f[i]
        BY <1>1, <4>1 DEF Runs, n
      <4> QED
        BY <4>1, <4>3, <4>4
    <3> QED
      BY <3>1
  <2> HIDE DEF T
  <2> QED
    BY <2>1, <2>2, Induction
<1>4. Len(f[n]) <= n /\ f[n] \in Seq(S)
  <2>1. n \in T /\ n \in 0..n
    BY <1>2, <1>3
  <2> QED
    BY <1>1, <2>1
<1> QED
  BY <1>1, <1>4 DEF n

(* An element behind two sequences is behind the second. *)
LEMMA ConcatAppend ==
    ASSUME NEW S, NEW a \in Seq(S), NEW b \in Seq(S), NEW c \in S
    PROVE  a \o Append(b, c) = Append(a \o b, c)
<1>1. Append(b, c) = b \o <<c>> /\ <<c>> \in Seq(S)
  BY AppendIsConcat
<1>2. a \o b \in Seq(S)
  BY ConcatProperties
<1>3. Append(a \o b, c) = (a \o b) \o <<c>>
  BY <1>2, AppendIsConcat
<1> QED
  BY <1>1, <1>3, ConcatAssociative

(* What is selected of two sequences, one behind the other. *)
LEMMA SelectConcat ==
    ASSUME NEW S, NEW s \in Seq(S), NEW t \in Seq(S), NEW W
    PROVE  Select(s \o t, W) = Select(s, W) \o Select(t, W)
<1> DEFINE m == Len(s)
           n == Len(t)
           st == s \o t
<1>1. /\ m \in Nat /\ n \in Nat /\ st \in Seq(S) /\ Len(st) = m + n
      /\ \A i \in 1..(m + n) : st[i] = IF i <= m THEN s[i] ELSE t[i - m]
      /\ \A i \in 1..n : t[i] \in S
  BY LenProperties, ConcatProperties, ElementOfSeq
<1>2. PICK f \in [0..m -> Seq(S)] : Runs(f, s, W) /\ Select(s, W) = f[m]
  BY SelectRuns
<1>3. PICK g \in [0..n -> Seq(S)] : Runs(g, t, W) /\ Select(t, W) = g[n]
  BY SelectRuns
<1>4. /\ f[0] = <<>>
      /\ \A i \in 1..m : f[i] = IF s[i] \in W THEN Append(f[i - 1], s[i]) ELSE f[i - 1]
      /\ g[0] = <<>>
      /\ \A i \in 1..n : g[i] = IF t[i] \in W THEN Append(g[i - 1], t[i]) ELSE g[i - 1]
  BY <1>2, <1>3 DEF Runs
<1> HIDE DEF m, n, st
<1> DEFINE h == [i \in 0..(m + n) |-> IF i <= m THEN f[i] ELSE f[m] \o g[i - m]]
<1>5. \A i \in 0..m : h[i] = f[i]
  BY <1>1
<1>6. f[m] \in Seq(S) /\ \A i \in 0..n : h[m + i] = f[m] \o g[i]
  <2>1. f[m] \in Seq(S) /\ m \in 0..m
    BY <1>1, <1>2
  <2>2. ASSUME NEW i \in 0..n PROVE h[m + i] = f[m] \o g[i]
    <3>1. CASE i = 0
      <4>1. h[m + i] = f[m]
        BY <1>1, <1>5, <3>1
      <4> QED
        BY <1>4, <2>1, <3>1, <4>1, ConcatEmptySeq
    <3>2. CASE i # 0
      <4>1. m + i \in 0..(m + n) /\ ~(m + i <= m) /\ (m + i) - m = i
        BY <1>1, <3>2
      <4> QED
        BY <4>1
    <3> QED
      BY <3>1, <3>2
  <2> QED
    BY <2>1, <2>2
<1> HIDE DEF h
<1>7. ASSUME NEW i \in 1..(m + n)
      PROVE  h[i] = IF st[i] \in W THEN Append(h[i - 1], st[i]) ELSE h[i - 1]
  <2>1. CASE i <= m
    <3>1. i \in 0..m /\ i \in 1..m /\ i - 1 \in 0..m /\ st[i] = s[i]
      BY <1>1, <2>1
    <3> QED
      BY <1>4, <1>5, <3>1
  <2>2. CASE ~(i <= m)
    <3>1. PICK k \in 1..n : i = m + k /\ k - 1 \in 0..n /\ k \in 0..n /\ i - 1 = m + (k - 1)
      <4>1. i - m \in 1..n
        BY <1>1, <2>2
      <4>2. i = m + (i - m)
        BY <1>1
      <4>3. i - 1 = m + ((i - m) - 1) /\ (i - m) - 1 \in 0..n /\ i - m \in 0..n
        BY <1>1, <4>1
      <4> QED
        BY <4>1, <4>2, <4>3
    <3>2. st[i] = t[k] /\ t[k] \in S
      <4>1. i - m = k
        BY <1>1, <3>1
      <4> QED
        BY <1>1, <2>2, <4>1
    <3>3. h[i] = f[m] \o g[k] /\ h[i - 1] = f[m] \o g[k - 1] /\ g[k - 1] \in Seq(S)
      BY <1>3, <1>6, <3>1
    <3>4. f[m] \o Append(g[k - 1], t[k]) = Append(f[m] \o g[k - 1], t[k])
      <4>1. PICK a \in Seq(S), b \in Seq(S), c \in S : a = f[m] /\ b = g[k - 1] /\ c = t[k]
        BY <1>6, <3>2, <3>3
      <4>2. a \o Append(b, c) = Append(a \o b, c)
        BY ConcatAppend
      <4> QED
        BY <4>1, <4>2
    <3> QED
      BY <1>4, <3>1, <3>2, <3>3, <3>4
  <2> QED
    BY <2>1, <2>2
<1>8. Runs(h, st, W)
  <2>1. h[0] = <<>>
    BY <1>1, <1>4, <1>5
  <2> QED
    BY <1>1, <1>7, <2>1 DEF Runs
<1>9. Select(st, W) = h[m + n]
  BY <1>1, <1>8, SelectIs
<1>10. n \in 0..n
  BY <1>1
<1> QED
  BY <1>2, <1>3, <1>6, <1>9, <1>10 DEF st

(* So it is for the characters of a log. *)
LEMMA CellsConcat ==
    \A s, t \in Seq(Cells) : \A W : Select(s \o t, W) = Select(s, W) \o Select(t, W)
  BY SelectConcat

(* Only the elements there are matter. *)
LEMMA SelectAgree ==
    ASSUME NEW S, NEW s \in Seq(S), NEW V, NEW W,
           \A i \in 1..Len(s) : s[i] \in V <=> s[i] \in W
    PROVE  Select(s, V) = Select(s, W)
<1>1. PICK f \in [0..Len(s) -> Seq(S)] : Runs(f, s, V) /\ Select(s, V) = f[Len(s)]
  BY SelectRuns
<1>2. Runs(f, s, W)
  BY <1>1 DEF Runs
<1> QED
  BY <1>1, <1>2, SelectIs

(* All are selected that are wanted. *)
LEMMA SelectAll ==
    ASSUME NEW S, NEW s \in Seq(S), NEW W, \A i \in 1..Len(s) : s[i] \in W
    PROVE  Select(s, W) = s
<1> DEFINE n == Len(s)
           f == [i \in 0..n |-> SubSeq(s, 1, i)]
<1>1. n \in Nat
  BY LenProperties
<1>2. f[0] = <<>>
  BY <1>1, SubSeqEmpty
<1>3. ASSUME NEW i \in 1..n PROVE f[i] = Append(f[i - 1], s[i])
  <2>1. i \in 0..n /\ i - 1 \in 0..n /\ i - 1 \in Int /\ i \in 1..n /\ 1 \in 1..n
        /\ i - 1 <= n /\ i >= 1
    BY <1>1
  <2>2. f[i] = SubSeq(s, 1, i) /\ f[i - 1] = SubSeq(s, 1, i - 1)
    BY <2>1
  <2>3. SubSeq(s, 1, i) = SubSeq(s, 1, i - 1) \o <<s[i]>>
    BY <2>1, SubSeqRecursiveSecond
  <2>4. s[i] \in S /\ SubSeq(s, 1, i - 1) \in Seq(S)
    <3>1. \A k \in 1..(i - 1) : s[k] \in S
      BY <2>1, ElementOfSeq
    <3> QED
      BY <2>1, <3>1, SubSeqProperties, ElementOfSeq
  <2>5. Append(SubSeq(s, 1, i - 1), s[i]) = SubSeq(s, 1, i - 1) \o <<s[i]>>
    BY <2>4, AppendIsConcat
  <2> QED
    BY <2>2, <2>3, <2>5
<1>4. f[n] = s
  BY <1>1, SubSeqFull
<1> HIDE DEF f
<1>5. Runs(f, s, W)
  BY <1>2, <1>3 DEF Runs
<1> QED
  BY <1>4, <1>5, SelectIs

(* None is selected when none is wanted. *)
LEMMA SelectNone ==
    ASSUME NEW S, NEW s \in Seq(S), NEW W, \A i \in 1..Len(s) : s[i] \notin W
    PROVE  Select(s, W) = <<>>
<1> DEFINE n == Len(s)
           f == [i \in 0..n |-> <<>>]
<1>1. n \in Nat
  BY LenProperties
<1>2. \A i \in 0..n : f[i] = <<>>
  OBVIOUS
<1>3. \A i \in 1..n : i \in 0..n /\ i - 1 \in 0..n
  BY <1>1
<1> HIDE DEF f
<1>4. Runs(f, s, W)
  BY <1>1, <1>2, <1>3 DEF Runs
<1> QED
  BY <1>1, <1>2, <1>4, SelectIs
-----------------------------------------------------------------------------
(* Numbers, parts of the log and its lines. *)

(* A set of naturals that is not empty has a least. *)
LEMMA Least ==
    ASSUME NEW A \in SUBSET Nat, A # {}
    PROVE  Min(A) \in A /\ \A k \in A : Min(A) <= k
<1>1. \E n \in A : \A k \in A : n <= k
  <2> SUFFICES ASSUME \A n \in A : \E k \in A : k < n PROVE FALSE
    OBVIOUS
  <2> DEFINE T == {n \in Nat : \A k \in A : n < k}
  <2>1. 0 \in T
    <3>1. 0 \notin A
      OBVIOUS
    <3> QED
      BY <3>1
  <2>2. ASSUME NEW n \in Nat, n \in T PROVE n + 1 \in T
    <3>1. n + 1 \notin A
      BY <2>2
    <3> QED
      BY <2>2, <3>1
  <2> HIDE DEF T
  <2>3. Nat \subseteq T
    BY <2>1, <2>2, Induction
  <2>4. PICK k \in A : k \in Nat
    OBVIOUS
  <2>5. k < k
    BY <2>3, <2>4 DEF T
  <2> QED
    BY <2>4, <2>5
<1> QED
  BY <1>1 DEF Min

(* The smaller of two, and the largest file. *)
LEMMA Bounds ==
    /\ \A a, b \in Int : Min({a, b}) \in {a, b} /\ Min({a, b}) <= a /\ Min({a, b}) <= b
    /\ Max(ZipSizes) \in ZipSizes /\ \A n \in ZipSizes : n <= Max(ZipSizes)
    /\ Max(ZipSizes) \in Nat /\ CHUNK \in Nat /\ CHUNK > 0 /\ MaxLog \in Nat
<1>1. \A a, b \in Int : Min({a, b}) \in {a, b} /\ Min({a, b}) <= a /\ Min({a, b}) <= b
  BY DEF Min
<1>2. Max(ZipSizes) \in ZipSizes /\ \A n \in ZipSizes : n <= Max(ZipSizes)
  <2>1. \E n \in ZipSizes : \A m \in ZipSizes : n >= m
    BY ResponseAssumption
  <2>2. Max(ZipSizes) \in ZipSizes /\ \A m \in ZipSizes : Max(ZipSizes) >= m
    BY <2>1 DEF Max
  <2> QED
    BY <2>2, ResponseAssumption
<1>3. PICK n \in ZipSizes : n = Max(ZipSizes) /\ \A k \in ZipSizes : k <= n
  BY <1>2
<1>4. n \in Nat /\ CHUNK \in Nat /\ CHUNK > 0 /\ MaxLog \in Nat
  <2>1. ZipSizes \subseteq Nat /\ CHUNK \in Nat \ {0} /\ MaxLog \in Nat
    BY ResponseAssumption
  <2> QED
    BY <2>1
<1> QED
  BY <1>1, <1>3, <1>4

(* The characters behind the a-th up to the b-th. *)
Part(l, a, b) == [i \in 1..(b - a) |-> [kind |-> l[a + i], at |-> a + i]]

(* A part is a sequence. *)
LEMMA PartType ==
    ASSUME NEW l \in Seq(Kinds), Len(l) <= MaxLog, NEW a \in Nat, NEW b \in a..Len(l)
    PROVE  Part(l, a, b) \in Seq(Cells) /\ Len(Part(l, a, b)) = b - a
<1>1. Len(l) \in Nat /\ MaxLog \in Nat /\ b - a \in Nat
  BY LenProperties, ResponseAssumption
<1>2. ASSUME NEW i \in 1..(b - a)
      PROVE  [kind |-> l[a + i], at |-> a + i] \in Cells
  <2>1. a + i \in 1..Len(l) /\ a + i \in 0..MaxLog
    BY <1>1
  <2>2. l[a + i] \in Kinds
    BY <2>1, ElementOfSeq
  <2> QED
    BY <2>1, <2>2 DEF Cells
<1> DEFINE n == b - a
<1>3. [i \in 1..n |-> [kind |-> l[a + i], at |-> a + i]] \in [1..n -> Cells]
  BY <1>2
<1>4. n \in Nat
  BY <1>1
<1> HIDE DEF n
<1>5. Part(l, a, b) \in [1..n -> Cells]
  BY <1>3 DEF Part, n
<1>6. Part(l, a, b) \in Seq(Cells) /\ Len(Part(l, a, b)) = n
  BY <1>4, <1>5
<1> QED
  BY <1>6 DEF n

(* Two parts, one behind the other, join. *)
LEMMA PartSplit ==
    ASSUME NEW l \in Seq(Kinds), Len(l) <= MaxLog, NEW a \in Nat, NEW b \in a..Len(l),
           NEW c \in b..Len(l)
    PROVE  Part(l, a, c) = Part(l, a, b) \o Part(l, b, c)
<1>1. /\ Len(l) \in Nat /\ b \in Nat /\ c \in a..Len(l)
  BY LenProperties
<1>2. /\ Part(l, a, c) \in Seq(Cells) /\ Len(Part(l, a, c)) = c - a
      /\ Part(l, a, b) \in Seq(Cells) /\ Len(Part(l, a, b)) = b - a
      /\ Part(l, b, c) \in Seq(Cells) /\ Len(Part(l, b, c)) = c - b
  BY <1>1, PartType
<1> DEFINE x == Part(l, a, b)
           y == Part(l, b, c)
           z == Part(l, a, c)
<1>3. /\ \A i \in 1..(b - a) : x[i] = [kind |-> l[a + i], at |-> a + i]
      /\ \A i \in 1..(c - b) : y[i] = [kind |-> l[b + i], at |-> b + i]
      /\ \A i \in 1..(c - a) : z[i] = [kind |-> l[a + i], at |-> a + i]
  BY DEF Part
<1> HIDE DEF x, y, z
<1>4. /\ x \o y \in Seq(Cells) /\ Len(x \o y) = c - a
      /\ \A i \in 1..(c - a) : (x \o y)[i] = IF i <= b - a THEN x[i] ELSE y[i - (b - a)]
  <2>1. /\ x \o y \in Seq(Cells) /\ Len(x \o y) = Len(x) + Len(y)
        /\ \A i \in 1..(Len(x) + Len(y)) :
               (x \o y)[i] = IF i <= Len(x) THEN x[i] ELSE y[i - Len(x)]
    BY <1>2, ConcatProperties DEF x, y
  <2>2. Len(x) = b - a /\ Len(y) = c - b /\ Len(x) + Len(y) = c - a
    BY <1>1, <1>2 DEF x, y
  <2> QED
    BY <2>1, <2>2
<1>5. \A i \in 1..(c - a) : (x \o y)[i] = z[i]
  <2> SUFFICES ASSUME NEW i \in 1..(c - a) PROVE (x \o y)[i] = z[i]
    OBVIOUS
  <2>1. CASE i <= b - a
    <3>1. i \in 1..(b - a)
      BY <1>1, <2>1
    <3> QED
      BY <1>3, <1>4, <2>1, <3>1
  <2>2. CASE ~(i <= b - a)
    <3>1. i - (b - a) \in 1..(c - b) /\ b + (i - (b - a)) = a + i
      BY <1>1, <2>2
    <3> QED
      BY <1>3, <1>4, <2>2, <3>1
  <2> QED
    BY <2>1, <2>2
<1>6. z \in Seq(Cells) /\ Len(z) = c - a
  BY <1>2 DEF z
<1>7. z = x \o y
  BY <1>4, <1>5, <1>6, SeqEqual
<1> QED
  BY <1>7 DEF x, y, z

(* Start is a part. *)
LEMMA StartIsPart == ASSUME NEW l, NEW n \in Nat PROVE Start(l, n) = Part(l, 0, n)
<1>1. n - 0 = n /\ \A i \in 1..n : 0 + i = i
  OBVIOUS
<1> QED
  BY <1>1 DEF Start, Part

(* No part changes when the log grows. *)
LEMMA PartGrows ==
    ASSUME NEW l \in Seq(Kinds), NEW k \in Kinds, NEW a \in Nat, NEW b \in a..Len(l)
    PROVE  Part(Append(l, k), a, b) = Part(l, a, b)
<1>1. Len(l) \in Nat /\ \A i \in 1..Len(l) : Append(l, k)[i] = l[i]
  BY LenProperties, AppendProperties
<1>2. \A i \in 1..(b - a) : a + i \in 1..Len(l)
  BY <1>1
<1> QED
  BY <1>1, <1>2 DEF Part

(* A line begins behind the m-th character. *)
AtStart(l, m) == m = 0 \/ l[m] = "eol"

(* The cells of those of the first n characters whose line has the key.     *)
Keep(l, n) == {[kind |-> l[p], at |-> p] : p \in {q \in 1..n : Keyed(l, q)}}

(* The last line that ends among the first n characters. *)
LEMMA LastEnd ==
    ASSUME NEW l \in Seq(Kinds), NEW n \in 0..Len(l)
    PROVE  \E q \in 0..n : AtStart(l, q) /\ \A e \in (q + 1)..n : l[e] # "eol"
<1> DEFINE P(m) == \E q \in 0..m : AtStart(l, q) /\ \A e \in (q + 1)..m : l[e] # "eol"
           T == {m \in Nat : P(m)}
<1>1. 0 \in T
  <2>1. 0 \in 0..0 /\ (0 + 1)..0 = {} /\ AtStart(l, 0)
    BY DEF AtStart
  <2> QED
    BY <2>1
<1>2. ASSUME NEW m \in Nat, m \in T PROVE m + 1 \in T
  <2>1. CASE l[m + 1] = "eol"
    <3>1. m + 1 \in 0..(m + 1) /\ ((m + 1) + 1)..(m + 1) = {} /\ AtStart(l, m + 1)
      BY <2>1 DEF AtStart
    <3>2. P(m + 1)
      BY <3>1
    <3> HIDE DEF P
    <3> QED
      BY <3>2
  <2>2. CASE l[m + 1] # "eol"
    <3>1. PICK q \in 0..m : AtStart(l, q) /\ \A e \in (q + 1)..m : l[e] # "eol"
      BY <1>2
    <3>2. q \in 0..(m + 1) /\ \A e \in (q + 1)..(m + 1) : e \in (q + 1)..m \/ e = m + 1
      OBVIOUS
    <3>3. P(m + 1)
      BY <2>2, <3>1, <3>2
    <3> HIDE DEF P
    <3> QED
      BY <3>3
  <2> QED
    BY <2>1, <2>2
<1> HIDE DEF T
<1>3. Nat \subseteq T
  BY <1>1, <1>2, Induction
<1>4. n \in T
  BY <1>3, LenProperties
<1> HIDE DEF P
<1>5. P(n)
  BY <1>4 DEF T
<1> QED
  BY <1>5 DEF P

(* Which those lines are that end among the first n. *)
LEMMA EndedIs ==
    ASSUME NEW l \in Seq(Kinds), NEW n \in 0..Len(l), NEW q \in 0..n, AtStart(l, q),
           \A e \in (q + 1)..n : l[e] # "eol", NEW p \in 1..n
    PROVE  Ended(l, p, n) <=> p <= q
<1>1. Len(l) \in Nat /\ n \in Nat /\ q \in Nat /\ p \in Nat
  BY LenProperties
<1>2. ASSUME p <= q PROVE Ended(l, p, n)
  <2> DEFINE A == {e \in p..q : l[e] = "eol"}
  <2>1. q \in A /\ A \in SUBSET Nat
    BY <1>1, <1>2 DEF AtStart
  <2>2. PICK e \in A : \A k \in A : e <= k
    BY <2>1, Least
  <2>3. e \in p..q /\ l[e] = "eol" /\ e \in 1..Len(l) /\ e <= n
    BY <1>1, <2>2
  <2>4. SameLine(l, p, e)
    <3>1. ASSUME NEW x \in p..(e - 1) PROVE l[x] # "eol"
      <4>1. x \in p..q /\ ~(e <= x)
        BY <1>1, <2>3
      <4> QED
        BY <2>2, <4>1
    <3> QED
      BY <3>1 DEF SameLine
  <2>5. SameLine(l, e, p)
    <3>1. e..(p - 1) = {}
      BY <1>1, <2>3
    <3> QED
      BY <3>1 DEF SameLine
  <2> QED
    BY <2>3, <2>4, <2>5 DEF Ended, LineOf
<1>3. ASSUME Ended(l, p, n), ~(p <= q) PROVE FALSE
  <2>1. PICK e \in 1..Len(l) : SameLine(l, e, p) /\ l[e] = "eol" /\ e <= n
    BY <1>3 DEF Ended, LineOf
  <2>2. CASE e < p
    <3>1. e \in e..(p - 1)
      BY <1>1, <2>2
    <3> QED
      BY <2>1, <3>1 DEF SameLine
  <2>3. CASE ~(e < p)
    <3>1. e \in (q + 1)..n
      BY <1>1, <1>3, <2>1, <2>3
    <3> QED
      BY <2>1, <3>1
  <2> QED
    BY <2>2, <2>3
<1> QED
  BY <1>2, <1>3

(* A line from its first character to its end. *)
LEMMA LineIs ==
    ASSUME NEW l \in Seq(Kinds), NEW m \in Nat, NEW n \in (m + 1)..Len(l), AtStart(l, m),
           l[n] = "eol", \A e \in (m + 1)..(n - 1) : l[e] # "eol", NEW p \in (m + 1)..n
    PROVE  LineOf(l, p) = (m + 1)..n
<1>1. Len(l) \in Nat /\ n \in Nat /\ p \in Nat /\ m + 1 <= p /\ p <= n /\ n <= Len(l)
  BY LenProperties
<1>2. ASSUME NEW q \in (m + 1)..n PROVE q \in LineOf(l, p)
  <2>1. q \in 1..Len(l)
    BY <1>1
  <2>2. \A e \in p..(q - 1) : e \in (m + 1)..(n - 1)
    BY <1>1
  <2>3. \A e \in q..(p - 1) : e \in (m + 1)..(n - 1)
    BY <1>1
  <2> QED
    BY <2>1, <2>2, <2>3 DEF LineOf, SameLine
<1>3. ASSUME NEW q \in LineOf(l, p), q \notin (m + 1)..n PROVE FALSE
  <2>1. q \in 1..Len(l) /\ SameLine(l, p, q) /\ SameLine(l, q, p)
    BY <1>3 DEF LineOf
  <2>2. CASE q > n
    <3>1. n \in p..(q - 1)
      BY <1>1, <2>1, <2>2
    <3> QED
      BY <2>1, <3>1 DEF SameLine
  <2>3. CASE q < m + 1
    <3>1. m \in q..(p - 1) /\ m # 0
      BY <1>1, <2>1, <2>3
    <3> QED
      BY <2>1, <3>1 DEF SameLine, AtStart
  <2> QED
    BY <1>1, <1>3, <2>1, <2>2, <2>3
<1> QED
  BY <1>2, <1>3

(* What is behind the end of a line does not matter for it. *)
LEMMA KeepGrows ==
    ASSUME NEW l \in Seq(Kinds), NEW k \in Kinds, NEW m \in 0..Len(l), AtStart(l, m)
    PROVE  Keep(Append(l, k), m) = Keep(l, m) /\ AtStart(Append(l, k), m)
<1> DEFINE g == Append(l, k)
           N == Len(l)
<1>1. N \in Nat /\ Len(g) = N + 1 /\ \A i \in 1..N : g[i] = l[i]
  BY LenProperties, AppendProperties
<1> HIDE DEF g, N
<1>2. m \in 0..N
  BY DEF N
<1>3. ASSUME NEW p \in 1..m PROVE LineOf(g, p) = LineOf(l, p)
  <2>1. ASSUME NEW q \in 1..N PROVE SameLine(g, p, q) <=> SameLine(l, p, q)
    <3>1. \A e \in p..(q - 1) : e \in 1..N
      BY <1>1, <1>2
    <3> QED
      BY <1>1, <3>1 DEF SameLine
  <2>2. ASSUME NEW q \in 1..N PROVE SameLine(g, q, p) <=> SameLine(l, q, p)
    <3>1. \A e \in q..(p - 1) : e \in 1..N
      BY <1>1, <1>2
    <3> QED
      BY <1>1, <3>1 DEF SameLine
  <2>3. ~SameLine(g, p, N + 1)
    <3>1. m \in p..((N + 1) - 1) /\ m \in 1..N
      BY <1>1, <1>2
    <3>2. g[m] = "eol"
      BY <1>1, <3>1 DEF AtStart
    <3> QED
      BY <3>1, <3>2 DEF SameLine
  <2>4. \A q \in 1..(N + 1) : q \in 1..N \/ q = N + 1
    BY <1>1
  <2>5. \A q \in 1..N : q \in 1..(N + 1)
    BY <1>1
  <2>6. LineOf(g, p) = {q \in 1..(N + 1) : SameLine(g, p, q) /\ SameLine(g, q, p)}
    BY <1>1 DEF LineOf
  <2>7. LineOf(l, p) = {q \in 1..N : SameLine(l, p, q) /\ SameLine(l, q, p)}
    BY DEF LineOf, N
  <2> QED
    BY <2>1, <2>2, <2>3, <2>4, <2>5, <2>6, <2>7
<1>4. ASSUME NEW p \in 1..m PROVE Keyed(g, p) <=> Keyed(l, p)
  <2>1. LineOf(l, p) \subseteq 1..N
    BY DEF LineOf, N
  <2> QED
    BY <1>1, <1>3, <2>1 DEF Keyed
<1>5. \A p \in 1..m : g[p] = l[p]
  <2>1. \A p \in 1..m : p \in 1..N
    BY <1>1, <1>2
  <2> QED
    BY <1>1, <2>1
<1>6. Keep(g, m) = Keep(l, m)
  <2>1. {q \in 1..m : Keyed(g, q)} = {q \in 1..m : Keyed(l, q)}
    BY <1>4
  <2> QED
    BY <1>5, <2>1 DEF Keep
<1>7. AtStart(g, m)
  <2>1. m # 0 => m \in 1..m
    BY <1>1, <1>2
  <2> QED
    BY <1>5, <2>1 DEF AtStart
<1> QED
  BY <1>6, <1>7 DEF g

(* Which cells of a part are kept, or belong to the range's lines. *)
LEMMA PartCells ==
    ASSUME NEW l, NEW a \in Nat, NEW b \in Nat, NEW m \in Nat, NEW i \in 1..(b - a)
    PROVE  /\ Part(l, a, b)[i] \in Keep(l, m) <=> a + i <= m /\ Keyed(l, a + i)
           /\ Part(l, a, b)[i] \in Lines(l, m) <=>
                  a + i <= m /\ Keyed(l, a + i) /\ Ended(l, a + i, m)
<1>1. Part(l, a, b)[i] = [kind |-> l[a + i], at |-> a + i]
  BY DEF Part
<1>2. PICK p \in Nat : p = a + i /\ (p \in 1..m <=> p <= m)
  OBVIOUS
<1>3. \A q : [kind |-> l[p], at |-> p] = [kind |-> l[q], at |-> q] <=> q = p
  <2>1. \A q : [kind |-> l[q], at |-> q].at = q
    OBVIOUS
  <2> QED
    BY <2>1
<1>4. [kind |-> l[p], at |-> p] \in Keep(l, m) <=> p \in 1..m /\ Keyed(l, p)
  BY <1>3 DEF Keep
<1>5. [kind |-> l[p], at |-> p] \in Lines(l, m) <=>
          p \in 1..m /\ Keyed(l, p) /\ Ended(l, p, m)
  BY <1>3 DEF Lines
<1> QED
  BY <1>1, <1>2, <1>4, <1>5

(* What is kept of the first m begins with what is kept of fewer.           *)
LEMMA KeptBegins ==
    ASSUME NEW l \in Seq(Kinds), Len(l) <= MaxLog, NEW q \in Nat, NEW m \in q..Len(l)
    PROVE  /\ Select(Start(l, m), Keep(l, m)) =
                  Select(Start(l, q), Keep(l, q)) \o Select(Part(l, q, m), Keep(l, m))
           /\ Select(Start(l, q), Keep(l, q)) \in Seq(Cells)
           /\ Select(Part(l, q, m), Keep(l, m)) \in Seq(Cells)
<1>1. /\ Len(l) \in Nat /\ m \in Nat /\ q \in 0..Len(l) /\ q - 0 = q /\ m \in 0..Len(l)
      /\ 0 \in Nat
  BY LenProperties
<1>2. /\ Start(l, m) = Part(l, 0, m) /\ Start(l, q) = Part(l, 0, q)
      /\ Part(l, 0, m) = Part(l, 0, q) \o Part(l, q, m)
      /\ Part(l, 0, q) \in Seq(Cells) /\ Len(Part(l, 0, q)) = q
      /\ Part(l, q, m) \in Seq(Cells)
  <2>1. Part(l, 0, m) = Part(l, 0, q) \o Part(l, q, m)
    BY <1>1, PartSplit
  <2>2. Part(l, 0, q) \in Seq(Cells) /\ Len(Part(l, 0, q)) = q
    BY <1>1, PartType
  <2>3. Part(l, q, m) \in Seq(Cells)
    BY <1>1, PartType
  <2> QED
    BY <1>1, <2>1, <2>2, <2>3, StartIsPart
<1>3. Select(Part(l, 0, m), Keep(l, m)) =
          Select(Part(l, 0, q), Keep(l, m)) \o Select(Part(l, q, m), Keep(l, m))
  <2>1. Part(l, 0, q) \in Seq(Cells) /\ Part(l, q, m) \in Seq(Cells)
    BY <1>2
  <2>2. Select(Part(l, 0, q) \o Part(l, q, m), Keep(l, m)) =
            Select(Part(l, 0, q), Keep(l, m)) \o Select(Part(l, q, m), Keep(l, m))
    BY <2>1, CellsConcat
  <2> QED
    BY <1>2, <2>2
<1>4. Select(Part(l, 0, q), Keep(l, m)) = Select(Part(l, 0, q), Keep(l, q))
  <2>1. ASSUME NEW i \in 1..q
        PROVE  Part(l, 0, q)[i] \in Keep(l, m) <=> Part(l, 0, q)[i] \in Keep(l, q)
    <3>1. i \in 1..(q - 0) /\ 0 + i = i /\ i <= q /\ i <= m
      BY <1>1
    <3>2. Part(l, 0, q)[i] \in Keep(l, m) <=> 0 + i <= m /\ Keyed(l, 0 + i)
      BY <1>1, <3>1, PartCells
    <3>3. Part(l, 0, q)[i] \in Keep(l, q) <=> 0 + i <= q /\ Keyed(l, 0 + i)
      BY <1>1, <3>1, PartCells
    <3> QED
      BY <3>1, <3>2, <3>3
  <2> QED
    BY <1>2, <2>1, SelectAgree
<1> QED
  BY <1>2, <1>3, <1>4, SelectType

(* What a filter of the range has to find is what is kept up to the last    *)
(* line that ends in it.                                                    *)
LEMMA RangeIs ==
    ASSUME NEW l \in Seq(Kinds), Len(l) <= MaxLog, NEW n \in 0..Len(l), NEW q \in 0..n,
           AtStart(l, q), \A e \in (q + 1)..n : l[e] # "eol"
    PROVE  Select(Start(l, n), Lines(l, n)) = Select(Start(l, q), Keep(l, q))
<1>1. /\ Len(l) \in Nat /\ n \in Nat /\ q \in Nat /\ q - 0 = q /\ n \in q..Len(l)
      /\ q \in 0..Len(l) /\ 0 \in Nat
  BY LenProperties
<1>2. /\ Start(l, n) = Part(l, 0, n) /\ Start(l, q) = Part(l, 0, q)
      /\ Part(l, 0, n) = Part(l, 0, q) \o Part(l, q, n)
      /\ Part(l, 0, q) \in Seq(Cells) /\ Len(Part(l, 0, q)) = q
      /\ Part(l, q, n) \in Seq(Cells) /\ Len(Part(l, q, n)) = n - q
  <2>1. Part(l, 0, n) = Part(l, 0, q) \o Part(l, q, n)
    BY <1>1, PartSplit
  <2>2. Part(l, 0, q) \in Seq(Cells) /\ Len(Part(l, 0, q)) = q
    BY <1>1, PartType
  <2>3. Part(l, q, n) \in Seq(Cells) /\ Len(Part(l, q, n)) = n - q
    BY <1>1, PartType
  <2> QED
    BY <1>1, <2>1, <2>2, <2>3, StartIsPart
<1>3. Select(Part(l, 0, n), Lines(l, n)) =
          Select(Part(l, 0, q), Lines(l, n)) \o Select(Part(l, q, n), Lines(l, n))
  <2>1. Part(l, 0, q) \in Seq(Cells) /\ Part(l, q, n) \in Seq(Cells)
    BY <1>2
  <2>2. Select(Part(l, 0, q) \o Part(l, q, n), Lines(l, n)) =
            Select(Part(l, 0, q), Lines(l, n)) \o Select(Part(l, q, n), Lines(l, n))
    BY <2>1, CellsConcat
  <2> QED
    BY <1>2, <2>2
<1>4. Select(Part(l, 0, q), Lines(l, n)) = Select(Part(l, 0, q), Keep(l, q))
  <2>1. ASSUME NEW i \in 1..q
        PROVE  Part(l, 0, q)[i] \in Lines(l, n) <=> Part(l, 0, q)[i] \in Keep(l, q)
    <3>1. i \in 1..(q - 0) /\ 0 + i = i /\ i <= q /\ i <= n /\ i \in 1..n
      BY <1>1
    <3>2. Part(l, 0, q)[i] \in Lines(l, n) <=>
              0 + i <= n /\ Keyed(l, 0 + i) /\ Ended(l, 0 + i, n)
      BY <1>1, <3>1, PartCells
    <3>3. Part(l, 0, q)[i] \in Keep(l, q) <=> 0 + i <= q /\ Keyed(l, 0 + i)
      BY <1>1, <3>1, PartCells
    <3>4. Ended(l, i, n)
      BY <3>1, EndedIs
    <3> QED
      BY <3>1, <3>2, <3>3, <3>4
  <2> QED
    BY <1>2, <2>1, SelectAgree
<1>5. Select(Part(l, q, n), Lines(l, n)) = <<>>
  <2>1. ASSUME NEW i \in 1..(n - q) PROVE Part(l, q, n)[i] \notin Lines(l, n)
    <3>1. PICK p \in 1..n : p = q + i /\ ~(p <= q)
      BY <1>1
    <3>2. ~Ended(l, p, n)
      BY <3>1, EndedIs
    <3>3. Part(l, q, n)[i] \in Lines(l, n) =>
              q + i <= n /\ Keyed(l, q + i) /\ Ended(l, q + i, n)
      BY <1>1, PartCells
    <3> QED
      BY <3>1, <3>2, <3>3
  <2> QED
    BY <1>2, <2>1, SelectNone
<1>6. Select(Part(l, 0, q), Keep(l, q)) \in Seq(Cells)
  BY <1>2, SelectType
<1> QED
  BY <1>2, <1>3, <1>4, <1>5, <1>6, ConcatEmptySeq

(* A line is kept as a whole or not at all. *)
LEMMA LineKept ==
    ASSUME NEW l \in Seq(Kinds), Len(l) <= MaxLog, NEW m \in Nat, NEW n \in (m + 1)..Len(l),
           AtStart(l, m), l[n] = "eol", \A e \in (m + 1)..(n - 1) : l[e] # "eol"
    PROVE  Select(Part(l, m, n), Keep(l, n)) =
               IF \E k \in (m + 1)..n : l[k] = "key" THEN Part(l, m, n) ELSE <<>>
<1>1. Len(l) \in Nat /\ n \in Nat /\ n \in m..Len(l)
  BY LenProperties
<1>2. Part(l, m, n) \in Seq(Cells) /\ Len(Part(l, m, n)) = n - m
  BY <1>1, PartType
<1>3. ASSUME NEW i \in 1..(n - m)
      PROVE  Part(l, m, n)[i] \in Keep(l, n) <=> \E k \in (m + 1)..n : l[k] = "key"
  <2>1. PICK p \in (m + 1)..n : p = m + i /\ p <= n
    BY <1>1
  <2>2. Keyed(l, p) <=> \E k \in (m + 1)..n : l[k] = "key"
    <3>1. LineOf(l, p) = (m + 1)..n
      BY LineIs
    <3> QED
      BY <3>1 DEF Keyed
  <2>3. Part(l, m, n)[i] \in Keep(l, n) <=> m + i <= n /\ Keyed(l, m + i)
    BY <1>1, PartCells
  <2> QED
    BY <2>1, <2>2, <2>3
<1> QED
  BY <1>2, <1>3, SelectAll, SelectNone

(* A sequence begins with its first part, and so it does when it grows.     *)
LEMMA BeginsConcat ==
    ASSUME NEW S, NEW s \in Seq(S), NEW t \in Seq(S)
    PROVE  /\ Begins(s \o t, s) /\ Begins(s, s)
           /\ \A a \in Seq(S) : Begins(s, a) => Begins(s \o t, a)
<1>1. /\ s \o t \in Seq(S) /\ Len(s \o t) = Len(s) + Len(t)
      /\ \A i \in 1..Len(s) : (s \o t)[i] = s[i]
      /\ Len(s) \in Nat /\ Len(t) \in Nat
  BY ConcatProperties, LenProperties
<1>2. ASSUME NEW a \in Seq(S), NEW b \in Seq(S)
      PROVE  Begins(b, a) <=> Len(a) <= Len(b) /\ \A i \in 1..Len(a) : b[i] = a[i]
  <2>1. Len(a) \in Nat /\ Len(b) \in Nat
    BY LenProperties
  <2>2. CASE ~(Len(a) <= Len(b))
    BY <2>2 DEF Begins
  <2>3. CASE Len(a) <= Len(b)
    <3>1. \A i \in 1..Len(a) : b[i] \in S
      BY <2>1, <2>3, ElementOfSeq
    <3>2. /\ SubSeq(b, 1, Len(a)) \in Seq(S) /\ Len(SubSeq(b, 1, Len(a))) = Len(a)
          /\ \A i \in 1..Len(a) : SubSeq(b, 1, Len(a))[i] = b[i]
      <4> DEFINE n == Len(a)
                 u == SubSeq(b, 1, n)
      <4>1. /\ n \in Int /\ 1 \in Int /\ n >= 0 /\ n - 1 + 1 = n
            /\ \A i \in 1..n : b[i] \in S /\ 1 + i - 1 = i
        BY <2>1, <3>1
      <4> HIDE DEF n
      <4>2. /\ u \in Seq(S) /\ Len(u) = IF 1 <= n THEN n - 1 + 1 ELSE 0
            /\ \A i \in 1..(n - 1 + 1) : u[i] = b[1 + i - 1]
        BY <4>1, SubSeqProperties
      <4> QED
        BY <4>1, <4>2 DEF n
    <3>3. (\A i \in 1..Len(a) : b[i] = a[i]) => SubSeq(b, 1, Len(a)) = a
      BY <3>2, SeqEqual
    <3> QED
      BY <2>3, <3>2, <3>3 DEF Begins
  <2> QED
    BY <2>2, <2>3
<1>3. Begins(s \o t, s) /\ Begins(s, s)
  <2>1. Len(s) <= Len(s \o t) /\ Len(s) <= Len(s)
    BY <1>1
  <2>2. PICK b \in Seq(S) : b = s \o t /\ Len(s) <= Len(b) /\ \A i \in 1..Len(s) : b[i] = s[i]
    BY <1>1, <2>1
  <2>3. Begins(b, s)
    BY <1>2, <2>2
  <2>4. Begins(s, s)
    BY <1>2, <2>1
  <2> QED
    BY <2>2, <2>3, <2>4
<1>4. ASSUME NEW a \in Seq(S), Begins(s, a) PROVE Begins(s \o t, a)
  <2>1. Len(a) <= Len(s) /\ (\A i \in 1..Len(a) : s[i] = a[i]) /\ Len(a) \in Nat
    BY <1>2, <1>4, LenProperties
  <2>2. Len(a) <= Len(s \o t) /\ \A i \in 1..Len(a) : (s \o t)[i] = a[i]
    BY <1>1, <2>1
  <2> QED
    BY <1>1, <1>2, <2>2
<1> QED
  BY <1>3, <1>4
-----------------------------------------------------------------------------
(* The steps. *)

(* A dump in the making holds what was read, whole chunks of the range, or, *)
(* after the last chunk, is what DumpHoldsRange says.                       *)
DumpHolds == /\ Begins(tmp, RangeTrimmed) /\ Len(tmp) < Len(RangeTrimmed) + CHUNK
             /\ log_end = 0 => tmp = <<>>
DumpInv ==
    pc = "dump" => /\ command = "ALL" /\ dump = requests
                   /\ \/ log_end = pos + bytes /\ tmp = Trimmed(Start(log, pos))
                      \/ bytes = 0 /\ DumpHolds

(* A filter stands at the start of a line, has what is to be kept of those  *)
(* before, and never counts less to go than there is of the range.          *)
FilterInv ==
    pc = "filter" => /\ command = "FILTER" /\ dump = requests
                     /\ AtStart(log, pos) /\ log_end <= pos + bytes
                     /\ tmp = Select(Start(log, pos), Keep(log, pos))

(* What was copied of the compressed file is in the response file.          *)
CopyInv ==
    /\ Len(gz) <= Max(ZipSizes)
    /\ pc = "copy" => \A i \in 1..byte_count : resp[i] = gz[i]

IInv == /\ TypeOK /\ DumpInv /\ FilterInv /\ CopyInv
        /\ DumpHoldsRange /\ FilterStartsWithLines /\ AnnouncedIsWhole

(* What a chunk is. *)
LEMMA ChunkIs ==
    ASSUME TypeOK
    PROVE  /\ readbytes \in 0..CHUNK /\ readbytes <= Len(log) - pos
           /\ readbytes = CHUNK \/ readbytes = Len(log) - pos
           /\ Chunk = Part(log, pos, pos + readbytes)
           /\ Chunk \in Seq(Cells) /\ Len(Chunk) = readbytes
<1>1. /\ log \in Seq(Kinds) /\ Len(log) <= MaxLog /\ Len(log) \in Nat /\ pos \in Nat
      /\ pos <= Len(log) /\ Len(log) - pos \in Nat /\ CHUNK \in Nat
  BY Bounds, LenProperties DEF TypeOK
<1>2. PICK r \in Nat : /\ r = readbytes /\ r <= CHUNK /\ r <= Len(log) - pos
                       /\ r = CHUNK \/ r = Len(log) - pos
  <2>1. PICK b \in Nat : b = Len(log) - pos
    BY <1>1
  <2>2. \A x, y \in Int : Min({x, y}) \in {x, y} /\ Min({x, y}) <= x /\ Min({x, y}) <= y
    BY Bounds
  <2>3. PICK c \in Nat : c = CHUNK
    BY <1>1
  <2>4. Min({c, b}) \in {c, b} /\ Min({c, b}) <= c /\ Min({c, b}) <= b
    BY <2>2
  <2>5. readbytes = Min({c, b})
    BY <2>1, <2>3 DEF readbytes
  <2>6. PICK r \in Nat : r = Min({c, b})
    BY <2>4
  <2> QED
    BY <2>1, <2>3, <2>4, <2>5, <2>6
<1>3. (pos + r) - pos = r /\ pos + r \in pos..Len(log)
  BY <1>1, <1>2
<1>4. Chunk = Part(log, pos, pos + r)
  BY <1>2, <1>3 DEF Chunk, Part, Cell
<1>5. Part(log, pos, pos + r) \in Seq(Cells) /\ Len(Part(log, pos, pos + r)) = r
  BY <1>1, <1>3, PartType
<1> QED
  BY <1>2, <1>4, <1>5

(* What a line is. *)
LEMMA LineEndIs ==
    ASSUME TypeOK
    PROVE  /\ LineEnd \in (pos + 1)..(Len(log) + 1)
           /\ \A e \in (pos + 1)..(LineEnd - 1) : log[e] # "eol"
           /\ LineEnd <= Len(log) => log[LineEnd] = "eol"
           /\ Line = Part(log, pos, LineEnd - 1)
           /\ Line \in Seq(Cells) /\ Len(Line) = LineEnd - 1 - pos
           /\ Append(Line, LineFeed) \in Seq(Cells)
           /\ LineEnd <= Len(log) => Append(Line, LineFeed) = Part(log, pos, LineEnd)
<1>1. /\ log \in Seq(Kinds) /\ Len(log) <= MaxLog /\ Len(log) \in Nat /\ pos \in Nat
      /\ pos <= Len(log) /\ MaxLog \in Nat
  BY Bounds, LenProperties DEF TypeOK
<1> DEFINE E == {p \in (pos + 1)..Len(log) : log[p] = "eol"} \cup {Len(log) + 1}
<1>2. E \in SUBSET Nat /\ E # {}
  BY <1>1
<1>3. LineEnd = Min(E)
  BY DEF LineEnd
<1>4. PICK n \in E : n = LineEnd /\ \A k \in E : n <= k
  <2> HIDE DEF E
  <2> QED
    BY <1>2, <1>3, Least
<1>5. /\ n \in (pos + 1)..(Len(log) + 1)
      /\ n <= Len(log) => log[n] = "eol"
  BY <1>1, <1>4
<1>6. ASSUME NEW e \in (pos + 1)..(n - 1) PROVE log[e] # "eol"
  <2>1. e \in (pos + 1)..Len(log) /\ ~(n <= e)
    BY <1>1, <1>5
  <2> QED
    BY <1>4, <2>1
<1> HIDE DEF E
<1>7. Line = Part(log, pos, n - 1)
  <2>1. n - 1 - pos = (n - 1) - pos
    BY <1>1, <1>5
  <2> QED
    BY <1>4, <2>1 DEF Line, Part, Cell
<1>8. n - 1 \in pos..Len(log) /\ n - 1 \in Nat
  BY <1>1, <1>5
<1>9. Line \in Seq(Cells) /\ Len(Line) = n - 1 - pos
  BY <1>1, <1>7, <1>8, PartType
<1>10. LineFeed \in Cells
  <2>1. CASE n <= Len(log)
    <3>1. n \in 1..Len(log) /\ n \in 0..MaxLog
      BY <1>1, <1>5, <2>1
    <3>2. log[n] \in Kinds
      BY <1>1, <3>1, ElementOfSeq
    <3> QED
      BY <1>4, <2>1, <3>1, <3>2 DEF LineFeed, Cell, Cells
  <2>2. CASE ~(n <= Len(log))
    BY <1>1, <1>4, <2>2 DEF LineFeed, Eol, Cells, Kinds
  <2> QED
    BY <2>1, <2>2
<1>11. ASSUME n <= Len(log) PROVE Append(Line, LineFeed) = Part(log, pos, n)
  <2>1. /\ n \in (n - 1)..Len(log) /\ n - (n - 1) = 1 /\ n - 1 + 1 = n
        /\ n - 1 \in pos..Len(log)
    BY <1>1, <1>5, <1>8, <1>11
  <2>2. Part(log, pos, n) = Part(log, pos, n - 1) \o Part(log, n - 1, n)
    BY <1>1, <2>1, PartSplit
  <2>3. Part(log, n - 1, n) = <<LineFeed>>
    <3>1. LineFeed = [kind |-> log[n], at |-> n]
      BY <1>4, <1>11 DEF LineFeed, Cell
    <3>2. \A i \in 1..1 : n - 1 + i = n
      BY <2>1
    <3>3. Part(log, n - 1, n) = [i \in 1..1 |-> LineFeed]
      BY <2>1, <3>1, <3>2 DEF Part
    <3> QED
      BY <3>3
  <2>4. Append(Line, LineFeed) = Line \o <<LineFeed>>
    BY <1>9, <1>10, AppendIsConcat
  <2> QED
    BY <1>7, <2>2, <2>3, <2>4
<1>12. Append(Line, LineFeed) \in Seq(Cells)
  BY <1>9, <1>10, AppendProperties
<1> QED
  BY <1>4, <1>5, <1>6, <1>7, <1>9, <1>11, <1>12

(* What is left to be read is no number below 0. *)
LEMMA LeftIs ==
    ASSUME TypeOK, NEW n \in Nat
    PROVE  /\ Left(n) \in 0..bytes
           /\ IF n > bytes THEN Left(n) = 0 ELSE Left(n) = bytes - n
  BY DEF TypeOK, Left

(* A buffer that was read over begins with what was read. *)
LEMMA OverIs ==
    ASSUME NEW S, NEW buf \in [Buffer -> S], NEW s \in Seq(S), Len(s) <= CHUNK
    PROVE  /\ Over(buf, s) \in [Buffer -> S] /\ Over(buf, s) \in Seq(S)
           /\ \A i \in 1..Len(s) : i \in Buffer /\ Over(buf, s)[i] = s[i]
           /\ \E rest \in Seq(S) : /\ Len(rest) = CHUNK - Len(s)
                                   /\ Over(buf, s) = s \o rest
<1> DEFINE n == Len(s)
           rest == [i \in 1..(CHUNK - n) |-> buf[n + i]]
           o == Over(buf, s)
<1>1. n \in Nat /\ CHUNK \in Nat /\ n <= CHUNK /\ \A i \in 1..n : s[i] \in S
  BY Bounds, LenProperties, ElementOfSeq
<1>2. Buffer = 1..CHUNK
  BY DEF Buffer
<1>3. \A i \in 1..CHUNK : buf[i] \in S /\ o[i] = IF i <= n THEN s[i] ELSE buf[i]
  BY <1>2 DEF Over
<1>4. o \in [1..CHUNK -> S]
  <2>1. \A i \in 1..CHUNK : (IF i <= n THEN s[i] ELSE buf[i]) \in S
    BY <1>1, <1>3
  <2>2. o = [i \in 1..CHUNK |-> IF i <= n THEN s[i] ELSE buf[i]]
    BY <1>2 DEF Over
  <2> HIDE DEF o
  <2> QED
    BY <2>1, <2>2
<1>5. o \in Seq(S) /\ Len(o) = CHUNK
  <2> HIDE DEF o
  <2> QED
    BY <1>1, <1>4
<1>6. rest \in Seq(S) /\ Len(rest) = CHUNK - n
  <2>1. PICK d \in Nat : d = CHUNK - n
    <3>1. CHUNK - n \in Nat
      BY <1>1
    <3> QED
      BY <3>1
  <2>2. \A i \in 1..d : buf[n + i] \in S
    BY <1>1, <1>3, <2>1
  <2>3. rest \in [1..d -> S]
    BY <2>1, <2>2
  <2> HIDE DEF rest
  <2> QED
    BY <2>1, <2>3
<1>7. o = s \o rest
  <2>1. /\ s \o rest \in Seq(S) /\ Len(s \o rest) = CHUNK
        /\ \A i \in 1..CHUNK : (s \o rest)[i] = IF i <= n THEN s[i] ELSE rest[i - n]
    <3> HIDE DEF rest
    <3>1. /\ s \o rest \in Seq(S) /\ Len(s \o rest) = n + Len(rest)
          /\ \A i \in 1..(n + Len(rest)) :
                 (s \o rest)[i] = IF i <= n THEN s[i] ELSE rest[i - n]
      BY <1>6, ConcatProperties
    <3>2. n + Len(rest) = CHUNK
      BY <1>1, <1>6
    <3> QED
      BY <3>1, <3>2
  <2>2. \A i \in 1..CHUNK : ~(i <= n) => rest[i - n] = buf[i]
    <3> SUFFICES ASSUME NEW i \in 1..CHUNK, ~(i <= n) PROVE rest[i - n] = buf[i]
      OBVIOUS
    <3>1. i - n \in 1..(CHUNK - n) /\ n + (i - n) = i
      BY <1>1
    <3> QED
      BY <3>1
  <2>3. \A i \in 1..CHUNK : o[i] = (s \o rest)[i]
    <3> HIDE DEF o, rest
    <3> QED
      BY <1>3, <2>1, <2>2
  <2> HIDE DEF o, rest
  <2> QED
    BY <1>5, <2>1, <2>3, SeqEqual
<1>8. \A i \in 1..n : i \in Buffer /\ o[i] = s[i]
  <2>1. \A i \in 1..n : i \in 1..CHUNK /\ i <= n
    BY <1>1
  <2> QED
    BY <1>2, <1>3, <2>1
<1> HIDE DEF o, rest
<1> QED
  BY <1>2, <1>4, <1>5, <1>6, <1>7, <1>8 DEF o

(* What a chunk of the compressed file is. *)
LEMMA ZipChunkIs ==
    ASSUME TypeOK
    PROVE  /\ gzbytes \in 0..CHUNK /\ gzbytes <= Len(gz) - byte_count
           /\ gzbytes = 0 => byte_count = Len(gz)
           /\ SubSeq(gz, byte_count + 1, byte_count + gzbytes) \in Seq(ZipCells)
           /\ Len(SubSeq(gz, byte_count + 1, byte_count + gzbytes)) = gzbytes
           /\ \A i \in 1..gzbytes :
                  SubSeq(gz, byte_count + 1, byte_count + gzbytes)[i] = gz[byte_count + i]
<1>1. /\ gz \in Seq(ZipCells) /\ Len(gz) \in Nat /\ byte_count \in Nat
      /\ byte_count <= Len(gz) /\ CHUNK \in Nat /\ CHUNK > 0
  BY Bounds, LenProperties DEF TypeOK
<1>2. PICK n \in Nat : /\ n = gzbytes /\ n <= CHUNK /\ n <= Len(gz) - byte_count
                       /\ n = CHUNK \/ n = Len(gz) - byte_count
  <2>1. PICK b \in Nat : b = Len(gz) - byte_count
    BY <1>1
  <2>2. \A x, y \in Int : Min({x, y}) \in {x, y} /\ Min({x, y}) <= x /\ Min({x, y}) <= y
    BY Bounds
  <2>3. PICK c \in Nat : c = CHUNK
    BY <1>1
  <2>4. Min({c, b}) \in {c, b} /\ Min({c, b}) <= c /\ Min({c, b}) <= b
    BY <2>2
  <2>5. gzbytes = Min({c, b})
    BY <2>1, <2>3 DEF gzbytes
  <2>6. PICK n \in Nat : n = Min({c, b})
    BY <2>4
  <2> QED
    BY <2>1, <2>3, <2>4, <2>5, <2>6
<1>3. PICK a \in Int, z \in Int : a = byte_count + 1 /\ z = byte_count + n /\ z - a + 1 = n
  BY <1>1
<1>4. \A i \in a..z : gz[i] \in ZipCells
  <2>1. \A i \in a..z : i \in 1..Len(gz)
    BY <1>1, <1>2, <1>3
  <2> QED
    BY <1>1, <2>1, ElementOfSeq
<1>5. /\ SubSeq(gz, a, z) \in Seq(ZipCells)
      /\ Len(SubSeq(gz, a, z)) = IF a <= z THEN z - a + 1 ELSE 0
      /\ \A i \in 1..(z - a + 1) : SubSeq(gz, a, z)[i] = gz[a + i - 1]
  BY <1>4, SubSeqProperties
<1>6. Len(SubSeq(gz, a, z)) = n
  BY <1>2, <1>3, <1>5
<1>7. \A i \in 1..n : a + i - 1 = byte_count + i
  BY <1>1, <1>3
<1>8. \A i \in 1..n : SubSeq(gz, a, z)[i] = gz[byte_count + i]
  BY <1>3, <1>5, <1>7
<1> QED
  BY <1>1, <1>2, <1>3, <1>5, <1>6, <1>8

(* Every step keeps the types. *)
LEMMA TypeStep ==
    ASSUME TypeOK, Len(gz) <= Max(ZipSizes), [Next]_vars
    PROVE  TypeOK' /\ (Len(gz) <= Max(ZipSizes))'
<1> DEFINE Z == Max(ZipSizes)
<1>1. /\ Z \in Nat /\ CHUNK \in Nat /\ CHUNK > 0 /\ MaxLog \in Nat /\ MaxRequests \in Nat
      /\ \A n \in ZipSizes : n \in Nat /\ n <= Z
  BY Bounds, ResponseAssumption
<1>2. Nul \in Cells /\ Junk \in Cells /\ Zero \in ZipCells
  <2>1. 0 \in 0..MaxLog /\ 0 \in 0..MaxRequests /\ 0 \in 0..Z
    BY <1>1
  <2> QED
    BY <2>1 DEF Nul, Junk, Zero, Cells, ZipCells, Kinds
<1>3. /\ log \in Seq(Kinds) /\ Len(log) <= MaxLog /\ Len(log) \in Nat
      /\ pc \in {"loop", "dump", "filter", "commit", "copy"}
      /\ requests \in 0..MaxRequests /\ command \in {"ALL", "FILTER"}
      /\ log_end \in 0..Len(log)
      /\ pos \in 0..Len(log) /\ bytes \in 0..log_end
      /\ tmpbuf \in [Buffer -> Cells]
      /\ tmp \in Seq(Cells) /\ dump \in 0..requests
      /\ gz \in Seq(ZipCells) /\ Len(gz) \in Nat /\ Len(gz) <= Z
      /\ readbuf \in [Buffer -> ZipCells]
      /\ byte_count \in 0..Len(gz)
      /\ resp \in [Slots -> ZipCells] /\ ready \in 0..Z
  BY LenProperties DEF TypeOK
<1>4. CASE LogGrows
  <2>1. PICK k \in Kinds : log' = Append(log, k) /\ Len(log) < MaxLog
    BY <1>4 DEF LogGrows
  <2>2. log' \in Seq(Kinds) /\ Len(log') = Len(log) + 1
    BY <1>3, <2>1, AppendProperties
  <2>3. Len(log') <= MaxLog /\ log_end \in 0..Len(log') /\ pos \in 0..Len(log')
    BY <1>1, <1>3, <2>1, <2>2
  <2> HIDE DEF Z
  <2> QED
    BY <1>3, <1>4, <2>2, <2>3 DEF LogGrows, requestVars, commitVars, TypeOK, Z
<1>5. ASSUME NEW c \in {"ALL", "FILTER"}, Take(c)
      PROVE  /\ requests' \in 0..MaxRequests /\ command' \in {"ALL", "FILTER"}
             /\ log_end' \in 0..Len(log) /\ dump \in 0..requests'
             /\ bytes \in 0..log_end' /\ requests' \in 0..requests'
  <2>1. /\ requests < MaxRequests /\ requests' = requests + 1 /\ command' = c
        /\ log_end' \in log_end..Len(log)
    BY <1>5 DEF Take
  <2> QED
    BY <1>1, <1>3, <2>1
<1>6. CASE Refuse
  <2>1. Take("ALL")
    BY <1>6 DEF Refuse
  <2> HIDE DEF Z
  <2> QED
    BY <1>3, <1>5, <1>6, <2>1 DEF Refuse, commitVars, TypeOK, Z
<1>7. ASSUME NEW c \in {"ALL", "FILTER"}, Take(c), NEW d \in {"dump", "filter"}, Opened(d)
      PROVE  /\ pc' \in {"loop", "dump", "filter", "commit", "copy"}
             /\ pos' \in 0..Len(log) /\ bytes' \in 0..log_end'
             /\ tmp' \in Seq(Cells) /\ dump' \in 0..requests'
  <2>1. log_end' \in 0..log_end' /\ 0 \in 0..Len(log) /\ <<>> \in Seq(Cells)
    BY <1>3, <1>5, <1>7, EmptySeq
  <2> QED
    BY <1>5, <1>7, <2>1 DEF Opened
<1>8. CASE OpenDump
  <2>1. Take("ALL") /\ Opened("dump")
    BY <1>8 DEF OpenDump
  <2>2. tmpbuf' \in [Buffer -> Cells]
    <3>1. tmpbuf' \in [Buffer -> {Nul, Junk}]
      BY <1>8 DEF OpenDump
    <3> QED
      BY <1>2, <3>1
  <2> HIDE DEF Z
  <2> QED
    BY <1>3, <1>5, <1>7, <1>8, <2>1, <2>2 DEF OpenDump, commitVars, TypeOK, Z
<1>9. CASE OpenFilter
  <2>1. Take("FILTER") /\ Opened("filter")
    BY <1>9 DEF OpenFilter
  <2> HIDE DEF Z
  <2> QED
    BY <1>3, <1>5, <1>7, <1>9, <2>1 DEF OpenFilter, commitVars, TypeOK, Z
<1>10. CASE DumpEnds
  <2> HIDE DEF Z
  <2> QED
    BY <1>3, <1>10 DEF DumpEnds, requestVars, commitVars, TypeOK, Z
<1>11. CASE Dump
  <2>1. /\ readbytes \in 0..CHUNK /\ readbytes <= Len(log) - pos
        /\ Chunk \in Seq(Cells) /\ Len(Chunk) = readbytes
    BY ChunkIs
  <2>2. /\ tmpbuf' = Over(tmpbuf, Chunk) /\ tmp' = tmp \o Trimmed(tmpbuf')
        /\ pos' = pos + readbytes /\ bytes' = Left(readbytes)
        /\ UNCHANGED <<log, pc, requestVars, dump, commitVars>>
    BY <1>11 DEF Dump, DumpChunk
  <2>3. PICK r \in Nat : r = readbytes /\ r <= CHUNK /\ r <= Len(log) - pos
    BY <1>1, <2>1
  <2>4. pos' \in 0..Len(log)
    BY <1>3, <2>2, <2>3
  <2>5. bytes' \in 0..log_end
    <3>1. Left(r) \in 0..bytes
      BY <2>3, LeftIs
    <3> QED
      BY <1>3, <2>2, <2>3, <3>1
  <2>6. tmpbuf' \in [Buffer -> Cells] /\ tmpbuf' \in Seq(Cells)
    <3>1. Len(Chunk) <= CHUNK
      BY <2>1, <2>3
    <3> QED
      BY <1>3, <2>1, <2>2, <3>1, OverIs
  <2>7. tmp' \in Seq(Cells)
    <3>1. Trimmed(tmpbuf') \in Seq(Cells)
      BY <2>6, SelectType DEF Trimmed
    <3> QED
      BY <1>3, <2>2, <3>1, ConcatProperties
  <2> HIDE DEF Z
  <2> QED
    BY <1>3, <2>2, <2>4, <2>5, <2>6, <2>7 DEF requestVars, commitVars, TypeOK, Z
<1>12. CASE FilterEnds
  <2> HIDE DEF Z
  <2> QED
    BY <1>3, <1>12 DEF FilterEnds, requestVars, commitVars, TypeOK, Z
<1>13. CASE Filter
  <2>1. /\ LineEnd \in (pos + 1)..(Len(log) + 1) /\ Len(Line) = LineEnd - 1 - pos
        /\ Append(Line, LineFeed) \in Seq(Cells)
    BY LineEndIs
  <2>2. /\ tmp' = IF Matching THEN tmp \o Append(Line, LineFeed) ELSE tmp
        /\ pos' = Min({LineEnd, Len(log)}) /\ bytes' = Left(Len(Line))
        /\ pc' \in {"commit", pc}
        /\ UNCHANGED <<log, requestVars, tmpbuf, dump, commitVars>>
    BY <1>13 DEF Filter, FilterLine
  <2>3. PICK e \in Nat : e = LineEnd /\ e >= pos + 1 /\ e - 1 - pos \in Nat
    BY <1>3, <2>1
  <2>4. pos' \in 0..Len(log)
    <3>1. \A x, y \in Int : Min({x, y}) \in {x, y} /\ Min({x, y}) <= x /\ Min({x, y}) <= y
      BY Bounds
    <3>2. PICK n \in Nat : n = Len(log)
      BY <1>3
    <3>3. Min({e, n}) \in {e, n} /\ Min({e, n}) <= e /\ Min({e, n}) <= n
      <4>1. e \in Int /\ n \in Int
        OBVIOUS
      <4> HIDE DEF Z
      <4> QED
        BY ONLY <3>1, <4>1
    <3>4. Min({e, n}) \in 0..n
      BY <3>3
    <3> QED
      BY <2>2, <2>3, <3>2, <3>4
  <2>5. bytes' \in 0..log_end
    <3>1. PICK m \in Nat : m = Len(Line)
      BY <2>1, <2>3
    <3>2. Left(m) \in 0..bytes
      BY LeftIs
    <3> QED
      BY <1>3, <2>2, <3>1, <3>2
  <2>6. tmp' \in Seq(Cells)
    BY <1>3, <2>1, <2>2, ConcatProperties
  <2> HIDE DEF Z
  <2> QED
    BY <1>3, <2>2, <2>4, <2>5, <2>6 DEF requestVars, commitVars, TypeOK, Z
<1>14. CASE Compress
  <2>1. gz' \in Seq(ZipCells) /\ Len(gz') \in Nat /\ Len(gz') <= Z
    <3>1. CASE gz' = gz
      BY <1>3, <3>1
    <3>2. CASE gz' # gz
      <4>1. PICK n \in ZipSizes : gz' = Zipped(n)
        BY <1>14, <3>2 DEF Compress
      <4>2. n \in Nat /\ n <= Z
        BY <1>1
      <4>3. \A i \in 1..n : [dump |-> dump, at |-> i] \in ZipCells
        <5>1. \A i \in 1..n : i \in 0..Z
          BY <1>1, <4>2
        <5>2. dump \in 0..MaxRequests
          BY <1>1, <1>3
        <5> QED
          BY <5>1, <5>2 DEF ZipCells
      <4>4. Zipped(n) \in [1..n -> ZipCells]
        BY <4>3 DEF Zipped
      <4>5. Zipped(n) \in Seq(ZipCells) /\ Len(Zipped(n)) = n
        BY <4>2, <4>4
      <4> HIDE DEF Z
      <4> QED
        BY <4>1, <4>2, <4>5
    <3> QED
      BY <3>1, <3>2
  <2>2. readbuf' \in [Buffer -> ZipCells]
    BY <1>2, <1>14 DEF Compress
  <2>3. byte_count' \in 0..Len(gz')
    <3>1. byte_count' = 0
      BY <1>14 DEF Compress
    <3> QED
      BY <2>1, <3>1
  <2> HIDE DEF Z
  <2> QED
    BY <1>3, <1>14, <2>1, <2>2, <2>3 DEF Compress, requestVars, TypeOK, Z
<1>15. CASE Copy
  <2> DEFINE c == SubSeq(gz, byte_count + 1, byte_count + gzbytes)
  <2>1. /\ gzbytes \in 0..CHUNK /\ gzbytes <= Len(gz) - byte_count
        /\ c \in Seq(ZipCells) /\ Len(c) = gzbytes
    BY ZipChunkIs
  <2>2. /\ readbuf' = Over(readbuf, c) /\ byte_count' = byte_count + gzbytes
        /\ resp' = [i \in Slots |-> IF i - byte_count \in Buffer
                                    THEN readbuf'[i - byte_count] ELSE resp[i]]
        /\ UNCHANGED <<log, pc, requestVars, pos, bytes, tmpbuf, tmp, dump, gz, ready>>
    BY <1>15 DEF Copy
  <2> HIDE DEF c
  <2>3. readbuf' \in [Buffer -> ZipCells]
    <3>1. Len(c) <= CHUNK
      BY <1>1, <2>1
    <3> QED
      BY <1>3, <2>1, <2>2, <3>1, OverIs
  <2>4. resp' \in [Slots -> ZipCells]
    BY <1>3, <2>2, <2>3
  <2>5. byte_count' \in 0..Len(gz)
    BY <1>1, <1>3, <2>1, <2>2
  <2> HIDE DEF Z
  <2> QED
    BY <1>3, <2>2, <2>3, <2>4, <2>5 DEF requestVars, TypeOK, Z
<1>16. CASE CommitMessage
  <2>1. byte_count \in 0..Z
    BY <1>1, <1>3
  <2> HIDE DEF Z
  <2> QED
    BY <1>3, <1>16, <2>1 DEF CommitMessage, Announce, requestVars, TypeOK, Z
<1>17. CASE UNCHANGED vars
  <2> HIDE DEF Z
  <2> QED
    BY <1>3, <1>17 DEF vars, requestVars, commitVars, TypeOK, Z
<1> QED
  BY <1>4, <1>6, <1>8, <1>9, <1>10, <1>11, <1>12, <1>13, <1>14, <1>15, <1>16, <1>17 DEF Next

(* Every step keeps what is said of the copy. *)
LEMMA CopyStep ==
    ASSUME TypeOK, CopyInv, AnnouncedIsWhole, [Next]_vars
    PROVE  CopyInv' /\ AnnouncedIsWhole'
<1> DEFINE Z == Max(ZipSizes)
<1>1. /\ Z \in Nat /\ CHUNK \in Nat /\ CHUNK > 0 /\ Slots = 1..(Z + CHUNK)
      /\ Buffer = 1..CHUNK
  BY Bounds DEF Slots, Buffer
<1>2. /\ gz \in Seq(ZipCells) /\ Len(gz) \in Nat /\ Len(gz) <= Z
      /\ readbuf \in [Buffer -> ZipCells] /\ byte_count \in Nat /\ byte_count <= Len(gz)
      /\ resp \in [Slots -> ZipCells]
  BY LenProperties DEF TypeOK, CopyInv
<1>3. Len(gz') <= Z
  BY TypeStep DEF CopyInv
<1>4. CASE Copy
  <2> DEFINE c == SubSeq(gz, byte_count + 1, byte_count + gzbytes)
  <2>1. /\ gzbytes \in 0..CHUNK /\ gzbytes <= Len(gz) - byte_count
        /\ c \in Seq(ZipCells) /\ Len(c) = gzbytes
        /\ \A i \in 1..gzbytes : c[i] = gz[byte_count + i]
    BY ZipChunkIs
  <2>2. /\ pc = "copy" /\ readbuf' = Over(readbuf, c) /\ byte_count' = byte_count + gzbytes
        /\ resp' = [i \in Slots |-> IF i - byte_count \in Buffer
                                    THEN readbuf'[i - byte_count] ELSE resp[i]]
        /\ pc' = pc /\ gz' = gz
    BY <1>4 DEF Copy
  <2> HIDE DEF c
  <2>3. PICK n \in Nat : n = gzbytes /\ n <= CHUNK /\ byte_count + n <= Len(gz)
    BY <1>1, <1>2, <2>1
  <2>4. \A i \in 1..n : i \in Buffer /\ readbuf'[i] = gz[byte_count + i]
    <3>1. Len(c) <= CHUNK /\ Len(c) = n
      BY <2>1, <2>3
    <3>2. \A i \in 1..Len(c) : i \in Buffer /\ Over(readbuf, c)[i] = c[i]
      <4>1. PICK b \in [Buffer -> ZipCells], s \in Seq(ZipCells) : b = readbuf /\ s = c
        BY <1>2, <2>1
      <4>2. Len(s) <= CHUNK
        BY <3>1, <4>1
      <4>3. \A i \in 1..Len(s) : i \in Buffer /\ Over(b, s)[i] = s[i]
        BY <4>2, OverIs
      <4> QED
        BY <4>1, <4>3
    <3> QED
      BY <2>1, <2>2, <2>3, <3>1, <3>2
  <2>5. ASSUME NEW i \in 1..(byte_count + n) PROVE resp'[i] = gz[i]
    <3>1. i \in Slots
      BY <1>1, <1>2, <2>3
    <3>2. resp'[i] = IF i - byte_count \in Buffer THEN readbuf'[i - byte_count] ELSE resp[i]
      BY <2>2, <3>1
    <3>3. CASE i <= byte_count
      <4>1. i - byte_count \notin Buffer /\ i \in 1..byte_count
        BY <1>1, <1>2, <3>3
      <4>2. resp[i] = gz[i]
        BY <2>2, <4>1 DEF CopyInv
      <4> QED
        BY <3>2, <4>1, <4>2
    <3>4. CASE ~(i <= byte_count)
      <4>1. i - byte_count \in 1..n /\ byte_count + (i - byte_count) = i
        BY <1>2, <3>4
      <4> QED
        BY <2>4, <3>2, <4>1
    <3> QED
      BY <3>3, <3>4
  <2>6. byte_count' = byte_count + n /\ pc' # "loop"
    BY <2>2, <2>3
  <2> HIDE DEF Z
  <2> QED
    BY <1>3, <2>2, <2>5, <2>6 DEF CopyInv, AnnouncedIsWhole, Z
<1>5. CASE CommitMessage
  <2>1. /\ pc = "copy" /\ ready' = byte_count /\ byte_count = Len(gz) /\ pc' = "loop"
        /\ gz' = gz /\ resp' = resp
    BY <1>5, ZipChunkIs DEF CommitMessage, Announce
  <2>2. PICK n \in Nat : n = Len(gz) /\ n <= Z
    BY <1>2
  <2>3. \A i \in 1..n : resp[i] = gz[i] /\ i \in Slots
    BY <1>1, <2>1, <2>2 DEF CopyInv
  <2>4. SubSeq(resp, 1, n) = gz
    <3>1. \A i \in 1..n : resp[i] \in ZipCells
      BY <1>2, <2>3
    <3>2. /\ SubSeq(resp, 1, n) \in Seq(ZipCells)
          /\ Len(SubSeq(resp, 1, n)) = IF 1 <= n THEN n - 1 + 1 ELSE 0
          /\ \A i \in 1..(n - 1 + 1) : SubSeq(resp, 1, n)[i] = resp[1 + i - 1]
      BY <3>1, SubSeqProperties
    <3>3. Len(SubSeq(resp, 1, n)) = n /\ n - 1 + 1 = n /\ \A i \in 1..n : 1 + i - 1 = i
      BY <3>2
    <3>4. \A i \in 1..n : SubSeq(resp, 1, n)[i] = gz[i]
      BY <2>3, <3>2, <3>3
    <3> QED
      BY <1>2, <2>2, <3>2, <3>3, <3>4, SeqEqual
  <2> HIDE DEF Z
  <2> QED
    BY <1>3, <2>1, <2>2, <2>4 DEF CopyInv, AnnouncedIsWhole, Z
<1>6. CASE Compress
  <2>1. byte_count' = 0 /\ pc' = "copy" /\ 1..0 = {}
    BY <1>6 DEF Compress
  <2> HIDE DEF Z
  <2> QED
    BY <1>3, <2>1 DEF CopyInv, AnnouncedIsWhole, Z
<1>7. CASE LogGrows \/ UNCHANGED vars
  <2>1. UNCHANGED <<pc, gz, byte_count, resp, ready>>
    BY <1>7 DEF LogGrows, vars, commitVars
  <2> HIDE DEF Z
  <2> QED
    BY <1>3, <2>1 DEF CopyInv, AnnouncedIsWhole, Z
<1>8. CASE Refuse \/ OpenDump \/ OpenFilter \/ DumpEnds \/ Dump \/ FilterEnds \/ Filter
  <2>1. pc' \in {"dump", "filter", "commit"}
    BY <1>8 DEF Refuse, OpenDump, OpenFilter, Opened, DumpEnds, Dump, DumpChunk, FilterEnds,
                Filter, FilterLine
  <2> HIDE DEF Z
  <2> QED
    BY <1>3, <2>1 DEF CopyInv, AnnouncedIsWhole, Z
<1> QED
  BY <1>4, <1>5, <1>6, <1>7, <1>8 DEF Next

(* Three parts of an answer join in any order. *)
LEMMA CellsAssociate ==
    \A s, t, u \in Seq(Cells) : (s \o t) \o u = s \o (t \o u)
  BY ConcatAssociative

(* What is trimmed of two sequences. *)
LEMMA TrimConcat ==
    \A s, t \in Seq(Cells) : /\ Trimmed(s \o t) = Trimmed(s) \o Trimmed(t)
                             /\ Trimmed(s) \in Seq(Cells) /\ Len(Trimmed(s)) <= Len(s)
  BY CellsConcat, SelectType DEF Trimmed

(* What is trimmed of the start of a log, and of what follows it. *)
LEMMA TrimmedStart ==
    ASSUME NEW l \in Seq(Kinds), Len(l) <= MaxLog, NEW a \in Nat, NEW b \in a..Len(l)
    PROVE  /\ Trimmed(Start(l, b)) = Trimmed(Start(l, a)) \o Trimmed(Part(l, a, b))
           /\ Trimmed(Start(l, a)) \in Seq(Cells)
           /\ Trimmed(Start(l, b)) \in Seq(Cells)
           /\ Trimmed(Part(l, a, b)) \in Seq(Cells)
           /\ a = 0 => Trimmed(Start(l, a)) = <<>>
<1>1. /\ Len(l) \in Nat /\ b \in Nat /\ 0 \in Nat /\ a \in 0..Len(l) /\ b \in 0..Len(l)
      /\ a - 0 = a
  BY LenProperties
<1>2. Start(l, a) = Part(l, 0, a) /\ Start(l, b) = Part(l, 0, b)
  BY <1>1, StartIsPart
<1>3. /\ Part(l, 0, a) \in Seq(Cells) /\ Len(Part(l, 0, a)) = a
      /\ Part(l, 0, b) \in Seq(Cells) /\ Part(l, a, b) \in Seq(Cells)
  BY <1>1, PartType
<1>4. Part(l, 0, b) = Part(l, 0, a) \o Part(l, a, b)
  BY <1>1, PartSplit
<1>5. a = 0 => Trimmed(Part(l, 0, a)) = <<>>
  <2>1. Trimmed(Part(l, 0, a)) \in Seq(Cells) /\ Len(Trimmed(Part(l, 0, a))) <= a
    BY <1>3, TrimConcat
  <2>2. a = 0 => Len(Trimmed(Part(l, 0, a))) = 0
    <3>1. Len(Trimmed(Part(l, 0, a))) \in Nat
      BY <2>1, LenProperties
    <3> QED
      BY <2>1, <3>1
  <2> QED
    BY <2>1, <2>2, EmptySeq
<1>6. /\ Trimmed(Part(l, 0, b)) = Trimmed(Part(l, 0, a)) \o Trimmed(Part(l, a, b))
      /\ Trimmed(Part(l, 0, a)) \in Seq(Cells)
      /\ Trimmed(Part(l, 0, b)) \in Seq(Cells)
      /\ Trimmed(Part(l, a, b)) \in Seq(Cells)
  BY <1>3, <1>4, TrimConcat
<1> QED
  BY <1>2, <1>5, <1>6

(* The range is in the log as it was when it grew. *)
LEMMA StartStays ==
    ASSUME TypeOK, NEW n \in 0..Len(log), LogGrows \/ log' = log
    PROVE  Start(log', n) = Start(log, n)
<1>1. CASE log' = log
  BY <1>1
<1>2. CASE LogGrows
  <2>1. PICK k \in Kinds : log' = Append(log, k)
    BY <1>2 DEF LogGrows
  <2>2. log \in Seq(Kinds) /\ 0 \in Nat /\ n \in Nat
    BY LenProperties DEF TypeOK
  <2>3. Part(Append(log, k), 0, n) = Part(log, 0, n)
    BY <2>2, PartGrows
  <2> QED
    BY <2>1, <2>2, <2>3, StartIsPart
<1> QED
  BY <1>1, <1>2

(* A chunk that ends before the range does. *)
LEMMA InnerChunk ==
    ASSUME TypeOK, Dump, log_end = pos + bytes, tmp = Trimmed(Start(log, pos)),
           readbytes < bytes
    PROVE  log_end = pos' + bytes' /\ tmp' = Trimmed(Start(log, pos'))
<1>1. /\ log \in Seq(Kinds) /\ Len(log) <= MaxLog /\ Len(log) \in Nat
      /\ pos \in Nat /\ bytes \in Nat /\ log_end \in Nat /\ log_end <= Len(log)
      /\ tmpbuf \in [Buffer -> Cells]
  BY LenProperties DEF TypeOK
<1>2. /\ readbytes \in 0..CHUNK
      /\ readbytes = CHUNK \/ readbytes = Len(log) - pos
      /\ Chunk = Part(log, pos, pos + readbytes)
      /\ Chunk \in Seq(Cells) /\ Len(Chunk) = readbytes
  BY ChunkIs
<1>3. /\ tmpbuf' = Over(tmpbuf, Chunk) /\ tmp' = tmp \o Trimmed(tmpbuf')
      /\ pos' = pos + readbytes /\ bytes' = Left(readbytes)
  BY DEF Dump, DumpChunk
<1>4. PICK r \in Nat : /\ r = readbytes /\ r = CHUNK /\ r < bytes
                       /\ pos + r \in pos..Len(log)
  <2>1. readbytes \in Nat /\ CHUNK \in Nat
    BY <1>2, Bounds
  <2>2. readbytes = CHUNK
    BY <1>1, <1>2, <2>1
  <2> QED
    BY <1>1, <2>1, <2>2
<1>5. tmpbuf' = Chunk
  <2>1. Len(Chunk) <= CHUNK
    BY <1>2, <1>4
  <2>2. \E rest \in Seq(Cells) : /\ Len(rest) = CHUNK - Len(Chunk)
                                 /\ Over(tmpbuf, Chunk) = Chunk \o rest
    <3>1. PICK b \in [Buffer -> Cells], c \in Seq(Cells) : b = tmpbuf /\ c = Chunk
      BY <1>1, <1>2
    <3>2. Len(c) <= CHUNK
      BY <2>1, <3>1
    <3>3. \E rest \in Seq(Cells) : /\ Len(rest) = CHUNK - Len(c)
                                   /\ Over(b, c) = c \o rest
      BY <3>2, OverIs
    <3> QED
      BY <3>1, <3>3
  <2>3. PICK rest \in Seq(Cells) : Len(rest) = 0 /\ tmpbuf' = Chunk \o rest
    <3>1. PICK x \in Seq(Cells) : Len(x) = CHUNK - Len(Chunk) /\ tmpbuf' = Chunk \o x
      BY <1>3, <2>2
    <3>2. Len(Chunk) = r /\ CHUNK = r /\ r - r = 0
      BY <1>2, <1>4
    <3>3. Len(x) = 0
      BY <3>1, <3>2
    <3> QED
      BY <3>1, <3>3
  <2>4. rest = <<>>
    BY <2>3, EmptySeq
  <2> QED
    BY <1>2, <2>3, <2>4, ConcatEmptySeq
<1>6. tmp' = Trimmed(Start(log, pos + r))
  <2>1. Trimmed(Start(log, pos + r)) = Trimmed(Start(log, pos)) \o Trimmed(Part(log, pos, pos + r))
    BY <1>1, <1>4, TrimmedStart
  <2> QED
    BY <1>2, <1>3, <1>4, <1>5, <2>1
<1>7. bytes' = bytes - r
  BY <1>1, <1>3, <1>4 DEF Left
<1> QED
  BY <1>1, <1>3, <1>4, <1>6, <1>7

(* The chunk that ends the range. *)
LEMMA LastChunk ==
    ASSUME TypeOK, Dump, log_end = pos + bytes, tmp = Trimmed(Start(log, pos)),
           ~(readbytes < bytes)
    PROVE  bytes' = 0 /\ DumpHolds'
<1>1. /\ log \in Seq(Kinds) /\ Len(log) <= MaxLog /\ Len(log) \in Nat
      /\ pos \in Nat /\ bytes \in Nat /\ log_end \in pos..Len(log)
      /\ tmpbuf \in [Buffer -> Cells] /\ CHUNK \in Nat
  BY LenProperties, Bounds DEF TypeOK
<1>2. /\ readbytes \in 0..CHUNK /\ readbytes <= Len(log) - pos
      /\ Chunk = Part(log, pos, pos + readbytes)
      /\ Chunk \in Seq(Cells) /\ Len(Chunk) = readbytes
  BY ChunkIs
<1>3. /\ tmpbuf' = Over(tmpbuf, Chunk) /\ tmp' = tmp \o Trimmed(tmpbuf')
      /\ bytes' = Left(readbytes) /\ bytes # 0
      /\ log' = log /\ log_end' = log_end
  BY DEF Dump, DumpChunk, requestVars
<1>4. PICK r \in Nat : /\ r = readbytes /\ r <= CHUNK /\ r >= bytes
                       /\ pos + r \in log_end..Len(log)
  <2>1. readbytes \in Nat
    BY <1>1, <1>2
  <2> QED
    BY <1>1, <1>2, <2>1
<1>5. bytes' = 0
  BY <1>1, <1>3, <1>4 DEF Left
<1> DEFINE p == Part(log, pos, log_end)
           q == Part(log, log_end, pos + r)
<1>6. /\ p \in Seq(Cells) /\ q \in Seq(Cells) /\ Len(q) = (pos + r) - log_end
      /\ Chunk = p \o q
  <2>1. log_end \in Nat
    BY <1>1
  <2>2. p \in Seq(Cells)
    BY <1>1, PartType
  <2>3. q \in Seq(Cells) /\ Len(q) = (pos + r) - log_end
    BY <1>1, <1>4, <2>1, PartType
  <2>4. Part(log, pos, pos + r) = p \o q
    BY <1>1, <1>4, PartSplit
  <2>5. Chunk = Part(log, pos, pos + r)
    BY <1>2, <1>4
  <2> HIDE DEF p, q
  <2>6. Chunk = p \o q
    BY <2>4, <2>5
  <2> QED
    BY <2>2, <2>3, <2>6
<1>7. /\ Trimmed(Start(log, log_end)) = tmp \o Trimmed(p)
      /\ tmp \in Seq(Cells) /\ Trimmed(p) \in Seq(Cells)
      /\ Trimmed(Start(log, log_end)) \in Seq(Cells)
  BY <1>1, TrimmedStart
<1> HIDE DEF p, q
<1>8. PICK rest \in Seq(Cells) : Len(rest) = CHUNK - r /\ tmpbuf' = Chunk \o rest
  <2>1. Len(Chunk) <= CHUNK /\ Len(Chunk) = r
    BY <1>2, <1>4
  <2>2. \E rest \in Seq(Cells) : /\ Len(rest) = CHUNK - Len(Chunk)
                                 /\ Over(tmpbuf, Chunk) = Chunk \o rest
    <3>1. PICK b \in [Buffer -> Cells], c \in Seq(Cells) : b = tmpbuf /\ c = Chunk
      BY <1>1, <1>2
    <3>2. Len(c) <= CHUNK
      BY <2>1, <3>1
    <3>3. \E rest \in Seq(Cells) : /\ Len(rest) = CHUNK - Len(c)
                                   /\ Over(b, c) = c \o rest
      BY <3>2, OverIs
    <3> QED
      BY <3>1, <3>3
  <2> QED
    BY <1>3, <2>1, <2>2
<1>9. /\ q \o rest \in Seq(Cells) /\ Len(q \o rest) < CHUNK
      /\ tmpbuf' = p \o (q \o rest)
  <2>1. q \o rest \in Seq(Cells) /\ Len(q \o rest) = Len(q) + Len(rest)
    BY <1>6, <1>8, ConcatProperties
  <2>2. Len(q) + Len(rest) < CHUNK
    BY <1>1, <1>3, <1>4, <1>6, <1>8
  <2>3. (p \o q) \o rest = p \o (q \o rest)
    BY <1>6, <1>8, CellsAssociate
  <2> QED
    BY <1>6, <1>8, <2>1, <2>2, <2>3
<1>10. PICK x \in Seq(Cells) : x = Trimmed(q \o rest) /\ Len(x) < CHUNK
  <2>1. Trimmed(q \o rest) \in Seq(Cells) /\ Len(Trimmed(q \o rest)) <= Len(q \o rest)
    BY <1>9, TrimConcat
  <2>2. Len(Trimmed(q \o rest)) \in Nat /\ Len(q \o rest) \in Nat
    BY <1>9, <2>1, LenProperties
  <2> QED
    BY <1>1, <1>9, <2>1, <2>2
<1>11. PICK s \in Seq(Cells) : s = RangeTrimmed /\ RangeTrimmed' = s /\ s = tmp \o Trimmed(p)
  BY <1>3, <1>7 DEF RangeTrimmed
<1>12. tmp' = s \o x
  <2>1. Trimmed(tmpbuf') = Trimmed(p) \o x
    BY <1>6, <1>9, <1>10, TrimConcat
  <2>2. tmp \o (Trimmed(p) \o x) = (tmp \o Trimmed(p)) \o x
    <3>1. PICK a \in Seq(Cells), b \in Seq(Cells) : a = tmp /\ b = Trimmed(p)
      BY <1>7
    <3>2. a \o (b \o x) = (a \o b) \o x
      BY CellsAssociate
    <3> QED
      BY <3>1, <3>2
  <2> QED
    BY <1>3, <1>11, <2>1, <2>2
<1>13. Begins(s \o x, s) /\ Len(s \o x) = Len(s) + Len(x) /\ Len(s) \in Nat /\ Len(x) \in Nat
  BY BeginsConcat, ConcatProperties, LenProperties
<1>14. log_end' # 0
  BY <1>1, <1>3
<1>15. Len(s) + Len(x) < Len(s) + CHUNK
  BY <1>1, <1>10, <1>13
<1> QED
  BY <1>5, <1>11, <1>12, <1>13, <1>14, <1>15 DEF DumpHolds

(* Every step keeps what is said of the dump. *)
LEMMA DumpStep ==
    ASSUME TypeOK, DumpInv, FilterInv, DumpHoldsRange, [Next]_vars
    PROVE  DumpInv' /\ DumpHoldsRange'
<1>1. /\ log \in Seq(Kinds) /\ Len(log) <= MaxLog /\ Len(log) \in Nat
      /\ pos \in 0..Len(log) /\ bytes \in Nat /\ log_end \in 0..Len(log)
      /\ tmp \in Seq(Cells) /\ dump \in 0..requests /\ requests \in Nat
      /\ CHUNK \in Nat /\ CHUNK > 0
  BY LenProperties, Bounds DEF TypeOK
<1>2. CASE LogGrows \/ UNCHANGED vars
  <2>1. UNCHANGED <<pc, requests, command, log_end, pos, bytes, tmp, dump>>
        /\ (LogGrows \/ log' = log)
    BY <1>2 DEF LogGrows, vars, requestVars
  <2>2. Start(log', pos) = Start(log, pos) /\ Start(log', log_end) = Start(log, log_end)
    BY <1>1, <2>1, StartStays
  <2>3. RangeTrimmed' = RangeTrimmed /\ Trimmed(Start(log', pos')) = Trimmed(Start(log, pos))
    BY <2>1, <2>2 DEF RangeTrimmed
  <2>4. DumpInv'
    BY <2>1, <2>3 DEF DumpInv, DumpHolds
  <2>5. DumpHoldsRange'
    BY <2>1, <2>3 DEF DumpHoldsRange, Made
  <2> QED
    BY <2>4, <2>5
<1>3. CASE Refuse
  <2>1. pc' = "commit" /\ dump' = dump /\ requests' = requests + 1
    BY <1>3 DEF Refuse, Take
  <2>2. dump' # requests'
    BY <1>1, <2>1
  <2> QED
    BY <2>1, <2>2 DEF DumpInv, DumpHoldsRange, Made
<1>4. CASE OpenDump
  <2>1. /\ pc' = "dump" /\ command' = "ALL" /\ dump' = requests' /\ pos' = 0
        /\ bytes' = log_end' /\ tmp' = <<>> /\ log' = log /\ log_end' \in log_end..Len(log)
    BY <1>4 DEF OpenDump, Take, Opened
  <2>2. Trimmed(Start(log, 0)) = <<>>
    <3>1. 0 \in Nat /\ 0 \in 0..Len(log)
      BY <1>1
    <3> QED
      BY <1>1, <3>1, TrimmedStart
  <2>3. log_end' = pos' + bytes'
    <3>1. PICK n \in Nat : n = log_end'
      BY <1>1, <2>1
    <3>2. bytes' = n /\ pos' = 0
      BY <2>1, <3>1
    <3>3. n = 0 + n
      OBVIOUS
    <3> QED
      BY <3>1, <3>2, <3>3
  <2> QED
    BY <2>1, <2>2, <2>3 DEF DumpInv, DumpHoldsRange, Made
<1>5. CASE DumpEnds
  <2>1. /\ pc = "dump" /\ (bytes = 0 \/ readbytes = 0) /\ pc' = "commit"
        /\ UNCHANGED <<log, requests, command, log_end, tmp, dump>>
    BY <1>5 DEF DumpEnds, requestVars
  <2>2. DumpHolds
    <3>1. CASE log_end = pos + bytes /\ tmp = Trimmed(Start(log, pos))
      <4>1. readbytes = CHUNK \/ readbytes = Len(log) - pos
        BY ChunkIs
      <4>2. pos = log_end
        BY <1>1, <2>1, <3>1, <4>1
      <4>3. tmp = RangeTrimmed /\ Begins(tmp, tmp) /\ Len(tmp) \in Nat
        BY <1>1, <3>1, <4>2, BeginsConcat, LenProperties DEF RangeTrimmed
      <4>4. Len(tmp) < Len(tmp) + CHUNK
        BY <1>1, <4>3
      <4>5. log_end = 0 => tmp = <<>>
        <5>1. log_end = 0 => 0 \in Nat /\ 0 \in 0..Len(log)
          BY <1>1
        <5> QED
          BY <1>1, <3>1, <4>2, <5>1, TrimmedStart
      <4> QED
        BY <4>3, <4>4, <4>5 DEF DumpHolds
    <3> QED
      BY <2>1, <3>1 DEF DumpInv
  <2>3. DumpHolds' /\ pc' # "dump"
    BY <2>1, <2>2 DEF DumpHolds, RangeTrimmed
  <2> QED
    BY <2>3 DEF DumpInv, DumpHolds, DumpHoldsRange
<1>6. CASE Dump
  <2>1. /\ pc = "dump" /\ bytes # 0 /\ pc' = "dump" /\ log' = log /\ log_end' = log_end
        /\ command' = command /\ dump' = dump /\ requests' = requests
    BY <1>6 DEF Dump, DumpChunk, requestVars
  <2>2. /\ command = "ALL" /\ dump = requests
        /\ log_end = pos + bytes /\ tmp = Trimmed(Start(log, pos))
    BY <2>1 DEF DumpInv
  <2>3. \/ log_end = pos' + bytes' /\ tmp' = Trimmed(Start(log, pos'))
        \/ bytes' = 0 /\ DumpHolds'
    BY <1>6, <2>2, InnerChunk, LastChunk
  <2> QED
    BY <2>1, <2>2, <2>3 DEF DumpInv, DumpHoldsRange, Made
<1>7. CASE OpenFilter \/ Compress \/ Copy \/ CommitMessage
  <2>1. pc' \in {"filter", "copy", "loop"}
    BY <1>7 DEF OpenFilter, Opened, Compress, Copy, CommitMessage, Announce
  <2> QED
    BY <2>1 DEF DumpInv, DumpHoldsRange, Made
<1>8. CASE FilterEnds \/ Filter
  <2>1. pc = "filter" /\ pc' \in {"filter", "commit"} /\ command' = command
    BY <1>8 DEF FilterEnds, Filter, FilterLine, requestVars
  <2>2. command = "FILTER"
    BY <2>1 DEF FilterInv
  <2> QED
    BY <2>1, <2>2 DEF DumpInv, DumpHoldsRange, Made
<1> QED
  BY <1>2, <1>3, <1>4, <1>5, <1>6, <1>7, <1>8 DEF Next

(* What a filter has to find is a sequence of characters. *)
LEMMA KeepType ==
    ASSUME NEW l \in Seq(Kinds), Len(l) <= MaxLog, NEW m \in 0..Len(l)
    PROVE  /\ Select(Start(l, m), Keep(l, m)) \in Seq(Cells)
           /\ m = 0 => Select(Start(l, m), Keep(l, m)) = <<>>
<1>1. /\ Len(l) \in Nat /\ m \in Nat /\ 0 \in Nat /\ m - 0 = m
  BY LenProperties
<1>2. Part(l, 0, m) \in Seq(Cells) /\ Len(Part(l, 0, m)) = m
  BY <1>1, PartType
<1>3. Start(l, m) = Part(l, 0, m)
  BY <1>1, StartIsPart
<1> DEFINE s == Select(Start(l, m), Keep(l, m))
<1>4. s \in Seq(Cells) /\ Len(s) <= m
  BY <1>2, <1>3, SelectType
<1> HIDE DEF s
<1>5. m = 0 => Len(s) = 0
  <2>1. Len(s) \in Nat
    BY <1>4, LenProperties
  <2> QED
    BY <1>4, <2>1
<1>6. m = 0 => s = <<>>
  BY <1>4, <1>5, EmptySeq
<1> QED
  BY <1>4, <1>6 DEF s

(* What it has to find of the range does not change while the log grows.    *)
LEMMA RangeStays ==
    ASSUME TypeOK, log_end' = log_end, LogGrows \/ log' = log
    PROVE  RangeFiltered' = RangeFiltered
<1>1. CASE log' = log
  BY <1>1 DEF RangeFiltered
<1>2. CASE LogGrows
  <2>1. /\ log \in Seq(Kinds) /\ Len(log) <= MaxLog /\ Len(log) \in Nat
        /\ log_end \in 0..Len(log)
    BY LenProperties DEF TypeOK
  <2>2. PICK k \in Kinds : log' = Append(log, k) /\ Len(log) < MaxLog
    BY <1>2 DEF LogGrows
  <2>3. PICK q \in 0..log_end : AtStart(log, q) /\ \A e \in (q + 1)..log_end : log[e] # "eol"
    BY <2>1, LastEnd
  <2>4. q \in 0..Len(log) /\ q \in Nat /\ 0 \in Nat
    BY <2>1
  <2>5. PICK l \in Seq(Kinds) : /\ l = Append(log, k) /\ Len(l) = Len(log) + 1
                                /\ \A i \in 1..Len(log) : l[i] = log[i]
    <3>1. /\ Append(log, k) \in Seq(Kinds) /\ Len(Append(log, k)) = Len(log) + 1
          /\ \A i \in 1..Len(log) : Append(log, k)[i] = log[i]
      BY <2>1, AppendProperties
    <3> QED
      BY <3>1
  <2>6. /\ Len(l) <= MaxLog /\ log_end \in 0..Len(l)
        /\ \A e \in (q + 1)..log_end : e \in 1..Len(log)
    <3>1. MaxLog \in Nat
      BY Bounds
    <3> QED
      BY <2>1, <2>2, <2>4, <2>5, <3>1
  <2>7. Keep(l, q) = Keep(log, q) /\ AtStart(l, q)
    BY <2>1, <2>3, <2>4, <2>5, KeepGrows
  <2>8. \A e \in (q + 1)..log_end : l[e] # "eol"
    BY <2>3, <2>5, <2>6
  <2>9. Start(l, q) = Start(log, q)
    <3>1. Part(Append(log, k), 0, q) = Part(log, 0, q)
      BY <2>1, <2>4, PartGrows
    <3> QED
      BY <2>4, <2>5, <3>1, StartIsPart
  <2>10. Select(Start(l, log_end), Lines(l, log_end)) = Select(Start(l, q), Keep(l, q))
    BY <2>6, <2>7, <2>8, RangeIs
  <2>11. Select(Start(log, log_end), Lines(log, log_end)) = Select(Start(log, q), Keep(log, q))
    BY <2>1, <2>3, RangeIs
  <2>12. RangeFiltered' = Select(Start(l, log_end), Lines(l, log_end))
    BY <2>2, <2>5 DEF RangeFiltered
  <2> QED
    BY <2>7, <2>9, <2>10, <2>11, <2>12 DEF RangeFiltered
<1> QED
  BY <1>1, <1>2

(* When no line of the range ends behind the m-th character, all that has   *)
(* to be found is in what is kept up to there.                              *)
LEMMA Found ==
    ASSUME TypeOK, NEW m \in 0..Len(log), AtStart(log, m),
           \A e \in (m + 1)..log_end : log[e] # "eol"
    PROVE  /\ Begins(Select(Start(log, m), Keep(log, m)), RangeFiltered)
           /\ \A s \in Seq(Cells) :
                  Begins(Select(Start(log, m), Keep(log, m)) \o s, RangeFiltered)
<1>1. /\ log \in Seq(Kinds) /\ Len(log) <= MaxLog /\ Len(log) \in Nat
      /\ log_end \in 0..Len(log) /\ m \in Nat
  BY LenProperties DEF TypeOK
<1>2. PICK q \in 0..log_end : AtStart(log, q) /\ \A e \in (q + 1)..log_end : log[e] # "eol"
  BY <1>1, LastEnd
<1>3. q <= m
  <2> SUFFICES ASSUME ~(q <= m) PROVE FALSE
    OBVIOUS
  <2>1. q \in (m + 1)..log_end /\ q # 0
    BY <1>1
  <2> QED
    BY <1>2, <2>1 DEF AtStart
<1>4. q \in Nat /\ m \in q..Len(log)
  BY <1>1, <1>3
<1>5. RangeFiltered = Select(Start(log, q), Keep(log, q))
  BY <1>1, <1>2, RangeIs DEF RangeFiltered
<1>6. PICK a \in Seq(Cells), b \in Seq(Cells) :
          a = RangeFiltered /\ a \o b = Select(Start(log, m), Keep(log, m))
  <2>1. /\ Select(Start(log, m), Keep(log, m)) =
               Select(Start(log, q), Keep(log, q)) \o Select(Part(log, q, m), Keep(log, m))
        /\ Select(Start(log, q), Keep(log, q)) \in Seq(Cells)
        /\ Select(Part(log, q, m), Keep(log, m)) \in Seq(Cells)
    BY <1>1, <1>4, KeptBegins
  <2> QED
    BY <1>5, <2>1
<1>7. a \o b \in Seq(Cells) /\ Begins(a \o b, a)
  BY BeginsConcat, ConcatProperties
<1>8. \A s \in Seq(Cells) : Begins((a \o b) \o s, a)
  BY <1>7, BeginsConcat
<1> QED
  BY <1>6, <1>7, <1>8

(* A whole line is read. *)
LEMMA WholeLine ==
    ASSUME TypeOK, Filter, FilterInv, LineEnd <= Len(log)
    PROVE  /\ pos' = LineEnd /\ AtStart(log, LineEnd) /\ log_end <= pos' + bytes'
           /\ tmp' = Select(Start(log, LineEnd), Keep(log, LineEnd))
           /\ pc' = IF bytes' = 0 THEN "commit" ELSE "filter"
<1>1. /\ log \in Seq(Kinds) /\ Len(log) <= MaxLog /\ Len(log) \in Nat
      /\ pos \in Nat /\ pos <= Len(log) /\ bytes \in Nat /\ log_end \in Nat
  BY LenProperties DEF TypeOK
<1>2. /\ LineEnd \in (pos + 1)..(Len(log) + 1)
      /\ \A e \in (pos + 1)..(LineEnd - 1) : log[e] # "eol"
      /\ log[LineEnd] = "eol"
      /\ Line = Part(log, pos, LineEnd - 1)
      /\ Line \in Seq(Cells) /\ Len(Line) = LineEnd - 1 - pos
      /\ Append(Line, LineFeed) = Part(log, pos, LineEnd)
  BY LineEndIs
<1>3. PICK n \in (pos + 1)..Len(log) : n = LineEnd /\ n \in Nat /\ n \in pos..Len(log)
  BY <1>1, <1>2
<1>4. /\ pc = "filter"
      /\ tmp' = IF Matching THEN tmp \o Append(Line, LineFeed) ELSE tmp
      /\ pos' = Min({LineEnd, Len(log)}) /\ bytes' = Left(Len(Line))
      /\ pc' = IF bytes' = 0 \/ LineEnd > Len(log) THEN "commit" ELSE pc
  BY DEF Filter, FilterLine
<1>5. /\ AtStart(log, pos) /\ log_end <= pos + bytes
      /\ tmp = Select(Start(log, pos), Keep(log, pos))
  BY <1>4 DEF FilterInv
<1>6. pos' = n
  <2>1. \A x, y \in Int : Min({x, y}) \in {x, y} /\ Min({x, y}) <= x /\ Min({x, y}) <= y
    BY Bounds
  <2>2. PICK m \in Int : m = Len(log) /\ n <= m /\ n \in Int
    BY <1>1, <1>3
  <2>3. Min({n, m}) \in {n, m} /\ Min({n, m}) <= n /\ Min({n, m}) <= m
    BY ONLY <2>1, <2>2, m \in Int
  <2>4. Min({n, m}) = n
    BY <2>2, <2>3
  <2> QED
    BY <1>3, <1>4, <2>2, <2>4
<1>7. log_end <= n + bytes' /\ bytes' \in Nat
  <2>1. PICK k \in Nat : k = Len(Line) /\ n = pos + k + 1
    <3>1. (n - 1) - pos \in Nat /\ n = pos + ((n - 1) - pos) + 1
      BY <1>1, <1>3
    <3> QED
      BY <1>2, <1>3, <3>1
  <2>2. bytes' = IF k > bytes THEN 0 ELSE bytes - k
    BY <1>4, <2>1 DEF Left
  <2>3. PICK d \in Nat : d = bytes' /\ bytes <= k + d
    <3>1. CASE k > bytes
      BY <1>1, <2>2, <3>1
    <3>2. CASE ~(k > bytes)
      <4>1. bytes - k \in Nat /\ bytes = k + (bytes - k)
        BY <1>1, <3>2
      <4> QED
        BY <1>1, <2>2, <3>2, <4>1
    <3> QED
      BY <3>1, <3>2
  <2>4. log_end <= n + d
    BY <1>1, <1>5, <2>1, <2>3
  <2> QED
    BY <2>3, <2>4
<1>8. Matching <=> \E k \in (pos + 1)..n : log[k] = "key"
  <2>1. \A i \in 1..(n - 1 - pos) : Line[i].kind = log[pos + i]
    <3>1. Line = [i \in 1..((n - 1) - pos) |-> [kind |-> log[pos + i], at |-> pos + i]]
      BY <1>2, <1>3 DEF Part
    <3>2. (n - 1) - pos = n - 1 - pos
      BY <1>1, <1>3
    <3> QED
      BY <3>1, <3>2
  <2>2. Matching <=> \E i \in 1..(n - 1 - pos) : log[pos + i] = "key"
    BY <1>2, <1>3, <2>1 DEF Matching
  <2>3. ASSUME NEW i \in 1..(n - 1 - pos), log[pos + i] = "key"
        PROVE  \E k \in (pos + 1)..n : log[k] = "key"
    <3>1. pos + i \in (pos + 1)..n
      BY <1>1, <1>3
    <3> QED
      BY <2>3, <3>1
  <2>4. ASSUME NEW k \in (pos + 1)..n, log[k] = "key"
        PROVE  \E i \in 1..(n - 1 - pos) : log[pos + i] = "key"
    <3>1. k # n
      BY <1>2, <1>3, <2>4
    <3>2. k - pos \in 1..(n - 1 - pos) /\ pos + (k - pos) = k
      BY <1>1, <1>3, <3>1
    <3> QED
      BY <2>4, <3>2
  <2> QED
    BY <2>2, <2>3, <2>4
<1>9. tmp' = Select(Start(log, n), Keep(log, n))
  <2>1. /\ Select(Start(log, n), Keep(log, n)) = tmp \o Select(Part(log, pos, n), Keep(log, n))
        /\ tmp \in Seq(Cells)
    BY <1>1, <1>3, <1>5, KeptBegins
  <2>2. Select(Part(log, pos, n), Keep(log, n)) =
            IF \E k \in (pos + 1)..n : log[k] = "key" THEN Part(log, pos, n) ELSE <<>>
    BY <1>1, <1>2, <1>3, <1>5, LineKept
  <2>3. tmp \o <<>> = tmp
    BY <2>1, ConcatEmptySeq
  <2> QED
    BY <1>2, <1>3, <1>4, <1>8, <2>1, <2>2, <2>3
<1>10. AtStart(log, n) /\ ~(LineEnd > Len(log))
  BY <1>1, <1>2, <1>3 DEF AtStart
<1> QED
  BY <1>3, <1>4, <1>6, <1>7, <1>9, <1>10

(* Every step keeps what is said of the filter. *)
LEMMA FilterStep ==
    ASSUME TypeOK, DumpInv, FilterInv, FilterStartsWithLines, [Next]_vars
    PROVE  FilterInv' /\ FilterStartsWithLines'
<1>1. /\ log \in Seq(Kinds) /\ Len(log) <= MaxLog /\ Len(log) \in Nat
      /\ pos \in 0..Len(log) /\ bytes \in Nat /\ log_end \in 0..Len(log)
      /\ tmp \in Seq(Cells) /\ dump \in 0..requests /\ requests \in Nat
  BY LenProperties DEF TypeOK
<1>2. CASE LogGrows \/ UNCHANGED vars
  <2>1. UNCHANGED <<pc, requests, command, log_end, pos, bytes, tmp, dump>>
        /\ (LogGrows \/ log' = log)
    BY <1>2 DEF LogGrows, vars, requestVars
  <2>2. AtStart(log, pos) => AtStart(log', pos) /\ Keep(log', pos) = Keep(log, pos)
    <3>1. CASE log' = log
      BY <3>1
    <3>2. CASE LogGrows
      <4>1. PICK k \in Kinds : log' = Append(log, k)
        BY <3>2 DEF LogGrows
      <4> QED
        BY <1>1, <4>1, KeepGrows
    <3> QED
      BY <2>1, <3>1, <3>2
  <2>3. Start(log', pos) = Start(log, pos)
    BY <1>1, <2>1, StartStays
  <2>4. RangeFiltered' = RangeFiltered
    BY <2>1, RangeStays
  <2>5. FilterInv'
    BY <2>1, <2>2, <2>3 DEF FilterInv
  <2>6. FilterStartsWithLines'
    BY <2>1, <2>4 DEF FilterStartsWithLines, Made
  <2> QED
    BY <2>5, <2>6
<1>3. CASE OpenFilter
  <2>1. /\ pc' = "filter" /\ command' = "FILTER" /\ dump' = requests' /\ pos' = 0
        /\ bytes' = log_end' /\ tmp' = <<>> /\ log' = log /\ log_end' \in log_end..Len(log)
    BY <1>3 DEF OpenFilter, Take, Opened
  <2>2. Select(Start(log, 0), Keep(log, 0)) = <<>> /\ AtStart(log, 0)
    <3>1. 0 \in 0..Len(log)
      BY <1>1
    <3> QED
      BY <1>1, <3>1, KeepType DEF AtStart
  <2>3. log_end' <= pos' + bytes'
    <3>1. PICK n \in Nat : n = log_end'
      BY <1>1, <2>1
    <3>2. bytes' = n /\ pos' = 0
      BY <2>1, <3>1
    <3>3. n <= 0 + n
      OBVIOUS
    <3> QED
      BY <3>1, <3>2, <3>3
  <2> QED
    BY <2>1, <2>2, <2>3 DEF FilterInv, FilterStartsWithLines, Made
<1>4. CASE FilterEnds
  <2>1. /\ pc = "filter" /\ pos = Len(log) /\ pc' = "commit"
        /\ UNCHANGED <<log, log_end, tmp>>
    BY <1>4 DEF FilterEnds, requestVars
  <2>2. AtStart(log, pos) /\ tmp = Select(Start(log, pos), Keep(log, pos))
    BY <2>1 DEF FilterInv
  <2>3. (pos + 1)..log_end = {}
    BY <1>1, <2>1
  <2>4. Begins(tmp, RangeFiltered)
    BY <1>1, <2>2, <2>3, Found
  <2>5. RangeFiltered' = RangeFiltered
    BY <2>1, RangeStays
  <2> QED
    BY <2>1, <2>4, <2>5 DEF FilterInv, FilterStartsWithLines
<1>5. CASE Filter
  <2>1. /\ pc = "filter" /\ pos < Len(log)
        /\ UNCHANGED <<log, requests, command, log_end, dump>>
        /\ tmp' = IF Matching THEN tmp \o Append(Line, LineFeed) ELSE tmp
        /\ pc' = IF bytes' = 0 \/ LineEnd > Len(log) THEN "commit" ELSE pc
    BY <1>5 DEF Filter, FilterLine, requestVars
  <2>2. /\ command = "FILTER" /\ dump = requests /\ AtStart(log, pos)
        /\ tmp = Select(Start(log, pos), Keep(log, pos))
    BY <2>1 DEF FilterInv
  <2>3. RangeFiltered' = RangeFiltered
    BY <2>1, RangeStays
  <2>4. /\ LineEnd \in (pos + 1)..(Len(log) + 1)
        /\ \A e \in (pos + 1)..(LineEnd - 1) : log[e] # "eol"
        /\ Append(Line, LineFeed) \in Seq(Cells)
    BY LineEndIs
  <2>5. CASE LineEnd <= Len(log)
    <3>1. /\ pos' = LineEnd /\ AtStart(log, LineEnd) /\ log_end <= pos' + bytes'
          /\ tmp' = Select(Start(log, LineEnd), Keep(log, LineEnd))
          /\ pc' = IF bytes' = 0 THEN "commit" ELSE "filter"
      BY <1>5, <2>5, WholeLine
    <3>2. CASE bytes' = 0
      <4>1. LineEnd \in 0..Len(log)
        BY <1>1, <2>4, <2>5
      <4>2. (LineEnd + 1)..log_end = {}
        <5>1. PICK n \in Nat : n = LineEnd
          BY <4>1
        <5>2. log_end <= n + 0
          BY <3>1, <3>2, <5>1
        <5>3. (n + 1)..log_end = {}
          BY <1>1, <5>2
        <5> QED
          BY <5>1, <5>3
      <4>3. Begins(tmp', RangeFiltered)
        BY <3>1, <4>1, <4>2, Found
      <4> QED
        BY <2>3, <3>1, <3>2, <4>3 DEF FilterInv, FilterStartsWithLines
    <3>3. CASE bytes' # 0
      <4>1. pc' = "filter" /\ FilterInv'
        BY <2>1, <2>2, <3>1, <3>3 DEF FilterInv
      <4> QED
        BY <4>1 DEF FilterStartsWithLines, Made
    <3> QED
      BY <3>2, <3>3
  <2>6. CASE ~(LineEnd <= Len(log))
    <3>1. LineEnd > Len(log) /\ \A e \in (pos + 1)..log_end : e \in (pos + 1)..(LineEnd - 1)
      BY <1>1, <2>4, <2>6
    <3>2. pc' = "commit"
      BY <2>1, <3>1
    <3>3. Begins(tmp', RangeFiltered)
      <4>1. \A e \in (pos + 1)..log_end : log[e] # "eol"
        BY <2>4, <3>1
      <4>2. /\ Begins(tmp, RangeFiltered)
            /\ \A s \in Seq(Cells) : Begins(tmp \o s, RangeFiltered)
        BY <1>1, <2>2, <4>1, Found
      <4> QED
        BY <2>1, <2>4, <4>2
    <3> QED
      BY <2>3, <3>2, <3>3 DEF FilterInv, FilterStartsWithLines
  <2> QED
    BY <2>5, <2>6
<1>6. CASE Refuse
  <2>1. pc' = "commit" /\ command' = "ALL"
    BY <1>6 DEF Refuse, Take
  <2> QED
    BY <2>1 DEF FilterInv, FilterStartsWithLines, Made
<1>7. CASE OpenDump \/ Dump \/ Compress \/ Copy \/ CommitMessage
  <2>1. pc' \in {"dump", "copy", "loop"}
    BY <1>7 DEF OpenDump, Opened, Dump, DumpChunk, Compress, Copy, CommitMessage, Announce
  <2> QED
    BY <2>1 DEF FilterInv, FilterStartsWithLines, Made
<1>8. CASE DumpEnds
  <2>1. pc = "dump" /\ pc' = "commit" /\ command' = command
    BY <1>8 DEF DumpEnds, requestVars
  <2>2. command = "ALL"
    BY <2>1 DEF DumpInv
  <2> QED
    BY <2>1, <2>2 DEF FilterInv, FilterStartsWithLines, Made
<1> QED
  BY <1>2, <1>3, <1>4, <1>5, <1>6, <1>7, <1>8 DEF Next
-----------------------------------------------------------------------------
(* The theorems. *)

(* The invariant holds at first. *)
LEMMA ResponseInit == Init => IInv
<1> SUFFICES ASSUME Init PROVE IInv
  OBVIOUS
<1>1. /\ log = <<>> /\ pc = "loop" /\ requests = 0 /\ command = "ALL" /\ log_end = 0
      /\ pos = 0 /\ bytes = 0 /\ tmpbuf = [i \in Buffer |-> Nul] /\ tmp = <<>> /\ dump = 0
      /\ gz = <<>> /\ readbuf = [i \in Buffer |-> Zero] /\ byte_count = 0
      /\ resp = [i \in Slots |-> Zero] /\ ready = 0
  BY DEF Init
<1>2. Nul \in Cells /\ Zero \in ZipCells /\ 0 \in 0..Max(ZipSizes) /\ 0 \in 0..MaxRequests
      /\ 0 <= Max(ZipSizes) /\ 0 <= MaxLog
  <2>1. 0 \in 0..MaxLog /\ 0 \in 0..MaxRequests /\ 0 \in 0..Max(ZipSizes)
        /\ 0 <= Max(ZipSizes) /\ 0 <= MaxLog
    BY Bounds, ResponseAssumption
  <2> QED
    BY <2>1 DEF Nul, Zero, Cells, ZipCells, Kinds
<1>3. Len(<<>>) = 0 /\ <<>> \in Seq(Kinds) /\ <<>> \in Seq(Cells) /\ <<>> \in Seq(ZipCells)
      /\ 0 \in 0..0
  BY EmptySeq
<1>4. /\ [i \in Buffer |-> Nul] \in [Buffer -> Cells]
      /\ [i \in Buffer |-> Zero] \in [Buffer -> ZipCells]
      /\ [i \in Slots |-> Zero] \in [Slots -> ZipCells]
  BY <1>2
<1>5. TypeOK
  BY <1>1, <1>2, <1>3, <1>4 DEF TypeOK
<1>6. AnnouncedIsWhole /\ CopyInv
  <2>1. SubSeq(resp, 1, 0) = <<>>
    BY SubSeqEmpty
  <2> QED
    BY <1>1, <1>2, <1>3, <2>1 DEF AnnouncedIsWhole, CopyInv
<1> QED
  BY <1>1, <1>5, <1>6 DEF IInv, DumpInv, FilterInv, DumpHoldsRange, FilterStartsWithLines, Made

(* Every step keeps the invariant. *)
LEMMA ResponseStep == IInv /\ [Next]_vars => IInv'
<1> SUFFICES ASSUME IInv, [Next]_vars PROVE IInv'
  OBVIOUS
<1>1. TypeOK'
  BY TypeStep DEF IInv, CopyInv
<1>2. CopyInv' /\ AnnouncedIsWhole'
  BY CopyStep DEF IInv
<1>3. DumpInv' /\ DumpHoldsRange'
  BY DumpStep DEF IInv
<1>4. FilterInv' /\ FilterStartsWithLines'
  BY FilterStep DEF IInv
<1> QED
  BY <1>1, <1>2, <1>3, <1>4 DEF IInv

(* What is said of the dump, the filter and the copy holds in every state.  *)
THEOREM ResponseInvariance == Spec => []IInv
  BY ResponseInit, ResponseStep, PTL DEF Spec

(* Every variable keeps its type: the count of what is left is never below 0. *)
THEOREM TypeCorrect == Spec => []TypeOK
<1>1. IInv => TypeOK
  BY DEF IInv
<1> QED
  BY <1>1, ResponseInvariance, PTL

(* A dump begins with all of the range but its null characters, for every   *)
(* size of the chunks and however the log grows meanwhile (dump_log).       *)
THEOREM DumpBeginsWithRange == Spec => []DumpHoldsRange
<1>1. IInv => DumpHoldsRange
  BY DEF IInv
<1> QED
  BY <1>1, ResponseInvariance, PTL

(* A filtered answer begins with every matching line that ends in the range *)
(* (filter_and_dump_log).                                                   *)
THEOREM FilterBeginsWithLines == Spec => []FilterStartsWithLines
<1>1. IInv => FilterStartsWithLines
  BY DEF IInv
<1> QED
  BY <1>1, ResponseInvariance, PTL

(* What READY announces is one whole compressed file (commit_response).     *)
THEOREM AnnouncedWhole == Spec => []AnnouncedIsWhole
<1>1. IInv => AnnouncedIsWhole
  BY DEF IInv
<1> QED
  BY <1>1, ResponseInvariance, PTL
=============================================================================
