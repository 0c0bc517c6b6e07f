--------------------------- MODULE RetrievalProofs ---------------------------
(* Proofs about the retrieval of the log, for every size an answer may have, *)
(* every base and every log.                                                *)
EXTENDS RetrievalProperties, SequenceTheorems, FiniteSetTheorems, TLAPS

(* Induction over the naturals, from the pigeonhole principle: below an n   *)
(* that is not in T, adding one would lead from T's numbers to all of them  *)
(* but 0.                                                                   *)
LEMMA Induction ==
    ASSUME NEW T, 0 \in T, \A n \in Nat : n \in T => n + 1 \in T
    PROVE  Nat \subseteq T
<1> SUFFICES ASSUME NEW n \in Nat, n \notin T PROVE FALSE
  OBVIOUS
<1> DEFINE A == {k \in 0..n : k \in T}
           up == [k \in A |-> k + 1]
<1>1. IsFiniteSet(A) /\ 0 \in A
  <2>1. IsFiniteSet(0..n) /\ A \in SUBSET (0..n) /\ 0 \in 0..n
    BY FS_Interval
  <2> QED
    BY <2>1, FS_Subset
<1>2. /\ IsFiniteSet(A \ {0}) /\ Cardinality(A \ {0}) = Cardinality(A) - 1
      /\ Cardinality(A) \in Nat
  BY <1>1, FS_RemoveElement, FS_CardinalityType
<1>3. \A k \in A : k \in Nat /\ k + 1 \in A \ {0}
  <2> SUFFICES ASSUME NEW k \in A PROVE k \in Nat /\ k + 1 \in A \ {0}
    OBVIOUS
  <2>1. k \in 0..n /\ k \in T /\ k # n
    OBVIOUS
  <2> QED
    BY <2>1
<1>4. up \in [A -> A \ {0}]
  BY <1>3
<1>5. PICK x \in A, y \in A : x # y /\ up[x] = up[y]
  <2>1. Cardinality(A \ {0}) < Cardinality(A)
    BY <1>2
  <2> HIDE DEF A, up
  <2> QED
    BY <1>1, <1>2, <1>4, <2>1, FS_PigeonHole
<1> QED
  BY <1>3, <1>5

-----------------------------------------------------------------------------
(* Numbers and their digits. *)

Digit == 0..(Base - 1)

(* There are the digits 0 and 1 at least. *)
LEMMA BaseIs == Base \in Nat /\ Base > 1 /\ 0 \in Digit /\ Base - 1 \in Digit
BY RetrievalAssumption DEF Digit

(* Multiplying by the base keeps the order. *)
LEMMA TimesGrows ==
    ASSUME NEW a \in Nat, NEW b \in Nat, a <= b
    PROVE  Base * a \in Nat /\ Base * b \in Nat /\ Base * a <= Base * b
<1>1. PICK c \in Nat : b = a + c
  <2>1. b - a \in Nat /\ b = a + (b - a)
    OBVIOUS
  <2> QED
    BY <2>1
<1>2. Base * b = Base * a + Base * c
  BY <1>1, BaseIs
<1>3. Base * a \in Nat /\ Base * c \in Nat
  BY BaseIs
<1> QED
  BY <1>2, <1>3

(* f says what the digits denote up to each of them. *)
Runs(f, d) == f[0] = 0 /\ \A i \in 1..Len(d) : f[i] = Base * f[i - 1] + d[i]

(* Value is what such a reading ends with. *)
LEMMA ValueIs ==
    ASSUME NEW d \in Seq(Digit), NEW f, Runs(f, d)
    PROVE  Value(d) = f[Len(d)]
<1> DEFINE n == Len(d)
           Loop(g) == [i \in 0..n |-> IF i = 0 THEN 0 ELSE Base * g[i - 1] + d[i]]
           u == CHOOSE g : g = Loop(g)
           h == [i \in 0..n |-> f[i]]
<1>1. n \in Nat
  BY LenProperties
<1>2. h = Loop(h)
  <2>1. \A i \in 0..n : h[i] = f[i]
    OBVIOUS
  <2>2. \A i \in 0..n : i # 0 => i \in 1..n /\ i - 1 \in 0..n
    BY <1>1
  <2>3. \A i \in 0..n : f[i] = IF i = 0 THEN 0 ELSE Base * h[i - 1] + d[i]
    BY <2>1, <2>2 DEF Runs
  <2> QED
    BY <2>3
<1>3. u = Loop(u)
  BY <1>2
<1>4. u[0] = 0 /\ \A i \in 1..n : u[i] = Base * u[i - 1] + d[i]
  <2>1. \A i \in 0..n : u[i] = IF i = 0 THEN 0 ELSE Base * u[i - 1] + d[i]
    BY <1>3
  <2>2. 0 \in 0..n /\ \A i \in 1..n : i \in 0..n /\ i # 0
    BY <1>1
  <2> HIDE DEF u, Loop, h
  <2> QED
    BY <2>1, <2>2
<1>5. Value(d) = u[n]
  BY DEF Value
<1> HIDE DEF u, Loop, h, n
<1> DEFINE T == {i \in Nat : i <= n => u[i] = f[i]}
<1>6. Nat \subseteq T
  <2>1. 0 \in T
    BY <1>4 DEF Runs
  <2>2. ASSUME NEW i \in Nat, i \in T PROVE i + 1 \in T
    <3> SUFFICES ASSUME i + 1 <= n PROVE u[i + 1] = f[i + 1]
      OBVIOUS
    <3>1. u[i] = f[i] /\ i + 1 \in 1..n /\ (i + 1) - 1 = i
      BY <1>1, <2>2
    <3> QED
      BY <1>4, <3>1 DEF Runs, n
  <2> HIDE DEF T
  <2> QED
    BY <2>1, <2>2, Induction
<1> QED
  BY <1>1, <1>5, <1>6 DEF n

(* There is one. *)
LEMMA ValueRuns ==
    ASSUME NEW d \in Seq(Digit)
    PROVE  \E f \in [0..Len(d) -> Nat] : Runs(f, d) /\ Value(d) = f[Len(d)]
<1> DEFINE n == Len(d)
           Step(f, i) == f[i] = Base * f[i - 1] + d[i]
           P(k) == \E f \in [0..k -> Nat] : f[0] = 0 /\ \A i \in 1..k : Step(f, i)
           T == {m \in Nat : m <= n => P(m)}
<1>1. n \in Nat /\ \A i \in 1..n : d[i] \in Digit
  BY LenProperties, ElementOfSeq
<1>2. Nat \subseteq T
  <2>1. 0 \in T
    <3>1. [i \in 0..0 |-> 0] \in [0..0 -> Nat] /\ 0 \in 0..0 /\ 1..0 = {}
      OBVIOUS
    <3> QED
      BY <3>1
  <2>2. ASSUME NEW m \in Nat, m \in T PROVE m + 1 \in T
    <3> SUFFICES ASSUME m + 1 <= n PROVE P(m + 1)
      <4> HIDE DEF P
      <4> QED
        OBVIOUS
    <3>1. m <= n /\ m + 1 \in 1..n
      BY <1>1
    <3>2. PICK f \in [0..m -> Nat] : f[0] = 0 /\ \A i \in 1..m : Step(f, i)
      BY <2>2, <3>1
    <3> DEFINE x == Base * f[m] + d[m + 1]
               g == [i \in 0..(m + 1) |-> IF i <= m THEN f[i] ELSE x]
    <3>3. x \in Nat
      <4>1. Base * f[m] \in Nat
        <5>1. f[m] \in Nat
          BY <3>2
        <5> QED
          BY <5>1, TimesGrows
      <4>2. d[m + 1] \in Nat
        BY <1>1, <3>1 DEF Digit
      <4> HIDE DEF Step
      <4>3. \A a, b \in Nat : a + b \in Nat
        OBVIOUS
      <4> QED
        BY <4>1, <4>2, <4>3
    <3> HIDE DEF x
    <3>5. \A i \in 0..(m + 1) : (i \in 0..m /\ i <= m) \/ (i = m + 1 /\ ~(i <= m))
      OBVIOUS
    <3>6. g \in [0..(m + 1) -> Nat]
      BY <3>2, <3>3, <3>5
    <3>7. \A i \in 0..m : g[i] = f[i]
      OBVIOUS
    <3>8. g[m + 1] = x
      OBVIOUS
    <3> HIDE DEF g
    <3>9. g[0] = 0 /\ \A i \in 1..(m + 1) : Step(g, i)
      <4>1. g[0] = 0
        BY <3>2, <3>7
      <4>2. ASSUME NEW i \in 1..m PROVE Step(g, i)
        <5>1. i \in 0..m /\ i - 1 \in 0..m
          OBVIOUS
        <5> QED
          BY <3>2, <3>7, <5>1
      <4>3. Step(g, m + 1)
        <5>1. (m + 1) - 1 = m /\ g[m] = f[m]
          BY <3>7
        <5> QED
          BY <3>8, <5>1 DEF x
      <4>4. \A i \in 1..(m + 1) : i \in 1..m \/ i = m + 1
        OBVIOUS
      <4> HIDE DEF Step
      <4> QED
        BY <4>1, <4>2, <4>3, <4>4
    <3> QED
      BY <3>6, <3>9
  <2> HIDE DEF T
  <2> QED
    BY <2>1, <2>2, Induction
<1>3. PICK f \in [0..n -> Nat] : f[0] = 0 /\ \A i \in 1..n : Step(f, i)
  <2>1. P(n)
    <3> HIDE DEF P
    <3> QED
      BY <1>1, <1>2
  <2> QED
    BY <2>1
<1>4. Runs(f, d)
  BY <1>3 DEF Runs
<1> QED
  BY <1>3, <1>4, ValueIs

(* Another digit multiplies by the base and adds. *)
LEMMA ValueAppend ==
    ASSUME NEW d \in Seq(Digit), NEW x \in Digit
    PROVE  /\ Append(d, x) \in Seq(Digit) /\ Len(Append(d, x)) = Len(d) + 1
           /\ Value(d) \in Nat
           /\ Value(Append(d, x)) = Base * Value(d) + x
<1> DEFINE e == Append(d, x)
           n == Len(d)
<1>1. /\ e \in Seq(Digit) /\ Len(e) = n + 1 /\ n \in Nat
      /\ e[n + 1] = x /\ \A i \in 1..n : e[i] = d[i]
  BY AppendProperties, LenProperties
<1>2. PICK f \in [0..n -> Nat] : Runs(f, d) /\ Value(d) = f[n]
  BY ValueRuns
<1> HIDE DEF e, n
<1> DEFINE y == Base * f[n] + x
           g == [i \in 0..(n + 1) |-> IF i <= n THEN f[i] ELSE y]
<1>3. (\A i \in 0..n : g[i] = f[i]) /\ g[n + 1] = y
  <2> HIDE DEF y
  <2>1. \A i \in 0..n : i \in 0..(n + 1) /\ i <= n
    BY <1>1
  <2>2. n + 1 \in 0..(n + 1) /\ ~(n + 1 <= n)
    BY <1>1
  <2> QED
    BY <2>1, <2>2
<1> HIDE DEF g
<1>4. Runs(g, e)
  <2>1. g[0] = 0
    BY <1>1, <1>2, <1>3 DEF Runs
  <2>2. ASSUME NEW i \in 1..(n + 1) PROVE g[i] = Base * g[i - 1] + e[i]
    <3>1. CASE i \in 1..n
      <4>1. i \in 0..n /\ i - 1 \in 0..n
        BY <1>1, <3>1
      <4> QED
        BY <1>1, <1>2, <1>3, <3>1, <4>1 DEF Runs, n
    <3>2. CASE i = n + 1
      <4>1. i - 1 = n /\ n \in 0..n
        BY <1>1, <3>2
      <4> QED
        BY <1>1, <1>3, <3>2, <4>1
    <3> QED
      BY <1>1, <3>1, <3>2
  <2> QED
    BY <1>1, <2>1, <2>2 DEF Runs
<1>5. Value(e) = g[n + 1]
  BY <1>1, <1>4, ValueIs
<1>6. f[n] \in Nat
  BY <1>1, <1>2
<1> QED
  BY <1>1, <1>2, <1>3, <1>5, <1>6 DEF e, n

(* No digit denotes 0. *)
LEMMA ValueEmpty == <<>> \in Seq(Digit) /\ Len(<<>>) = 0 /\ Value(<<>>) = 0
<1>1. <<>> \in Seq(Digit) /\ Len(<<>>) = 0
  OBVIOUS
<1> DEFINE f == [i \in {0} |-> 0]
<1>2. f[0] = 0 /\ 1..0 = {}
  OBVIOUS
<1> HIDE DEF f
<1>3. Runs(f, <<>>)
  BY <1>1, <1>2 DEF Runs
<1> QED
  BY <1>1, <1>2, <1>3, ValueIs

(* What holds of no digit, and of more digits when it holds of fewer, holds *)
(* of all.                                                                  *)
LEMMA DigitInduction ==
    ASSUME NEW T, <<>> \in T,
           \A d \in Seq(Digit), x \in Digit : d \in T => Append(d, x) \in T
    PROVE  Seq(Digit) \subseteq T
<1> DEFINE U == {n \in Nat : \A d \in Seq(Digit) : Len(d) = n => d \in T}
<1>1. 0 \in U
  <2>1. \A d \in Seq(Digit) : Len(d) = 0 => d = <<>>
    BY EmptySeq
  <2> QED
    BY <2>1
<1>2. ASSUME NEW n \in Nat, n \in U PROVE n + 1 \in U
  <2>1. ASSUME NEW d \in Seq(Digit), Len(d) = n + 1 PROVE d \in T
    <3>1. d # <<>>
      BY <2>1, EmptySeq
    <3>2. PICK e \in Seq(Digit), x \in Digit : d = Append(e, x)
      BY <3>1, SequenceEmptyOrAppend
    <3>3. Len(e) \in Nat /\ Len(d) = Len(e) + 1
      BY <3>2, AppendProperties, LenProperties
    <3>4. Len(e) = n
      BY <2>1, <3>3
    <3> QED
      BY <1>2, <3>2, <3>4
  <2> QED
    BY <2>1
<1> HIDE DEF U
<1>3. Nat \subseteq U
  BY <1>1, <1>2, Induction
<1> QED
  BY <1>3, LenProperties DEF U

(* The greatest number of n digits. *)
Nines(n) == [i \in 1..n |-> Base - 1]
Top(n) == Value(Nines(n))

(* They are digits. *)
LEMMA NinesIs ==
    ASSUME NEW n \in Nat
    PROVE  /\ Nines(n) \in Seq(Digit) /\ Len(Nines(n)) = n
           /\ \A i \in 1..n : Nines(n)[i] = Base - 1
<1> DEFINE x == Base - 1
           s == [i \in 1..n |-> x]
<1>1. x \in Digit
  BY BaseIs
<1> HIDE DEF x
<1>2. s \in Seq(Digit) /\ Len(s) = n
  BY <1>1
<1> QED
  BY <1>2 DEF Nines, x

(* One more digit allows for the base times as many numbers. *)
LEMMA TopNext ==
    /\ Top(0) = 0
    /\ \A n \in Nat : Top(n) \in Nat /\ Top(n + 1) = Base * Top(n) + (Base - 1)
<1>1. Top(0) = 0
  <2>1. Nines(0) = <<>>
    BY NinesIs, EmptySeq
  <2> QED
    BY <2>1, ValueEmpty DEF Top
<1>2. ASSUME NEW n \in Nat
      PROVE  Top(n) \in Nat /\ Top(n + 1) = Base * Top(n) + (Base - 1)
  <2> DEFINE s == Nines(n)
             t == Nines(n + 1)
             u == Append(s, Base - 1)
  <2>1. /\ s \in Seq(Digit) /\ Len(s) = n /\ \A i \in 1..n : s[i] = Base - 1
        /\ t \in Seq(Digit) /\ Len(t) = n + 1 /\ \A i \in 1..(n + 1) : t[i] = Base - 1
    <3>1. n + 1 \in Nat
      OBVIOUS
    <3> QED
      BY <3>1, NinesIs
  <2> HIDE DEF s, t
  <2>2. /\ u \in Seq(Digit) /\ Len(u) = n + 1 /\ u[n + 1] = Base - 1
        /\ \A i \in 1..n : u[i] = s[i]
    BY <2>1, BaseIs, AppendProperties
  <2> HIDE DEF u
  <2>3. \A i \in 1..(n + 1) : u[i] = t[i]
    <3>1. \A i \in 1..(n + 1) : i \in 1..n \/ i = n + 1
      OBVIOUS
    <3> QED
      BY <2>1, <2>2, <3>1
  <2>4. u = t
    BY <2>1, <2>2, <2>3, SeqEqual
  <2>5. Value(s) \in Nat /\ Value(Append(s, Base - 1)) = Base * Value(s) + (Base - 1)
    BY <2>1, BaseIs, ValueAppend
  <2> QED
    BY <2>4, <2>5 DEF s, t, u, Top
<1> QED
  BY <1>1, <1>2

(* So more digits allow for no fewer. *)
LEMMA TopGrows == \A m, n \in Nat : m <= n => Top(m) <= Top(n)
<1> SUFFICES ASSUME NEW m \in Nat PROVE \A n \in Nat : m <= n => Top(m) <= Top(n)
  OBVIOUS
<1> DEFINE T == {n \in Nat : m <= n => Top(m) <= Top(n)}
<1>1. 0 \in T
  BY TopNext
<1>2. ASSUME NEW n \in Nat, n \in T PROVE n + 1 \in T
  <2>1. Top(n) \in Nat /\ Top(m) \in Nat /\ Top(n + 1) = Base * Top(n) + (Base - 1)
    BY TopNext
  <2>2. Top(n) <= Base * Top(n)
    <3> DEFINE a == Top(n)
    <3> HIDE DEF a
    <3>1. ASSUME NEW k \in Nat PROVE k <= Base * k
      BY BaseIs
    <3> QED
      BY <2>1, <3>1
  <2>3. Top(n) <= Top(n + 1) /\ Top(n + 1) \in Nat
    <3> DEFINE a == Top(n)
               b == Base * a
    <3>1. b \in Nat
      BY <2>1, BaseIs
    <3> HIDE DEF a, b
    <3> QED
      BY <2>1, <2>2, <3>1, BaseIs DEF a, b
  <2>4. CASE m <= n
    BY <1>2, <2>1, <2>3, <2>4
  <2>5. CASE m = n + 1
    BY <2>1, <2>3, <2>5
  <2>6. m <= n + 1 => m <= n \/ m = n + 1
    OBVIOUS
  <2>7. m <= n + 1 => Top(m) <= Top(n + 1)
    BY <2>4, <2>5, <2>6, <1>2, <2>1, <2>3
  <2> QED
    BY <2>7
<1> HIDE DEF T
<1>3. Nat \subseteq T
  BY <1>1, <1>2, Induction
<1> QED
  BY <1>3 DEF T

(* n digits denote a number of at most n digits, and, when the first is not *)
(* 0, one that fewer do not denote.                                         *)
LEMMA ValueBounds ==
    ASSUME NEW d \in Seq(Digit)
    PROVE  /\ Value(d) \in Nat /\ Value(d) <= Top(Len(d))
           /\ Len(d) > 0 /\ d[1] # 0 => Value(d) > Top(Len(d) - 1)
<1> DEFINE Low(e) == Value(e) \in Nat /\ Value(e) <= Top(Len(e))
           High(e) == Len(e) > 0 /\ e[1] # 0 => Value(e) > Top(Len(e) - 1)
           T == {e \in Seq(Digit) : Low(e) /\ High(e)}
<1>1. <<>> \in T
  BY ValueEmpty, TopNext
<1>2. ASSUME NEW e \in Seq(Digit), NEW x \in Digit, e \in T PROVE Append(e, x) \in T
  <2> DEFINE n == Len(e)
             v == Value(e)
             t == Top(n)
             c == Append(e, x)
  <2>1. /\ n \in Nat /\ v \in Nat /\ v <= t /\ c \in Seq(Digit) /\ Len(c) = n + 1
        /\ Value(c) = Base * v + x /\ t \in Nat /\ Top(n + 1) = Base * t + (Base - 1)
    BY <1>2, ValueAppend, LenProperties, TopNext
  <2>2. High(e)
    BY <1>2
  <2>3. (n > 0 => c[1] = e[1]) /\ (n = 0 => c[1] = x)
    <3>1. n > 0 => 1 \in 1..n
      BY <2>1
    <3> QED
      BY <2>1, <3>1, AppendProperties
  <2>4. x \in Nat /\ x <= Base - 1 /\ Base \in Nat
    BY BaseIs DEF Digit
  <2>5. Low(c)
    <3>1. Base * v \in Nat /\ Base * t \in Nat /\ Base * v <= Base * t
      BY <2>1, TimesGrows
    <3> DEFINE p == Base * v
               q == Base * t
    <3>2. p \in Nat /\ q \in Nat /\ p <= q /\ Value(c) = p + x /\ Top(Len(c)) = q + (Base - 1)
      BY <2>1, <3>1
    <3> HIDE DEF p, q, c, v, t
    <3> QED
      BY <2>4, <3>2
  <2>6. High(c)
    <3> SUFFICES ASSUME c[1] # 0 PROVE Value(c) > Top(n)
      BY <2>1
    <3>1. CASE n = 0
      <4>1. Top(n) = 0 /\ x # 0
        BY <2>3, <3>1, TopNext
      <4>2. Base * v \in Nat
        BY <2>1, <2>4
      <4> DEFINE p == Base * v
      <4>3. p \in Nat /\ Value(c) = p + x
        BY <2>1, <4>2
      <4> HIDE DEF p, c, v
      <4> QED
        BY <2>4, <4>1, <4>3
    <3>2. CASE n > 0
      <4>1. n - 1 \in Nat /\ (n - 1) + 1 = n
        BY <2>1, <3>2
      <4> DEFINE s == Top(n - 1)
      <4>2. s \in Nat /\ Top(n) = Base * s + (Base - 1) /\ v > s
        BY <2>2, <2>3, <3>2, <4>1, TopNext
      <4>3. Base * (s + 1) \in Nat /\ Base * v \in Nat /\ Base * (s + 1) <= Base * v
        <5> HIDE DEF s, v
        <5>1. s + 1 \in Nat /\ s + 1 <= v
          BY <2>1, <4>2
        <5> QED
          BY <2>1, <5>1, TimesGrows
      <4>4. Base * (s + 1) = Base * s + Base
        BY <2>4, <4>2
      <4> DEFINE p == Base * v
                 q == Base * s
                 u == Base * (s + 1)
      <4>5. p \in Nat /\ Value(c) = p + x /\ u \in Nat /\ u <= p /\ u = q + Base
        BY <2>1, <4>3, <4>4
      <4>6. q \in Nat /\ Top(n) = q + (Base - 1)
        BY <2>4, <4>2
      <4> HIDE DEF p, q, u, c, v, s
      <4> QED
        BY <2>4, <4>5, <4>6
    <3> QED
      BY <2>1, <3>1, <3>2
  <2> HIDE DEF Low, High
  <2> QED
    BY <2>1, <2>5, <2>6
<1> HIDE DEF T
<1>3. d \in T
  BY <1>1, <1>2, DigitInduction
<1> QED
  BY <1>3 DEF T

(* Division by the base. *)
LEMMA Divides ==
    ASSUME NEW n \in Nat
    PROVE  \E q \in Nat, r \in Digit : n = Base * q + r /\ (n > 0 => q < n)
<1> DEFINE P(m) == \E q \in Nat, r \in Digit : m = Base * q + r
           T == {m \in Nat : P(m)}
<1>1. 0 \in T
  <2>1. 0 = Base * 0 + 0
    BY BaseIs
  <2> QED
    BY <2>1, BaseIs
<1>2. ASSUME NEW m \in Nat, m \in T PROVE m + 1 \in T
  <2>1. PICK q \in Nat, r \in Digit : m = Base * q + r
    BY <1>2
  <2>2. Base * q \in Nat /\ r \in Nat /\ r <= Base - 1
    BY BaseIs DEF Digit
  <2>3. CASE r < Base - 1
    <3>1. r + 1 \in Digit
      BY <2>2, <2>3, BaseIs DEF Digit
    <3>2. m + 1 = Base * q + (r + 1)
      BY <2>1, <2>2
    <3>3. P(m + 1)
      BY <3>1, <3>2
    <3> QED
      BY <3>3
  <2>4. CASE r = Base - 1
    <3>1. Base * (q + 1) = Base * q + Base
      BY BaseIs
    <3>2. m + 1 = Base * (q + 1) + 0 /\ q + 1 \in Nat
      BY <2>1, <2>2, <2>4, <3>1, BaseIs
    <3>3. P(m + 1)
      BY <3>2, BaseIs
    <3> QED
      BY <3>3
  <2> QED
    BY <2>2, <2>3, <2>4, BaseIs
<1> HIDE DEF T
<1>3. n \in T
  BY <1>1, <1>2, Induction
<1>4. PICK q \in Nat, r \in Digit : n = Base * q + r
  BY <1>3 DEF T
<1>5. n > 0 => q < n
  <2>1. q > 0 => Base * q > q
    BY BaseIs
  <2>2. Base * q \in Nat /\ r \in Nat
    BY BaseIs DEF Digit
  <2>3. q = 0 => q < n \/ ~(n > 0)
    OBVIOUS
  <2> QED
    BY <1>4, <2>1, <2>2, <2>3
<1> QED
  BY <1>4, <1>5

(* The digits of n: no 0 leads them but that of 0 itself. *)
Denote(d, n) ==
    /\ d \in Seq(Digit) /\ Len(d) \in 1..(n + 1)
    /\ Value(d) = n /\ (d[1] = 0 => n = 0 /\ Len(d) = 1)

(* Every number has its digits. *)
LEMMA HasDigits == \A n \in Nat : \E d : Denote(d, n)
<1> DEFINE P(n) == \E d : Denote(d, n)
           T == {n \in Nat : \A m \in 0..n : P(m)}
<1>1. ASSUME NEW x \in Digit, NEW n \in Nat, x <= n
      PROVE  /\ Append(<<>>, x) \in Seq(Digit) /\ Len(Append(<<>>, x)) = 1
             /\ Value(Append(<<>>, x)) = x /\ Append(<<>>, x)[1] = x
  <2> DEFINE c == Append(<<>>, x)
  <2>1. c \in Seq(Digit) /\ Len(c) = 0 + 1 /\ Value(c) = Base * 0 + x
    BY ValueEmpty, ValueAppend
  <2>2. c[0 + 1] = x
    BY ValueEmpty, AppendProperties
  <2>3. Base * 0 + x = x
    BY BaseIs DEF Digit
  <2> QED
    BY <2>1, <2>2, <2>3
<1>2. P(0)
  <2> DEFINE c == Append(<<>>, 0)
  <2>1. c \in Seq(Digit) /\ Len(c) = 1 /\ Value(c) = 0
    BY <1>1, BaseIs
  <2> HIDE DEF c
  <2>2. Denote(c, 0)
    BY <2>1 DEF Denote
  <2> QED
    BY <2>2
<1>3. ASSUME NEW n \in Nat, n \in T PROVE P(n + 1)
  <2>1. PICK q \in Nat, r \in Digit : n + 1 = Base * q + r /\ (n + 1 > 0 => q < n + 1)
    BY Divides
  <2>2. q \in 0..n /\ r \in Nat /\ Base * q \in Nat
    BY <2>1, BaseIs DEF Digit
  <2>3. CASE q = 0
    <3>1. r = n + 1
      BY <2>1, <2>2, <2>3, BaseIs
    <3> DEFINE c == Append(<<>>, r)
    <3>2. c \in Seq(Digit) /\ Len(c) = 1 /\ Value(c) = r /\ c[1] = r
      BY <1>1, <3>1
    <3> HIDE DEF c
    <3>3. Denote(c, n + 1)
      BY <3>1, <3>2 DEF Denote
    <3> QED
      BY <3>3
  <2>4. CASE q # 0
    <3>1. PICK e : Denote(e, q)
      BY <1>3, <2>2
    <3> DEFINE c == Append(e, r)
    <3>2. e \in Seq(Digit) /\ Len(e) \in 1..(q + 1) /\ Value(e) = q /\ e[1] # 0
      BY <2>4, <3>1 DEF Denote
    <3>3. c \in Seq(Digit) /\ Len(c) = Len(e) + 1 /\ Value(c) = n + 1
      BY <2>1, <3>2, ValueAppend
    <3>4. 1 \in 1..Len(e)
      BY <3>2
    <3>5. c[1] = e[1]
      BY <3>2, <3>4, AppendProperties
    <3>6. Len(c) \in 1..((n + 1) + 1)
      <4> HIDE DEF c
      <4> QED
        BY <2>2, <3>2, <3>3
    <3> HIDE DEF c
    <3>7. Denote(c, n + 1)
      BY <3>2, <3>3, <3>5, <3>6 DEF Denote
    <3> QED
      BY <3>7
  <2> QED
    BY <2>3, <2>4
<1>4. Nat \subseteq T
  <2>1. 0 \in T
    <3>1. \A m \in 0..0 : m = 0
      OBVIOUS
    <3> HIDE DEF P
    <3> QED
      BY <1>2, <3>1
  <2>2. ASSUME NEW n \in Nat, n \in T PROVE n + 1 \in T
    <3>1. \A m \in 0..(n + 1) : m \in 0..n \/ m = n + 1
      OBVIOUS
    <3> HIDE DEF P
    <3>2. \A m \in 0..(n + 1) : P(m)
      BY <1>3, <2>2, <3>1
    <3> QED
      BY <3>2
  <2> HIDE DEF T
  <2> QED
    BY <2>1, <2>2, Induction
<1>5. \A n \in Nat : n \in 0..n
  OBVIOUS
<1> HIDE DEF P
<1>6. \A n \in Nat : P(n)
  BY <1>4, <1>5
<1> QED
  BY <1>6 DEF P

(* Digits, to_string of a size, finds digits that denote what was written,  *)
(* and get_response_size reads it back from them.                           *)
THEOREM DigitsIs == \A n \in Nat : Denote(Digits(n), n)
<1> SUFFICES ASSUME NEW n \in Nat PROVE Denote(Digits(n), n)
  OBVIOUS
<1> DEFINE U == UNION {[1..k -> 0..(Base - 1)] : k \in 1..(n + 1)}
           Good(d) == Value(d) = n /\ (d[1] = 0 => Len(d) = 1)
           c == CHOOSE d \in U : Good(d)
<1>1. PICK d : Denote(d, n)
  BY HasDigits
<1>2. d \in U /\ Good(d)
  <2>1. d \in [1..Len(d) -> 0..(Base - 1)] /\ Len(d) \in 1..(n + 1)
    BY <1>1, LenProperties DEF Denote, Digit
  <2>2. Good(d)
    BY <1>1 DEF Denote
  <2> HIDE DEF Good
  <2> QED
    BY <2>1, <2>2
<1>3. c \in U /\ Good(c)
  <2> HIDE DEF U, Good
  <2> QED
    BY <1>2
<1>4. Digits(n) = c
  BY DEF Digits
<1> HIDE DEF c
<1>5. PICK k \in 1..(n + 1) : c \in [1..k -> 0..(Base - 1)]
  BY <1>3
<1>6. c \in Seq(Digit) /\ Len(c) = k
  <2>1. k \in Nat /\ c \in [1..k -> Digit]
    BY <1>5 DEF Digit
  <2>2. c \in Seq(Digit)
    BY <2>1
  <2>3. DOMAIN c = 1..k /\ DOMAIN c = 1..Len(c) /\ Len(c) \in Nat
    BY <2>1, <2>2, LenProperties
  <2> QED
    BY <2>1, <2>2, <2>3
<1>7. c[1] = 0 => n = 0
  <2> SUFFICES ASSUME c[1] = 0 PROVE n = 0
    OBVIOUS
  <2>1. Len(c) = 1 /\ Value(c) = n
    BY <1>3
  <2>2. c = Append(<<>>, 0)
    <3> DEFINE e == Append(<<>>, 0)
    <3>1. <<>> \in Seq(Digit) /\ 0 \in Digit /\ Len(<<>>) = 0
      BY BaseIs, ValueEmpty
    <3>2. e \in Seq(Digit) /\ Len(e) = 0 + 1 /\ e[0 + 1] = 0
      BY <3>1, AppendProperties
    <3>3. Len(e) = 1 /\ e[1] = 0 /\ e \in Seq(Digit)
      BY <3>2
    <3> HIDE DEF e
    <3>4. \A i \in 1..Len(c) : c[i] = e[i]
      BY <2>1, <3>3
    <3> QED
      BY <1>6, <2>1, <3>3, <3>4, SeqEqual DEF e
  <2>3. Value(c) = Base * 0 + 0
    BY <2>2, ValueEmpty, ValueAppend, BaseIs
  <2> QED
    BY <2>1, <2>3, BaseIs
<1> QED
  BY <1>3, <1>4, <1>5, <1>6, <1>7 DEF Denote

(* A smaller number has no more digits. *)
LEMMA DigitsGrow ==
    ASSUME NEW m \in Nat, NEW n \in Nat, m <= n
    PROVE  Len(Digits(m)) <= Len(Digits(n))
<1> DEFINE d == Digits(m)
           e == Digits(n)
<1>1. Denote(d, m) /\ Denote(e, n)
  BY DigitsIs
<1> HIDE DEF d, e
<1>2. /\ d \in Seq(Digit) /\ e \in Seq(Digit) /\ Len(d) \in Nat /\ Len(e) \in Nat
      /\ Len(d) >= 1 /\ Len(e) >= 1 /\ Value(d) = m /\ Value(e) = n
      /\ (d[1] = 0 => Len(d) = 1)
  BY <1>1 DEF Denote
<1> SUFFICES ASSUME Len(d) > Len(e) PROVE FALSE
  BY <1>2 DEF d, e
<1>3. m > Top(Len(d) - 1) /\ n <= Top(Len(e))
  <2>1. d[1] # 0
    BY <1>2
  <2> QED
    BY <1>2, <2>1, ValueBounds
<1>4. Top(Len(e)) <= Top(Len(d) - 1) /\ Top(Len(e)) \in Nat /\ Top(Len(d) - 1) \in Nat
  <2>1. Len(d) - 1 \in Nat /\ Len(e) <= Len(d) - 1
    BY <1>2
  <2> QED
    BY <1>2, <2>1, TopGrows, TopNext
<1> QED
  BY <1>3, <1>4
-----------------------------------------------------------------------------
(* The inductive invariant. *)

Places == Len(Digits(MaxSize))
Held == [dump : Dumps, at : Nat]

TypeInv ==
    /\ TypeOK
    /\ file_end_offset \in 0..MaxEnd
    /\ Len(comm.digits) <= Places /\ Len(request_buffer.digits) <= Places
    /\ resp \in [Sectors -> Held] /\ hrsp \in Seq(Held) /\ answer \in Seq(Held)

(* Only a command being sent reaches comm, and it is never READY. *)
CommandInv ==
    /\ gpc # "idle" => cpc = "sending"
    /\ cpc = "sending" => request_buffer.word = "ALL"

Holds(n) == \A i \in 1..n : resp[i] = Sector(tmp, i)

(* What commit_response has copied. *)
CopyInv ==
    /\ lpc = "commit" => Holds(written)
    /\ lpc = "ready" => Holds(tmp.size)

IInv == TypeInv /\ CommandInv /\ CopyInv /\ AnnouncedHeld

(* Every size lies in the response file and has no more digits than the     *)
(* greatest one.                                                            *)
LEMMA SizesIs ==
    /\ MaxSize \in Sizes /\ Sizes \subseteq Nat \ {0}
    /\ Places \in Nat /\ Top(Places) \in Nat
    /\ Sectors = 1..Top(Places)
    /\ \A n \in Sizes \cup {0} :
        /\ n \in Nat /\ n <= Top(Places)
        /\ Digits(n) \in Seq(Digit) /\ Value(Digits(n)) = n
        /\ Len(Digits(n)) \in Nat \ {0} /\ Len(Digits(n)) <= Places
<1>1. MaxSize \in Sizes /\ \A m \in Sizes : m <= MaxSize
  <2>1. \E n \in Sizes : \A m \in Sizes : m <= n
    BY RetrievalAssumption
  <2> QED
    BY <2>1 DEF MaxSize
<1>2. Sizes \subseteq Nat \ {0}
  BY RetrievalAssumption
<1>3. \A n \in Nat : /\ Digits(n) \in Seq(Digit) /\ Value(Digits(n)) = n
                     /\ Len(Digits(n)) \in Nat \ {0}
  <2> SUFFICES ASSUME NEW n \in Nat
               PROVE  /\ Digits(n) \in Seq(Digit) /\ Value(Digits(n)) = n
                      /\ Len(Digits(n)) \in Nat \ {0}
    OBVIOUS
  <2>1. Denote(Digits(n), n)
    BY DigitsIs
  <2> QED
    BY <2>1 DEF Denote
<1>4. Places \in Nat /\ Top(Places) \in Nat
  BY <1>1, <1>2, <1>3, TopNext DEF Places
<1>5. \A n \in Sizes \cup {0} : n \in Nat /\ n <= MaxSize
  BY <1>1, <1>2
<1>6. \A n \in Sizes \cup {0} : Len(Digits(n)) <= Places
  BY <1>1, <1>2, <1>5, DigitsGrow DEF Places
<1>7. MaxSize <= Top(Places)
  <2>1. Value(Digits(MaxSize)) <= Top(Len(Digits(MaxSize)))
    BY <1>1, <1>2, <1>3, ValueBounds
  <2> QED
    BY <1>1, <1>2, <1>3, <2>1 DEF Places
<1>8. \A n \in Sizes \cup {0} : n <= Top(Places)
  BY <1>1, <1>2, <1>4, <1>5, <1>7
<1>9. Sectors = 1..Top(Places)
  BY DEF Sectors, Top, Places, Nines
<1> QED
  BY <1>1, <1>2, <1>3, <1>4, <1>5, <1>6, <1>8, <1>9

(* The digits that READY is followed by begin with those written. *)
LEMMA OverIs ==
    ASSUME NEW a \in Seq(Digit), NEW b \in Seq(Digit)
    PROVE  /\ Over(a, b) \in Seq(Digit)
           /\ Len(Over(a, b)) = IF Len(a) >= Len(b) THEN Len(a) ELSE Len(b)
           /\ Prefix(Over(a, b), Len(a)) = a
           /\ Len(a) >= Len(b) => Over(a, b) = a
<1> DEFINE m == Len(a)
           n == Len(b)
           r == SubSeq(b, m + 1, n)
           o == a \o r
<1>1. m \in Nat /\ n \in Nat /\ \A i \in 1..n : b[i] \in Digit
  BY LenProperties, ElementOfSeq
<1>2. r \in Seq(Digit) /\ Len(r) = IF m + 1 <= n THEN n - (m + 1) + 1 ELSE 0
  <2>1. m + 1 \in Int /\ n \in Int /\ \A i \in (m + 1)..n : b[i] \in Digit
    BY <1>1
  <2> HIDE DEF m, n
  <2> QED
    BY <2>1, SubSeqProperties
<1>3. Len(r) = IF m >= n THEN 0 ELSE n - m
  <2> HIDE DEF r, m, n
  <2> QED
    BY <1>1, <1>2
<1> HIDE DEF r
<1>4. /\ o \in Seq(Digit) /\ Len(o) = m + Len(r)
      /\ \A i \in 1..(m + Len(r)) : o[i] = IF i <= m THEN a[i] ELSE r[i - m]
  BY <1>2, ConcatProperties
<1>5. Len(r) \in Nat
  BY <1>2, LenProperties
<1> HIDE DEF o
<1>6. SubSeq(o, 1, m) = a
  <2> DEFINE p == SubSeq(o, 1, m)
  <2>1. \A i \in 1..m : i \in 1..(m + Len(r)) /\ o[i] = a[i] /\ a[i] \in Digit
    <3>1. \A i \in 1..m : a[i] \in Digit
      BY ElementOfSeq
    <3>2. \A i \in 1..m : i \in 1..(m + Len(r)) /\ i <= m
      BY <1>1, <1>5
    <3> QED
      BY <1>4, <3>1, <3>2
  <2>2. /\ p \in Seq(Digit) /\ Len(p) = (IF 1 <= m THEN m - 1 + 1 ELSE 0)
        /\ \A i \in 1..(m - 1 + 1) : p[i] = o[1 + i - 1]
    <3>1. 1 \in Int /\ m \in Int /\ \A i \in 1..m : o[i] \in Digit
      BY <1>1, <2>1
    <3> HIDE DEF m
    <3> QED
      BY <3>1, SubSeqProperties
  <2> HIDE DEF p
  <2>3. Len(p) = m /\ \A i \in 1..m : p[i] = o[i]
    <3> HIDE DEF m
    <3>1. m - 1 + 1 = m /\ \A i \in 1..m : 1 + i - 1 = i
      BY <1>1
    <3> QED
      BY <1>1, <2>2, <3>1
  <2> QED
    BY <2>1, <2>2, <2>3, SeqEqual DEF p
<1>7. m >= n => o = a
  <2> SUFFICES ASSUME m >= n PROVE o = a
    OBVIOUS
  <2>1. Len(r) = 0
    BY <1>3
  <2>2. r = <<>>
    BY <1>2, <2>1, EmptySeq
  <2> QED
    BY <2>2, ConcatEmptySeq DEF o
<1> QED
  <2>1. Len(o) = IF m >= n THEN m ELSE n
    <3> HIDE DEF m, n
    <3> QED
      BY <1>1, <1>3, <1>4
  <2> QED
    BY <1>4, <1>6, <1>7, <2>1 DEF o, r, Over, Prefix

(* The inductive invariant holds initially ... *)
LEMMA RetrievalInit == Init => IInv
<1> SUFFICES ASSUME Init PROVE IInv
  OBVIOUS
<1>1. NoDump \in Dumps /\ 0 \in Nat /\ Sector(NoDump, 0) \in Held
  BY DEF Dumps, Sector, Held
<1>2. <<>> \in Seq(0..(Base - 1)) /\ Len(<<>>) = 0 /\ <<>> \in Seq(Held)
  BY EmptySeq
<1>3. TypeInv
  <2>1. TypeOK
    <3>1. comm \in Texts /\ request_buffer \in Texts
      BY <1>2 DEF Init, Texts, Text
    <3>2. tmp.size = 0 /\ 0 \in 0..0
      BY DEF Init, NoDump
    <3>3. Len(hrsp) <= response_size /\ written \in 0..tmp.size /\ tmp \in Dumps
      BY <1>1, <1>2, <3>2 DEF Init
    <3>4. /\ requests \in 0..MaxRequests /\ since \in 0..file_end_offset
          /\ log_end \in 0..file_end_offset
      BY RetrievalAssumption DEF Init
    <3> QED
      BY <3>1, <3>3, <3>4 DEF Init, TypeOK
  <2>2. comm.digits = <<>> /\ request_buffer.digits = <<>>
    BY DEF Init, Text
  <2>3. resp \in [Sectors -> Held]
    BY <1>1 DEF Init
  <2> QED
    BY <1>2, <2>1, <2>2, <2>3, RetrievalAssumption, SizesIs DEF Init, TypeInv
<1>4. comm.word # "READY"
  BY DEF Init, Text
<1> QED
  BY <1>3, <1>4 DEF Init, IInv, CommandInv, CopyInv, AnnouncedHeld

(* ... and each step keeps it: one that changes nothing, ... *)
LEMMA StutterStep == IInv /\ UNCHANGED vars => IInv'
<1> SUFFICES ASSUME IInv, UNCHANGED vars PROVE IInv'
  OBVIOUS
<1> USE DEF vars, clientVars, gadgetVars, libraryVars
<1>1. TypeInv'
  BY DEF IInv, TypeInv, TypeOK
<1>2. CommandInv' /\ CopyInv' /\ AnnouncedHeld'
  BY DEF IInv, CommandInv, CopyInv, Holds, AnnouncedHeld
<1> QED
  BY <1>1, <1>2 DEF IInv

(* ... the growth of the log, ... *)
LEMMA LogStep == IInv /\ LogGrows => IInv'
<1> SUFFICES ASSUME IInv, LogGrows PROVE IInv'
  OBVIOUS
<1> USE DEF LogGrows, clientVars, gadgetVars, libraryVars
<1>1. TypeInv'
  <2>1. /\ file_end_offset' \in 0..MaxEnd /\ since' \in 0..file_end_offset'
        /\ log_end' \in 0..file_end_offset'
    BY RetrievalAssumption DEF IInv, TypeInv, TypeOK
  <2> QED
    BY <2>1 DEF IInv, TypeInv, TypeOK
<1>2. CommandInv' /\ CopyInv' /\ AnnouncedHeld'
  BY DEF IInv, CommandInv, CopyInv, Holds, AnnouncedHeld
<1> QED
  BY <1>1, <1>2 DEF IInv

(* ... a command, ... *)
LEMMA SubmitStep == IInv /\ Submit => IInv'
<1> SUFFICES ASSUME IInv, Submit PROVE IInv'
  OBVIOUS
<1> USE DEF Submit, libraryVars
<1>1. TypeInv'
  <2>1. requests' \in 0..MaxRequests /\ since' \in 0..file_end_offset'
    BY RetrievalAssumption DEF IInv, TypeInv, TypeOK
  <2>2. request_buffer' \in Texts /\ request_buffer'.digits = request_buffer.digits
    BY DEF IInv, TypeInv, TypeOK, Text, Texts
  <2>3. TypeOK'
    BY <2>1, <2>2 DEF IInv, TypeInv, TypeOK
  <2> QED
    BY <2>2, <2>3 DEF IInv, TypeInv
<1>2. CommandInv'
  BY DEF CommandInv, Text
<1>3. CopyInv' /\ AnnouncedHeld'
  BY DEF IInv, CopyInv, Holds, AnnouncedHeld
<1> QED
  BY <1>1, <1>2, <1>3 DEF IInv

(* ... whose poll finds a size in the response file and reads no further, ... *)
LEMMA ClientStep == IInv /\ Client => IInv'
<1> SUFFICES ASSUME IInv, Client PROVE IInv'
  OBVIOUS
<1> USE DEF gadgetVars, libraryVars
<1>1. CASE Sent
  <2>1. TypeInv'
    BY <1>1 DEF Sent, IInv, TypeInv, TypeOK
  <2>2. CommandInv'
    BY <1>1 DEF Sent, IInv, CommandInv
  <2>3. CopyInv' /\ AnnouncedHeld'
    BY <1>1 DEF Sent, IInv, CopyInv, Holds, AnnouncedHeld
  <2> QED
    BY <2>1, <2>2, <2>3 DEF IInv
<1>2. CASE Poll
  <2>1. response_size' \in Sectors \cup {0} /\ hrsp' \in Seq(Held) /\ Len(hrsp') <= response_size'
    <3>1. CASE comm.word = "READY"
      <4> DEFINE d == comm.digits
      <4>1. d \in Seq(Digit) /\ Len(d) <= Places
        BY DEF IInv, TypeInv, TypeOK, Texts, Digit
      <4> HIDE DEF d
      <4>2. Value(d) \in Nat /\ Value(d) <= Top(Len(d)) /\ Len(d) \in Nat
        BY <4>1, ValueBounds, LenProperties
      <4>3. Top(Len(d)) \in Nat /\ Top(Len(d)) <= Top(Places)
        BY <4>1, <4>2, SizesIs, TopGrows, TopNext
      <4>4. Value(d) <= Top(Places) /\ Top(Places) \in Nat
        BY <4>2, <4>3, SizesIs
      <4>5. Value(d) \in Sectors \cup {0}
        BY <4>2, <4>4, SizesIs
      <4>6. response_size' = Value(d) /\ hrsp' = <<>>
        BY <1>2, <3>1 DEF Poll, d
      <4>7. <<>> \in Seq(Held) /\ Len(<<>>) = 0
        BY EmptySeq
      <4> QED
        BY <4>2, <4>5, <4>6, <4>7
    <3>2. CASE comm.word # "READY"
      <4>1. response_size' = response_size /\ hrsp' = hrsp
        BY <1>2, <3>2 DEF Poll
      <4> QED
        BY <4>1 DEF IInv, TypeInv, TypeOK
    <3> QED
      BY <3>1, <3>2
  <2>2. cpc' \in {"poll", "read"} /\ request_buffer' = comm
    BY <1>2 DEF Poll
  <2>3. TypeOK'
    BY <1>2, <2>1, <2>2 DEF Poll, IInv, TypeInv, TypeOK
  <2>4. TypeInv'
    BY <1>2, <2>1, <2>2, <2>3 DEF Poll, IInv, TypeInv
  <2>5. CommandInv'
    BY <1>2, <2>2 DEF Poll, IInv, CommandInv
  <2>6. CopyInv' /\ AnnouncedHeld'
    BY <1>2 DEF Poll, IInv, CopyInv, Holds, AnnouncedHeld
  <2> QED
    BY <2>4, <2>5, <2>6 DEF IInv
<1>3. CASE ReadSector
  <2>1. hrsp' \in Seq(Held) /\ Len(hrsp') <= response_size'
    <3> DEFINE n == Len(hrsp)
    <3>1. hrsp \in Seq(Held) /\ n \in Nat /\ n < response_size
      BY <1>3, LenProperties DEF ReadSector, IInv, TypeInv
    <3>2. n + 1 \in Sectors /\ response_size \in Nat
      <4>1. response_size \in Sectors \cup {0}
        BY DEF IInv, TypeInv, TypeOK
      <4> HIDE DEF n
      <4> QED
        BY <3>1, <4>1, SizesIs
    <3>3. resp[n + 1] \in Held
      BY <3>2 DEF IInv, TypeInv
    <3>4. hrsp' = Append(hrsp, resp[n + 1]) /\ response_size' = response_size
      BY <1>3 DEF ReadSector
    <3>5. hrsp' \in Seq(Held) /\ Len(hrsp') = n + 1
      BY <3>1, <3>3, <3>4, AppendProperties
    <3> HIDE DEF n
    <3> QED
      BY <3>1, <3>2, <3>4, <3>5
  <2>2. TypeOK'
    BY <1>3, <2>1 DEF ReadSector, IInv, TypeInv, TypeOK
  <2>3. TypeInv'
    BY <1>3, <2>1, <2>2 DEF ReadSector, IInv, TypeInv
  <2>4. CommandInv' /\ CopyInv' /\ AnnouncedHeld'
    BY <1>3 DEF ReadSector, IInv, CommandInv, CopyInv, Holds, AnnouncedHeld
  <2> QED
    BY <2>3, <2>4 DEF IInv
<1>4. CASE Record
  <2>1. TypeInv'
    BY <1>4 DEF Record, IInv, TypeInv, TypeOK
  <2>2. CommandInv'
    BY <1>4 DEF Record, IInv, CommandInv
  <2>3. CopyInv' /\ AnnouncedHeld'
    BY <1>4 DEF Record, IInv, CopyInv, Holds, AnnouncedHeld
  <2> QED
    BY <2>1, <2>2, <2>3 DEF IInv
<1> QED
  BY <1>1, <1>2, <1>3, <1>4 DEF Client

(* ... the gadget, which stores nothing but a command, ... *)
LEMMA GadgetStep == IInv /\ Gadget => IInv'
<1> SUFFICES ASSUME IInv, Gadget PROVE IInv'
  OBVIOUS
<1> USE DEF clientVars, libraryVars
<1>1. CASE StoreCommand
  <2>1. comm' = request_buffer /\ comm'.word = "ALL"
    BY <1>1 DEF StoreCommand, IInv, CommandInv
  <2>2. TypeInv'
    BY <1>1, <2>1 DEF StoreCommand, IInv, TypeInv, TypeOK
  <2>3. CommandInv' /\ CopyInv'
    BY <1>1 DEF StoreCommand, IInv, CommandInv, CopyInv, Holds
  <2> QED
    BY <2>1, <2>2, <2>3 DEF IInv, AnnouncedHeld
<1>2. CASE FlagCommand
  <2>1. TypeInv'
    BY <1>2 DEF FlagCommand, IInv, TypeInv, TypeOK
  <2>2. CommandInv' /\ CopyInv' /\ AnnouncedHeld'
    BY <1>2 DEF FlagCommand, IInv, CommandInv, CopyInv, Holds, AnnouncedHeld
  <2> QED
    BY <2>1, <2>2 DEF IInv
<1> QED
  BY <1>1, <1>2 DEF Gadget

(* ... and the library, which announces what it has copied. *)
LEMMA LibraryStep == IInv /\ Library => IInv'
<1> SUFFICES ASSUME IInv, Library PROVE IInv'
  OBVIOUS
<1> USE DEF clientVars, gadgetVars
<1>1. CASE CheckFlag
  <2>1. log_end' \in 0..file_end_offset'
    BY <1>1 DEF CheckFlag, CheckFlagAt, IInv, TypeInv
  <2>2. TypeOK'
    BY <1>1, <2>1 DEF CheckFlag, CheckFlagAt, IInv, TypeInv, TypeOK
  <2>3. TypeInv'
    BY <1>1, <2>2 DEF CheckFlag, CheckFlagAt, IInv, TypeInv
  <2>4. CommandInv' /\ CopyInv' /\ AnnouncedHeld'
    BY <1>1 DEF CheckFlag, CheckFlagAt, IInv, CommandInv, CopyInv, Holds, AnnouncedHeld
  <2> QED
    BY <2>3, <2>4 DEF IInv
<1>2. CASE ClearFlag
  <2>1. lpc' \in {"command", "loop"}
    BY <1>2 DEF ClearFlag, ClearAnd
  <2>2. TypeInv'
    BY <1>2, <2>1 DEF ClearFlag, ClearAnd, IInv, TypeInv, TypeOK
  <2>3. CommandInv' /\ CopyInv' /\ AnnouncedHeld'
    BY <1>2, <2>1 DEF ClearFlag, ClearAnd, IInv, CommandInv, CopyInv, Holds, AnnouncedHeld
  <2> QED
    BY <2>2, <2>3 DEF IInv
<1>3. CASE Decode
  <2>1. tmp' \in Dumps
    <3>1. CASE tmp' = tmp
      BY <3>1 DEF IInv, TypeInv, TypeOK
    <3>2. CASE \E n \in Sizes :
                 tmp' = [of |-> IF comm.word = "ALL" THEN "ALL" ELSE "FILTER",
                         end |-> log_end, size |-> n]
      <4>1. log_end \in 0..MaxEnd
        BY RetrievalAssumption DEF IInv, TypeInv, TypeOK
      <4> QED
        BY <3>2, <4>1 DEF Dumps
    <3> QED
      BY <1>3, <3>1, <3>2 DEF Decode
  <2>2. written' = 0 /\ lpc' = "commit" /\ tmp'.size \in Nat
    <3>1. tmp'.size \in Sizes \cup {0}
      BY <2>1 DEF Dumps, NoDump
    <3>2. tmp'.size \in Nat
      <4>1. \A n \in Sizes \cup {0} : n \in Nat
        BY SizesIs
      <4> QED
        BY ONLY <3>1, <4>1
    <3> QED
      BY <1>3, <3>2 DEF Decode
  <2>3. TypeOK'
    BY <1>3, <2>1, <2>2 DEF Decode, IInv, TypeInv, TypeOK
  <2>4. TypeInv'
    BY <1>3, <2>3 DEF Decode, IInv, TypeInv
  <2>5. CommandInv' /\ CopyInv' /\ AnnouncedHeld'
    BY <1>3, <2>2 DEF Decode, IInv, CommandInv, CopyInv, Holds, AnnouncedHeld
  <2> QED
    BY <2>4, <2>5 DEF IInv
<1>4. CASE CommitResponse
  <2>1. /\ tmp.size \in Nat /\ tmp.size <= Top(Places) /\ written \in 0..tmp.size
        /\ tmp \in Dumps /\ lpc = "commit" /\ Holds(written)
    <3>1. tmp \in Dumps /\ written \in 0..tmp.size
      BY DEF IInv, TypeInv, TypeOK
    <3>2. tmp.size \in Sizes \cup {0}
      BY <3>1 DEF Dumps, NoDump
    <3> QED
      BY <1>4, <3>1, <3>2, SizesIs DEF CommitResponse, CommitUpTo, IInv, CopyInv
  <2>2. CASE written < tmp.size
    <3> DEFINE w == written + 1
    <3>1. /\ written' = w /\ resp' = [resp EXCEPT ![w] = Sector(tmp, w)]
          /\ lpc' = "commit" /\ tmp' = tmp
      BY <1>4, <2>1, <2>2 DEF CommitResponse, CommitUpTo
    <3>2. w \in Sectors /\ w \in 0..tmp.size /\ w \in Nat
      BY <2>1, <2>2, SizesIs
    <3>3. \A i \in 1..w : i \in 1..written \/ i = w
      BY <2>1
    <3>4. \A i \in 1..written : i # w
      BY <2>1
    <3> HIDE DEF w
    <3>5. resp' \in [Sectors -> Held]
      <4>1. Sector(tmp, w) \in Held
        BY <2>1, <3>2 DEF Sector, Held
      <4> QED
        BY <3>1, <4>1 DEF IInv, TypeInv
    <3>6. Holds(written)'
      <4>1. resp'[w] = Sector(tmp, w)
        BY <3>1, <3>2 DEF IInv, TypeInv
      <4>2. \A i \in 1..written : resp'[i] = resp[i]
        <5>1. \A i \in 1..written : i \in Sectors
          BY <2>1, <2>2, SizesIs
        <5> QED
          BY <3>1, <3>4, <5>1 DEF IInv, TypeInv
      <4>3. \A i \in 1..w : resp'[i] = Sector(tmp, i)
        BY <2>1, <3>3, <4>1, <4>2 DEF Holds
      <4> QED
        BY <3>1, <4>3 DEF Holds
    <3>7. TypeOK'
      BY <1>4, <3>1, <3>2 DEF CommitResponse, CommitUpTo, IInv, TypeInv, TypeOK
    <3>8. TypeInv'
      BY <1>4, <3>5, <3>7 DEF CommitResponse, CommitUpTo, IInv, TypeInv
    <3>9. CommandInv' /\ CopyInv' /\ AnnouncedHeld'
      BY <1>4, <3>1, <3>6
         DEF CommitResponse, CommitUpTo, IInv, CommandInv, CopyInv, AnnouncedHeld
    <3> QED
      BY <3>8, <3>9 DEF IInv
  <2>3. CASE ~(written < tmp.size)
    <3>1. /\ written' = written /\ resp' = resp /\ lpc' = "ready" /\ tmp' = tmp
          /\ written = tmp.size
      BY <1>4, <2>1, <2>3 DEF CommitResponse, CommitUpTo
    <3>2. TypeInv'
      BY <1>4, <3>1 DEF CommitResponse, CommitUpTo, IInv, TypeInv, TypeOK
    <3>3. CommandInv' /\ CopyInv' /\ AnnouncedHeld'
      BY <1>4, <2>1, <3>1
         DEF CommitResponse, CommitUpTo, IInv, CommandInv, CopyInv, Holds, AnnouncedHeld
    <3> QED
      BY <3>2, <3>3 DEF IInv
  <2> QED
    BY <2>2, <2>3
<1>5. CASE CommitMessage
  <2> DEFINE a == Digits(tmp.size)
             b == comm.digits
             o == Over(a, b)
  <2>1. /\ comm' = Text("READY", o) /\ lpc = "ready" /\ lpc' = "loop"
        /\ UNCHANGED <<clientVars, request_buffer, gadgetVars, resp, hreq, log_end,
                       tmp, written, file_end_offset>>
    BY <1>5 DEF CommitMessage
  <2>2. a \in Seq(Digit) /\ Len(a) \in Nat /\ Len(a) <= Places
    <3>1. tmp.size \in Sizes \cup {0}
      BY DEF IInv, TypeInv, TypeOK, Dumps, NoDump
    <3> QED
      BY <3>1, SizesIs
  <2>3. b \in Seq(Digit) /\ Len(b) <= Places
    BY DEF IInv, TypeInv, TypeOK, Texts, Digit
  <2>4. o \in Seq(Digit) /\ Len(o) <= Places /\ Prefix(o, Len(a)) = a
    <3> HIDE DEF a, b
    <3> QED
      BY <2>2, <2>3, OverIs
  <2> HIDE DEF o
  <2>5. comm' \in Texts /\ comm'.digits = o
    BY <2>1, <2>4 DEF Texts, Text, Digit
  <2>6. TypeOK'
    BY <2>1, <2>5 DEF IInv, TypeInv, TypeOK
  <2>7. TypeInv'
    BY <2>1, <2>4, <2>5, <2>6 DEF IInv, TypeInv
  <2>8. CommandInv' /\ CopyInv'
    BY <2>1 DEF IInv, CommandInv, CopyInv
  <2>9. AnnouncedHeld'
    <3>1. Holds(tmp.size)'
      BY <2>1 DEF IInv, CopyInv, Holds
    <3> QED
      BY <2>1, <2>4, <2>5, <3>1 DEF AnnouncedHeld, Holds
  <2> QED
    BY <2>7, <2>8, <2>9 DEF IInv
<1> QED
  BY <1>1, <1>2, <1>3, <1>4, <1>5 DEF Library

(* So every step keeps it. *)
LEMMA RetrievalStep == IInv /\ [Next]_vars => IInv'
BY SubmitStep, ClientStep, GadgetStep, LibraryStep, LogStep, StutterStep DEF Next

(* IInv is an invariant, for any faults. *)
THEOREM RetrievalInvariance == Spec => []IInv
BY RetrievalInit, RetrievalStep, PTL DEF Spec

(* TypeOK: whatever digits READY is followed by, the client never asks for  *)
(* a sector outside the response file.                                      *)
THEOREM TypeCorrect == Spec => []TypeOK
<1>1. IInv => TypeOK
  BY DEF IInv, TypeInv
<1> QED
  BY <1>1, RetrievalInvariance, PTL

(* AnnouncedHeld: whatever happened to the commands, READY stands only      *)
(* before a response file that holds all of the last dump.                  *)
THEOREM ReadyHoldsDump == Spec => []AnnouncedHeld
<1>1. IInv => AnnouncedHeld
  BY DEF IInv
<1> QED
  BY <1>1, RetrievalInvariance, PTL
-----------------------------------------------------------------------------
(* The refinement: what holds while no command fails.                       *)

(* comm holds no digits or those of one size, and so does the client's copy. *)
DigitsInv ==
    /\ comm.digits = <<>> \/ Len(comm.digits) = Places
    /\ request_buffer.digits = <<>> \/ Len(request_buffer.digits) = Places

(* The library has nothing to do, and does not think that it has. *)
Resting == ~server_request /\ (lpc = "loop" \/ (lpc = "clear" /\ ~hreq))

(* The dump was asked for by the client's last command. *)
Asked == tmp.of = "ALL" /\ tmp.end \in since..file_end_offset /\ tmp.size \in Sizes

Announced == comm.word = "READY" /\ comm.digits = Digits(tmp.size) /\ Asked

(* How far the library is with a command whose flag has been set. *)
Pending ==
    /\ comm.word = "ALL" /\ server_request
    /\ lpc = "loop" \/ (lpc = "clear" /\ (hreq => log_end >= since))
Overlooked == comm.word = "ALL" /\ Resting
Working ==
    /\ comm.word = "ALL" /\ ~server_request
    /\ lpc \in {"command", "commit", "ready"} /\ log_end >= since
    /\ lpc # "command" => Asked
Done == Announced /\ Resting

PhaseInv ==
    /\ cpc = "sending" => gpc # "idle"
    /\ cpc = "idle" => Resting
    /\ gpc = "store" => Resting
    /\ gpc = "flag" => Resting /\ comm.word = "ALL"
    /\ gpc = "done" \/ cpc = "poll" => Pending \/ Overlooked \/ Working \/ Done
    /\ cpc = "read" =>
        /\ Done /\ response_size = tmp.size
        /\ \A i \in 1..Len(hrsp) : hrsp[i] = Sector(tmp, i)

ExchangeInv == IInv /\ DigitsInv /\ PhaseInv
(* The phases hold initially, and every step keeps them: *)
LEMMA ExchangeInit == Init => ExchangeInv
BY RetrievalInit
   DEF Init, Text, ExchangeInv, DigitsInv, PhaseInv, Resting

(* While the library works, the client waits. *)
LEMMA WorkingIs ==
    ASSUME ExchangeInv, lpc \in {"command", "commit", "ready"}
    PROVE  Working /\ (gpc = "done" \/ cpc = "poll")
BY DEF ExchangeInv, IInv, TypeInv, TypeOK, CommandInv, PhaseInv, Pending, Overlooked,
       Done, Resting

(* A size's digits take the place of another's. *)
LEMMA OverSize ==
    ASSUME Reliable, NEW n \in Sizes, NEW b \in Seq(Digit), b = <<>> \/ Len(b) = Places
    PROVE  Over(Digits(n), b) = Digits(n) /\ Len(Digits(n)) = Places
<1>1. Len(Digits(n)) = Places
  BY SizesIs DEF Reliable, Places
<1>2. Digits(n) \in Seq(Digit) /\ Len(Digits(n)) \in Nat
  BY SizesIs
<1>3. Len(<<>>) = 0
  BY EmptySeq
<1>4. Len(Digits(n)) >= Len(b)
  BY <1>1, <1>2, <1>3
<1> QED
  BY <1>1, <1>2, <1>4, OverIs

(* a longer log still ends no earlier than a dump of it; *)
LEMMA ExchangeLog == ExchangeInv /\ LogGrows => DigitsInv' /\ PhaseInv'
<1> SUFFICES ASSUME ExchangeInv, LogGrows PROVE DigitsInv' /\ PhaseInv'
  OBVIOUS
<1> USE DEF LogGrows, clientVars, gadgetVars, libraryVars
<1>1. Asked => Asked'
  BY DEF Asked, ExchangeInv, IInv, TypeInv, TypeOK
<1>2. (Announced => Announced') /\ (Resting => Resting') /\ (Pending => Pending')
  BY <1>1 DEF Announced, Resting, Pending
<1>3. /\ Overlooked => Overlooked'
      /\ Working => Working'
      /\ Done => Done'
  BY <1>1, <1>2 DEF Overlooked, Working, Done
<1> QED
  BY <1>2, <1>3 DEF ExchangeInv, DigitsInv, PhaseInv

(* where nothing changes, nothing does; *)
LEMMA ExchangeStutter == ExchangeInv /\ UNCHANGED vars => DigitsInv' /\ PhaseInv'
BY DEF vars, clientVars, gadgetVars, libraryVars, ExchangeInv, DigitsInv, PhaseInv,
       Resting, Asked, Announced, Pending, Overlooked, Working, Done

(* a command is sent when the library rests; *)
LEMMA ExchangeSubmit == Reliable /\ ExchangeInv /\ Submit => DigitsInv' /\ PhaseInv'
BY DEF Reliable, Submit, libraryVars, Text, ExchangeInv, DigitsInv, PhaseInv, Resting

(* the client reads once the dump it asked for is announced; *)
LEMMA ExchangeClient == Reliable /\ ExchangeInv /\ Client => DigitsInv' /\ PhaseInv'
<1> SUFFICES ASSUME Reliable, ExchangeInv, Client PROVE DigitsInv' /\ PhaseInv'
  OBVIOUS
<1> USE DEF gadgetVars, libraryVars
<1> DEFINE Kept == /\ Resting' = Resting /\ Pending' = Pending
                   /\ Overlooked' = Overlooked /\ Working' = Working /\ Done' = Done
<1>1. /\ IInv /\ cpc \in {"idle", "sending", "poll", "read"}
      /\ gpc \in {"idle", "store", "flag", "done"}
      /\ gpc # "idle" => cpc = "sending"
  BY DEF ExchangeInv, IInv, TypeInv, TypeOK, CommandInv
<1>2. CASE Sent
  <2>1. Kept
    BY <1>2 DEF Sent, Resting, Asked, Announced, Pending, Overlooked, Working, Done
  <2>2. cpc' = "poll" /\ gpc' = "idle" /\ gpc = "done" /\ DigitsInv'
    BY <1>2 DEF Sent, ExchangeInv, DigitsInv
  <2> QED
    BY <2>1, <2>2 DEF ExchangeInv, PhaseInv
<1>3. CASE Poll
  <2>1. Kept
    BY <1>3 DEF Poll, Resting, Asked, Announced, Pending, Overlooked, Working, Done
  <2>2. DigitsInv'
    BY <1>3 DEF Poll, ExchangeInv, DigitsInv
  <2>3. cpc = "poll" /\ gpc = "idle" /\ gpc' = "idle"
    BY <1>1, <1>3 DEF Poll
  <2>4. Pending \/ Overlooked \/ Working \/ Done
    BY <2>3 DEF ExchangeInv, PhaseInv
  <2>5. CASE comm.word = "READY"
    <3>1. Done
      BY <2>4, <2>5 DEF Pending, Overlooked, Working
    <3>2. cpc' = "read" /\ response_size' = tmp.size /\ hrsp' = <<>> /\ tmp' = tmp
      <4>1. Value(comm.digits) = tmp.size
        BY <3>1, SizesIs DEF Done, Announced, Asked
      <4> QED
        BY <1>3, <2>5, <4>1 DEF Poll
    <3>3. \A i \in 1..Len(hrsp') : hrsp'[i] = Sector(tmp, i)
      BY <3>2, EmptySeq
    <3>4. Sector(tmp, 0) = Sector(tmp', 0) /\ \A i : Sector(tmp', i) = Sector(tmp, i)
      BY <3>2
    <3> QED
      BY <2>1, <2>2, <2>3, <3>1, <3>2, <3>3, <3>4 DEF PhaseInv, Sector
  <2>6. CASE comm.word # "READY"
    <3>1. cpc' = "poll"
      BY <1>3, <2>3, <2>6 DEF Poll
    <3> QED
      BY <2>1, <2>2, <2>3, <2>4, <3>1 DEF PhaseInv
  <2> QED
    BY <2>5, <2>6
<1>4. CASE ReadSector
  <2>1. Kept
    BY <1>4 DEF ReadSector, Resting, Asked, Announced, Pending, Overlooked, Working, Done
  <2>2. DigitsInv'
    BY <1>4 DEF ReadSector, ExchangeInv, DigitsInv
  <2>3. cpc = "read" /\ cpc' = "read" /\ gpc = "idle" /\ gpc' = "idle"
    BY <1>1, <1>4 DEF ReadSector
  <2>4. /\ Done /\ response_size = tmp.size
        /\ \A i \in 1..Len(hrsp) : hrsp[i] = Sector(tmp, i)
    BY <2>3 DEF ExchangeInv, PhaseInv
  <2> DEFINE n == Len(hrsp)
  <2>5. /\ n \in Nat /\ n < tmp.size /\ hrsp \in Seq(Held)
        /\ hrsp' = Append(hrsp, resp[n + 1]) /\ tmp' = tmp /\ response_size' = response_size
    BY <1>4, <2>4, LenProperties DEF ReadSector, ExchangeInv, IInv, TypeInv
  <2>6. resp[n + 1] = Sector(tmp, n + 1) /\ resp[n + 1] \in Held
    <3>1. tmp.size \in Nat /\ tmp.size <= Top(Places) /\ Sectors = 1..Top(Places)
          /\ Top(Places) \in Nat
      BY <2>4, SizesIs DEF Done, Announced, Asked
    <3>2. n + 1 \in 1..tmp.size /\ n + 1 \in Sectors
      <4> HIDE DEF n
      <4> QED
        BY <2>5, <3>1
    <3>3. \A i \in 1..tmp.size : resp[i] = Sector(tmp, i)
      BY <2>4 DEF Done, Announced, Resting, ExchangeInv, IInv, AnnouncedHeld
    <3> QED
      BY <3>2, <3>3 DEF ExchangeInv, IInv, TypeInv
  <2>7. \A i \in 1..Len(hrsp') : hrsp'[i] = Sector(tmp, i)
    <3>1. /\ Len(hrsp') = n + 1 /\ hrsp'[n + 1] = resp[n + 1]
          /\ \A i \in 1..n : hrsp'[i] = hrsp[i]
      BY <2>5, <2>6, AppendProperties
    <3>2. \A i \in 1..(n + 1) : i \in 1..n \/ i = n + 1
      BY <2>5
    <3> QED
      BY <2>4, <2>6, <3>1, <3>2
  <2> QED
    BY <2>1, <2>2, <2>3, <2>4, <2>5, <2>7 DEF PhaseInv, Sector
<1>5. CASE Record
  <2>1. Kept
    BY <1>5 DEF Record, Resting, Asked, Announced, Pending, Overlooked, Working, Done
  <2>2. DigitsInv'
    BY <1>5 DEF Record, ExchangeInv, DigitsInv
  <2>3. cpc = "read" /\ cpc' = "idle" /\ gpc = "idle" /\ gpc' = "idle"
    BY <1>1, <1>5 DEF Record
  <2>4. Resting
    BY <2>3 DEF ExchangeInv, PhaseInv, Done
  <2> QED
    BY <2>1, <2>2, <2>3, <2>4 DEF PhaseInv
<1> QED
  BY <1>2, <1>3, <1>4, <1>5 DEF Client

(* the gadget hands the command over; *)
LEMMA ExchangeGadget == Reliable /\ ExchangeInv /\ Gadget => DigitsInv' /\ PhaseInv'
<1> SUFFICES ASSUME Reliable, ExchangeInv, Gadget PROVE DigitsInv' /\ PhaseInv'
  OBVIOUS
<1> USE DEF clientVars, libraryVars
<1>1. CASE StoreCommand
  <2>1. cpc = "sending" /\ cpc' = "sending" /\ gpc = "store" /\ gpc' = "flag" /\ Resting
    BY <1>1 DEF StoreCommand, ExchangeInv, IInv, CommandInv, PhaseInv
  <2>2. comm'.word = "ALL" /\ DigitsInv'
    BY <1>1, <2>1 DEF StoreCommand, ExchangeInv, IInv, CommandInv, DigitsInv
  <2>3. Resting'
    BY <1>1, <2>1 DEF StoreCommand, Resting
  <2> QED
    BY <2>1, <2>2, <2>3 DEF PhaseInv
<1>2. CASE FlagCommand
  <2>1. /\ cpc = "sending" /\ cpc' = "sending" /\ gpc' = "done" /\ DigitsInv'
        /\ Resting /\ comm.word = "ALL"
    BY <1>2 DEF FlagCommand, Reliable, ExchangeInv, IInv, CommandInv, PhaseInv, DigitsInv
  <2>2. Pending'
    BY <1>2, <2>1 DEF FlagCommand, Resting, Pending
  <2> QED
    BY <2>1, <2>2 DEF PhaseInv
<1> QED
  BY <1>1, <1>2 DEF Gadget

(* and the library either overlooks it or takes it as far as READY. *)
LEMMA ExchangeLibrary == Reliable /\ ExchangeInv /\ Library => DigitsInv' /\ PhaseInv'
<1> SUFFICES ASSUME Reliable, ExchangeInv, Library PROVE DigitsInv' /\ PhaseInv'
  OBVIOUS
<1> USE DEF clientVars, gadgetVars
<1>1. CASE CheckFlag
  <2> USE DEF CheckFlag, CheckFlagAt
  <2>1. Resting => Resting'
    BY <1>1 DEF Resting
  <2>2. Pending => Pending'
    BY <1>1 DEF Pending, ExchangeInv, IInv, TypeInv, TypeOK
  <2>3. ~Working /\ (Announced => Announced') /\ comm' = comm
    BY <1>1 DEF Working, Announced, Asked
  <2>4. (Overlooked => Overlooked') /\ (Done => Done')
    BY <2>1, <2>3 DEF Overlooked, Done
  <2> QED
    BY <1>1, <2>1, <2>2, <2>3, <2>4 DEF ExchangeInv, DigitsInv, PhaseInv
<1>2. CASE ClearFlag
  <2> USE DEF ClearFlag, ClearAnd
  <2>1. Resting => Resting'
    BY <1>2 DEF Resting
  <2>2. Pending => Working' \/ Overlooked'
    BY <1>2 DEF Pending, Working, Overlooked, Resting, ExchangeInv, IInv, TypeInv, TypeOK
  <2>3. ~Working /\ (Announced => Announced') /\ comm' = comm
    BY <1>2 DEF Working, Announced, Asked
  <2>4. (Overlooked => Overlooked') /\ (Done => Done')
    BY <2>1, <2>3 DEF Overlooked, Done
  <2> QED
    BY <1>2, <2>1, <2>2, <2>3, <2>4 DEF ExchangeInv, DigitsInv, PhaseInv
<1>3. CASE Decode
  <2>1. Working /\ (gpc = "done" \/ cpc = "poll")
    BY <1>3, WorkingIs DEF Decode
  <2>2. Asked'
    <3>1. log_end < DumpLimit /\ log_end \in since..file_end_offset
      BY <2>1, RetrievalAssumption DEF Reliable, Working, ExchangeInv, IInv, TypeInv, TypeOK
    <3>2. PICK n \in Sizes : tmp' = [of |-> "ALL", end |-> log_end, size |-> n]
      <4>1. comm.word = "ALL" /\ ~(log_end >= DumpLimit)
        <5>1. log_end \in Nat /\ DumpLimit \in Nat
          BY <3>1, RetrievalAssumption DEF ExchangeInv, IInv, TypeInv, TypeOK
        <5> QED
          BY <2>1, <3>1, <5>1 DEF Working
      <4>2. \E n \in Sizes : tmp' = [of |-> IF comm.word = "ALL" THEN "ALL" ELSE "FILTER",
                                     end |-> log_end, size |-> n]
        BY <1>3, <4>1 DEF Decode
      <4> QED
        BY <4>1, <4>2
    <3> QED
      BY <1>3, <3>1, <3>2 DEF Decode, Asked
  <2>3. Working'
    BY <1>3, <2>1, <2>2 DEF Decode, Working
  <2> QED
    BY <1>3, <2>1, <2>3 DEF Decode, ExchangeInv, IInv, CommandInv, DigitsInv, PhaseInv
<1>4. CASE CommitResponse
  <2> USE DEF CommitResponse, CommitUpTo
  <2>1. Working /\ (gpc = "done" \/ cpc = "poll")
    BY <1>4, WorkingIs
  <2>2. Working'
    BY <1>4, <2>1 DEF Working, Asked
  <2> QED
    BY <1>4, <2>1, <2>2 DEF ExchangeInv, IInv, CommandInv, DigitsInv, PhaseInv
<1>5. CASE CommitMessage
  <2>1. Working /\ (gpc = "done" \/ cpc = "poll")
    BY <1>5, WorkingIs DEF CommitMessage
  <2>2. Asked /\ tmp.size \in Sizes /\ ~server_request
    BY <1>5, <2>1 DEF CommitMessage, Working, Asked
  <2>3. Over(Digits(tmp.size), comm.digits) = Digits(tmp.size)
        /\ Len(Digits(tmp.size)) = Places
    <3>1. /\ comm.digits \in Seq(Digit)
          /\ comm.digits = <<>> \/ Len(comm.digits) = Places
      BY DEF ExchangeInv, IInv, TypeInv, TypeOK, Texts, Digit, DigitsInv
    <3> QED
      BY <2>2, <3>1, OverSize
  <2>4. comm'.word = "READY" /\ comm'.digits = Digits(tmp.size)
    BY <1>5, <2>3 DEF CommitMessage, Text
  <2>5. Done'
    BY <1>5, <2>2, <2>4 DEF CommitMessage, Done, Announced, Asked, Resting
  <2>6. DigitsInv'
    BY <1>5, <2>3, <2>4 DEF CommitMessage, ExchangeInv, DigitsInv
  <2> QED
    BY <1>5, <2>1, <2>5, <2>6 DEF CommitMessage, ExchangeInv, IInv, CommandInv, PhaseInv
<1> QED
  BY <1>1, <1>2, <1>3, <1>4, <1>5 DEF Library

(* So every step keeps all of it. *)
LEMMA ExchangeStep == Reliable /\ ExchangeInv /\ [Next]_vars => ExchangeInv'
<1> SUFFICES ASSUME Reliable, ExchangeInv, [Next]_vars PROVE ExchangeInv'
  OBVIOUS
<1>1. IInv'
  BY RetrievalStep DEF ExchangeInv
<1>2. DigitsInv' /\ PhaseInv'
  BY ExchangeLog, ExchangeStutter, ExchangeSubmit, ExchangeClient, ExchangeGadget,
     ExchangeLibrary DEF Next
<1> QED
  BY <1>1, <1>2 DEF ExchangeInv

(* What the client records is the whole dump that it was told of. *)
LEMMA AnswerCovers ==
    ASSUME ExchangeInv, Record
    PROVE  Covers' \in since..file_end_offset
<1>1. cpc = "read" /\ Len(hrsp) >= response_size /\ answer' = hrsp
  BY DEF Record
<1>2. /\ Asked /\ response_size = tmp.size /\ hrsp \in Seq(Held) /\ Len(hrsp) <= response_size
      /\ \A i \in 1..Len(hrsp) : hrsp[i] = Sector(tmp, i)
  BY <1>1 DEF ExchangeInv, IInv, TypeInv, TypeOK, PhaseInv, Done, Announced
<1>3. tmp.size \in Nat \ {0}
  BY <1>2, SizesIs DEF Asked
<1>4. Len(hrsp) = tmp.size
  BY <1>1, <1>2, <1>3, LenProperties
<1>5. hrsp = Whole(tmp)
  <2>1. hrsp = [i \in 1..Len(hrsp) |-> hrsp[i]]
    BY <1>2, LenProperties
  <2> QED
    BY <1>2, <1>4, <2>1 DEF Whole
<1>6. hrsp # <<>> /\ hrsp[1].dump = tmp
  <2>1. 1 \in 1..Len(hrsp)
    BY <1>3, <1>4
  <2>2. hrsp[1] = Sector(tmp, 1)
    BY <1>2, <2>1
  <2> QED
    BY <1>3, <1>4, <2>2, EmptySeq DEF Sector
<1>7. Covers' = tmp.end
  BY <1>1, <1>2, <1>5, <1>6 DEF Covers, Asked, Whole, Sector
<1> QED
  BY <1>2, <1>7 DEF Asked

(* Submit asks and Record answers; everything else only lets the log grow.  *)
LEMMA ExchangeMaps ==
    ASSUME ExchangeInv, [Next]_vars
    PROVE  [Exchanged!Next]_(Exchanged!vars)
<1> USE DEF Exchanged!Next, Exchanged!vars
<1>0. cpc \in {"idle", "sending", "poll", "read"}
  BY DEF ExchangeInv, IInv, TypeInv, TypeOK
<1>1. CASE Submit
  <2>1. Covers' = Covers
    BY <1>1 DEF Submit, Covers, Whole, Sector
  <2>2. Exchanged!Ask
    BY <1>1, <2>1 DEF Submit, Exchanged!Ask
  <2> QED
    BY <2>2
<1>2. CASE Record
  <2>1. Covers' \in since..file_end_offset
    BY <1>2, AnswerCovers
  <2>2. Exchanged!Answer
    BY <1>2, <2>1 DEF Record, Exchanged!Answer
  <2> QED
    BY <2>2
<1>3. CASE LogGrows
  <2>1. answer' = answer /\ cpc' = cpc /\ since' = since
    BY <1>3 DEF LogGrows, clientVars
  <2>2. Covers' = Covers
    BY <2>1 DEF Covers, Whole, Sector
  <2>3. Exchanged!Grow
    BY <1>3, <2>1, <2>2 DEF LogGrows, Exchanged!Grow
  <2> QED
    BY <2>3
<1>4. ASSUME UNCHANGED <<answer, since, file_end_offset>>, (cpc # "idle") = (cpc # "idle")'
      PROVE  UNCHANGED Exchanged!vars
  <2>1. Covers' = Covers
    BY <1>4 DEF Covers, Whole, Sector
  <2> QED
    BY <1>4, <2>1
<1>5. CASE Sent \/ Poll \/ ReadSector
  BY <1>4, <1>5 DEF Sent, Poll, ReadSector
<1>6. CASE Gadget \/ Library \/ UNCHANGED vars
  <2>1. UNCHANGED <<clientVars, file_end_offset>>
    BY <1>6 DEF Gadget, StoreCommand, FlagCommand, Library, CheckFlag, CheckFlagAt, ClearFlag,
                ClearAnd, Decode, CommitResponse, CommitUpTo, CommitMessage, vars
  <2> QED
    BY <1>4, <2>1 DEF clientVars
<1> QED
  BY <1>1, <1>2, <1>3, <1>5, <1>6 DEF Next, Client

(* ImplementsExchange: while no command fails, no dump is refused and sizes *)
(* have one length, each answer is one whole dump of a log at least as long *)
(* as when the client asked.                                                *)
THEOREM AnswersCover == ASSUME Reliable PROVE Spec => ImplementsExchange
<1>1. Init => Exchanged!Init
  BY DEF Init, Exchanged!Init, Covers
<1>2. Init => ExchangeInv
  BY ExchangeInit
<1>3. ExchangeInv /\ [Next]_vars => ExchangeInv'
  BY ExchangeStep
<1>4. ExchangeInv /\ [Next]_vars => [Exchanged!Next]_(Exchanged!vars)
  BY ExchangeMaps
<1> QED
  BY <1>1, <1>2, <1>3, <1>4, PTL DEF Spec, ImplementsExchange, Exchanged!Spec
=============================================================================
