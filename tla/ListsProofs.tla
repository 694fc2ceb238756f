----------------------------- MODULE ListsProofs -----------------------------
(***************************************************************************)
(* Facts about sequences that the proofs of catalogues and documents need. *)
(* The library's induction principle takes an operator; the same is stated *)
(* here of a set of numbers, from the library's theorem that the natural   *)
(* numbers are well founded.                                               *)
(***************************************************************************)
EXTENDS Lists, Integers, SequenceTheorems, FiniteSetTheorems, TLAPS

-----------------------------------------------------------------------------
(* Induction and recursion.                                                *)

\* A set of natural numbers has a least element.
LEMMA NatLeast ==
  ASSUME NEW S \in SUBSET Nat, S # {}
  PROVE  \E n \in S : \A m \in S : n <= m
<1> DEFINE Less == OpToRel(<, Nat)
<1>1. \A x, y \in Nat : <<x, y>> \in Less <=> x < y
  BY DEF OpToRel
<1>2. IsWellFoundedOn(Less, Nat)
  BY NatLessThanWellFounded
<1> HIDE DEF Less
<1>3. \E x \in S : \A y \in S : ~ (<<y, x>> \in Less)
  BY <1>2, WFMin
<1>4. PICK x \in S : \A y \in S : ~ (<<y, x>> \in Less)
  BY <1>3
<1>5. \A y \in S : ~ (y < x)
  BY <1>1, <1>4
<1> QED
  BY <1>5

\* A set with 0 and the successors of its numbers has all natural numbers.
LEMMA NatAll ==
  ASSUME NEW S, 0 \in S, \A n \in Nat : n \in S => n + 1 \in S
  PROVE  \A n \in Nat : n \in S
<1> DEFINE T == {n \in Nat : n \notin S}
<1>1. SUFFICES ASSUME T # {} PROVE FALSE
  OBVIOUS
<1>2. PICK n \in T : \A m \in T : n <= m
  <2>1. T \in SUBSET Nat
    OBVIOUS
  <2> HIDE DEF T
  <2> QED
    BY <1>1, <2>1, NatLeast
<1>3. n # 0
  OBVIOUS
<1>4. n - 1 \in Nat /\ n - 1 \notin T
  BY <1>2, <1>3
<1>5. n - 1 \in S
  BY <1>4
<1>6. (n - 1) + 1 \in S
  BY <1>4, <1>5
<1> QED
  BY <1>6, <1>2

\* The same up to a number.
LEMMA UpToAll ==
  ASSUME NEW S, NEW n \in Nat, 0 \in S, \A i \in 0..n - 1 : i \in S => i + 1 \in S
  PROVE  \A i \in 0..n : i \in S
<1> DEFINE T == {i \in Nat : i <= n => i \in S}
<1>1. 0 \in T
  OBVIOUS
<1>2. \A i \in Nat : i \in T => i + 1 \in T
  OBVIOUS
<1>3. \A i \in Nat : i \in T
  <2> HIDE DEF T
  <2> QED
    BY <1>1, <1>2, NatAll
<1> QED
  BY <1>3

\* What is defined step by step along an interval exists.
HasRun(A, n, base, step) ==
    \E g \in [0..n -> A] : g[0] = base /\ \A i \in 1..n : g[i] = step[i][g[i - 1]]

\* A function defined turn by turn, up to a number, exists.
LEMMA Recursion ==
  ASSUME NEW A, NEW n \in Nat, NEW base \in A, NEW step,
         \A a \in A, i \in 1..n : step[i][a] \in A
  PROVE  HasRun(A, n, base, step)
<1> DEFINE Up(m, g) == /\ g[0] = base
                       /\ \A i \in 1..m : g[i] = step[i][g[i - 1]]
           S == {m \in Nat : m <= n => \E g \in [0..m -> A] : Up(m, g)}
<1>1. 0 \in S
  <2>1. [i \in 0..0 |-> base] \in [0..0 -> A] /\ Up(0, [i \in 0..0 |-> base])
    OBVIOUS
  <2> QED
    BY <2>1
<1>2. ASSUME NEW m \in Nat, m \in S PROVE m + 1 \in S
  <2>1. SUFFICES ASSUME m + 1 <= n PROVE \E h \in [0..m + 1 -> A] : Up(m + 1, h)
    OBVIOUS
  <2>2. PICK g \in [0..m -> A] : Up(m, g)
    BY <1>2, <2>1
  <2> DEFINE h == [i \in 0..m + 1 |-> IF i = m + 1 THEN step[m + 1][g[m]] ELSE g[i]]
  <2>3. g[m] \in A /\ m + 1 \in 1..n
    BY <2>1
  <2>4. h \in [0..m + 1 -> A]
    BY <2>3
  <2>5. \A i \in 1..m + 1 : h[i] = step[i][h[i - 1]]
    <3> TAKE i \in 1..m + 1
    <3>1. CASE i = m + 1
      <4>1. i - 1 = m /\ m \in 0..m + 1 /\ m # m + 1
        BY <3>1
      <4>2. h[i - 1] = g[m]
        BY <4>1
      <4> QED
        BY <3>1, <4>1, <4>2
    <3>2. CASE i # m + 1
      <4>1. i \in 1..m /\ i - 1 \in 0..m /\ i - 1 # m + 1
        BY <3>2
      <4>2. h[i] = g[i] /\ h[i - 1] = g[i - 1]
        BY <4>1
      <4>3. g[i] = step[i][g[i - 1]]
        BY <2>2, <4>1
      <4> QED
        BY <4>2, <4>3
    <3> QED
      BY <3>1, <3>2
  <2>6. h[0] = base
    BY <2>2
  <2> QED
    BY <2>4, <2>5, <2>6
<1>3. \A m \in Nat : m \in S
  <2> HIDE DEF S
  <2> QED
    BY <1>1, <1>2, NatAll
<1>4. n \in S
  BY <1>3
<1> QED
  BY <1>4 DEF HasRun

-----------------------------------------------------------------------------
(* At.                                                                     *)

\* At builds its result position by position.
AtRun(S, s, K) ==
    \E f \in [0..Len(s) -> Seq(S)] :
       /\ f[0] = <<>>
       /\ \A i \in 1..Len(s) :
            f[i] = IF i \in K THEN Append(f[i - 1], s[i]) ELSE f[i - 1]
       /\ At(s, K) = f[Len(s)]

\* At goes through the positions one by one.
LEMMA AtRuns ==
  ASSUME NEW S, NEW s \in Seq(S), NEW K
  PROVE  AtRun(S, s, K)
<1> DEFINE n == Len(s)
           A == Seq(S)
           base == <<>>
           Turn(a, i) == IF i \in K THEN Append(a, s[i]) ELSE a
           step == [i \in 1..n |-> [a \in A |-> Turn(a, i)]]
           Rec(h) == h = [i \in 0..n |-> IF i = 0 THEN base ELSE Turn(h[i - 1], i)]
           f == CHOOSE h : Rec(h)
<1>1. n \in Nat /\ base \in A
  OBVIOUS
<1>2. \A a \in A, i \in 1..n : Turn(a, i) \in A
  BY AppendProperties
<1>3. At(s, K) = f[n]
  BY DEF At
<1> HIDE DEF n, A, base, Turn, f
<1>4. \E g \in [0..n -> A] : g[0] = base /\ \A i \in 1..n : g[i] = Turn(g[i - 1], i)
  <2>1. \A a \in A, i \in 1..n : step[i][a] = Turn(a, i)
    OBVIOUS
  <2>2. \A a \in A, i \in 1..n : step[i][a] \in A
    BY <1>2, <2>1
  <2> HIDE DEF step
  <2>3. PICK g \in [0..n -> A] :
             g[0] = base /\ \A i \in 1..n : g[i] = step[i][g[i - 1]]
    <3>1. HasRun(A, n, base, step)
      BY <1>1, <2>2, Recursion
    <3> QED
      BY <3>1 DEF HasRun
  <2>4. \A i \in 1..n : g[i - 1] \in A
    BY <1>1
  <2> QED
    BY <2>1, <2>3, <2>4
<1>5. PICK g \in [0..n -> A] : g[0] = base /\ \A i \in 1..n : g[i] = Turn(g[i - 1], i)
  BY <1>4
<1>6. Rec(g)
  BY <1>1, <1>5
<1>7. Rec(f)
  <2> HIDE DEF Rec
  <2> QED
    BY <1>6 DEF f
<1>8. f[0] = base /\ \A i \in 1..n : f[i] = Turn(f[i - 1], i)
  BY <1>1, <1>7
<1>9. \A i \in 0..n : f[i] = g[i]
  <2> DEFINE T == {i \in Nat : f[i] = g[i]}
  <2>1. 0 \in T
    BY <1>5, <1>8
  <2>2. ASSUME NEW i \in 0..n - 1, i \in T PROVE i + 1 \in T
    <3>1. i + 1 \in 1..n /\ (i + 1) - 1 = i
      BY <1>1
    <3> QED
      BY <1>5, <1>8, <2>2, <3>1
  <2> HIDE DEF T
  <2>3. \A i \in 0..n : i \in T
    BY <1>1, <2>1, <2>2, UpToAll
  <2> QED
    BY <2>3 DEF T
<1>10. At(s, K) = g[n]
  BY <1>1, <1>3, <1>9
<1> QED
  BY <1>5, <1>10 DEF AtRun, n, A, base, Turn

-----------------------------------------------------------------------------
(* Sum and Distinct.                                                       *)

\* Sum adds position by position.
LEMMA SumRuns ==
  ASSUME NEW s \in Seq(Nat)
  PROVE  \E f \in [0..Len(s) -> Nat] :
            /\ f[0] = 0
            /\ \A i \in 1..Len(s) : f[i] = f[i - 1] + s[i]
            /\ Sum(s) = f[Len(s)]
<1> DEFINE n == Len(s)
           A == Nat
           base == 0
           Turn(a, i) == a + s[i]
           step == [i \in 1..n |-> [a \in A |-> Turn(a, i)]]
           Rec(h) == h = [i \in 0..n |-> IF i = 0 THEN base ELSE Turn(h[i - 1], i)]
           f == CHOOSE h : Rec(h)
<1>1. n \in Nat /\ base \in A
  OBVIOUS
<1>2. \A a \in A, i \in 1..n : Turn(a, i) \in A
  OBVIOUS
<1>3. Sum(s) = f[n]
  BY DEF Sum
<1> HIDE DEF n, A, base, Turn, f
<1>4. \E g \in [0..n -> A] : g[0] = base /\ \A i \in 1..n : g[i] = Turn(g[i - 1], i)
  <2>1. \A a \in A, i \in 1..n : step[i][a] = Turn(a, i)
    OBVIOUS
  <2>2. \A a \in A, i \in 1..n : step[i][a] \in A
    BY <1>2, <2>1
  <2> HIDE DEF step
  <2>3. HasRun(A, n, base, step)
    BY <1>1, <2>2, Recursion
  <2>4. PICK g \in [0..n -> A] :
             g[0] = base /\ \A i \in 1..n : g[i] = step[i][g[i - 1]]
    BY <2>3 DEF HasRun
  <2>5. \A i \in 1..n : g[i - 1] \in A
    BY <1>1
  <2> QED
    BY <2>1, <2>4, <2>5
<1>5. PICK g \in [0..n -> A] : g[0] = base /\ \A i \in 1..n : g[i] = Turn(g[i - 1], i)
  BY <1>4
<1>6. Rec(g)
  BY <1>1, <1>5
<1>7. Rec(f)
  <2> HIDE DEF Rec
  <2> QED
    BY <1>6 DEF f
<1>8. f[0] = base /\ \A i \in 1..n : f[i] = Turn(f[i - 1], i)
  BY <1>1, <1>7
<1>9. \A i \in 0..n : f[i] = g[i]
  <2> DEFINE T == {i \in Nat : f[i] = g[i]}
  <2>1. 0 \in T
    BY <1>5, <1>8
  <2>2. ASSUME NEW i \in 0..n - 1, i \in T PROVE i + 1 \in T
    <3>1. i + 1 \in 1..n /\ (i + 1) - 1 = i
      BY <1>1
    <3> QED
      BY <1>5, <1>8, <2>2, <3>1
  <2> HIDE DEF T
  <2>3. \A i \in 0..n : i \in T
    BY <1>1, <2>1, <2>2, UpToAll
  <2> QED
    BY <2>3 DEF T
<1>10. Sum(s) = g[n]
  BY <1>1, <1>3, <1>9
<1> QED
  BY <1>5, <1>10 DEF n, A, base, Turn

\* Distinct builds its result position by position.
LEMMA DistinctRuns ==
  ASSUME NEW S, NEW s \in Seq(S)
  PROVE  \E f \in [0..Len(s) -> Seq(S)] :
            /\ f[0] = <<>>
            /\ \A i \in 1..Len(s) : f[i] = Added(f[i - 1], s[i])
            /\ Distinct(s) = f[Len(s)]
<1> DEFINE n == Len(s)
           A == Seq(S)
           base == <<>>
           Turn(a, i) == Added(a, s[i])
           step == [i \in 1..n |-> [a \in A |-> Turn(a, i)]]
           Rec(h) == h = [i \in 0..n |-> IF i = 0 THEN base ELSE Turn(h[i - 1], i)]
           f == CHOOSE h : Rec(h)
<1>1. n \in Nat /\ base \in A
  OBVIOUS
<1>2. \A a \in A, i \in 1..n : Turn(a, i) \in A
  BY AppendProperties DEF Added
<1>3. Distinct(s) = f[n]
  BY DEF Distinct
<1> HIDE DEF n, A, base, Turn, f
<1>4. \E g \in [0..n -> A] : g[0] = base /\ \A i \in 1..n : g[i] = Turn(g[i - 1], i)
  <2>1. \A a \in A, i \in 1..n : step[i][a] = Turn(a, i)
    OBVIOUS
  <2>2. \A a \in A, i \in 1..n : step[i][a] \in A
    BY <1>2, <2>1
  <2> HIDE DEF step
  <2>3. HasRun(A, n, base, step)
    BY <1>1, <2>2, Recursion
  <2>4. PICK g \in [0..n -> A] :
             g[0] = base /\ \A i \in 1..n : g[i] = step[i][g[i - 1]]
    BY <2>3 DEF HasRun
  <2>5. \A i \in 1..n : g[i - 1] \in A
    BY <1>1
  <2> QED
    BY <2>1, <2>4, <2>5
<1>5. PICK g \in [0..n -> A] : g[0] = base /\ \A i \in 1..n : g[i] = Turn(g[i - 1], i)
  BY <1>4
<1>6. Rec(g)
  BY <1>1, <1>5
<1>7. Rec(f)
  <2> HIDE DEF Rec
  <2> QED
    BY <1>6 DEF f
<1>8. f[0] = base /\ \A i \in 1..n : f[i] = Turn(f[i - 1], i)
  BY <1>1, <1>7
<1>9. \A i \in 0..n : f[i] = g[i]
  <2> DEFINE T == {i \in Nat : f[i] = g[i]}
  <2>1. 0 \in T
    BY <1>5, <1>8
  <2>2. ASSUME NEW i \in 0..n - 1, i \in T PROVE i + 1 \in T
    <3>1. i + 1 \in 1..n /\ (i + 1) - 1 = i
      BY <1>1
    <3> QED
      BY <1>5, <1>8, <2>2, <3>1
  <2> HIDE DEF T
  <2>3. \A i \in 0..n : i \in T
    BY <1>1, <2>1, <2>2, UpToAll
  <2> QED
    BY <2>3 DEF T
<1>10. Distinct(s) = g[n]
  BY <1>1, <1>3, <1>9
<1> QED
  BY <1>5, <1>10 DEF n, A, base, Turn

LEMMA SumEmpty == Sum(<<>>) = 0
<1>1. <<>> \in Seq(Nat) /\ Len(<<>>) = 0
  OBVIOUS
<1> QED
  BY <1>1, SumRuns

\* Sums add up.
LEMMA SumConcat ==
  ASSUME NEW s \in Seq(Nat), NEW t \in Seq(Nat)
  PROVE  Sum(s \o t) = Sum(s) + Sum(t)
<1> DEFINE u == s \o t
           m == Len(s)
           n == Len(t)
<1>1. /\ m \in Nat /\ n \in Nat /\ u \in Seq(Nat) /\ Len(u) = m + n
      /\ \A i \in 1..m + n : u[i] = IF i <= m THEN s[i] ELSE t[i - m]
      /\ \A i \in 1..n : t[i] \in Nat
  BY ConcatProperties
<1> HIDE DEF u, m, n
<1>2. PICK f \in [0..m -> Nat] :
           f[0] = 0 /\ (\A i \in 1..m : f[i] = f[i - 1] + s[i]) /\ Sum(s) = f[m]
  BY SumRuns DEF m
<1>3. PICK g \in [0..n -> Nat] :
           g[0] = 0 /\ (\A i \in 1..n : g[i] = g[i - 1] + t[i]) /\ Sum(t) = g[n]
  BY SumRuns DEF n
<1>4. PICK h \in [0..m + n -> Nat] :
           /\ h[0] = 0 /\ (\A i \in 1..m + n : h[i] = h[i - 1] + u[i])
           /\ Sum(u) = h[m + n]
  BY <1>1, SumRuns
<1>5. \A i \in 0..m : h[i] = f[i]
  <2> DEFINE T == {i \in Nat : h[i] = f[i]}
  <2>1. 0 \in T
    BY <1>2, <1>4
  <2>2. ASSUME NEW i \in 0..m - 1, i \in T PROVE i + 1 \in T
    <3>1. i + 1 \in 1..m /\ i + 1 \in 1..m + n /\ (i + 1) - 1 = i
      BY <1>1
    <3>2. u[i + 1] = s[i + 1]
      <4>1. i + 1 <= m
        BY <3>1
      <4> QED
        BY <1>1, <3>1, <4>1
    <3> QED
      BY <1>2, <1>4, <2>2, <3>1, <3>2
  <2> HIDE DEF T
  <2>3. \A i \in 0..m : i \in T
    BY <1>1, <2>1, <2>2, UpToAll
  <2> QED
    BY <2>3 DEF T
<1>6. \A i \in 0..n : h[m + i] = f[m] + g[i]
  <2> DEFINE T == {i \in Nat : h[m + i] = f[m] + g[i]}
  <2>1. 0 \in T
    BY <1>1, <1>2, <1>3, <1>5
  <2>2. ASSUME NEW i \in 0..n - 1, i \in T PROVE i + 1 \in T
    <3>1. /\ i + 1 \in 1..n /\ (i + 1) - 1 = i
          /\ m + (i + 1) \in 1..m + n /\ (m + (i + 1)) - 1 = m + i
      BY <1>1
    <3>2. u[m + (i + 1)] = t[i + 1]
      <4>1. ~ (m + (i + 1) <= m) /\ (m + (i + 1)) - m = i + 1
        BY <1>1
      <4> QED
        BY <1>1, <3>1, <4>1
    <3>3. h[m + (i + 1)] = h[m + i] + t[i + 1]
      BY <1>4, <3>1, <3>2
    <3>4. g[i + 1] = g[i] + t[i + 1]
      BY <1>3, <3>1
    <3>5. f[m] \in Nat
      BY <1>1
    <3>6. g[i] \in Nat
      <4>1. i \in 0..n
        BY <1>1
      <4> HIDE DEF n, m, T
      <4> QED
        BY <4>1
    <3>7. t[i + 1] \in Nat
      BY <1>1, <3>1
    <3> QED
      BY <2>2, <3>3, <3>4, <3>5, <3>6, <3>7
  <2> HIDE DEF T
  <2>3. \A i \in 0..n : i \in T
    BY <1>1, <2>1, <2>2, UpToAll
  <2> QED
    BY <2>3 DEF T
<1>7. Sum(u) = f[m] + g[n]
  BY <1>1, <1>4, <1>6
<1> QED
  BY <1>2, <1>3, <1>7 DEF u

LEMMA SumOne ==
  ASSUME NEW x \in Nat
  PROVE  Sum(<<x>>) = x
<1>1. <<x>> \in Seq(Nat) /\ Len(<<x>>) = 1 /\ <<x>>[1] = x
  OBVIOUS
<1>2. PICK f \in [0..1 -> Nat] :
           f[0] = 0 /\ (\A i \in 1..1 : f[i] = f[i - 1] + <<x>>[i]) /\ Sum(<<x>>) = f[1]
  BY <1>1, SumRuns
<1> QED
  BY <1>1, <1>2

LEMMA SumType ==
  ASSUME NEW s \in Seq(Nat)
  PROVE  Sum(s) \in Nat
BY SumRuns

-----------------------------------------------------------------------------
(* FlattenSeq.                                                             *)

\* FlattenSeq joins position by position.
LEMMA FlattenRuns ==
  ASSUME NEW S, NEW s \in Seq(Seq(S))
  PROVE  \E f \in [0..Len(s) -> Seq(S)] :
            /\ f[0] = <<>>
            /\ \A i \in 1..Len(s) : f[i] = f[i - 1] \o s[i]
            /\ FlattenSeq(s) = f[Len(s)]
<1> DEFINE n == Len(s)
           A == Seq(S)
           base == <<>>
           Turn(a, i) == a \o s[i]
           step == [i \in 1..n |-> [a \in A |-> Turn(a, i)]]
           Rec(h) == h = [i \in 1..n |-> IF i = 1 THEN s[i] ELSE h[i - 1] \o s[i]]
           f == CHOOSE h : Rec(h)
<1>1. n \in Nat /\ base \in A
  OBVIOUS
<1>2. \A a \in A, i \in 1..n : Turn(a, i) \in A
  BY ConcatProperties
<1>3. \A i \in 1..n : s[i] \in A /\ Turn(base, i) = s[i]
  BY ConcatEmptySeq
<1>4. n = 0 => FlattenSeq(s) = base
  BY DEF FlattenSeq
<1>5. n # 0 => FlattenSeq(s) = f[n]
  BY DEF FlattenSeq
<1>6. \A h : Rec(h) <=> h = [i \in 1..n |-> IF i = 1 THEN s[i] ELSE Turn(h[i - 1], i)]
  OBVIOUS
<1> HIDE DEF n, A, base, Turn, f, Rec
<1>7. \E g \in [0..n -> A] : g[0] = base /\ \A i \in 1..n : g[i] = Turn(g[i - 1], i)
  <2>1. \A a \in A, i \in 1..n : step[i][a] = Turn(a, i)
    OBVIOUS
  <2>2. \A a \in A, i \in 1..n : step[i][a] \in A
    BY <1>2, <2>1
  <2> HIDE DEF step
  <2>3. HasRun(A, n, base, step)
    BY <1>1, <2>2, Recursion
  <2>4. PICK g \in [0..n -> A] :
             g[0] = base /\ \A i \in 1..n : g[i] = step[i][g[i - 1]]
    BY <2>3 DEF HasRun
  <2>5. \A i \in 1..n : g[i - 1] \in A
    BY <1>1
  <2> QED
    BY <2>1, <2>4, <2>5
<1>8. PICK g \in [0..n -> A] : g[0] = base /\ \A i \in 1..n : g[i] = Turn(g[i - 1], i)
  BY <1>7
<1>9. Rec([i \in 1..n |-> g[i]])
  <2> DEFINE h == [i \in 1..n |-> g[i]]
  <2>1. \A i \in 1..n : h[i] = IF i = 1 THEN s[i] ELSE Turn(h[i - 1], i)
    <3> TAKE i \in 1..n
    <3>1. CASE i = 1
      BY <1>1, <1>3, <1>8, <3>1
    <3>2. CASE i # 1
      <4>1. i - 1 \in 1..n
        BY <1>1, <3>2
      <4> QED
        BY <1>8, <3>2, <4>1
    <3> QED
      BY <3>1, <3>2
  <2> QED
    BY <1>6, <2>1
<1>10. Rec(f)
  BY <1>9 DEF f
<1>11. \A i \in 1..n : f[i] = IF i = 1 THEN s[i] ELSE Turn(f[i - 1], i)
  BY <1>6, <1>10
<1>12. \A i \in 0..n : i > 0 => f[i] = g[i]
  <2> DEFINE T == {i \in Nat : i > 0 => f[i] = g[i]}
  <2>1. 0 \in T
    OBVIOUS
  <2>2. ASSUME NEW i \in 0..n - 1, i \in T PROVE i + 1 \in T
    <3>1. i + 1 \in 1..n /\ (i + 1) - 1 = i
      BY <1>1
    <3>2. g[i + 1] = Turn(g[i], i + 1)
      BY <1>8, <3>1
    <3>3. CASE i = 0
      BY <1>3, <1>8, <1>11, <3>1, <3>2, <3>3
    <3>4. CASE i # 0
      <4>1. f[i + 1] = Turn(f[i], i + 1)
        BY <1>11, <3>1, <3>4
      <4> QED
        BY <2>2, <3>2, <3>4, <4>1
    <3> QED
      BY <3>3, <3>4
  <2> HIDE DEF T
  <2>3. \A i \in 0..n : i \in T
    BY <1>1, <2>1, <2>2, UpToAll
  <2> QED
    BY <2>3 DEF T
<1>13. FlattenSeq(s) = g[n]
  BY <1>1, <1>4, <1>5, <1>8, <1>12
<1> QED
  BY <1>8, <1>13 DEF n, A, base, Turn

LEMMA FlattenType ==
  ASSUME NEW S, NEW s \in Seq(Seq(S))
  PROVE  FlattenSeq(s) \in Seq(S)
<1>1. PICK f \in [0..Len(s) -> Seq(S)] : FlattenSeq(s) = f[Len(s)]
  BY FlattenRuns
<1> QED
  BY <1>1

LEMMA FlattenEmpty == FlattenSeq(<<>>) = <<>>
<1> DEFINE s == <<>>
<1>1. s \in Seq(Seq({})) /\ Len(s) = 0
  OBVIOUS
<1> HIDE DEF s
<1>2. PICK f \in [0..Len(s) -> Seq({})] : f[0] = <<>> /\ FlattenSeq(s) = f[Len(s)]
  BY <1>1, FlattenRuns
<1>3. FlattenSeq(s) = <<>>
  BY <1>1, <1>2
<1> QED
  BY <1>3 DEF s

LEMMA FlattenOne ==
  ASSUME NEW S, NEW x \in Seq(S)
  PROVE  FlattenSeq(<<x>>) = x
<1>1. <<x>> \in Seq(Seq(S)) /\ Len(<<x>>) = 1 /\ <<x>>[1] = x
  OBVIOUS
<1>2. PICK f \in [0..1 -> Seq(S)] :
           /\ f[0] = <<>> /\ (\A i \in 1..1 : f[i] = f[i - 1] \o <<x>>[i])
           /\ FlattenSeq(<<x>>) = f[1]
  BY <1>1, FlattenRuns
<1>3. f[1] = <<>> \o x
  BY <1>1, <1>2
<1> QED
  BY <1>2, <1>3, ConcatEmptySeq

\* Joining two sequences of sequences joins what they hold.
LEMMA FlattenConcat ==
  ASSUME NEW S, NEW s \in Seq(Seq(S)), NEW t \in Seq(Seq(S))
  PROVE  FlattenSeq(s \o t) = FlattenSeq(s) \o FlattenSeq(t)
<1> DEFINE u == s \o t
           m == Len(s)
           n == Len(t)
           A == Seq(S)
<1>0. \A x, y, z \in A : (x \o y) \o z = x \o (y \o z)
  <2>1. ASSUME NEW x \in Seq(S), NEW y \in Seq(S), NEW z \in Seq(S)
        PROVE  (x \o y) \o z = x \o (y \o z)
    BY ConcatAssociative
  <2> QED
    BY <2>1
<1>1. /\ m \in Nat /\ n \in Nat /\ u \in Seq(A) /\ Len(u) = m + n
      /\ \A i \in 1..m + n : u[i] = IF i <= m THEN s[i] ELSE t[i - m]
      /\ \A i \in 1..n : t[i] \in A
      /\ <<>> \in A
  BY ConcatProperties
<1> HIDE DEF u, m, n
<1>2. PICK f \in [0..m -> A] :
           f[0] = <<>> /\ (\A i \in 1..m : f[i] = f[i - 1] \o s[i]) /\ FlattenSeq(s) = f[m]
  BY FlattenRuns DEF m
<1>3. PICK g \in [0..n -> A] :
           g[0] = <<>> /\ (\A i \in 1..n : g[i] = g[i - 1] \o t[i]) /\ FlattenSeq(t) = g[n]
  BY FlattenRuns DEF n
<1>4. PICK h \in [0..m + n -> A] :
           /\ h[0] = <<>> /\ (\A i \in 1..m + n : h[i] = h[i - 1] \o u[i])
           /\ FlattenSeq(u) = h[m + n]
  <2>1. PICK h \in [0..Len(u) -> Seq(S)] :
             /\ h[0] = <<>> /\ (\A i \in 1..Len(u) : h[i] = h[i - 1] \o u[i])
             /\ FlattenSeq(u) = h[Len(u)]
    BY <1>1, FlattenRuns
  <2> QED
    BY <1>1, <2>1
<1>5. \A i \in 0..m : h[i] = f[i]
  <2> DEFINE T == {i \in Nat : h[i] = f[i]}
  <2>1. 0 \in T
    BY <1>2, <1>4
  <2>2. ASSUME NEW i \in 0..m - 1, i \in T PROVE i + 1 \in T
    <3>1. i + 1 \in 1..m /\ i + 1 \in 1..m + n /\ (i + 1) - 1 = i
      BY <1>1
    <3>2. u[i + 1] = s[i + 1]
      <4>1. i + 1 <= m
        BY <3>1
      <4> QED
        BY <1>1, <3>1, <4>1
    <3>3. h[i + 1] = h[i] \o s[i + 1] /\ f[i + 1] = f[i] \o s[i + 1]
      BY <1>2, <1>4, <3>1, <3>2
    <3>4. h[i] = f[i] /\ i + 1 \in Nat
      BY <1>1, <2>2
    <3> QED
      BY <3>3, <3>4, Zenon
  <2> HIDE DEF T
  <2>3. \A i \in 0..m : i \in T
    BY <1>1, <2>1, <2>2, UpToAll
  <2> QED
    BY <2>3 DEF T
<1>6. \A i \in 0..n : h[m + i] = f[m] \o g[i]
  <2> DEFINE T == {i \in Nat : h[m + i] = f[m] \o g[i]}
  <2>0. f[m] \in A
    BY <1>1
  <2>1. 0 \in T
    <3>1. h[m + 0] = f[m] /\ g[0] = <<>>
      BY <1>1, <1>3, <1>5
    <3> QED
      BY <2>0, <3>1, ConcatEmptySeq
  <2>2. ASSUME NEW i \in 0..n - 1, i \in T PROVE i + 1 \in T
    <3>1. /\ i + 1 \in 1..n /\ (i + 1) - 1 = i
          /\ m + (i + 1) \in 1..m + n /\ (m + (i + 1)) - 1 = m + i
      BY <1>1
    <3>2. u[m + (i + 1)] = t[i + 1]
      <4>1. ~ (m + (i + 1) <= m) /\ (m + (i + 1)) - m = i + 1
        BY <1>1
      <4> QED
        BY <1>1, <3>1, <4>1
    <3>3. h[m + (i + 1)] = h[m + i] \o t[i + 1]
      BY <1>4, <3>1, <3>2
    <3>4. g[i + 1] = g[i] \o t[i + 1]
      BY <1>3, <3>1
    <3>5. g[i] \in A
      BY <1>1
    <3>6. t[i + 1] \in A
      BY <1>1, <3>1
    <3>7. (f[m] \o g[i]) \o t[i + 1] = f[m] \o (g[i] \o t[i + 1])
      <4> HIDE DEF A
      <4> QED
        BY <1>0, <2>0, <3>5, <3>6, Zenon
    <3>8. h[m + i] = f[m] \o g[i]
      BY <2>2
    <3>9. h[m + (i + 1)] = f[m] \o g[i + 1]
      BY <3>3, <3>4, <3>7, <3>8, Zenon
    <3>10. i + 1 \in Nat
      BY <1>1
    <3> QED
      BY <3>9, <3>10, Zenon
  <2> HIDE DEF T
  <2>3. \A i \in 0..n : i \in T
    BY <1>1, <2>1, <2>2, UpToAll
  <2> QED
    BY <2>3 DEF T
<1>7. FlattenSeq(u) = f[m] \o g[n]
  <2>1. n \in 0..n
    BY <1>1
  <2> QED
    BY <1>4, <1>6, <2>1, Zenon
<1> QED
  BY <1>2, <1>3, <1>7 DEF u

LEMMA FlattenAppend ==
  ASSUME NEW S, NEW s \in Seq(Seq(S)), NEW x \in Seq(S)
  PROVE  FlattenSeq(Append(s, x)) = FlattenSeq(s) \o x
<1>1. Append(s, x) = s \o <<x>>
  BY AppendIsConcat
<1>2. <<x>> \in Seq(Seq(S))
  OBVIOUS
<1>3. FlattenSeq(s \o <<x>>) = FlattenSeq(s) \o FlattenSeq(<<x>>)
  BY <1>2, FlattenConcat
<1>4. FlattenSeq(<<x>>) = x
  BY FlattenOne
<1> QED
  BY <1>1, <1>3, <1>4, Zenon

\* A sequence taken apart and joined again.
LEMMA FlattenSingletons ==
  ASSUME NEW S, NEW s \in Seq(S)
  PROVE  FlattenSeq([i \in 1..Len(s) |-> <<s[i]>>]) = s
<1> DEFINE n == Len(s)
           v == [i \in 1..n |-> <<s[i]>>]
<1>1. n \in Nat /\ s = [i \in 1..n |-> s[i]]
  OBVIOUS
<1>2. v \in Seq(Seq(S)) /\ Len(v) = n /\ \A i \in 1..n : v[i] = <<s[i]>>
  OBVIOUS
<1>3. \A i \in 1..n : s[i] \in S
  OBVIOUS
<1> HIDE DEF n, v
<1>4. PICK f \in [0..n -> Seq(S)] :
           /\ f[0] = <<>> /\ (\A i \in 1..n : f[i] = f[i - 1] \o v[i])
           /\ FlattenSeq(v) = f[n]
  BY <1>2, FlattenRuns
<1>5. \A i \in 0..n : f[i] = [j \in 1..i |-> s[j]]
  <2> DEFINE T == {i \in Nat : f[i] = [j \in 1..i |-> s[j]]}
  <2>1. 0 \in T
    BY <1>4
  <2>2. ASSUME NEW i \in 0..n - 1, i \in T PROVE i + 1 \in T
    <3>1. i + 1 \in 1..n /\ (i + 1) - 1 = i
      BY <1>1
    <3>2. f[i + 1] = f[i] \o <<s[i + 1]>>
      BY <1>2, <1>4, <3>1
    <3>3. f[i] = [j \in 1..i |-> s[j]]
      BY <2>2
    <3>4. [j \in 1..i |-> s[j]] \o <<s[i + 1]>> = [j \in 1..i + 1 |-> s[j]]
      <4>1. i \in Nat
        BY <1>1
      <4> QED
        BY <4>1
    <3>5. i + 1 \in Nat
      BY <1>1
    <3>6. f[i + 1] = [j \in 1..i + 1 |-> s[j]]
      BY <3>2, <3>3, <3>4, Zenon
    <3> QED
      BY <3>5, <3>6, Zenon
  <2> HIDE DEF T
  <2>3. \A i \in 0..n : i \in T
    BY <1>1, <2>1, <2>2, UpToAll
  <2> QED
    BY <2>3 DEF T
<1>6. FlattenSeq(v) = [j \in 1..n |-> s[j]]
  <2>1. n \in 0..n
    BY <1>1
  <2> QED
    BY <1>4, <1>5, <2>1, Zenon
<1> QED
  BY <1>1, <1>6 DEF v, n

-----------------------------------------------------------------------------
(* What At and Distinct select.                                            *)

LEMMA UpToFinite ==
  ASSUME NEW n \in Nat, NEW K
  PROVE  IsFiniteSet(K \cap 1..n) /\ Cardinality(K \cap 1..n) \in Nat
<1>1. IsFiniteSet(1..n)
  BY FS_Interval
<1>2. IsFiniteSet(K \cap 1..n)
  BY <1>1, FS_Subset
<1> QED
  BY <1>2, FS_CardinalityType

\* How many of the first n numbers are in a set, when n grows.
LEMMA UpToNext ==
  ASSUME NEW n \in Nat, NEW K
  PROVE  Cardinality(K \cap 1..n + 1) =
            IF n + 1 \in K THEN Cardinality(K \cap 1..n) + 1 ELSE Cardinality(K \cap 1..n)
<1>1. CASE n + 1 \in K
  <2>1. K \cap 1..n + 1 = (K \cap 1..n) \cup {n + 1}
    BY <1>1
  <2>2. n + 1 \notin K \cap 1..n
    OBVIOUS
  <2> QED
    BY <1>1, <2>1, <2>2, UpToFinite, FS_AddElement
<1>2. CASE n + 1 \notin K
  <2>1. K \cap 1..n + 1 = K \cap 1..n
    BY <1>2
  <2> QED
    BY <1>2, <2>1
<1> QED
  BY <1>1, <1>2

\* Every element of At(s, K) is one of s at a position in K, and has as many
\* before it as there are such positions before its own.
Selects(a, s, K, n) ==
    /\ Len(a) = Cardinality(K \cap 1..n)
    /\ \A k \in 1..Len(a) : \E j \in K \cap 1..n :
          a[k] = s[j] /\ Cardinality(K \cap 1..j - 1) = k - 1

\* The next element of those at some positions is the next in order.
LEMMA SelectsNext ==
  ASSUME NEW S, NEW s \in Seq(S), NEW K, NEW a \in Seq(S), NEW i \in Nat,
         i + 1 \in 1..Len(s), i + 1 \in K, Selects(a, s, K, i)
  PROVE  Selects(Append(a, s[i + 1]), s, K, i + 1)
<1> DEFINE b == Append(a, s[i + 1])
           Count(j) == Cardinality(K \cap 1..j)
<1>1. s[i + 1] \in S
  OBVIOUS
<1>2. /\ Len(b) = Len(a) + 1 /\ Len(a) \in Nat
      /\ \A k \in 1..Len(a) : b[k] = a[k]
      /\ b[Len(a) + 1] = s[i + 1]
  BY <1>1, AppendProperties
<1>3. Count(i + 1) = Count(i) + 1 /\ Count(i) = Len(a) /\ i = (i + 1) - 1
  <2>1. Cardinality(K \cap 1..i + 1) = Cardinality(K \cap 1..i) + 1
    BY UpToNext
  <2>2. Cardinality(K \cap 1..i) = Len(a)
    BY DEF Selects
  <2> QED
    BY <2>1, <2>2
<1>4. \A k \in 1..Len(a) : \E j \in K \cap 1..i : a[k] = s[j] /\ Count(j - 1) = k - 1
  BY DEF Selects
<1> HIDE DEF b, Count
<1>5. \A k \in 1..Len(b) : \E j \in K \cap 1..i + 1 : b[k] = s[j] /\ Count(j - 1) = k - 1
  <2> TAKE k \in 1..Len(b)
  <2>1. CASE k = Len(a) + 1
    <3>1. b[k] = s[i + 1] /\ k - 1 = Len(a)
      BY <1>2, <2>1
    <3>2. Count((i + 1) - 1) = k - 1
      BY <1>3, <3>1
    <3>3. i + 1 \in K \cap 1..i + 1
      OBVIOUS
    <3> QED
      BY <3>1, <3>2, <3>3
  <2>2. CASE k # Len(a) + 1
    <3>1. k \in 1..Len(a)
      BY <1>2, <2>2
    <3>2. PICK j \in K \cap 1..i : a[k] = s[j] /\ Count(j - 1) = k - 1
      BY <1>4, <3>1
    <3>3. j \in K \cap 1..i + 1 /\ b[k] = s[j]
      BY <1>2, <3>1, <3>2
    <3> QED
      BY <3>2, <3>3
  <2> QED
    BY <2>1, <2>2
<1> QED
  BY <1>2, <1>3, <1>5 DEF Selects, b, Count

\* At gives the elements at the positions, each once and in order.
LEMMA AtElements ==
  ASSUME NEW S, NEW s \in Seq(S), NEW K
  PROVE  At(s, K) \in Seq(S) /\ Selects(At(s, K), s, K, Len(s))
<1>1. PICK f \in [0..Len(s) -> Seq(S)] :
         /\ f[0] = <<>>
         /\ \A i \in 1..Len(s) : f[i] = IF i \in K THEN Append(f[i - 1], s[i]) ELSE f[i - 1]
         /\ At(s, K) = f[Len(s)]
  <2>1. AtRun(S, s, K)
    BY AtRuns
  <2> QED
    BY <2>1 DEF AtRun
<1> DEFINE n == Len(s)
<1>2. n \in Nat
  OBVIOUS
<1>3. \A i \in 0..n : Selects(f[i], s, K, i)
  <2> DEFINE T == {i \in Nat : Selects(f[i], s, K, i)}
  <2>1. 0 \in T
    <3>1. K \cap 1..0 = {}
      OBVIOUS
    <3>2. Cardinality(K \cap 1..0) = 0
      BY <3>1, FS_EmptySet
    <3> QED
      BY <1>1, <3>2 DEF Selects
  <2>2. ASSUME NEW i \in 0..n - 1, i \in T PROVE i + 1 \in T
    <3>1. i \in Nat /\ i + 1 \in 1..n /\ (i + 1) - 1 = i /\ i + 1 \in Nat /\ i \in 0..n
      BY <1>2
    <3>2. Selects(f[i], s, K, i) /\ f[i] \in Seq(S)
      BY <2>2, <1>1, <3>1
    <3>3. CASE i + 1 \in K
      <4>1. f[i + 1] = Append(f[i], s[i + 1])
        BY <1>1, <3>1, <3>3
      <4>2. Selects(Append(f[i], s[i + 1]), s, K, i + 1)
        BY <3>1, <3>2, <3>3, SelectsNext
      <4> QED
        BY <3>1, <4>1, <4>2, Zenon
    <3>4. CASE i + 1 \notin K
      <4>1. f[i + 1] = f[i]
        BY <1>1, <3>1, <3>4
      <4>2. Cardinality(K \cap 1..i + 1) = Cardinality(K \cap 1..i)
        BY <3>1, <3>4, UpToNext
      <4>3. K \cap 1..i \subseteq K \cap 1..i + 1
        BY <3>1
      <4>4. Selects(f[i], s, K, i + 1)
        BY <3>2, <4>2, <4>3 DEF Selects
      <4> QED
        BY <3>1, <4>1, <4>4, Zenon
    <3> QED
      BY <3>3, <3>4
  <2> HIDE DEF T
  <2>3. \A i \in 0..n : i \in T
    BY <1>2, <2>1, <2>2, UpToAll
  <2> QED
    BY <2>3 DEF T
<1>4. n \in 0..n
  BY <1>2
<1> QED
  BY <1>1, <1>3, <1>4

\* No element at two positions.
NoneTwice(s) == \A i, j \in 1..Len(s) : s[i] = s[j] => i = j

\* Distinct gives nothing twice.
LEMMA DistinctOnce ==
  ASSUME NEW S, NEW s \in Seq(S)
  PROVE  Distinct(s) \in Seq(S) /\ NoneTwice(Distinct(s))
<1> DEFINE n == Len(s)
<1>1. PICK f \in [0..n -> Seq(S)] :
         /\ f[0] = <<>> /\ (\A i \in 1..n : f[i] = Added(f[i - 1], s[i]))
         /\ Distinct(s) = f[n]
  BY DistinctRuns
<1>2. n \in Nat /\ \A i \in 1..n : s[i] \in S
  OBVIOUS
<1> HIDE DEF n
<1>3. ASSUME NEW a \in Seq(S), NEW x \in S, NoneTwice(a)
      PROVE  NoneTwice(Added(a, x))
  <2>1. CASE x \in ToSet(a)
    BY <1>3, <2>1 DEF Added
  <2>2. CASE x \notin ToSet(a)
    <3>1. \A i \in 1..Len(a) : a[i] # x
      BY <2>2 DEF ToSet
    <3>2. /\ Added(a, x) = Append(a, x)
          /\ Len(Append(a, x)) = Len(a) + 1
          /\ \A i \in 1..Len(a) : Append(a, x)[i] = a[i]
          /\ Append(a, x)[Len(a) + 1] = x
      BY <2>2, AppendProperties DEF Added
    <3> QED
      BY <1>3, <3>1, <3>2 DEF NoneTwice
  <2> QED
    BY <2>1, <2>2
<1>4. \A i \in 0..n : NoneTwice(f[i])
  <2> DEFINE T == {i \in Nat : NoneTwice(f[i])}
  <2>1. 0 \in T
    BY <1>1 DEF NoneTwice
  <2>2. ASSUME NEW i \in 0..n - 1, i \in T PROVE i + 1 \in T
    <3>1. i \in 0..n /\ i + 1 \in 1..n /\ (i + 1) - 1 = i /\ i + 1 \in Nat
      BY <1>2
    <3>2. f[i + 1] = Added(f[i], s[i + 1]) /\ f[i] \in Seq(S) /\ s[i + 1] \in S
      BY <1>1, <1>2, <3>1
    <3>3. NoneTwice(f[i])
      BY <2>2
    <3> QED
      BY <1>3, <3>1, <3>2, <3>3
  <2> HIDE DEF T
  <2>3. \A i \in 0..n : i \in T
    BY <1>2, <2>1, <2>2, UpToAll
  <2> QED
    BY <2>3 DEF T
<1> QED
  BY <1>1, <1>2, <1>4

\* Neither does a part of what has nothing twice.
LEMMA AtMostOnce ==
  ASSUME NEW S, NEW s \in Seq(S), NoneTwice(s), NEW n \in Nat
  PROVE  /\ AtMost(n, s) \in Seq(S) /\ NoneTwice(AtMost(n, s))
         /\ Len(AtMost(n, s)) <= n
<1>1. CASE Len(s) > n
  <2>1. /\ SubSeq(s, 1, n) \in Seq(S) /\ Len(SubSeq(s, 1, n)) = n
        /\ \A i \in 1..n : SubSeq(s, 1, n)[i] = s[i]
    BY <1>1
  <2>2. AtMost(n, s) = SubSeq(s, 1, n)
    BY <1>1 DEF AtMost
  <2> QED
    BY <1>1, <2>1, <2>2 DEF NoneTwice
<1>2. CASE ~ (Len(s) > n)
  BY <1>2 DEF AtMost
<1> QED
  BY <1>1, <1>2

\* What At, Distinct and AtMost keep.
LEMMA AppendElements ==
  ASSUME NEW S, NEW a \in Seq(S), NEW x \in S
  PROVE  ToSet(Append(a, x)) = ToSet(a) \cup {x}
<1>1. /\ Append(a, x) \in Seq(S) /\ Len(Append(a, x)) = Len(a) + 1 /\ Len(a) \in Nat
      /\ \A i \in 1..Len(a) : Append(a, x)[i] = a[i]
      /\ Append(a, x)[Len(a) + 1] = x
  BY AppendProperties
<1> DEFINE b == Append(a, x)
           n == Len(a)
<1>2. /\ DOMAIN b = 1..n + 1 /\ DOMAIN a = 1..n /\ n \in Nat
      /\ b[n + 1] = x /\ \A i \in 1..n : b[i] = a[i]
  BY <1>1
<1> HIDE DEF b, n
<1>3. \A i \in 1..n + 1 : i \in 1..n \/ i = n + 1
  BY <1>2
<1>4. n + 1 \in 1..n + 1 /\ 1..n \subseteq 1..n + 1
  BY <1>2
<1>5. ToSet(b) = ToSet(a) \cup {x}
  BY <1>2, <1>3, <1>4 DEF ToSet
<1> QED
  BY <1>5 DEF b

LEMMA AtSet ==
  ASSUME NEW S, NEW s \in Seq(S), NEW K
  PROVE  ToSet(At(s, K)) = {s[i] : i \in K \cap 1..Len(s)}
<1> DEFINE n == Len(s)
<1>1. PICK f \in [0..n -> Seq(S)] :
         /\ f[0] = <<>>
         /\ \A i \in 1..n : f[i] = IF i \in K THEN Append(f[i - 1], s[i]) ELSE f[i - 1]
         /\ At(s, K) = f[n]
  <2>1. AtRun(S, s, K)
    BY AtRuns
  <2> QED
    BY <2>1 DEF AtRun
<1>2. n \in Nat /\ \A i \in 1..n : s[i] \in S
  OBVIOUS
<1> HIDE DEF n
<1> DEFINE T == {m \in Nat : ToSet(f[m]) = {s[i] : i \in K \cap 1..m}}
<1>3. 0 \in T
  BY <1>1 DEF ToSet
<1>4. ASSUME NEW m \in 0..n - 1, m \in T PROVE m + 1 \in T
  <2>1. m + 1 \in 1..n /\ (m + 1) - 1 = m /\ m + 1 \in Nat /\ f[m] \in Seq(S) /\ m \in Nat
    BY <1>1, <1>2
  <2>2. f[m + 1] = IF m + 1 \in K THEN Append(f[m], s[m + 1]) ELSE f[m]
    BY <1>1, <2>1
  <2>3. ToSet(f[m]) = {s[i] : i \in K \cap 1..m}
    BY <1>4
  <2>4. \A i : i \in 1..m + 1 <=> i \in 1..m \/ i = m + 1
    BY <2>1
  <2>5. CASE m + 1 \in K
    <3>1. ToSet(f[m + 1]) = ToSet(f[m]) \cup {s[m + 1]}
      BY <1>2, <2>1, <2>2, <2>5, AppendElements
    <3> QED
      BY <2>1, <2>3, <2>4, <2>5, <3>1
  <2>6. CASE m + 1 \notin K
    <3>1. K \cap 1..m + 1 = K \cap 1..m
      BY <2>4, <2>6
    <3> QED
      BY <2>1, <2>2, <2>3, <2>6, <3>1
  <2> QED
    BY <2>5, <2>6
<1> HIDE DEF T
<1>5. n \in T
  <2>1. \A m \in 0..n : m \in T
    BY <1>2, <1>3, <1>4, UpToAll
  <2> QED
    BY <1>2, <2>1
<1> QED
  BY <1>1, <1>5 DEF T, n

LEMMA DistinctSet ==
  ASSUME NEW S, NEW s \in Seq(S)
  PROVE  ToSet(Distinct(s)) = ToSet(s)
<1> DEFINE n == Len(s)
<1>1. PICK f \in [0..n -> Seq(S)] :
         /\ f[0] = <<>> /\ (\A i \in 1..n : f[i] = Added(f[i - 1], s[i]))
         /\ Distinct(s) = f[n]
  BY DistinctRuns
<1>2. n \in Nat /\ DOMAIN s = 1..n /\ \A i \in 1..n : s[i] \in S
  OBVIOUS
<1> HIDE DEF n
<1> DEFINE T == {m \in Nat : ToSet(f[m]) = {s[i] : i \in 1..m}}
<1>3. 0 \in T
  BY <1>1 DEF ToSet
<1>4. ASSUME NEW m \in 0..n - 1, m \in T PROVE m + 1 \in T
  <2>1. m + 1 \in 1..n /\ (m + 1) - 1 = m /\ m + 1 \in Nat /\ f[m] \in Seq(S) /\ m \in Nat
    BY <1>1, <1>2
  <2>2. f[m + 1] = Added(f[m], s[m + 1]) /\ s[m + 1] \in S
    BY <1>1, <1>2, <2>1
  <2>3. ToSet(f[m]) = {s[i] : i \in 1..m}
    BY <1>4
  <2>4. \A i : i \in 1..m + 1 <=> i \in 1..m \/ i = m + 1
    BY <2>1
  <2>5. ToSet(Added(f[m], s[m + 1])) = ToSet(f[m]) \cup {s[m + 1]}
    <3>1. CASE s[m + 1] \in ToSet(f[m])
      BY <3>1 DEF Added
    <3>2. CASE s[m + 1] \notin ToSet(f[m])
      BY <2>1, <2>2, <3>2, AppendElements DEF Added
    <3> QED
      BY <3>1, <3>2
  <2> QED
    BY <2>1, <2>2, <2>3, <2>4, <2>5
<1> HIDE DEF T
<1>5. n \in T
  <2>1. \A m \in 0..n : m \in T
    BY <1>2, <1>3, <1>4, UpToAll
  <2> QED
    BY <1>2, <2>1
<1> QED
  BY <1>1, <1>2, <1>5 DEF T, ToSet

LEMMA AtMostSet ==
  ASSUME NEW S, NEW s \in Seq(S), NEW n \in Nat
  PROVE  /\ ToSet(AtMost(n, s)) \subseteq ToSet(s)
         /\ AtMost(n, s) = s \/ Len(AtMost(n, s)) = n
<1>1. CASE Len(s) > n
  <2>1. /\ SubSeq(s, 1, n) \in Seq(S) /\ Len(SubSeq(s, 1, n)) = n
        /\ \A i \in 1..n : SubSeq(s, 1, n)[i] = s[i]
    BY <1>1
  <2>2. AtMost(n, s) = SubSeq(s, 1, n)
    BY <1>1 DEF AtMost
  <2>3. DOMAIN SubSeq(s, 1, n) = 1..n /\ DOMAIN s = 1..Len(s) /\ 1..n \subseteq 1..Len(s)
    BY <1>1, <2>1
  <2> QED
    BY <2>1, <2>2, <2>3 DEF ToSet
<1>2. CASE ~ (Len(s) > n)
  BY <1>2 DEF AtMost
<1> QED
  BY <1>1, <1>2

\* Such a sequence has as many elements as its length.
LEMMA OnceCardinality ==
  ASSUME NEW S, NEW s \in Seq(S), NoneTwice(s)
  PROVE  Cardinality(ToSet(s)) = Len(s)
<1> DEFINE n == Len(s)
<1>1. n \in Nat /\ DOMAIN s = 1..n
  OBVIOUS
<1>2. IsFiniteSet(1..n) /\ Cardinality(1..n) = n
  BY <1>1, FS_Interval
<1>3. s \in Bijection(1..n, ToSet(s))
  <2>1. s \in [1..n -> ToSet(s)]
    BY DEF ToSet
  <2>2. \A i, j \in 1..n : s[i] = s[j] => i = j
    BY DEF NoneTwice
  <2> QED
    BY <1>1, <2>1, <2>2 DEF Bijection, Injection, IsInjective, Surjection, ToSet
<1>4. ExistsBijection(1..n, ToSet(s))
  BY <1>3 DEF ExistsBijection
<1> QED
  BY <1>2, <1>4, FS_Bijection

-----------------------------------------------------------------------------
(* Greatest and least elements, and the parts of a sequence.               *)

\* The greatest of some numbers that are bounded.
LEMMA MaxUpTo ==
  ASSUME NEW n \in Nat, NEW S \in SUBSET (0..n), S # {}
  PROVE  Max(S) \in S /\ \A i \in S : i <= Max(S)
<1> DEFINE U == {n - i : i \in S}
<1>0. \A i \in S : i \in Nat /\ n - i \in Nat
  OBVIOUS
<1>1. U \in SUBSET Nat /\ U # {}
  BY <1>0
<1>2. PICK u \in U : \A v \in U : u <= v
  BY <1>1, NatLeast
<1>3. PICK m \in S : u = n - m
  BY <1>2
<1>4. \A i \in S : m >= i
  <2> TAKE i \in S
  <2>1. n - i \in U
    OBVIOUS
  <2>2. u <= n - i
    BY <1>2, <2>1
  <2> QED
    BY <1>0, <1>3, <2>2
<1>5. Max(S) \in S /\ \A i \in S : Max(S) >= i
  BY <1>4 DEF Max
<1> QED
  BY <1>5

\* The least of some numbers.
LEMMA MinOf ==
  ASSUME NEW S \in SUBSET Nat, S # {}
  PROVE  Min(S) \in S /\ \A i \in S : Min(S) <= i
<1>1. PICK m \in S : \A i \in S : m <= i
  BY NatLeast
<1> QED
  BY <1>1 DEF Min

\* A sequence is its first element and the rest.
LEMMA HeadAndTail ==
  ASSUME NEW S, NEW s \in Seq(S), s # <<>>
  PROVE  /\ Head(s) \in S /\ Tail(s) \in Seq(S) /\ Len(Tail(s)) = Len(s) - 1
         /\ Head(s) = s[1] /\ Len(s) \in Nat \ {0}
         /\ s = <<Head(s)>> \o Tail(s)
         /\ SubSeq(s, 1, 1) = <<Head(s)>>
<1>1. Len(s) \in Nat \ {0} /\ 1 \in 1..Len(s)
  OBVIOUS
<1>2. Head(s) = s[1] /\ s[1] \in S
  BY <1>1
<1>3. Tail(s) = SubSeq(s, 2, Len(s)) /\ Tail(s) \in Seq(S) /\ Len(Tail(s)) = Len(s) - 1
  BY TailIsSubSeq, HeadTailProperties
<1>4. SubSeq(s, 1, Len(s)) = <<s[1]>> \o SubSeq(s, 1 + 1, Len(s))
  <2>1. Len(s) \in 1..Len(s)
    BY <1>1
  <2> QED
    BY <1>1, <2>1, SubSeqRecursiveFirst
<1>5. SubSeq(s, 1, Len(s)) = s
  BY SubSeqFull
<1>6. SubSeq(s, 1, 1) = <<s[1]>>
  <2>1. /\ SubSeq(s, 1, 1) \in Seq(S) /\ Len(SubSeq(s, 1, 1)) = 1
        /\ SubSeq(s, 1, 1)[1] = s[1]
    BY <1>1
  <2>2. <<s[1]>> \in Seq(S) /\ Len(<<s[1]>>) = 1 /\ <<s[1]>>[1] = s[1]
    BY <1>2
  <2> DEFINE a == SubSeq(s, 1, 1)
             b == <<s[1]>>
  <2>3. Len(a) = Len(b) /\ \A i \in 1..Len(a) : a[i] = b[i]
    BY <2>1, <2>2
  <2> HIDE DEF a, b
  <2>4. a \in Seq(S) /\ b \in Seq(S)
    BY <2>1, <2>2 DEF a, b
  <2>5. a = b
    BY <2>3, <2>4, SeqEqual
  <2> QED
    BY <2>5 DEF a, b
<1> QED
  BY <1>1, <1>2, <1>3, <1>4, <1>5, <1>6

\* So is its sum.
LEMMA SumHead ==
  ASSUME NEW s \in Seq(Nat), s # <<>>
  PROVE  Sum(s) = Head(s) + Sum(Tail(s))
<1>1. Head(s) \in Nat /\ Tail(s) \in Seq(Nat) /\ s = <<Head(s)>> \o Tail(s)
  BY HeadAndTail
<1>2. <<Head(s)>> \in Seq(Nat)
  BY <1>1
<1>3. Sum(<<Head(s)>> \o Tail(s)) = Sum(<<Head(s)>>) + Sum(Tail(s))
  BY <1>1, <1>2, SumConcat
<1> QED
  BY <1>1, <1>3, SumOne

\* A sum is no less than any of its terms.
LEMMA SumBounds ==
  ASSUME NEW s \in Seq(Nat), NEW k \in 1..Len(s)
  PROVE  s[k] <= Sum(s)
<1> DEFINE n == Len(s)
<1>1. PICK f \in [0..n -> Nat] :
         f[0] = 0 /\ (\A i \in 1..n : f[i] = f[i - 1] + s[i]) /\ Sum(s) = f[n]
  BY SumRuns
<1>2. n \in Nat /\ k \in 1..n /\ \A i \in 1..n : s[i] \in Nat
  OBVIOUS
<1> HIDE DEF n
<1>3. \A i \in 0..n : i >= k => s[k] <= f[i]
  <2> DEFINE T == {i \in Nat : i >= k => s[k] <= f[i]}
  <2>1. 0 \in T
    BY <1>2
  <2>2. ASSUME NEW i \in 0..n - 1, i \in T PROVE i + 1 \in T
    <3>1. i + 1 \in 1..n /\ (i + 1) - 1 = i /\ i \in 0..n
      BY <1>2
    <3>2. f[i + 1] = f[i] + s[i + 1] /\ f[i] \in Nat /\ s[i + 1] \in Nat
      BY <1>1, <1>2, <3>1
    <3>3. CASE i + 1 = k
      BY <3>2, <3>3
    <3>4. CASE i + 1 # k
      <4>1. i \in Nat /\ k \in Nat /\ s[k] \in Nat
        BY <1>2
      <4>2. i + 1 >= k => i >= k
        BY <3>4, <4>1
      <4>3. i >= k => s[k] <= f[i]
        BY <2>2
      <4>4. i + 1 >= k => s[k] <= f[i + 1]
        BY <3>2, <4>1, <4>2, <4>3
      <4> QED
        BY <4>1, <4>4
    <3> QED
      BY <3>3, <3>4
  <2> HIDE DEF T
  <2>3. \A i \in 0..n : i \in T
    BY <1>2, <2>1, <2>2, UpToAll
  <2> QED
    BY <2>3 DEF T
<1> QED
  BY <1>1, <1>2, <1>3
=============================================================================
