----------------------------- MODULE SumTheorems -----------------------------
(***************************************************************************)
(* Induction over the naturals with sets in place of predicates, and what  *)
(* follows from it for tables of partial sums.                             *)
(*                                                                         *)
(* The induction theorems of the library take the predicate as a           *)
(* parameter.  That strict inclusion is well-founded on finite sets it     *)
(* states without one: applied to the intervals 0 .. n it says that a set  *)
(* of naturals has a smallest element, hence that a set that holds 0 and   *)
(* the successors of its elements holds every natural number.              *)
(***************************************************************************)
EXTENDS Integers, FiniteSetTheorems, TLAPS

\* g is the table of the partial sums of h: g[n] = h[1] + ... + h[n].
PartialSums(g, h, N) ==
  /\ g \in [0 .. N -> Int]
  /\ g[0] = 0
  /\ \A i \in 1 .. N : g[i] = g[i - 1] + h[i]

\* Every set of naturals that is not empty has a smallest element.
LEMMA SmallestElement ==
  ASSUME NEW S \in SUBSET Nat, S # {}
  PROVE  \E n \in S : \A m \in S : n <= m
<1> DEFINE T == {0 .. n : n \in S}
           R == StrictSubsetOrdering(Nat)
<1>1. IsWellFoundedOn(R, FiniteSubsetsOf(Nat))
  BY FS_StrictSubsetOrderingWellFounded
<1>2. T \subseteq FiniteSubsetsOf(Nat)
  <2> SUFFICES ASSUME NEW n \in S PROVE 0 .. n \in FiniteSubsetsOf(Nat)
    OBVIOUS
  <2>1. IsFiniteSet(0 .. n)
    BY FS_Interval
  <2> QED BY <2>1 DEF FiniteSubsetsOf
<1>3. T # {}
  OBVIOUS
<1>4. PICK X \in T : \A Y \in T : ~ (<<Y, X>> \in R)
  <2> HIDE DEF T, R
  <2> QED BY <1>1, <1>2, <1>3, WFMin
<1>5. PICK n \in S : X = 0 .. n
  OBVIOUS
<1>6. ASSUME NEW m \in S, m < n PROVE FALSE
  <2>1. 0 .. m \in T
    OBVIOUS
  <2>2. 0 .. m \subseteq 0 .. n /\ 0 .. m # 0 .. n
    BY <1>6
  <2>3. <<0 .. m, 0 .. n>> \in R
    BY <2>2 DEF StrictSubsetOrdering
  <2> QED BY <2>1, <2>3, <1>4, <1>5
<1> QED BY <1>6

\* A set with 0 and the successor of each of its elements has all the naturals.
LEMMA SetInduction ==
  ASSUME NEW S, 0 \in S, \A n \in Nat : n \in S => n + 1 \in S
  PROVE  \A n \in Nat : n \in S
<1> DEFINE C == {n \in Nat : n \notin S}
<1>1. SUFFICES ASSUME C # {} PROVE FALSE
  OBVIOUS
<1>2. PICK n \in C : \A m \in C : n <= m
  <2> C \in SUBSET Nat OBVIOUS
  <2> HIDE DEF C
  <2> QED BY <1>1, SmallestElement
<1>3. n # 0 /\ n - 1 \in Nat
  OBVIOUS
<1>4. n - 1 \in S
  BY <1>2, <1>3
<1> QED BY <1>3, <1>4
-----------------------------------------------------------------------------
\* Every sequence of integers has a table of its partial sums.
THEOREM PartialSumsExist ==
  ASSUME NEW N \in Nat, NEW h, \A i \in 1 .. N : h[i] \in Int
  PROVE  \E g : PartialSums(g, h, N)
<1> DEFINE S == {n \in Nat : n <= N => \E g : PartialSums(g, h, n)}
<1>1. 0 \in S
  <2>1. PartialSums([i \in 0 .. 0 |-> 0], h, 0)
    BY DEF PartialSums
  <2> QED BY <2>1
<1>2. ASSUME NEW n \in Nat, n \in S PROVE n + 1 \in S
  <2> SUFFICES ASSUME n + 1 <= N PROVE \E g : PartialSums(g, h, n + 1)
    OBVIOUS
  <2>1. PICK g : PartialSums(g, h, n)
    BY <1>2
  <2> DEFINE k == [i \in 0 .. n + 1 |-> IF i = n + 1 THEN g[n] + h[n + 1] ELSE g[i]]
  <2>2. h[n + 1] \in Int
    OBVIOUS
  <2>3. k \in [0 .. n + 1 -> Int] /\ k[0] = 0
    BY <2>1, <2>2 DEF PartialSums
  <2>4. ASSUME NEW i \in 1 .. n + 1 PROVE k[i] = k[i - 1] + h[i]
    <3>1. CASE i = n + 1
      <4>1. k[i] = g[n] + h[i] /\ k[i - 1] = g[n]
        BY <3>1
      <4> QED BY <4>1
    <3>2. CASE i \in 1 .. n
      <4>1. k[i] = g[i] /\ k[i - 1] = g[i - 1]
        BY <3>2
      <4> QED BY <4>1, <3>2, <2>1 DEF PartialSums
    <3> QED BY <3>1, <3>2
  <2>5. PartialSums(k, h, n + 1)
    BY <2>3, <2>4 DEF PartialSums
  <2> QED BY <2>5
<1>3. N \in S
  <2> HIDE DEF S
  <2> QED BY <1>1, <1>2, SetInduction
<1> QED BY <1>3

\* Two tables of sums agree as far as what they sum does.
THEOREM PartialSumsUnique ==
  ASSUME NEW N \in Nat, NEW M \in Nat, NEW g, NEW h, NEW k, NEW l,
         PartialSums(g, h, N), PartialSums(k, l, M),
         NEW n \in Nat, n <= N, n <= M, \A i \in 1 .. n : h[i] = l[i]
  PROVE  g[n] = k[n]
<1> DEFINE S == {m \in Nat : m <= n => g[m] = k[m]}
<1>1. 0 \in S
  BY DEF PartialSums
<1>2. ASSUME NEW m \in Nat, m \in S PROVE m + 1 \in S
  <2> SUFFICES ASSUME m + 1 <= n PROVE g[m + 1] = k[m + 1]
    OBVIOUS
  <2>1. g[m] = k[m]
    BY <1>2
  <2>2. m + 1 \in 1 .. N /\ m + 1 \in 1 .. M /\ m + 1 \in 1 .. n /\ m + 1 - 1 = m
    OBVIOUS
  <2>3. g[m + 1] = g[m] + h[m + 1] /\ k[m + 1] = k[m] + l[m + 1]
    BY <2>2 DEF PartialSums
  <2> QED BY <2>1, <2>2, <2>3
<1>3. n \in S
  <2> HIDE DEF S
  <2> QED BY <1>1, <1>2, SetInduction
<1> QED BY <1>3

\* The sums of natural numbers are natural numbers.
THEOREM PartialSumsNat ==
  ASSUME NEW N \in Nat, NEW g, NEW h, PartialSums(g, h, N),
         \A i \in 1 .. N : h[i] \in Nat
  PROVE  \A n \in 0 .. N : g[n] \in Nat
<1> DEFINE S == {m \in Nat : m <= N => g[m] \in Nat}
<1>1. 0 \in S
  BY DEF PartialSums
<1>2. ASSUME NEW m \in Nat, m \in S PROVE m + 1 \in S
  <2> SUFFICES ASSUME m + 1 <= N PROVE g[m + 1] \in Nat
    OBVIOUS
  <2>1. g[m] \in Nat
    BY <1>2
  <2>2. m + 1 \in 1 .. N /\ m + 1 - 1 = m
    OBVIOUS
  <2>3. g[m + 1] = g[m] + h[m + 1] /\ h[m + 1] \in Nat
    BY <2>2 DEF PartialSums
  <2> QED BY <2>1, <2>3
<1>3. \A m \in Nat : m \in S
  <2> HIDE DEF S
  <2> QED BY <1>1, <1>2, SetInduction
<1> QED BY <1>3

\* A table of sums solves the equation by which a recursive function of the
\* model defines them.
LEMMA PartialSumsSolve ==
  ASSUME NEW N \in Nat, NEW g, NEW h, PartialSums(g, h, N)
  PROVE  g = [i \in 0 .. N |-> IF i = 0 THEN 0 ELSE g[i - 1] + h[i]]
<1> DEFINE k == [i \in 0 .. N |-> IF i = 0 THEN 0 ELSE g[i - 1] + h[i]]
<1>1. ASSUME NEW i \in 0 .. N PROVE g[i] = k[i]
  <2>1. CASE i = 0
    BY <2>1 DEF PartialSums
  <2>2. CASE i # 0
    <3>1. i \in 1 .. N
      BY <2>2
    <3> QED BY <3>1, <2>2 DEF PartialSums
  <2> QED BY <2>1, <2>2
<1>2. g = [i \in 0 .. N |-> g[i]]
  BY DEF PartialSums
<1> QED BY <1>1, <1>2
\* Conversely, what solves the equation is the table of sums.
LEMMA PartialSumsSolution ==
  ASSUME NEW N \in Nat, NEW h, \A i \in 1 .. N : h[i] \in Int,
         NEW g, g = [i \in 0 .. N |-> IF i = 0 THEN 0 ELSE g[i - 1] + h[i]]
  PROVE  PartialSums(g, h, N)
<1>1. g[0] = 0
  OBVIOUS
<1>2. ASSUME NEW i \in 1 .. N PROVE g[i] = g[i - 1] + h[i]
  <2>1. i \in 0 .. N /\ i # 0
    OBVIOUS
  <2> QED BY <2>1
<1> DEFINE S == {m \in Nat : m <= N => g[m] \in Int}
<1>3. 0 \in S
  BY <1>1
<1>4. ASSUME NEW m \in Nat, m \in S PROVE m + 1 \in S
  <2> SUFFICES ASSUME m + 1 <= N PROVE g[m + 1] \in Int
    OBVIOUS
  <2>1. g[m] \in Int
    BY <1>4
  <2>2. m + 1 \in 1 .. N /\ m + 1 - 1 = m
    OBVIOUS
  <2> QED BY <2>1, <2>2, <1>2
<1>5. \A m \in Nat : m \in S
  <2> HIDE DEF S
  <2> QED BY <1>3, <1>4, SetInduction
<1>6. \A m \in 0 .. N : g[m] \in Int
  BY <1>5
<1>7. g \in [0 .. N -> Int]
  <2>1. g = [m \in 0 .. N |-> g[m]]
    OBVIOUS
  <2> QED BY <2>1, <1>6
<1> QED BY <1>1, <1>2, <1>7 DEF PartialSums
==============================================================================
