------------------------------ MODULE Iteration ------------------------------
(* Loops over the first numbers: least elements, induction over a set, and a  *)
(* function that is defined by recursion over a step.                         *)
EXTENDS Naturals, NaturalsInduction, WellFoundedInduction, TLAPS

\* A set of numbers that is not empty has a least element.
LEMMA Smallest ==
    ASSUME NEW T, T \subseteq Nat, T # {}
    PROVE  \E x \in T : \A y \in T : x <= y
<1> DEFINE R == OpToRel(<, Nat)
<1>1. IsWellFoundedOn(R, Nat)
  BY NatLessThanWellFounded
<1>2. \A x, y \in Nat : x < y => <<x, y>> \in R
  BY DEF OpToRel
<1> HIDE DEF R
<1>3. PICK x \in T : \A y \in T : ~ (<<y, x>> \in R)
  BY <1>1, WFMin
<1>4. ASSUME NEW y \in T PROVE x <= y
  <2>1. ~ (y < x)
    BY <1>1, <1>2, <1>3, <1>4
  <2> QED
    BY <2>1
<1> QED
  BY <1>4

\* A set that holds 0, and n + 1 with every n below N, holds all up to N.
LEMMA UpTo ==
    ASSUME NEW N \in Nat, NEW S, 0 \in S,
           \A n \in 0..N : n \in S /\ n < N => n + 1 \in S
    PROVE  0..N \subseteq S
<1> SUFFICES ASSUME NEW n \in 0..N, n \notin S PROVE FALSE
  OBVIOUS
<1> DEFINE T == {k \in 0..N : k \notin S}
<1>1. PICK x \in T : \A y \in T : x <= y
  <2>1. T \subseteq Nat /\ T # {}
    OBVIOUS
  <2> HIDE DEF T
  <2> QED
    BY <2>1, Smallest
<1>2. x # 0
  OBVIOUS
<1>3. x - 1 \in 0..N /\ x - 1 < N /\ ~ (x <= x - 1) /\ (x - 1) + 1 = x
  BY <1>2
<1>4. x - 1 \in S
  BY <1>1, <1>3
<1> QED
  BY <1>3, <1>4

IsTrace(f, N, b, step) == f[0] = b /\ \A n \in 1..N : f[n] = step[n][f[n - 1]]

\* A loop of N steps over values of a set has a trace.
LEMMA Iterates ==
    ASSUME NEW N \in Nat, NEW A, NEW b \in A, NEW step \in [1..N -> [A -> A]]
    PROVE  \E f \in [0..N -> A] : IsTrace(f, N, b, step)
<1> DEFINE Trace(f, k) ==
             f \in [0..k -> A] /\ f[0] = b /\ \A n \in 1..k : f[n] = step[n][f[n - 1]]
           S == {k \in 0..N : \E f : Trace(f, k)}
<1>1. 0 \in S
  <2>1. Trace([i \in 0..0 |-> b], 0)
    OBVIOUS
  <2> HIDE DEF Trace
  <2> QED
    BY <2>1
<1>2. ASSUME NEW k \in 0..N, k \in S, k < N
      PROVE  k + 1 \in S
  <2>1. PICK f : Trace(f, k)
    BY <1>2
  <2> DEFINE g == [i \in 0..k + 1 |-> IF i = k + 1 THEN step[k + 1][f[k]] ELSE f[i]]
  <2>2. step[k + 1][f[k]] \in A
    BY <2>1, <1>2
  <2>3. g \in [0..k + 1 -> A] /\ g[0] = b
    BY <2>1, <2>2
  <2>4. ASSUME NEW n \in 1..k + 1 PROVE g[n] = step[n][g[n - 1]]
    <3>1. g[n - 1] = f[n - 1]
      OBVIOUS
    <3>2. CASE n = k + 1
      BY <3>1, <3>2
    <3>3. CASE n \in 1..k
      <4>1. g[n] = f[n]
        BY <3>3
      <4> QED
        BY <2>1, <3>1, <3>3, <4>1
    <3> QED
      BY <3>2, <3>3
  <2>5. Trace(g, k + 1)
    BY <2>3, <2>4
  <2> HIDE DEF Trace, g
  <2> QED
    BY <1>2, <2>5
<1>3. N \in S
  <2> HIDE DEF S
  <2>1. 0..N \subseteq S
    BY <1>1, <1>2, UpTo
  <2> QED
    BY <2>1
<1> QED
  BY <1>3 DEF IsTrace
=============================================================================
