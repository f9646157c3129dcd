------------------------------ MODULE NatFacts -------------------------------
(***************************************************************************)
(* Facts about sets of natural numbers that the proofs about "the first",  *)
(* "the last" and "the n-th" entry of the library's arrays rest on.        *)
(***************************************************************************)
EXTENDS Integers, TLAPS, WellFoundedInduction

\* A non-empty set of naturals has a least element.
LEMMA LeastNat ==
    ASSUME NEW T \in SUBSET Nat, T # {}
    PROVE  \E x \in T : \A y \in T : x <= y
<1>1. PICK x \in T : \A y \in T : ~ (<<y, x>> \in OpToRel(<, Nat))
  BY NatLessThanWellFounded, WFMin
<1>2. \A y \in T : ~ (y < x)
  BY <1>1 DEF OpToRel
<1>3. ASSUME NEW y \in T PROVE x <= y
  <2>1. x \in Nat /\ y \in Nat
    OBVIOUS
  <2>2. ~ (y < x)
    BY <1>2
  <2> QED BY <2>1, <2>2
<1> QED BY <1>3

\* Induction for sets of naturals.
LEMMA NatSetInduction ==
    ASSUME NEW S, 0 \in S, \A n \in Nat : n \in S => n + 1 \in S
    PROVE  Nat \subseteq S
<1> SUFFICES ASSUME Nat \ S # {} PROVE FALSE
  OBVIOUS
<1>1. PICK x \in Nat \ S : \A y \in Nat \ S : x <= y
  BY LeastNat
<1>2. x - 1 \in Nat /\ x - 1 \in S
  BY <1>1
<1> QED BY <1>1, <1>2

\* A non-empty set of naturals with an upper bound has a greatest element.
LEMMA GreatestNat ==
    ASSUME NEW n \in Nat, NEW T \in SUBSET (0..n), T # {}
    PROVE  \E x \in T : \A y \in T : y <= x
<1> DEFINE R == {m \in Nat : \A y \in T : y <= m}
<1>1. n \in R
  OBVIOUS
<1>2. PICK m \in R : \A k \in R : m <= k
  BY <1>1, LeastNat
<1>3. CASE m \in T
  BY <1>2, <1>3
<1>4. CASE m \notin T
  <2>1. \A y \in T : y \in Nat /\ y <= m /\ y # m
    BY <1>2, <1>4
  <2>2. m # 0
    <3>1. PICK y \in T : TRUE
      OBVIOUS
    <3>2. y \in Nat /\ y <= m /\ y # m
      BY <2>1
    <3> QED BY <3>2
  <2>3. m - 1 \in Nat /\ \A y \in T : y <= m - 1
    BY <2>1, <2>2, <1>2
  <2>4. m - 1 \in R
    BY <2>3
  <2>5. m <= m - 1
    BY <1>2, <2>4
  <2> QED BY <2>5, <2>3
<1> QED BY <1>3, <1>4

\* f has the first value a and the steps g.
Follows(f, N, a, g) == \A m \in 0 .. N : f[m] = IF m = 0 THEN a ELSE g[m][f[m - 1]]

\* A function on 0 .. N given by its first value and its steps exists (what a
\* recursive definition stands for).
LEMMA NatRecursion ==
    ASSUME NEW N \in Nat, NEW S, NEW a \in S, NEW g \in [1 .. N -> [S -> S]]
    PROVE  \E f \in [0 .. N -> S] : Follows(f, N, a, g)
<1> DEFINE Run(f, k) == \A m \in 0 .. k : f[m] = IF m = 0 THEN a ELSE g[m][f[m - 1]]
           T == {k \in Nat : k <= N => \E f \in [0 .. k -> S] : Run(f, k)}
<1>1. 0 \in T
  <2> DEFINE f == [m \in 0 .. 0 |-> a]
  <2>1. f \in [0 .. 0 -> S] /\ Run(f, 0)
    OBVIOUS
  <2> QED BY <2>1
<1>2. ASSUME NEW k \in Nat, k \in T PROVE k + 1 \in T
  <2> SUFFICES ASSUME k + 1 <= N PROVE \E f \in [0 .. (k + 1) -> S] : Run(f, k + 1)
    OBVIOUS
  <2>1. PICK f \in [0 .. k -> S] : Run(f, k)
    <3>1. k <= N
      OBVIOUS
    <3> HIDE DEF Run
    <3> QED BY <1>2, <3>1
  <2> DEFINE v == g[k + 1][f[k]]
             h == [m \in 0 .. (k + 1) |-> IF m <= k THEN f[m] ELSE v]
  <2>2. v \in S
    <3>1. f[k] \in S /\ k + 1 \in 1 .. N
      BY <2>1
    <3> QED BY <3>1
  <2> HIDE DEF v
  <2>3. h \in [0 .. (k + 1) -> S]
    BY <2>2
  <2>4. Run(h, k + 1)
    <3> SUFFICES ASSUME NEW m \in 0 .. (k + 1)
                 PROVE  h[m] = IF m = 0 THEN a ELSE g[m][h[m - 1]]
      OBVIOUS
    <3>1. CASE m <= k
      BY <2>1, <3>1
    <3>2. CASE m = k + 1
      BY <3>2 DEF v
    <3> QED BY <3>1, <3>2
  <2> QED BY <2>3, <2>4
<1>3. Nat \subseteq T
  <2> HIDE DEF T
  <2> QED BY <1>1, <1>2, NatSetInduction
<1> HIDE DEF Run
<1>4. N \in T /\ N <= N
  <2> HIDE DEF T
  <2> QED BY <1>3
<1>5. PICK f \in [0 .. N -> S] : Run(f, N)
  BY <1>4
<1> QED BY <1>5 DEF Run, Follows

=============================================================================
