-------------------------- MODULE RecursionLemmas --------------------------
(***************************************************************************)
(* Induction for the proofs about loops.  A loop of the code that fills a  *)
(* vector is written as a function on 0..n, whose value at i is the vector *)
(* after i rounds; what such a function computes is proved by induction on *)
(* i.  The set of the i for which a fact holds stands for the fact.        *)
(***************************************************************************)
EXTENDS Naturals, WellFoundedInduction, TLAPS

(* "Less than" on the natural numbers, as a well-founded relation. *)
LEMMA LessThanRelation ==
  \E R : /\ IsWellFoundedOn(R, Nat)
         /\ \A x, y \in Nat : x < y => <<x, y>> \in R
<1> DEFINE R == {ss \in Nat \X Nat : ss[1] < ss[2]}
<1>1. IsWellFoundedOn(R, Nat)
  BY NatLessThanWellFounded DEF OpToRel
<1>2. \A x, y \in Nat : x < y => <<x, y>> \in R
  OBVIOUS
<1> HIDE DEF R
<1> QED
  BY <1>1, <1>2

(* A set that holds 0 and the successor of each of its numbers holds all.  *)
LEMMA Induction ==
  ASSUME NEW T, 0 \in T, \A n \in Nat : n \in T => n + 1 \in T
  PROVE  Nat \subseteq T
<1> SUFFICES ASSUME ~(Nat \subseteq T) PROVE FALSE
  OBVIOUS
<1> DEFINE B == {n \in Nat : n \notin T}
<1>1. PICK R : /\ IsWellFoundedOn(R, Nat)
               /\ \A x, y \in Nat : x < y => <<x, y>> \in R
  BY LessThanRelation
<1>2. B \subseteq Nat /\ B # {}
  OBVIOUS
<1>3. PICK x \in B : \A y \in B : ~(<<y, x>> \in R)
  <2> HIDE DEF B
  <2> QED
    BY <1>1, <1>2, WFMin
<1>4. x \in Nat /\ x # 0
  OBVIOUS
<1>5. x - 1 \in Nat /\ (x - 1) + 1 = x /\ x - 1 < x
  BY <1>4
<1>6. x - 1 \in B
  BY <1>5
<1> QED
  BY <1>1, <1>3, <1>4, <1>5, <1>6

(* The same on an interval: a fact that holds before the first round and   *)
(* survives every round holds after each.                                  *)
LEMMA InductionUpTo ==
  ASSUME NEW len \in Nat, NEW T, 0 \in T,
         \A n \in 0..len : n \in T /\ n < len => n + 1 \in T
  PROVE  0..len \subseteq T
<1> DEFINE U == {n \in Nat : n <= len => n \in T}
<1>1. 0 \in U
  OBVIOUS
<1>2. \A n \in Nat : n \in U => n + 1 \in U
  OBVIOUS
<1>3. Nat \subseteq U
  <2> HIDE DEF U
  <2> QED
    BY <1>1, <1>2, Induction
<1> QED
  BY <1>3

(* The values of a loop of len rounds that starts with a, where S[n] is    *)
(* what the n-th round does.                                               *)
LoopValues(A, a, len, S) ==
  {f \in [0..len -> A] : f[0] = a /\ \A n \in 1..len : f[n] = S[n][f[n-1]]}

(* A loop has a result: there is a function that starts with a and goes    *)
(* from the value at n - 1 to the value at n by the n-th step.             *)
LEMMA LoopExists ==
  ASSUME NEW A, NEW a, NEW len, NEW S,
         a \in A, len \in Nat, S \in [1..len -> [A -> A]]
  PROVE  LoopValues(A, a, len, S) # {}
<1> DEFINE Upto(m) ==
             \E f \in [0..m -> A] :
               /\ f[0] = a
               /\ \A n \in 1..m : f[n] = S[n][f[n-1]]
           T == {m \in Nat : Upto(m)}
<1>1. 0 \in T
  <2> DEFINE g == [n \in 0..0 |-> a]
  <2> g \in [0..0 -> A] /\ g[0] = a /\ 1..0 = {}
    OBVIOUS
  <2> QED
    OBVIOUS
<1>2. ASSUME NEW m \in 0..len, m \in T, m < len
      PROVE  m + 1 \in T
  <2>1. PICK f \in [0..m -> A] : f[0] = a /\ \A n \in 1..m : f[n] = S[n][f[n-1]]
    BY <1>2
  <2> DEFINE g == [n \in 0..m+1 |-> IF n = m + 1 THEN S[m+1][f[m]] ELSE f[n]]
  <2>2. m + 1 \in 1..len /\ f[m] \in A
    BY <1>2
  <2>3. S[m+1] \in [A -> A]
    BY <2>2
  <2>4. S[m+1][f[m]] \in A
    BY <2>2, <2>3
  <2>5. g \in [0..m+1 -> A]
    BY <2>4
  <2>6. g[0] = a
    BY <2>1
  <2>7. ASSUME NEW n \in 1..m+1
        PROVE  g[n] = S[n][g[n-1]]
    <3>1. CASE n = m + 1
      <4>1. m \in Nat /\ m # m + 1 /\ m \in 0..m+1 /\ m + 1 \in 0..m+1
        OBVIOUS
      <4>2. g[m+1] = S[m+1][f[m]] /\ g[m] = f[m] /\ n - 1 = m
        BY <3>1, <4>1
      <4> QED
        BY <3>1, <4>2
    <3>2. CASE n # m + 1
      <4>1. n \in 1..m /\ n \in 0..m+1 /\ n - 1 \in 0..m+1 /\ n - 1 # m + 1
        BY <3>2
      <4> QED
        BY <2>1, <4>1, <3>2
    <3> QED
      BY <3>1, <3>2
  <2> HIDE DEF g
  <2> QED
    BY <2>5, <2>6, <2>7, SMTT(30)
<1>3. Upto(len)
  <2>1. len \in T
    <3>1. \A m \in 0..len : m \in T /\ m < len => m + 1 \in T
      BY <1>2
    <3> HIDE DEF T
    <3>2. 0..len \subseteq T
      BY <1>1, <3>1, InductionUpTo
    <3> QED
      BY <3>2
  <2> HIDE DEF Upto
  <2> QED
    BY <2>1
<1> QED
  BY <1>3 DEF LoopValues
=============================================================================
