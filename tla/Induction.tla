------------------------------ MODULE Induction -----------------------------
(***************************************************************************)
(* Induction over the numbers, stated with sets, and the recursive         *)
(* functions that it justifies. The theorems of the library take a         *)
(* predicate or a definition as a parameter; with a set or a function in   *)
(* its place they can be used like any other fact.                         *)
(***************************************************************************)
EXTENDS Integers, WellFoundedInduction, TLAPS

(* A non-empty set of numbers has a least one.                             *)
THEOREM LeastNumber ==
  ASSUME NEW T, T \subseteq Nat, T # {}
  PROVE  \E n \in T : \A m \in T : n <= m
<1> DEFINE Less == {pair \in Nat \X Nat : pair[1] < pair[2]}
<1>1. IsWellFoundedOn(Less, Nat)
  BY NatLessThanWellFounded DEF OpToRel
<1>2. PICK n \in T : \A m \in T : ~ (<<m, n>> \in Less)
  <2> HIDE DEF Less
  <2> QED
    BY <1>1, WFMin
<1>3. \A m \in T : ~(m < n)
  BY <1>2, n \in Nat, T \subseteq Nat
<1> QED
  BY <1>3, T \subseteq Nat, SMT

(* Induction: a set that holds 0 and with a number the next one.           *)
THEOREM SetInduction ==
  ASSUME NEW S, 0 \in S, \A n \in Nat : n \in S => n + 1 \in S
  PROVE  \A n \in Nat : n \in S
<1> SUFFICES ASSUME Nat \ S # {} PROVE FALSE
  OBVIOUS
<1>1. PICK n \in Nat \ S : \A m \in Nat \ S : n <= m
  BY LeastNumber
<1>2. n # 0 /\ n - 1 \in Nat /\ n - 1 \in S
  BY <1>1
<1> QED
  BY <1>1, <1>2

(* A function that begins with a and goes on by a step of its last value:  *)
(* there is one.                                                           *)
Recursive(f, N, a, step) == f[0] = a /\ \A k \in 1 .. N : f[k] = step[<<k, f[k - 1]>>]
THEOREM RecursionExists ==
  ASSUME NEW N \in Nat, NEW R, NEW a \in R, NEW step \in [(1 .. N) \X R -> R]
  PROVE  \E f \in [0 .. N -> R] : Recursive(f, N, a, step)
<1> DEFINE Good(f, m) == \A k \in 0 .. m : f[k] = IF k = 0 THEN a ELSE step[<<k, f[k - 1]>>]
           S == {m \in Nat : m <= N => \E f \in [0 .. m -> R] : Good(f, m)}
<1>1. 0 \in S
  <2>1. [k \in 0 .. 0 |-> a] \in [0 .. 0 -> R] /\ Good([k \in 0 .. 0 |-> a], 0)
    OBVIOUS
  <2> QED
    BY <2>1
<1>2. ASSUME NEW m \in Nat, m \in S PROVE m + 1 \in S
  <2> SUFFICES ASSUME m + 1 <= N PROVE \E f \in [0 .. m + 1 -> R] : Good(f, m + 1)
    OBVIOUS
  <2>1. PICK g \in [0 .. m -> R] : Good(g, m)
    BY <1>2
  <2> DEFINE f == [k \in 0 .. m + 1 |-> IF k <= m THEN g[k] ELSE step[<<k, g[k - 1]>>]]
  <2>2. f \in [0 .. m + 1 -> R]
    BY SMT
  <2>3. \A k \in 0 .. m + 1 : k - 1 \in 0 .. m => f[k - 1] = g[k - 1]
    OBVIOUS
  <2>4. Good(f, m + 1)
    <3> SUFFICES ASSUME NEW k \in 0 .. m + 1
                 PROVE  f[k] = IF k = 0 THEN a ELSE step[<<k, f[k - 1]>>]
      OBVIOUS
    <3>1. CASE k <= m
      <4>1. f[k] = g[k] /\ k \in 0 .. m
        BY <3>1
      <4>2. k # 0 => k - 1 \in 0 .. m /\ f[k - 1] = g[k - 1]
        BY <2>3, <4>1
      <4>3. g[k] = IF k = 0 THEN a ELSE step[<<k, g[k - 1]>>]
        BY <2>1, <4>1
      <4> HIDE DEF f
      <4> QED
        BY <4>1, <4>2, <4>3
    <3>2. CASE k = m + 1
      BY <2>3, <3>2
    <3> QED
      BY <3>1, <3>2
  <2> QED
    BY <2>2, <2>4
<1>3. N \in S
  <2> HIDE DEF S
  <2> QED
    BY <1>1, <1>2, SetInduction
<1>4. PICK f \in [0 .. N -> R] : Good(f, N)
  BY <1>3
<1>5. ASSUME NEW k \in 1 .. N PROVE f[k] = step[<<k, f[k - 1]>>]
  <2>1. k \in 0 .. N /\ k # 0
    OBVIOUS
  <2> QED
    BY <1>4, <2>1
<1>6. f[0] = a
  <2>1. 0 \in 0 .. N
    OBVIOUS
  <2> QED
    BY <1>4, <2>1
<1> QED
  BY <1>5, <1>6 DEF Recursive

=============================================================================
