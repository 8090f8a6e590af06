------------------------------- MODULE Loops -------------------------------
(***************************************************************************)
(* Loops of a bounded number of turns, written as recursive functions on   *)
(* the turns made so far: RunExists says that the function a loop defines  *)
(* exists, and TurnByTurn that what every turn keeps holds at its end.     *)
(***************************************************************************)
EXTENDS Naturals, NaturalsInduction, WellFoundedInduction, TLAPS

\* A set of numbers that is not empty has a least member.
LEMMA LeastIn ==
  ASSUME NEW S \in SUBSET Nat, S # {}
  PROVE  \E x \in S : \A y \in S : x <= y
  <1>1. \A x, y \in Nat : x < y => <<x, y>> \in OpToRel(<, Nat)
    BY DEF OpToRel
  <1>2. \E x \in S : \A y \in S : ~ (<<y, x>> \in OpToRel(<, Nat))
    <2>1. IsWellFoundedOn(OpToRel(<, Nat), Nat)
      BY NatLessThanWellFounded, Zenon
    <2> QED
      BY <2>1, WFMin, Zenon
  <1>3. \E x \in S : \A y \in S : ~ (y < x)
    <2>1. S \subseteq Nat
      OBVIOUS
    <2> QED
      BY <1>1, <1>2, <2>1, Zenon
  <1> QED
    BY <1>3

\* Induction over the turns of a loop: S are the turns for which something holds.
LEMMA TurnByTurn ==
  ASSUME NEW n \in Nat, NEW S, 0 \in S, \A i \in 1..n : i - 1 \in S => i \in S
  PROVE  \A i \in 0..n : i \in S
  <1> DEFINE B == {i \in 0..n : i \notin S}
  <1> SUFFICES ASSUME B # {} PROVE FALSE
    OBVIOUS
  <1>1. B \in SUBSET Nat
    OBVIOUS
  <1>2. PICK x \in B : \A y \in B : x <= y
    BY <1>1, LeastIn
  <1>3. x \in 1..n /\ x - 1 \in 0..n /\ x - 1 \notin B
    BY <1>2
  <1> QED
    BY <1>2, <1>3

\* g records k turns of a loop that starts in state a.
RunOf(g, k, R, a, f) ==
  /\ g \in [0..k -> R]
  /\ g[0] = a
  /\ \A i \in 1..k : g[i] = f[<<g[i - 1], i>>]

\* g is the function that a loop of n turns defines, from state a with turn f.
LoopOf(g, n, a, f) == g = [i \in 0..n |-> IF i = 0 THEN a ELSE f[<<g[i - 1], i>>]]

\* A loop of n turns, each taking a state in R to one in R, has a run.
LEMMA RunExists ==
  ASSUME NEW n \in Nat, NEW R, NEW a \in R, NEW f,
         \A r \in R, i \in 1..n : f[<<r, i>>] \in R
  PROVE  \E g : LoopOf(g, n, a, f) /\ \A i \in 0..n : g[i] \in R
  <1> DEFINE S == {k \in 0..n : \E g : RunOf(g, k, R, a, f)}
  <1>1. 0 \in S
    <2>1. PICK g : g = [i \in 0..0 |-> a]
      OBVIOUS
    <2>2. RunOf(g, 0, R, a, f)
      BY <2>1 DEF RunOf
    <2>3. 0 \in 0..n
      OBVIOUS
    <2> QED
      BY <2>2, <2>3
  <1>2. ASSUME NEW k \in 1..n, k - 1 \in S
        PROVE  k \in S
    <2>1. PICK g : RunOf(g, k - 1, R, a, f)
      BY <1>2
    <2>2. PICK v : v = f[<<g[k - 1], k>>]
      OBVIOUS
    <2>3. \A i \in 0..(k - 1) : g[i] \in R
      BY <2>1 DEF RunOf
    <2>4. v \in R
      BY <2>2, <2>3
    <2>5. PICK h : h = [i \in 0..k |-> IF i = k THEN v ELSE g[i]]
      OBVIOUS
    <2>6. \A i \in 0..k : h[i] = IF i = k THEN v ELSE g[i]
      BY <2>5
    <2>7. h \in [0..k -> R]
      <3>1. \A i \in 0..k : (IF i = k THEN v ELSE g[i]) \in R
        BY <2>3, <2>4
      <3> QED
        BY <2>5, <3>1
    <2>8. ASSUME NEW i \in 1..k
          PROVE  h[i] = f[<<h[i - 1], i>>]
      <3>0. i \in 0..k /\ i - 1 \in 0..k /\ i - 1 # k
        OBVIOUS
      <3>1. CASE i = k
        BY <2>2, <2>6, <3>0, <3>1
      <3>2. CASE i # k
        <4>1. i \in 1..(k - 1)
          BY <3>2
        <4>2. g[i] = f[<<g[i - 1], i>>]
          BY <2>1, <4>1 DEF RunOf
        <4> QED
          BY <2>6, <3>0, <3>2, <4>2
      <3> QED
        BY <3>1, <3>2
    <2>9. h[0] = a
      BY <2>1, <2>6 DEF RunOf
    <2>10. RunOf(h, k, R, a, f)
      BY <2>7, <2>8, <2>9 DEF RunOf
    <2>11. k \in 0..n
      OBVIOUS
    <2> QED
      BY <2>10, <2>11
  <1> HIDE DEF S
  <1>3. \A k \in 0..n : k \in S
    BY <1>1, <1>2, TurnByTurn
  <1>4. PICK g : RunOf(g, n, R, a, f)
    BY <1>3 DEF S
  <1>5. ASSUME NEW i \in 0..n
        PROVE  g[i] = IF i = 0 THEN a ELSE f[<<g[i - 1], i>>]
    BY <1>4 DEF RunOf
  <1>6. g = [i \in 0..n |-> g[i]] /\ \A i \in 0..n : g[i] \in R
    BY <1>4 DEF RunOf
  <1>7. LoopOf(g, n, a, f)
    BY <1>5, <1>6 DEF LoopOf
  <1> QED
    BY <1>6, <1>7
=============================================================================
