--------------------------- MODULE NaturalRecursion --------------------------
(***************************************************************************)
(* Lemmas about numbers, for the proofs of hw2 to hw4: induction, as the   *)
(* choice of a least element or as a set of numbers that goes on, and the  *)
(* functions that recursion defines.  A step of the recursion is a         *)
(* function here, not an operator: step[n][v] is the value behind v at n.  *)
(***************************************************************************)
EXTENDS Integers, TLAPS, NaturalsInduction, WellFoundedInduction

LEMMA LeastNat ==
  ASSUME NEW S, S \subseteq Nat, S # {}
  PROVE  \E x \in S : \A y \in S : x <= y
<1>. DEFINE R == OpToRel(<, Nat)
<1>1. \A x, y \in Nat : y < x => <<y, x>> \in R
  BY DEF OpToRel
<1>2. IsWellFoundedOn(R, Nat)
  BY NatLessThanWellFounded
<1>. HIDE DEF R
<1>3. \E x \in S : \A y \in S : ~(<<y, x>> \in R)
  BY <1>2, WFMin
<1>4. PICK x \in S : \A y \in S : ~(<<y, x>> \in R)
  BY <1>3
<1>5. ASSUME NEW y \in S PROVE x <= y
  <2>1. x \in Nat /\ y \in Nat /\ ~(y < x)
    BY <1>1, <1>4
  <2>. QED  BY <2>1
<1>. QED  BY <1>5

\* A set with 0 that goes on from each of its numbers up to m holds them all.
LEMMA AllUpTo ==
  ASSUME NEW m \in Nat, NEW S, 0 \in S, \A n \in 0..(m - 1) : n \in S => n + 1 \in S
  PROVE  0..m \subseteq S
<1>. DEFINE Missing == {n \in 0..m : n \notin S}
<1>1. CASE Missing = {}
  BY <1>1
<1>2. CASE Missing # {}
  <2>1. PICK n \in Missing : \A k \in Missing : n <= k
    <3>1. Missing \subseteq Nat
      OBVIOUS
    <3>. QED  BY <1>2, <3>1, LeastNat
  <2>2. n \in 0..m /\ n \notin S /\ n # 0
    BY <2>1
  <2>3. n - 1 \in 0..(m - 1) /\ (n - 1) + 1 = n /\ n - 1 \in 0..m
    BY <2>2
  <2>4. n - 1 \notin Missing
    <3>1. ~(n <= n - 1)
      BY <2>2
    <3>. QED  BY <2>1, <3>1
  <2>5. n - 1 \in S
    BY <2>3, <2>4
  <2>. QED  BY <2>2, <2>3, <2>5
<1>. QED  BY <1>1, <1>2

\* The first values of the recursion, up to the one at n.
Begins(f, V, v0, step, n) ==
  /\ f \in [0..n -> V]
  /\ f[0] = v0
  /\ \A k \in 0..(n - 1) : f[k + 1] = step[k][f[k]]

LEMMA BeginningExists ==
  ASSUME NEW V, NEW v0 \in V, NEW m \in Nat, NEW step \in [0..(m - 1) -> [V -> V]]
  PROVE  \E f : Begins(f, V, v0, step, m)
<1>. DEFINE S == {n \in 0..m : \E f : Begins(f, V, v0, step, n)}
<1>1. 0 \in S
  <2>. DEFINE f == [k \in 0..0 |-> v0]
  <2>1. Begins(f, V, v0, step, 0)
    BY DEF Begins
  <2>. QED  BY <2>1
<1>2. ASSUME NEW n \in 0..(m - 1), n \in S
      PROVE  n + 1 \in S
  <2>1. PICK f : Begins(f, V, v0, step, n)
    BY <1>2
  <2>2. n \in Nat /\ n + 1 \in 0..m /\ n \in 0..n
    BY <1>2
  <2>. DEFINE g == [k \in 0..(n + 1) |-> IF k = n + 1 THEN step[n][f[n]] ELSE f[k]]
  <2>3. f[n] \in V /\ step[n][f[n]] \in V
    BY <1>2, <2>1, <2>2 DEF Begins
  <2>4. \A k \in 0..n : g[k] = f[k] /\ f[k] \in V
    BY <2>1, <2>2 DEF Begins
  <2>5. g[n + 1] = step[n][f[n]] /\ g[0] = v0
    BY <2>1, <2>2 DEF Begins
  <2>6. g \in [0..(n + 1) -> V]
    <3>1. \A k \in 0..(n + 1) : k = n + 1 \/ k \in 0..n
      BY <2>2
    <3>. QED  BY <2>3, <2>4, <3>1
  <2>. HIDE DEF g
  <2>7. ASSUME NEW k \in 0..((n + 1) - 1) PROVE g[k + 1] = step[k][g[k]]
    <3>1. k \in 0..n
      BY <2>2
    <3>2. CASE k = n
      BY <2>2, <2>4, <2>5, <3>2
    <3>3. CASE k # n
      <4>1. k \in 0..(n - 1) /\ k + 1 \in 0..n
        BY <2>2, <3>1, <3>3
      <4>. QED  BY <2>1, <2>4, <3>1, <4>1 DEF Begins
    <3>. QED  BY <3>2, <3>3
  <2>8. Begins(g, V, v0, step, n + 1)
    BY <2>5, <2>6, <2>7 DEF Begins
  <2>. QED  BY <2>2, <2>8
<1>3. 0..m \subseteq S
  <2>. HIDE DEF S
  <2>. QED  BY <1>1, <1>2, AllUpTo
<1>4. m \in 0..m
  OBVIOUS
<1>. QED  BY <1>3, <1>4

\* Two beginnings agree as far as they reach.
LEMMA BeginningsAgree ==
  ASSUME NEW V, NEW v0, NEW step, NEW m \in Nat, NEW n \in Nat, m <= n,
         NEW f, NEW g, Begins(f, V, v0, step, m), Begins(g, V, v0, step, n)
  PROVE  \A k \in 0..m : f[k] = g[k]
<1>. DEFINE S == {k \in 0..m : f[k] = g[k]}
<1>1. 0 \in S
  BY DEF Begins
<1>2. ASSUME NEW k \in 0..(m - 1), k \in S
      PROVE  k + 1 \in S
  <2>1. k \in 0..(n - 1) /\ k + 1 \in 0..m
    BY <1>2
  <2>. QED  BY <1>2, <2>1 DEF Begins
<1>3. 0..m \subseteq S
  <2>. HIDE DEF S
  <2>. QED  BY <1>1, <1>2, AllUpTo
<1>. QED  BY <1>3

\* What is needed for a recursion, and what it defines.
Recursion(V, v0, step) == v0 \in V /\ step \in [Nat -> [V -> V]]

Recurs(f, V, v0, step) ==
  f \in [Nat -> V] /\ f[0] = v0 /\ \A n \in Nat : f[n + 1] = step[n][f[n]]

\* The recursion has values for all numbers.
LEMMA RecursionExists ==
  ASSUME NEW V, NEW v0, NEW step, Recursion(V, v0, step)
  PROVE  \E f : Recurs(f, V, v0, step)
<1>. DEFINE First(n) == CHOOSE f : Begins(f, V, v0, step, n)
            f == [n \in Nat |-> First(n)[n]]
<1>1. ASSUME NEW n \in Nat PROVE Begins(First(n), V, v0, step, n)
  <2>. DEFINE part == [k \in 0..(n - 1) |-> step[k]]
  <2>1. part \in [0..(n - 1) -> [V -> V]] /\ \A k \in 0..(n - 1) : part[k] = step[k]
    BY DEF Recursion
  <2>. HIDE DEF part
  <2>2. PICK g : Begins(g, V, v0, part, n)
    BY <2>1, BeginningExists DEF Recursion
  <2>3. Begins(g, V, v0, step, n)
    BY <2>1, <2>2 DEF Begins
  <2>. QED  BY <2>3
<1>. HIDE DEF First
<1>2. f \in [Nat -> V]
  <2>1. ASSUME NEW n \in Nat PROVE First(n)[n] \in V
    <3>1. n \in 0..n
      OBVIOUS
    <3>. QED  BY <1>1, <3>1 DEF Begins
  <2>. QED  BY <2>1
<1>3. f[0] = v0
  BY <1>1 DEF Begins
<1>4. ASSUME NEW n \in Nat PROVE f[n + 1] = step[n][f[n]]
  <2>1. n + 1 \in Nat /\ n <= n + 1 /\ n \in 0..n /\ n \in 0..((n + 1) - 1)
    OBVIOUS
  <2>2. First(n)[n] = First(n + 1)[n]
    BY <1>1, <2>1, BeginningsAgree
  <2>3. First(n + 1)[n + 1] = step[n][First(n + 1)[n]]
    BY <1>1, <2>1 DEF Begins
  <2>. QED  BY <2>1, <2>2, <2>3
<1>. QED  BY <1>2, <1>3, <1>4 DEF Recurs
=============================================================================
