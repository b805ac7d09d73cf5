------------------------------- MODULE Induction -------------------------------
(***************************************************************************)
(* Induction over the natural numbers, and what is defined by it, in terms *)
(* of sets and functions: the step of a recursion is a function here, since *)
(* the provers cannot instantiate a theorem about an operator.             *)
(***************************************************************************)
EXTENDS Integers, WellFoundedInduction, TLAPS

\* Every set of natural numbers but the empty one has a least element.
LEMMA NatMin ==
  ASSUME NEW T, T \subseteq Nat, T # {}
  PROVE  \E x \in T : \A y \in T : x <= y
<1> DEFINE R == OpToRel(<, Nat)
<1>1. IsWellFoundedOn(R, Nat)
  BY NatLessThanWellFounded
<1>2. \A x, y \in Nat : y < x => <<y, x>> \in R
  BY DEF OpToRel
<1> HIDE DEF R
<1>3. PICK x \in T : \A y \in T : ~ (<<y, x>> \in R)
  BY <1>1, WFMin
<1>4. \A y \in T : x <= y
  <2> TAKE y \in T
  <2>1. x \in Nat /\ y \in Nat
    OBVIOUS
  <2>2. ~ (y < x)
    BY <1>2, <1>3, <2>1
  <2> QED BY <2>1, <2>2
<1> QED BY <1>3, <1>4

\* A set that holds 0 and with every number the next holds them all.
LEMMA Induct ==
  ASSUME NEW S, 0 \in S, \A n \in Nat : n \in S => n + 1 \in S
  PROVE  Nat \subseteq S
<1> SUFFICES ASSUME Nat \ S # {} PROVE FALSE
  OBVIOUS
<1>1. PICK x \in Nat \ S : \A y \in Nat \ S : x <= y
  BY NatMin
<1>2. x - 1 \in Nat /\ x - 1 \notin Nat \ S
  BY <1>1
<1>3. (x - 1) + 1 \in S
  BY <1>2
<1> QED BY <1>1, <1>3

\* The same up to a bound.
LEMMA InductUpTo ==
  ASSUME NEW S, NEW m \in Nat, 0 \in S, \A n \in 0..m - 1 : n \in S => n + 1 \in S
  PROVE  0..m \subseteq S
<1> DEFINE T == S \cup {n \in Nat : n > m}
<1>1. \A n \in Nat : n \in T => n + 1 \in T
  OBVIOUS
<1>2. Nat \subseteq T
  <2> HIDE DEF T
  <2>1. 0 \in T BY DEF T
  <2> QED BY <1>1, <2>1, Induct
<1> QED BY <1>2

\* f obeys a recursion over 0..m that starts from a with the step function G.
Obeys(f, a, m, G) == f[0] = a /\ \A n \in 0..m - 1 : f[n + 1] = G[n][f[n]]

\* A recursion over 0..m, whose step G goes from the value at n to the one at
\* n + 1, has one solution.
LEMMA Recursion ==
  ASSUME NEW S, NEW a \in S, NEW m \in Nat, NEW G \in [0..m -> [S -> S]]
  PROVE  \E f \in [0..m -> S] : Obeys(f, a, m, G)
<1> DEFINE Solves(f, k) == /\ f \in [0..m -> S] /\ f[0] = a
                           /\ \A n \in 0..k - 1 : f[n + 1] = G[n][f[n]]
           T == {k \in 0..m : \E f : Solves(f, k)}
<1>1. 0 \in T
  <2> DEFINE g == [n \in 0..m |-> a]
  <2>1. Solves(g, 0)
    OBVIOUS
  <2> HIDE DEF Solves, g
  <2> QED BY <2>1
<1>2. ASSUME NEW k \in 0..m - 1, k \in T PROVE k + 1 \in T
  <2>1. PICK f : Solves(f, k)
    BY <1>2
  <2> DEFINE h == [n \in 0..m |-> IF n = k + 1 THEN G[k][f[k]] ELSE f[n]]
  <2>2. G[k][f[k]] \in S
    BY <2>1
  <2>3. h \in [0..m -> S] /\ h[0] = a
    BY <2>1, <2>2
  <2>4. ASSUME NEW n \in 0..(k + 1) - 1 PROVE h[n + 1] = G[n][h[n]]
    <3>1. n \in 0..m /\ n + 1 \in 0..m /\ n # k + 1
      OBVIOUS
    <3>2. CASE n = k BY <3>1, <3>2
    <3>3. CASE n # k
      <4>1. n \in 0..k - 1 /\ n + 1 # k + 1 BY <3>3
      <4> QED BY <2>1, <3>1, <4>1
    <3> QED BY <3>2, <3>3
  <2>5. Solves(h, k + 1)
    <3> HIDE DEF h
    <3> QED BY <2>3, <2>4
  <2>6. k + 1 \in 0..m
    OBVIOUS
  <2> HIDE DEF Solves, h
  <2> QED BY <2>5, <2>6
<1>3. m \in T
  <2>1. 0..m \subseteq T
    <3> HIDE DEF T
    <3> QED BY <1>1, <1>2, InductUpTo
  <2> HIDE DEF T
  <2> QED BY <2>1
<1> QED BY <1>3 DEF Obeys
===============================================================================
