---------------------------- MODULE BoundedInduction ----------------------------
(***************************************************************************)
(* Induction and recursion over 0 .. N without operators as parameters: a  *)
(* property is a set, and the step of a recursion is a function.           *)
(***************************************************************************)
EXTENDS Naturals, WellFoundedInduction, TLAPS

(* Every set of naturals has a least element. *)
LEMMA LeastNatural ==
    ASSUME NEW T \in SUBSET Nat, T # {}
    PROVE  \E m \in T : \A k \in T : m <= k
  <1> DEFINE R == OpToRel(<, Nat)
  <1>1. IsWellFoundedOn(R, Nat)
    BY NatLessThanWellFounded
  <1>2. PICK x \in T : \A y \in T : <<y, x>> \notin R
    <2> HIDE DEF R
    <2> QED
      BY <1>1, WFMin
  <1>3. \A y \in T : ~(y < x)
    BY <1>2 DEF OpToRel
  <1> HIDE DEF R
  <1> QED
    BY <1>3

(* A set of the naturals up to N that holds 0 and is closed under successor  *)
(* holds them all.                                                           *)
LEMMA Induction ==
    ASSUME NEW N \in Nat, NEW T, 0 \in T, \A n \in 1 .. N : n - 1 \in T => n \in T
    PROVE  0 .. N \subseteq T
  <1> SUFFICES ASSUME (0 .. N) \ T # {} PROVE FALSE
    OBVIOUS
  <1>1. (0 .. N) \ T \in SUBSET Nat
    OBVIOUS
  <1>2. PICK m \in (0 .. N) \ T : \A k \in (0 .. N) \ T : m <= k
    BY <1>1, LeastNatural
  <1>3. m \in 1 .. N /\ m - 1 \in 0 .. N /\ ~(m <= m - 1)
    BY <1>2
  <1> QED
    BY <1>2, <1>3

(* f starts at a, and goes from n - 1 to n by step n of G. *)
Follows(f, N, a, G) == f[0] = a /\ \A n \in 1 .. N : f[n] = G[n][f[n - 1]]

(* A function defined by recursion on 0 .. N exists, and takes its values    *)
(* where its step takes them.                                                *)
LEMMA Recursion ==
    ASSUME NEW N \in Nat, NEW S, NEW a \in S, NEW G \in [1 .. N -> [S -> S]]
    PROVE  \E f \in [0 .. N -> S] : Follows(f, N, a, G)
  <1> DEFINE T == {m \in 0 .. N : \E f \in [0 .. m -> S] : Follows(f, m, a, G)}
  <1>1. 0 \in T
    <2>1. [n \in 0 .. 0 |-> a] \in [0 .. 0 -> S] /\ Follows([n \in 0 .. 0 |-> a], 0, a, G)
      BY DEF Follows
    <2>2. 0 \in 0 .. N /\ \E f \in [0 .. 0 -> S] : Follows(f, 0, a, G)
      BY <2>1
    <2> QED
      BY <2>2
  <1>2. ASSUME NEW m \in 1 .. N, m - 1 \in T PROVE m \in T
    <2>1. PICK f \in [0 .. m - 1 -> S] : Follows(f, m - 1, a, G)
      BY <1>2
    <2> DEFINE g == [n \in 0 .. m |-> IF n = m THEN G[m][f[m - 1]] ELSE f[n]]
    <2>2. m - 1 \in 0 .. m - 1 /\ f[m - 1] \in S /\ m \in 0 .. m
      BY <2>1
    <2>3. G[m][f[m - 1]] \in S
      BY <2>2
    <2>4. /\ g \in [0 .. m -> S] /\ g[m] = G[m][f[m - 1]]
          /\ \A n \in 0 .. m - 1 : g[n] = f[n]
      BY <2>1, <2>3
    <2> HIDE DEF g
    <2>5. ASSUME NEW n \in 1 .. m PROVE g[n] = G[n][g[n - 1]]
      <3>1. CASE n = m
        <4>1. g[m - 1] = f[m - 1]
          BY <2>2, <2>4
        <4> QED
          BY <2>4, <3>1, <4>1
      <3>2. CASE n # m
        <4>1. n \in 1 .. m - 1 /\ n \in 0 .. m - 1 /\ n - 1 \in 0 .. m - 1
          BY <3>2
        <4> QED
          BY <2>1, <2>4, <4>1 DEF Follows
      <3> QED
        BY <3>1, <3>2
    <2>6. g[0] = a
      <3>1. 0 \in 0 .. m - 1
        OBVIOUS
      <3> QED
        BY <2>1, <2>4, <3>1 DEF Follows
    <2>7. Follows(g, m, a, G)
      BY <2>5, <2>6 DEF Follows
    <2>8. m \in 0 .. N /\ \E h \in [0 .. m -> S] : Follows(h, m, a, G)
      BY <2>4, <2>7
    <2> QED
      BY <2>8
  <1>3. N \in T
    <2> HIDE DEF T
    <2>1. 0 .. N \subseteq T
      BY <1>1, <1>2, Induction
    <2> QED
      BY <2>1
  <1> QED
    BY <1>3
=================================================================================
