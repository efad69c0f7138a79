------------------------------ MODULE Induction ------------------------------
(***************************************************************************)
(* Induction over data, stated with sets: the least element of a set of    *)
(* numbers, induction on a set of numbers, and the value of a function     *)
(* that is defined from its value one step before.                         *)
(***************************************************************************)
EXTENDS Integers, WellFoundedInduction, TLAPS

LEMMA LeastNumber ==
  ASSUME NEW T, T \subseteq Nat, T # {}
  PROVE  \E x \in T : \A y \in T : x <= y
<1> DEFINE R == OpToRel(<, Nat)
<1>1. IsWellFoundedOn(R, Nat)
  BY NatLessThanWellFounded
<1>2. \A x, y \in Nat : x < y => <<x, y>> \in R
  BY DEF OpToRel
<1> HIDE DEF R
<1>3. PICK x \in T : \A y \in T : ~ (<<y, x>> \in R)
  BY <1>1, WFMin
<1>4. ASSUME NEW y \in T PROVE x <= y
  <2>1. x \in Nat /\ y \in Nat
    OBVIOUS
  <2>2. ~ (y < x)
    BY <1>2, <1>3, <2>1
  <2>3. QED
    BY <2>1, <2>2
<1>5. QED
  BY <1>4

\* Induction on the numbers that are in a set.
LEMMA NumbersIn ==
  ASSUME NEW S, 0 \in S, \A n \in Nat : n \in S => n + 1 \in S
  PROVE  Nat \subseteq S
<1> SUFFICES ASSUME Nat \ S # {} PROVE FALSE
  OBVIOUS
<1>1. PICK x \in Nat \ S : \A y \in Nat \ S : x <= y
  BY LeastNumber
<1>2. x # 0 /\ x - 1 \in Nat
  OBVIOUS
<1>3. x - 1 \in S
  BY <1>1, <1>2
<1>4. QED
  BY <1>2, <1>3

LEMMA NumbersUpTo ==
  ASSUME NEW N \in Nat, NEW S, 0 \in S,
         \A n \in 1 .. N : n - 1 \in S => n \in S
  PROVE  0 .. N \subseteq S
<1> DEFINE T == {k \in Nat : k <= N => k \in S}
<1>1. 0 \in T
  OBVIOUS
<1>2. ASSUME NEW n \in Nat, n \in T
      PROVE  n + 1 \in T
  <2>1. CASE n + 1 <= N
    <3>1. n + 1 \in 1 .. N /\ (n + 1) - 1 = n /\ n \in S
      BY <1>2, <2>1
    <3>2. QED
      BY <3>1
  <2>2. CASE ~(n + 1 <= N)
    BY <2>2
  <2>3. QED
    BY <2>1, <2>2
<1> HIDE DEF T
<1>3. Nat \subseteq T
  BY <1>1, <1>2, NumbersIn
<1>4. QED
  BY <1>3 DEF T

\* A function whose value at n is g[n] of its value at n - 1.
Iterates(f, b, g, N) ==
  f[0] = b /\ \A n \in 1 .. N : f[n] = g[n][f[n - 1]]

LEMMA IteratesExist ==
  ASSUME NEW S, NEW b \in S, NEW N \in Nat, NEW g \in [1 .. N -> [S -> S]]
  PROVE  \E f \in [0 .. N -> S] : Iterates(f, b, g, N)
<1> DEFINE P(k) == \E f \in [0 .. k -> S] : Iterates(f, b, g, k)
           T == {k \in 0 .. N : P(k)}
<1>1. 0 \in T
  <2>1. [n \in 0 .. 0 |-> b] \in [0 .. 0 -> S]
    OBVIOUS
  <2>2. Iterates([n \in 0 .. 0 |-> b], b, g, 0)
    BY DEF Iterates
  <2>3. QED
    BY <2>1, <2>2
<1>2. ASSUME NEW k \in 1 .. N, k - 1 \in T
      PROVE  k \in T
  <2>1. PICK f \in [0 .. k - 1 -> S] : Iterates(f, b, g, k - 1)
    BY <1>2
  <2> DEFINE h == [n \in 0 .. k |-> IF n = k THEN g[k][f[k - 1]] ELSE f[n]]
  <2>2. k - 1 \in 0 .. k - 1
    OBVIOUS
  <2>3. g[k] \in [S -> S] /\ f[k - 1] \in S
    BY <2>2
  <2>4. g[k][f[k - 1]] \in S
    BY <2>3
  <2>5. h \in [0 .. k -> S]
    <3>1. \A n \in 0 .. k : n # k => n \in 0 .. k - 1
      OBVIOUS
    <3>2. QED
      BY <2>4, <3>1
  <2>6. h[0] = b
    BY <2>1 DEF Iterates
  <2>7. ASSUME NEW n \in 1 .. k
        PROVE  h[n] = g[n][h[n - 1]]
    <3>1. n - 1 \in 0 .. k /\ n - 1 # k /\ n \in 0 .. k
      OBVIOUS
    <3>2. h[n - 1] = f[n - 1]
      BY <3>1
    <3>3. CASE n = k
      BY <3>1, <3>2, <3>3
    <3>4. CASE n # k
      <4>1. h[n] = f[n] /\ n \in 1 .. k - 1
        BY <3>1, <3>4
      <4>2. QED
        BY <2>1, <3>2, <4>1 DEF Iterates
    <3>5. QED
      BY <3>3, <3>4
  <2> HIDE DEF h
  <2>8. Iterates(h, b, g, k)
    BY <2>6, <2>7 DEF Iterates
  <2>9. QED
    BY <2>5, <2>8
<1> HIDE DEF P, T
<1>3. 0 .. N \subseteq T
  BY <1>1, <1>2, NumbersUpTo
<1>4. P(N)
  BY <1>3 DEF T
<1>5. QED
  BY <1>4 DEF P

\* Such a function stays in a set that its steps keep.
LEMMA IteratesIn ==
  ASSUME NEW S, NEW b \in S, NEW N \in Nat, NEW g, NEW f,
         Iterates(f, b, g, N),
         \A n \in 1 .. N : \A x \in S : g[n][x] \in S
  PROVE  \A n \in 0 .. N : f[n] \in S
<1> DEFINE T == {n \in 0 .. N : f[n] \in S}
<1>1. 0 \in T
  BY DEF Iterates
<1>2. ASSUME NEW n \in 1 .. N, n - 1 \in T
      PROVE  n \in T
  BY <1>2 DEF Iterates
<1> HIDE DEF T
<1>3. 0 .. N \subseteq T
  BY <1>1, <1>2, NumbersUpTo
<1>4. QED
  BY <1>3 DEF T
=============================================================================
