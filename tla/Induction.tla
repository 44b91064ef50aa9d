----------------------------- MODULE Induction ------------------------------
(***************************************************************************)
(* Induction and recursion over the naturals, stated for sets and          *)
(* functions in place of operators, so that they can be cited for what a   *)
(* loop of the code computes.                                              *)
(***************************************************************************)
EXTENDS Integers, TLAPS, WellFoundedInduction

\* A nonempty set of naturals has a least element.
LEMMA NatMin ==
  ASSUME NEW T \in SUBSET Nat, T # {}
  PROVE  \E x \in T : \A y \in T : x <= y
<1>1. PICK x \in T : \A y \in T : ~ (<<y, x>> \in OpToRel(<, Nat))
  BY WFMin, NatLessThanWellFounded
<1>2. \A y \in T : ~(y < x)
  BY <1>1 DEF OpToRel
<1> QED
  BY <1>2

\* Induction, for a set in place of a predicate.
LEMMA Induct ==
  ASSUME NEW T, 0 \in T, \A n \in Nat : n \in T => n + 1 \in T
  PROVE  Nat \subseteq T
<1> DEFINE U == Nat \ T
<1>1. SUFFICES ASSUME U # {} PROVE FALSE
  OBVIOUS
<1>2. PICK x \in U : \A y \in U : x <= y
  BY <1>1, NatMin
<1>3. x - 1 \in Nat /\ x - 1 \notin U
  BY <1>2
<1> QED
  BY <1>2, <1>3

\* F gives, for each turn, what it makes of the value before it.
Turns(F, S, V) == F \in [S -> [V -> V]]

Recurs(f, V, v0, F) ==
    /\ f \in [Nat -> V]
    /\ f[0] = v0
    /\ \A n \in Nat : f[n + 1] = F[n][f[n]]

\* A function of the naturals exists by its first value and its step.
LEMMA Recursion ==
  ASSUME NEW V, NEW v0 \in V, NEW F, Turns(F, Nat, V)
  PROVE  \E f : Recurs(f, V, v0, F)
<1> USE DEF Turns
<1> DEFINE Upto(g, n) == /\ g \in [0 .. n -> V]
                          /\ g[0] = v0
                          /\ \A i \in 0 .. n - 1 : g[i + 1] = F[i][g[i]]
            T == {n \in Nat : \E g : Upto(g, n)}
<1>1. 0 \in T
  <2>1. Upto([i \in 0 .. 0 |-> v0], 0)
    OBVIOUS
  <2> QED
    BY <2>1
<1>2. ASSUME NEW n \in Nat, n \in T PROVE n + 1 \in T
  <2>1. PICK g : Upto(g, n)
    BY <1>2
  <2> DEFINE h == [i \in 0 .. n + 1 |-> IF i = n + 1 THEN F[n][g[n]] ELSE g[i]]
  <2>2. g[n] \in V /\ F[n][g[n]] \in V
    BY <2>1
  <2>3. h \in [0 .. n + 1 -> V]
    BY <2>1, <2>2
  <2>4. h[0] = v0
    BY <2>1
  <2>5. ASSUME NEW i \in 0 .. n
        PROVE  h[i + 1] = F[i][h[i]]
    <3>0. /\ i \in 0 .. n + 1 /\ i + 1 \in 0 .. n + 1 /\ i # n + 1
          /\ h[i] = g[i]
      OBVIOUS
    <3>1. CASE i = n
      <4>1. h[n + 1] = F[n][g[n]]
        OBVIOUS
      <4> QED
        BY <3>0, <3>1, <4>1
    <3>2. CASE i \in 0 .. n - 1
      <4>1. h[i + 1] = g[i + 1] /\ g[i + 1] = F[i][g[i]]
        BY <3>2, <2>1
      <4> QED
        BY <3>0, <4>1
    <3> QED
      BY <3>1, <3>2
  <2>6. Upto(h, n + 1)
    <3> HIDE DEF h
    <3>1. (n + 1) - 1 = n
      OBVIOUS
    <3> QED
      BY <2>3, <2>4, <2>5, <3>1
  <2>7. \E k : Upto(k, n + 1)
    <3> HIDE DEF Upto, h
    <3> QED
      BY <2>6
  <2> QED
    BY <2>7
<1>3. Nat \subseteq T
  <2> HIDE DEF T
  <2> QED
    BY <1>1, <1>2, Induct
<1>4. ASSUME NEW m \in Nat, NEW n \in Nat, NEW g, NEW h, Upto(g, m), Upto(h, n), m <= n
      PROVE  g[m] = h[m]
  <2> DEFINE S == {i \in Nat : i <= m => g[i] = h[i]}
  <2>1. 0 \in S
    BY <1>4
  <2>2. ASSUME NEW i \in Nat, i \in S
        PROVE  i + 1 \in S
    <3> SUFFICES ASSUME i + 1 <= m
                 PROVE  g[i + 1] = h[i + 1]
      OBVIOUS
    <3>1. i \in 0 .. m - 1 /\ i \in 0 .. n - 1 /\ i <= m
      BY <1>4
    <3>2. g[i] = h[i]
      BY <2>2, <3>1
    <3>3. g[i + 1] = F[i][g[i]] /\ h[i + 1] = F[i][h[i]]
      BY <1>4, <3>1
    <3> QED
      BY <3>2, <3>3
  <2>3. Nat \subseteq S
    <3> HIDE DEF S
    <3> QED
      BY <2>1, <2>2, Induct
  <2> QED
    BY <2>3
<1> DEFINE part == [n \in Nat |-> CHOOSE g : Upto(g, n)]
            f == [n \in Nat |-> part[n][n]]
<1>5. \A n \in Nat : Upto(part[n], n)
  BY <1>3
<1> HIDE DEF part
<1>6. f \in [Nat -> V]
  BY <1>5
<1>7. f[0] = v0
  BY <1>5
<1>8. ASSUME NEW n \in Nat PROVE f[n + 1] = F[n][f[n]]
  <2>1. Upto(part[n], n) /\ Upto(part[n + 1], n + 1)
    BY <1>5
  <2>2. part[n][n] = part[n + 1][n]
    <3>1. n + 1 \in Nat /\ n <= n + 1
      OBVIOUS
    <3> HIDE DEF Upto
    <3> QED
      BY <2>1, <3>1, <1>4
  <2>3. part[n + 1][n + 1] = F[n][part[n + 1][n]]
    <3>1. n \in 0 .. (n + 1) - 1
      OBVIOUS
    <3> QED
      BY <2>1, <3>1
  <2> QED
    BY <2>2, <2>3
<1>9. Recurs(f, V, v0, F)
  <2> HIDE DEF f
  <2> QED
    BY <1>6, <1>7, <1>8 DEF Recurs
<1> QED
  BY <1>9

Loops(f, n, V, v0, G) ==
    /\ f \in [0 .. n -> V]
    /\ f[0] = v0
    /\ \A i \in 1 .. n : f[i] = G[i][f[i - 1]]

\* The values that the variable of a loop of n turns takes.
LEMMA LoopExists ==
  ASSUME NEW n \in Nat, NEW V, NEW v0 \in V, NEW G, Turns(G, 1 .. n, V)
  PROVE  \E f : Loops(f, n, V, v0, G)
<1> DEFINE F == [k \in Nat |-> IF k < n THEN G[k + 1] ELSE [v \in V |-> v]]
<1>1. Turns(F, Nat, V) /\ v0 \in V
  BY DEF Turns
<1>2. PICK g : Recurs(g, V, v0, F)
  <2> HIDE DEF F
  <2> QED
    BY <1>1, Recursion
<1> DEFINE f == [i \in 0 .. n |-> g[i]]
<1>3. f \in [0 .. n -> V] /\ f[0] = v0
  BY <1>2 DEF Recurs
<1>4. ASSUME NEW i \in 1 .. n
      PROVE  f[i] = G[i][f[i - 1]]
  <2>1. i - 1 \in Nat /\ i - 1 < n /\ (i - 1) + 1 = i /\ i - 1 \in 0 .. n /\ i \in 0 .. n
    OBVIOUS
  <2>2. g[i] = F[i - 1][g[i - 1]] /\ g[i - 1] \in V
    <3> HIDE DEF F
    <3> QED
      BY <1>2, <2>1 DEF Recurs
  <2>3. F[i - 1] = G[i]
    BY <2>1
  <2>4. f[i] = g[i] /\ f[i - 1] = g[i - 1]
    BY <2>1
  <2> HIDE DEF F, f
  <2> QED
    BY <2>2, <2>3, <2>4
<1>5. Loops(f, n, V, v0, G)
  <2> HIDE DEF f
  <2> QED
    BY <1>3, <1>4 DEF Loops
<1> QED
  BY <1>5

\* What holds before a loop and is kept by its turns holds throughout.
LEMMA LoopKeeps ==
  ASSUME NEW n \in Nat, NEW V, NEW f, f[0] \in V,
         \A i \in 1 .. n : f[i - 1] \in V => f[i] \in V
  PROVE  \A i \in 0 .. n : f[i] \in V
<1> DEFINE T == {i \in Nat : i <= n => f[i] \in V}
<1>1. 0 \in T
  OBVIOUS
<1>2. ASSUME NEW i \in Nat, i \in T
      PROVE  i + 1 \in T
  <2>1. (i + 1) - 1 = i /\ (i + 1 <= n => i + 1 \in 1 .. n /\ i <= n)
    BY <1>2
  <2> QED
    BY <1>2, <2>1
<1>3. Nat \subseteq T
  <2> HIDE DEF T
  <2> QED
    BY <1>1, <1>2, Induct
<1> QED
  BY <1>3
=============================================================================
