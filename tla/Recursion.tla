------------------------------- MODULE Recursion -------------------------------
(***************************************************************************)
(* Induction over the natural numbers and over the definition of a         *)
(* recursive function, stated with sets and functions alone.               *)
(***************************************************************************)
EXTENDS Naturals, WellFoundedInduction, TLAPS

(* A set of numbers that has 0 and with every number the next has all.     *)
LEMMA AllNumbers ==
  ASSUME NEW T \in SUBSET Nat, 0 \in T, \A n \in T : n + 1 \in T
  PROVE  T = Nat
<1> SUFFICES ASSUME Nat \ T # {}
             PROVE  FALSE
  OBVIOUS
<1> DEFINE R == OpToRel(<, Nat)
           U == Nat \ T
<1>1. IsWellFoundedOn(R, Nat)
  BY NatLessThanWellFounded
<1>2. \A k, n \in Nat : k < n => <<k, n>> \in R
  BY DEF OpToRel
<1>3. PICK m \in U : \A k \in U : <<k, m>> \notin R
  <2>1. U \subseteq Nat /\ U # {}
    OBVIOUS
  <2> HIDE DEF U, R
  <2> QED  BY <1>1, <2>1, WFMin
<1> HIDE DEF R
<1>4. m # 0 /\ m - 1 \in Nat /\ m - 1 < m /\ (m - 1) + 1 = m
  BY <1>3
<1>5. m - 1 \in T
  BY <1>2, <1>3, <1>4
<1> QED  BY <1>3, <1>4, <1>5

(* Every set of numbers that is not empty has a least one.                 *)
LEMMA LeastNumber ==
  ASSUME NEW U \in SUBSET Nat, U # {}
  PROVE  \E m \in U : \A k \in U : m <= k
<1> DEFINE T == {n \in Nat : \A k \in U : n <= k}
<1> SUFFICES ASSUME \A m \in U : \E k \in U : k < m
             PROVE  FALSE
  OBVIOUS
<1>1. 0 \in T
  OBVIOUS
<1>2. ASSUME NEW n \in T
      PROVE  n + 1 \in T
  <2>1. ASSUME NEW k \in U
        PROVE  n + 1 <= k
    <3>1. PICK j \in U : j < k
      OBVIOUS
    <3>2. n \in Nat /\ j \in Nat /\ k \in Nat /\ n <= j
      OBVIOUS
    <3> QED  BY <3>1, <3>2
  <2> QED  BY <2>1
<1>3. T \in SUBSET Nat
  OBVIOUS
<1>4. T = Nat
  <2> HIDE DEF T
  <2> QED  BY <1>1, <1>2, <1>3, AllNumbers
<1>5. PICK m \in U : TRUE
  OBVIOUS
<1>6. m + 1 \in T
  BY <1>4
<1> QED  BY <1>6

(* What a recursive function makes of a number and of its value before it. *)
StepsOver(S) == [Nat -> [S -> S]]

Iterates(S, base, step, g) ==
  /\ g \in [Nat -> S] /\ g[0] = base
  /\ \A n \in Nat \ {0} : g[n] = step[n][g[n - 1]]

(* The same, up to k.                                                      *)
IteratesUpTo(S, base, step, k, g) ==
  /\ g \in [0 .. k -> S] /\ g[0] = base
  /\ \A n \in 1 .. k : g[n] = step[n][g[n - 1]]

LEMMA IteratesExistUpTo ==
  ASSUME NEW S, NEW base \in S, NEW step \in StepsOver(S), NEW m \in Nat
  PROVE  \E g : IteratesUpTo(S, base, step, m, g)
<1> DEFINE T == {k \in Nat : \E g : IteratesUpTo(S, base, step, k, g)}
<1>1. 0 \in T
  <2>1. IteratesUpTo(S, base, step, 0, [n \in 0 .. 0 |-> base])
    BY DEF IteratesUpTo
  <2> QED  BY <2>1
<1>2. ASSUME NEW k \in T
      PROVE  k + 1 \in T
  <2>1. k \in Nat /\ \E g : IteratesUpTo(S, base, step, k, g)
    OBVIOUS
  <2>2. PICK g : IteratesUpTo(S, base, step, k, g)
    BY <2>1
  <2> DEFINE h == [n \in 0 .. k + 1 |-> IF n = k + 1 THEN step[n][g[k]] ELSE g[n]]
  <2>3. g[k] \in S /\ step[k + 1][g[k]] \in S
    BY <2>1, <2>2 DEF IteratesUpTo, StepsOver
  <2>4. h \in [0 .. k + 1 -> S] /\ h[0] = base
    BY <2>1, <2>2, <2>3 DEF IteratesUpTo
  <2>5. ASSUME NEW n \in 1 .. k + 1
        PROVE  h[n] = step[n][h[n - 1]]
    <3>1. CASE n = k + 1
      BY <2>1, <3>1
    <3>2. CASE n # k + 1
      BY <2>1, <2>2, <3>2 DEF IteratesUpTo
    <3> QED  BY <3>1, <3>2
  <2>6. IteratesUpTo(S, base, step, k + 1, h)
    BY <2>4, <2>5 DEF IteratesUpTo
  <2> HIDE DEF h
  <2> QED  BY <2>1, <2>6
<1>3. T \in SUBSET Nat
  OBVIOUS
<1>4. T = Nat
  <2> HIDE DEF T
  <2> QED  BY <1>1, <1>2, <1>3, AllNumbers
<1> QED  BY <1>4

LEMMA IteratesAgree ==
  ASSUME NEW S, NEW base \in S, NEW step \in StepsOver(S), NEW k \in Nat, NEW m \in Nat, k <= m,
         NEW g, IteratesUpTo(S, base, step, k, g), NEW h, IteratesUpTo(S, base, step, m, h)
  PROVE  \A n \in 0 .. k : g[n] = h[n]
<1> DEFINE U == {n \in Nat : n <= k => g[n] = h[n]}
<1>1. 0 \in U
  BY DEF IteratesUpTo
<1>2. ASSUME NEW n \in U
      PROVE  n + 1 \in U
  BY DEF IteratesUpTo
<1>3. U \in SUBSET Nat
  OBVIOUS
<1>4. U = Nat
  <2> HIDE DEF U
  <2> QED  BY <1>1, <1>2, <1>3, AllNumbers
<1>5. ASSUME NEW n \in 0 .. k
      PROVE  g[n] = h[n]
  <2>1. n \in U /\ n <= k
    BY <1>4
  <2> QED  BY <2>1
<1> QED  BY <1>5

(* A recursive function of the numbers exists, and has the type of its     *)
(* base and of what its step returns.                                      *)
LEMMA IteratesExist ==
  ASSUME NEW S, NEW base \in S, NEW step \in StepsOver(S)
  PROVE  \E g : Iterates(S, base, step, g)
<1> DEFINE G(k) == CHOOSE g : IteratesUpTo(S, base, step, k, g)
           f == [n \in Nat |-> G(n)[n]]
<1>1. \A k \in Nat : IteratesUpTo(S, base, step, k, G(k))
  BY IteratesExistUpTo
<1> HIDE DEF G
<1>2. f \in [Nat -> S]
  <2>1. ASSUME NEW n \in Nat PROVE G(n)[n] \in S
    BY <1>1 DEF IteratesUpTo
  <2> QED  BY <2>1
<1>3. f[0] = base
  BY <1>1 DEF IteratesUpTo
<1>4. ASSUME NEW n \in Nat \ {0}
      PROVE  f[n] = step[n][f[n - 1]]
  <2>1. n - 1 \in Nat /\ n - 1 <= n /\ n \in 1 .. n /\ n - 1 \in 0 .. n - 1
    OBVIOUS
  <2>2. G(n - 1)[n - 1] = G(n)[n - 1]
    BY <1>1, <2>1, IteratesAgree
  <2>3. G(n)[n] = step[n][G(n)[n - 1]]
    BY <1>1, <2>1 DEF IteratesUpTo
  <2> QED  BY <2>1, <2>2, <2>3
<1> HIDE DEF f
<1> QED  BY <1>2, <1>3, <1>4 DEF Iterates
================================================================================
