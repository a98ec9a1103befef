---------------------------- MODULE LayoutProofs ----------------------------
(***************************************************************************)
(* What partial sums are.  Induction on the natural numbers comes in a     *)
(* form that needs no operator as a parameter: a predicate is given as the *)
(* set of the numbers that satisfy it.                                     *)
(***************************************************************************)
EXTENDS Layout, Integers, WellFoundedInduction, TLAPS

\* A set of natural numbers that has an element has a least one.
LEMMA LeastNat ==
  ASSUME NEW T \in SUBSET Nat, T # {}
  PROVE  \E x \in T : \A y \in T : x <= y
<1>1. IsWellFoundedOn(OpToRel(<, Nat), Nat)
  BY NatLessThanWellFounded
<1>2. PICK x \in T : \A y \in T : ~ (<<y, x>> \in OpToRel(<, Nat))
  BY <1>1, WFMin
<1>3. ASSUME NEW y \in T PROVE x <= y
  <2>1. <<y, x>> \in Nat \X Nat /\ <<y, x>>[1] = y /\ <<y, x>>[2] = x
    OBVIOUS
  <2>2. ~ (<<y, x>> \in {ss \in Nat \X Nat : ss[1] < ss[2]})
    BY <1>2 DEF OpToRel
  <2>. QED BY <2>1, <2>2
<1>. QED BY <1>2, <1>3

\* A set that holds 0 and with every number its successor holds them all.
LEMMA SetInduction ==
  ASSUME NEW T, 0 \in T, \A n \in Nat : n \in T => n + 1 \in T
  PROVE  Nat \subseteq T
<1>. SUFFICES ASSUME NEW m \in Nat \ T PROVE FALSE
  OBVIOUS
<1>1. PICK x \in Nat \ T : \A y \in Nat \ T : x <= y
  BY LeastNat
<1>2. x # 0 /\ x - 1 \in Nat /\ x - 1 \notin Nat \ T
  BY <1>1
<1>. QED BY <1>1, <1>2

\* A function on 1..k is a sequence of length k.
LEMMA FunctionIsSeq ==
  ASSUME NEW S, NEW k \in Nat, NEW f \in [1..k -> S]
  PROVE  f \in Seq(S) /\ Len(f) = k
OBVIOUS

-----------------------------------------------------------------------------
(* Partial sums *)

\* The recursion equation of PartialSums.  By induction there is, for every n,
\* a function on 0..n that satisfies it.
LEMMA PartialSumsDef ==
  ASSUME NEW sizes \in Seq(Nat)
  PROVE  /\ PartialSums(sizes) \in [0..Len(sizes) -> Nat]
         /\ PartialSums(sizes)[0] = 0
         /\ \A n \in 1..Len(sizes) :
              PartialSums(sizes)[n] = PartialSums(sizes)[n - 1] + sizes[n]
<1>. DEFINE Solves(f, n) ==
              f = [c \in 0..n |-> IF c = 0 THEN 0 ELSE f[c - 1] + sizes[c]]
            Solvable(n) == \E f \in [0..n -> Nat] : Solves(f, n)
            T == {n \in Nat : n <= Len(sizes) => Solvable(n)}
<1>1. Solvable(0)
  <2>. DEFINE f == [c \in 0..0 |-> 0]
  <2>1. f \in [0..0 -> Nat] /\ Solves(f, 0)
    OBVIOUS
  <2>. QED BY <2>1
<1>2. ASSUME NEW n \in Nat, n + 1 <= Len(sizes), Solvable(n)
      PROVE  Solvable(n + 1)
  <2>1. PICK f \in [0..n -> Nat] : Solves(f, n)
    BY <1>2
  <2>. DEFINE g == [c \in 0..(n + 1) |->
                      IF c = n + 1 THEN f[n] + sizes[n + 1] ELSE f[c]]
  <2>2. g \in [0..(n + 1) -> Nat]
    BY <1>2
  <2>3. \A c \in 0..(n + 1) : g[c] = IF c = 0 THEN 0 ELSE g[c - 1] + sizes[c]
    BY <2>1
  <2>. HIDE DEF g
  <2>4. Solves(g, n + 1)
    BY <2>2, <2>3
  <2>. QED BY <2>2, <2>4
<1>3. Nat \subseteq T
  <2>. HIDE DEF Solvable
  <2>1. 0 \in T /\ \A n \in Nat : n \in T => n + 1 \in T
    BY <1>1, <1>2
  <2>. HIDE DEF T
  <2>. QED BY <2>1, SetInduction
<1>4. Len(sizes) \in Nat
  OBVIOUS
<1>5. Solvable(Len(sizes))
  <2>. HIDE DEF Solvable
  <2>. QED BY <1>3, <1>4
<1>. DEFINE P == PartialSums(sizes)
            U == {n \in Nat : n <= Len(sizes) => P[n] \in Nat}
<1>6. P = [c \in 0..Len(sizes) |-> IF c = 0 THEN 0 ELSE P[c - 1] + sizes[c]]
  BY <1>5 DEF PartialSums
<1>. HIDE DEF P
<1>7. /\ P = [n \in 0..Len(sizes) |-> P[n]]
      /\ P[0] = 0
      /\ \A n \in 1..Len(sizes) : P[n] = P[n - 1] + sizes[n]
  <2>. DEFINE L == Len(sizes)
              E(c) == IF c = 0 THEN 0 ELSE P[c - 1] + sizes[c]
  <2>. HIDE DEF L
  <2>1. L \in Nat
    BY <1>4 DEF L
  <2>2. P = [c \in 0..L |-> E(c)]
    BY <1>6 DEF L
  <2>3. \A c \in 0..L : P[c] = E(c)
    BY ONLY <2>2
  <2>4. P = [c \in 0..L |-> P[c]]
    BY ONLY <2>2
  <2>. HIDE DEF E
  <2>5. P[0] = 0
    <3>1. P[0] = E(0)
      BY <2>1, <2>3
    <3>. QED BY <3>1 DEF E
  <2>6. ASSUME NEW n \in 1..L PROVE P[n] = P[n - 1] + sizes[n]
    <3>1. P[n] = E(n) /\ n # 0
      BY <2>1, <2>3
    <3>. QED BY <3>1 DEF E
  <2>. QED BY <2>4, <2>5, <2>6 DEF L
<1>8. Nat \subseteq U
  <2>1. 0 \in U
    BY <1>7
  <2>2. ASSUME NEW n \in Nat, n \in U PROVE n + 1 \in U
    <3>. SUFFICES ASSUME n + 1 <= Len(sizes) PROVE P[n + 1] \in Nat
      OBVIOUS
    <3>1. P[n + 1] = P[n] + sizes[n + 1]
      <4>1. n + 1 \in 1..Len(sizes) /\ (n + 1) - 1 = n
        BY <1>4
      <4>. QED BY <4>1, <1>7
    <3>2. P[n] \in Nat /\ sizes[n + 1] \in Nat
      BY <2>2, <1>4
    <3>. QED BY <3>1, <3>2
  <2>. HIDE DEF U
  <2>. QED BY <2>1, <2>2, SetInduction
<1>9. \A n \in 0..Len(sizes) : P[n] \in Nat
  BY <1>8, <1>4
<1>. QED BY <1>7, <1>9 DEF P

\* Partial sums never decrease.
LEMMA PartialSumsMonotonic ==
  ASSUME NEW sizes \in Seq(Nat),
         NEW m \in 0..Len(sizes), NEW n \in 0..Len(sizes), m <= n
  PROVE  PartialSums(sizes)[m] <= PartialSums(sizes)[n]
<1>. DEFINE P == PartialSums(sizes)
            L == Len(sizes)
            T == {d \in Nat : m + d <= L => P[m] <= P[m + d]}
<1>. HIDE DEF P, L
<1>1. /\ L \in Nat /\ m \in 0..L /\ n \in 0..L
      /\ \A k \in 0..L : P[k] \in Nat
      /\ \A k \in 1..L : sizes[k] \in Nat
  <2>1. P \in [0..L -> Nat]
    BY PartialSumsDef DEF P, L
  <2>2. sizes \in [1..L -> Nat] /\ L \in Nat
    BY DEF L
  <2>. QED BY <2>1, <2>2 DEF L
<1>2. \A k \in 1..L : P[k] = P[k - 1] + sizes[k]
  BY PartialSumsDef DEF P, L
<1>3. 0 \in T
  BY <1>1
<1>4. ASSUME NEW d \in Nat, d \in T PROVE d + 1 \in T
  <2>. SUFFICES ASSUME m + (d + 1) <= L PROVE P[m] <= P[m + (d + 1)]
    OBVIOUS
  <2>1. m + d + 1 \in 1..L /\ (m + d + 1) - 1 = m + d /\ m + d \in 0..L
    BY <1>1
  <2>2. P[m + d + 1] = P[m + d] + sizes[m + d + 1]
    BY <2>1, <1>2
  <2>3. P[m] <= P[m + d]
    BY <1>4, <1>1, <2>1
  <2>. QED BY <1>1, <2>1, <2>2, <2>3
<1>5. Nat \subseteq T
  <2>. HIDE DEF T
  <2>. QED BY <1>3, <1>4, SetInduction
<1>6. n - m \in Nat /\ m + (n - m) = n
  BY <1>1
<1>7. P[m] <= P[m + (n - m)]
  <2>1. m + (n - m) <= L
    BY <1>1, <1>6
  <2>2. n - m \in T
    <3>. HIDE DEF T
    <3>. QED BY <1>5, <1>6
  <2>. QED BY ONLY <2>1, <2>2
<1>. QED BY <1>6, <1>7 DEF P
=============================================================================
