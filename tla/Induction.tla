------------------------------- MODULE Induction -------------------------------
(***************************************************************************)
(* Induction over the natural numbers and over finite sets, stated for a   *)
(* set where the library's theorems take an operator, and what follows of  *)
(* the largest and the least of a finite set.                              *)
(***************************************************************************)
EXTENDS Integers, Sequences, FiniteSets, FiniteSetsExt, WellFoundedInduction, FiniteSetTheorems, TLAPS

(* Every set of natural numbers has a least one. *)
LEMMA LeastNatural ==
  ASSUME NEW S \in SUBSET Nat, S # {}
  PROVE  \E least \in S : \A n \in S : least <= n
<1>1. PICK least \in S : \A n \in S : ~ (<<n, least>> \in OpToRel(<, Nat))
  BY WFMin, NatLessThanWellFounded
<1>2. ASSUME NEW n \in S PROVE least <= n
  <2>1. ~ (<<n, least>> \in OpToRel(<, Nat))
    BY <1>1
  <2>2. ~ (n < least)
    BY <2>1 DEF OpToRel
  <2> QED
    BY <2>2
<1> QED
  BY <1>2

(* Induction: what holds of 0, and of n + 1 if it holds of n, holds of all. *)
LEMMA Induction ==
  ASSUME NEW S, 0 \in S, \A n \in Nat : n \in S => n + 1 \in S
  PROVE  \A n \in Nat : n \in S
<1> SUFFICES ASSUME NEW n \in Nat, n \notin S
             PROVE  FALSE
  OBVIOUS
<1> DEFINE Without == {k \in Nat : k \notin S}
<1>1. PICK least \in Without : \A k \in Without : least <= k
  <2>1. Without \in SUBSET Nat /\ Without # {}
    OBVIOUS
  <2> HIDE DEF Without
  <2> QED
    BY <2>1, LeastNatural
<1>2. least - 1 \in Nat /\ least - 1 \notin Without
  BY <1>1
<1> QED
  BY <1>1, <1>2

(* Induction over the numbers up to one. *)
LEMMA InductionUpto ==
  ASSUME NEW m \in Nat, NEW S, 0 \in S, \A n \in 0..m-1 : n \in S => n + 1 \in S
  PROVE  \A n \in 0..m : n \in S
<1> DEFINE T == {n \in Nat : n <= m => n \in S}
<1>1. 0 \in T
  OBVIOUS
<1>2. \A n \in Nat : n \in T => n + 1 \in T
  OBVIOUS
<1>3. \A n \in Nat : n \in T
  <2> HIDE DEF T
  <2> QED
    BY <1>1, <1>2, Induction
<1> QED
  BY <1>3

(* What every step of a recursion keeps, all its values have. *)
LEMMA RecursionType ==
  ASSUME NEW m \in Nat, NEW S, NEW f, f[0] \in S, \A n \in 0..m-1 : f[n] \in S => f[n+1] \in S
  PROVE  \A n \in 0..m : f[n] \in S
<1> DEFINE T == {n \in 0..m : f[n] \in S}
<1>1. 0 \in T
  OBVIOUS
<1>2. \A n \in 0..m-1 : n \in T => n + 1 \in T
  OBVIOUS
<1>3. \A n \in 0..m : n \in T
  <2> HIDE DEF T
  <2> QED
    BY <1>1, <1>2, InductionUpto
<1> QED
  BY <1>3

(* A function of a natural number by recursion exists, and has its type.   *)
IsRecursion(f, m, S, base, step) ==
  /\ f \in [0..m -> S]
  /\ \A n \in 0..m : f[n] = IF n = 0 THEN base ELSE step[n][f[n-1]]

LEMMA Recursion ==
  ASSUME NEW m \in Nat, NEW S, NEW base \in S, NEW step \in [1..m -> [S -> S]]
  PROVE  \E f : IsRecursion(f, m, S, base, step)
<1> DEFINE Is(f, k) == /\ f \in [0..k -> S]
                       /\ \A n \in 0..k : f[n] = IF n = 0 THEN base ELSE step[n][f[n-1]]
<1> DEFINE Lengths == {k \in Nat : k <= m => \E f : Is(f, k)}
<1>1. 0 \in Lengths
  <2> DEFINE f == [n \in 0..0 |-> base]
  <2>1. Is(f, 0)
    OBVIOUS
  <2> HIDE DEF Is, f
  <2> QED
    BY <2>1
<1>2. ASSUME NEW k \in Nat, k \in Lengths, k + 1 <= m PROVE \E f : Is(f, k+1)
  <2>1. PICK f : Is(f, k)
    BY <1>2
  <2> DEFINE g == [n \in 0..k+1 |-> IF n = k + 1 THEN step[k+1][f[k]] ELSE f[n]]
  <2>2. f[k] \in S /\ step[k+1] \in [S -> S]
    BY <1>2, <2>1
  <2>3. g \in [0..k+1 -> S]
    BY <2>1, <2>2
  <2>4. \A n \in 0..k+1 : g[n] = IF n = 0 THEN base ELSE step[n][g[n-1]]
    BY <2>1
  <2>5. Is(g, k+1)
    BY <2>3, <2>4
  <2> HIDE DEF Is, g
  <2> QED
    BY <2>5
<1>3. \A k \in Nat : k \in Lengths
  <2>1. \A k \in Nat : k \in Lengths => k + 1 \in Lengths
    BY <1>2
  <2> HIDE DEF Lengths
  <2> QED
    BY <1>1, <2>1, Induction
<1>4. PICK f : Is(f, m)
  BY <1>3
<1> QED
  BY <1>4 DEF IsRecursion

(* Induction over the subsets of a finite set. *)
LEMMA FiniteInduction ==
  ASSUME NEW U, IsFiniteSet(U), NEW F, {} \in F,
         \A T \in SUBSET U, x \in U : T \in F => T \cup {x} \in F
  PROVE  U \in F
<1> DEFINE Sizes == {n \in Nat : \A T \in SUBSET U : Cardinality(T) = n => T \in F}
<1>1. 0 \in Sizes
  <2>1. ASSUME NEW T \in SUBSET U, Cardinality(T) = 0 PROVE T \in F
    BY <2>1, FS_Subset, FS_EmptySet
  <2> QED
    BY <2>1
<1>2. ASSUME NEW n \in Nat, n \in Sizes PROVE n + 1 \in Sizes
  <2>1. ASSUME NEW T \in SUBSET U, Cardinality(T) = n + 1 PROVE T \in F
    <3>1. IsFiniteSet(T) /\ T # {}
      BY <2>1, FS_Subset, FS_EmptySet
    <3>2. PICK x \in T : TRUE
      BY <3>1
    <3>3. Cardinality(T \ {x}) = n
      <4>1. Cardinality(T \ {x}) = Cardinality(T) - 1
        BY <3>1, <3>2, FS_RemoveElement
      <4> QED
        BY <2>1, <4>1
    <3>4. T \ {x} \in F
      BY <1>2, <3>3
    <3>5. T = (T \ {x}) \cup {x}
      BY <3>2
    <3> QED
      BY <3>4, <3>5
  <2> QED
    BY <2>1
<1>3. \A n \in Nat : n \in Sizes
  <2> HIDE DEF Sizes
  <2> QED
    BY <1>1, <1>2, Induction
<1> QED
  BY <1>3, FS_CardinalityType

(* A finite, non-empty set of integers has a largest and a least element,  *)
(* which are what Max and Min return.                                      *)
LEMMA MaxOfFinite ==
  ASSUME NEW S \in SUBSET Int, IsFiniteSet(S), S # {}
  PROVE  Max(S) \in S /\ \A x \in S : x <= Max(S)
<1> DEFINE F == {T \in SUBSET S : T # {} => \E m \in T : \A x \in T : m >= x}
<1>1. {} \in F
  OBVIOUS
<1>2. ASSUME NEW T \in SUBSET S, NEW x \in S, T \in F PROVE T \cup {x} \in F
  <2>1. CASE T = {}
    BY <2>1
  <2>2. CASE T # {}
    <3>1. PICK m \in T : \A y \in T : m >= y
      BY <1>2, <2>2
    <3>2. CASE m >= x
      BY <3>1, <3>2
    <3>3. CASE ~ (m >= x)
      <4>1. \A y \in T \cup {x} : x >= y
        BY <3>1, <3>3
      <4> QED
        BY <4>1
    <3> QED
      BY <3>2, <3>3
  <2> QED
    BY <2>1, <2>2
<1>3. S \in F
  <2> HIDE DEF F
  <2> QED
    BY <1>1, <1>2, FiniteInduction
<1>4. \E m \in S : \A x \in S : m >= x
  BY <1>3
<1> QED
  BY <1>4 DEF Max

LEMMA LargestIsMax ==
  ASSUME NEW S \in SUBSET Int, NEW m \in S, \A x \in S : x <= m
  PROVE  Max(S) = m
<1>1. \E n \in S : \A x \in S : n >= x
  OBVIOUS
<1>2. Max(S) \in S /\ \A x \in S : Max(S) >= x
  BY <1>1 DEF Max
<1>3. Max(S) >= m /\ Max(S) <= m /\ Max(S) \in Int /\ m \in Int
  BY <1>2
<1> QED
  BY <1>3

(* The largest of some positions of a sequence. *)
LEMMA MaxOfPositions ==
  ASSUME NEW T, NEW seq \in Seq(T), NEW S \in SUBSET DOMAIN seq, S # {}
  PROVE  Max(S) \in S /\ \A x \in S : x <= Max(S)
<1>1. DOMAIN seq = 1..Len(seq) /\ Len(seq) \in Nat
  OBVIOUS
<1>2. IsFiniteSet(1..Len(seq))
  BY <1>1, FS_Interval
<1>3. IsFiniteSet(S) /\ S \in SUBSET Int
  BY <1>1, <1>2, FS_Subset
<1> QED
  BY <1>3, MaxOfFinite

LEMMA MinOfFinite ==
  ASSUME NEW S \in SUBSET Int, IsFiniteSet(S), S # {}
  PROVE  Min(S) \in S /\ \A x \in S : Min(S) <= x
<1> DEFINE F == {T \in SUBSET S : T # {} => \E m \in T : \A x \in T : m =< x}
<1>1. {} \in F
  OBVIOUS
<1>2. ASSUME NEW T \in SUBSET S, NEW x \in S, T \in F PROVE T \cup {x} \in F
  <2>1. CASE T = {}
    BY <2>1
  <2>2. CASE T # {}
    <3>1. PICK m \in T : \A y \in T : m =< y
      BY <1>2, <2>2
    <3>2. CASE m =< x
      BY <3>1, <3>2
    <3>3. CASE ~ (m =< x)
      <4>1. \A y \in T \cup {x} : x =< y
        BY <3>1, <3>3
      <4> QED
        BY <4>1
    <3> QED
      BY <3>2, <3>3
  <2> QED
    BY <2>1, <2>2
<1>3. S \in F
  <2> HIDE DEF F
  <2> QED
    BY <1>1, <1>2, FiniteInduction
<1>4. \E m \in S : \A x \in S : m =< x
  BY <1>3
<1> QED
  BY <1>4 DEF Min

LEMMA LeastIsMin ==
  ASSUME NEW S \in SUBSET Int, NEW m \in S, \A x \in S : m <= x
  PROVE  Min(S) = m
<1>1. \E n \in S : \A x \in S : n =< x
  OBVIOUS
<1>2. Min(S) \in S /\ \A x \in S : Min(S) =< x
  BY <1>1 DEF Min
<1>3. Min(S) >= m /\ Min(S) <= m /\ Min(S) \in Int /\ m \in Int
  BY <1>2
<1> QED
  BY <1>3

(* Of natural numbers there is a least whether they are finite or not. *)
LEMMA MinOfNaturals ==
  ASSUME NEW S \in SUBSET Nat, S # {}
  PROVE  Min(S) \in S /\ \A x \in S : Min(S) <= x
<1>1. \E n \in S : \A x \in S : n =< x
  BY LeastNatural
<1> QED
  BY <1>1 DEF Min

================================================================================
