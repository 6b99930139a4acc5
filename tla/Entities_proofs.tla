---------------------------- MODULE Entities_proofs ----------------------------
(***************************************************************************)
(* The entity tables are those of the mentions and the rules those of the  *)
(* log.  The tables are kept incrementally, so the invariant says what is  *)
(* derived inside a call too: only the segments of the sessions a call has *)
(* touched may be behind.                                                  *)
(***************************************************************************)
EXTENDS Entities, Induction

Mention == [key : Keys, kind : EntityKinds]

(***************************************************************************)
(* What is stored of a text.                                               *)
(***************************************************************************)

(* The keys on the way to the canonical one. *)
Follows(map, after) ==
  \A n \in 0..MaxHops-1 :
    after[n+1] = IF after[n] \in DOMAIN map THEN map[after[n]] ELSE after[n]

LEMMA CanonicalFollows ==
  ASSUME NEW map, map \in [DOMAIN map -> Keys], NEW key \in Keys
  PROVE  \E after \in [0..MaxHops -> Keys] :
           after[0] = key /\ Follows(map, after) /\ Canonical(map, key) = after[MaxHops]
<1> DEFINE Next1(last) == IF last \in DOMAIN map THEN map[last] ELSE last
           Is(f) == f = [n \in 0..MaxHops |-> IF n = 0 THEN key ELSE Next1(f[n-1])]
           after == CHOOSE f : Is(f)
<1>0. MaxHops \in Nat /\ \A last \in Keys : Next1(last) \in Keys
  BY HopsAssumption
<1>1. \E f : Is(f)
  <2> DEFINE step == [n \in 1..MaxHops |-> [last \in Keys |-> Next1(last)]]
  <2>1. step \in [1..MaxHops -> [Keys -> Keys]]
    BY <1>0
  <2>2. PICK f : IsRecursion(f, MaxHops, Keys, key, step)
    <3> HIDE DEF step
    <3> QED
      BY <1>0, <2>1, Recursion
  <2>3. \A n \in 1..MaxHops : step[n][f[n-1]] = Next1(f[n-1])
    BY <1>0, <2>2 DEF IsRecursion
  <2> HIDE DEF step, Next1
  <2>4. \A n \in 0..MaxHops : f[n] = IF n = 0 THEN key ELSE Next1(f[n-1])
    BY <1>0, <2>2, <2>3 DEF IsRecursion
  <2>5. f = [n \in 0..MaxHops |-> f[n]]
    BY <2>2 DEF IsRecursion
  <2>6. Is(f)
    BY <2>4, <2>5
  <2> QED
    BY <2>6
<1>2. Is(after)
  BY <1>1
<1>3. \A n \in 0..MaxHops : after[n] \in Keys
  <2> HIDE DEF after, Next1
  <2>1. after[0] = key /\ \A n \in 0..MaxHops-1 : after[n+1] = Next1(after[n])
    BY <1>0, <1>2
  <2> QED
    BY <1>0, <2>1, RecursionType
<1>4. Canonical(map, key) = after[MaxHops]
  BY DEF Canonical
<1>5. after = [n \in 0..MaxHops |-> after[n]]
  BY <1>2
<1>6. after[0] = key /\ Follows(map, after)
  <2> HIDE DEF after
  <2>1. ASSUME NEW n \in 0..MaxHops-1
        PROVE  after[n+1] = IF after[n] \in DOMAIN map THEN map[after[n]] ELSE after[n]
    <3>1. n + 1 \in 0..MaxHops /\ n + 1 # 0 /\ (n + 1) - 1 = n
      BY <1>0
    <3> QED
      BY <1>2, <3>1
  <2>2. 0 \in 0..MaxHops
    BY <1>0
  <2> QED
    BY <1>2, <2>1, <2>2 DEF Follows
<1> HIDE DEF after
<1>7. after \in [0..MaxHops -> Keys]
  BY <1>3, <1>5
<1> QED
  BY <1>4, <1>6, <1>7

LEMMA CanonicalType ==
  ASSUME NEW map, map \in [DOMAIN map -> Keys], NEW key \in Keys
  PROVE  Canonical(map, key) \in Keys
<1>1. MaxHops \in 0..MaxHops
  BY HopsAssumption
<1> QED
  BY <1>1, CanonicalFollows

LEMMA RuledBuilds ==
  ASSUME NEW map, map \in [DOMAIN map -> Keys], NEW bars, NEW extracted \in Seq(Mention)
  PROVE  \E upto \in [0..Len(extracted) -> Seq(Mention)] :
           /\ upto[0] = <<>> /\ Ruled(map, bars, extracted) = upto[Len(extracted)]
           /\ \A n \in 0..Len(extracted)-1 : upto[n+1] = upto[n] \o Stored(map, bars, extracted[n+1])
<1> DEFINE Is(f) == f = [n \in 0..Len(extracted) |->
                           IF n = 0 THEN <<>> ELSE f[n-1] \o Stored(map, bars, extracted[n])]
           upto == CHOOSE f : Is(f)
<1>0. Len(extracted) \in Nat /\ <<>> \in Seq(Mention)
  OBVIOUS
<1>1. \A n \in 1..Len(extracted) : Stored(map, bars, extracted[n]) \in Seq(Mention)
  <2>1. ASSUME NEW n \in 1..Len(extracted) PROVE Stored(map, bars, extracted[n]) \in Seq(Mention)
    <3>1. extracted[n] \in Mention
      OBVIOUS
    <3>2. Canonical(map, extracted[n].key) \in Keys
      BY <3>1, CanonicalType DEF Mention
    <3>3. [extracted[n] EXCEPT !.key = Canonical(map, @)] \in Mention
      BY <3>1, <3>2 DEF Mention
    <3> QED
      BY <3>3 DEF Stored
  <2> QED
    BY <2>1
<1>2. \A ms \in Seq(Mention), n \in 1..Len(extracted) :
        ms \o Stored(map, bars, extracted[n]) \in Seq(Mention)
  BY <1>1
<1>3. \E f : Is(f)
  <2> DEFINE step == [n \in 1..Len(extracted) |->
                        [ms \in Seq(Mention) |-> ms \o Stored(map, bars, extracted[n])]]
  <2>1. step \in [1..Len(extracted) -> [Seq(Mention) -> Seq(Mention)]]
    BY <1>2
  <2>2. PICK f : IsRecursion(f, Len(extracted), Seq(Mention), <<>>, step)
    <3> HIDE DEF step
    <3> QED
      BY <1>0, <2>1, Recursion
  <2>3. ASSUME NEW n \in 1..Len(extracted)
        PROVE  step[n][f[n-1]] = f[n-1] \o Stored(map, bars, extracted[n])
    <3>1. f[n-1] \in Seq(Mention)
      BY <1>0, <2>2 DEF IsRecursion
    <3> QED
      BY <3>1
  <2> HIDE DEF step
  <2>4. ASSUME NEW n \in 0..Len(extracted)
        PROVE  f[n] = IF n = 0 THEN <<>> ELSE f[n-1] \o Stored(map, bars, extracted[n])
    <3>1. f[n] = IF n = 0 THEN <<>> ELSE step[n][f[n-1]]
      BY <2>2 DEF IsRecursion
    <3>2. n # 0 => n \in 1..Len(extracted)
      BY <1>0
    <3> QED
      BY <2>3, <3>1, <3>2
  <2>5. f = [n \in 0..Len(extracted) |-> f[n]]
    BY <2>2 DEF IsRecursion
  <2>6. Is(f)
    BY <2>4, <2>5
  <2> QED
    BY <2>6
<1>4. Is(upto)
  BY <1>3
<1>5. Ruled(map, bars, extracted) = upto[Len(extracted)]
  BY DEF Ruled
<1> HIDE DEF upto
<1>6. upto[0] = <<>>
  BY <1>0, <1>4
<1>7. \A n \in 0..Len(extracted)-1 : upto[n+1] = upto[n] \o Stored(map, bars, extracted[n+1])
  <2> SUFFICES ASSUME NEW n \in 0..Len(extracted)-1
               PROVE  upto[n+1] = upto[n] \o Stored(map, bars, extracted[n+1])
    OBVIOUS
  <2>1. n + 1 \in 0..Len(extracted) /\ n + 1 # 0 /\ (n + 1) - 1 = n
    BY <1>0
  <2> QED
    BY <1>4, <2>1
<1>8. \A n \in 0..Len(extracted)-1 : upto[n] \in Seq(Mention) => upto[n+1] \in Seq(Mention)
  <2> SUFFICES ASSUME NEW n \in 0..Len(extracted)-1, upto[n] \in Seq(Mention)
               PROVE  upto[n+1] \in Seq(Mention)
    OBVIOUS
  <2>1. n + 1 \in 1..Len(extracted)
    BY <1>0
  <2> QED
    BY <1>2, <1>7, <2>1
<1>9. \A n \in 0..Len(extracted) : upto[n] \in Seq(Mention)
  <2> DEFINE S == Seq(Mention)
  <2>1. upto[0] \in S /\ \A n \in 0..Len(extracted)-1 : upto[n] \in S => upto[n+1] \in S
    BY <1>0, <1>6, <1>8
  <2> HIDE DEF S
  <2>2. \A n \in 0..Len(extracted) : upto[n] \in S
    BY <1>0, <2>1, RecursionType
  <2> QED
    BY <2>2 DEF S
<1>10. upto = [n \in 0..Len(extracted) |-> upto[n]]
  BY <1>4
<1>11. upto \in [0..Len(extracted) -> Seq(Mention)]
  BY <1>9, <1>10
<1> QED
  BY <1>5, <1>6, <1>7, <1>11

LEMMA RuledType ==
  ASSUME NEW map, map \in [DOMAIN map -> Keys], NEW bars, NEW extracted \in Seq(Mention)
  PROVE  Ruled(map, bars, extracted) \in Seq(Mention)
<1>1. Len(extracted) \in 0..Len(extracted)
  OBVIOUS
<1>2. PICK upto \in [0..Len(extracted) -> Seq(Mention)] : Ruled(map, bars, extracted) = upto[Len(extracted)]
  BY RuledBuilds
<1> QED
  BY <1>1, <1>2

(* What a mention becomes. *)
RowOf(map, m) == [key |-> Canonical(map, m.key), kind |-> m.kind]

(* The positions of a text whose mentions are stored, up to the n-th.      *)
KeptUpto(map, bars, extracted, n) ==
  {p \in DOMAIN extracted : /\ {extracted[p].key, Canonical(map, extracted[p].key)} \cap bars = {}
                            /\ p <= n}

(* One position more is kept, or not.                                      *)
LEMMA KeptGrows ==
  ASSUME NEW map, NEW bars, NEW extracted \in Seq(Mention), NEW n \in 0..Len(extracted)-1
  PROVE  LET before == KeptUpto(map, bars, extracted, n)
             after == KeptUpto(map, bars, extracted, n+1)
         IN
         /\ IsFiniteSet(before) /\ Cardinality(before) \in Nat
         /\ n + 1 \in after =>
              after = before \cup {n+1} /\ Cardinality(after) = Cardinality(before) + 1
         /\ n + 1 \notin after => after = before
<1> DEFINE before == KeptUpto(map, bars, extracted, n)
           after == KeptUpto(map, bars, extracted, n+1)
<1>1. DOMAIN extracted = 1..Len(extracted) /\ Len(extracted) \in Nat
  OBVIOUS
<1>2. IsFiniteSet(before)
  <2>1. before \subseteq 1..Len(extracted)
    BY <1>1 DEF KeptUpto
  <2>2. IsFiniteSet(1..Len(extracted))
    BY <1>1, FS_Interval
  <2> HIDE DEF before
  <2> QED
    BY <2>1, <2>2, FS_Subset
<1>3. n + 1 \notin before /\ before \subseteq after /\ after \subseteq before \cup {n+1}
  BY <1>1 DEF KeptUpto
<1> HIDE DEF before, after
<1>4. Cardinality(before) \in Nat
  BY <1>2, FS_CardinalityType
<1>5. ASSUME n + 1 \in after
      PROVE  after = before \cup {n+1} /\ Cardinality(after) = Cardinality(before) + 1
  <2>1. after = before \cup {n+1}
    BY <1>3, <1>5
  <2>2. Cardinality(before \cup {n+1}) = Cardinality(before) + 1
    BY <1>2, <1>3, FS_AddElement
  <2> QED
    BY <2>1, <2>2
<1>6. n + 1 \notin after => after = before
  BY <1>3
<1> QED
  BY <1>2, <1>4, <1>5, <1>6 DEF before, after

(* What is stored of a text: the mentions that are kept, in their order,   *)
(* under their canonical keys, and nothing else.                           *)
LEMMA RuledRanks ==
  ASSUME NEW map, map \in [DOMAIN map -> Keys], NEW bars, NEW extracted \in Seq(Mention),
         NEW ms, ms = Ruled(map, bars, extracted)
  PROVE  /\ Len(ms) = Cardinality(KeptUpto(map, bars, extracted, Len(extracted)))
         /\ \A p \in KeptUpto(map, bars, extracted, Len(extracted)) :
              ms[Cardinality(KeptUpto(map, bars, extracted, p))] = RowOf(map, extracted[p])
<1> DEFINE Kept(n) == KeptUpto(map, bars, extracted, n)
           Row(p) == RowOf(map, extracted[p])
           Right(made, n) == /\ Len(made) = Cardinality(Kept(n))
                             /\ \A p \in Kept(n) : /\ Cardinality(Kept(p)) \in 1..Len(made)
                                                    /\ made[Cardinality(Kept(p))] = Row(p)
<1>0. Len(extracted) \in Nat /\ DOMAIN extracted = 1..Len(extracted)
  OBVIOUS
<1>1. PICK upto \in [0..Len(extracted) -> Seq(Mention)] :
         /\ upto[0] = <<>> /\ ms = upto[Len(extracted)]
         /\ \A n \in 0..Len(extracted)-1 : upto[n+1] = upto[n] \o Stored(map, bars, extracted[n+1])
  BY RuledBuilds
<1> DEFINE S == {n \in 0..Len(extracted) : Right(upto[n], n)}
<1>2. 0 \in S
  <2>1. Kept(0) = {}
    BY <1>0 DEF KeptUpto
  <2>2. Cardinality(Kept(0)) = 0
    BY <2>1, FS_EmptySet
  <2>3. Len(upto[0]) = 0 /\ 0 \in 0..Len(extracted)
    BY <1>0, <1>1
  <2> QED
    BY <2>1, <2>2, <2>3
<1>3. ASSUME NEW n \in 0..Len(extracted)-1, n \in S PROVE n + 1 \in S
  <2>1. n \in 0..Len(extracted) /\ n + 1 \in 0..Len(extracted) /\ n + 1 \in DOMAIN extracted
    BY <1>0
  <2>2. Right(upto[n], n)
    BY <1>3
  <2>3. PICK before \in Seq(Mention), after \in Seq(Mention) : before = upto[n] /\ after = upto[n+1]
    BY <2>1
  <2>4. after = before \o Stored(map, bars, extracted[n+1])
    BY <1>1, <2>3
  <2>5. /\ Cardinality(Kept(n)) \in Nat
        /\ n + 1 \in Kept(n+1) => /\ Kept(n+1) = Kept(n) \cup {n+1}
                                  /\ Cardinality(Kept(n+1)) = Cardinality(Kept(n)) + 1
        /\ n + 1 \notin Kept(n+1) => Kept(n+1) = Kept(n)
    BY KeptGrows
  <2>6. Len(before) = Cardinality(Kept(n))
        /\ \A p \in Kept(n) : /\ Cardinality(Kept(p)) \in 1..Len(before)
                              /\ before[Cardinality(Kept(p))] = Row(p)
    BY <2>2, <2>3
  <2>7. n + 1 \in Kept(n+1) <=>
          {extracted[n+1].key, Canonical(map, extracted[n+1].key)} \cap bars = {}
    BY <2>1 DEF KeptUpto
  <2>8. Right(after, n + 1)
    <3>1. CASE n + 1 \in Kept(n+1)
      <4>1. PICK row : row = Row(n+1)
        OBVIOUS
      <4>2. after = before \o <<row>>
        <5>1. extracted[n+1] \in Mention
          BY <2>1
        <5>2. row = [extracted[n+1] EXCEPT !.key = Canonical(map, @)]
          BY <4>1, <5>1 DEF RowOf, Mention
        <5> QED
          BY <2>4, <2>7, <3>1, <5>2 DEF Stored
      <4>3. /\ Len(after) = Len(before) + 1 /\ Len(before) \in Nat
            /\ after[Len(before) + 1] = row
            /\ \A i \in 1..Len(before) : after[i] = before[i]
        <5>1. <<row>> \in Seq({row}) /\ Len(<<row>>) = 1 /\ <<row>>[1] = row
          OBVIOUS
        <5> QED
          BY <4>2, <5>1
      <4> HIDE DEF Kept, Row
      <4>4. Len(after) = Cardinality(Kept(n+1))
        BY <2>5, <2>6, <3>1, <4>3
      <4>5. ASSUME NEW p \in Kept(n+1)
            PROVE  /\ Cardinality(Kept(p)) \in 1..Len(after)
                   /\ after[Cardinality(Kept(p))] = Row(p)
        <5>1. CASE p = n + 1
          <6>1. Cardinality(Kept(p)) = Len(before) + 1
            BY <2>5, <2>6, <3>1, <5>1
          <6> QED
            BY <4>1, <4>3, <5>1, <6>1
        <5>2. CASE p \in Kept(n)
          <6>1. PICK i \in 1..Len(before) : i = Cardinality(Kept(p)) /\ before[i] = Row(p)
            BY <2>6, <5>2
          <6>2. i \in 1..Len(after) /\ after[i] = before[i]
            BY <4>3, <6>1
          <6> QED
            BY <6>1, <6>2
        <5> QED
          BY <2>5, <3>1, <4>5, <5>1, <5>2
      <4> QED
        BY <4>4, <4>5
    <3>2. CASE n + 1 \notin Kept(n+1)
      <4>1. after = before \o <<>>
        BY <2>4, <2>7, <3>2 DEF Stored
      <4>2. after = before
        BY <4>1
      <4> QED
        BY <2>5, <2>6, <3>2, <4>2
    <3> QED
      BY <3>1, <3>2
  <2> HIDE DEF Right
  <2> QED
    BY <2>1, <2>3, <2>8
<1>4. Len(extracted) \in S
  <2>1. \A n \in 0..Len(extracted)-1 : n \in S => n + 1 \in S
    BY <1>3
  <2> HIDE DEF S
  <2>2. \A n \in 0..Len(extracted) : n \in S
    BY <1>0, <1>2, <2>1, InductionUpto
  <2> QED
    BY <1>0, <2>2
<1> QED
  BY <1>1, <1>4

(* A key leads to its canonical one.                                       *)
LEMMA CanonicalIsOnTheWay ==
  ASSUME NEW map, map \in [DOMAIN map -> Keys], NEW key \in Keys, NEW on, key \in on,
         {map[x] : x \in on \cap DOMAIN map} \subseteq on
  PROVE  Canonical(map, key) \in on
<1>0. MaxHops \in Nat /\ MaxHops \in 0..MaxHops
  BY HopsAssumption
<1>1. PICK after \in [0..MaxHops -> Keys] :
        after[0] = key /\ Follows(map, after) /\ Canonical(map, key) = after[MaxHops]
  BY CanonicalFollows
<1>2. \A n \in 0..MaxHops-1 : after[n] \in on => after[n+1] \in on
  BY <1>1 DEF Follows
<1>3. after[0] \in on
  BY <1>1
<1>4. \A n \in 0..MaxHops : after[n] \in on
  BY <1>0, <1>2, <1>3, RecursionType
<1> QED
  BY <1>0, <1>1, <1>4

(* A key that is no alias is its own canonical one; one that is leads on to*)
(* the end of its chain, unless it comes to a cycle or the hops run out.   *)
LEMMA CanonicalIsTheEnd ==
  ASSUME NEW map, map \in [DOMAIN map -> Keys], IsFiniteSet(DOMAIN map), NEW key \in Keys,
         NEW k, k = Canonical(map, key)
  PROVE  /\ key \notin DOMAIN map => k = key
         /\ k \in DOMAIN map =>
              \/ \E round \in SUBSET DOMAIN map : k \in round /\ {map[l] : l \in round} = round
              \/ Cardinality(DOMAIN map) > MaxHops
<1>0. MaxHops \in Nat
  BY HopsAssumption
<1>1. PICK after \in [0..MaxHops -> Keys] : after[0] = key /\ Follows(map, after) /\ k = after[MaxHops]
  BY CanonicalFollows
<1>2. ASSUME NEW i \in 0..MaxHops, after[i] \notin DOMAIN map
      PROVE  \A j \in i..MaxHops : after[j] = after[i]
  <2> DEFINE S == {j \in Nat : j <= MaxHops /\ i <= j => after[j] = after[i]}
  <2>1. 0 \in S
    OBVIOUS
  <2>2. ASSUME NEW j \in Nat, j \in S PROVE j + 1 \in S
    <3> SUFFICES ASSUME j + 1 <= MaxHops, i <= j + 1 PROVE after[j+1] = after[i]
      OBVIOUS
    <3>1. CASE i = j + 1
      BY <3>1
    <3>2. CASE i # j + 1
      <4>1. i <= j /\ j <= MaxHops /\ j \in 0..MaxHops-1
        BY <1>0, <3>2
      <4>2. after[j] = after[i]
        BY <2>2, <4>1
      <4> QED
        BY <1>1, <1>2, <4>1, <4>2 DEF Follows
    <3> QED
      BY <3>1, <3>2
  <2>3. \A j \in Nat : j \in S
    <3> HIDE DEF S
    <3> QED
      BY <2>1, <2>2, Induction
  <2> QED
    BY <1>0, <2>3
<1>3. ASSUME key \notin DOMAIN map PROVE k = key
  <2> DEFINE zero == 0
  <2>1. zero \in 0..MaxHops /\ after[zero] \notin DOMAIN map /\ MaxHops \in zero..MaxHops
    BY <1>0, <1>1, <1>3
  <2> HIDE DEF zero
  <2>2. after[MaxHops] = after[zero]
    BY <1>2, <2>1
  <2> QED
    BY <1>1, <2>2 DEF zero
<1>4. ASSUME k \in DOMAIN map, ~ (Cardinality(DOMAIN map) > MaxHops)
      PROVE  \E round \in SUBSET DOMAIN map : k \in round /\ {map[l] : l \in round} = round
  <2>1. \A i \in 0..MaxHops : after[i] \in DOMAIN map
    <3> SUFFICES ASSUME NEW i \in 0..MaxHops, after[i] \notin DOMAIN map PROVE FALSE
      OBVIOUS
    <3>1. MaxHops \in i..MaxHops
      BY <1>0
    <3>2. after[MaxHops] = after[i]
      BY <1>2, <3>1
    <3> QED
      BY <1>1, <1>4, <3>2
  <2>2. \A i \in 0..MaxHops-1 : after[i+1] = map[after[i]]
    <3>1. \A i \in 0..MaxHops-1 : i \in 0..MaxHops
      BY <1>0
    <3> QED
      BY <1>1, <2>1, <3>1 DEF Follows
  <2>3. PICK i \in 0..MaxHops, j \in 0..MaxHops : i < j /\ after[i] = after[j]
    <3>1. after \in [0..MaxHops -> DOMAIN map]
      <4>1. after = [i \in 0..MaxHops |-> after[i]]
        OBVIOUS
      <4> QED
        BY <2>1, <4>1
    <3>2. IsFiniteSet(0..MaxHops) /\ Cardinality(0..MaxHops) = MaxHops + 1
      <4>1. 0 \in Int /\ MaxHops \in Int /\ ~ (0 > MaxHops)
        BY <1>0
      <4>2. IsFiniteSet(0..MaxHops) /\ Cardinality(0..MaxHops) = MaxHops - 0 + 1
        BY ONLY <4>1, FS_Interval
      <4> QED
        BY <1>0, <4>2
    <3>3. Cardinality(DOMAIN map) \in Nat
      BY FS_CardinalityType
    <3>4. Cardinality(DOMAIN map) < Cardinality(0..MaxHops)
      BY <1>0, <1>4, <3>2, <3>3
    <3>5. \E x, z \in 0..MaxHops : x # z /\ after[x] = after[z]
      BY <3>1, <3>2, <3>4, FS_PigeonHole
    <3>6. PICK x \in 0..MaxHops, z \in 0..MaxHops : x # z /\ after[x] = after[z]
      BY <3>5
    <3>7. x < z \/ z < x
      BY <1>0, <3>6
    <3> QED
      BY <3>6, <3>7
  <2> DEFINE round == {after[p] : p \in i..j-1}
  <2>4. round \in SUBSET DOMAIN map
    <3>1. \A p \in i..j-1 : p \in 0..MaxHops
      BY <1>0
    <3> QED
      BY <2>1, <3>1
  <2>5. ASSUME NEW p \in i..j-1
        PROVE  /\ \E r \in i..j-1 : map[after[p]] = after[r]
               /\ \E r \in i..j-1 : map[after[r]] = after[p]
    <3>1. p \in 0..MaxHops-1 /\ i \in i..j-1 /\ j - 1 \in i..j-1 /\ j - 1 \in 0..MaxHops-1 /\ (j - 1) + 1 = j
      BY <1>0, <2>3
    <3>2. map[after[p]] = after[p+1] /\ map[after[j-1]] = after[j]
      BY <2>2, <3>1
    <3>3. \E r \in i..j-1 : map[after[p]] = after[r]
      <4>1. CASE p = j - 1
        BY <2>3, <3>1, <3>2, <4>1
      <4>2. CASE p # j - 1
        <5>1. p + 1 \in i..j-1
          BY <4>2
        <5> QED
          BY <3>2, <5>1
      <4> QED
        BY <4>1, <4>2
    <3>4. \E r \in i..j-1 : map[after[r]] = after[p]
      <4>1. CASE p = i
        BY <2>3, <3>1, <3>2, <4>1
      <4>2. CASE p # i
        <5>1. p - 1 \in i..j-1 /\ p - 1 \in 0..MaxHops-1 /\ (p - 1) + 1 = p
          BY <1>0, <4>2
        <5>2. map[after[p-1]] = after[p]
          BY <2>2, <5>1
        <5> QED
          BY <5>1, <5>2
      <4> QED
        BY <4>1, <4>2
    <3> QED
      BY <3>3, <3>4
  <2>6. {map[l] : l \in round} = round
    <3>1. ASSUME NEW l \in round PROVE map[l] \in round
      <4>1. PICK p \in i..j-1 : l = after[p]
        OBVIOUS
      <4>2. PICK r \in i..j-1 : map[after[p]] = after[r]
        BY <2>5
      <4> QED
        BY <4>1, <4>2
    <3>2. ASSUME NEW l \in round PROVE \E x \in round : map[x] = l
      <4>1. PICK p \in i..j-1 : l = after[p]
        OBVIOUS
      <4>2. PICK r \in i..j-1 : map[after[r]] = after[p]
        BY <2>5
      <4> QED
        BY <4>1, <4>2
    <3> HIDE DEF round
    <3> QED
      BY <3>1, <3>2
  <2>7. k \in round
    <3>1. after[i] \in round /\ \A l \in round : map[l] \in round
      <4>1. i \in i..j-1
        BY <2>3
      <4>2. after[i] \in round
        BY <4>1
      <4> HIDE DEF round
      <4> QED
        BY <2>6, <4>2
    <3> DEFINE S == {m \in Nat : i + m <= MaxHops => after[i+m] \in round}
    <3> HIDE DEF round
    <3>2. 0 \in S
      BY <3>1
    <3>3. ASSUME NEW m \in Nat, m \in S PROVE m + 1 \in S
      <4> SUFFICES ASSUME i + (m + 1) <= MaxHops PROVE after[i+(m+1)] \in round
        OBVIOUS
      <4>1. i + m \in 0..MaxHops-1 /\ (i + m) + 1 = i + (m + 1) /\ i + m <= MaxHops
        BY <1>0
      <4>2. after[i+(m+1)] = map[after[i+m]]
        BY <2>2, <4>1
      <4> QED
        BY <3>1, <3>3, <4>1, <4>2
    <3>4. \A m \in Nat : m \in S
      <4> HIDE DEF S
      <4> QED
        BY <3>2, <3>3, Induction
    <3>5. MaxHops - i \in Nat /\ i + (MaxHops - i) = MaxHops /\ MaxHops <= MaxHops
      BY <1>0
    <3>6. after[i + (MaxHops - i)] \in round
      BY <3>4, <3>5
    <3> QED
      BY <1>1, <3>5, <3>6
  <2> HIDE DEF round
  <2> QED
    BY <2>4, <2>6, <2>7
<1> QED
  BY <1>3, <1>4

(***************************************************************************)
(* What a rebuild counts.                                                  *)
(***************************************************************************)

MentionsOK(all) ==
  /\ DOMAIN all \subseteq Texts /\ IsFiniteSet(DOMAIN all)
  /\ \A t \in DOMAIN all : all[t] \in Seq(Mention)

TextsWith(all, key) == {t \in DOMAIN all : key \in KeysOf(all[t])}
TimesOf(ts) == {TsOfText[t] : t \in ts}
KindsOf(all, key) ==
  UNION {{m.kind : m \in {n \in ToSet(all[t]) : n.key = key}} : t \in TextsWith(all, key)}
TextsWithPair(all, pair) == {t \in DOMAIN all : pair \in PairsOf(all[t])}

LEMMA KeysAreKeys ==
  ASSUME NEW ms \in Seq(Mention)
  PROVE  /\ KeysOf(ms) \subseteq Keys
         /\ \A key \in KeysOf(ms) : \E i \in DOMAIN ms : ms[i].key = key /\ ms[i] \in Mention
<1>1. \A i \in DOMAIN ms : ms[i] \in Mention
  OBVIOUS
<1> QED
  BY <1>1 DEF KeysOf, Mention

LEMMA StatsDomain ==
  ASSUME NEW all
  PROVE  \A key : key \in DOMAIN RebuiltStats(all) <=> TextsWith(all, key) # {}
<1>1. DOMAIN RebuiltStats(all) = UNION {KeysOf(all[t]) : t \in DOMAIN all}
  BY DEF RebuiltStats
<1>2. \A key : key \in UNION {KeysOf(all[t]) : t \in DOMAIN all}
                 <=> \E t \in DOMAIN all : key \in KeysOf(all[t])
  OBVIOUS
<1> QED
  BY <1>1, <1>2 DEF TextsWith

LEMMA RebuiltStat ==
  ASSUME NEW all, NEW key \in DOMAIN RebuiltStats(all)
  PROVE  RebuiltStats(all)[key] = [kind |-> Min(KindsOf(all, key)),
                                   turns |-> Cardinality(TextsWith(all, key)),
                                   first |-> Min(TimesOf(TextsWith(all, key))),
                                   last |-> Max(TimesOf(TextsWith(all, key)))]
  BY DEF RebuiltStats, KindsOf, TextsWith, TimesOf

(* The times of some texts have a first and a last. *)
LEMMA TimesHaveBounds ==
  ASSUME NEW ts \in SUBSET Texts, IsFiniteSet(ts), ts # {}
  PROVE  /\ TimesOf(ts) \in SUBSET Nat /\ IsFiniteSet(TimesOf(ts)) /\ TimesOf(ts) # {}
         /\ Min(TimesOf(ts)) \in TimesOf(ts) /\ \A x \in TimesOf(ts) : Min(TimesOf(ts)) <= x
         /\ Max(TimesOf(ts)) \in TimesOf(ts) /\ \A x \in TimesOf(ts) : x <= Max(TimesOf(ts))
<1>1. TimesOf(ts) \in SUBSET Nat /\ TimesOf(ts) # {}
  BY TurnsAssumption DEF TimesOf
<1>2. IsFiniteSet(TimesOf(ts))
  <2> DEFINE f == [t \in ts |-> TsOfText[t]]
  <2>1. f \in Surjection(ts, TimesOf(ts))
    BY DEF TimesOf, Surjection
  <2> QED
    BY <2>1, FS_Surjection
<1> QED
  BY <1>1, <1>2, MinOfFinite, MaxOfFinite

LEMMA KindsHaveALeast ==
  ASSUME NEW all, MentionsOK(all), NEW key, TextsWith(all, key) # {}
  PROVE  Min(KindsOf(all, key)) \in EntityKinds
<1>1. KindsOf(all, key) \subseteq EntityKinds
  <2>1. ASSUME NEW t \in TextsWith(all, key), NEW m \in ToSet(all[t]) PROVE m.kind \in EntityKinds
    <3>1. all[t] \in Seq(Mention)
      BY DEF TextsWith, MentionsOK
    <3>2. m \in Mention
      BY <2>1, <3>1 DEF ToSet
    <3> QED
      BY <3>2 DEF Mention
  <2> QED
    BY <2>1 DEF KindsOf
<1>2. KindsOf(all, key) # {}
  <2>1. PICK t \in DOMAIN all : key \in KeysOf(all[t])
    BY DEF TextsWith
  <2>2. PICK i \in DOMAIN all[t] : all[t][i].key = key
    BY <2>1 DEF KeysOf
  <2>3. t \in TextsWith(all, key)
    BY <2>1 DEF TextsWith
  <2>4. all[t][i] \in {n \in ToSet(all[t]) : n.key = key}
    BY <2>2 DEF ToSet
  <2>5. all[t][i].kind \in {m.kind : m \in {n \in ToSet(all[t]) : n.key = key}}
    BY <2>4
  <2> QED
    BY <2>3, <2>5 DEF KindsOf
<1>3. KindsOf(all, key) \in SUBSET Nat
  BY <1>1, KindsAssumption
<1> QED
  BY <1>1, <1>2, <1>3, MinOfNaturals

LEMMA TextsAreFinite ==
  ASSUME NEW all, MentionsOK(all)
  PROVE  /\ \A key : TextsWith(all, key) \in SUBSET Texts /\ IsFiniteSet(TextsWith(all, key))
         /\ \A pair : TextsWithPair(all, pair) \in SUBSET Texts
                      /\ IsFiniteSet(TextsWithPair(all, pair))
<1>1. \A key : TextsWith(all, key) \subseteq DOMAIN all
  BY DEF TextsWith
<1>2. \A pair : TextsWithPair(all, pair) \subseteq DOMAIN all
  BY DEF TextsWithPair
<1> QED
  BY <1>1, <1>2, FS_Subset DEF MentionsOK

LEMMA NonEmptyCardinality ==
  ASSUME NEW S, IsFiniteSet(S), S # {}
  PROVE  Cardinality(S) \in Nat \ {0}
  BY FS_CardinalityType, FS_EmptySet

LEMMA RebuiltStatsType ==
  ASSUME NEW all, MentionsOK(all)
  PROVE  /\ DOMAIN RebuiltStats(all) \subseteq Keys
         /\ RebuiltStats(all) \in [DOMAIN RebuiltStats(all) -> Stat]
<1>1. DOMAIN RebuiltStats(all) \subseteq Keys
  <2>1. ASSUME NEW key \in DOMAIN RebuiltStats(all) PROVE key \in Keys
    <3>1. PICK t \in DOMAIN all : key \in KeysOf(all[t])
      BY StatsDomain DEF TextsWith
    <3> QED
      BY <3>1, KeysAreKeys DEF MentionsOK
  <2> QED
    BY <2>1
<1>2. ASSUME NEW key \in DOMAIN RebuiltStats(all) PROVE RebuiltStats(all)[key] \in Stat
  <2>1. TextsWith(all, key) # {}
    BY StatsDomain
  <2>2. TextsWith(all, key) \in SUBSET Texts /\ IsFiniteSet(TextsWith(all, key))
    BY TextsAreFinite
  <2>3. Cardinality(TextsWith(all, key)) \in Nat
    BY <2>2, FS_CardinalityType
  <2>4. Min(KindsOf(all, key)) \in EntityKinds
    BY <2>1, KindsHaveALeast
  <2>5. Min(TimesOf(TextsWith(all, key))) \in Nat /\ Max(TimesOf(TextsWith(all, key))) \in Nat
    BY <2>1, <2>2, TimesHaveBounds
  <2> QED
    BY <2>3, <2>4, <2>5, RebuiltStat DEF Stat
<1>3. RebuiltStats(all) = [key \in DOMAIN RebuiltStats(all) |-> RebuiltStats(all)[key]]
  BY DEF RebuiltStats
<1> QED
  BY <1>1, <1>2, <1>3

LEMMA EdgesDomain ==
  ASSUME NEW all
  PROVE  /\ \A pair : pair \in DOMAIN RebuiltEdges(all) <=> TextsWithPair(all, pair) # {}
         /\ \A pair \in DOMAIN RebuiltEdges(all) :
              RebuiltEdges(all)[pair] = Cardinality(TextsWithPair(all, pair))
<1>1. DOMAIN RebuiltEdges(all) = UNION {PairsOf(all[t]) : t \in DOMAIN all}
  BY DEF RebuiltEdges
<1>2. \A pair : pair \in UNION {PairsOf(all[t]) : t \in DOMAIN all}
                  <=> \E t \in DOMAIN all : pair \in PairsOf(all[t])
  OBVIOUS
<1>3. \A pair \in DOMAIN RebuiltEdges(all) :
        RebuiltEdges(all)[pair] = Cardinality(TextsWithPair(all, pair))
  BY DEF RebuiltEdges, TextsWithPair
<1> QED
  BY <1>1, <1>2, <1>3 DEF TextsWithPair

LEMMA RebuiltEdgesType ==
  ASSUME NEW all, MentionsOK(all)
  PROVE  RebuiltEdges(all) \in [DOMAIN RebuiltEdges(all) -> Nat \ {0}]
<1>1. \A pair \in DOMAIN RebuiltEdges(all) : RebuiltEdges(all)[pair] \in Nat \ {0}
  BY EdgesDomain, TextsAreFinite, NonEmptyCardinality
<1>2. RebuiltEdges(all) = [pair \in DOMAIN RebuiltEdges(all) |-> RebuiltEdges(all)[pair]]
  BY DEF RebuiltEdges
<1> QED
  BY <1>1, <1>2

(***************************************************************************)
(* What one more turn adds.                                                *)
(***************************************************************************)

Plus(all, t, ms) == [u \in DOMAIN all \cup {t} |-> IF u = t THEN ms ELSE all[u]]

LEMMA PlusOne ==
  ASSUME NEW all, MentionsOK(all), NEW t \in Texts, t \notin DOMAIN all, NEW ms \in Seq(Mention)
  PROVE  /\ MentionsOK(Plus(all, t, ms))
         /\ \A key : TextsWith(Plus(all, t, ms), key)
              = IF key \in KeysOf(ms) THEN TextsWith(all, key) \cup {t} ELSE TextsWith(all, key)
         /\ \A pair : TextsWithPair(Plus(all, t, ms), pair)
              = IF pair \in PairsOf(ms) THEN TextsWithPair(all, pair) \cup {t} ELSE TextsWithPair(all, pair)
         /\ \A key : t \notin TextsWith(all, key)
         /\ \A pair : t \notin TextsWithPair(all, pair)
<1> DEFINE after == Plus(all, t, ms)
<1>1. /\ DOMAIN after = DOMAIN all \cup {t}
      /\ after[t] = ms
      /\ \A u \in DOMAIN all : after[u] = all[u]
  BY DEF Plus
<1> HIDE DEF after
<1>2. IsFiniteSet(DOMAIN all \cup {t})
  BY FS_AddElement DEF MentionsOK
<1>3. MentionsOK(after)
  BY <1>1, <1>2 DEF MentionsOK
<1>4. \A key : TextsWith(after, key)
        = IF key \in KeysOf(ms) THEN TextsWith(all, key) \cup {t} ELSE TextsWith(all, key)
  BY <1>1 DEF TextsWith
<1>5. \A pair : TextsWithPair(after, pair)
        = IF pair \in PairsOf(ms) THEN TextsWithPair(all, pair) \cup {t} ELSE TextsWithPair(all, pair)
  BY <1>1 DEF TextsWithPair
<1> QED
  BY <1>3, <1>4, <1>5 DEF after, TextsWith, TextsWithPair

LEMMA OneMoreText ==
  ASSUME NEW ts \in SUBSET Texts, IsFiniteSet(ts), NEW t \in Texts, t \notin ts
  PROVE  /\ Cardinality(ts \cup {t}) = Cardinality(ts) + 1
         /\ ts # {} =>
              /\ Min(TimesOf(ts \cup {t})) = Min({Min(TimesOf(ts)), TsOfText[t]})
              /\ Max(TimesOf(ts \cup {t})) = Max({Max(TimesOf(ts)), TsOfText[t]})
         /\ ts = {} =>
              /\ Min(TimesOf(ts \cup {t})) = TsOfText[t]
              /\ Max(TimesOf(ts \cup {t})) = TsOfText[t]
<1>1. Cardinality(ts \cup {t}) = Cardinality(ts) + 1
  BY FS_AddElement
<1>2. TimesOf(ts \cup {t}) = TimesOf(ts) \cup {TsOfText[t]}
  BY DEF TimesOf
<1>3. TsOfText[t] \in Nat
  BY TurnsAssumption
<1>4. ASSUME ts # {}
      PROVE  /\ Min(TimesOf(ts \cup {t})) = Min({Min(TimesOf(ts)), TsOfText[t]})
             /\ Max(TimesOf(ts \cup {t})) = Max({Max(TimesOf(ts)), TsOfText[t]})
  <2> DEFINE least == Min(TimesOf(ts))
             most == Max(TimesOf(ts))
             now == TsOfText[t]
             whole == TimesOf(ts \cup {t})
  <2>1. /\ TimesOf(ts) \in SUBSET Nat
        /\ least \in TimesOf(ts) /\ \A x \in TimesOf(ts) : least <= x
        /\ most \in TimesOf(ts) /\ \A x \in TimesOf(ts) : x <= most
    BY <1>4, TimesHaveBounds
  <2>2. whole = TimesOf(ts) \cup {now} /\ now \in Nat
    BY <1>2, <1>3
  <2> HIDE DEF least, most, now, whole
  <2>3. {least, now} \in SUBSET Int /\ {most, now} \in SUBSET Int /\ whole \in SUBSET Int
        /\ least \in Int /\ most \in Int /\ now \in Int
    BY <2>1, <2>2
  <2>4. Min({least, now}) = IF least <= now THEN least ELSE now
    <3>1. CASE least <= now
      <4>1. \A x \in {least, now} : least <= x
        BY <2>3, <3>1
      <4> QED
        BY <2>3, <3>1, <4>1, LeastIsMin
    <3>2. CASE ~ (least <= now)
      <4>1. \A x \in {least, now} : now <= x
        BY <2>3, <3>2
      <4> QED
        BY <2>3, <3>2, <4>1, LeastIsMin
    <3> QED
      BY <3>1, <3>2
  <2>5. Max({most, now}) = IF now <= most THEN most ELSE now
    <3>1. CASE now <= most
      <4>1. \A x \in {most, now} : x <= most
        BY <2>3, <3>1
      <4> QED
        BY <2>3, <3>1, <4>1, LargestIsMax
    <3>2. CASE ~ (now <= most)
      <4>1. \A x \in {most, now} : x <= now
        BY <2>3, <3>2
      <4> QED
        BY <2>3, <3>2, <4>1, LargestIsMax
    <3> QED
      BY <3>1, <3>2
  <2>6. Min(whole) = IF least <= now THEN least ELSE now
    <3>1. CASE least <= now
      <4>1. least \in whole /\ \A x \in whole : least <= x
        BY <2>1, <2>2, <2>3, <3>1
      <4> QED
        BY <2>3, <3>1, <4>1, LeastIsMin
    <3>2. CASE ~ (least <= now)
      <4>1. now \in whole /\ \A x \in whole : now <= x
        BY <2>1, <2>2, <2>3, <3>2
      <4> QED
        BY <2>3, <3>2, <4>1, LeastIsMin
    <3> QED
      BY <3>1, <3>2
  <2>7. Max(whole) = IF now <= most THEN most ELSE now
    <3>1. CASE now <= most
      <4>1. most \in whole /\ \A x \in whole : x <= most
        BY <2>1, <2>2, <2>3, <3>1
      <4> QED
        BY <2>3, <3>1, <4>1, LargestIsMax
    <3>2. CASE ~ (now <= most)
      <4>1. now \in whole /\ \A x \in whole : x <= now
        BY <2>1, <2>2, <2>3, <3>2
      <4> QED
        BY <2>3, <3>2, <4>1, LargestIsMax
    <3> QED
      BY <3>1, <3>2
  <2> QED
    BY <2>4, <2>5, <2>6, <2>7 DEF least, most, now, whole
<1>5. ASSUME ts = {}
      PROVE  /\ Min(TimesOf(ts \cup {t})) = TsOfText[t]
             /\ Max(TimesOf(ts \cup {t})) = TsOfText[t]
  <2>1. TimesOf(ts \cup {t}) = {TsOfText[t]}
    BY <1>2, <1>5 DEF TimesOf
  <2>2. {TsOfText[t]} \in SUBSET Int /\ \A x \in {TsOfText[t]} : TsOfText[t] <= x /\ x <= TsOfText[t]
    BY <1>3
  <2>3. Min({TsOfText[t]}) = TsOfText[t]
    BY <2>2, LeastIsMin
  <2>4. Max({TsOfText[t]}) = TsOfText[t]
    BY <2>2, LargestIsMax
  <2> QED
    BY <2>1, <2>3, <2>4
<1> QED
  BY <1>1, <1>4, <1>5

(* The kind a key is first mentioned with. *)
LEMMA FirstKindType ==
  ASSUME NEW ms \in Seq(Mention), NEW key \in KeysOf(ms)
  PROVE  FirstKind(ms, key) \in EntityKinds
<1> DEFINE at == {i \in DOMAIN ms : ms[i].key = key}
<1>1. at \in SUBSET Nat /\ at # {}
  BY DEF KeysOf
<1>2. Min(at) \in at
  BY <1>1, MinOfNaturals
<1>3. ms[Min(at)] \in Mention
  BY <1>2
<1> QED
  BY <1>3 DEF FirstKind, Mention

(***************************************************************************)
(* The aggregates, kept as turns come, are those of a rebuild.             *)
(***************************************************************************)

CountsKept ==
  /\ stats \in [DOMAIN stats -> Stat]
  /\ edges = RebuiltEdges(mentions)
  /\ DOMAIN stats = DOMAIN RebuiltStats(mentions)
  /\ \A key \in DOMAIN stats :
       /\ stats[key].turns = Cardinality(TextsWith(mentions, key))
       /\ stats[key].first = Min(TimesOf(TextsWith(mentions, key)))
       /\ stats[key].last = Max(TimesOf(TextsWith(mentions, key)))

LEMMA RebuildKeepsCounts ==
  ASSUME MentionsOK(mentions'), RebuildAggregates
  PROVE  CountsKept'
<1>1. stats' = RebuiltStats(mentions') /\ edges' = RebuiltEdges(mentions')
  BY DEF RebuildAggregates
<1>2. RebuiltStats(mentions') \in [DOMAIN RebuiltStats(mentions') -> Stat]
  BY RebuiltStatsType
<1>3. \A key \in DOMAIN stats' :
        /\ stats'[key].turns = Cardinality(TextsWith(mentions', key))
        /\ stats'[key].first = Min(TimesOf(TextsWith(mentions', key)))
        /\ stats'[key].last = Max(TimesOf(TextsWith(mentions', key)))
  BY <1>1, RebuiltStat
<1> QED
  BY <1>1, <1>2, <1>3 DEF CountsKept

LEMMA InsertKeepsCounts ==
  ASSUME MentionsOK(mentions), CountsKept, NEW t \in Texts, NEW ms \in Seq(Mention),
         t \notin DOMAIN mentions, mentions' = Plus(mentions, t, ms), AddToAggregates(t)
  PROVE  CountsKept'
<1>1. /\ MentionsOK(mentions')
      /\ \A key : TextsWith(mentions', key)
           = IF key \in KeysOf(ms) THEN TextsWith(mentions, key) \cup {t} ELSE TextsWith(mentions, key)
      /\ \A pair : TextsWithPair(mentions', pair)
           = IF pair \in PairsOf(ms) THEN TextsWithPair(mentions, pair) \cup {t} ELSE TextsWithPair(mentions, pair)
      /\ \A key : t \notin TextsWith(mentions, key)
      /\ \A pair : t \notin TextsWithPair(mentions, pair)
  BY PlusOne
<1>2. mentions'[t] = ms
  BY DEF Plus
<1>3. /\ \A key : TextsWith(mentions, key) \in SUBSET Texts /\ IsFiniteSet(TextsWith(mentions, key))
      /\ \A pair : TextsWithPair(mentions, pair) \in SUBSET Texts
                   /\ IsFiniteSet(TextsWithPair(mentions, pair))
  BY TextsAreFinite
<1>4. \A key : key \in DOMAIN stats <=> TextsWith(mentions, key) # {}
  BY StatsDomain DEF CountsKept
<1>5. DOMAIN stats' = DOMAIN stats \cup KeysOf(ms)
  BY <1>2 DEF AddToAggregates
<1>6. DOMAIN stats' = DOMAIN RebuiltStats(mentions')
  <2>1. \A key : key \in DOMAIN stats' <=> TextsWith(mentions', key) # {}
    BY <1>1, <1>4, <1>5
  <2> QED
    BY <2>1, StatsDomain DEF AddToAggregates
<1>7. ASSUME NEW key \in DOMAIN stats'
      PROVE  /\ stats'[key] \in Stat
             /\ stats'[key].turns = Cardinality(TextsWith(mentions', key))
             /\ stats'[key].first = Min(TimesOf(TextsWith(mentions', key)))
             /\ stats'[key].last = Max(TimesOf(TextsWith(mentions', key)))
  <2>0. stats'[key] =
          IF key \notin KeysOf(ms) THEN stats[key]
          ELSE IF key \in DOMAIN stats
          THEN [stats[key] EXCEPT !.turns = @ + 1, !.first = Min({@, TsOfText[t]}),
                                  !.last = Max({@, TsOfText[t]})]
          ELSE [kind |-> FirstKind(ms, key), turns |-> 1, first |-> TsOfText[t], last |-> TsOfText[t]]
    BY <1>2, <1>5 DEF AddToAggregates
  <2>1. CASE key \notin KeysOf(ms)
    BY <1>1, <1>5, <2>0, <2>1 DEF CountsKept
  <2>2. CASE key \in KeysOf(ms) /\ key \in DOMAIN stats
    <3>1. stats[key] \in Stat
      BY <2>2 DEF CountsKept
    <3>2. TextsWith(mentions, key) # {} /\ TextsWith(mentions', key) = TextsWith(mentions, key) \cup {t}
      BY <1>1, <1>4, <2>2
    <3>3. /\ Cardinality(TextsWith(mentions', key)) = stats[key].turns + 1
          /\ Min(TimesOf(TextsWith(mentions', key))) = Min({stats[key].first, TsOfText[t]})
          /\ Max(TimesOf(TextsWith(mentions', key))) = Max({stats[key].last, TsOfText[t]})
      <4> DEFINE ts == TextsWith(mentions, key)
      <4>1. ts \in SUBSET Texts /\ IsFiniteSet(ts) /\ t \notin ts /\ ts # {}
        BY <1>1, <1>3, <3>2
      <4> HIDE DEF ts
      <4>2. /\ Cardinality(ts \cup {t}) = Cardinality(ts) + 1
            /\ Min(TimesOf(ts \cup {t})) = Min({Min(TimesOf(ts)), TsOfText[t]})
            /\ Max(TimesOf(ts \cup {t})) = Max({Max(TimesOf(ts)), TsOfText[t]})
        BY <4>1, OneMoreText
      <4>3. /\ stats[key].turns = Cardinality(ts)
            /\ stats[key].first = Min(TimesOf(ts))
            /\ stats[key].last = Max(TimesOf(ts))
        BY <2>2 DEF CountsKept, ts
      <4>4. TextsWith(mentions', key) = ts \cup {t}
        BY <3>2 DEF ts
      <4> QED
        BY <4>2, <4>3, <4>4
    <3>4. /\ stats'[key].kind = stats[key].kind
          /\ stats'[key].turns = stats[key].turns + 1
          /\ stats'[key].first = Min({stats[key].first, TsOfText[t]})
          /\ stats'[key].last = Max({stats[key].last, TsOfText[t]})
          /\ stats'[key] = [kind |-> stats'[key].kind, turns |-> stats'[key].turns,
                            first |-> stats'[key].first, last |-> stats'[key].last]
      BY <2>0, <2>2, <3>1 DEF Stat
    <3>5. /\ TextsWith(mentions', key) \in SUBSET Texts
          /\ IsFiniteSet(TextsWith(mentions', key))
          /\ TextsWith(mentions', key) # {}
      BY <1>1, <3>2, TextsAreFinite
    <3>6. /\ Min(TimesOf(TextsWith(mentions', key))) \in Nat
          /\ Max(TimesOf(TextsWith(mentions', key))) \in Nat
      BY <3>5, TimesHaveBounds
    <3>7. stats[key].turns + 1 \in Nat /\ stats[key].kind \in EntityKinds
      BY <3>1 DEF Stat
    <3>8. stats'[key] \in Stat
      BY <3>3, <3>4, <3>6, <3>7 DEF Stat
    <3> QED
      BY <3>3, <3>4, <3>8
  <2>3. CASE key \in KeysOf(ms) /\ key \notin DOMAIN stats
    <3>1. stats'[key] = [kind |-> FirstKind(ms, key), turns |-> 1,
                         first |-> TsOfText[t], last |-> TsOfText[t]]
      BY <2>0, <2>3
    <3>2. TextsWith(mentions, key) = {} /\ TextsWith(mentions', key) = TextsWith(mentions, key) \cup {t}
      BY <1>1, <1>4, <2>3
    <3>3. /\ Cardinality(TextsWith(mentions', key)) = Cardinality(TextsWith(mentions, key)) + 1
          /\ Min(TimesOf(TextsWith(mentions', key))) = TsOfText[t]
          /\ Max(TimesOf(TextsWith(mentions', key))) = TsOfText[t]
      <4> DEFINE ts == TextsWith(mentions, key)
      <4>1. ts \in SUBSET Texts /\ IsFiniteSet(ts) /\ t \notin ts /\ ts = {}
        BY <1>1, <1>3, <3>2
      <4>2. TextsWith(mentions', key) = ts \cup {t}
        BY <3>2
      <4> HIDE DEF ts
      <4>3. /\ Cardinality(ts \cup {t}) = Cardinality(ts) + 1
            /\ Min(TimesOf(ts \cup {t})) = TsOfText[t]
            /\ Max(TimesOf(ts \cup {t})) = TsOfText[t]
        BY <4>1, OneMoreText
      <4> QED
        BY <4>2, <4>3 DEF ts
    <3>4. Cardinality(TextsWith(mentions, key)) = 0
      BY <3>2, FS_EmptySet
    <3>5. TsOfText[t] \in Nat /\ FirstKind(ms, key) \in EntityKinds
      BY <2>3, TurnsAssumption, FirstKindType
    <3>6. stats'[key] \in Stat
      BY <3>1, <3>5 DEF Stat
    <3> QED
      BY <3>1, <3>3, <3>4, <3>6
  <2> QED
    BY <2>1, <2>2, <2>3
<1>8. stats' \in [DOMAIN stats' -> Stat]
  <2>1. stats' = [key \in DOMAIN stats' |-> stats'[key]]
    BY DEF AddToAggregates
  <2> QED
    BY <1>7, <2>1
<1>9. edges' = RebuiltEdges(mentions')
  <2>1. /\ \A pair : pair \in DOMAIN edges <=> TextsWithPair(mentions, pair) # {}
        /\ \A pair \in DOMAIN edges : edges[pair] = Cardinality(TextsWithPair(mentions, pair))
    BY EdgesDomain DEF CountsKept
  <2>2. DOMAIN edges' = DOMAIN edges \cup PairsOf(ms)
    BY <1>2 DEF AddToAggregates
  <2>3. \A pair : pair \in DOMAIN edges' <=> TextsWithPair(mentions', pair) # {}
    BY <1>1, <2>1, <2>2
  <2>4. DOMAIN edges' = DOMAIN RebuiltEdges(mentions')
    BY <2>3, EdgesDomain DEF AddToAggregates
  <2>5. ASSUME NEW pair \in DOMAIN edges'
        PROVE  edges'[pair] = Cardinality(TextsWithPair(mentions', pair))
    <3>1. edges'[pair] = (IF pair \in DOMAIN edges THEN edges[pair] ELSE 0)
                         + (IF pair \in PairsOf(ms) THEN 1 ELSE 0)
      BY <1>2, <2>2 DEF AddToAggregates
    <3>2. (IF pair \in DOMAIN edges THEN edges[pair] ELSE 0) = Cardinality(TextsWithPair(mentions, pair))
      BY <2>1, FS_EmptySet
    <3>3. Cardinality(TextsWithPair(mentions, pair)) \in Nat
      BY <1>3, FS_CardinalityType
    <3>4. CASE pair \in PairsOf(ms)
      <4>1. Cardinality(TextsWithPair(mentions', pair)) = Cardinality(TextsWithPair(mentions, pair)) + 1
        BY <1>1, <1>3, <3>4, OneMoreText
      <4> QED
        BY <3>1, <3>2, <3>4, <4>1
    <3>5. CASE pair \notin PairsOf(ms)
      <4>1. edges'[pair] = Cardinality(TextsWithPair(mentions, pair)) + 0
        BY <3>1, <3>2, <3>5
      <4>2. TextsWithPair(mentions', pair) = TextsWithPair(mentions, pair)
        BY <1>1, <3>5
      <4> QED
        BY <3>3, <4>1, <4>2
    <3> QED
      BY <3>4, <3>5
  <2>6. \A pair \in DOMAIN edges' : edges'[pair] = RebuiltEdges(mentions')[pair]
    BY <2>4, <2>5, EdgesDomain
  <2>7. edges' = [pair \in DOMAIN edges' |-> edges'[pair]]
    BY DEF AddToAggregates
  <2>8. RebuiltEdges(mentions') = [pair \in DOMAIN RebuiltEdges(mentions') |-> RebuiltEdges(mentions')[pair]]
    BY DEF RebuiltEdges
  <2> QED
    BY <2>4, <2>6, <2>7, <2>8
<1> QED
  BY <1>6, <1>7, <1>8, <1>9 DEF CountsKept

(***************************************************************************)
(* The rules: what the newest live action that names a key says of it.     *)
(***************************************************************************)

Actions == RuleAction \cup NoteAction
AliasOps == {"alias", "unalias"}
BlockOps == {"block", "unblock"}
RuleState == [aliases : UNION {[ks -> Keys] : ks \in SUBSET Keys}, blocked : SUBSET Keys]

Naming(actions, ops, k) ==
  {i \in DOMAIN actions : /\ ~actions[i].undone
                          /\ actions[i].op \in ops
                          /\ actions[i].key = k}

(* Of the first n actions. *)
NamingUpto(actions, ops, k, n) == {i \in Naming(actions, ops, k) : i <= n}

AliasSaid(actions, named) == named # {} /\ actions[Max(named)].op = "alias"
BlockSaid(actions, named) == named # {} /\ actions[Max(named)].op = "block"

RulesAreThoseUpto(rules, actions, n) ==
  \A k \in Keys :
    LET aliasing == NamingUpto(actions, AliasOps, k, n)
        blocking == NamingUpto(actions, BlockOps, k, n) IN
    /\ k \in DOMAIN rules.aliases <=> AliasSaid(actions, aliasing)
    /\ k \in DOMAIN rules.aliases => rules.aliases[k] = actions[Max(aliasing)].to
    /\ k \in rules.blocked <=> BlockSaid(actions, blocking)

RulesAreTheFold(rules, actions) ==
  \A k \in Keys :
    LET aliasing == Naming(actions, AliasOps, k)
        blocking == Naming(actions, BlockOps, k) IN
    /\ k \in DOMAIN rules.aliases <=> AliasSaid(actions, aliasing)
    /\ k \in DOMAIN rules.aliases => rules.aliases[k] = actions[Max(aliasing)].to
    /\ k \in rules.blocked <=> BlockSaid(actions, blocking)

LEMMA RuleStateParts ==
  \A rules : rules \in RuleState <=>
    /\ rules = [aliases |-> rules.aliases, blocked |-> rules.blocked]
    /\ rules.aliases \in [DOMAIN rules.aliases -> Keys]
    /\ DOMAIN rules.aliases \subseteq Keys /\ rules.blocked \subseteq Keys
<1>1. \A map : map \in UNION {[ks -> Keys] : ks \in SUBSET Keys}
                 <=> map \in [DOMAIN map -> Keys] /\ DOMAIN map \subseteq Keys
  <2>1. ASSUME NEW map, map \in UNION {[ks -> Keys] : ks \in SUBSET Keys}
        PROVE  map \in [DOMAIN map -> Keys] /\ DOMAIN map \subseteq Keys
    <3>1. PICK ks \in SUBSET Keys : map \in [ks -> Keys]
      BY <2>1
    <3> QED
      BY <3>1
  <2>2. ASSUME NEW map, map \in [DOMAIN map -> Keys] /\ DOMAIN map \subseteq Keys
        PROVE  map \in UNION {[ks -> Keys] : ks \in SUBSET Keys}
    <3>1. [DOMAIN map -> Keys] \in {[ks -> Keys] : ks \in SUBSET Keys}
      BY <2>2
    <3> QED
      BY <2>2, <3>1
  <2> QED
    BY <2>1, <2>2
<1> DEFINE Maps == UNION {[ks -> Keys] : ks \in SUBSET Keys}
<1>2. RuleState = [aliases : Maps, blocked : SUBSET Keys]
  BY DEF RuleState
<1>3. \A map : map \in Maps <=> map \in [DOMAIN map -> Keys] /\ DOMAIN map \subseteq Keys
  BY <1>1
<1> HIDE DEF Maps
<1> QED
  BY <1>2, <1>3

(* What one action does. *)
LEMMA OneRule ==
  ASSUME NEW rules \in RuleState, NEW a \in Actions
  PROVE  LET after == RulesAfter(rules, a) IN
         /\ after \in RuleState
         /\ a.undone \/ a.op = "note" => after = rules
         /\ ~a.undone /\ a.op = "alias" =>
              /\ after.blocked = rules.blocked
              /\ DOMAIN after.aliases = DOMAIN rules.aliases \cup {a.key}
              /\ after.aliases[a.key] = a.to
              /\ \A k \in DOMAIN rules.aliases \ {a.key} : after.aliases[k] = rules.aliases[k]
         /\ ~a.undone /\ a.op = "unalias" =>
              /\ after.blocked = rules.blocked
              /\ DOMAIN after.aliases = DOMAIN rules.aliases \ {a.key}
              /\ \A k \in DOMAIN after.aliases : after.aliases[k] = rules.aliases[k]
         /\ ~a.undone /\ a.op = "block" =>
              after.aliases = rules.aliases /\ after.blocked = rules.blocked \cup {a.key}
         /\ ~a.undone /\ a.op = "unblock" =>
              after.aliases = rules.aliases /\ after.blocked = rules.blocked \ {a.key}
<1> DEFINE after == RulesAfter(rules, a)
           map == rules.aliases
<1>0. /\ rules = [aliases |-> map, blocked |-> rules.blocked]
      /\ map \in [DOMAIN map -> Keys] /\ DOMAIN map \subseteq Keys /\ rules.blocked \subseteq Keys
  BY RuleStateParts
<1>1. /\ a.op \in {"alias", "unalias", "block", "unblock", "note"}
      /\ a.op # "note" => a.key \in Keys /\ a.to \in Keys
  BY DEF Actions, RuleAction, NoteAction
<1>2. CASE a.undone \/ a.op = "note"
  <2>1. after = rules
    BY <1>2 DEF RulesAfter
  <2> QED
    BY <1>2, <2>1
<1>3. CASE ~a.undone /\ a.op = "alias"
  <2> DEFINE more == [k \in (DOMAIN map \ {a.key}) \cup {a.key} |-> IF k = a.key THEN a.to ELSE map[k]]
  <2>1. after = [rules EXCEPT !.aliases = more]
    BY <1>3 DEF RulesAfter
  <2>2. /\ DOMAIN more = DOMAIN map \cup {a.key} /\ more[a.key] = a.to
        /\ \A k \in DOMAIN map \ {a.key} : more[k] = map[k]
        /\ more \in [DOMAIN more -> Keys]
    BY <1>0, <1>1, <1>3
  <2> HIDE DEF more
  <2>3. after = [aliases |-> more, blocked |-> rules.blocked]
    BY <1>0, <2>1
  <2>4. after \in RuleState
    BY <1>0, <1>1, <1>3, <2>2, <2>3, RuleStateParts
  <2> QED
    BY <1>3, <2>2, <2>3, <2>4
<1>4. CASE ~a.undone /\ a.op = "unalias"
  <2> DEFINE less == Restrict(map, DOMAIN map \ {a.key})
  <2>1. after = [rules EXCEPT !.aliases = less]
    BY <1>4 DEF RulesAfter
  <2>2. /\ DOMAIN less = DOMAIN map \ {a.key}
        /\ \A k \in DOMAIN less : less[k] = map[k]
        /\ less \in [DOMAIN less -> Keys]
    BY <1>0 DEF Restrict
  <2> HIDE DEF less
  <2>3. after = [aliases |-> less, blocked |-> rules.blocked]
    BY <1>0, <2>1
  <2>4. after \in RuleState
    BY <1>0, <2>2, <2>3, RuleStateParts
  <2> QED
    BY <1>4, <2>2, <2>3, <2>4
<1>5. CASE ~a.undone /\ a.op = "block"
  <2>1. after = [aliases |-> map, blocked |-> rules.blocked \cup {a.key}]
    BY <1>0, <1>5 DEF RulesAfter
  <2>2. after \in RuleState
    BY <1>0, <1>1, <1>5, <2>1, RuleStateParts
  <2> QED
    BY <1>5, <2>1, <2>2
<1>6. CASE ~a.undone /\ a.op = "unblock"
  <2>1. after = [aliases |-> map, blocked |-> rules.blocked \ {a.key}]
    BY <1>0, <1>6 DEF RulesAfter
  <2>2. after \in RuleState
    BY <1>0, <2>1, RuleStateParts
  <2> QED
    BY <1>6, <2>1, <2>2
<1> QED
  BY <1>1, <1>2, <1>3, <1>4, <1>5, <1>6

LEMMA NamingGrows ==
  ASSUME NEW actions \in Seq(Actions), NEW ops, NEW k, NEW n \in 0..Len(actions)-1
  PROVE  IF ~actions[n+1].undone /\ actions[n+1].op \in ops /\ actions[n+1].key = k
         THEN /\ NamingUpto(actions, ops, k, n+1) # {}
              /\ Max(NamingUpto(actions, ops, k, n+1)) = n+1
         ELSE NamingUpto(actions, ops, k, n+1) = NamingUpto(actions, ops, k, n)
<1>1. DOMAIN actions = 1..Len(actions) /\ n + 1 \in DOMAIN actions
  OBVIOUS
<1>2. CASE ~actions[n+1].undone /\ actions[n+1].op \in ops /\ actions[n+1].key = k
  <2>1. n + 1 \in NamingUpto(actions, ops, k, n+1)
    BY <1>1, <1>2 DEF NamingUpto, Naming
  <2>2. NamingUpto(actions, ops, k, n+1) \in SUBSET Int
    BY <1>1 DEF NamingUpto, Naming
  <2>3. \A x \in NamingUpto(actions, ops, k, n+1) : x <= n+1
    BY DEF NamingUpto
  <2>4. Max(NamingUpto(actions, ops, k, n+1)) = n+1
    BY <2>1, <2>2, <2>3, LargestIsMax
  <2> QED
    BY <1>2, <2>1, <2>4
<1>3. CASE ~ (~actions[n+1].undone /\ actions[n+1].op \in ops /\ actions[n+1].key = k)
  <2>1. NamingUpto(actions, ops, k, n+1) = NamingUpto(actions, ops, k, n)
    BY <1>1, <1>3 DEF NamingUpto, Naming
  <2> QED
    BY <1>3, <2>1
<1> QED
  BY <1>2, <1>3

(* The rules after n + 1 actions, from those after n. *)
LEMMA OneMoreRule ==
  ASSUME NEW actions \in Seq(Actions), NEW n \in 0..Len(actions)-1,
         NEW rules \in RuleState, RulesAreThoseUpto(rules, actions, n)
  PROVE  RulesAreThoseUpto(RulesAfter(rules, actions[n+1]), actions, n+1)
<1> DEFINE a == actions[n+1]
           after == RulesAfter(rules, a)
<1>0. a \in Actions
  OBVIOUS
<1> HIDE DEF after, a
<1>1. /\ a.op \in {"alias", "unalias", "block", "unblock", "note"}
      /\ after \in RuleState
      /\ a.undone \/ a.op = "note" => after = rules
      /\ ~a.undone /\ a.op = "alias" =>
           /\ after.blocked = rules.blocked
           /\ DOMAIN after.aliases = DOMAIN rules.aliases \cup {a.key}
           /\ after.aliases[a.key] = a.to
           /\ \A k \in DOMAIN rules.aliases \ {a.key} : after.aliases[k] = rules.aliases[k]
      /\ ~a.undone /\ a.op = "unalias" =>
           /\ after.blocked = rules.blocked
           /\ DOMAIN after.aliases = DOMAIN rules.aliases \ {a.key}
           /\ \A k \in DOMAIN after.aliases : after.aliases[k] = rules.aliases[k]
      /\ ~a.undone /\ a.op = "block" =>
           after.aliases = rules.aliases /\ after.blocked = rules.blocked \cup {a.key}
      /\ ~a.undone /\ a.op = "unblock" =>
           after.aliases = rules.aliases /\ after.blocked = rules.blocked \ {a.key}
  <2>1. a.op \in {"alias", "unalias", "block", "unblock", "note"}
    BY <1>0 DEF Actions, RuleAction, NoteAction
  <2> QED
    BY <1>0, <2>1, OneRule DEF after
<1>2. ASSUME NEW k \in Keys
      PROVE  LET aliasing == NamingUpto(actions, AliasOps, k, n+1)
                 blocking == NamingUpto(actions, BlockOps, k, n+1) IN
             /\ k \in DOMAIN after.aliases <=> AliasSaid(actions, aliasing)
             /\ k \in DOMAIN after.aliases => after.aliases[k] = actions[Max(aliasing)].to
             /\ k \in after.blocked <=> BlockSaid(actions, blocking)
  <2> DEFINE aliasing == NamingUpto(actions, AliasOps, k, n)
             blocking == NamingUpto(actions, BlockOps, k, n)
             aliasing1 == NamingUpto(actions, AliasOps, k, n+1)
             blocking1 == NamingUpto(actions, BlockOps, k, n+1)
  <2>1. /\ k \in DOMAIN rules.aliases <=> AliasSaid(actions, aliasing)
        /\ k \in DOMAIN rules.aliases => rules.aliases[k] = actions[Max(aliasing)].to
        /\ k \in rules.blocked <=> BlockSaid(actions, blocking)
    BY DEF RulesAreThoseUpto
  <2>2. IF ~a.undone /\ a.op \in AliasOps /\ a.key = k
        THEN aliasing1 # {} /\ Max(aliasing1) = n+1
        ELSE aliasing1 = aliasing
    BY NamingGrows DEF a
  <2>3. IF ~a.undone /\ a.op \in BlockOps /\ a.key = k
        THEN blocking1 # {} /\ Max(blocking1) = n+1
        ELSE blocking1 = blocking
    BY NamingGrows DEF a
  <2> HIDE DEF aliasing, blocking, aliasing1, blocking1
  <2>4. actions[n+1] = a
    BY DEF a
  <2>5. /\ k \in DOMAIN after.aliases <=> AliasSaid(actions, aliasing1)
        /\ k \in DOMAIN after.aliases => after.aliases[k] = actions[Max(aliasing1)].to
    <3>1. CASE ~a.undone /\ a.op \in AliasOps /\ a.key = k
      BY <1>1, <2>2, <2>4, <3>1 DEF AliasSaid, AliasOps
    <3>2. CASE ~ (~a.undone /\ a.op \in AliasOps /\ a.key = k)
      <4>1. aliasing1 = aliasing
        BY <2>2, <3>2
      <4>2. k \in DOMAIN after.aliases <=> k \in DOMAIN rules.aliases
        BY <1>1, <3>2 DEF AliasOps
      <4>3. k \in DOMAIN after.aliases => after.aliases[k] = rules.aliases[k]
        BY <1>1, <3>2, <4>2 DEF AliasOps
      <4> QED
        BY <2>1, <4>1, <4>2, <4>3
    <3> QED
      BY <3>1, <3>2
  <2>6. k \in after.blocked <=> BlockSaid(actions, blocking1)
    <3>1. CASE ~a.undone /\ a.op \in BlockOps /\ a.key = k
      BY <1>1, <2>3, <2>4, <3>1 DEF BlockSaid, BlockOps
    <3>2. CASE ~ (~a.undone /\ a.op \in BlockOps /\ a.key = k)
      <4>1. blocking1 = blocking
        BY <2>3, <3>2
      <4>2. k \in after.blocked <=> k \in rules.blocked
        BY <1>1, <3>2 DEF BlockOps
      <4> QED
        BY <2>1, <4>1, <4>2
    <3> QED
      BY <3>1, <3>2
  <2> QED
    BY <2>5, <2>6 DEF aliasing1, blocking1
<1> QED
  BY <1>2 DEF RulesAreThoseUpto, after, a

(* A replay of the log says of each key what its newest live actions say.  *)
LEMMA ReplayedRulesAreTheFold ==
  ASSUME NEW actions \in Seq(Actions)
  PROVE  ReplayedRules(actions) \in RuleState /\ RulesAreTheFold(ReplayedRules(actions), actions)
<1> DEFINE none == [aliases |-> NoRows, blocked |-> {}]
           Is(f) == f = [n \in 0..Len(actions) |->
                           IF n = 0 THEN none ELSE RulesAfter(f[n-1], actions[n])]
           after == CHOOSE f : Is(f)
<1>0. Len(actions) \in Nat /\ \A n \in 1..Len(actions) : actions[n] \in Actions
  OBVIOUS
<1>1. none \in RuleState /\ DOMAIN none.aliases = {} /\ none.blocked = {}
  <2>1. DOMAIN NoRows = {} /\ NoRows \in [{} -> Keys]
    BY DEF NoRows
  <2> QED
    BY <2>1, RuleStateParts
<1>2. \A n \in 1..Len(actions), rules \in RuleState : RulesAfter(rules, actions[n]) \in RuleState
  BY <1>0, OneRule
<1>3. ReplayedRules(actions) = after[Len(actions)]
  BY DEF ReplayedRules
<1> HIDE DEF none
<1>4. \E f : Is(f)
  <2> DEFINE step == [n \in 1..Len(actions) |-> [rules \in RuleState |-> RulesAfter(rules, actions[n])]]
  <2>1. step \in [1..Len(actions) -> [RuleState -> RuleState]]
    BY <1>2
  <2>2. PICK f : IsRecursion(f, Len(actions), RuleState, none, step)
    <3> HIDE DEF step
    <3> QED
      BY <1>0, <1>1, <2>1, Recursion
  <2>3. ASSUME NEW n \in 1..Len(actions)
        PROVE  step[n][f[n-1]] = RulesAfter(f[n-1], actions[n])
    <3>1. f[n-1] \in RuleState
      BY <1>0, <2>2 DEF IsRecursion
    <3> QED
      BY <3>1
  <2> HIDE DEF step
  <2>4. ASSUME NEW n \in 0..Len(actions)
        PROVE  f[n] = IF n = 0 THEN none ELSE RulesAfter(f[n-1], actions[n])
    <3>1. f[n] = IF n = 0 THEN none ELSE step[n][f[n-1]]
      BY <2>2 DEF IsRecursion
    <3>2. n # 0 => n \in 1..Len(actions)
      BY <1>0
    <3> QED
      BY <2>3, <3>1, <3>2
  <2>5. f = [n \in 0..Len(actions) |-> f[n]]
    BY <2>2 DEF IsRecursion
  <2>6. Is(f)
    BY <2>4, <2>5
  <2> QED
    BY <2>6
<1>5. Is(after)
  BY <1>4
<1> HIDE DEF after
<1> DEFINE Fine == {n \in Nat : after[n] \in RuleState /\ RulesAreThoseUpto(after[n], actions, n)}
<1>6. 0 \in Fine
  <2>1. after[0] = none
    BY <1>0, <1>5
  <2>2. \A ops, k : NamingUpto(actions, ops, k, 0) = {}
    BY DEF NamingUpto, Naming
  <2>3. RulesAreThoseUpto(none, actions, 0)
    BY <1>1, <2>2 DEF RulesAreThoseUpto, AliasSaid, BlockSaid
  <2> QED
    BY <1>1, <2>1, <2>3
<1>7. ASSUME NEW n \in 0..Len(actions)-1, n \in Fine PROVE n + 1 \in Fine
  <2>1. n + 1 \in 1..Len(actions) /\ (n + 1) - 1 = n /\ n + 1 \in Nat
    BY <1>0
  <2>2. after[n+1] = RulesAfter(after[n], actions[n+1])
    BY <1>0, <1>5, <2>1
  <2>3. after[n+1] \in RuleState
    BY <1>2, <1>7, <2>1, <2>2
  <2>4. RulesAreThoseUpto(after[n+1], actions, n+1)
    BY <1>7, <2>2, OneMoreRule
  <2> QED
    BY <2>1, <2>3, <2>4
<1>8. \A n \in 0..Len(actions) : n \in Fine
  <2> HIDE DEF Fine
  <2> QED
    BY <1>0, <1>6, <1>7, InductionUpto
<1>9. after[Len(actions)] \in RuleState /\ RulesAreThoseUpto(after[Len(actions)], actions, Len(actions))
  BY <1>0, <1>8
<1>10. \A ops, k : NamingUpto(actions, ops, k, Len(actions)) = Naming(actions, ops, k)
  BY <1>0 DEF NamingUpto, Naming
<1> QED
  BY <1>3, <1>9, <1>10 DEF RulesAreThoseUpto, RulesAreTheFold

(***************************************************************************)
(* The rules of the store, refolded for the keys some actions name.        *)
(***************************************************************************)

RulesNow == [aliases |-> aliases, blocked |-> blocked]

(* `after` differs from `before` in the actions `ids` only: new ones, or   *)
(* ones that were undone.                                                  *)
DifferAt(before, after, ids) ==
  /\ before \in Seq(Actions) /\ after \in Seq(Actions)
  /\ ids \subseteq DOMAIN after /\ DOMAIN before \subseteq DOMAIN after
  /\ \A i \in DOMAIN after \ ids : i \in DOMAIN before /\ after[i] = before[i]
  /\ \A i \in DOMAIN before : after[i].op = before[i].op /\ after[i].key = before[i].key

LEMMA NamingKept ==
  ASSUME NEW before, NEW after, NEW ids, DifferAt(before, after, ids), NEW ops, NEW k,
         \A i \in ids : ~ (after[i].op \in ops /\ after[i].key = k)
  PROVE  /\ Naming(before, ops, k) = Naming(after, ops, k)
         /\ Naming(after, ops, k) # {} =>
              after[Max(Naming(after, ops, k))] = before[Max(Naming(after, ops, k))]
<1>1. Naming(after, ops, k) \cap ids = {} /\ Naming(before, ops, k) \cap ids = {}
  BY DEF DifferAt, Naming
<1>2. Naming(before, ops, k) = Naming(after, ops, k)
  BY <1>1 DEF DifferAt, Naming
<1>3. ASSUME Naming(after, ops, k) # {}
      PROVE  after[Max(Naming(after, ops, k))] = before[Max(Naming(after, ops, k))]
  <2>1. Naming(after, ops, k) \in SUBSET DOMAIN after
    BY DEF Naming
  <2>2. Max(Naming(after, ops, k)) \in Naming(after, ops, k)
    BY <1>3, <2>1, MaxOfPositions DEF DifferAt
  <2> QED
    BY <1>1, <2>1, <2>2 DEF DifferAt
<1> QED
  BY <1>2, <1>3

LEMMA NamingAction ==
  ASSUME NEW actions \in Seq(Actions), NEW ops, NEW k, Naming(actions, ops, k) # {}
  PROVE  LET i == Max(Naming(actions, ops, k)) IN
         i \in DOMAIN actions /\ actions[i] \in Actions /\ actions[i].op \in ops /\ actions[i].key = k
<1>1. Naming(actions, ops, k) \in SUBSET DOMAIN actions
  BY DEF Naming
<1>2. Max(Naming(actions, ops, k)) \in Naming(actions, ops, k)
  BY <1>1, MaxOfPositions
<1> QED
  BY <1>1, <1>2 DEF Naming

LEMMA RefoldKeepsRules ==
  ASSUME NEW actions, NEW ids, DifferAt(ruleLog, actions, ids), RecomputeRules(actions, ids),
         RulesNow \in RuleState, RulesAreTheFold(RulesNow, ruleLog)
  PROVE  RulesNow' \in RuleState /\ RulesAreTheFold(RulesNow', actions)
<1> DEFINE touched(ops) == {actions[i].key : i \in {j \in ids : actions[j].op \in ops}}
           aliasing == touched(AliasOps)
           blocking == touched(BlockOps)
           named == {k \in aliasing : AliasSaid(actions, Naming(actions, AliasOps, k))}
<1>1. /\ actions \in Seq(Actions) /\ ruleLog \in Seq(Actions) /\ ids \subseteq DOMAIN actions
      /\ aliases \in [DOMAIN aliases -> Keys] /\ DOMAIN aliases \subseteq Keys /\ blocked \subseteq Keys
  BY RuleStateParts DEF DifferAt, RulesNow
<1>2. /\ aliases' = [k \in (DOMAIN aliases \ aliasing) \cup named |->
                       IF k \in named THEN actions[Max(Naming(actions, AliasOps, k))].to ELSE aliases[k]]
      /\ blocked' = (blocked \ blocking)
                    \cup {k \in blocking : BlockSaid(actions, Naming(actions, BlockOps, k))}
  BY DEF RecomputeRules, RefoldAliases, RefoldBlocked, AliasOps, BlockOps, AliasSaid, BlockSaid, Naming
<1>3. aliasing \subseteq Keys /\ blocking \subseteq Keys
  <2>1. ASSUME NEW i \in ids, actions[i].op \in AliasOps \cup BlockOps PROVE actions[i].key \in Keys
    <3>1. actions[i] \in Actions
      BY <1>1
    <3> QED
      BY <2>1, <3>1 DEF Actions, RuleAction, NoteAction, AliasOps, BlockOps
  <2> QED
    BY <2>1
<1>4. ASSUME NEW k \in Keys
      PROVE  /\ k \in DOMAIN aliases' <=> AliasSaid(actions, Naming(actions, AliasOps, k))
             /\ k \in DOMAIN aliases' =>
                  aliases'[k] = actions[Max(Naming(actions, AliasOps, k))].to /\ aliases'[k] \in Keys
  <2>1. /\ k \in DOMAIN aliases <=> AliasSaid(ruleLog, Naming(ruleLog, AliasOps, k))
        /\ k \in DOMAIN aliases => aliases[k] = ruleLog[Max(Naming(ruleLog, AliasOps, k))].to
    BY DEF RulesAreTheFold, RulesNow
  <2>2. CASE k \in aliasing
    <3>1. k \in DOMAIN aliases' <=> AliasSaid(actions, Naming(actions, AliasOps, k))
      <4> HIDE DEF aliasing
      <4> QED
        BY <1>2, <2>2
    <3>2. ASSUME AliasSaid(actions, Naming(actions, AliasOps, k))
          PROVE  aliases'[k] = actions[Max(Naming(actions, AliasOps, k))].to /\ aliases'[k] \in Keys
      <4>1. aliases'[k] = actions[Max(Naming(actions, AliasOps, k))].to
        <5> HIDE DEF aliasing
        <5> QED
          BY <1>2, <2>2, <3>2
      <4>2. actions[Max(Naming(actions, AliasOps, k))] \in Actions
        BY <1>1, <3>2, NamingAction DEF AliasSaid
      <4>3. actions[Max(Naming(actions, AliasOps, k))].op = "alias"
        BY <3>2 DEF AliasSaid
      <4> QED
        BY <4>1, <4>2, <4>3 DEF Actions, RuleAction, NoteAction
    <3> QED
      BY <3>1, <3>2
  <2>3. CASE k \notin aliasing
    <3>1. \A i \in ids : ~ (actions[i].op \in AliasOps /\ actions[i].key = k)
      BY <2>3
    <3>2. /\ Naming(ruleLog, AliasOps, k) = Naming(actions, AliasOps, k)
          /\ Naming(actions, AliasOps, k) # {} =>
               actions[Max(Naming(actions, AliasOps, k))] = ruleLog[Max(Naming(actions, AliasOps, k))]
      BY <3>1, NamingKept
    <3>3. k \in DOMAIN aliases' <=> k \in DOMAIN aliases
      <4> HIDE DEF aliasing
      <4> QED
        BY <1>2, <2>3
    <3>4. k \in DOMAIN aliases' => aliases'[k] = aliases[k]
      <4> HIDE DEF aliasing
      <4> QED
        BY <1>2, <2>3
    <3>5. k \in DOMAIN aliases => aliases[k] \in Keys
      BY <1>1
    <3> QED
      BY <2>1, <3>2, <3>3, <3>4, <3>5 DEF AliasSaid
  <2> QED
    BY <2>2, <2>3
<1>5. ASSUME NEW k \in Keys
      PROVE  k \in blocked' <=> BlockSaid(actions, Naming(actions, BlockOps, k))
  <2>1. k \in blocked <=> BlockSaid(ruleLog, Naming(ruleLog, BlockOps, k))
    BY DEF RulesAreTheFold, RulesNow
  <2>2. CASE k \in blocking
    <3> HIDE DEF blocking
    <3> QED
      BY <1>2, <2>2
  <2>3. CASE k \notin blocking
    <3>1. \A i \in ids : ~ (actions[i].op \in BlockOps /\ actions[i].key = k)
      BY <2>3
    <3>2. /\ Naming(ruleLog, BlockOps, k) = Naming(actions, BlockOps, k)
          /\ Naming(actions, BlockOps, k) # {} =>
               actions[Max(Naming(actions, BlockOps, k))] = ruleLog[Max(Naming(actions, BlockOps, k))]
      BY <3>1, NamingKept
    <3>3. k \in blocked' <=> k \in blocked
      <4> HIDE DEF blocking
      <4> QED
        BY <1>2, <2>3
    <3> QED
      BY <2>1, <3>2, <3>3 DEF BlockSaid
  <2> QED
    BY <2>2, <2>3
<1>6. DOMAIN aliases' \subseteq Keys /\ blocked' \subseteq Keys
  <2> HIDE DEF aliasing, blocking
  <2> QED
    BY <1>1, <1>2, <1>3
<1>7. aliases' \in [DOMAIN aliases' -> Keys]
  <2>1. \A k \in DOMAIN aliases' : aliases'[k] \in Keys
    BY <1>4, <1>6
  <2>2. aliases' = [k \in DOMAIN aliases' |-> aliases'[k]]
    <3> HIDE DEF aliasing, named
    <3> QED
      BY <1>2
  <2> QED
    BY <2>1, <2>2
<1>8. RulesNow' \in RuleState
  BY <1>6, <1>7, RuleStateParts DEF RulesNow
<1>9. RulesAreTheFold(RulesNow', actions)
  BY <1>4, <1>5 DEF RulesAreTheFold, RulesNow
<1> QED
  BY <1>8, <1>9

(* Two rules that the same log gives to every key are the same. *)
LEMMA FoldIsUnique ==
  ASSUME NEW one \in RuleState, NEW other \in RuleState, NEW actions,
         RulesAreTheFold(one, actions), RulesAreTheFold(other, actions)
  PROVE  one = other
<1>1. /\ one = [aliases |-> one.aliases, blocked |-> one.blocked]
      /\ one.aliases \in [DOMAIN one.aliases -> Keys]
      /\ DOMAIN one.aliases \subseteq Keys /\ one.blocked \subseteq Keys
  BY RuleStateParts
<1>2. /\ other = [aliases |-> other.aliases, blocked |-> other.blocked]
      /\ other.aliases \in [DOMAIN other.aliases -> Keys]
      /\ DOMAIN other.aliases \subseteq Keys /\ other.blocked \subseteq Keys
  BY RuleStateParts
<1>3. \A k \in Keys : /\ k \in DOMAIN one.aliases <=> k \in DOMAIN other.aliases
                      /\ k \in DOMAIN one.aliases => one.aliases[k] = other.aliases[k]
                      /\ k \in one.blocked <=> k \in other.blocked
  BY DEF RulesAreTheFold
<1>4. DOMAIN one.aliases = DOMAIN other.aliases
  BY <1>1, <1>2, <1>3
<1>5. one.aliases = other.aliases
  BY <1>1, <1>2, <1>3, <1>4
<1>6. one.blocked = other.blocked
  BY <1>1, <1>2, <1>3
<1> QED
  BY <1>1, <1>2, <1>5, <1>6

(***************************************************************************)
(* The inductive invariant.                                                *)
(***************************************************************************)

SegmentsKept ==
  /\ DOMAIN segments = TextSessions
  /\ \A s \in TextSessions : DOMAIN segments[s] \subseteq DOMAIN mentions
  /\ \A s \in TextSessions \ call.touched : segments[s] = Segmented(mentions, s)

DerivedInv == MentionsOK(mentions) /\ CountsKept /\ SegmentsKept

CallInv ==
  /\ call \in [open : BOOLEAN, dirty : BOOLEAN, touched : SUBSET TextSessions]
  /\ Idle => call.touched = {}

RulesInv ==
  /\ ruleLog \in Seq(Actions)
  /\ RulesNow \in RuleState /\ RulesAreTheFold(RulesNow, ruleLog)
  /\ ChainsComeOfUndo

EntitiesInv == DerivedInv /\ CallInv /\ RulesInv

(* A session is segmented alike from mentions that are alike for its turns.*)
LEMMA SegmentedAlike ==
  ASSUME NEW one, NEW other, NEW s,
         \A u : SessionOfText[u] = s => (u \in DOMAIN one <=> u \in DOMAIN other),
         \A u \in DOMAIN one : SessionOfText[u] = s => one[u] = other[u]
  PROVE  Segmented(one, s) = Segmented(other, s)
<1>0. /\ DOMAIN Segmented(one, s) = {u \in DOMAIN one : SessionOfText[u] = s}
      /\ DOMAIN Segmented(other, s) = {u \in DOMAIN other : SessionOfText[u] = s}
      /\ \A t \in DOMAIN Segmented(one, s) : Segmented(one, s)[t] = KeysOf(one[t])
      /\ \A t \in DOMAIN Segmented(other, s) : Segmented(other, s)[t] = KeysOf(other[t])
  BY DEF Segmented
<1>1. DOMAIN Segmented(one, s) = DOMAIN Segmented(other, s)
  BY <1>0
<1>2. \A t \in DOMAIN Segmented(one, s) : Segmented(one, s)[t] = Segmented(other, s)[t]
  <2>1. ASSUME NEW t \in DOMAIN Segmented(one, s)
        PROVE  Segmented(one, s)[t] = Segmented(other, s)[t]
    <3>1. t \in DOMAIN one /\ SessionOfText[t] = s /\ one[t] = other[t]
      BY <1>0
    <3> QED
      BY <1>0, <1>1, <3>1
  <2> QED
    BY <2>1
<1>3. /\ Segmented(one, s) = [t \in DOMAIN Segmented(one, s) |-> Segmented(one, s)[t]]
      /\ Segmented(other, s) = [t \in DOMAIN Segmented(other, s) |-> Segmented(other, s)[t]]
  BY DEF Segmented
<1> QED
  BY <1>1, <1>2, <1>3

(* resegment, of sessions that include those whose turns have changed.     *)
LEMMA ResegmentKeeps ==
  ASSUME NEW ss, Resegment(ss),
         \A s \in TextSessions \ (ss \cup call'.touched) : segments[s] = Segmented(mentions', s),
         \A s \in call'.touched \ ss : DOMAIN segments[s] \subseteq DOMAIN mentions'
  PROVE  SegmentsKept'
<1>1. /\ DOMAIN segments' = TextSessions
      /\ \A s \in TextSessions :
           segments'[s] = IF s \in ss THEN Segmented(mentions', s) ELSE segments[s]
  BY DEF Resegment
<1>2. \A s : DOMAIN Segmented(mentions', s) \subseteq DOMAIN mentions'
  BY DEF Segmented
<1>3. \A s \in TextSessions : DOMAIN segments'[s] \subseteq DOMAIN mentions'
  BY <1>1, <1>2
<1>4. \A s \in TextSessions \ call'.touched : segments'[s] = Segmented(mentions', s)
  BY <1>1
<1> QED
  BY <1>1, <1>3, <1>4 DEF SegmentsKept

LEMMA RuledMentions ==
  ASSUME NEW rules \in RuleState, NEW bars, NEW t \in Texts
  PROVE  Ruled(rules.aliases, bars, Extracted[t]) \in Seq(Mention)
<1>1. Extracted[t] \in Seq(Mention)
  BY TurnsAssumption DEF Mention
<1>2. rules.aliases \in [DOMAIN rules.aliases -> Keys]
  BY RuleStateParts
<1> QED
  BY <1>1, <1>2, RuledType

LEMMA RederiveKeeps ==
  ASSUME MentionsOK(mentions), NEW ts \in SUBSET DOMAIN mentions, RulesNow' \in RuleState, Rederive(ts)
  PROVE  DerivedInv'
<1>1. mentions' = [t \in ts |-> Ruled(aliases', blocked', Extracted[t])] /\ DOMAIN mentions' = ts
  BY DEF Rederive
<1>2. ts \subseteq Texts /\ IsFiniteSet(ts)
  BY FS_Subset DEF MentionsOK
<1>3. \A t \in ts : Ruled(aliases', blocked', Extracted[t]) \in Seq(Mention)
  <2>1. ASSUME NEW t \in ts PROVE Ruled(RulesNow'.aliases, blocked', Extracted[t]) \in Seq(Mention)
    BY <1>2, RuledMentions
  <2> QED
    BY <2>1 DEF RulesNow
<1>4. MentionsOK(mentions')
  BY <1>1, <1>2, <1>3 DEF MentionsOK
<1>5. CountsKept'
  BY <1>4, RebuildKeepsCounts DEF Rederive
<1>6. SegmentsKept'
  <2>1. /\ DOMAIN segments' = TextSessions
        /\ \A s \in TextSessions : segments'[s] = Segmented(mentions', s)
    BY DEF Rederive, Resegment
  <2>2. \A s : DOMAIN Segmented(mentions', s) \subseteq DOMAIN mentions'
    BY DEF Segmented
  <2> QED
    BY <2>1, <2>2 DEF SegmentsKept
<1> QED
  BY <1>4, <1>5, <1>6 DEF DerivedInv

LEMMA InsertKeeps ==
  ASSUME DerivedInv, RulesInv, NEW t \in Texts, InsertOne(t)
  PROVE  /\ MentionsOK(mentions') /\ CountsKept'
         /\ DOMAIN mentions \subseteq DOMAIN mentions'
         /\ \A s : s # SessionOfText[t] => Segmented(mentions, s) = Segmented(mentions', s)
<1> DEFINE ms == Ruled(aliases, blocked, Extracted[t])
<1>1. ms \in Seq(Mention)
  <2>1. Ruled(RulesNow.aliases, blocked, Extracted[t]) \in Seq(Mention)
    BY RuledMentions DEF RulesInv
  <2> QED
    BY <2>1 DEF RulesNow
<1>2. t \notin DOMAIN mentions /\ mentions' = Plus(mentions, t, ms) /\ AddToAggregates(t)
  BY DEF InsertOne, Plus
<1> HIDE DEF ms
<1>3. MentionsOK(mentions')
  BY <1>1, <1>2, PlusOne DEF DerivedInv
<1>4. CountsKept'
  BY <1>1, <1>2, InsertKeepsCounts DEF DerivedInv
<1>5. /\ DOMAIN mentions' = DOMAIN mentions \cup {t}
      /\ \A u \in DOMAIN mentions : mentions'[u] = mentions[u]
  BY <1>2 DEF Plus
<1>6. ASSUME NEW s, s # SessionOfText[t] PROVE Segmented(mentions, s) = Segmented(mentions', s)
  BY <1>5, <1>6, SegmentedAlike
<1> QED
  BY <1>3, <1>4, <1>5, <1>6

LEMMA DeleteKeeps ==
  ASSUME DerivedInv, NEW gone \in SUBSET DOMAIN mentions, DeleteTurns(gone)
  PROVE  /\ MentionsOK(mentions')
         /\ DOMAIN mentions' = DOMAIN mentions \ gone
         /\ \A u \in DOMAIN mentions' : mentions'[u] = mentions[u]
         /\ \A s : (\A u \in gone : SessionOfText[u] # s)
                     => Segmented(mentions, s) = Segmented(mentions', s)
<1>1. /\ DOMAIN mentions' = DOMAIN mentions \ gone
      /\ \A u \in DOMAIN mentions' : mentions'[u] = mentions[u]
  BY DEF DeleteTurns, Restrict
<1>2. MentionsOK(mentions')
  <2>1. IsFiniteSet(DOMAIN mentions')
    BY <1>1, FS_Subset DEF DerivedInv, MentionsOK
  <2> QED
    BY <1>1, <2>1 DEF DerivedInv, MentionsOK
<1>3. ASSUME NEW s, \A u \in gone : SessionOfText[u] # s
      PROVE  Segmented(mentions, s) = Segmented(mentions', s)
  BY <1>1, <1>3, SegmentedAlike
<1> QED
  BY <1>1, <1>2, <1>3

(***************************************************************************)
(* The steps of the rules.                                                 *)
(***************************************************************************)

LEMMA AppendDiffers ==
  ASSUME ruleLog \in Seq(Actions), NEW a \in Actions
  PROVE  LET actions == Append(ruleLog, a) IN
         /\ DifferAt(ruleLog, actions, {Len(actions)})
         /\ Len(actions) = Len(ruleLog) + 1 /\ actions[Len(actions)] = a
         /\ \A i \in DOMAIN ruleLog : i \in DOMAIN actions /\ actions[i] = ruleLog[i]
<1> DEFINE actions == Append(ruleLog, a)
<1>1. /\ actions \in Seq(Actions)
      /\ Len(actions) = Len(ruleLog) + 1
      /\ DOMAIN actions = DOMAIN ruleLog \cup {Len(actions)}
      /\ actions[Len(actions)] = a
      /\ \A i \in DOMAIN ruleLog : actions[i] = ruleLog[i]
  OBVIOUS
<1> HIDE DEF actions
<1>2. DifferAt(ruleLog, actions, {Len(actions)})
  BY <1>1 DEF DifferAt
<1> QED
  BY <1>1, <1>2 DEF actions

(* A new action does to the rules what a replay makes of it. *)
LEMMA AppliedRule ==
  ASSUME RulesInv, NEW a \in RuleAction, NEW actions, actions = Append(ruleLog, a),
         RecomputeRules(actions, {Len(actions)})
  PROVE  /\ actions \in Seq(Actions)
         /\ RulesNow' \in RuleState /\ RulesAreTheFold(RulesNow', actions)
         /\ RulesNow' = RulesAfter(RulesNow, a)
<1>1. ruleLog \in Seq(Actions) /\ a \in Actions
  BY DEF RulesInv, Actions
<1>2. /\ DifferAt(ruleLog, actions, {Len(actions)})
      /\ Len(actions) = Len(ruleLog) + 1 /\ actions[Len(actions)] = a
      /\ \A i \in DOMAIN ruleLog : i \in DOMAIN actions /\ actions[i] = ruleLog[i]
  BY <1>1, AppendDiffers
<1>3. actions \in Seq(Actions) /\ RulesNow' \in RuleState /\ RulesAreTheFold(RulesNow', actions)
  BY <1>2, RefoldKeepsRules DEF RulesInv, DifferAt
<1> DEFINE n == Len(ruleLog)
<1>4. n \in 0..Len(actions)-1 /\ DOMAIN ruleLog = 1..n /\ n + 1 = Len(actions)
      /\ DOMAIN actions = 1..n+1
  BY <1>1, <1>2, <1>3
<1>5. \A ops, k : NamingUpto(actions, ops, k, n) = Naming(ruleLog, ops, k)
  BY <1>2, <1>4 DEF NamingUpto, Naming
<1>6. \A ops, k : NamingUpto(actions, ops, k, n+1) = Naming(actions, ops, k)
  BY <1>4 DEF NamingUpto, Naming
<1>7. \A ops, k : Naming(ruleLog, ops, k) # {} =>
        actions[Max(Naming(ruleLog, ops, k))] = ruleLog[Max(Naming(ruleLog, ops, k))]
  BY <1>1, <1>2, NamingAction
<1>8. RulesAreThoseUpto(RulesNow, actions, n)
  <2>1. ASSUME NEW k \in Keys
        PROVE  LET aliasing == NamingUpto(actions, AliasOps, k, n)
                   blocking == NamingUpto(actions, BlockOps, k, n) IN
               /\ k \in DOMAIN RulesNow.aliases <=> AliasSaid(actions, aliasing)
               /\ k \in DOMAIN RulesNow.aliases => RulesNow.aliases[k] = actions[Max(aliasing)].to
               /\ k \in RulesNow.blocked <=> BlockSaid(actions, blocking)
    <3> DEFINE aliasing == Naming(ruleLog, AliasOps, k)
               blocking == Naming(ruleLog, BlockOps, k)
    <3>1. /\ k \in DOMAIN RulesNow.aliases <=> AliasSaid(ruleLog, aliasing)
          /\ k \in DOMAIN RulesNow.aliases => RulesNow.aliases[k] = ruleLog[Max(aliasing)].to
          /\ k \in RulesNow.blocked <=> BlockSaid(ruleLog, blocking)
      BY DEF RulesInv, RulesAreTheFold
    <3>2. /\ aliasing # {} => actions[Max(aliasing)] = ruleLog[Max(aliasing)]
          /\ blocking # {} => actions[Max(blocking)] = ruleLog[Max(blocking)]
      BY <1>7
    <3>3. /\ NamingUpto(actions, AliasOps, k, n) = aliasing
          /\ NamingUpto(actions, BlockOps, k, n) = blocking
      BY <1>5
    <3> HIDE DEF aliasing, blocking
    <3> QED
      BY <3>1, <3>2, <3>3 DEF AliasSaid, BlockSaid
  <2> QED
    BY <2>1 DEF RulesAreThoseUpto
<1>9. RulesAreThoseUpto(RulesAfter(RulesNow, a), actions, n+1)
  BY <1>2, <1>3, <1>4, <1>8, OneMoreRule DEF RulesInv
<1>10. RulesAreTheFold(RulesAfter(RulesNow, a), actions)
  BY <1>6, <1>9 DEF RulesAreTheFold, RulesAreThoseUpto
<1>11. RulesAfter(RulesNow, a) \in RuleState
  BY <1>1, OneRule DEF RulesInv
<1> QED
  BY <1>3, <1>10, <1>11, FoldIsUnique

(* Nothing is undone after an action was appended that was not before. *)
LEMMA AppendUndoes ==
  ASSUME RulesInv, NEW a \in Actions, ruleLog' = Append(ruleLog, a),
         \A i \in DOMAIN ruleLog' : ~ruleLog'[i].undone
  PROVE  \A k \in DOMAIN aliases : aliases[k] \notin DOMAIN aliases
<1>1. \A i \in DOMAIN ruleLog : i \in DOMAIN ruleLog' /\ ruleLog'[i] = ruleLog[i]
  BY AppendDiffers DEF RulesInv
<1> QED
  BY <1>1 DEF RulesInv, ChainsComeOfUndo

LEMMA ApplyRuleStep ==
  ASSUME EntitiesInv, NEW op \in {"alias", "unalias", "block", "unblock"}, NEW key \in Keys, NEW to \in Keys,
         ApplyRule(op, key, to),
         op = "alias" => /\ key # to /\ {key, to} \cap DOMAIN aliases = {}
                         /\ \A k \in DOMAIN aliases : aliases[k] # key
  PROVE  EntitiesInv'
<1> DEFINE a == [op |-> op, key |-> key, to |-> to, undone |-> FALSE]
<1>1. a \in RuleAction
  BY DEF RuleAction
<1>2. ruleLog' = Append(ruleLog, a) /\ RecomputeRules(ruleLog', {Len(ruleLog')})
  BY DEF ApplyRule
<1>3. a.op = op /\ a.key = key /\ a.to = to /\ ~a.undone /\ a \in Actions
  BY <1>1 DEF Actions
<1> HIDE DEF a
<1>4. /\ ruleLog' \in Seq(Actions)
      /\ RulesNow' \in RuleState /\ RulesAreTheFold(RulesNow', ruleLog')
      /\ RulesNow' = RulesAfter(RulesNow, a)
  BY <1>1, <1>2, AppliedRule DEF EntitiesInv
<1>5. /\ op = "alias" =>
           /\ DOMAIN aliases' = DOMAIN aliases \cup {key}
           /\ aliases'[key] = to
           /\ \A k \in DOMAIN aliases \ {key} : aliases'[k] = aliases[k]
      /\ op = "unalias" =>
           /\ DOMAIN aliases' = DOMAIN aliases \ {key}
           /\ \A k \in DOMAIN aliases' : aliases'[k] = aliases[k]
      /\ op \in {"block", "unblock"} => aliases' = aliases
  <2>1. RulesNow \in RuleState
    BY DEF EntitiesInv, RulesInv
  <2>2. RulesNow.aliases = aliases /\ RulesNow'.aliases = aliases'
    BY DEF RulesNow
  <2> HIDE DEF RulesNow
  <2>3. LET after == RulesNow' IN
        /\ op = "alias" =>
             /\ DOMAIN after.aliases = DOMAIN RulesNow.aliases \cup {key}
             /\ after.aliases[key] = to
             /\ \A k \in DOMAIN RulesNow.aliases \ {key} : after.aliases[k] = RulesNow.aliases[k]
        /\ op = "unalias" =>
             /\ DOMAIN after.aliases = DOMAIN RulesNow.aliases \ {key}
             /\ \A k \in DOMAIN after.aliases : after.aliases[k] = RulesNow.aliases[k]
        /\ op = "block" => after.aliases = RulesNow.aliases
        /\ op = "unblock" => after.aliases = RulesNow.aliases
    BY <1>3, <1>4, <2>1, OneRule
  <2> QED
    BY <2>2, <2>3
<1>6. ChainsComeOfUndo'
  <2> SUFFICES ASSUME \A i \in DOMAIN ruleLog' : ~ruleLog'[i].undone
               PROVE  \A k \in DOMAIN aliases' : aliases'[k] \notin DOMAIN aliases'
    BY DEF ChainsComeOfUndo
  <2>1. \A k \in DOMAIN aliases : aliases[k] \notin DOMAIN aliases
    BY <1>2, <1>3, AppendUndoes DEF EntitiesInv
  <2>2. CASE op = "alias"
    BY <1>5, <2>1, <2>2
  <2>3. CASE op = "unalias"
    BY <1>5, <2>1, <2>3
  <2>4. CASE op \in {"block", "unblock"}
    BY <1>5, <2>1, <2>4
  <2> QED
    BY <2>2, <2>3, <2>4
<1>7. RulesInv'
  BY <1>4, <1>6 DEF RulesInv
<1>8. UNCHANGED derived /\ call.open /\ call' = [call EXCEPT !.dirty = TRUE]
  BY DEF ApplyRule
<1>9. CallInv' /\ call'.touched = call.touched
  BY <1>8 DEF EntitiesInv, CallInv, Idle
<1>10. DerivedInv'
  BY <1>8, <1>9 DEF EntitiesInv, DerivedInv, derived, CountsKept, SegmentsKept
<1> QED
  BY <1>7, <1>9, <1>10 DEF EntitiesInv

(***************************************************************************)
(* Every step keeps the invariant.                                         *)
(***************************************************************************)

LEMMA NothingStored ==
  /\ MentionsOK(NoRows)
  /\ \A key : TextsWith(NoRows, key) = {}
  /\ DOMAIN RebuiltStats(NoRows) = {}
  /\ RebuiltEdges(NoRows) = NoRows
  /\ \A s : Segmented(NoRows, s) = NoRows
<1>1. DOMAIN NoRows = {} /\ NoRows = [x \in {} |-> x]
  BY DEF NoRows
<1>2. MentionsOK(NoRows)
  BY <1>1, FS_EmptySet DEF MentionsOK
<1>3. \A key : TextsWith(NoRows, key) = {}
  BY <1>1 DEF TextsWith
<1>4. DOMAIN RebuiltStats(NoRows) = {}
  BY <1>3, StatsDomain
<1>5. RebuiltEdges(NoRows) = NoRows
  <2>1. DOMAIN RebuiltEdges(NoRows) = {}
    BY <1>1 DEF RebuiltEdges
  <2>2. RebuiltEdges(NoRows) = [pair \in DOMAIN RebuiltEdges(NoRows) |-> RebuiltEdges(NoRows)[pair]]
    BY DEF RebuiltEdges
  <2> QED
    BY <1>1, <2>1, <2>2
<1>6. \A s : Segmented(NoRows, s) = NoRows
  <2>1. ASSUME NEW s PROVE Segmented(NoRows, s) = NoRows
    <3>1. DOMAIN Segmented(NoRows, s) = {}
      BY <1>1 DEF Segmented
    <3>2. Segmented(NoRows, s) = [t \in DOMAIN Segmented(NoRows, s) |-> Segmented(NoRows, s)[t]]
      BY DEF Segmented
    <3> QED
      BY <1>1, <3>1, <3>2
  <2> QED
    BY <2>1
<1> QED
  BY <1>2, <1>3, <1>4, <1>5, <1>6

(* Empty tables and an empty log agree. *)
LEMMA EmptyTables ==
  ASSUME mentions = NoRows, stats = NoRows, edges = NoRows,
         segments = [s \in TextSessions |-> NoRows],
         aliases = NoRows, blocked = {}, ruleLog = <<>>
  PROVE  DerivedInv /\ RulesInv
<1>1. DOMAIN NoRows = {} /\ NoRows \in [{} -> Keys] /\ NoRows \in [{} -> Stat]
  BY DEF NoRows
<1>2. MentionsOK(mentions)
  BY NothingStored
<1>3. CountsKept
  BY <1>1, NothingStored DEF CountsKept
<1>4. SegmentsKept
  BY <1>1, NothingStored DEF SegmentsKept
<1>5. ruleLog \in Seq(Actions) /\ DOMAIN ruleLog = {}
  OBVIOUS
<1>6. RulesNow.aliases = NoRows /\ RulesNow.blocked = {} /\ RulesNow \in RuleState
  BY <1>1, RuleStateParts DEF RulesNow
<1>7. \A ops, k : Naming(ruleLog, ops, k) = {}
  BY <1>5 DEF Naming
<1>8. RulesAreTheFold(RulesNow, ruleLog)
  BY <1>1, <1>6, <1>7 DEF RulesAreTheFold, AliasSaid, BlockSaid
<1>9. ChainsComeOfUndo
  BY <1>1 DEF ChainsComeOfUndo
<1> QED
  BY <1>2, <1>3, <1>4, <1>5, <1>6, <1>8, <1>9 DEF DerivedInv, RulesInv

LEMMA InitEntities == EntitiesInit => EntitiesInv
<1> SUFFICES ASSUME EntitiesInit PROVE EntitiesInv
  OBVIOUS
<1>1. DerivedInv /\ RulesInv
  BY EmptyTables DEF EntitiesInit
<1>2. CallInv
  BY DEF EntitiesInit, CallInv, NoCall, Idle
<1> QED
  BY <1>1, <1>2 DEF EntitiesInv

LEMMA RulesUnchanged ==
  ASSUME RulesInv, UNCHANGED <<aliases, blocked, ruleLog>>
  PROVE  RulesInv' /\ RulesNow' = RulesNow
BY DEF RulesInv, RulesNow, ChainsComeOfUndo

LEMMA IngestStep ==
  ASSUME EntitiesInv, NEW t \in HostTexts, IngestText(t)
  PROVE  EntitiesInv'
<1>1. t \in Texts /\ InsertOne(t) /\ Idle /\ Resegment({SessionOfText[t]}) /\ call' = call
  BY DEF IngestText, Texts
<1>2. /\ MentionsOK(mentions') /\ CountsKept'
      /\ DOMAIN mentions \subseteq DOMAIN mentions'
      /\ \A s : s # SessionOfText[t] => Segmented(mentions, s) = Segmented(mentions', s)
  BY <1>1, InsertKeeps DEF EntitiesInv
<1>3. SegmentsKept'
  <2>1. call'.touched = {} /\ call.touched = {}
    BY <1>1 DEF EntitiesInv, CallInv
  <2>2. \A s \in TextSessions \ {SessionOfText[t]} : segments[s] = Segmented(mentions', s)
    BY <1>2, <2>1 DEF EntitiesInv, DerivedInv, SegmentsKept
  <2> QED
    BY <1>1, <2>1, <2>2, ResegmentKeeps
<1>4. RulesInv'
  BY RulesUnchanged DEF IngestText, EntitiesInv
<1>5. CallInv'
  BY <1>1 DEF EntitiesInv, CallInv, Idle
<1> QED
  BY <1>2, <1>3, <1>4, <1>5 DEF EntitiesInv, DerivedInv

LEMMA DropSessionStep ==
  ASSUME EntitiesInv, NEW s \in TextSessions, DropSession(s)
  PROVE  EntitiesInv'
<1> DEFINE gone == {t \in DOMAIN mentions : SessionOfText[t] = s}
<1>1. /\ Idle /\ DeleteTurns(gone) /\ RebuildAggregates /\ call' = call
      /\ segments' = [segments EXCEPT ![s] = NoRows]
  BY DEF DropSession
<1>2. gone \in SUBSET DOMAIN mentions /\ \A u \in gone : SessionOfText[u] = s
  OBVIOUS
<1>3. \A u \in DOMAIN mentions : SessionOfText[u] = s => u \in gone
  OBVIOUS
<1> HIDE DEF gone
<1>4. /\ MentionsOK(mentions')
      /\ DOMAIN mentions' = DOMAIN mentions \ gone
      /\ \A z : (\A u \in gone : SessionOfText[u] # z)
                  => Segmented(mentions, z) = Segmented(mentions', z)
  BY <1>1, <1>2, DeleteKeeps DEF EntitiesInv
<1>5. CountsKept'
  BY <1>1, <1>4, RebuildKeepsCounts
<1>6. SegmentsKept'
  <2>1. call.touched = {} /\ call'.touched = {}
    BY <1>1 DEF EntitiesInv, CallInv
  <2>2. Segmented(mentions', s) = NoRows
    <3>1. DOMAIN Segmented(mentions', s) = {}
      BY <1>3, <1>4 DEF Segmented
    <3>2. Segmented(mentions', s) = [t \in DOMAIN Segmented(mentions', s) |-> Segmented(mentions', s)[t]]
      BY DEF Segmented
    <3> QED
      BY <3>1, <3>2 DEF NoRows
  <2>3. ASSUME NEW z \in TextSessions, z # s PROVE segments[z] = Segmented(mentions', z)
    <3>1. segments[z] = Segmented(mentions, z)
      BY <2>1 DEF EntitiesInv, DerivedInv, SegmentsKept
    <3>2. \A u \in gone : SessionOfText[u] # z
      BY <1>2, <2>3
    <3> QED
      BY <1>4, <3>1, <3>2
  <2>4. DOMAIN segments = TextSessions
    BY DEF EntitiesInv, DerivedInv, SegmentsKept
  <2>5. DOMAIN segments' = TextSessions /\ \A z \in TextSessions : segments'[z] = Segmented(mentions', z)
    BY <1>1, <2>2, <2>3, <2>4
  <2>6. \A z : DOMAIN Segmented(mentions', z) \subseteq DOMAIN mentions'
    BY DEF Segmented
  <2> QED
    BY <2>5, <2>6 DEF SegmentsKept
<1>7. RulesInv'
  BY RulesUnchanged DEF DropSession, EntitiesInv
<1>8. CallInv'
  BY <1>1 DEF EntitiesInv, CallInv, Idle
<1> QED
  BY <1>4, <1>5, <1>6, <1>7, <1>8 DEF EntitiesInv, DerivedInv

LEMMA RebuildStep ==
  ASSUME EntitiesInv, Rebuild
  PROVE  EntitiesInv'
<1>1. RulesInv' /\ RulesNow' = RulesNow
  BY RulesUnchanged DEF Rebuild, EntitiesInv
<1>2. DerivedInv'
  <2>1. DOMAIN mentions \in SUBSET DOMAIN mentions
    OBVIOUS
  <2> QED
    BY <1>1, <2>1, RederiveKeeps DEF Rebuild, EntitiesInv, DerivedInv, RulesInv
<1>3. CallInv'
  BY DEF EntitiesInv, CallInv, Idle, Rebuild
<1> QED
  BY <1>1, <1>2, <1>3 DEF EntitiesInv

LEMMA ClearTablesStep ==
  ASSUME EntitiesInv, ClearTables
  PROVE  EntitiesInv'
<1>1. DerivedInv' /\ RulesInv'
  <2>1. DOMAIN NoRows = {} /\ NoRows \in [{} -> Keys] /\ NoRows \in [{} -> Stat]
    BY DEF NoRows
  <2>2. MentionsOK(mentions') /\ CountsKept' /\ SegmentsKept'
    BY <2>1, NothingStored DEF ClearTables, CountsKept, SegmentsKept
  <2>3. ruleLog' = <<>> /\ ruleLog' \in Seq(Actions) /\ DOMAIN ruleLog' = {}
    BY DEF ClearTables
  <2>4. RulesNow'.aliases = NoRows /\ RulesNow'.blocked = {} /\ RulesNow' \in RuleState
    BY <2>1, RuleStateParts DEF RulesNow, ClearTables
  <2>5. \A ops, k : Naming(ruleLog', ops, k) = {}
    BY <2>3 DEF Naming
  <2>6. RulesAreTheFold(RulesNow', ruleLog')
    BY <2>1, <2>4, <2>5 DEF RulesAreTheFold, AliasSaid, BlockSaid
  <2>7. ChainsComeOfUndo'
    BY <2>1 DEF ChainsComeOfUndo, ClearTables
  <2> QED
    BY <2>2, <2>3, <2>4, <2>6, <2>7 DEF DerivedInv, RulesInv
<1>2. CallInv'
  BY DEF EntitiesInv, CallInv, Idle, ClearTables
<1> QED
  BY <1>1, <1>2 DEF EntitiesInv

LEMMA BeginStep ==
  ASSUME EntitiesInv, Begin
  PROVE  EntitiesInv'
<1>1. /\ call \in [open : BOOLEAN, dirty : BOOLEAN, touched : SUBSET TextSessions]
      /\ call' = [call EXCEPT !.open = TRUE] /\ UNCHANGED derived
  BY DEF EntitiesInv, CallInv, Begin
<1>2. call' \in [open : BOOLEAN, dirty : BOOLEAN, touched : SUBSET TextSessions]
      /\ call'.open /\ call'.touched = call.touched
  BY <1>1
<1>3. CallInv'
  BY <1>2 DEF CallInv, Idle
<1>4. DerivedInv'
  BY <1>1, <1>2 DEF EntitiesInv, DerivedInv, derived, CountsKept, SegmentsKept
<1>5. RulesInv'
  BY RulesUnchanged DEF Begin, EntitiesInv
<1> QED
  BY <1>3, <1>4, <1>5 DEF EntitiesInv

(* A note takes no part in the rules. *)
LEMMA NoteIsNoRule ==
  ASSUME RulesInv, NEW actions, NEW ids, DifferAt(ruleLog, actions, ids),
         \A i \in ids : actions[i].op = "note"
  PROVE  RulesAreTheFold(RulesNow, actions)
<1>1. ASSUME NEW k \in Keys
      PROVE  LET aliasing == Naming(actions, AliasOps, k)
                 blocking == Naming(actions, BlockOps, k) IN
             /\ k \in DOMAIN RulesNow.aliases <=> AliasSaid(actions, aliasing)
             /\ k \in DOMAIN RulesNow.aliases => RulesNow.aliases[k] = actions[Max(aliasing)].to
             /\ k \in RulesNow.blocked <=> BlockSaid(actions, blocking)
  <2>1. /\ Naming(ruleLog, AliasOps, k) = Naming(actions, AliasOps, k)
        /\ Naming(actions, AliasOps, k) # {} =>
             actions[Max(Naming(actions, AliasOps, k))] = ruleLog[Max(Naming(actions, AliasOps, k))]
    <3>1. \A i \in ids : ~ (actions[i].op \in AliasOps /\ actions[i].key = k)
      BY DEF AliasOps
    <3> QED
      BY <3>1, NamingKept
  <2>2. /\ Naming(ruleLog, BlockOps, k) = Naming(actions, BlockOps, k)
        /\ Naming(actions, BlockOps, k) # {} =>
             actions[Max(Naming(actions, BlockOps, k))] = ruleLog[Max(Naming(actions, BlockOps, k))]
    <3>1. \A i \in ids : ~ (actions[i].op \in BlockOps /\ actions[i].key = k)
      BY DEF BlockOps
    <3> QED
      BY <3>1, NamingKept
  <2>3. /\ k \in DOMAIN RulesNow.aliases <=> AliasSaid(ruleLog, Naming(ruleLog, AliasOps, k))
        /\ k \in DOMAIN RulesNow.aliases =>
             RulesNow.aliases[k] = ruleLog[Max(Naming(ruleLog, AliasOps, k))].to
        /\ k \in RulesNow.blocked <=> BlockSaid(ruleLog, Naming(ruleLog, BlockOps, k))
    BY DEF RulesInv, RulesAreTheFold
  <2> QED
    BY <2>1, <2>2, <2>3 DEF AliasSaid, BlockSaid
<1> QED
  BY <1>1 DEF RulesAreTheFold

LEMMA InsertNoteStep ==
  ASSUME EntitiesInv, NEW n \in NoteTexts, InsertNote(n)
  PROVE  EntitiesInv'
<1> DEFINE a == [op |-> "note", key |-> n, undone |-> FALSE]
<1>1. /\ n \in Texts /\ InsertOne(n) /\ call.open
      /\ UNCHANGED <<aliases, blocked, segments>>
      /\ ruleLog' = Append(ruleLog, a)
      /\ call' = [call EXCEPT !.touched = @ \cup {SessionOfText[n]}]
  BY DEF InsertNote, Texts
<1>2. a \in NoteAction /\ a \in Actions
  BY DEF NoteAction, Actions
<1> HIDE DEF a
<1>3. /\ MentionsOK(mentions') /\ CountsKept'
      /\ DOMAIN mentions \subseteq DOMAIN mentions'
      /\ \A s : s # SessionOfText[n] => Segmented(mentions, s) = Segmented(mentions', s)
  BY <1>1, InsertKeeps DEF EntitiesInv
<1>4. /\ call' \in [open : BOOLEAN, dirty : BOOLEAN, touched : SUBSET TextSessions]
      /\ call'.open /\ call'.touched = call.touched \cup {SessionOfText[n]}
  <2>1. SessionOfText[n] \in TextSessions
    BY <1>1, TurnsAssumption
  <2> QED
    BY <1>1, <2>1 DEF EntitiesInv, CallInv
<1>5. CallInv'
  BY <1>4 DEF CallInv, Idle
<1>6. SegmentsKept'
  BY <1>1, <1>3, <1>4 DEF EntitiesInv, DerivedInv, SegmentsKept
<1>7. RulesInv'
  <2>1. RulesNow' = RulesNow
    BY <1>1 DEF RulesNow
  <2>2. ruleLog' \in Seq(Actions) /\ RulesAreTheFold(RulesNow, ruleLog')
    <3>1. ruleLog' \in Seq(Actions) /\ DifferAt(ruleLog, ruleLog', {Len(ruleLog')})
          /\ ruleLog'[Len(ruleLog')] = a
      BY <1>1, <1>2, AppendDiffers DEF EntitiesInv, RulesInv, DifferAt
    <3>2. \A i \in {Len(ruleLog')} : ruleLog'[i].op = "note"
      BY <1>2, <3>1 DEF NoteAction
    <3> QED
      BY <3>1, <3>2, NoteIsNoRule DEF EntitiesInv
  <2>3. ChainsComeOfUndo'
    BY <1>1, <1>2, AppendUndoes DEF EntitiesInv, ChainsComeOfUndo
  <2> QED
    BY <2>1, <2>2, <2>3 DEF EntitiesInv, RulesInv
<1> QED
  BY <1>3, <1>5, <1>6, <1>7 DEF EntitiesInv, DerivedInv

LEMMA CommitStep ==
  ASSUME EntitiesInv, Commit
  PROVE  EntitiesInv'
<1>1. RulesInv' /\ RulesNow' = RulesNow
  BY RulesUnchanged DEF Commit, EntitiesInv
<1>2. CallInv' /\ call'.touched = {}
  BY DEF CallInv, Commit, NoCall, Idle
<1>3. CASE call.dirty
  <2>1. Rederive(DOMAIN mentions) /\ DOMAIN mentions \in SUBSET DOMAIN mentions
    BY <1>3 DEF Commit
  <2>2. DerivedInv'
    BY <1>1, <2>1, RederiveKeeps DEF EntitiesInv, DerivedInv, RulesInv
  <2> QED
    BY <1>1, <1>2, <2>2 DEF EntitiesInv
<1>4. CASE ~call.dirty
  <2>1. UNCHANGED <<mentions, stats, edges>> /\ Resegment(call.touched)
    BY <1>4 DEF Commit
  <2>2. \A s \in TextSessions \ call.touched : segments[s] = Segmented(mentions', s)
    BY <2>1 DEF EntitiesInv, DerivedInv, SegmentsKept
  <2>3. SegmentsKept'
    BY <1>2, <2>1, <2>2, ResegmentKeeps
  <2>4. DerivedInv'
    BY <2>1, <2>3 DEF EntitiesInv, DerivedInv, CountsKept
  <2> QED
    BY <1>1, <1>2, <2>4 DEF EntitiesInv
<1> QED
  BY <1>3, <1>4

(* What is counted depends on the mentions of the turns only. *)
LEMMA CountedAlike ==
  ASSUME NEW one, NEW other, DOMAIN one = DOMAIN other,
         \A t \in DOMAIN one : one[t] = other[t]
  PROVE  /\ RebuiltEdges(one) = RebuiltEdges(other)
         /\ \A key : TextsWith(one, key) = TextsWith(other, key)
         /\ DOMAIN RebuiltStats(one) = DOMAIN RebuiltStats(other)
<1>1. \A pair : {t \in DOMAIN one : pair \in PairsOf(one[t])} = {t \in DOMAIN other : pair \in PairsOf(other[t])}
  OBVIOUS
<1>2. UNION {PairsOf(one[t]) : t \in DOMAIN one} = UNION {PairsOf(other[t]) : t \in DOMAIN other}
  OBVIOUS
<1>3. RebuiltEdges(one) = RebuiltEdges(other)
  BY <1>1, <1>2 DEF RebuiltEdges
<1>4. \A key : TextsWith(one, key) = TextsWith(other, key)
  BY DEF TextsWith
<1>5. DOMAIN RebuiltStats(one) = DOMAIN RebuiltStats(other)
  BY <1>4, StatsDomain
<1> QED
  BY <1>3, <1>4, <1>5

LEMMA UndoRulesStep ==
  ASSUME EntitiesInv, NEW ids \in SUBSET DOMAIN ruleLog, UndoRules(ids)
  PROVE  EntitiesInv'
<1> DEFINE actions == [i \in DOMAIN ruleLog |-> [ruleLog[i] EXCEPT !.undone = @ \/ i \in ids]]
           notes == {ruleLog[i].key : i \in {j \in ids : ruleLog[j].op = "note"}} \cap DOMAIN mentions
<1>1. /\ Idle /\ ids # {} /\ ruleLog' = actions /\ RecomputeRules(actions, ids) /\ call' = call
      /\ IF \E i \in ids : ruleLog[i].op # "note"
         THEN Rederive(DOMAIN mentions \ notes)
         ELSE /\ DeleteTurns(notes)
              /\ IF notes = {} THEN UNCHANGED <<stats, edges>> ELSE RebuildAggregates
              /\ Resegment({SessionOfText[n] : n \in notes})
  BY DEF UndoRules
<1>2. notes \in SUBSET DOMAIN mentions
  OBVIOUS
<1>3. ruleLog \in Seq(Actions) /\ DOMAIN ruleLog = 1..Len(ruleLog) /\ Len(ruleLog) \in Nat
  BY DEF EntitiesInv, RulesInv
<1>4. ASSUME NEW i \in DOMAIN ruleLog
      PROVE  /\ actions[i] \in Actions /\ actions[i].op = ruleLog[i].op /\ actions[i].key = ruleLog[i].key
             /\ i \notin ids => actions[i] = ruleLog[i]
             /\ i \in ids => actions[i].undone
  <2> DEFINE b == ruleLog[i]
             flag == b.undone \/ i \in ids
  <2>1. b \in Actions /\ b.undone \in BOOLEAN
    BY <1>3 DEF Actions, RuleAction, NoteAction
  <2>2. flag \in BOOLEAN /\ (i \in ids => flag) /\ (i \notin ids => (flag <=> b.undone))
    OBVIOUS
  <2>3. actions[i] = [b EXCEPT !.undone = flag]
    OBVIOUS
  <2> HIDE DEF actions, flag
  <2>4. /\ actions[i] \in Actions /\ actions[i].op = b.op /\ actions[i].key = b.key
        /\ actions[i].undone = flag
    <3>1. CASE b \in RuleAction
      BY <2>2, <2>3, <3>1 DEF RuleAction, Actions
    <3>2. CASE b \in NoteAction
      BY <2>2, <2>3, <3>2 DEF NoteAction, Actions
    <3> QED
      BY <2>1, <3>1, <3>2 DEF Actions
  <2>5. ASSUME i \notin ids PROVE actions[i] = b
    <3>1. flag = b.undone
      BY <2>1, <2>2, <2>5
    <3>2. CASE b \in RuleAction
      BY <2>3, <3>1, <3>2 DEF RuleAction
    <3>3. CASE b \in NoteAction
      BY <2>3, <3>1, <3>3 DEF NoteAction
    <3> QED
      BY <2>1, <3>2, <3>3 DEF Actions
  <2> QED
    BY <2>2, <2>4, <2>5
<1>5. DOMAIN actions = DOMAIN ruleLog /\ actions \in Seq(Actions)
  <2>1. DOMAIN actions = DOMAIN ruleLog /\ actions = [i \in 1..Len(ruleLog) |-> actions[i]]
    BY <1>3
  <2> HIDE DEF actions
  <2>2. \A i \in 1..Len(ruleLog) : actions[i] \in Actions
    BY <1>3, <1>4
  <2> QED
    BY <1>3, <2>1, <2>2
<1> HIDE DEF actions, notes
<1>6. RulesInv'
  <2>1. DifferAt(ruleLog, actions, ids)
    BY <1>3, <1>4, <1>5 DEF DifferAt
  <2>2. RulesNow' \in RuleState /\ RulesAreTheFold(RulesNow', actions)
    BY <1>1, <2>1, RefoldKeepsRules DEF EntitiesInv, RulesInv
  <2>3. \E i \in DOMAIN ruleLog' : ruleLog'[i].undone
    BY <1>1, <1>4, <1>5
  <2>4. ChainsComeOfUndo'
    BY <2>3 DEF ChainsComeOfUndo
  <2> QED
    BY <1>1, <1>5, <2>2, <2>4 DEF RulesInv
<1>7. CallInv' /\ call.touched = {} /\ call'.touched = {}
  BY <1>1 DEF EntitiesInv, CallInv, Idle
<1>8. CASE \E i \in ids : ruleLog[i].op # "note"
  <2>1. DOMAIN mentions \ notes \in SUBSET DOMAIN mentions
    OBVIOUS
  <2>2. DerivedInv'
    BY <1>1, <1>6, <1>8, <2>1, RederiveKeeps DEF EntitiesInv, DerivedInv, RulesInv
  <2> QED
    BY <1>6, <1>7, <2>2 DEF EntitiesInv
<1>9. CASE ~ \E i \in ids : ruleLog[i].op # "note"
  <2>1. /\ DeleteTurns(notes)
        /\ IF notes = {} THEN UNCHANGED <<stats, edges>> ELSE RebuildAggregates
        /\ Resegment({SessionOfText[n] : n \in notes})
    BY <1>1, <1>9
  <2>2. /\ MentionsOK(mentions')
        /\ DOMAIN mentions' = DOMAIN mentions \ notes
        /\ \A u \in DOMAIN mentions' : mentions'[u] = mentions[u]
        /\ \A s : (\A u \in notes : SessionOfText[u] # s)
                    => Segmented(mentions, s) = Segmented(mentions', s)
    BY <1>2, <2>1, DeleteKeeps DEF EntitiesInv
  <2>3. CountsKept'
    <3>1. CASE notes = {}
      <4>1. stats' = stats /\ edges' = edges
        BY <2>1, <3>1
      <4>2. /\ RebuiltEdges(mentions') = RebuiltEdges(mentions)
            /\ \A key : TextsWith(mentions', key) = TextsWith(mentions, key)
            /\ DOMAIN RebuiltStats(mentions') = DOMAIN RebuiltStats(mentions)
        BY <2>2, <3>1, CountedAlike
      <4> QED
        BY <4>1, <4>2 DEF EntitiesInv, DerivedInv, CountsKept
    <3>2. CASE notes # {}
      BY <2>1, <2>2, <3>2, RebuildKeepsCounts
    <3> QED
      BY <3>1, <3>2
  <2>4. SegmentsKept'
    <3> DEFINE ss == {SessionOfText[n] : n \in notes}
    <3>1. \A s \in TextSessions \ ss : segments[s] = Segmented(mentions', s)
      BY <1>7, <2>2 DEF EntitiesInv, DerivedInv, SegmentsKept
    <3> HIDE DEF ss
    <3>2. Resegment(ss)
      BY <2>1 DEF ss
    <3> QED
      BY <1>7, <3>1, <3>2, ResegmentKeeps
  <2> QED
    BY <1>6, <1>7, <2>2, <2>3, <2>4 DEF EntitiesInv, DerivedInv
<1> QED
  BY <1>8, <1>9

LEMMA StepEntities == EntitiesInv /\ [EntitiesNext]_entitiesVars => EntitiesInv'
<1> SUFFICES ASSUME EntitiesInv, [EntitiesNext]_entitiesVars
             PROVE  EntitiesInv'
  OBVIOUS
<1>1. ASSUME NEW t \in HostTexts, IngestText(t) PROVE EntitiesInv'
  BY <1>1, IngestStep
<1>2. ASSUME NEW s \in TextSessions, DropSession(s) PROVE EntitiesInv'
  BY <1>2, DropSessionStep
<1>3. CASE Rebuild
  BY <1>3, RebuildStep
<1>4. CASE ClearTables
  BY <1>4, ClearTablesStep
<1>5. CASE Begin
  BY <1>5, BeginStep
<1>6. ASSUME NEW k \in Keys, NEW l \in Keys, Alias(k, l) PROVE EntitiesInv'
  <2>1. /\ ApplyRule("alias", k, l)
        /\ k # l /\ {k, l} \cap DOMAIN aliases = {} /\ \A z \in DOMAIN aliases : aliases[z] # k
    BY <1>6 DEF Alias
  <2> QED
    BY <2>1, ApplyRuleStep
<1>7. ASSUME NEW k \in Keys, Unalias(k) PROVE EntitiesInv'
  <2>1. ApplyRule("unalias", k, aliases[k]) /\ k \in DOMAIN aliases
    BY <1>7 DEF Unalias
  <2>2. aliases[k] \in Keys
    <3>1. RulesNow.aliases \in [DOMAIN RulesNow.aliases -> Keys]
      BY RuleStateParts DEF EntitiesInv, RulesInv
    <3> QED
      BY <2>1, <3>1 DEF RulesNow
  <2> QED
    BY <2>1, <2>2, ApplyRuleStep
<1>8. ASSUME NEW k \in Keys, Block(k) PROVE EntitiesInv'
  BY <1>8, ApplyRuleStep DEF Block
<1>9. ASSUME NEW k \in Keys, Unblock(k) PROVE EntitiesInv'
  BY <1>9, ApplyRuleStep DEF Unblock
<1>10. ASSUME NEW n \in NoteTexts, InsertNote(n) PROVE EntitiesInv'
  BY <1>10, InsertNoteStep
<1>11. CASE Commit
  BY <1>11, CommitStep
<1>12. ASSUME NEW ids \in SUBSET DOMAIN ruleLog, UndoRules(ids) PROVE EntitiesInv'
  BY <1>12, UndoRulesStep
<1>13. CASE UNCHANGED entitiesVars
  <2>1. UNCHANGED <<mentions, stats, edges, segments, aliases, blocked, ruleLog, call>>
    BY <1>13 DEF entitiesVars
  <2>2. RulesInv'
    BY <2>1, RulesUnchanged DEF EntitiesInv
  <2>3. DerivedInv' /\ CallInv'
    BY <2>1 DEF EntitiesInv, DerivedInv, CallInv, CountsKept, SegmentsKept, Idle
  <2> QED
    BY <2>2, <2>3 DEF EntitiesInv
<1> QED
  BY <1>1, <1>2, <1>3, <1>4, <1>5, <1>6, <1>7, <1>8, <1>9, <1>10, <1>11, <1>12, <1>13 DEF EntitiesNext

LEMMA EntitiesInvariant == EntitiesSpec => []EntitiesInv
BY InitEntities, StepEntities, PTL DEF EntitiesSpec

(* The tables hold what their columns say, whatever the keys, the kinds,   *)
(* the turns and the bound on the log (the entity tables and the rules of  *)
(* store.rs and curation/mod.rs).                                          *)
THEOREM EntitiesTypes == EntitiesSpec => []EntitiesTypeOK
<1>1. EntitiesInv => EntitiesTypeOK
  <2> SUFFICES ASSUME EntitiesInv PROVE EntitiesTypeOK
    OBVIOUS
  <2>1. /\ DOMAIN mentions \subseteq Texts
        /\ \A t \in DOMAIN mentions : mentions[t] \in Seq([key : Keys, kind : EntityKinds])
    BY DEF EntitiesInv, DerivedInv, MentionsOK, Mention
  <2>2. DOMAIN stats \subseteq Keys /\ stats \in [DOMAIN stats -> Stat]
    <3>1. ASSUME NEW key \in DOMAIN stats PROVE key \in Keys
      <4>1. TextsWith(mentions, key) # {}
        BY StatsDomain DEF EntitiesInv, DerivedInv, CountsKept
      <4>2. PICK t \in DOMAIN mentions : key \in KeysOf(mentions[t])
        BY <4>1 DEF TextsWith
      <4>3. mentions[t] \in Seq(Mention)
        BY DEF EntitiesInv, DerivedInv, MentionsOK
      <4> QED
        BY <4>2, <4>3, KeysAreKeys
    <3> QED
      BY <3>1 DEF EntitiesInv, DerivedInv, CountsKept
  <2>3. edges \in [DOMAIN edges -> Nat \ {0}]
    BY RebuiltEdgesType DEF EntitiesInv, DerivedInv, CountsKept
  <2>4. \A s \in TextSessions : DOMAIN segments[s] \subseteq DOMAIN mentions
    BY DEF EntitiesInv, DerivedInv, SegmentsKept
  <2>5. DOMAIN aliases \subseteq Keys /\ aliases \in [DOMAIN aliases -> Keys] /\ blocked \subseteq Keys
    BY RuleStateParts DEF EntitiesInv, RulesInv, RulesNow
  <2>6. ruleLog \in Seq(RuleAction \cup NoteAction)
    BY DEF EntitiesInv, RulesInv, Actions
  <2>7. call \in [open : BOOLEAN, dirty : BOOLEAN, touched : SUBSET TextSessions]
    BY DEF EntitiesInv, CallInv
  <2> QED
    BY <2>1, <2>2, <2>3, <2>4, <2>5, <2>6, <2>7 DEF EntitiesTypeOK
<1> QED
  BY <1>1, EntitiesInvariant, PTL

(* "The incremental path must agree with this exactly" (store.rs:1313-     *)
(* 1315): what add_to_aggregates counted as turns came, in any order of    *)
(* ingests, deletes, rules, notes and undos, is what a rebuild counts, for *)
(* every number of turns and keys.  The kinds are excepted, of which the   *)
(* one path keeps the first (store.rs:1292), the other the least (:1321).  *)
THEOREM EntitiesCounts == EntitiesSpec => []CountsAsRebuilt
<1>1. EntitiesInv => CountsAsRebuilt
  <2> SUFFICES ASSUME EntitiesInv PROVE CountsAsRebuilt
    OBVIOUS
  <2>1. /\ stats \in [DOMAIN stats -> Stat]
        /\ edges = RebuiltEdges(mentions)
        /\ DOMAIN stats = DOMAIN RebuiltStats(mentions)
    BY DEF EntitiesInv, DerivedInv, CountsKept
  <2>2. ASSUME NEW k \in DOMAIN stats
        PROVE  stats[k] = [RebuiltStats(mentions)[k] EXCEPT !.kind = stats[k].kind]
    <3> DEFINE with == TextsWith(mentions, k)
    <3>1. /\ stats[k] \in Stat
          /\ stats[k].turns = Cardinality(with)
          /\ stats[k].first = Min(TimesOf(with))
          /\ stats[k].last = Max(TimesOf(with))
      BY <2>1 DEF EntitiesInv, DerivedInv, CountsKept
    <3>2. RebuiltStats(mentions)[k] = [kind |-> Min(KindsOf(mentions, k)), turns |-> Cardinality(with),
                                       first |-> Min(TimesOf(with)), last |-> Max(TimesOf(with))]
      BY <2>1, RebuiltStat
    <3> HIDE DEF with
    <3>3. stats[k] = [kind |-> stats[k].kind, turns |-> stats[k].turns,
                      first |-> stats[k].first, last |-> stats[k].last]
      BY <3>1 DEF Stat
    <3> QED
      BY <3>1, <3>2, <3>3
  <2> QED
    BY <2>1, <2>2 DEF CountsAsRebuilt
<1> QED
  BY <1>1, EntitiesInvariant, PTL

(* No write leaves a session segmented from turns, or from keys, it no     *)
(* longer has (resegment, after each of them).                             *)
THEOREM EntitiesSegments == EntitiesSpec => []SegmentsCurrent
<1>1. EntitiesInv => SegmentsCurrent
  BY DEF EntitiesInv, CallInv, DerivedInv, SegmentsKept, SegmentsCurrent
<1> QED
  BY <1>1, EntitiesInvariant, PTL

(* The rules, which an apply and an undo refold only for the keys their    *)
(* actions name, are those of a replay of the whole log, however long it   *)
(* is and whatever was undone in whatever order (mod.rs:10-14).            *)
THEOREM EntitiesFoldTheLog == EntitiesSpec => []RulesFoldTheLog
<1>1. EntitiesInv => RulesFoldTheLog
  <2> SUFFICES ASSUME EntitiesInv PROVE RulesFoldTheLog
    OBVIOUS
  <2>1. /\ ruleLog \in Seq(Actions) /\ RulesNow \in RuleState
        /\ RulesAreTheFold(RulesNow, ruleLog)
    BY DEF EntitiesInv, RulesInv
  <2>2. RulesNow = ReplayedRules(ruleLog)
    BY <2>1, ReplayedRulesAreTheFold, FoldIsUnique
  <2> QED
    BY <2>2 DEF RulesFoldTheLog, RulesNow
<1> QED
  BY <1>1, EntitiesInvariant, PTL

(* What apply checks is enough to keep aliases from leading to aliases,    *)
(* for any set of keys; only an undo can (store.rs:1218).                  *)
THEOREM EntitiesChains == EntitiesSpec => []ChainsComeOfUndo
BY EntitiesInvariant, PTL DEF EntitiesInv, RulesInv

(***************************************************************************)
(* What is stored is what the rules make of the texts, but in a call that  *)
(* has changed a rule and has yet to derive the tables.                    *)
(***************************************************************************)

StoredAsRuled == \A t \in DOMAIN mentions : mentions[t] = Ruled(aliases, blocked, Extracted[t])

StoredInv == (Idle => ~call.dirty) /\ (~call.dirty => StoredAsRuled)

LEMMA RederiveStores ==
  ASSUME NEW ts, Rederive(ts)
  PROVE  StoredAsRuled'
BY DEF Rederive, StoredAsRuled

LEMMA InsertStores ==
  ASSUME StoredAsRuled, NEW t, InsertOne(t), UNCHANGED <<aliases, blocked>>
  PROVE  StoredAsRuled'
BY DEF InsertOne, StoredAsRuled

LEMMA DeleteStores ==
  ASSUME StoredAsRuled, NEW gone, DeleteTurns(gone), UNCHANGED <<aliases, blocked>>
  PROVE  StoredAsRuled'
BY DEF DeleteTurns, Restrict, StoredAsRuled

(* Undoing notes alone leaves the rules alone.                             *)
LEMMA UndoneNotesKeepRules ==
  ASSUME EntitiesInv, NEW ids \in SUBSET DOMAIN ruleLog, UndoRules(ids),
         ~ \E i \in ids : ruleLog[i].op # "note"
  PROVE  UNCHANGED <<aliases, blocked>>
<1>1. EntitiesInv'
  BY UndoRulesStep
<1>2. /\ RulesNow \in RuleState /\ RulesNow' \in RuleState
      /\ RulesAreTheFold(RulesNow', ruleLog') /\ ruleLog \in Seq(Actions)
  BY <1>1 DEF EntitiesInv, RulesInv
<1>3. PICK actions : actions = [i \in DOMAIN ruleLog |-> [ruleLog[i] EXCEPT !.undone = @ \/ i \in ids]]
  OBVIOUS
<1>4. ruleLog' = actions
  BY <1>3 DEF UndoRules
<1>5. /\ DOMAIN actions = DOMAIN ruleLog
      /\ \A i \in DOMAIN ruleLog : /\ actions[i].op = ruleLog[i].op /\ actions[i].key = ruleLog[i].key
                                   /\ i \notin ids => actions[i] = ruleLog[i]
  <2>1. ASSUME NEW i \in DOMAIN ruleLog
        PROVE  /\ actions[i].op = ruleLog[i].op /\ actions[i].key = ruleLog[i].key
               /\ i \notin ids => actions[i] = ruleLog[i]
    <3> DEFINE b == ruleLog[i]
               flag == b.undone \/ i \in ids
    <3>1. b \in RuleAction \cup NoteAction /\ b.undone \in BOOLEAN
      BY <1>2 DEF Actions, RuleAction, NoteAction
    <3>2. flag \in BOOLEAN /\ (i \notin ids => flag = b.undone)
      BY <3>1
    <3>3. actions[i] = [b EXCEPT !.undone = flag]
      BY <1>3
    <3> HIDE DEF flag
    <3>4. actions[i].op = b.op /\ actions[i].key = b.key
      BY <3>1, <3>3 DEF RuleAction, NoteAction
    <3>5. i \notin ids => actions[i] = b
      BY <3>1, <3>2, <3>3 DEF RuleAction, NoteAction
    <3> QED
      BY <3>4, <3>5
  <2> QED
    BY <1>3, <2>1
<1>6. DifferAt(ruleLog, actions, ids) /\ \A i \in ids : actions[i].op = "note"
  <2>1. actions \in Seq(Actions)
    BY <1>1, <1>4 DEF EntitiesInv, RulesInv
  <2> QED
    BY <1>2, <1>5, <2>1 DEF DifferAt
<1>7. RulesAreTheFold(RulesNow, actions)
  BY <1>6, NoteIsNoRule DEF EntitiesInv
<1>8. RulesNow' = RulesNow
  BY <1>2, <1>4, <1>7, FoldIsUnique
<1> QED
  BY <1>8 DEF RulesNow

LEMMA StepStored ==
  ASSUME EntitiesInv, StoredInv, [EntitiesNext]_entitiesVars
  PROVE  StoredInv'
<1>0. call \in [open : BOOLEAN, dirty : BOOLEAN, touched : SUBSET TextSessions]
  BY DEF EntitiesInv, CallInv
<1>1. ASSUME NEW t \in HostTexts, IngestText(t) PROVE StoredInv'
  BY <1>1, InsertStores DEF IngestText, StoredInv, Idle
<1>2. ASSUME NEW s \in TextSessions, DropSession(s) PROVE StoredInv'
  <2>1. PICK gone : gone = {t \in DOMAIN mentions : SessionOfText[t] = s}
    OBVIOUS
  <2>2. DeleteTurns(gone) /\ UNCHANGED <<aliases, blocked, call>> /\ Idle
    BY <1>2, <2>1 DEF DropSession
  <2> QED
    BY <2>2, DeleteStores DEF StoredInv, Idle
<1>3. CASE Rebuild
  BY <1>3, RederiveStores DEF Rebuild, StoredInv, Idle
<1>4. CASE ClearTables
  BY <1>4 DEF ClearTables, StoredInv, StoredAsRuled, Idle, NoRows
<1>5. CASE Begin
  <2>1. call'.open /\ call'.dirty = call.dirty /\ UNCHANGED <<mentions, aliases, blocked>> /\ Idle
    BY <1>0, <1>5 DEF Begin, derived
  <2> QED
    BY <2>1 DEF StoredInv, StoredAsRuled, Idle
<1>6. ASSUME NEW op, NEW key, NEW to, ApplyRule(op, key, to) PROVE StoredInv'
  <2>1. call'.open /\ call'.dirty
    BY <1>0, <1>6 DEF ApplyRule
  <2> QED
    BY <2>1 DEF StoredInv, Idle
<1>7. ASSUME NEW n \in NoteTexts, InsertNote(n) PROVE StoredInv'
  <2>1. call'.open /\ call'.dirty = call.dirty
    BY <1>0, <1>7 DEF InsertNote
  <2>2. ~call.dirty => StoredAsRuled'
    BY <1>7, InsertStores DEF InsertNote, StoredInv
  <2> QED
    BY <2>1, <2>2 DEF StoredInv, Idle
<1>8. CASE Commit
  <2>1. ~call'.dirty
    BY <1>8 DEF Commit, NoCall
  <2>2. CASE call.dirty
    BY <1>8, <2>1, <2>2, RederiveStores DEF Commit, StoredInv
  <2>3. CASE ~call.dirty
    BY <1>8, <2>1, <2>3 DEF Commit, StoredInv, StoredAsRuled
  <2> QED
    BY <2>2, <2>3
<1>9. ASSUME NEW ids \in SUBSET DOMAIN ruleLog, UndoRules(ids) PROVE StoredInv'
  <2>1. PICK notes : notes = {ruleLog[i].key : i \in {j \in ids : ruleLog[j].op = "note"}} \cap DOMAIN mentions
    OBVIOUS
  <2>2. /\ Idle /\ call' = call
        /\ IF \E i \in ids : ruleLog[i].op # "note"
           THEN Rederive(DOMAIN mentions \ notes) ELSE DeleteTurns(notes)
    BY <1>9, <2>1 DEF UndoRules
  <2>3. StoredAsRuled'
    <3>1. CASE \E i \in ids : ruleLog[i].op # "note"
      BY <2>2, <3>1, RederiveStores
    <3>2. CASE ~ \E i \in ids : ruleLog[i].op # "note"
      <4>1. UNCHANGED <<aliases, blocked>>
        BY <1>9, <3>2, UndoneNotesKeepRules
      <4>2. StoredAsRuled /\ DeleteTurns(notes)
        BY <2>2, <3>2 DEF StoredInv
      <4> QED
        BY <4>1, <4>2, DeleteStores
    <3> QED
      BY <3>1, <3>2
  <2> QED
    BY <2>2, <2>3 DEF StoredInv, Idle
<1>10. CASE UNCHANGED entitiesVars
  BY <1>10 DEF entitiesVars, StoredInv, StoredAsRuled, Idle
<1> QED
  BY <1>1, <1>2, <1>3, <1>4, <1>5, <1>6, <1>7, <1>8, <1>9, <1>10
  DEF EntitiesNext, Alias, Unalias, Block, Unblock

LEMMA StoredInvariant == EntitiesSpec => []StoredInv
<1>1. EntitiesInit => StoredInv
  BY DEF EntitiesInit, StoredInv, StoredAsRuled, NoCall, NoRows
<1> QED
  BY <1>1, EntitiesInvariant, StepStored, PTL DEF EntitiesSpec

(* As many aliases as there are, the log has named.                        *)
LEMMA AliasesAreFinite ==
  ASSUME RulesInv
  PROVE  IsFiniteSet(DOMAIN aliases) /\ aliases \in [DOMAIN aliases -> Keys] /\ DOMAIN aliases \subseteq Keys
<1>1. aliases \in [DOMAIN aliases -> Keys] /\ DOMAIN aliases \subseteq Keys /\ RulesNow.aliases = aliases
  BY RuleStateParts DEF RulesInv, RulesNow
<1>2. DOMAIN ruleLog = 1..Len(ruleLog) /\ Len(ruleLog) \in Nat
  BY DEF RulesInv
<1> DEFINE ids == DOMAIN ruleLog
           keys == {ruleLog[i].key : i \in ids}
<1>3. IsFiniteSet(ids)
  BY <1>2, FS_Interval
<1>4. IsFiniteSet(keys)
  <2> DEFINE keyOf == [i \in ids |-> ruleLog[i].key]
  <2>1. keyOf \in Surjection(ids, keys)
    BY DEF Surjection
  <2> HIDE DEF ids, keys, keyOf
  <2> QED
    BY <1>3, <2>1, FS_Surjection
<1>5. DOMAIN aliases \subseteq keys
  <2> SUFFICES ASSUME NEW k \in DOMAIN aliases PROVE k \in keys
    OBVIOUS
  <2>1. AliasSaid(ruleLog, Naming(ruleLog, AliasOps, k))
    BY <1>1 DEF RulesInv, RulesAreTheFold
  <2> QED
    BY <2>1 DEF AliasSaid, Naming
<1> HIDE DEF keys
<1>6. IsFiniteSet(DOMAIN aliases)
  BY <1>4, <1>5, FS_Subset
<1> QED
  BY <1>1, <1>6

(* Between calls every text is stored as the rules of now have it, whatever*)
(* rules, notes, deletes and undos came, in any order: its rows are those  *)
(* of its mentions that the rules do not block, all of them and no others, *)
(* in their order, each under the key its aliases end at, where they end   *)
(* (store.rs:1198-1251).                                                   *)
THEOREM EntitiesStored == EntitiesSpec => []StoredUnderTheRules
<1>1. EntitiesInv /\ StoredInv => StoredUnderTheRules
  <2> SUFFICES ASSUME EntitiesInv, StoredInv, Idle PROVE StoredUnderTheRules
    BY DEF StoredUnderTheRules
  <2>1. IsFiniteSet(DOMAIN aliases) /\ aliases \in [DOMAIN aliases -> Keys]
    BY AliasesAreFinite DEF EntitiesInv
  <2> DEFINE under == [k \in Keys |-> Canonical(aliases, k)]
  <2>2. under \in [Keys -> Keys]
    BY <2>1, CanonicalType
  <2>3. ASSUME NEW k \in Keys PROVE under[k] \in EndsOf(k)
    <3>1. PICK l : l = Canonical(aliases, k)
      OBVIOUS
    <3>2. l \in Keys
      BY <2>1, <3>1, CanonicalType
    <3>3. LeadsTo(k, l)
      BY <2>1, <3>1, CanonicalIsOnTheWay DEF LeadsTo
    <3>4. l \in DOMAIN aliases => OnCycle(l) \/ Cardinality(DOMAIN aliases) > MaxHops
      BY <2>1, <3>1, CanonicalIsTheEnd DEF OnCycle
    <3>5. l \in EndsOf(k)
      BY <3>2, <3>3, <3>4 DEF EndsOf
    <3> QED
      BY <3>1, <3>5
  <2> DEFINE Left(f, text) ==
               {p \in DOMAIN text : {text[p].key, f[text[p].key]} \cap blocked = {}}
             Rows(f, ms, text, left) ==
               /\ Len(ms) = Cardinality(left)
               /\ \A p \in left : ms[Cardinality({q \in left : q <= p})]
                                  = [key |-> f[text[p].key], kind |-> text[p].kind]
             Right(f, t) == Rows(f, mentions[t], Extracted[t], Left(f, Extracted[t]))
  <2>5. ASSUME NEW t \in DOMAIN mentions PROVE Right(under, t)
    <3>1. PICK text : text = Extracted[t] /\ text \in Seq(Mention)
      BY TurnsAssumption DEF EntitiesInv, DerivedInv, MentionsOK, Mention
    <3>2. PICK left : left = Left(under, text)
      OBVIOUS
    <3>3. \A p \in DOMAIN text : text[p].key \in Keys /\ p \in Int /\ p <= Len(text)
      <4>1. \A p \in DOMAIN text : text[p] \in Mention /\ p \in Int /\ p <= Len(text)
        BY <3>1
      <4> QED
        BY <4>1 DEF Mention
    <3>4. PICK ms : ms = mentions[t] /\ ms = Ruled(aliases, blocked, text)
      BY <3>1 DEF StoredInv, StoredAsRuled
    <3> DEFINE Kept(n) == KeptUpto(aliases, blocked, text, n)
               Row(p) == RowOf(aliases, text[p])
    <3>5. left = Kept(Len(text))
      BY <3>2, <3>3 DEF KeptUpto
    <3>6. \A p \in left : {q \in left : q <= p} = Kept(p)
      BY <3>2, <3>3 DEF KeptUpto
    <3>7. \A p \in left : [key |-> under[text[p].key], kind |-> text[p].kind] = Row(p)
      <4>1. \A p \in left : text[p].key \in Keys
        BY <3>2, <3>3
      <4> QED
        BY <4>1 DEF RowOf
    <3>8. /\ Len(ms) = Cardinality(Kept(Len(text)))
          /\ \A p \in Kept(Len(text)) : ms[Cardinality(Kept(p))] = Row(p)
      BY <2>1, <3>1, <3>4, RuledRanks
    <3> HIDE DEF Kept, Row
    <3>9. Rows(under, ms, text, left)
      <4>1. \A p \in left : ms[Cardinality(Kept(p))] = Row(p)
        BY <3>5, <3>8
      <4>2. ASSUME NEW p \in left
            PROVE  ms[Cardinality({q \in left : q <= p})]
                     = [key |-> under[text[p].key], kind |-> text[p].kind]
        BY <3>6, <3>7, <4>1
      <4> QED
        BY <3>5, <3>8, <4>2
    <3> HIDE DEF Rows, Left
    <3> QED
      BY <3>1, <3>2, <3>4, <3>9
  <2>6. PICK f \in [Keys -> Keys] :
          /\ \A k \in Keys : f[k] \in [x \in Keys |-> EndsOf(x)][k]
          /\ \A t \in DOMAIN mentions : Right(f, t)
    <3> HIDE DEF Right, under
    <3> QED
      BY <2>2, <2>3, <2>5
  <2> QED
    BY <2>6 DEF StoredUnderTheRules
<1> QED
  BY <1>1, EntitiesInvariant, StoredInvariant, PTL

================================================================================
