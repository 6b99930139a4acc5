----------------------------- MODULE Sweep_proofs -----------------------------
(***************************************************************************)
(* Proofs about module Sweep: a page that says there is no more has passed *)
(* every turn that was due, and the cursors that runs name skip none.      *)
(*                                                                         *)
(* Every number a run holds (since, through, at) and every cursor that is  *)
(* in force is a mark: below it, every turn that exists has been settled   *)
(* as long as cursors were named, and every id was in use once, so what is *)
(* missing was deleted.  The last is what a clear needs: it lets the named *)
(* cursors begin anew while runs still hold marks from before it.          *)
(***************************************************************************)
EXTENDS Sweep, Induction, SequenceTheorems

(* Every id up to a mark is of a turn that exists, or settled. *)
Known(mark) ==
  \A id \in 1..mark, k \in Kinds : id \in DOMAIN saidAt \/ id \in settled[k]

SettledTo(k, mark) == \A id \in 1..mark : id \in settled[k]

(* What is due to a run is in the store, was old enough for the first page *)
(* of its kind, hence for every page, and lies after what the run has read.*)
DueOf(r) ==
  \A k \in Kinds : \A id \in r.due[k] :
    /\ id \in DOMAIN saidAt /\ id \notin hidden
    /\ saidAt[id] <= now - MinAge
    /\ r.more[k]
    /\ id > r.through[k]
    /\ r.phase \in {"scan", "ask"} =>
         saidAt[id] <= r.cutoff /\ (k = r.kind => id > r.at)

MarksOf(r) ==
  /\ Known(r.since) /\ Known(r.at) /\ \A k \in Kinds : Known(r.through[k])
  /\ named => /\ SettledTo(r.kind, r.at)
              /\ \A k \in Kinds : SettledTo(k, r.since) /\ SettledTo(k, r.through[k])

RunOK(r) ==
  /\ r.phase # "ask" => r.scanned < Budget /\ r.found < Limit
  /\ DueOf(r)
  /\ MarksOf(r)

EndsOK ==
  \A i \in DOMAIN ends :
    /\ Known(ends[i])
    /\ named => \A k \in Kinds : SettledTo(k, ends[i])

(* What a sweep passes over without looking is settled. *)
PassedOver ==
  /\ \A k \in Kinds : hidden \subseteq settled[k]
  /\ \A k \in Kinds : \A i, j \in DOMAIN saidAt : i < j /\ saidAt[i] > saidAt[j] => i \in settled[k]

SweepInv ==
  /\ SweepTypeOK
  /\ cursor = CursorOf(ends)
  /\ \A c \in Curators : RunOK(run[c])
  /\ EndsOK
  /\ PassedOver
  /\ \A id \in DOMAIN saidAt : Known(id)

(* It implies the two properties. *)
LEMMA SweepInvSuffices == SweepInv => LastPageIsTheLast /\ NamedCursorsSkipNothing
<1> SUFFICES ASSUME SweepInv PROVE LastPageIsTheLast /\ NamedCursorsSkipNothing
  OBVIOUS
<1>1. LastPageIsTheLast
  <2> SUFFICES ASSUME NEW c \in Curators, NEW k \in Kinds, ~run[c].more[k]
               PROVE  run[c].due[k] = {}
    BY DEF LastPageIsTheLast
  <2>1. DueOf(run[c])
    BY DEF SweepInv, RunOK
  <2> QED
    BY <2>1 DEF DueOf
<1>2. NamedCursorsSkipNothing
  <2> SUFFICES ASSUME named, NEW id \in DOMAIN saidAt, id <= cursor, NEW k \in Kinds
               PROVE  id \in settled[k]
    BY DEF NamedCursorsSkipNothing, Skipped
  <2>1. id \in Nat /\ id >= 1 /\ ends \in Seq(0..MaxTurns)
    BY BoundAssumption DEF SweepInv, SweepTypeOK, Ids
  <2>2. ends # <<>> /\ cursor = ends[Len(ends)] /\ Len(ends) \in DOMAIN ends
    BY <2>1 DEF SweepInv, CursorOf, Last
  <2>3. SettledTo(k, ends[Len(ends)])
    BY <2>2 DEF SweepInv, EndsOK
  <2>4. cursor \in Nat
    BY BoundAssumption DEF SweepInv, SweepTypeOK
  <2> QED
    BY <2>1, <2>2, <2>3, <2>4 DEF SettledTo
<1> QED
  BY <1>1, <1>2

LEMMA NoRunIsARun ==
  /\ NoRun \in Run /\ NoRun.since = 0 /\ NoRun.at = 0 /\ NoRun.phase = "off"
  /\ NoRun.scanned = 0 /\ NoRun.found = 0
  /\ \A k \in Kinds : NoRun.through[k] = -1 /\ NoRun.more[k] /\ NoRun.due[k] = {}
<1> USE PageAssumption, BoundAssumption DEF NoPage
<1>1. NoRun.kind \in Kinds
  BY DEF NoRun
<1> QED
  BY <1>1 DEF NoRun, Run

LEMMA SweepBegins == SweepInit => SweepInv
<1> SUFFICES ASSUME SweepInit PROVE SweepInv
  OBVIOUS
<1> USE PageAssumption, BoundAssumption
<1>2. DOMAIN saidAt = {} /\ saidAt \in [DOMAIN saidAt -> 0..MaxTime]
  BY DEF SweepInit
<1>3. SweepTypeOK
  BY NoRunIsARun, <1>2 DEF SweepInit, SweepTypeOK
<1>4. \A mark \in {0, -1} : Known(mark) /\ \A k : SettledTo(k, mark)
  BY DEF Known, SettledTo
<1>6. MarksOf(NoRun)
  BY <1>4, NoRunIsARun DEF MarksOf
<1>7. RunOK(NoRun)
  BY NoRunIsARun, <1>6 DEF RunOK, DueOf
<1>8. cursor = CursorOf(ends) /\ EndsOK /\ PassedOver
  BY <1>2 DEF SweepInit, CursorOf, EndsOK, PassedOver
<1>9. \A c \in Curators : RunOK(run[c])
  BY <1>7 DEF SweepInit
<1> QED
  BY <1>2, <1>3, <1>8, <1>9 DEF SweepInv

(***************************************************************************)
(* What the steps keep.                                                    *)
(***************************************************************************)

LEMMA IdsAreNumbered == IsFiniteSet(Ids) /\ Ids \subseteq Nat /\ \A id \in Ids : 1..id \subseteq Ids
<1> USE BoundAssumption
<1>1. IsFiniteSet(Ids)
  BY FS_Interval DEF Ids
<1> QED
  BY <1>1 DEF Ids

(* The store stays, no cursor is forgotten, and more may be settled: what a*)
(* run has stays right.                                                    *)
LEMMA RunsStayRight ==
  ASSUME NEW r, RunOK(r), r.kind \in Kinds,
         UNCHANGED <<saidAt, hidden>>, now \in Int, now' \in Int, now <= now',
         \A id \in DOMAIN saidAt : saidAt[id] \in Int,
         named' => named, \A k \in Kinds : settled[k] \subseteq settled'[k]
  PROVE  RunOK(r)'
<1> USE BoundAssumption
<1>1. (r.phase # "ask" => r.scanned < Budget /\ r.found < Limit)'
  BY DEF RunOK
<1>2. DueOf(r)'
  BY DEF RunOK, DueOf
<1>3. MarksOf(r)'
  BY DEF RunOK, MarksOf, Known, SettledTo
<1> QED
  BY <1>1, <1>2, <1>3 DEF RunOK

(* A step of a run that settles something and ends none. *)
LEMMA RunSteps ==
  ASSUME SweepInv, NEW c \in Curators, NEW r \in Run, run' = [run EXCEPT ![c] = r],
         UNCHANGED <<sweptStore, now>>, settled' \in [Kinds -> SUBSET Ids],
         \A k \in Kinds : settled[k] \subseteq settled'[k],
         RunOK(r)'
  PROVE  SweepInv'
<1> USE DEF sweptStore
<1>1. SweepTypeOK'
  BY DEF SweepInv, SweepTypeOK
<1>2. (cursor = CursorOf(ends))'
  BY DEF SweepInv, CursorOf
<1>3. ASSUME NEW d \in Curators PROVE RunOK(run[d])'
  <2>1. CASE d = c
    BY <1>3, <2>1 DEF SweepInv, SweepTypeOK
  <2>2. CASE d # c
    <3>1. run'[d] = run[d] /\ run[d] \in Run
      BY <1>3, <2>2 DEF SweepInv, SweepTypeOK
    <3>2. RunOK(run[d]) /\ run[d].kind \in Kinds
      BY <3>1 DEF SweepInv, Run
    <3>3. now \in Int /\ \A id \in DOMAIN saidAt : saidAt[id] \in Int
      BY BoundAssumption DEF SweepInv, SweepTypeOK
    <3>4. now <= now' /\ now' \in Int
      BY <3>3
    <3> QED
      BY <3>1, <3>2, <3>3, <3>4, RunsStayRight
  <2> QED
    BY <2>1, <2>2
<1>4. EndsOK'
  BY DEF SweepInv, EndsOK, Known, SettledTo
<1>5. PassedOver'
  BY DEF SweepInv, PassedOver
<1>6. (\A id \in DOMAIN saidAt : Known(id))'
  BY DEF SweepInv, Known
<1> QED
  BY <1>1, <1>2, <1>3, <1>4, <1>5, <1>6 DEF SweepInv

(***************************************************************************)
(* Pages.                                                                  *)
(***************************************************************************)

(* A run that is not in a page: what it knows is since, through and more.  *)
LEMMA BetweenPages ==
  ASSUME NEW r \in Run, r.phase \notin {"scan", "ask"}, r.at = 0, r.scanned = 0, r.found = 0,
         \A k \in Kinds : \A id \in r.due[k] :
           /\ id \in DOMAIN saidAt /\ id \notin hidden /\ saidAt[id] <= now - MinAge
           /\ r.more[k] /\ id > r.through[k],
         Known(r.since), \A k \in Kinds : Known(r.through[k]),
         named => \A k \in Kinds : SettledTo(k, r.since) /\ SettledTo(k, r.through[k])
  PROVE  RunOK(r)
<1>1. DueOf(r)
  BY DEF DueOf
<1>2. Known(r.at) /\ SettledTo(r.kind, r.at)
  BY DEF Known, SettledTo
<1>3. MarksOf(r)
  BY <1>2 DEF MarksOf
<1> QED
  BY <1>1, <1>3, PageAssumption DEF RunOK

LEMMA CursorIsAMark ==
  ASSUME SweepInv
  PROVE  Known(cursor) /\ (named => \A k \in Kinds : SettledTo(k, cursor))
<1>1. CASE ends = <<>>
  BY <1>1 DEF SweepInv, CursorOf, Known, SettledTo
<1>2. CASE ends # <<>>
  <2>1. ends \in Seq(0..MaxTurns)
    BY DEF SweepInv, SweepTypeOK
  <2>2. cursor = ends[Len(ends)] /\ Len(ends) \in DOMAIN ends
    BY <1>2, <2>1 DEF SweepInv, CursorOf, Last
  <2>3. Known(ends[Len(ends)]) /\ (named => \A k \in Kinds : SettledTo(k, ends[Len(ends)]))
    BY <2>2 DEF SweepInv, EndsOK
  <2> QED
    BY <2>2, <2>3
<1> QED
  BY <1>1, <1>2

(* A step of a run that settles nothing. *)
LEMMA RunStepsOnly ==
  ASSUME SweepInv, NEW c \in Curators, NEW r \in Run, run' = [run EXCEPT ![c] = r],
         UNCHANGED <<sweptStore, now, settled>>, RunOK(r)
  PROVE  SweepInv'
<1>1. RunOK(r)'
  BY DEF RunOK, DueOf, MarksOf, Known, SettledTo, sweptStore
<1>2. settled' \in [Kinds -> SUBSET Ids] /\ \A k \in Kinds : settled[k] \subseteq settled'[k]
  BY DEF SweepInv, SweepTypeOK
<1> QED
  BY <1>1, <1>2, RunSteps

LEMMA BeginRunKeeps ==
  ASSUME SweepInv, NEW c \in Curators, BeginRun(c)
  PROVE  SweepInv'
<1> USE PageAssumption, BoundAssumption
<1>1. cursor \in 0..MaxTurns
  BY DEF SweepInv, SweepTypeOK
<1>2. PICK r : r = [NoRun EXCEPT !.phase = "idle", !.since = cursor]
  OBVIOUS
<1>3. run' = [run EXCEPT ![c] = r] /\ UNCHANGED <<sweptStore, now, settled>>
  BY <1>2 DEF BeginRun
<1>4. /\ r \in Run /\ r.phase = "idle" /\ r.at = 0 /\ r.since = cursor /\ r.scanned = 0 /\ r.found = 0
      /\ \A k \in Kinds : r.through[k] = -1 /\ r.due[k] = {}
  BY <1>1, <1>2, NoRunIsARun DEF Run
<1>5. \A k \in Kinds : Known(r.through[k]) /\ SettledTo(k, r.through[k])
  BY <1>4 DEF Known, SettledTo
<1>6. RunOK(r)
  BY <1>4, <1>5, CursorIsAMark, BetweenPages
<1> QED
  BY <1>3, <1>4, <1>6, RunStepsOnly

(* The first page of a kind takes the cursor of the moment for its start,  *)
(* which is a mark as good as any, and what is due from there.             *)
LEMMA OpenPageKeeps ==
  ASSUME SweepInv, NEW c \in Curators, NEW k \in Kinds, OpenPage(c, k)
  PROVE  SweepInv'
<1> USE PageAssumption, BoundAssumption
<1> DEFINE first == run[c].through[k] = NoPage
           start == IF first THEN cursor ELSE run[c].through[k]
           due == IF first THEN EligibleAfter(cursor, Cutoff) ELSE run[c].due[k]
<1>1. PICK old \in Run : old = run[c]
  BY DEF SweepInv, SweepTypeOK
<1>2. RunOK(old) /\ old.phase = "idle" /\ old.more[k]
  BY <1>1 DEF SweepInv, OpenPage
<1>3. Cutoff \in -MinAge..MaxTime /\ Cutoff = now - MinAge
  BY DEF SweepInv, SweepTypeOK, Cutoff
<1>4. cursor \in 0..MaxTurns /\ DOMAIN saidAt \subseteq Ids
  BY DEF SweepInv, SweepTypeOK
<1>5. start \in 0..MaxTurns /\ due \subseteq Ids
  BY <1>1, <1>4 DEF Run, NoPage, EligibleAfter
<1>6. start >= old.through[k]
  BY <1>1, <1>4 DEF Run, NoPage
<1>7. \A id \in due : /\ id \in DOMAIN saidAt /\ id \notin hidden
                      /\ saidAt[id] <= now - MinAge /\ id > start
  <2>1. CASE first
    BY <1>3, <2>1 DEF EligibleAfter
  <2>2. CASE ~first
    BY <1>1, <1>2, <2>2 DEF RunOK, DueOf
  <2> QED
    BY <2>1, <2>2
<1>8. Known(start) /\ (named => SettledTo(k, start))
  BY <1>1, <1>2, CursorIsAMark DEF RunOK, MarksOf
<1>9. PICK r : r = [old EXCEPT !.phase = "scan", !.kind = k, !.cutoff = Cutoff, !.at = start,
                               !.due = [old.due EXCEPT ![k] = due]]
  OBVIOUS
<1>10. run' = [run EXCEPT ![c] = r] /\ UNCHANGED <<sweptStore, now, settled>>
  BY <1>1, <1>9 DEF OpenPage
<1> HIDE DEF first, start, due
<1>11. /\ r \in Run /\ r.phase = "scan" /\ r.kind = k /\ r.cutoff = Cutoff /\ r.at = start
       /\ r.since = old.since /\ r.through = old.through /\ r.more = old.more
       /\ r.due = [old.due EXCEPT ![k] = due]
       /\ r.scanned = old.scanned /\ r.found = old.found
  BY <1>3, <1>5, <1>9 DEF Run
<1>12. DueOf(r)
  <2> SUFFICES ASSUME NEW j \in Kinds, NEW id \in r.due[j]
               PROVE  /\ id \in DOMAIN saidAt /\ id \notin hidden /\ saidAt[id] <= now - MinAge
                      /\ r.more[j] /\ id > r.through[j]
                      /\ saidAt[id] <= r.cutoff /\ (j = r.kind => id > r.at)
    BY DEF DueOf
  <2>1. old.due \in [Kinds -> SUBSET Ids]
    BY DEF Run
  <2>2. CASE j = k
    <3>1. id \in due
      BY <1>11, <2>1, <2>2
    <3>2. id \in Int /\ start \in Int /\ old.through[k] \in Int
      BY <1>5, <3>1 DEF Ids, Run, NoPage
    <3>3. id > old.through[k]
      BY <1>6, <1>7, <3>1, <3>2
    <3> QED
      BY <1>2, <1>3, <1>7, <1>11, <2>2, <3>1, <3>3
  <2>3. CASE j # k
    <3>1. id \in old.due[j]
      BY <1>11, <2>1, <2>3
    <3> QED
      BY <1>2, <1>3, <1>11, <2>3, <3>1 DEF RunOK, DueOf
  <2> QED
    BY <2>2, <2>3
<1>13. MarksOf(r)
  BY <1>2, <1>8, <1>11 DEF RunOK, MarksOf
<1>14. RunOK(r)
  BY <1>2, <1>11, <1>12, <1>13 DEF RunOK
<1> QED
  BY <1>10, <1>11, <1>14, RunStepsOnly

(* The end of a page: what was read up to `at` is what the run has read. *)
LEMMA EndPageKeeps ==
  ASSUME SweepInv, NEW c \in Curators, NEW more \in BOOLEAN, run[c].phase \in {"scan", "ask"},
         EndPage(c, more), UNCHANGED <<sweptStore, now, settled>>,
         more \/ EligibleAfter(run[c].at, run[c].cutoff) = {}
  PROVE  SweepInv'
<1> USE PageAssumption, BoundAssumption
<1>1. PICK old \in Run : old = run[c]
  BY DEF SweepInv, SweepTypeOK
<1>2. RunOK(old)
  BY <1>1 DEF SweepInv
<1>3. PICK r : r = [NoRun EXCEPT !.phase = "idle", !.since = old.since, !.due = old.due,
                                 !.through = [old.through EXCEPT ![old.kind] = old.at],
                                 !.more = [old.more EXCEPT ![old.kind] = more]]
  OBVIOUS
<1>4. run' = [run EXCEPT ![c] = r]
  BY <1>1, <1>3 DEF EndPage
<1>5. /\ r.phase = "idle" /\ r.at = 0 /\ r.since = old.since /\ r.scanned = 0 /\ r.found = 0
      /\ r.due = old.due
      /\ r.through = [old.through EXCEPT ![old.kind] = old.at]
      /\ r.more = [old.more EXCEPT ![old.kind] = more]
  BY <1>3, NoRunIsARun DEF Run
<1>6. /\ old.kind \in Kinds /\ old.through \in [Kinds -> -1..MaxTurns] /\ old.at \in 0..MaxTurns
      /\ old.more \in [Kinds -> BOOLEAN] /\ old.due \in [Kinds -> SUBSET Ids]
      /\ old.since \in 0..MaxTurns
  BY <1>1 DEF Run, NoPage
<1>7. r \in Run
  <2>1. r.through \in [Kinds -> -1..MaxTurns]
    BY <1>5, <1>6
  <2>2. r.more \in [Kinds -> BOOLEAN]
    BY <1>5, <1>6
  <2> QED
    BY <1>3, <1>6, <2>1, <2>2, NoRunIsARun DEF Run, NoPage
<1>8. \A k \in Kinds : r.through[k] = IF k = old.kind THEN old.at ELSE old.through[k]
  BY <1>5, <1>6
<1>9. ASSUME NEW k \in Kinds, NEW id \in r.due[k]
      PROVE  /\ id \in DOMAIN saidAt /\ id \notin hidden /\ saidAt[id] <= now - MinAge
             /\ r.more[k] /\ id > r.through[k]
  <2>1. /\ id \in DOMAIN saidAt /\ id \notin hidden /\ saidAt[id] <= now - MinAge
        /\ old.more[k] /\ id > old.through[k] /\ saidAt[id] <= old.cutoff
        /\ k = old.kind => id > old.at
    BY <1>1, <1>2, <1>5, <1>9 DEF RunOK, DueOf
  <2>2. CASE k = old.kind
    <3>1. id \in EligibleAfter(run[c].at, run[c].cutoff)
      BY <1>1, <2>1, <2>2 DEF EligibleAfter
    <3>2. more = TRUE
      BY <3>1
    <3> QED
      BY <1>5, <1>6, <1>8, <2>1, <2>2, <3>2
  <2>3. CASE k # old.kind
    BY <1>5, <1>6, <1>8, <2>1, <2>3
  <2> QED
    BY <2>2, <2>3
<1>10. Known(r.since) /\ \A k \in Kinds : Known(r.through[k])
  BY <1>2, <1>5, <1>8 DEF RunOK, MarksOf
<1>11. named => \A k \in Kinds : SettledTo(k, r.since) /\ SettledTo(k, r.through[k])
  BY <1>2, <1>5, <1>8 DEF RunOK, MarksOf
<1>12. RunOK(r)
  BY <1>5, <1>7, <1>9, <1>10, <1>11, BetweenPages
<1> QED
  BY <1>4, <1>7, <1>12, RunStepsOnly

LEMMA AskMoreKeeps ==
  ASSUME SweepInv, NEW c \in Curators, AskMore(c)
  PROVE  SweepInv'
<1> DEFINE more == EligibleAfter(run[c].at, run[c].cutoff) # {}
<1>1. more \in BOOLEAN /\ (more \/ EligibleAfter(run[c].at, run[c].cutoff) = {})
  OBVIOUS
<1>2. run[c].phase \in {"scan", "ask"} /\ UNCHANGED <<sweptStore, now, settled>> /\ EndPage(c, more)
  BY DEF AskMore
<1> QED
  BY <1>1, <1>2, EndPageKeeps

(***************************************************************************)
(* Batches.                                                                *)
(***************************************************************************)

(* The least of a set: no more than asked for, some if there are any, and  *)
(* what is left is larger.                                                 *)
LEMMA LeastOfIds ==
  ASSUME NEW S \in SUBSET Nat, IsFiniteSet(S), NEW n \in Nat \ {0}
  PROVE  /\ Least(S, n) \subseteq S /\ IsFiniteSet(Least(S, n))
         /\ Cardinality(Least(S, n)) <= n
         /\ S # {} => Least(S, n) # {}
         /\ \A x \in S \ Least(S, n), j \in Least(S, n) : j < x
<1> DEFINE below(id) == {i \in S : i < id}
           L == Least(S, n)
<1>1. \A id : IsFiniteSet(below(id)) /\ Cardinality(below(id)) \in Nat
  BY FS_Subset, FS_CardinalityType
<1>2. L = {id \in S : Cardinality(below(id)) < n}
  BY DEF Least
<1>3. L \subseteq S /\ IsFiniteSet(L)
  BY <1>2, FS_Subset
<1> HIDE DEF L
<1>4. Cardinality(L) <= n
  <2>1. CASE L = {}
    BY <2>1, FS_EmptySet
  <2>2. CASE L # {}
    <3>1. PICK m \in L : \A x \in L : x <= m
      <4>1. L \in SUBSET Int
        BY <1>3
      <4> QED
        BY <1>3, <2>2, <4>1, MaxOfFinite
    <3>2. L \subseteq below(m) \cup {m}
      BY <1>3, <3>1
    <3>3. IsFiniteSet(below(m) \cup {m}) /\ Cardinality(below(m) \cup {m}) = Cardinality(below(m)) + 1
      <4>1. m \notin below(m)
        BY <1>3, <3>1
      <4> HIDE DEF below
      <4> QED
        BY <1>1, <4>1, FS_AddElement
    <3>4. Cardinality(L) <= Cardinality(below(m) \cup {m})
      BY <3>2, <3>3, FS_Subset
    <3>5. Cardinality(below(m)) < n /\ Cardinality(L) \in Nat /\ Cardinality(below(m)) \in Nat
      BY <1>1, <1>2, <1>3, <3>1, FS_CardinalityType
    <3> HIDE DEF below
    <3> QED
      BY <3>3, <3>4, <3>5
  <2> QED
    BY <2>1, <2>2
<1>5. S # {} => L # {}
  <2> SUFFICES ASSUME S # {} PROVE L # {}
    OBVIOUS
  <2>1. PICK least \in S : \A x \in S : least <= x
    BY LeastNatural
  <2>2. below(least) = {}
    <3>1. ASSUME NEW x \in S, x < least PROVE FALSE
      <4>1. least <= x /\ x \in Int /\ least \in Int
        BY <2>1, <3>1
      <4> QED
        BY <3>1, <4>1
    <3> QED
      BY <3>1
  <2>3. Cardinality(below(least)) = 0
    BY <2>2, FS_EmptySet
  <2> HIDE DEF below
  <2> QED
    BY <1>2, <2>1, <2>3
<1>6. ASSUME NEW x \in S \ L, NEW j \in L PROVE j < x
  <2> SUFFICES ASSUME ~ (j < x) PROVE FALSE
    OBVIOUS
  <2>0. x \in Int /\ j \in Int /\ x <= j
    BY <1>3, <1>6
  <2>1. below(x) \subseteq below(j)
    <3>1. ASSUME NEW i \in S, i < x PROVE i < j
      <4>1. i \in Int
        OBVIOUS
      <4> QED
        BY <2>0, <3>1, <4>1
    <3> QED
      BY <3>1
  <2>2. Cardinality(below(x)) <= Cardinality(below(j))
    <3> HIDE DEF below
    <3> QED
      BY <1>1, <2>1, FS_Subset
  <2>3. Cardinality(below(j)) < n /\ ~ (Cardinality(below(x)) < n)
    BY <1>2
  <2>4. Cardinality(below(j)) \in Nat /\ Cardinality(below(x)) \in Nat
    BY <1>1
  <2> HIDE DEF below
  <2> QED
    BY <2>2, <2>3, <2>4
<1>7. \A x \in S \ L, j \in L : j < x
  BY <1>6
<1> QED
  BY <1>3, <1>4, <1>5, <1>7 DEF L

(* Up to the first element at which a count is reached the count is no more*)
(* than that, if it was not reached before.                                *)
LEMMA CountedUpTo ==
  ASSUME NEW B \in SUBSET Nat, IsFiniteSet(B), NEW F \in SUBSET B,
         NEW n \in Nat, NEW most \in Nat, n < most, NEW last \in B,
         \A id \in B : id < last => ~ (n + Cardinality(F \cap {i \in B : i <= id}) >= most)
  PROVE  n + Cardinality(F \cap {i \in B : i <= last}) <= most
<1> DEFINE upTo(id) == F \cap {i \in B : i <= id}
<1> DEFINE before == {i \in B : i < last}
<1>0. last \in Nat /\ F \subseteq Nat
  OBVIOUS
<1>1. \A id : IsFiniteSet(upTo(id)) /\ Cardinality(upTo(id)) \in Nat
  BY FS_Subset, FS_CardinalityType
<1>2. CASE before = {}
  <2>1. upTo(last) \subseteq {last}
    <3>1. ASSUME NEW i \in F, i <= last, i # last PROVE FALSE
      <4>1. i \in before
        BY <1>0, <3>1
      <4> QED
        BY <1>2, <4>1
    <3> QED
      BY <3>1
  <2>2. Cardinality(upTo(last)) <= 1
    <3>1. IsFiniteSet({last}) /\ Cardinality({last}) = 1
      BY FS_Singleton
    <3> HIDE DEF upTo
    <3> QED
      BY <2>1, <3>1, FS_Subset
  <2>3. Cardinality(upTo(last)) \in Nat
    BY <1>1
  <2> QED
    BY <2>2, <2>3
<1>3. CASE before # {}
  <2>1. PICK prev \in before : \A x \in before : x <= prev
    <3>1. IsFiniteSet(before) /\ before \in SUBSET Int
      <4>1. before \subseteq B /\ B \subseteq Int
        OBVIOUS
      <4> HIDE DEF before
      <4> QED
        BY <4>1, FS_Subset
    <3> HIDE DEF before
    <3> QED
      BY <1>3, <3>1, MaxOfFinite
  <2>2. ~ (n + Cardinality(upTo(prev)) >= most)
    BY <2>1
  <2>3. upTo(last) \subseteq upTo(prev) \cup {last}
    <3>1. ASSUME NEW i \in F, i <= last, i # last PROVE i <= prev
      <4>1. i \in before
        BY <1>0, <3>1
      <4> QED
        BY <2>1, <4>1
    <3> QED
      BY <3>1
  <2>4. Cardinality(upTo(last)) <= Cardinality(upTo(prev)) + 1
    <3>1. IsFiniteSet(upTo(prev) \cup {last}) /\ Cardinality(upTo(prev) \cup {last}) <= Cardinality(upTo(prev)) + 1
      <4>1. last \notin upTo(prev)
        BY <1>0, <2>1
      <4>2. IsFiniteSet(upTo(prev)) /\ Cardinality(upTo(prev)) \in Nat
        BY <1>1
      <4> HIDE DEF upTo
      <4>3. IsFiniteSet(upTo(prev) \cup {last})
            /\ Cardinality(upTo(prev) \cup {last}) = Cardinality(upTo(prev)) + 1
        BY <4>1, <4>2, FS_AddElement
      <4> QED
        BY <4>2, <4>3
    <3>2. Cardinality(upTo(last)) <= Cardinality(upTo(prev) \cup {last})
      <4> HIDE DEF upTo
      <4> QED
        BY <2>3, <3>1, FS_Subset
    <3>3. Cardinality(upTo(last)) \in Nat /\ Cardinality(upTo(prev)) \in Nat
          /\ Cardinality(upTo(prev) \cup {last}) \in Nat
      BY <1>1, <3>1, FS_CardinalityType
    <3> HIDE DEF upTo
    <3> QED
      BY <3>1, <3>2, <3>3
  <2>5. Cardinality(upTo(last)) \in Nat /\ Cardinality(upTo(prev)) \in Nat
    BY <1>1
  <2> HIDE DEF upTo
  <2>6. n + Cardinality(upTo(last)) <= most
    BY <2>2, <2>4, <2>5
  <2> QED
    BY <2>6 DEF upTo
<1> QED
  BY <1>2, <1>3

(* What lies between two marks of a page is settled once a batch is read:  *)
(* it was in the batch, or hidden, or gone, or followed by an older turn.  *)
LEMMA PassedIsSettled ==
  ASSUME SweepInv, NEW k \in Kinds, NEW at \in Nat, NEW cutoff \in Int, NEW n \in Nat \ {0},
         NEW last \in Least(EligibleAfter(at, cutoff), n), NEW id \in Nat, at < id, id <= last,
         id \notin settled[k]
  PROVE  id \in Least(EligibleAfter(at, cutoff), n)
<1> DEFINE E == EligibleAfter(at, cutoff)
<1>1. DOMAIN saidAt \subseteq Ids /\ \A i \in DOMAIN saidAt : saidAt[i] \in Int
  BY BoundAssumption DEF SweepInv, SweepTypeOK
<1>2. E \in SUBSET Nat /\ IsFiniteSet(E)
  <2>1. E \subseteq Ids
    BY <1>1 DEF EligibleAfter
  <2> HIDE DEF E
  <2> QED
    BY <2>1, IdsAreNumbered, FS_Subset
<1>3. last \in E /\ \A x \in E \ Least(E, n) : last < x
  <2> HIDE DEF E
  <2> QED
    BY <1>2, LeastOfIds DEF E
<1>4. last \in DOMAIN saidAt /\ saidAt[last] <= cutoff /\ last \in Nat
  BY <1>1, <1>2, <1>3 DEF EligibleAfter
<1>5. id \in DOMAIN saidAt
  <2>1. Known(last) /\ id \in 1..last
    BY <1>4 DEF SweepInv
  <2> QED
    BY <2>1 DEF Known
<1>6. id \notin hidden
  BY DEF SweepInv, PassedOver
<1>7. saidAt[id] <= cutoff
  <2>1. CASE id = last
    BY <1>4, <2>1
  <2>2. CASE id # last
    <3>1. id < last
      BY <1>4, <2>2
    <3>2. ~ (saidAt[id] > saidAt[last])
      BY <1>4, <1>5, <3>1 DEF SweepInv, PassedOver
    <3> QED
      BY <1>1, <1>4, <1>5, <3>2
  <2> QED
    BY <2>1, <2>2
<1>8. id \in E
  BY <1>5, <1>6, <1>7 DEF EligibleAfter
<1>9. ~ (last < id)
  BY <1>4
<1> QED
  BY <1>3, <1>8, <1>9

(* What a run knows after a batch. *)
LEMMA LookedIsRight ==
  ASSUME SweepInv, NEW old \in Run, RunOK(old), old.phase = "scan",
         NEW n \in Nat \ {0}, n <= Budget - old.scanned,
         NEW batch, batch = Least(EligibleAfter(old.at, old.cutoff), n), batch # {},
         NEW found \in SUBSET batch,
         NEW last, last = IF Stops(old, batch, found) # {} THEN Min(Stops(old, batch, found)) ELSE Max(batch),
         found \subseteq UpTo(batch, last),
         settled' = [settled EXCEPT ![old.kind] = settled[old.kind] \cup UpTo(batch, last)],
         UNCHANGED <<sweptStore, now>>
  PROVE  /\ Looked(old, batch, last, found) \in Run
         /\ \A r : r = Looked(old, batch, last, found) => RunOK(r)'
         /\ UpTo(batch, last) \subseteq Ids
<1> USE PageAssumption, BoundAssumption
<1>1. /\ old.at \in Nat /\ old.at \in 0..MaxTurns /\ old.cutoff \in Int /\ old.kind \in Kinds
      /\ old.scanned \in Nat /\ old.found \in Nat /\ old.scanned < Budget /\ old.found < Limit
      /\ old.due \in [Kinds -> SUBSET Ids]
  BY DEF Run, RunOK
<1> DEFINE E == EligibleAfter(old.at, old.cutoff)
<1>2. E \subseteq Ids /\ IsFiniteSet(E) /\ E \in SUBSET Nat
  <2>1. E \subseteq Ids
    BY DEF EligibleAfter, SweepInv, SweepTypeOK
  <2> HIDE DEF E
  <2> QED
    BY <2>1, IdsAreNumbered, FS_Subset
<1>3. /\ batch \subseteq E /\ IsFiniteSet(batch) /\ Cardinality(batch) <= n /\ Cardinality(batch) \in Nat
      /\ \A x \in E \ batch, j \in batch : j < x
  <2> HIDE DEF E
  <2>1. /\ Least(E, n) \subseteq E /\ IsFiniteSet(Least(E, n)) /\ Cardinality(Least(E, n)) <= n
        /\ \A x \in E \ Least(E, n), j \in Least(E, n) : j < x
    BY <1>2, LeastOfIds
  <2>2. Cardinality(Least(E, n)) \in Nat
    BY <2>1, FS_CardinalityType
  <2>3. batch = Least(E, n)
    BY DEF E
  <2> QED
    BY <2>1, <2>2, <2>3
<1> DEFINE stops == Stops(old, batch, found)
<1>4. stops \subseteq batch
  BY DEF Stops
<1>5. batch \in SUBSET Int /\ batch \in SUBSET Nat /\ batch \subseteq Ids
  BY <1>2, <1>3
<1>6. /\ last \in batch
      /\ \A id \in batch : id < last => id \notin stops
      /\ stops # {} => last \in stops
      /\ stops = {} => \A id \in batch : id <= last
  <2>0. last = IF stops # {} THEN Min(stops) ELSE Max(batch)
    OBVIOUS
  <2> HIDE DEF stops, E
  <2>1. CASE stops # {}
    <3>1. stops \in SUBSET Nat
      BY <1>4, <1>5
    <3>2. Min(stops) \in stops /\ \A x \in stops : Min(stops) <= x
      BY <2>1, <3>1, MinOfNaturals
    <3>3. last = Min(stops)
      BY <2>0, <2>1
    <3>4. ASSUME NEW id \in batch, id < last PROVE id \notin stops
      <4>1. id \in Nat /\ last \in Nat
        BY <1>5, <3>1, <3>2, <3>3
      <4> QED
        BY <3>2, <3>3, <3>4, <4>1
    <3> QED
      BY <1>4, <2>1, <3>2, <3>3, <3>4
  <2>2. CASE stops = {}
    <3>1. Max(batch) \in batch /\ \A x \in batch : x <= Max(batch)
      BY <1>3, <1>5, MaxOfFinite
    <3> QED
      BY <2>0, <2>2, <3>1
  <2> QED
    BY <2>1, <2>2
<1> HIDE DEF stops, E
<1> DEFINE read == UpTo(batch, last)
<1>7. read \subseteq batch /\ IsFiniteSet(read) /\ Cardinality(read) \in Nat /\ read \subseteq Ids
      /\ Cardinality(read) <= Cardinality(batch)
  <2>1. read \subseteq batch
    BY DEF UpTo
  <2> HIDE DEF read
  <2>2. IsFiniteSet(read) /\ Cardinality(read) <= Cardinality(batch)
    BY <1>3, <2>1, FS_Subset
  <2> QED
    BY <1>5, <2>1, <2>2, FS_CardinalityType
<1>8. found \cap read = found
  OBVIOUS
<1>9. Cardinality(found) \in Nat /\ old.found + Cardinality(found) <= Limit
  <2>1. \A id \in batch : id < last => ~ (old.found + Cardinality(found \cap {i \in batch : i <= id}) >= Limit)
    BY <1>6 DEF stops, Stops, UpTo
  <2>2. Limit \in Nat
    OBVIOUS
  <2>3. old.found + Cardinality(found \cap {i \in batch : i <= last}) <= Limit
    <3> DEFINE m == old.found
    <3>1. /\ batch \in SUBSET Nat /\ IsFiniteSet(batch) /\ found \in SUBSET batch
          /\ m \in Nat /\ Limit \in Nat /\ m < Limit /\ last \in batch
      BY <1>1, <1>3, <1>5, <1>6, <2>2
    <3>2. \A id \in batch : id < last => ~ (m + Cardinality(found \cap {i \in batch : i <= id}) >= Limit)
      BY <2>1
    <3> HIDE DEF m
    <3>3. m + Cardinality(found \cap {i \in batch : i <= last}) <= Limit
      BY <3>1, <3>2, CountedUpTo
    <3> QED
      BY <3>3 DEF m
  <2>4. IsFiniteSet(found)
    BY <1>3, FS_Subset
  <2> QED
    BY <1>8, <2>3, <2>4, FS_CardinalityType DEF read, UpTo
<1>10. old.scanned + Cardinality(read) \in 0..Budget
  BY <1>1, <1>3, <1>7
<1>11. stops = {} => old.found + Cardinality(found) < Limit /\ old.scanned + Cardinality(read) < Budget
  <2>1. stops = {} => last \notin stops
    OBVIOUS
  <2>2. last \in batch
    BY <1>6
  <2>3. stops = {} => ~ (old.found + Cardinality(found \cap read) >= Limit)
                      /\ ~ (old.scanned + Cardinality(read) >= Budget)
    BY <2>1, <2>2 DEF stops, Stops, read
  <2>4. /\ Limit \in Nat /\ Budget \in Nat /\ old.found \in Nat /\ old.scanned \in Nat
        /\ Cardinality(found) \in Nat /\ Cardinality(read) \in Nat /\ found \cap read = found
    BY <1>1, <1>7, <1>8, <1>9
  <2>5. Cardinality(found \cap read) = Cardinality(found)
    BY <2>4
  <2> HIDE DEF read
  <2>6. ASSUME stops = {} PROVE old.found + Cardinality(found) < Limit /\ old.scanned + Cardinality(read) < Budget
    <3>1. ~ (old.found + Cardinality(found) >= Limit) /\ ~ (old.scanned + Cardinality(read) >= Budget)
      BY <2>3, <2>5, <2>6
    <3> QED
      BY <2>4, <3>1
  <2> QED
    BY <2>6
<1> HIDE DEF read
<1>12. PICK r : r = Looked(old, batch, last, found)
  OBVIOUS
<1>13. /\ r.phase = IF stops # {} THEN "ask" ELSE "scan"
       /\ r.at = last /\ r.scanned = old.scanned + Cardinality(read) /\ r.found = old.found + Cardinality(found)
       /\ r.due = [old.due EXCEPT ![old.kind] = old.due[old.kind] \ read]
       /\ r.since = old.since /\ r.through = old.through /\ r.more = old.more /\ r.kind = old.kind
       /\ r.cutoff = old.cutoff
  BY <1>12 DEF Looked, Run, Resume, stops, read
<1>14. last \in Ids /\ last \in Nat /\ last \in 0..MaxTurns
  BY <1>5, <1>6 DEF Ids
<1>15. r \in Run
  <2>1. r.due \in [Kinds -> SUBSET Ids]
    BY <1>1, <1>13
  <2>2. r.found \in 0..Limit /\ r.scanned \in 0..Budget /\ r.at \in 0..MaxTurns /\ r.phase \in {"scan", "ask"}
    BY <1>1, <1>9, <1>10, <1>13, <1>14
  <2>3. r = [old EXCEPT !.phase = r.phase, !.at = r.at, !.scanned = r.scanned, !.found = r.found, !.due = r.due]
    BY <1>12 DEF Looked, Run
  <2> QED
    BY <2>1, <2>2, <2>3 DEF Run
<1>16. (r.phase # "ask" => r.scanned < Budget /\ r.found < Limit)'
  BY <1>11, <1>13
<1>17. DueOf(r)
  <2> SUFFICES ASSUME NEW k \in Kinds, NEW id \in r.due[k]
               PROVE  /\ id \in DOMAIN saidAt /\ id \notin hidden
                      /\ saidAt[id] <= now - MinAge
                      /\ r.more[k]
                      /\ id > r.through[k]
                      /\ r.phase \in {"scan", "ask"} =>
                           saidAt[id] <= r.cutoff /\ (k = r.kind => id > r.at)
    BY DEF DueOf
  <2>1. id \in old.due[k] /\ (k = old.kind => id \notin read)
    BY <1>1, <1>13
  <2>2. /\ id \in DOMAIN saidAt /\ id \notin hidden
        /\ saidAt[id] <= now - MinAge
        /\ old.more[k] /\ id > old.through[k]
        /\ saidAt[id] <= old.cutoff /\ (k = old.kind => id > old.at)
    BY <2>1 DEF RunOK, DueOf
  <2>3. CASE k = old.kind
    <3>1. id \in E
      BY <2>2, <2>3 DEF E, EligibleAfter
    <3>2. id > last
      <4>1. id \in Nat
        BY <1>2, <3>1
      <4>2. CASE id \in batch
        BY <1>14, <2>1, <2>3, <4>1, <4>2 DEF read, UpTo
      <4>3. CASE id \notin batch
        BY <1>3, <1>6, <1>14, <3>1, <4>1, <4>3
      <4> QED
        BY <4>2, <4>3
    <3> QED
      BY <1>13, <2>2, <2>3, <3>2
  <2>4. CASE k # old.kind
    BY <1>13, <2>2, <2>4
  <2> QED
    BY <2>3, <2>4
<1>18. DueOf(r)'
  BY <1>17 DEF DueOf, sweptStore
<1>19. settled' \in [Kinds -> SUBSET Ids] /\ (\A k \in Kinds : settled[k] \subseteq settled'[k])
       /\ settled'[old.kind] = settled[old.kind] \cup read
  BY <1>1, <1>7 DEF SweepInv, SweepTypeOK, read
<1>20. Known(last) /\ MarksOf(old)
  BY <1>2, <1>3, <1>6 DEF SweepInv, E, EligibleAfter, RunOK
<1>21. SettledTo(old.kind, old.at) => SettledTo(old.kind, last)'
  <2> SUFFICES ASSUME SettledTo(old.kind, old.at), NEW id \in 1..last, id \notin settled'[old.kind]
               PROVE  FALSE
    BY <1>13 DEF SettledTo
  <2>1. id \in Nat /\ id \notin settled[old.kind] /\ id \notin read
    BY <1>14, <1>19
  <2>2. id > old.at
    BY <1>1, <2>1 DEF SettledTo
  <2>3. id \in batch
    <3>1. last \in Least(EligibleAfter(old.at, old.cutoff), n) /\ old.at < id /\ id <= last
      BY <1>1, <1>6, <1>14, <2>2
    <3>2. id \in Least(EligibleAfter(old.at, old.cutoff), n)
      BY <1>1, <2>1, <3>1, PassedIsSettled
    <3> QED
      BY <3>2
  <2> QED
    BY <2>1, <2>3 DEF read, UpTo
<1>22. MarksOf(r)'
  <2>1. Known(r.since)' /\ Known(r.at)' /\ \A k \in Kinds : Known(r.through[k])'
    BY <1>13, <1>19, <1>20 DEF MarksOf, Known, sweptStore
  <2>2. named' => SettledTo(r.kind, r.at)'
    BY <1>13, <1>20, <1>21 DEF MarksOf, sweptStore
  <2>3. named' => \A k \in Kinds : SettledTo(k, r.since)' /\ SettledTo(k, r.through[k])'
    BY <1>13, <1>19, <1>20 DEF MarksOf, SettledTo, sweptStore
  <2> QED
    BY <2>1, <2>2, <2>3 DEF MarksOf
<1>23. RunOK(r)'
  BY <1>16, <1>18, <1>22 DEF RunOK
<1> QED
  BY <1>7, <1>12, <1>15, <1>23 DEF read

LEMMA ScanBatchKeeps ==
  ASSUME SweepInv, NEW c \in Curators, ScanBatch(c)
  PROVE  SweepInv'
<1> USE PageAssumption, BoundAssumption
<1>1. PICK old \in Run : old = run[c]
  BY DEF SweepInv, SweepTypeOK
<1>2. RunOK(old) /\ old.phase = "scan"
  BY <1>1 DEF SweepInv, ScanBatch
<1>3. PICK n : n = Min({BatchSize, Budget - old.scanned})
  OBVIOUS
<1>4. n \in Nat \ {0} /\ n <= Budget - old.scanned
  <2>1. old.scanned \in 0..Budget /\ old.scanned < Budget
    BY <1>1, <1>2 DEF Run, RunOK
  <2> DEFINE S == {BatchSize, Budget - old.scanned}
  <2>2. S \in SUBSET (Nat \ {0}) /\ S # {} /\ Budget - old.scanned \in S
    BY <2>1
  <2> HIDE DEF S
  <2>3. Min(S) \in S /\ \A x \in S : Min(S) <= x
    BY <2>2, MinOfNaturals
  <2>4. n = Min(S)
    BY <1>3 DEF S
  <2> QED
    BY <2>2, <2>3, <2>4
<1>5. PICK batch : batch = Least(EligibleAfter(old.at, old.cutoff), n)
  OBVIOUS
<1>6. UNCHANGED <<sweptStore, now>>
  BY DEF ScanBatch
<1>7. CASE batch = {}
  <2>1. EndPage(c, FALSE) /\ UNCHANGED settled
    BY <1>1, <1>3, <1>5, <1>7 DEF ScanBatch
  <2> DEFINE E == EligibleAfter(old.at, old.cutoff)
  <2>2. E = {}
    <3>1. E \subseteq Ids
      BY DEF EligibleAfter, SweepInv, SweepTypeOK
    <3> HIDE DEF E
    <3>2. E \in SUBSET Nat /\ IsFiniteSet(E)
      BY <3>1, IdsAreNumbered, FS_Subset
    <3>3. E # {} => Least(E, n) # {}
      BY <1>4, <3>2, LeastOfIds
    <3> QED
      BY <1>5, <1>7, <3>3 DEF E
  <2>3. EligibleAfter(run[c].at, run[c].cutoff) = {} /\ run[c].phase \in {"scan", "ask"}
    BY <1>1, <1>2, <2>2
  <2>4. FALSE \in BOOLEAN /\ UNCHANGED <<sweptStore, now, settled>>
    BY <1>6, <2>1
  <2> QED
    BY <2>1, <2>3, <2>4, EndPageKeeps
<1>8. CASE batch # {}
  <2>1. PICK found \in SUBSET batch :
          LET stops == Stops(old, batch, found)
              last == IF stops # {} THEN Min(stops) ELSE Max(batch)
          IN /\ found \subseteq UpTo(batch, last)
             /\ run' = [run EXCEPT ![c] = Looked(old, batch, last, found)]
             /\ settled' = [settled EXCEPT ![old.kind] = settled[old.kind] \cup UpTo(batch, last)]
    BY <1>1, <1>3, <1>5, <1>8 DEF ScanBatch
  <2>2. PICK last : last = IF Stops(old, batch, found) # {} THEN Min(Stops(old, batch, found)) ELSE Max(batch)
    OBVIOUS
  <2>3. /\ found \subseteq UpTo(batch, last)
        /\ run' = [run EXCEPT ![c] = Looked(old, batch, last, found)]
        /\ settled' = [settled EXCEPT ![old.kind] = settled[old.kind] \cup UpTo(batch, last)]
    BY <2>1, <2>2
  <2>4. PICK r : r = Looked(old, batch, last, found)
    OBVIOUS
  <2>5. r \in Run /\ RunOK(r)' /\ UpTo(batch, last) \subseteq Ids
    BY <1>2, <1>4, <1>5, <1>6, <1>8, <2>2, <2>3, <2>4, LookedIsRight
  <2>6. settled' \in [Kinds -> SUBSET Ids] /\ \A k \in Kinds : settled[k] \subseteq settled'[k]
    BY <2>3, <2>5 DEF SweepInv, SweepTypeOK
  <2>7. run' = [run EXCEPT ![c] = r]
    BY <2>3, <2>4
  <2> QED
    BY <1>6, <2>5, <2>6, <2>7, RunSteps
<1> QED
  BY <1>7, <1>8

(***************************************************************************)
(* The cursor.                                                             *)
(***************************************************************************)

LEMMA LargestId ==
  ASSUME SweepInv
  PROVE  /\ MaxId \in 0..MaxTurns /\ \A id \in DOMAIN saidAt : id <= MaxId
         /\ MaxId = 0 \/ MaxId \in DOMAIN saidAt
<1> DEFINE S == {0} \cup DOMAIN saidAt
<1>1. S \subseteq 0..MaxTurns /\ S # {}
  BY BoundAssumption DEF SweepInv, SweepTypeOK, Ids
<1>2. S \in SUBSET Int /\ IsFiniteSet(S)
  <2>1. IsFiniteSet(0..MaxTurns) /\ 0..MaxTurns \subseteq Int
    BY BoundAssumption, FS_Interval
  <2> HIDE DEF S
  <2> QED
    BY <1>1, <2>1, FS_Subset
<1>3. Max(S) \in S /\ \A x \in S : x <= Max(S)
  <2> HIDE DEF S
  <2> QED
    BY <1>1, <1>2, MaxOfFinite
<1>4. MaxId = Max(S)
  BY DEF MaxId
<1> QED
  BY <1>1, <1>3, <1>4

LEMMA LargestIdIsKnown ==
  ASSUME SweepInv
  PROVE  Known(MaxId)
<1>1. CASE MaxId = 0
  BY <1>1 DEF Known
<1>2. CASE MaxId \in DOMAIN saidAt
  BY <1>2 DEF SweepInv
<1> QED
  BY <1>1, <1>2, LargestId

LEMMA KnownBelow ==
  ASSUME NEW mark \in Nat, NEW below \in Nat, below <= mark
  PROVE  /\ Known(mark) => Known(below)
         /\ \A k : SettledTo(k, mark) => SettledTo(k, below)
BY DEF Known, SettledTo

LEMMA NoRunIsRight == RunOK(NoRun)
<1>1. NoRun \in Run /\ NoRun.phase \notin {"scan", "ask"}
  BY NoRunIsARun
<1>2. Known(NoRun.since) /\ \A k \in Kinds : Known(NoRun.through[k])
  BY NoRunIsARun DEF Known
<1>3. \A k \in Kinds : SettledTo(k, NoRun.since) /\ SettledTo(k, NoRun.through[k])
  BY NoRunIsARun DEF SettledTo
<1> QED
  BY <1>1, <1>2, <1>3, NoRunIsARun, BetweenPages

(* A step that changes which cursors are in force, and may end a run. *)
LEMMA CursorSteps ==
  ASSUME SweepInv, UNCHANGED <<saidAt, hidden, now, settled>>,
         named' \in BOOLEAN, named' => named, ends' \in Seq(0..MaxTurns),
         cursor' = CursorOf(ends'), EndsOK',
         run' \in [Curators -> Run], \A d \in Curators : run'[d] \in {run[d], NoRun}
  PROVE  SweepInv'
<1> USE BoundAssumption
<1>1. cursor' \in 0..MaxTurns
  <2>1. CASE ends' = <<>>
    BY <2>1 DEF CursorOf
  <2>2. CASE ends' # <<>>
    BY <2>2 DEF CursorOf, Last
  <2> QED
    BY <2>1, <2>2
<1>2. SweepTypeOK'
  BY <1>1 DEF SweepInv, SweepTypeOK
<1>3. (cursor = CursorOf(ends))'
  BY DEF CursorOf
<1>4. ASSUME NEW d \in Curators PROVE RunOK(run[d])'
  <2>1. PICK r : r = run'[d]
    OBVIOUS
  <2>2. RunOK(r) /\ r.kind \in Kinds
    BY <2>1, NoRunIsRight, NoRunIsARun DEF SweepInv, SweepTypeOK, Run
  <2>3. /\ now \in Int /\ now' \in Int /\ now <= now' /\ UNCHANGED <<saidAt, hidden>>
        /\ \A id \in DOMAIN saidAt : saidAt[id] \in Int
        /\ \A k \in Kinds : settled[k] \subseteq settled'[k]
    BY DEF SweepInv, SweepTypeOK
  <2>4. RunOK(r)'
    BY <2>2, <2>3, RunsStayRight
  <2> QED
    BY <2>1, <2>4
<1>5. PassedOver'
  BY DEF SweepInv, PassedOver
<1>6. (\A id \in DOMAIN saidAt : Known(id))'
  BY DEF SweepInv, Known
<1> QED
  BY <1>2, <1>3, <1>4, <1>5, <1>6 DEF SweepInv

LEMMA EndRunKeeps ==
  ASSUME SweepInv, NEW c \in Curators, NEW to \in 0..MaxId, NEW told \in BOOLEAN, EndRun(c, to, told),
         told /\ named => \A k \in Kinds : SettledTo(k, to)
  PROVE  SweepInv'
<1> USE BoundAssumption
<1>1. /\ ends' = Append(ends, to) /\ cursor' = CursorOf(ends') /\ named' = (named /\ told)
      /\ run' = [run EXCEPT ![c] = NoRun] /\ UNCHANGED <<saidAt, hidden, now, settled>>
  BY DEF EndRun, RunEnd
<1>2. ends \in Seq(0..MaxTurns) /\ to \in 0..MaxTurns /\ named \in BOOLEAN /\ run \in [Curators -> Run]
  BY LargestId DEF SweepInv, SweepTypeOK
<1>3. ends' \in Seq(0..MaxTurns) /\ DOMAIN ends' = 1..Len(ends) + 1
      /\ \A i \in 1..Len(ends) + 1 : ends'[i] = IF i \in DOMAIN ends THEN ends[i] ELSE to
  BY <1>1, <1>2
<1>4. named' \in BOOLEAN /\ (named' => named /\ told)
  BY <1>1, <1>2
<1>5. Known(to)
  BY <1>2, LargestId, LargestIdIsKnown, KnownBelow
<1>6. EndsOK'
  <2>1. \A i \in DOMAIN ends' : Known(ends'[i]) /\ (named' => \A k \in Kinds : SettledTo(k, ends'[i]))
    BY <1>3, <1>4, <1>5 DEF SweepInv, EndsOK
  <2>2. \A mark : (Known(mark) => Known(mark)') /\ \A k : SettledTo(k, mark) => SettledTo(k, mark)'
    BY <1>1 DEF Known, SettledTo
  <2> QED
    BY <2>1, <2>2 DEF EndsOK
<1>7. run' \in [Curators -> Run] /\ \A d \in Curators : run'[d] \in {run[d], NoRun}
  BY <1>1, <1>2, NoRunIsARun
<1> QED
  BY <1>1, <1>3, <1>4, <1>6, <1>7, CursorSteps

LEMMA EndUntoldKeeps ==
  ASSUME SweepInv, NEW c \in Curators, EndUntold(c)
  PROVE  SweepInv'
<1>1. EndRun(c, DefaultCursor, FALSE) /\ DefaultCursor \in 0..MaxId
  BY DEF EndUntold, EndRun, RunEnd
<1> QED
  BY <1>1, EndRunKeeps

LEMMA EndToldKeeps ==
  ASSUME SweepInv, NEW c \in Curators, EndTold(c)
  PROVE  SweepInv'
<1> DEFINE S == {run[c].through[k] : k \in Kinds}
           to == Min(S)
<1>1. EndRun(c, to, TRUE) /\ to \in 0..MaxId
  BY DEF EndTold, EndRun, RunEnd
<1>2. run[c] \in Run /\ MarksOf(run[c])
  BY DEF SweepInv, SweepTypeOK, RunOK
<1>3. S \in SUBSET Nat /\ S # {}
  <2>1. \A k \in Kinds : run[c].through[k] \in -1..MaxTurns /\ run[c].through[k] # -1
    BY <1>2 DEF Run, NoPage, EndTold
  <2> QED
    BY <2>1, PageAssumption, BoundAssumption
<1>4. \A k \in Kinds : to <= run[c].through[k]
  <2>1. \A k \in Kinds : run[c].through[k] \in S
    OBVIOUS
  <2> HIDE DEF S
  <2>2. Min(S) \in S /\ \A x \in S : Min(S) <= x
    BY <1>3, MinOfNaturals
  <2> QED
    BY <2>1, <2>2
<1>5. named => \A k \in Kinds : SettledTo(k, to)
  <2>1. to \in Nat /\ \A k \in Kinds : run[c].through[k] \in Nat
    BY <1>1, <1>3, LargestId
  <2> HIDE DEF to
  <2> QED
    BY <1>2, <1>4, <2>1, KnownBelow DEF MarksOf
<1> HIDE DEF to
<1> QED
  BY <1>1, <1>5, EndRunKeeps

LEMMA EndFocusedKeeps ==
  ASSUME SweepInv, NEW c \in Curators, EndFocused(c)
  PROVE  SweepInv'
<1>1. EndRun(c, run[c].since, TRUE) /\ run[c].since \in 0..MaxId
  BY DEF EndFocused, EndRun, RunEnd
<1>2. named => \A k \in Kinds : SettledTo(k, run[c].since)
  BY DEF SweepInv, RunOK, MarksOf
<1> QED
  BY <1>1, <1>2, EndRunKeeps

LEMMA AbandonKeeps ==
  ASSUME SweepInv, NEW c \in Curators, Abandon(c)
  PROVE  SweepInv'
<1>1. PICK r : r = NoRun
  OBVIOUS
<1>2. r \in Run /\ RunOK(r) /\ run' = [run EXCEPT ![c] = r] /\ UNCHANGED <<sweptStore, now, settled>>
  BY <1>1, NoRunIsARun, NoRunIsRight DEF Abandon
<1> QED
  BY <1>2, RunStepsOnly

(* What is left of a sequence without one of its elements. *)
LEMMA WithoutOne ==
  ASSUME NEW T, NEW seq \in Seq(T), NEW i \in DOMAIN seq
  PROVE  /\ RemoveAt(seq, i) \in Seq(T)
         /\ \A j \in DOMAIN RemoveAt(seq, i) : \E l \in DOMAIN seq : RemoveAt(seq, i)[j] = seq[l]
<1> DEFINE n == Len(seq)
           before == SubSeq(seq, 1, i-1)
           after == SubSeq(seq, i+1, n)
<1>1. n \in Nat /\ i \in 1..n /\ DOMAIN seq = 1..n /\ \A j \in 1..n : seq[j] \in T
  OBVIOUS
<1> HIDE DEF n
<1>2. before \in Seq(T) /\ Len(before) = i - 1 /\ \A j \in 1..i-1 : before[j] = seq[j]
  <2>1. 1 \in Int /\ i - 1 \in Int /\ \A j \in 1..i-1 : seq[j] \in T
    BY <1>1
  <2>2. /\ before \in Seq(T) /\ Len(before) = IF 1 <= i - 1 THEN (i - 1) - 1 + 1 ELSE 0
        /\ \A j \in 1..(i - 1) - 1 + 1 : before[j] = seq[1 + j - 1]
    BY ONLY <2>1, SubSeqProperties
  <2> HIDE DEF before
  <2> QED
    BY <1>1, <2>2
<1>3. after \in Seq(T) /\ Len(after) = n - i /\ \A j \in 1..n-i : after[j] = seq[i + j]
  <2>1. i + 1 \in Int /\ n \in Int /\ \A j \in i+1..n : seq[j] \in T
    BY <1>1
  <2>2. /\ after \in Seq(T) /\ Len(after) = IF i + 1 <= n THEN n - (i + 1) + 1 ELSE 0
        /\ \A j \in 1..n - (i + 1) + 1 : after[j] = seq[i + 1 + j - 1]
    BY ONLY <2>1, SubSeqProperties
  <2> HIDE DEF after
  <2>3. Len(after) = n - i
    BY <1>1, <2>2
  <2>4. n - (i + 1) + 1 = n - i /\ \A j \in 1..n-i : i + 1 + j - 1 = i + j
    BY <1>1
  <2>5. \A j \in 1..n-i : after[j] = seq[i + j]
    BY <2>2, <2>4
  <2> QED
    BY <2>2, <2>3, <2>5
<1>4. RemoveAt(seq, i) = before \o after
  BY DEF RemoveAt, n
<1> HIDE DEF before, after
<1>5. /\ before \o after \in Seq(T) /\ Len(before \o after) = n - 1
      /\ \A j \in 1..n-1 : (before \o after)[j] = IF j <= i - 1 THEN before[j] ELSE after[j - (i - 1)]
  <2>1. /\ before \o after \in Seq(T) /\ Len(before \o after) = Len(before) + Len(after)
        /\ \A j \in 1..Len(before) + Len(after) :
             (before \o after)[j] = IF j <= Len(before) THEN before[j] ELSE after[j - Len(before)]
    BY <1>2, <1>3, ConcatProperties
  <2>2. Len(before) + Len(after) = n - 1
    BY <1>1, <1>2, <1>3
  <2> QED
    BY <1>2, <2>1, <2>2
<1>6. ASSUME NEW j \in 1..n-1 PROVE \E l \in 1..n : (before \o after)[j] = seq[l]
  <2>1. CASE j <= i - 1
    <3>1. (before \o after)[j] = seq[j] /\ j \in 1..n
      BY <1>1, <1>2, <1>5, <2>1
    <3> QED
      BY <3>1
  <2>2. CASE ~ (j <= i - 1)
    <3>1. j - (i - 1) \in 1..n-i /\ i + (j - (i - 1)) = j + 1 /\ j + 1 \in 1..n
      BY <1>1, <2>2
    <3>2. (before \o after)[j] = after[j - (i - 1)]
      BY <1>5, <2>2
    <3>3. after[j - (i - 1)] = seq[i + (j - (i - 1))]
      BY <1>3, <3>1
    <3>4. (before \o after)[j] = seq[j + 1]
      BY <3>1, <3>2, <3>3
    <3> QED
      BY <3>1, <3>4
  <2> QED
    BY <2>1, <2>2
<1>7. DOMAIN (before \o after) = 1..n-1
  BY <1>5
<1> QED
  BY <1>1, <1>4, <1>5, <1>6, <1>7

LEMMA UndoRunEndKeeps ==
  ASSUME SweepInv, NEW i \in DOMAIN ends, UndoRunEnd(i)
  PROVE  SweepInv'
<1> USE BoundAssumption
<1>1. /\ ends' = RemoveAt(ends, i) /\ cursor' = CursorOf(ends')
      /\ UNCHANGED <<saidAt, hidden, now, run, named, settled>>
  BY DEF UndoRunEnd
<1>2. ends \in Seq(0..MaxTurns) /\ named \in BOOLEAN /\ run \in [Curators -> Run]
  BY DEF SweepInv, SweepTypeOK
<1>3. ends' \in Seq(0..MaxTurns) /\ \A j \in DOMAIN ends' : \E l \in DOMAIN ends : ends'[j] = ends[l]
  BY <1>1, <1>2, WithoutOne
<1>4. EndsOK'
  <2>1. \A j \in DOMAIN ends' : Known(ends'[j]) /\ (named' => \A k \in Kinds : SettledTo(k, ends'[j]))
    BY <1>1, <1>3 DEF SweepInv, EndsOK
  <2>2. \A mark : (Known(mark) => Known(mark)') /\ \A k : SettledTo(k, mark) => SettledTo(k, mark)'
    BY <1>1 DEF Known, SettledTo
  <2> QED
    BY <2>1, <2>2 DEF EndsOK
<1>5. named' \in BOOLEAN /\ (named' => named) /\ run' \in [Curators -> Run]
      /\ \A d \in Curators : run'[d] \in {run[d], NoRun}
  BY <1>1, <1>2
<1> QED
  BY <1>1, <1>3, <1>4, <1>5, CursorSteps

(***************************************************************************)
(* The store.                                                              *)
(***************************************************************************)

(* Turns go, or are hidden, and are no longer due to anyone. *)
LEMMA RunsStayRightWithLess ==
  ASSUME NEW r \in Run, RunOK(r), NEW ids,
         NEW s, s = [r EXCEPT !.due = [k \in Kinds |-> r.due[k] \ ids]],
         UNCHANGED now,
         \A id \in DOMAIN saidAt \ ids : id \in DOMAIN saidAt' /\ saidAt'[id] = saidAt[id],
         \A id \in DOMAIN saidAt \ ids : id \notin hidden => id \notin hidden',
         \A k \in Kinds : settled[k] \subseteq settled'[k] /\ ids \subseteq settled'[k],
         named' => named
  PROVE  s \in Run /\ RunOK(s)'
<1> USE BoundAssumption
<1>1. /\ s.phase = r.phase /\ s.scanned = r.scanned /\ s.found = r.found /\ s.since = r.since
      /\ s.through = r.through /\ s.more = r.more /\ s.kind = r.kind /\ s.cutoff = r.cutoff /\ s.at = r.at
      /\ \A k \in Kinds : s.due[k] = r.due[k] \ ids
  BY DEF Run
<1>2. s \in Run
  BY DEF Run
<1>3. (s.phase # "ask" => s.scanned < Budget /\ s.found < Limit)'
  BY <1>1 DEF RunOK
<1>4. DueOf(s)'
  <2> SUFFICES ASSUME NEW k \in Kinds, NEW id \in s.due[k]
               PROVE  /\ id \in DOMAIN saidAt' /\ id \notin hidden'
                      /\ saidAt'[id] <= now' - MinAge
                      /\ s.more[k]
                      /\ id > s.through[k]
                      /\ s.phase \in {"scan", "ask"} =>
                           saidAt'[id] <= s.cutoff /\ (k = s.kind => id > s.at)
    BY DEF DueOf
  <2>1. id \in r.due[k] /\ id \notin ids
    BY <1>1
  <2>2. /\ id \in DOMAIN saidAt /\ id \notin hidden /\ saidAt[id] <= now - MinAge
        /\ r.more[k] /\ id > r.through[k]
        /\ r.phase \in {"scan", "ask"} => saidAt[id] <= r.cutoff /\ (k = r.kind => id > r.at)
    BY <2>1 DEF RunOK, DueOf
  <2>3. id \in DOMAIN saidAt' /\ saidAt'[id] = saidAt[id] /\ id \notin hidden'
    BY <2>1, <2>2
  <2> QED
    BY <1>1, <2>2, <2>3
<1>5. \A mark : Known(mark) => Known(mark)'
  BY DEF Known
<1>6. \A mark : \A k \in Kinds : SettledTo(k, mark) => SettledTo(k, mark)'
  BY DEF SettledTo
<1>7. MarksOf(s)'
  <2>1. MarksOf(r) /\ r.kind \in Kinds
    BY DEF RunOK, Run
  <2> QED
    BY <1>1, <1>5, <1>6, <2>1 DEF MarksOf
<1> QED
  BY <1>2, <1>3, <1>4, <1>7 DEF RunOK

(* Turns go or are hidden: DeleteTurn and HideTurn. *)
LEMMA TurnsGo ==
  ASSUME SweepInv, NEW ids \in SUBSET DOMAIN saidAt, NoLongerDue(ids),
         DOMAIN saidAt' \subseteq DOMAIN saidAt, DOMAIN saidAt \ ids \subseteq DOMAIN saidAt',
         saidAt' \in [DOMAIN saidAt' -> 0..MaxTime],
         \A id \in DOMAIN saidAt' : saidAt'[id] = saidAt[id],
         hidden' \subseteq hidden \cup ids, hidden' \subseteq DOMAIN saidAt',
         UNCHANGED <<now, ends, cursor, named>>
  PROVE  SweepInv'
<1> USE BoundAssumption
<1>1. ids \subseteq Ids
  BY DEF SweepInv, SweepTypeOK
<1>2. /\ settled' \in [Kinds -> SUBSET Ids]
      /\ \A k \in Kinds : settled'[k] = settled[k] \cup ids
  BY <1>1 DEF NoLongerDue, Settle, SweepInv, SweepTypeOK
<1>3. ASSUME NEW d \in Curators PROVE run'[d] \in Run /\ RunOK(run[d])'
  <2>1. PICK r : r = run[d]
    OBVIOUS
  <2>2. PICK s : s = [r EXCEPT !.due = [k \in Kinds |-> r.due[k] \ ids]]
    OBVIOUS
  <2>3. r \in Run /\ RunOK(r) /\ run'[d] = s
    BY <2>1, <2>2 DEF SweepInv, SweepTypeOK, NoLongerDue
  <2>4. /\ \A id \in DOMAIN saidAt \ ids : id \in DOMAIN saidAt' /\ saidAt'[id] = saidAt[id]
        /\ \A id \in DOMAIN saidAt \ ids : id \notin hidden => id \notin hidden'
        /\ \A k \in Kinds : settled[k] \subseteq settled'[k] /\ ids \subseteq settled'[k]
        /\ UNCHANGED now /\ (named' => named)
    BY <1>2
  <2>5. s \in Run /\ RunOK(s)'
    BY <2>2, <2>3, <2>4, RunsStayRightWithLess
  <2> QED
    BY <2>3, <2>5
<1>4. run' \in [Curators -> Run]
  <2>1. DOMAIN run' = Curators /\ run' = [c \in Curators |-> run'[c]]
    BY DEF NoLongerDue
  <2> QED
    BY <1>3, <2>1
<1>5. SweepTypeOK'
  BY <1>2, <1>4 DEF SweepInv, SweepTypeOK
<1>6. \A mark : Known(mark) => Known(mark)'
  BY <1>2 DEF Known
<1>7. \A mark : \A k \in Kinds : SettledTo(k, mark) => SettledTo(k, mark)'
  BY <1>2 DEF SettledTo
<1>8. EndsOK'
  BY <1>6, <1>7 DEF SweepInv, EndsOK
<1>9. PassedOver'
  BY <1>2 DEF SweepInv, PassedOver
<1>10. (\A id \in DOMAIN saidAt : Known(id))'
  BY <1>6 DEF SweepInv
<1>11. (cursor = CursorOf(ends))'
  BY DEF SweepInv, CursorOf
<1> QED
  BY <1>3, <1>5, <1>8, <1>9, <1>10, <1>11 DEF SweepInv

LEMMA DeleteTurnKeeps ==
  ASSUME SweepInv, NEW id \in DOMAIN saidAt, DeleteTurn(id)
  PROVE  SweepInv'
<1>1. /\ NoLongerDue({id}) /\ UNCHANGED <<now, ends, cursor, named>>
      /\ saidAt' = [i \in DOMAIN saidAt \ {id} |-> saidAt[i]] /\ hidden' = hidden \ {id}
  BY DEF DeleteTurn, Restrict
<1>2. saidAt \in [DOMAIN saidAt -> 0..MaxTime] /\ hidden \subseteq DOMAIN saidAt
  BY DEF SweepInv, SweepTypeOK
<1> QED
  BY <1>1, <1>2, TurnsGo

LEMMA HideTurnKeeps ==
  ASSUME SweepInv, NEW id \in DOMAIN saidAt, HideTurn(id)
  PROVE  SweepInv'
<1>1. /\ NoLongerDue({id}) /\ UNCHANGED <<saidAt, now, ends, cursor, named>> /\ hidden' = hidden \cup {id}
  BY DEF HideTurn
<1>2. saidAt \in [DOMAIN saidAt -> 0..MaxTime] /\ hidden \subseteq DOMAIN saidAt
  BY DEF SweepInv, SweepTypeOK
<1> QED
  BY <1>1, <1>2, TurnsGo

LEMMA UnhideTurnKeeps ==
  ASSUME SweepInv, NEW id \in hidden, UnhideTurn(id)
  PROVE  SweepInv'
<1> USE BoundAssumption
<1>1. hidden' = hidden \ {id} /\ UNCHANGED <<saidAt, now, ends, cursor, named, run, settled>>
  BY DEF UnhideTurn
<1>2. SweepTypeOK' /\ (cursor = CursorOf(ends))'
  BY <1>1 DEF SweepInv, SweepTypeOK, CursorOf
<1>3. ASSUME NEW d \in Curators PROVE RunOK(run[d])'
  <2>1. RunOK(run[d])
    BY DEF SweepInv
  <2>2. (run[d].phase # "ask" => run[d].scanned < Budget /\ run[d].found < Limit)'
    BY <1>1, <2>1 DEF RunOK
  <2>3. DueOf(run[d])'
    BY <1>1, <2>1 DEF RunOK, DueOf
  <2>4. MarksOf(run[d])'
    BY <1>1, <2>1 DEF RunOK, MarksOf, Known, SettledTo
  <2> QED
    BY <2>2, <2>3, <2>4 DEF RunOK
<1>4. EndsOK'
  BY <1>1 DEF SweepInv, EndsOK, Known, SettledTo
<1>5. PassedOver' /\ (\A i \in DOMAIN saidAt : Known(i))'
  BY <1>1 DEF SweepInv, PassedOver, Known
<1> QED
  BY <1>2, <1>3, <1>4, <1>5 DEF SweepInv

LEMMA TickKeeps ==
  ASSUME SweepInv, Tick
  PROVE  SweepInv'
<1> USE BoundAssumption
<1>1. now' = now + 1 /\ now < MaxTime /\ UNCHANGED <<saidAt, hidden, ends, cursor, named, run, settled>>
  BY DEF Tick, sweptStore
<1>2. now \in Int /\ \A id \in DOMAIN saidAt : saidAt[id] \in Int
  BY DEF SweepInv, SweepTypeOK
<1>3. SweepTypeOK' /\ (cursor = CursorOf(ends))'
  BY <1>1 DEF SweepInv, SweepTypeOK, CursorOf
<1>4. ASSUME NEW d \in Curators PROVE RunOK(run[d])'
  <2>1. PICK r : r = run[d]
    OBVIOUS
  <2>2. RunOK(r) /\ r.kind \in Kinds
    BY <2>1 DEF SweepInv, SweepTypeOK, Run
  <2>3. /\ UNCHANGED <<saidAt, hidden>> /\ now' \in Int /\ now <= now' /\ (named' => named)
        /\ \A k \in Kinds : settled[k] \subseteq settled'[k]
    BY <1>1, <1>2
  <2>4. RunOK(r)'
    BY <1>2, <2>2, <2>3, RunsStayRight
  <2> QED
    BY <1>1, <2>1, <2>4
<1>5. EndsOK'
  BY <1>1 DEF SweepInv, EndsOK, Known, SettledTo
<1>6. PassedOver' /\ (\A i \in DOMAIN saidAt : Known(i))'
  BY <1>1 DEF SweepInv, PassedOver, Known
<1> QED
  BY <1>3, <1>4, <1>5, <1>6 DEF SweepInv

(* Every id a mark has passed was in use, so what a clear takes away and   *)
(* what was deleted before it make all of them settled.                    *)
LEMMA ClearTurnsKeeps ==
  ASSUME SweepInv, ClearTurns
  PROVE  SweepInv'
<1> USE BoundAssumption
<1>1. /\ saidAt' = [id \in {} |-> 0] /\ hidden' = {} /\ ends' = <<>> /\ cursor' = 0 /\ named' = TRUE
      /\ UNCHANGED now /\ NoLongerDue(DOMAIN saidAt)
  BY DEF ClearTurns
<1>2. DOMAIN saidAt \subseteq Ids
  BY DEF SweepInv, SweepTypeOK
<1>3. /\ settled' \in [Kinds -> SUBSET Ids]
      /\ \A k \in Kinds : settled'[k] = settled[k] \cup DOMAIN saidAt
  BY <1>1, <1>2 DEF NoLongerDue, Settle, SweepInv, SweepTypeOK
<1>4. \A mark : Known(mark) => Known(mark)' /\ \A k \in Kinds : SettledTo(k, mark)'
  BY <1>3 DEF Known, SettledTo
<1>5. ASSUME NEW d \in Curators PROVE run'[d] \in Run /\ RunOK(run[d])'
  <2>1. PICK r : r = run[d]
    OBVIOUS
  <2>2. PICK s : s = [r EXCEPT !.due = [k \in Kinds |-> r.due[k] \ DOMAIN saidAt]]
    OBVIOUS
  <2>3. r \in Run /\ RunOK(r) /\ run'[d] = s
    BY <1>1, <2>1, <2>2 DEF SweepInv, SweepTypeOK, NoLongerDue
  <2>4. /\ s.phase = r.phase /\ s.scanned = r.scanned /\ s.found = r.found /\ s.since = r.since
        /\ s.through = r.through /\ s.kind = r.kind /\ s.at = r.at /\ r.kind \in Kinds
        /\ \A k \in Kinds : s.due[k] = r.due[k] \ DOMAIN saidAt
    BY <2>2, <2>3 DEF Run
  <2>5. s \in Run
    BY <2>2, <2>3 DEF Run
  <2>6. \A k \in Kinds : s.due[k] = {}
    BY <2>3, <2>4 DEF RunOK, DueOf
  <2>7. DueOf(s)'
    BY <2>6 DEF DueOf
  <2>8. MarksOf(s)'
    BY <1>4, <2>3, <2>4 DEF RunOK, MarksOf
  <2>9. RunOK(s)'
    BY <2>3, <2>4, <2>7, <2>8 DEF RunOK
  <2> QED
    BY <2>3, <2>5, <2>9
<1>6. run' \in [Curators -> Run]
  <2>1. DOMAIN run' = Curators /\ run' = [c \in Curators |-> run'[c]]
    BY <1>1 DEF NoLongerDue
  <2> QED
    BY <1>5, <2>1
<1>7. DOMAIN saidAt' = {} /\ saidAt' \in [DOMAIN saidAt' -> 0..MaxTime] /\ ends' \in Seq(0..MaxTurns)
  BY <1>1
<1>8. SweepTypeOK'
  BY <1>1, <1>3, <1>6, <1>7 DEF SweepInv, SweepTypeOK
<1>9. EndsOK' /\ PassedOver' /\ (\A id \in DOMAIN saidAt : Known(id))' /\ (cursor = CursorOf(ends))'
  BY <1>1, <1>7 DEF EndsOK, PassedOver, CursorOf
<1> QED
  BY <1>5, <1>8, <1>9 DEF SweepInv

LEMMA IngestKeeps ==
  ASSUME SweepInv, NEW ts \in 0..now, Ingest(ts)
  PROVE  SweepInv'
<1> USE BoundAssumption
<1>1. PICK new : new = MaxId + 1
  OBVIOUS
<1>2. /\ new \in Ids
      /\ saidAt' = [i \in DOMAIN saidAt \cup {new} |-> IF i = new THEN ts ELSE saidAt[i]]
      /\ Settle({i \in DOMAIN saidAt : saidAt[i] > ts})
      /\ UNCHANGED <<hidden, now, ends, cursor, named, run>>
  BY <1>1 DEF Ingest
<1>3. /\ DOMAIN saidAt \subseteq Ids /\ now \in 0..MaxTime /\ saidAt \in [DOMAIN saidAt -> 0..MaxTime]
      /\ hidden \subseteq DOMAIN saidAt
  BY DEF SweepInv, SweepTypeOK
<1>4. new \notin DOMAIN saidAt /\ \A id \in DOMAIN saidAt : id < new
  <2>1. MaxId \in Int /\ \A id \in DOMAIN saidAt : id <= MaxId /\ id \in Int
    BY <1>3, LargestId DEF Ids
  <2> QED
    BY <1>1, <2>1
<1>5. /\ DOMAIN saidAt' = DOMAIN saidAt \cup {new} /\ saidAt'[new] = ts
      /\ \A id \in DOMAIN saidAt : saidAt'[id] = saidAt[id]
      /\ saidAt' \in [DOMAIN saidAt' -> 0..MaxTime] /\ DOMAIN saidAt' \subseteq Ids
  <2>1. /\ DOMAIN saidAt' = DOMAIN saidAt \cup {new} /\ saidAt'[new] = ts
        /\ \A id \in DOMAIN saidAt : saidAt'[id] = saidAt[id]
    BY <1>2, <1>4
  <2>2. \A id \in DOMAIN saidAt \cup {new} : saidAt'[id] \in 0..MaxTime
    BY <1>3, <2>1
  <2>3. saidAt' = [i \in DOMAIN saidAt' |-> saidAt'[i]]
    BY <1>2
  <2> QED
    BY <1>2, <1>3, <2>1, <2>2, <2>3
<1>6. /\ settled' \in [Kinds -> SUBSET Ids]
      /\ \A k \in Kinds : settled'[k] = settled[k] \cup {i \in DOMAIN saidAt : saidAt[i] > ts}
  BY <1>2, <1>3 DEF Settle, SweepInv, SweepTypeOK
<1>7. SweepTypeOK' /\ (cursor = CursorOf(ends))'
  BY <1>2, <1>5, <1>6 DEF SweepInv, SweepTypeOK, CursorOf
<1>8. \A mark : /\ Known(mark) => Known(mark)'
                /\ \A k \in Kinds : SettledTo(k, mark) => SettledTo(k, mark)'
  BY <1>5, <1>6 DEF Known, SettledTo
<1>9. ASSUME NEW d \in Curators PROVE RunOK(run[d])'
  <2>1. PICK r : r = run[d]
    OBVIOUS
  <2>2. RunOK(r) /\ r.kind \in Kinds /\ run'[d] = r
    BY <1>2, <2>1 DEF SweepInv, SweepTypeOK, Run
  <2>3. DueOf(r)'
    BY <1>2, <1>5, <2>2 DEF RunOK, DueOf
  <2>4. MarksOf(r)'
    BY <1>2, <1>8, <2>2 DEF RunOK, MarksOf
  <2>5. RunOK(r)'
    BY <2>2, <2>3, <2>4 DEF RunOK
  <2> QED
    BY <2>2, <2>5
<1>10. EndsOK'
  BY <1>2, <1>8 DEF SweepInv, EndsOK
<1>11. PassedOver'
  <2>1. ASSUME NEW k \in Kinds PROVE (hidden \subseteq settled[k])'
    BY <1>2, <1>6 DEF SweepInv, PassedOver
  <2>2. ASSUME NEW k \in Kinds, NEW i \in DOMAIN saidAt', NEW j \in DOMAIN saidAt', i < j, saidAt'[i] > saidAt'[j]
        PROVE  i \in settled'[k]
    <3>1. i \in Int /\ j \in Int
      BY <1>5 DEF Ids
    <3>2. CASE i = new
      BY <1>4, <1>5, <2>2, <3>1, <3>2
    <3>3. CASE i # new /\ j = new
      BY <1>5, <1>6, <2>2, <3>3
    <3>4. CASE i # new /\ j # new
      BY <1>5, <1>6, <2>2, <3>4 DEF SweepInv, PassedOver
    <3> QED
      BY <3>2, <3>3, <3>4
  <2> QED
    BY <2>1, <2>2 DEF PassedOver
<1>12. ASSUME NEW id \in DOMAIN saidAt' PROVE Known(id)'
  <2>1. CASE id \in DOMAIN saidAt
    BY <1>8, <2>1 DEF SweepInv
  <2>2. CASE id = new
    <3>1. PICK largest \in Nat : largest = MaxId
      BY LargestId
    <3>2. Known(largest)
      BY <3>1, LargestIdIsKnown
    <3>3. Known(largest)'
      BY <1>8, <3>2
    <3>4. id = largest + 1 /\ id \in DOMAIN saidAt'
      BY <1>1, <1>5, <2>2, <3>1
    <3> QED
      BY <3>3, <3>4 DEF Known
  <2> QED
    BY <1>5, <2>1, <2>2
<1> QED
  BY <1>7, <1>9, <1>10, <1>11, <1>12 DEF SweepInv

(***************************************************************************)
(* The theorems.                                                           *)
(***************************************************************************)

LEMMA SweepKeepsInv == SweepInv /\ [SweepNext]_sweepVars => SweepInv'
<1> SUFFICES ASSUME SweepInv, [SweepNext]_sweepVars PROVE SweepInv'
  OBVIOUS
<1>1. ASSUME NEW c \in Curators, BeginRun(c) PROVE SweepInv'
  BY <1>1, BeginRunKeeps
<1>2. ASSUME NEW c \in Curators, ScanBatch(c) PROVE SweepInv'
  BY <1>2, ScanBatchKeeps
<1>3. ASSUME NEW c \in Curators, AskMore(c) PROVE SweepInv'
  BY <1>3, AskMoreKeeps
<1>4. ASSUME NEW c \in Curators, NEW k \in Kinds, OpenPage(c, k) PROVE SweepInv'
  BY <1>4, OpenPageKeeps
<1>5. ASSUME NEW c \in Curators, EndUntold(c) PROVE SweepInv'
  BY <1>5, EndUntoldKeeps
<1>6. ASSUME NEW c \in Curators, EndTold(c) PROVE SweepInv'
  BY <1>6, EndToldKeeps
<1>7. ASSUME NEW c \in Curators, EndFocused(c) PROVE SweepInv'
  BY <1>7, EndFocusedKeeps
<1>8. ASSUME NEW c \in Curators, Abandon(c) PROVE SweepInv'
  BY <1>8, AbandonKeeps
<1>9. ASSUME NEW i \in DOMAIN ends, UndoRunEnd(i) PROVE SweepInv'
  BY <1>9, UndoRunEndKeeps
<1>10. ASSUME NEW ts \in 0..now, Ingest(ts) PROVE SweepInv'
  BY <1>10, IngestKeeps
<1>11. ASSUME NEW id \in DOMAIN saidAt, DeleteTurn(id) PROVE SweepInv'
  BY <1>11, DeleteTurnKeeps
<1>12. ASSUME NEW id \in DOMAIN saidAt, HideTurn(id) PROVE SweepInv'
  BY <1>12, HideTurnKeeps
<1>13. ASSUME NEW id \in hidden, UnhideTurn(id) PROVE SweepInv'
  BY <1>13, UnhideTurnKeeps
<1>14. ASSUME ClearTurns PROVE SweepInv'
  BY <1>14, ClearTurnsKeeps
<1>15. ASSUME Tick PROVE SweepInv'
  BY <1>15, TickKeeps
<1>16. ASSUME UNCHANGED sweepVars PROVE SweepInv'
  <2>1. UNCHANGED <<saidAt, hidden, now, ends, cursor, named, run, settled>>
    BY <1>16 DEF sweepVars
  <2>2. SweepTypeOK' /\ (cursor = CursorOf(ends))' /\ PassedOver'
    BY <2>1 DEF SweepInv, SweepTypeOK, CursorOf, PassedOver
  <2>3. (\A c \in Curators : RunOK(run[c]))'
    BY <2>1 DEF SweepInv, RunOK, DueOf, MarksOf, Known, SettledTo
  <2>4. EndsOK' /\ (\A id \in DOMAIN saidAt : Known(id))'
    BY <2>1 DEF SweepInv, EndsOK, Known, SettledTo
  <2> QED
    BY <2>2, <2>3, <2>4 DEF SweepInv
<1> QED
  BY <1>1, <1>2, <1>3, <1>4, <1>5, <1>6, <1>7, <1>8, <1>9, <1>10, <1>11, <1>12, <1>13, <1>14, <1>15, <1>16
     DEF SweepNext

LEMMA SweepInvariant == SweepSpec => []SweepInv
  BY SweepBegins, SweepKeepsInv, PTL DEF SweepSpec

(* The types hold; in particular a page never counts more candidates than  *)
(* its limit nor more turns than its budget (scan, finders.rs:197-225).    *)
THEOREM SweepTypes == SweepSpec => []SweepTypeOK
<1>1. SweepInv => SweepTypeOK
  BY DEF SweepInv
<1> QED
  BY <1>1, SweepInvariant, PTL

(* A run that was told there is no more of a kind has looked at every turn *)
(* after the cursor, eligible when it asked for the first page of the kind,*)
(* and eligible still, for every size of page, batch and store and any     *)
(* number of curators, whose ends and undos move the cursor meanwhile.     *)
THEOREM LastPages == SweepSpec => []LastPageIsTheLast
  BY SweepInvariant, SweepInvSuffices, PTL

(* While runs name the cursor they leave, no turn before the cursor was    *)
(* left unlooked at, whichever run_end is undone, and across a clear.      *)
THEOREM NamedCursors == SweepSpec => []NamedCursorsSkipNothing
  BY SweepInvariant, SweepInvSuffices, PTL

================================================================================
