-------------------------------- MODULE Sweep --------------------------------
(***************************************************************************)
(* The sweep of a curator over the turns and the cursor it leaves for the  *)
(* next.  crates/zeromem-core/src/curation/finders.rs (find, scan) and     *)
(* curation/mod.rs (run_end, recompute_cursor).                            *)
(*                                                                         *)
(* A page of candidates of one kind is read in batches of turns by row id, *)
(* outside any transaction: turns come, go, are hidden and grow old enough *)
(* between two batches, and while the curator thinks between two pages.    *)
(* Which turns are candidates is open; a curator is an agent outside this  *)
(* code, and what it does with a candidate is module Curation.             *)
(*                                                                         *)
(* Every turn is a session of its own.  Notes and superseded turns are     *)
(* passed over as hidden ones are, and have no variable of their own.      *)
(***************************************************************************)
EXTENDS Integers, FiniteSets, Sequences, SequencesExt

CONSTANTS
  Curators,
  Kinds,          \* the turn-based kinds of candidates
  MinAge,         \* config.min_age_ms
  Limit,          \* candidates per page
  Budget,         \* turns scanned per page
  BatchSize,      \* turns per query
  MaxTurns,       \* bound: the largest row id
  MaxTime,        \* bound: the clock
  MaxEnds         \* bound: run_end actions that are not undone

ASSUME PageAssumption == {Limit, Budget, BatchSize} \subseteq Nat \ {0} /\ Kinds # {}
ASSUME BoundAssumption == {MinAge, MaxTurns, MaxTime, MaxEnds} \subseteq Nat

VARIABLES
  saidAt,         \* row id -> time it was said
  hidden,
  now,
  ends,           \* the cursors of the run_end actions not undone, oldest first
  cursor,         \* meta.curation_cursor, 0 if there is none
  run,            \* what each curator knows of the run it is in
  named,          \* history: every run that ended named its cursor
  settled         \* history: the turns some run has looked at for a kind,
                  \* or that were deleted, hidden or followed by an older one

sweptStore == <<saidAt, hidden, ends, cursor, named>>
sweepVars == <<saidAt, hidden, now, ends, cursor, run, named, settled>>

Ids == 1..MaxTurns

(* scanned_through of a kind no page of which has ended. *)
NoPage == -1

(* through: scanned_through of each kind.  more: of its last page, TRUE    *)
(* before the first.  kind, cutoff, at, scanned, found: the page in        *)
(* progress.  due: history, the turns that were eligible when the first    *)
(* page of the kind was asked for, still are, and have not been looked at. *)
NoRun == [phase |-> "off", since |-> 0, through |-> [k \in Kinds |-> NoPage],
          more |-> [k \in Kinds |-> TRUE], kind |-> CHOOSE k \in Kinds : TRUE,
          cutoff |-> 0, at |-> 0, scanned |-> 0, found |-> 0,
          due |-> [k \in Kinds |-> {}]]

SweepInit ==
  /\ saidAt = [id \in {} |-> 0] /\ hidden = {} /\ now = 0
  /\ ends = <<>> /\ cursor = 0 /\ named = TRUE
  /\ run = [c \in Curators |-> NoRun]
  /\ settled = [k \in Kinds |-> {}]

Cutoff == now - MinAge

EligibleAfter(after, cutoff) ==
  {id \in DOMAIN saidAt : id > after /\ saidAt[id] <= cutoff /\ id \notin hidden}

(* The `n` least of a set of ids. *)
Least(ids, n) == {id \in ids : Cardinality({i \in ids : i < id}) < n}

(***************************************************************************)
(* Pages.                                                                  *)
(***************************************************************************)

(* A curator asks for the runs, and remembers the cursor it is told. *)
BeginRun(c) ==
  /\ run[c].phase = "off"
  /\ run' = [run EXCEPT ![c] = [NoRun EXCEPT !.phase = "idle", !.since = cursor]]
  /\ UNCHANGED <<sweptStore, now, settled>>

(* The first page of a kind starts at the cursor in force as it is asked   *)
(* for, a later one where the last ended.  The cutoff is that of the page, *)
(* and every query of it has it.                                           *)
OpenPage(c, k) ==
  LET first == run[c].through[k] = NoPage
      start == IF first THEN cursor ELSE run[c].through[k]
      due == IF first THEN EligibleAfter(cursor, Cutoff) ELSE run[c].due[k]
  IN
  /\ run[c].phase = "idle" /\ run[c].more[k]
  /\ run' = [run EXCEPT ![c] = [run[c] EXCEPT !.phase = "scan", !.kind = k, !.cutoff = Cutoff,
                                              !.at = start, !.due = [run[c].due EXCEPT ![k] = due]]]
  /\ UNCHANGED <<sweptStore, now, settled>>

EndPage(c, more) ==
  LET r == run[c] IN
  run' = [run EXCEPT ![c] = [NoRun EXCEPT !.phase = "idle", !.since = r.since, !.due = r.due,
                                          !.through = [r.through EXCEPT ![r.kind] = r.at],
                                          !.more = [r.more EXCEPT ![r.kind] = more]]]

(* Bug: a page that is full of candidates is taken for the last one. *)
AskNothing(c) ==
  /\ run[c].phase = "ask"
  /\ EndPage(c, run[c].scanned >= Budget)
  /\ UNCHANGED <<sweptStore, now, settled>>

(* A page that is full asks whether there is more. *)
AskMore(c) ==
  /\ run[c].phase = "ask"
  /\ EndPage(c, EligibleAfter(run[c].at, run[c].cutoff) # {})
  /\ UNCHANGED <<sweptStore, now, settled>>

(* Bug: a page that fills up inside a batch resumes after the batch. *)
AfterBatch(last, batch) == Max(batch)

(* Where the next query resumes, or the next page. *)
Resume(last, batch) == last

UpTo(batch, id) == {i \in batch : i <= id}

(* The turns of a batch at which a page is full, of candidates or of turns.*)
Stops(r, batch, found) ==
  {id \in batch : \/ r.found + Cardinality(found \cap UpTo(batch, id)) >= Limit
                  \/ r.scanned + Cardinality(UpTo(batch, id)) >= Budget}

(* What a run knows once it has looked at a batch up to `last`. *)
Looked(r, batch, last, found) ==
  [r EXCEPT !.phase = IF Stops(r, batch, found) # {} THEN "ask" ELSE "scan",
            !.at = Resume(last, batch),
            !.scanned = r.scanned + Cardinality(UpTo(batch, last)),
            !.found = r.found + Cardinality(found),
            !.due = [r.due EXCEPT ![r.kind] = r.due[r.kind] \ UpTo(batch, last)]]

(* The next batch is looked at, of which `found` are candidates, up to     *)
(* where the page is full.                                                 *)
ScanBatch(c) ==
  LET r == run[c]
      batch == Least(EligibleAfter(r.at, r.cutoff), Min({BatchSize, Budget - r.scanned}))
  IN
  /\ r.phase = "scan"
  /\ IF batch = {} THEN EndPage(c, FALSE) /\ UNCHANGED settled
     ELSE \E found \in SUBSET batch :
       LET stops == Stops(r, batch, found)
           last == IF stops # {} THEN Min(stops) ELSE Max(batch)
       IN
       /\ found \subseteq UpTo(batch, last)
       /\ run' = [run EXCEPT ![c] = Looked(r, batch, last, found)]
       /\ settled' = [settled EXCEPT ![r.kind] = settled[r.kind] \cup UpTo(batch, last)]
  /\ UNCHANGED <<sweptStore, now>>

(***************************************************************************)
(* The cursor.                                                             *)
(***************************************************************************)

(* recompute_cursor: that of the newest run_end that is not undone. *)
CursorOf(live) == IF live = <<>> THEN 0 ELSE Last(live)

MaxId == Max({0} \cup DOMAIN saidAt)

(* Where run_end leaves the cursor when it is not told. *)
DefaultCursor == Max({0} \cup {id \in DOMAIN saidAt : saidAt[id] <= Cutoff})

(* `told` says whether the curator named the cursor. *)
RunEnd(to, told) ==
  /\ Len(ends) < MaxEnds
  /\ to \in 0..MaxId
  /\ ends' = Append(ends, to)
  /\ cursor' = CursorOf(ends')
  /\ named' = (named /\ told)
  /\ UNCHANGED <<saidAt, hidden>>

EndRun(c, to, told) ==
  /\ run[c].phase = "idle"
  /\ RunEnd(to, told)
  /\ run' = [run EXCEPT ![c] = NoRun]
  /\ UNCHANGED <<now, settled>>

(* A sweep that reached the last page of every kind names no cursor, as the*)
(* playbook has it (docs/curator-playbook.md, step 6).                     *)
EndUntold(c) ==
  (\A k \in Kinds : ~run[c].more[k]) /\ EndRun(c, DefaultCursor, FALSE)

(* One that names it has read some of every kind (step 2), and names the   *)
(* smallest scanned_through.                                               *)
EndTold(c) ==
  /\ \A k \in Kinds : run[c].through[k] # NoPage
  /\ EndRun(c, Min({run[c].through[k] : k \in Kinds}), TRUE)

(* A focused run hands back the cursor it found (gateway/prompts.ts:56). *)
EndFocused(c) == EndRun(c, run[c].since, TRUE)

(* A run that is never ended. *)
Abandon(c) ==
  /\ run[c].phase # "off"
  /\ run' = [run EXCEPT ![c] = NoRun]
  /\ UNCHANGED <<sweptStore, now, settled>>

UndoRunEnd(i) ==
  /\ ends' = RemoveAt(ends, i)
  /\ cursor' = CursorOf(ends')
  /\ UNCHANGED <<saidAt, hidden, now, run, named, settled>>

(***************************************************************************)
(* The store.                                                              *)
(***************************************************************************)

Settle(ids) == settled' = [k \in Kinds |-> settled[k] \cup ids]

(* Turns that are gone, or hidden, are no longer due, and count as settled.*)
NoLongerDue(ids) ==
  /\ run' = [c \in Curators |-> [run[c] EXCEPT !.due = [k \in Kinds |-> run[c].due[k] \ ids]]]
  /\ Settle(ids)

(* A turn comes, said now or earlier.  Ids are reused: one more than the   *)
(* largest.                                                                *)
Ingest(ts) ==
  LET id == MaxId + 1 IN
  /\ id \in Ids
  /\ saidAt' = [i \in DOMAIN saidAt \cup {id} |-> IF i = id THEN ts ELSE saidAt[i]]
  /\ Settle({i \in DOMAIN saidAt : saidAt[i] > ts})
  /\ UNCHANGED <<hidden, now, ends, cursor, named, run>>

DeleteTurn(id) ==
  /\ saidAt' = Restrict(saidAt, DOMAIN saidAt \ {id})
  /\ hidden' = hidden \ {id}
  /\ NoLongerDue({id})
  /\ UNCHANGED <<now, ends, cursor, named>>

ClearTurns ==
  /\ saidAt' = [id \in {} |-> 0] /\ hidden' = {} /\ ends' = <<>> /\ cursor' = 0 /\ named' = TRUE
  /\ NoLongerDue(DOMAIN saidAt)
  /\ UNCHANGED now

HideTurn(id) ==
  /\ id \notin hidden /\ saidAt[id] <= Cutoff
  /\ hidden' = hidden \cup {id}
  /\ NoLongerDue({id})
  /\ UNCHANGED <<saidAt, now, ends, cursor, named>>

UnhideTurn(id) ==
  /\ hidden' = hidden \ {id}
  /\ UNCHANGED <<saidAt, now, ends, cursor, named, run, settled>>

Tick ==
  /\ now < MaxTime
  /\ now' = now + 1
  /\ UNCHANGED <<sweptStore, run, settled>>

SweepNext ==
  \/ \E c \in Curators :
       \/ BeginRun(c) \/ ScanBatch(c) \/ AskMore(c)
       \/ \E k \in Kinds : OpenPage(c, k)
       \/ EndUntold(c) \/ EndTold(c) \/ EndFocused(c) \/ Abandon(c)
  \/ \E i \in DOMAIN ends : UndoRunEnd(i)
  \/ \E ts \in 0..now : Ingest(ts)
  \/ \E id \in DOMAIN saidAt : DeleteTurn(id) \/ HideTurn(id)
  \/ \E id \in hidden : UnhideTurn(id)
  \/ ClearTurns
  \/ Tick

SweepSpec == SweepInit /\ [][SweepNext]_sweepVars

(***************************************************************************)
(* Properties.                                                             *)
(***************************************************************************)

Run == [phase : {"off", "idle", "scan", "ask"}, since : 0..MaxTurns,
        through : [Kinds -> NoPage..MaxTurns], more : [Kinds -> BOOLEAN], kind : Kinds,
        cutoff : -MinAge..MaxTime, at : 0..MaxTurns, scanned : 0..Budget, found : 0..Limit,
        due : [Kinds -> SUBSET Ids]]

(* The types; a page counts no more than its limit and its budget. *)
SweepTypeOK ==
  /\ DOMAIN saidAt \subseteq Ids /\ saidAt \in [DOMAIN saidAt -> 0..MaxTime]
  /\ hidden \subseteq DOMAIN saidAt /\ now \in 0..MaxTime
  /\ ends \in Seq(0..MaxTurns) /\ named \in BOOLEAN
  /\ cursor \in 0..MaxTurns
  /\ run \in [Curators -> Run]
  /\ settled \in [Kinds -> SUBSET Ids]

(* A run that was told there is no more of a kind has looked at every turn *)
(* that was eligible when it asked for the first page of the kind, lies    *)
(* after the cursor in force then, and is eligible still, whatever came,   *)
(* went, grew old or was ended by another run between its pages            *)
(* (finders.rs:10-12, "the id to resume from").                            *)
LastPageIsTheLast ==
  \A c \in Curators, k \in Kinds :
    run[c].phase # "off" /\ ~run[c].more[k] => run[c].due[k] = {}

(* A turn before the cursor that no sweep has looked at for some kind,     *)
(* though it was never hidden, its id was never another's, and nothing that*)
(* came after it was said before it.                                       *)
Skipped(id) == id <= cursor /\ \E k \in Kinds : id \notin settled[k]

(* As long as runs name the cursor they leave, none leaves a turn behind   *)
(* that nobody has looked at, however many run at once and are undone      *)
(* (docs/curator-playbook.md, steps 2 and 6).                              *)
NamedCursorsSkipNothing ==
  named => \A id \in DOMAIN saidAt : ~Skipped(id)

(* "Always close a run, even an empty one, so the next run starts where    *)
(* this one ended" (docs/curator-playbook.md): not after turns this one    *)
(* has not seen.                                                           *)
NextRunStartsWhereThisEnded ==
  \A id \in DOMAIN saidAt : ~Skipped(id)

=============================================================================
