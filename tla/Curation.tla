------------------------------ MODULE Curation ------------------------------
(***************************************************************************)
(* The curation log and what is folded from it: the flags of the turns and *)
(* the notes that stand for some of them.                                  *)
(* crates/zeromem-core/src/curation/mod.rs, curate_apply and curate_undo.  *)
(*                                                                         *)
(* Each action below is one transaction.  A call of several actions        *)
(* validates each against the store as the earlier ones left it, so it is  *)
(* so many steps here; a refused action and a dry run change nothing and   *)
(* are no step.                                                            *)
(*                                                                         *)
(* A turn is its uuid.  The uuid of a note is a hash of its sources' uuids,*)
(* so there is one note for a set of sources, whoever writes it and however*)
(* often.  Entity rules, briefs and the run cursor are other folds over the*)
(* same log and are not in this module; the turns are all of one scope, and*)
(* the age a turn must have (now less min_age_ms) is taken to have passed. *)
(***************************************************************************)
EXTENDS Integers, FiniteSets, Sequences, SequencesExt

CONSTANTS
  Said,           \* the turns hosts ingest
  Notes,          \* the notes curators may write
  SourcesOf,      \* the turns each is written over
  Sessions,
  SessionOf,      \* the session each turn is said in
  TsOf,           \* the time each is said at
  NoTurn,         \* superseded by nothing
  Runs,           \* curation runs
  MaxPerRun,      \* config.max_per_run
  MaxLog          \* bound: how long the log grows

ASSUME SaidAssumption == SessionOf \in [Said -> Sessions] /\ TsOf \in [Said -> Nat]
ASSUME NotesAssumption ==
  /\ SourcesOf \in [Notes -> (SUBSET Said) \ {{}}]
  /\ \A m, n \in Notes : SourcesOf[m] = SourcesOf[n] => m = n
  /\ Notes \cap Said = {} /\ NoTurn \notin Notes \cup Said

VARIABLES
  turns,          \* uuid -> session
  flags,          \* uuid -> [hidden, by]
  noteSources,    \* {<<note, source>>}
  log,            \* the actions, oldest first; an id is a position
  returned        \* history: uuids stored again after they were deleted

vars == <<turns, flags, noteSources, log, returned>>

Turns == Said \cup Notes

(* A note is as old as its newest source. *)
Ts(u) == IF u \in Notes THEN Max({TsOf[s] : s \in SourcesOf[u]}) ELSE TsOf[u]

Unflagged == [hidden |-> FALSE, by |-> NoTurn]
Flag == [hidden : BOOLEAN, by : Turns \cup {NoTurn}]

(* `turns` is the payload: the turns the action changed.  `asked` is the   *)
(* turns its caller named, which the code does not keep.                   *)
Action == [run : Runs, op : {"hide", "unhide", "supersede", "note"},
           asked : SUBSET Turns, turns : SUBSET Turns,
           by : Turns \cup {NoTurn}, undone : BOOLEAN]

Init ==
  /\ turns = SessionOf
  /\ flags = [u \in Said |-> Unflagged]
  /\ noteSources = {}
  /\ log = <<>>
  /\ returned = {}

(***************************************************************************)
(* The fold.                                                               *)
(***************************************************************************)

(* Bug: an undone action still counts. *)
LiveUndone(actions, ops, u) ==
  {i \in DOMAIN actions : actions[i].op \in ops /\ u \in actions[i].turns}

(* The live actions of `actions` that name `u`. *)
Live(actions, ops, u) ==
  {i \in DOMAIN actions :
     ~actions[i].undone /\ actions[i].op \in ops /\ u \in actions[i].turns}

Hidden(actions, u) ==
  LET hides == Live(actions, {"hide", "unhide"}, u) IN
  hides # {} /\ actions[Max(hides)].op = "hide"

SupersededBy(actions, u, present) ==
  LET supersedes == Live(actions, {"supersede"}, u) IN
  IF supersedes # {} /\ actions[Max(supersedes)].by \in present
  THEN actions[Max(supersedes)].by ELSE NoTurn

(* recompute_flags: the flags of the turns `us` refolded, over the store   *)
(* and the log as the transaction leaves them.  A flag whose `by` is gone  *)
(* loses it (ON DELETE SET NULL), and a turn that is gone its flag.        *)
RecomputeFlags(us) ==
  flags' = [u \in DOMAIN turns' |->
    IF u \in us
    THEN [hidden |-> Hidden(log', u), by |-> SupersededBy(log', u, DOMAIN turns')]
    ELSE IF u \notin DOMAIN flags THEN Unflagged
    ELSE [flags[u] EXCEPT !.by = IF @ \in DOMAIN turns' THEN @ ELSE NoTurn]]

(* Bug: a note's row outlives its source. *)
KeepSourcesOfNote(present) == {ns \in noteSources : ns[1] \in present}

(* Rows of note_sources go with the note or with the source. *)
KeepSources(present) ==
  {ns \in noteSources : ns[1] \in present /\ ns[2] \in present}

(***************************************************************************)
(* curate_apply.                                                           *)
(***************************************************************************)

(* The run has not reached its limit; undone actions count too. *)
RunHasRoom(run) ==
  Cardinality({i \in DOMAIN log : log[i].run = run}) < MaxPerRun

Record(run, op, asked, named, by) ==
  /\ Len(log) < MaxLog
  /\ RunHasRoom(run)
  /\ log' = Append(log, [run |-> run, op |-> op, asked |-> asked, turns |-> named,
                         by |-> by, undone |-> FALSE])

(* Only the turns the action changes are in its payload, and one that      *)
(* changes none is refused.                                                *)
Hide(run, us) ==
  LET changed == {u \in us : ~flags[u].hidden} IN
  /\ changed # {}
  /\ Record(run, "hide", us, changed, NoTurn)
  /\ UNCHANGED <<turns, noteSources, returned>>
  /\ RecomputeFlags(changed)

Unhide(run, us) ==
  LET changed == {u \in us : flags[u].hidden} IN
  /\ changed # {}
  /\ Record(run, "unhide", us, changed, NoTurn)
  /\ UNCHANGED <<turns, noteSources, returned>>
  /\ RecomputeFlags(changed)

Supersede(run, us, by) ==
  LET changed == {u \in us : flags[u].by # by} IN
  /\ by \notin us
  /\ \A u \in us : Ts(u) <= Ts(by)
  /\ changed # {}
  /\ flags[by].by \notin us
  /\ Record(run, "supersede", us, changed, by)
  /\ UNCHANGED <<turns, noteSources, returned>>
  /\ RecomputeFlags(changed)

(* The curator writes the note into a session of its choice. *)
WriteNote(run, note, session) ==
  /\ SourcesOf[note] \subseteq DOMAIN turns
  /\ note \notin DOMAIN turns
  /\ Record(run, "note", {note}, {note}, NoTurn)
  /\ turns' = [u \in DOMAIN turns \cup {note} |-> IF u = note THEN session ELSE turns[u]]
  /\ noteSources' = noteSources \cup {<<note, s>> : s \in SourcesOf[note]}
  /\ returned' = returned \cup {u \in {note} : \E i \in DOMAIN log : u \in log[i].turns}
  /\ RecomputeFlags({})

Apply(run) ==
  \/ \E us \in SUBSET DOMAIN turns :
       \/ Hide(run, us)
       \/ Unhide(run, us)
       \/ \E by \in DOMAIN turns : Supersede(run, us, by)
  \/ \E note \in Notes, session \in Sessions : WriteNote(run, note, session)

(***************************************************************************)
(* curate_undo.                                                            *)
(***************************************************************************)

(* Bug: a note's flags and its `by` links are left to the next recompute. *)
UndoWithoutRefold(ids) ==
  LET notes == {u \in Notes : \E i \in ids : log[i].op = "note" /\ u \in log[i].turns} IN
  /\ log' = [i \in DOMAIN log |-> [log[i] EXCEPT !.undone = @ \/ i \in ids]]
  /\ turns' = Restrict(turns, DOMAIN turns \ notes)
  /\ noteSources' = KeepSources(DOMAIN turns')
  /\ UNCHANGED returned
  /\ RecomputeFlags({})

(* Bug: the note the action wrote stays. *)
UndoLeavingNotes(ids) ==
  /\ log' = [i \in DOMAIN log |-> [log[i] EXCEPT !.undone = @ \/ i \in ids]]
  /\ UNCHANGED <<turns, noteSources, returned>>
  /\ RecomputeFlags(UNION {log[i].turns : i \in ids})

(* The actions `ids` are marked undone, newest first; what each named is   *)
(* refolded, and the note it wrote is deleted.                             *)
Undo(ids) ==
  LET notes == {u \in Notes : \E i \in ids : log[i].op = "note" /\ u \in log[i].turns}
      named == (UNION {log[i].turns : i \in ids}) \ notes
  IN
  /\ log' = [i \in DOMAIN log |-> [log[i] EXCEPT !.undone = @ \/ i \in ids]]
  /\ turns' = Restrict(turns, DOMAIN turns \ notes)
  /\ noteSources' = KeepSources(DOMAIN turns')
  /\ UNCHANGED returned
  /\ RecomputeFlags(named)

UndoAction(i) == ~log[i].undone /\ Undo({i})

UndoRun(run) ==
  LET ids == {i \in DOMAIN log : log[i].run = run /\ ~log[i].undone} IN
  ids # {} /\ Undo(ids)

(***************************************************************************)
(* The store's own writes.                                                 *)
(***************************************************************************)

(* A turn ingested again after its session was forgotten. *)
IngestAgain(u) ==
  /\ u \notin DOMAIN turns
  /\ returned' = returned \cup {u}
  /\ turns' = [v \in DOMAIN turns \cup {u} |-> IF v = u THEN SessionOf[u] ELSE turns[v]]
  /\ UNCHANGED <<noteSources, log>>
  /\ RecomputeFlags({})

DeleteSession(session) ==
  LET gone == {u \in DOMAIN turns : turns[u] = session} IN
  /\ gone # {}
  /\ turns' = Restrict(turns, DOMAIN turns \ gone)
  /\ noteSources' = KeepSources(DOMAIN turns')
  /\ UNCHANGED <<log, returned>>
  /\ RecomputeFlags({})

(* clear_memory empties the log with the rest. *)
ClearMemory ==
  /\ turns' = [u \in {} |-> u]
  /\ flags' = [u \in {} |-> u]
  /\ noteSources' = {}
  /\ log' = <<>>
  /\ returned' = {}

Next ==
  \/ \E run \in Runs : Apply(run) \/ UndoRun(run)
  \/ \E i \in DOMAIN log : UndoAction(i)
  \/ \E u \in Said : IngestAgain(u)
  \/ \E session \in Sessions : DeleteSession(session)
  \/ ClearMemory

Spec == Init /\ [][Next]_vars

(***************************************************************************)
(* Properties.                                                             *)
(***************************************************************************)

(* The types of the curation tables, and a flag for every turn there is. *)
TypeOK ==
  /\ DOMAIN turns \subseteq Turns
  /\ turns \in [DOMAIN turns -> Sessions]
  /\ flags \in [DOMAIN turns -> Flag]
  /\ noteSources \subseteq (Notes \cap DOMAIN turns) \X (Said \cap DOMAIN turns)
  /\ log \in Seq(Action) /\ returned \subseteq Turns

(* What one action says of every turn, on top of what was said before it.  *)
Replayed(st, a) ==
  [u \in Turns |->
     IF a.undone \/ u \notin a.turns \/ a.op = "note" THEN st[u]
     ELSE CASE a.op = "hide"      -> [st[u] EXCEPT !.hidden = TRUE]
            [] a.op = "unhide"    -> [st[u] EXCEPT !.hidden = FALSE]
            [] a.op = "supersede" -> [st[u] EXCEPT !.by = a.by]]

(* A log replayed from its beginning, undone actions left out: the flags of*)
(* every turn that ever was.                                               *)
Replay(actions) ==
  LET after[n \in 0..Len(actions)] ==
        IF n = 0 THEN [u \in Turns |-> Unflagged] ELSE Replayed(after[n-1], actions[n])
  IN after[Len(actions)]

ReplayedLog == Replay(log)

(* The flags, refolded only for the turns an apply or an undo names, are  *)
(* those of a replay of the whole log, with a `by` that is gone left out,  *)
(* but for what was deleted and stored again: "undoing in any order lands  *)
(* where never having applied would have" (curation/mod.rs:10-14).         *)
FlagsFoldTheLog ==
  \A u \in DOMAIN turns \ returned :
    LET by == ReplayedLog[u].by IN
    /\ flags[u].hidden = ReplayedLog[u].hidden
    /\ by \notin returned => flags[u].by = IF by \in DOMAIN turns THEN by ELSE NoTurn

(* "The log is the source of truth. turn_flags [...] are folds over the    *)
(* actions that are not undone" (curation/mod.rs:10-12): for every turn.   *)
LogIsTheTruth ==
  \A u \in DOMAIN turns : flags[u].hidden = ReplayedLog[u].hidden

(* No flag outlives what the log says of it, even of a turn that was       *)
(* forgotten and ingested again.                                           *)
NoFlagOutlivesTheLog ==
  \A u \in DOMAIN turns :
    /\ flags[u].hidden => ReplayedLog[u].hidden
    /\ flags[u].by \in {NoTurn, ReplayedLog[u].by}

(* A note that no live action wrote is not in the store, and one in the    *)
(* store covers those of its sources that stayed (curate_undo "note").     *)
NotesOfTheLog ==
  \A note \in Notes \cap DOMAIN turns :
    /\ \E i \in DOMAIN log : log[i].op = "note" /\ note \in log[i].turns /\ ~log[i].undone
    /\ \A s \in (SourcesOf[note] \cap DOMAIN turns) \ returned : <<note, s>> \in noteSources

(* The actions that were undone were never applied: what their callers and *)
(* the others asked for, with the undone ones left out, says what is hidden*)
(* (curation/mod.rs:13-14, "undoing in any order lands where never having  *)
(* applied would have").                                                   *)
UndoneAsNeverApplied ==
  \A u \in DOMAIN turns \ returned :
    LET asked == {i \in DOMAIN log : /\ ~log[i].undone
                                     /\ log[i].op \in {"hide", "unhide"}
                                     /\ u \in log[i].asked} IN
    flags[u].hidden <=> asked # {} /\ log[Max(asked)].op = "hide"

=============================================================================
