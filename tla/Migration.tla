------------------------------- MODULE Migration -------------------------------
(***************************************************************************)
(* A store of an older schema is opened: Store::open and migrate           *)
(* (crates/zeromem-core/src/store.rs) and the rebuild that ZeroMem::open   *)
(* runs afterwards (lib.rs). Each statement is a transaction of its own:   *)
(* between two of them another process may open the store too, or this one *)
(* may die.                                                                *)
(*                                                                         *)
(* What the file holds is the columns its tables gained over the years, the*)
(* version stamp, and whether some entity rows are of the extraction before*)
(* v5. Processes of earlier builds do not write to it meanwhile.           *)
(***************************************************************************)
EXTENDS Naturals, Sequences

CONSTANT Openers        \* processes, all of this build

SchemaVersion == 6
RebuildBelow == 5

(* The columns later versions added, in the order they are migrated.        *)
Migrations == <<[column |-> "embeddings.seq", by |-> 3],
                [column |-> "turns.kind", by |-> 4],
                [column |-> "turns.scope", by |-> 6]>>

VARIABLES
  version,        \* meta.schema_version; 0: not stamped yet
  columns,        \* the columns of Migrations there are
  oldRows,        \* some entity rows are of the old extraction
  opening,        \* process -> where in open it is: [step, n]
  rebuildLost     \* history: a rebuild that was called for was not made

migrationVars == <<version, columns, oldRows, opening, rebuildLost>>
file == <<version, columns, oldRows>>

(* `n` is the migration the step is about, or the version it has read. *)
At(step, n) == [step |-> step, n |-> n]
Out == At("out", 0)
Open == At("open", 0)

ColumnsOf(v) == {m.column : m \in {Migrations[i] : i \in {j \in 1..3 : Migrations[j].by <= v}}}

(* A file written by any version since v2, or none. *)
MigrationInit ==
  /\ version \in {0} \cup 2..SchemaVersion
  /\ columns = ColumnsOf(version)
  /\ oldRows \in BOOLEAN /\ (oldRows => version \in 2..RebuildBelow-1)
  /\ opening = [p \in Openers |-> Out]
  /\ rebuildLost = FALSE

MovesTo(p, place) == opening' = [opening EXCEPT ![p] = place]

(* CREATE ... IF NOT EXISTS: new tables have what v3 had. *)
CreateTables(p) ==
  /\ opening[p] = Out
  /\ columns' = IF version = 0 THEN columns \cup ColumnsOf(3) ELSE columns
  /\ MovesTo(p, At("looking", 1))
  /\ UNCHANGED <<version, oldRows, rebuildLost>>

(* Bug: the migration that was added last is not run. *)
AfterMigrationButLast(i) == IF i < Len(Migrations) - 1 THEN At("looking", i + 1) ELSE At("reading", 0)

AfterMigration(i) == IF i < Len(Migrations) THEN At("looking", i + 1) ELSE At("reading", 0)

(* PRAGMA table_info: the shape decides, not the stamp. *)
LookAtShape(p) ==
  LET i == opening[p].n
  IN /\ opening[p].step = "looking"
     /\ MovesTo(p, IF Migrations[i].column \in columns THEN AfterMigration(i) ELSE At("adding", i))
     /\ UNCHANGED <<file, rebuildLost>>

(* The embeddings are copied to a new table, again if another process has   *)
(* done so since; a column of turns cannot be added twice, and open fails.  *)
AddColumn(p) ==
  LET i == opening[p].n
      column == Migrations[i].column
  IN /\ opening[p].step = "adding"
     /\ columns' = columns \cup {column}
     /\ MovesTo(p, IF column \in columns /\ column # "embeddings.seq" THEN Out ELSE AfterMigration(i))
     /\ UNCHANGED <<version, oldRows, rebuildLost>>

ReadStamp(p) ==
  /\ opening[p].step = "reading"
  /\ MovesTo(p, IF version < SchemaVersion THEN At("stamping", version) ELSE Open)
  /\ UNCHANGED <<file, rebuildLost>>

(* Bug: only a store below v4 is rebuilt. *)
NeedsRebuildBelow4(stored) == stored # 0 /\ stored < RebuildBelow - 1

NeedsRebuild(stored) == stored # 0 /\ stored < RebuildBelow

Stamp(p) ==
  /\ opening[p].step = "stamping"
  /\ version' = SchemaVersion
  /\ MovesTo(p, IF NeedsRebuild(opening[p].n) THEN At("rebuilding", 0) ELSE Open)
  /\ UNCHANGED <<columns, oldRows, rebuildLost>>

(* One transaction: every turn is extracted again. *)
RebuildOnOpen(p) ==
  /\ opening[p].step = "rebuilding" \/ opening[p] = Open       \* open, or `zm rebuild`
  /\ oldRows' = FALSE
  /\ MovesTo(p, Open)
  /\ UNCHANGED <<version, columns, rebuildLost>>

(* A statement fails (the database stays locked, the disk is full), the     *)
(* process dies, or closes the store.                                       *)
Leave(p) ==
  /\ opening[p] # Out
  /\ MovesTo(p, Out)
  /\ rebuildLost' = (rebuildLost \/ opening[p].step = "rebuilding")
  /\ UNCHANGED file

MigrationNext ==
  \E p \in Openers :
    \/ CreateTables(p) \/ LookAtShape(p) \/ AddColumn(p) \/ ReadStamp(p)
    \/ Stamp(p) \/ RebuildOnOpen(p) \/ Leave(p)

MigrationSpec == MigrationInit /\ [][MigrationNext]_migrationVars

--------------------------------------------------------------------------------

Steps == {"out", "looking", "adding", "reading", "stamping", "rebuilding", "open"}

MigrationTypeOK ==
  /\ version \in 0..SchemaVersion
  /\ columns \subseteq ColumnsOf(SchemaVersion)
  /\ oldRows \in BOOLEAN /\ rebuildLost \in BOOLEAN
  /\ opening \in [Openers -> [step : Steps, n : 0..SchemaVersion]]

(* Whoever dies and whoever opens meanwhile: a store has every column of the *)
(* version it is stamped with, and of this one if a process has it open; so *)
(* that the shape can be repaired on any open and no statement meets a table *)
(* without its column (store.rs:290-349).                                   *)
StampNotAheadOfShape ==
  /\ ColumnsOf(version) \subseteq columns
  /\ (\E p \in Openers : opening[p] = Open) => columns = ColumnsOf(SchemaVersion)

(* Entity rows of the old extraction are left behind a current stamp only   *)
(* while the rebuild is under way, or when it was lost: never because two    *)
(* processes migrated at once, or by way of a version in between            *)
(* (store.rs:275-282, lib.rs:103-107).                                      *)
OldRowsOnlyByALostRebuild ==
  oldRows /\ version = SchemaVersion
    => rebuildLost \/ \E p \in Openers : opening[p].step = "rebuilding"

(* store.rs:39: "a store below it re-derives its entity tables once on open". *)
(* No process that has opened the store, with none still rebuilding, finds  *)
(* rows of the old extraction.                                              *)
OpenedIsRederived ==
  (\E p \in Openers : opening[p] = Open) /\ (\A p \in Openers : opening[p].step # "rebuilding")
    => ~oldRows

================================================================================
