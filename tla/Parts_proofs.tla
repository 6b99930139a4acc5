----------------------------- MODULE Parts_proofs ------------------------------
(***************************************************************************)
(* Theorems about the other parts of the run of MCParts: the opening of    *)
(* older stores, the settings page, the queries of the admin pages, the    *)
(* curator agent and recall, one after another; then of the run as a whole.*)
(***************************************************************************)
EXTENDS MCParts, Curation_proofs, Entities_proofs, Sweep_proofs


(***************************************************************************)
(* Of the opening of older stores, for any processes: the type; that the   *)
(* stamp is never ahead of the tables; and that rows of the old extraction *)
(* are left behind it only by a rebuild that was lost.                     *)
(*                                                                         *)
(* Neither is inductive. What is behind a process on its way through open  *)
(* stays done, as columns are only ever added (ShapeBehind); and a process *)
(* about to stamp a store with old rows has read a version that is rebuilt,*)
(* as old rows never come back (StampsRebuild).                            *)
(***************************************************************************)

HasUpTo(i, cols) == \A j \in 1..i : Migrations[j].column \in cols

ShapeBehind(place, cols) ==
  /\ place.step \in {"looking", "adding"} => place.n \in 1..3 /\ HasUpTo(place.n - 1, cols)
  /\ place.step \in {"reading", "stamping", "rebuilding", "open"} => HasUpTo(3, cols)

StampsRebuild(place) == oldRows /\ place.step = "stamping" => place.n \in 2..RebuildBelow-1

MigrationInv ==
  /\ MigrationTypeOK
  /\ ColumnsOf(version) \subseteq columns
  /\ oldRows => version \in (2..RebuildBelow-1) \cup {SchemaVersion}
  /\ \A p \in Openers : ShapeBehind(opening[p], columns) /\ StampsRebuild(opening[p])
  /\ OldRowsOnlyByALostRebuild

Places == [step : Steps, n : 0..SchemaVersion]

--------------------------------------------------------------------------------
(* The three migrations.                                                    *)

LEMMA TheMigrations ==
  /\ Len(Migrations) = 3
  /\ Migrations[1] = [column |-> "embeddings.seq", by |-> 3]
  /\ Migrations[2] = [column |-> "turns.kind", by |-> 4]
  /\ Migrations[3] = [column |-> "turns.scope", by |-> 6]
  BY DEF Migrations

(* A column belongs to every version from its own on. *)
LEMMA ColumnsByVersion ==
  ASSUME NEW v \in Nat, NEW c
  PROVE  c \in ColumnsOf(v) <=> \E j \in 1..3 : Migrations[j].by <= v /\ c = Migrations[j].column
  BY DEF ColumnsOf

LEMMA AllColumns == \A j \in 1..3 : Migrations[j].column \in ColumnsOf(SchemaVersion)
  <1>1. \A j \in 1..3 : Migrations[j].by <= SchemaVersion
    BY TheMigrations DEF SchemaVersion
  <1>2. QED BY <1>1, ColumnsByVersion DEF SchemaVersion

(* Tables that were taken through all migrations have this build's shape.   *)
LEMMA FullShape ==
  ASSUME NEW cols, cols \subseteq ColumnsOf(SchemaVersion), HasUpTo(3, cols)
  PROVE  cols = ColumnsOf(SchemaVersion)
  <1>1. \A c \in ColumnsOf(SchemaVersion) : c \in cols
    BY ColumnsByVersion DEF HasUpTo, SchemaVersion
  <1>2. QED BY <1>1

(* What was behind a process stays behind it when columns are added.        *)
LEMMA ShapeStays ==
  ASSUME NEW place, NEW cols, NEW more, cols \subseteq more, ShapeBehind(place, cols)
  PROVE  ShapeBehind(place, more)
  BY DEF ShapeBehind, HasUpTo

(* After a migration whose column is there comes the next, or the stamp.    *)
LEMMA AfterAMigration ==
  ASSUME NEW i \in 1..3, NEW cols, HasUpTo(i - 1, cols), Migrations[i].column \in cols
  PROVE  /\ AfterMigration(i) \in Places
         /\ ShapeBehind(AfterMigration(i), cols)
         /\ AfterMigration(i).step \in {"looking", "reading"}
  <1>1. HasUpTo(i, cols)
    <2>1. \A j \in 1..i : j \in 1..(i-1) \/ j = i OBVIOUS
    <2>2. QED BY <2>1 DEF HasUpTo
  <1>2. CASE i < 3
    <2>1. AfterMigration(i) = At("looking", i + 1)
      BY <1>2, TheMigrations DEF AfterMigration
    <2>2. i + 1 \in 1..3 /\ (i + 1) - 1 = i BY <1>2
    <2>3. QED BY <1>1, <2>1, <2>2 DEF At, Places, Steps, SchemaVersion, ShapeBehind
  <1>3. CASE i = 3
    <2>1. AfterMigration(i) = At("reading", 0)
      BY <1>3, TheMigrations DEF AfterMigration
    <2>2. QED BY <1>1, <1>3, <2>1 DEF At, Places, Steps, SchemaVersion, ShapeBehind
  <1>4. QED BY <1>2, <1>3

--------------------------------------------------------------------------------

LEMMA MigrationBegins == MigrationInit => MigrationInv
  <1> SUFFICES ASSUME MigrationInit PROVE MigrationInv
    OBVIOUS
  <1>1. version \in 0..SchemaVersion /\ columns = ColumnsOf(version)
    BY DEF MigrationInit, SchemaVersion
  <1>2. columns \subseteq ColumnsOf(SchemaVersion)
    <2>1. version \in Nat BY <1>1 DEF SchemaVersion
    <2>2. \A c \in columns : \E j \in 1..3 : c = Migrations[j].column
      BY <1>1, <2>1, ColumnsByVersion
    <2>3. QED BY <2>2, AllColumns
  <1>3. \A p \in Openers : opening[p] = Out
    BY DEF MigrationInit
  <1>4. opening \in [Openers -> Places]
    BY DEF MigrationInit, Out, At, Places, Steps, SchemaVersion
  <1>5. MigrationTypeOK
    <2>1. oldRows \in BOOLEAN /\ rebuildLost \in BOOLEAN
      BY Zenon DEF MigrationInit
    <2>2. QED BY <1>1, <1>2, <1>4, <2>1 DEF MigrationTypeOK, Places
  <1>6. \A p \in Openers : ShapeBehind(opening[p], columns) /\ StampsRebuild(opening[p])
    <2>1. Out.step = "out" BY DEF Out, At
    <2>2. ShapeBehind(Out, columns) /\ StampsRebuild(Out)
      BY <2>1 DEF ShapeBehind, StampsRebuild
    <2>3. QED BY <1>3, <2>2
  <1>7. oldRows => version \in 2..RebuildBelow-1
    BY DEF MigrationInit
  <1>8. OldRowsOnlyByALostRebuild
    BY <1>7 DEF OldRowsOnlyByALostRebuild, RebuildBelow, SchemaVersion
  <1>9. QED BY <1>1, <1>5, <1>6, <1>7, <1>8 DEF MigrationInv

(* One process moves on, and the file is as it was but for columns it may   *)
(* have gained.                                                             *)
LEMMA OneMovesOn ==
  ASSUME MigrationInv, NEW p \in Openers, NEW place \in Places, MovesTo(p, place),
         UNCHANGED <<version, oldRows>>, rebuildLost' \in BOOLEAN, rebuildLost => rebuildLost',
         columns \subseteq columns', columns' \subseteq ColumnsOf(SchemaVersion),
         ShapeBehind(place, columns'), StampsRebuild(place),
         opening[p].step = "rebuilding" => rebuildLost' \/ place.step = "rebuilding"
  PROVE  MigrationInv'
  <1>1. opening \in [Openers -> Places] BY DEF MigrationInv, MigrationTypeOK, Places
  <1>2. opening' \in [Openers -> Places] BY <1>1 DEF MovesTo
  <1>3. MigrationTypeOK'
    BY <1>2 DEF MigrationInv, MigrationTypeOK, Places
  <1>4. opening'[p] = place /\ \A o \in Openers \ {p} : opening'[o] = opening[o]
    BY <1>1 DEF MovesTo
  <1>5. \A o \in Openers : ShapeBehind(opening'[o], columns') /\ StampsRebuild(opening'[o])
    BY <1>4, ShapeStays DEF MigrationInv
  <1>6. OldRowsOnlyByALostRebuild'
    <2> SUFFICES ASSUME oldRows, version = SchemaVersion
                 PROVE  rebuildLost' \/ \E o \in Openers : opening'[o].step = "rebuilding"
      BY DEF OldRowsOnlyByALostRebuild
    <2>1. rebuildLost \/ \E o \in Openers : opening[o].step = "rebuilding"
      BY DEF MigrationInv, OldRowsOnlyByALostRebuild
    <2>2. CASE rebuildLost BY <2>2
    <2>3. ASSUME NEW o \in Openers, opening[o].step = "rebuilding"
          PROVE  rebuildLost' \/ \E q \in Openers : opening'[q].step = "rebuilding"
      BY <2>3, <1>4
    <2>4. QED BY <2>1, <2>2, <2>3
  <1>7. ColumnsOf(version)' \subseteq columns'
    BY DEF MigrationInv, ColumnsOf
  <1>8. \A o \in Openers : ShapeBehind(opening[o], columns)' /\ StampsRebuild(opening[o])'
    BY <1>5 DEF ShapeBehind, HasUpTo, StampsRebuild
  <1>9. QED BY <1>3, <1>6, <1>7, <1>8 DEF MigrationInv

--------------------------------------------------------------------------------

LEMMA TablesCreated ==
  ASSUME MigrationInv, NEW p \in Openers, CreateTables(p)
  PROVE  MigrationInv'
  <1> DEFINE place == At("looking", 1)
  <1>1. columns \subseteq columns' /\ columns' \subseteq ColumnsOf(SchemaVersion)
    <2>1. ColumnsOf(3) \subseteq ColumnsOf(SchemaVersion)
      <3>1. \A c \in ColumnsOf(3) : \E j \in 1..3 : c = Migrations[j].column
        BY ColumnsByVersion
      <3>2. QED BY <3>1, AllColumns
    <2>2. QED BY <2>1 DEF CreateTables, MigrationInv, MigrationTypeOK
  <1>2. place \in Places /\ ShapeBehind(place, columns') /\ StampsRebuild(place)
    BY DEF At, Places, Steps, SchemaVersion, ShapeBehind, HasUpTo, StampsRebuild
  <1>3. MovesTo(p, place) /\ UNCHANGED <<version, oldRows, rebuildLost>> /\ opening[p] = Out
    BY DEF CreateTables
  <1>4. opening[p].step # "rebuilding" BY <1>3 DEF Out, At
  <1>5. QED
    BY <1>1, <1>2, <1>3, <1>4, OneMovesOn DEF MigrationInv, MigrationTypeOK

(* Places of a process that is not past reading the stamp. *)
LEMMA BeforeTheStamp ==
  ASSUME NEW place, place.step \in {"out", "looking", "adding", "reading", "open"}
  PROVE  StampsRebuild(place)
  BY DEF StampsRebuild

LEMMA ShapeLookedAt ==
  ASSUME MigrationInv, NEW p \in Openers, LookAtShape(p)
  PROVE  MigrationInv'
  <1> DEFINE i == opening[p].n
             place == IF Migrations[i].column \in columns THEN AfterMigration(i) ELSE At("adding", i)
  <1>1. opening[p].step = "looking" /\ MovesTo(p, place) /\ UNCHANGED <<file, rebuildLost>>
    BY DEF LookAtShape
  <1>2. i \in 1..3 /\ HasUpTo(i - 1, columns)
    BY <1>1 DEF MigrationInv, ShapeBehind
  <1>3. place \in Places /\ ShapeBehind(place, columns) /\ StampsRebuild(place)
    <2>1. CASE Migrations[i].column \in columns
      BY <1>2, <2>1, AfterAMigration, BeforeTheStamp
    <2>2. CASE Migrations[i].column \notin columns
      <3>1. place = At("adding", i) BY <2>2
      <3>2. At("adding", i) \in Places
        BY <1>2 DEF At, Places, Steps, SchemaVersion
      <3>3. ShapeBehind(At("adding", i), columns) /\ StampsRebuild(At("adding", i))
        BY <1>2 DEF At, ShapeBehind, StampsRebuild
      <3>4. QED BY <3>1, <3>2, <3>3
    <2>3. QED BY <2>1, <2>2
  <1> HIDE DEF place
  <1>4. QED
    BY <1>1, <1>3, OneMovesOn DEF file, MigrationInv, MigrationTypeOK

LEMMA ColumnAdded ==
  ASSUME MigrationInv, NEW p \in Openers, AddColumn(p)
  PROVE  MigrationInv'
  <1> DEFINE i == opening[p].n
             column == Migrations[i].column
             place == IF column \in columns /\ column # "embeddings.seq" THEN Out ELSE AfterMigration(i)
  <1>1. /\ opening[p].step = "adding" /\ MovesTo(p, place)
        /\ columns' = columns \cup {column} /\ UNCHANGED <<version, oldRows, rebuildLost>>
    BY DEF AddColumn
  <1>2. i \in 1..3 /\ HasUpTo(i - 1, columns)
    BY <1>1 DEF MigrationInv, ShapeBehind
  <1>3. columns' \subseteq ColumnsOf(SchemaVersion)
    BY <1>1, <1>2, AllColumns DEF MigrationInv, MigrationTypeOK
  <1>4. HasUpTo(i - 1, columns') /\ column \in columns'
    BY <1>1, <1>2 DEF HasUpTo
  <1>5. AfterMigration(i) \in Places /\ ShapeBehind(AfterMigration(i), columns')
          /\ StampsRebuild(AfterMigration(i))
    BY <1>2, <1>4, AfterAMigration, BeforeTheStamp
  <1>6. Out \in Places /\ ShapeBehind(Out, columns') /\ StampsRebuild(Out)
    BY DEF Out, At, Places, Steps, SchemaVersion, ShapeBehind, StampsRebuild
  <1>7. place \in Places /\ ShapeBehind(place, columns') /\ StampsRebuild(place)
    BY <1>5, <1>6
  <1> HIDE DEF place, column
  <1>8. QED
    BY <1>1, <1>3, <1>7, OneMovesOn DEF MigrationInv, MigrationTypeOK

(* A version that is read while there are old rows is one that is rebuilt,  *)
(* or this build's.                                                         *)
LEMMA StampRead ==
  ASSUME MigrationInv, NEW p \in Openers, ReadStamp(p)
  PROVE  MigrationInv'
  <1> DEFINE place == IF version < SchemaVersion THEN At("stamping", version) ELSE Open
  <1>1. opening[p].step = "reading" /\ MovesTo(p, place) /\ UNCHANGED <<file, rebuildLost>>
    BY DEF ReadStamp
  <1>2. HasUpTo(3, columns)
    BY <1>1 DEF MigrationInv, ShapeBehind
  <1>3. version \in 0..SchemaVersion BY DEF MigrationInv, MigrationTypeOK
  <1>4. place \in Places /\ ShapeBehind(place, columns) /\ StampsRebuild(place)
    <2>1. CASE version < SchemaVersion
      <3>1. place = At("stamping", version) BY <2>1
      <3>2. oldRows => version \in 2..RebuildBelow-1
        BY <2>1 DEF MigrationInv, SchemaVersion
      <3>3. QED
        BY <1>2, <1>3, <3>1, <3>2 DEF At, Places, Steps, SchemaVersion, ShapeBehind, StampsRebuild
    <2>2. CASE ~(version < SchemaVersion)
      <3>1. place = At("open", 0) BY <2>2 DEF Open
      <3>2. QED
        BY <1>2, <3>1 DEF At, Places, Steps, SchemaVersion, ShapeBehind, StampsRebuild
    <2>3. QED BY <2>1, <2>2
  <1> HIDE DEF place
  <1>5. QED
    BY <1>1, <1>4, OneMovesOn DEF file, MigrationInv, MigrationTypeOK

(* The stamp: the tables are there, and old rows are about to be rebuilt.   *)
LEMMA Stamped ==
  ASSUME MigrationInv, NEW p \in Openers, Stamp(p)
  PROVE  MigrationInv'
  <1> DEFINE place == IF NeedsRebuild(opening[p].n) THEN At("rebuilding", 0) ELSE Open
  <1>1. /\ opening[p].step = "stamping" /\ version' = SchemaVersion /\ MovesTo(p, place)
        /\ UNCHANGED <<columns, oldRows, rebuildLost>>
    BY DEF Stamp
  <1>2. HasUpTo(3, columns) /\ columns = ColumnsOf(SchemaVersion)
    BY <1>1, FullShape DEF MigrationInv, MigrationTypeOK, ShapeBehind
  <1>3. place \in Places /\ place.step \in {"rebuilding", "open"}
    BY DEF Open, At, Places, Steps, SchemaVersion
  <1>4. oldRows => place.step = "rebuilding"
    <2>1. oldRows => NeedsRebuild(opening[p].n)
      BY <1>1 DEF MigrationInv, StampsRebuild, NeedsRebuild, RebuildBelow
    <2>2. QED BY <2>1 DEF At
  <1> HIDE DEF place
  <1>5. opening \in [Openers -> Places] BY DEF MigrationInv, MigrationTypeOK, Places
  <1>6. opening'[p] = place /\ \A o \in Openers \ {p} : opening'[o] = opening[o]
    BY <1>1, <1>5 DEF MovesTo
  <1>7. MigrationTypeOK'
    <2>1. opening' \in [Openers -> Places] BY <1>1, <1>3, <1>5 DEF MovesTo
    <2>2. QED BY <1>1, <2>1 DEF MigrationInv, MigrationTypeOK, Places, SchemaVersion, ColumnsOf
  <1>8. \A o \in Openers : ShapeBehind(opening[o], columns)' /\ StampsRebuild(opening[o])'
    <2>1. ShapeBehind(place, columns) /\ StampsRebuild(place)
      BY <1>2, <1>3 DEF ShapeBehind, StampsRebuild
    <2>2. \A o \in Openers : ShapeBehind(opening'[o], columns) /\ StampsRebuild(opening'[o])
      BY <1>6, <2>1 DEF MigrationInv
    <2>3. QED BY <1>1, <2>2 DEF ShapeBehind, HasUpTo, StampsRebuild
  <1>9. ColumnsOf(version)' \subseteq columns'
    BY <1>1, <1>2 DEF ColumnsOf
  <1>10. OldRowsOnlyByALostRebuild'
    BY <1>1, <1>4, <1>6 DEF OldRowsOnlyByALostRebuild
  <1>11. QED BY <1>1, <1>7, <1>8, <1>9, <1>10 DEF MigrationInv

(* Nothing old is left. *)
LEMMA RebuiltOnOpen ==
  ASSUME MigrationInv, NEW p \in Openers, RebuildOnOpen(p)
  PROVE  MigrationInv'
  <1>1. /\ oldRows' = FALSE /\ MovesTo(p, Open) /\ UNCHANGED <<version, columns, rebuildLost>>
        /\ opening[p].step \in {"rebuilding", "open"}
    BY DEF RebuildOnOpen, Open, At
  <1>2. HasUpTo(3, columns) BY <1>1 DEF MigrationInv, ShapeBehind
  <1>3. opening \in [Openers -> Places] /\ Open \in Places
    BY DEF MigrationInv, MigrationTypeOK, Places, Open, At, Steps, SchemaVersion
  <1>4. opening'[p] = Open /\ \A o \in Openers \ {p} : opening'[o] = opening[o]
    BY <1>1, <1>3 DEF MovesTo
  <1>5. MigrationTypeOK'
    <2>1. opening' \in [Openers -> Places] BY <1>1, <1>3 DEF MovesTo
    <2>2. QED BY <1>1, <2>1 DEF MigrationInv, MigrationTypeOK, Places, ColumnsOf
  <1>6. \A o \in Openers : ShapeBehind(opening'[o], columns)
    <2>1. ShapeBehind(Open, columns) BY <1>2 DEF ShapeBehind, Open, At
    <2>2. QED BY <1>4, <2>1 DEF MigrationInv
  <1>7. ~oldRows' BY <1>1
  <1>8. \A o \in Openers : ShapeBehind(opening[o], columns)' /\ StampsRebuild(opening[o])'
    BY <1>1, <1>6, <1>7 DEF ShapeBehind, HasUpTo, StampsRebuild
  <1>9. ColumnsOf(version)' \subseteq columns'
    BY <1>1 DEF MigrationInv, ColumnsOf
  <1>10. QED
    BY <1>5, <1>7, <1>8, <1>9 DEF MigrationInv, OldRowsOnlyByALostRebuild

(* A process that dies while it rebuilds has lost the rebuild. *)
LEMMA Left ==
  ASSUME MigrationInv, NEW p \in Openers, Leave(p)
  PROVE  MigrationInv'
  <1>1. /\ MovesTo(p, Out) /\ UNCHANGED file
        /\ rebuildLost' = (rebuildLost \/ opening[p].step = "rebuilding")
    BY DEF Leave
  <1>2. Out \in Places /\ ShapeBehind(Out, columns) /\ StampsRebuild(Out)
    BY DEF Out, At, Places, Steps, SchemaVersion, ShapeBehind, StampsRebuild
  <1>3. rebuildLost' \in BOOLEAN /\ (rebuildLost => rebuildLost')
          /\ (opening[p].step = "rebuilding" => rebuildLost')
    BY <1>1, Zenon
  <1>4. columns' = columns /\ columns \subseteq ColumnsOf(SchemaVersion) /\ UNCHANGED <<version, oldRows>>
    BY <1>1 DEF file, MigrationInv, MigrationTypeOK
  <1>5. QED BY <1>1, <1>2, <1>3, <1>4, OneMovesOn

LEMMA NothingMoves ==
  ASSUME MigrationInv, UNCHANGED migrationVars
  PROVE  MigrationInv'
  BY DEF migrationVars, MigrationInv, MigrationTypeOK, ColumnsOf, ShapeBehind, HasUpTo,
         StampsRebuild, OldRowsOnlyByALostRebuild

LEMMA MigrationKeepsInv == MigrationInv /\ [MigrationNext]_migrationVars => MigrationInv'
  BY TablesCreated, ShapeLookedAt, ColumnAdded, StampRead, Stamped, RebuiltOnOpen, Left, NothingMoves
  DEF MigrationNext

LEMMA MigrationInvariant == MigrationSpec => []MigrationInv
  BY MigrationBegins, MigrationKeepsInv, PTL DEF MigrationSpec

(* The file and every process on its way through open keep their types,     *)
(* however many open the store at once (store.rs:145-351, lib.rs:101-107).  *)
THEOREM MigrationTypeCorrect == MigrationSpec => []MigrationTypeOK
  <1>1. MigrationInv => MigrationTypeOK BY DEF MigrationInv
  <1>2. QED BY <1>1, MigrationInvariant, PTL

(* A stamp vouches for the shape of the tables, for any number of processes *)
(* that migrate at once and die where they may (store.rs:272-282).          *)
THEOREM StampsAreNotAhead == MigrationSpec => []StampNotAheadOfShape
  <1>1. MigrationInv => StampNotAheadOfShape
    <2> SUFFICES ASSUME MigrationInv, NEW p \in Openers, opening[p] = Open
                 PROVE  columns = ColumnsOf(SchemaVersion)
      BY DEF MigrationInv, StampNotAheadOfShape
    <2>1. HasUpTo(3, columns) BY DEF MigrationInv, ShapeBehind, Open, At
    <2>2. QED BY <2>1, FullShape DEF MigrationInv, MigrationTypeOK
  <1>2. QED BY <1>1, MigrationInvariant, PTL

(* Only a lost rebuild leaves old rows behind, for any number of processes: *)
(* no order of migrations does (store.rs:275-282, lib.rs:103-107).          *)
THEOREM OldRowsComeOfALostRebuild == MigrationSpec => []OldRowsOnlyByALostRebuild
  <1>1. MigrationInv => OldRowsOnlyByALostRebuild BY DEF MigrationInv
  <1>2. QED BY <1>1, MigrationInvariant, PTL


(***************************************************************************)
(* Of the settings page, for any limits and any changes made by others: its*)
(* type, and that the form is always of the settings on screen.            *)
(*                                                                         *)
(* Beside the two, the induction needs that a drawn form has settings to be*)
(* of, and that runs are among the changes counted.                        *)
(***************************************************************************)

Forms == [from : PageLimits \cup {Nothing}, value : PageLimits \cup {Nothing}]
SaveSet == [by : Components \cup {"gone"}, body : Bodies, answer : Settings \cup {Sent}]

PageInv ==
  /\ PageTypeOK
  /\ FormIsOfTheSettings
  /\ Drawn => shown # Nothing
  /\ settings.lastRun <= changes

--------------------------------------------------------------------------------

LEMMA BoundIsNat == MaxChanges \in Nat
  BY SettingsPageAssumption

LEMMA PageBegins == PageInit => PageInv
  <1> SUFFICES ASSUME PageInit PROVE PageInv
    OBVIOUS
  <1>1. settings \in Settings /\ settings.lastRun = 0 /\ changes = 0
    <2>1. 0 \in 0..MaxChanges BY BoundIsNat
    <2>2. PICK token \in {"set", "not set"}, limits \in PageLimits :
            settings = [token |-> token, limits |-> limits, lastRun |-> 0]
      BY DEF PageInit
    <2>3. QED BY <2>1, <2>2 DEF PageInit, Settings
  <1>2. saves \in [Slots -> SaveSet \cup {Nothing}] BY DEF PageInit
  <1>3. shown = Nothing /\ fetched = Nothing /\ form = Nothing BY DEF PageInit
  <1>4. PageTypeOK
    <2>1. changes \in 0..MaxChanges
      <3>1. 0 \in 0..MaxChanges BY BoundIsNat
      <3>2. QED BY <1>1, <3>1
    <2>2. QED BY <1>1, <1>2, <1>3, <2>1 DEF PageTypeOK, SaveSet
  <1>5. QED BY <1>1, <1>3, <1>4 DEF PageInv, FormIsOfTheSettings, Drawn, OnScreen

(* A save that is left behind goes on as it was sent. *)
LEMMA SavesLeft ==
  ASSUME NEW gone, NEW pending \in [Slots -> SaveSet \cup {Nothing}]
  PROVE  LeftBy(gone, pending) \in [Slots -> SaveSet \cup {Nothing}]
  <1>1. ASSUME NEW s \in Slots, pending[s] # Nothing
        PROVE  [pending[s] EXCEPT !.by = "gone"] \in SaveSet
    BY <1>1 DEF SaveSet
  <1>2. QED BY <1>1 DEF LeftBy

(* New settings on screen: the form stays if they have the limits it is of, *)
(* and is made of them otherwise.                                           *)
LEMMA FormFollows ==
  ASSUME PageInv, NEW seen \in Settings, NEW pending, Shows(seen, pending)
  PROVE  /\ form' \in Forms \cup {Nothing} /\ shown' \in Settings
         /\ FormIsOfTheSettings' /\ shown' # Nothing
  <1>1. form \in Forms \cup {Nothing} /\ shown' = seen
    BY DEF PageInv, PageTypeOK, Forms, Shows
  <1>2. seen # Nothing /\ seen.limits \in PageLimits /\ seen.limits # Nothing
    BY SettingsPageAssumption DEF Settings
  <1>3. CASE ~OnScreen
    BY <1>1, <1>2, <1>3 DEF Shows, Remakes, FormIsOfTheSettings, Drawn, OnScreen
  <1>4. CASE Drawn /\ Key(seen) = Key(shown)
    BY <1>1, <1>2, <1>4 DEF Shows, Remakes, PageInv, FormIsOfTheSettings, Drawn, OnScreen, Key
  <1>5. CASE OnScreen /\ ~(Drawn /\ Key(seen) = Key(shown))
    <2>1. form' = [from |-> seen.limits, value |-> seen.limits]
      BY <1>2, <1>5 DEF Shows, Remakes, Untouched
    <2>2. QED BY <1>1, <1>2, <2>1 DEF Forms, FormIsOfTheSettings
  <1>6. QED BY <1>3, <1>4, <1>5

(* Nothing the form goes by changes. *)
LEMMA SameForm ==
  ASSUME PageInv, UNCHANGED <<form, shown>>,
         settings' \in Settings, fetched' \in Settings \cup {Nothing, Sent},
         saves' \in [Slots -> SaveSet \cup {Nothing}], changes' \in 0..MaxChanges,
         settings'.lastRun <= changes'
  PROVE  PageInv'
  BY DEF PageInv, PageTypeOK, Forms, SaveSet, Settings, Bodies, FormIsOfTheSettings, Drawn, OnScreen

(* The settings on screen are replaced, and with them perhaps the form.     *)
LEMMA NewSettingsShown ==
  ASSUME PageInv, NEW seen \in Settings, NEW pending \in [Slots -> SaveSet \cup {Nothing}],
         Shows(seen, pending), UNCHANGED <<settings, changes>>,
         fetched' \in Settings \cup {Nothing, Sent}
  PROVE  PageInv'
  <1>1. saves' \in [Slots -> SaveSet \cup {Nothing}]
    BY SavesLeft DEF Shows
  <1>2. QED
    BY <1>1, FormFollows
    DEF PageInv, PageTypeOK, Forms, SaveSet, Settings, Bodies, FormIsOfTheSettings, Drawn, OnScreen

LEMMA PageTypes ==
  ASSUME PageInv
  PROVE  /\ settings \in Settings /\ fetched \in Settings \cup {Nothing, Sent}
         /\ shown \in Settings \cup {Nothing} /\ form \in Forms \cup {Nothing}
         /\ saves \in [Slots -> SaveSet \cup {Nothing}]
         /\ changes \in 0..MaxChanges /\ settings.lastRun <= changes
  BY DEF PageInv, PageTypeOK, Forms, SaveSet

--------------------------------------------------------------------------------

LEMMA PageComesAndGoes ==
  ASSUME PageInv, OpenSettings \/ LeavePage \/ (\E value \in PageLimits : Edit(value))
  PROVE  PageInv'
  <1>1. UNCHANGED <<settings, shown, changes>>
    BY DEF OpenSettings, LeavePage, Edit
  <1>a. saves' \in [Slots -> SaveSet \cup {Nothing}]
    BY SavesLeft, PageTypes DEF OpenSettings, LeavePage, Edit
  <1>2. fetched' \in Settings \cup {Nothing, Sent}
    BY PageTypes DEF OpenSettings, LeavePage, Edit
  <1>3. form' \in Forms \cup {Nothing}
    <2>1. CASE OpenSettings
      <3>1. CASE shown = Nothing
        BY <2>1, <3>1 DEF OpenSettings, Untouched, Forms
      <3>2. CASE shown # Nothing
        <4>1. shown.limits \in PageLimits BY <3>2, PageTypes DEF Settings
        <4>2. form' = [from |-> shown.limits, value |-> shown.limits]
          BY <2>1, <3>2 DEF OpenSettings, Untouched
        <4>3. QED BY <4>1, <4>2 DEF Forms
      <3>3. QED BY <3>1, <3>2
    <2>2. CASE LeavePage BY <2>2 DEF LeavePage
    <2>3. ASSUME NEW value \in PageLimits, Edit(value)
          PROVE  form' \in Forms \cup {Nothing}
      <3>1. form \in Forms BY <2>3, PageTypes DEF Edit, Drawn, OnScreen
      <3>2. QED BY <2>3, <3>1 DEF Edit, Forms
    <2>4. QED BY <2>1, <2>2, <2>3
  <1>4. FormIsOfTheSettings' /\ (Drawn' => shown' # Nothing)
    <2>1. CASE OpenSettings
      BY <1>1, <2>1, PageTypes DEF OpenSettings, Untouched, FormIsOfTheSettings, Drawn, OnScreen
    <2>2. CASE LeavePage
      BY <2>2 DEF LeavePage, FormIsOfTheSettings, Drawn, OnScreen
    <2>3. ASSUME NEW value \in PageLimits, Edit(value)
          PROVE  FormIsOfTheSettings' /\ (Drawn' => shown' # Nothing)
      <3>1. Drawn /\ form' = [form EXCEPT !.value = value] /\ shown' = shown
        BY <2>3 DEF Edit
      <3>2. form \in Forms BY <3>1, PageTypes DEF Drawn, OnScreen
      <3>3. form'.from = form.from BY <3>1, <3>2 DEF Forms
      <3>4. QED BY <3>1, <3>3 DEF PageInv, FormIsOfTheSettings
    <2>4. QED BY <2>1, <2>2, <2>3
  <1>5. QED
    BY <1>1, <1>a, <1>2, <1>3, <1>4 DEF PageInv, PageTypeOK, Forms, SaveSet, Settings, Bodies

LEMMA FetchGoesOn ==
  ASSUME PageInv, RefetchSettings \/ ServeFetch \/ NoSettingsCome
  PROVE  PageInv'
  <1>1. UNCHANGED <<settings, shown, form, saves, changes>>
    BY DEF RefetchSettings, ServeFetch, NoSettingsCome
  <1>2. fetched' \in Settings \cup {Nothing, Sent}
    BY PageTypes DEF RefetchSettings, ServeFetch, NoSettingsCome
  <1>3. QED BY <1>1, <1>2, PageTypes, SameForm

LEMMA FetchedArrive ==
  ASSUME PageInv, SettingsArrive
  PROVE  PageInv'
  <1>1. fetched \in Settings BY PageTypes DEF SettingsArrive
  <1>2. QED BY <1>1, PageTypes, NewSettingsShown DEF SettingsArrive

(* A save is sent from a form that is drawn, of settings that are there.    *)
LEMMA SaveSent ==
  ASSUME PageInv, NEW c \in Components, NEW body \in Bodies, Send(c, body)
  PROVE  PageInv'
  <1>1. saves' \in [Slots -> SaveSet \cup {Nothing}]
    BY PageTypes DEF Send, SaveSet
  <1>2. QED BY <1>1, PageTypes, SameForm DEF Send

LEMMA Submitted ==
  ASSUME PageInv, Drawn, SaveToken \/ ClearToken \/ GenerateToken \/ SubmitLimits
  PROVE  PageInv'
  <1>1. shown.limits \in PageLimits
    BY PageTypes DEF PageInv, Settings
  <1>2. form.value \in PageLimits \cup {Nothing}
    BY PageTypes DEF Drawn, OnScreen, Forms
  <1>3. QED
    BY <1>1, <1>2, SaveSent
    DEF SaveToken, ClearToken, GenerateToken, SubmitLimits, Bodies, Components

LEMMA SaveServed ==
  ASSUME PageInv, NEW s \in Slots, ServeSave(s)
  PROVE  PageInv'
  <1>1. saves[s] \in SaveSet
    BY PageTypes DEF ServeSave
  <1>2. settings' \in Settings /\ settings'.lastRun = settings.lastRun
    BY <1>1, PageTypes DEF ServeSave, SaveSet, Bodies, Settings
  <1>3. saves' \in [Slots -> SaveSet \cup {Nothing}]
    BY <1>1, <1>2, PageTypes DEF ServeSave, SaveSet
  <1>4. QED BY <1>2, <1>3, PageTypes, SameForm DEF ServeSave

LEMMA SaveEnds ==
  ASSUME PageInv, NEW s \in Slots, SaveAnswered(s) \/ SaveFails(s)
  PROVE  PageInv'
  <1>1. [saves EXCEPT ![s] = Nothing] \in [Slots -> SaveSet \cup {Nothing}]
    BY PageTypes
  <1>2. CASE SaveAnswered(s)
    <2>1. saves[s].answer \in Settings
      BY <1>2, PageTypes DEF SaveAnswered, SaveSet
    <2>2. QED BY <1>1, <1>2, <2>1, PageTypes, NewSettingsShown DEF SaveAnswered
  <1>3. CASE SaveFails(s)
    BY <1>1, <1>3, PageTypes, SameForm DEF SaveFails
  <1>4. QED BY <1>2, <1>3

LEMMA SettingsChanged ==
  ASSUME PageInv, RunEnds \/ OthersSave
  PROVE  PageInv'
  <1>1. changes < MaxChanges /\ changes' = changes + 1 /\ UNCHANGED <<shown, fetched, form, saves>>
    BY DEF RunEnds, OthersSave, SettingsChange
  <1>2. changes' \in 0..MaxChanges
    <2>1. MaxChanges \in Nat /\ changes \in 0..MaxChanges
      BY PageTypes, BoundIsNat
    <2>2. QED BY <1>1, <2>1
  <1>3. settings' \in Settings /\ settings'.lastRun <= changes'
    <2>1. /\ settings.lastRun \in 0..MaxChanges
          /\ settings.lastRun + 1 \in 0..MaxChanges
          /\ settings.lastRun + 1 <= changes'
          /\ settings.lastRun <= changes'
      <3>1. settings.lastRun \in 0..MaxChanges BY PageTypes DEF Settings
      <3>2. changes \in 0..MaxChanges /\ settings.lastRun <= changes BY PageTypes
      <3>3. changes < MaxChanges /\ changes' = changes + 1 BY <1>1
      <3>4. QED BY <3>1, <3>2, <3>3, BoundIsNat
    <2>2. /\ settings = [token |-> settings.token, limits |-> settings.limits,
                         lastRun |-> settings.lastRun]
          /\ settings.token \in {"set", "not set"} /\ settings.limits \in PageLimits
          /\ settings.lastRun \in 0..MaxChanges
      BY PageTypes DEF Settings
    <2>3. CASE RunEnds
      <3>1. settings' = [token |-> settings.token, limits |-> settings.limits,
                         lastRun |-> settings.lastRun + 1]
        BY <2>2, <2>3 DEF RunEnds, SettingsChange
      <3>2. settings'.lastRun = settings.lastRun + 1 BY <3>1
      <3>3. settings' \in Settings BY <2>1, <2>2, <3>1 DEF Settings
      <3>4. QED BY <2>1, <3>2, <3>3
    <2>4. CASE OthersSave
      <3>1. PICK limits \in PageLimits :
              settings' = [token |-> settings.token, limits |-> limits,
                           lastRun |-> settings.lastRun]
        BY <2>2, <2>4 DEF OthersSave, SettingsChange
      <3>2. settings'.lastRun = settings.lastRun BY <3>1
      <3>3. settings' \in Settings BY <2>1, <2>2, <3>1 DEF Settings
      <3>4. QED BY <2>1, <3>2, <3>3
    <2>5. QED BY <2>3, <2>4
  <1>4. QED BY <1>1, <1>2, <1>3, PageTypes, SameForm

LEMMA PageKeepsInv == PageInv /\ [PageNext]_pageVars => PageInv'
  <1> SUFFICES ASSUME PageInv, [PageNext]_pageVars PROVE PageInv'
    OBVIOUS
  <1>1. CASE UNCHANGED pageVars
    BY <1>1, PageTypes, SameForm DEF pageVars
  <1>2. QED
    BY <1>1, PageComesAndGoes, FetchGoesOn, FetchedArrive, Submitted, SaveServed, SaveEnds,
       SettingsChanged DEF PageNext

LEMMA PageInvariant == PageSpec => []PageInv
  BY PageBegins, PageKeepsInv, PTL DEF PageSpec

(* The page's state keeps its type, in whatever order answers land          *)
(* (settings.tsx:625-931, queries.ts:166-168, 292-319).                     *)
THEOREM PageTypeCorrect == PageSpec => []PageTypeOK
  <1>1. PageInv => PageTypeOK BY DEF PageInv
  <1>2. QED BY <1>1, PageInvariant, PTL

(* A form never shows or sends back limits other than the ones it was made  *)
(* of and the user's, for any limits and any number of changes by others    *)
(* (settings.tsx:660-664).                                                  *)
THEOREM FormsAreOfTheSettings == PageSpec => []FormIsOfTheSettings
  <1>1. PageInv => FormIsOfTheSettings BY DEF PageInv
  <1>2. QED BY <1>1, PageInvariant, PTL

(* What a step of the page can do to the text being typed. *)
LEMMA EditsOutliveAStep ==
  ASSUME [PageNext]_pageVars, Drawn, form' # Nothing, form'.value # form.value
  PROVE  shown'.limits # shown.limits \/ \E value \in PageLimits : Edit(value)
<1>1. OnScreen /\ form' # form
  BY DEF Drawn
<1>2. ASSUME NEW seen, NEW pending, Shows(seen, pending) PROVE shown'.limits # shown.limits
  BY <1>1, <1>2 DEF Shows, Remakes, Key
<1>3. CASE SettingsArrive
  BY <1>2, <1>3 DEF SettingsArrive
<1>4. ASSUME NEW s \in Slots, SaveAnswered(s) PROVE shown'.limits # shown.limits
  BY <1>2, <1>4 DEF SaveAnswered
<1>5. ASSUME NEW value \in PageLimits, Edit(value) PROVE \E v \in PageLimits : Edit(v)
  BY <1>5
<1>6. ~OpenSettings /\ ~LeavePage
  BY <1>1 DEF OpenSettings, LeavePage
<1>7. ~RefetchSettings /\ ~ServeFetch /\ ~NoSettingsCome
  BY <1>1 DEF RefetchSettings, ServeFetch, NoSettingsCome
<1>8. ~SaveToken /\ ~ClearToken /\ ~GenerateToken /\ ~SubmitLimits
  BY <1>1 DEF SaveToken, ClearToken, GenerateToken, SubmitLimits, Send
<1>9. \A s \in Slots : ~ServeSave(s) /\ ~SaveFails(s)
  BY <1>1 DEF ServeSave, SaveFails
<1>10. ~RunEnds /\ ~OthersSave
  BY <1>1 DEF RunEnds, OthersSave, SettingsChange
<1>11. ~UNCHANGED pageVars
  BY <1>1 DEF pageVars
<1> QED
  BY <1>3, <1>4, <1>5, <1>6, <1>7, <1>8, <1>9, <1>10, <1>11 DEF PageNext

(* What is being typed is lost to nothing but other limits, whatever saves *)
(* and fetches land while it is typed (settings.tsx:661).                  *)
THEOREM EditsAreKept == PageSpec => EditsOutliveRefetches
<1>1. [PageNext]_pageVars
        => [Drawn /\ form' # Nothing
              => \/ form'.value = form.value
                 \/ shown'.limits # shown.limits
                 \/ \E value \in PageLimits : Edit(value)]_pageVars
  BY EditsOutliveAStep
<1> QED
  BY <1>1, PTL DEF PageSpec, EditsOutliveRefetches

(***************************************************************************)
(* Of the queries of the admin pages, for any recalls and any changes of   *)
(* the store: their type, and that the counts on top of every page are not *)
(* from before a change made here.                                         *)
(*                                                                         *)
(* The second is not inductive: a status that is on its way may be an old  *)
(* one.  But the header is always there, so that the answer to a mutation  *)
(* starts its fetch over again, and only a fetch that was not yet read, or *)
(* was read since, is under way (StatusInTime).                            *)
(***************************************************************************)

CacheEntry == [data : Generations \cup {NoData}, stale : BOOLEAN,
               fetch : Generations \cup {NoData, OnItsWay}]

(* No data yet: no change has been answered with counts on screen. Data,   *)
(* and a fetch that was read: read since the last change, or the data is   *)
(* stale.                                                                  *)
StatusInTime ==
  LET status == cache["status"] IN
  /\ ownChange <= generation
  /\ status.data = NoData => ownChange = 0
  /\ status.fetch \in Generations => status.fetch >= ownChange

(* A mutation under way will invalidate the status. *)
MutationKnown ==
  /\ mutation.made # NoData => "status" \in mutation.keys
  /\ mutation.made \in Generations => mutation.made <= generation

ClientInv ==
  /\ ClientTypeOK
  /\ compare \in [a : Recalls \cup {NoData}, b : Recalls \cup {NoData},
                  pinned : Generations \cup {NoData}]
  /\ StatusInTime /\ MutationKnown /\ HeaderShowsOwnChanges

LEMMA ClientConstants ==
  /\ Generations \subseteq Nat /\ NoData \notin Generations /\ OnItsWay \notin Generations
  /\ 0 \in Generations /\ MaxGeneration \in Nat /\ NoData # OnItsWay
BY ClientAssumption DEF Generations

LEMMA ClientBegins == ClientInit => ClientInv
<1> SUFFICES ASSUME ClientInit PROVE ClientInv
  OBVIOUS
<1>1. "status" \in Queries /\ Empty \in CacheEntry /\ [Empty EXCEPT !.fetch = OnItsWay] \in CacheEntry
  BY DEF Queries, Empty, CacheEntry
<1>2. cache \in [Queries -> CacheEntry]
  BY <1>1 DEF ClientInit
<1>3. cache["status"] = [data |-> NoData, stale |-> FALSE, fetch |-> OnItsWay]
  BY <1>1 DEF ClientInit, Empty
<1>4. ClientTypeOK /\ compare \in [a : Recalls \cup {NoData}, b : Recalls \cup {NoData},
                                   pinned : Generations \cup {NoData}]
  BY <1>2, ClientConstants DEF ClientInit, ClientTypeOK, CacheEntry, NotRun, NoMutation, Pages
<1>5. StatusInTime /\ MutationKnown /\ HeaderShowsOwnChanges
  BY <1>3, ClientConstants DEF ClientInit, StatusInTime, MutationKnown, HeaderShowsOwnChanges, NoMutation
<1> QED
  BY <1>4, <1>5 DEF ClientInv

LEMMA ClientParts ==
  ASSUME ClientInv
  PROVE  /\ generation \in Generations /\ ownChange \in Generations
         /\ generation \in Nat /\ ownChange \in Nat /\ generation <= generation
         /\ cache \in [Queries -> CacheEntry] /\ page \in Pages
         /\ compare \in [a : Recalls \cup {NoData}, b : Recalls \cup {NoData},
                         pinned : Generations \cup {NoData}]
         /\ mutation \in [keys : SUBSET Queries, made : Generations \cup {NoData, OnItsWay}]
         /\ "status" \in Queries /\ cache["status"] \in CacheEntry
         /\ StatusInTime /\ MutationKnown /\ HeaderShowsOwnChanges
<1>1. "status" \in Queries
  BY DEF Queries
<1>2. generation \in 0..MaxGeneration /\ ownChange \in 0..MaxGeneration /\ MaxGeneration \in Nat
  BY ClientConstants DEF ClientInv, ClientTypeOK, Generations
<1> QED
  BY <1>1, <1>2 DEF ClientInv, ClientTypeOK, CacheEntry

(* What is said of the status holds of a store and a mutation that are as  *)
(* they were, or newer, if the status is as it was.                        *)
LEMMA StatusUntouched ==
  ASSUME ClientInv, cache' \in [Queries -> CacheEntry], cache'["status"] = cache["status"],
         generation' \in Generations, generation <= generation', ownChange' = ownChange,
         page' \in Pages,
         compare' \in [a : Recalls \cup {NoData}, b : Recalls \cup {NoData},
                       pinned : Generations \cup {NoData}],
         mutation' \in [keys : SUBSET Queries, made : Generations \cup {NoData, OnItsWay}],
         MutationKnown'
  PROVE  ClientInv'
<1>1. ClientTypeOK'
  BY ClientParts DEF ClientTypeOK, CacheEntry, ClientInv
<1>2. HeaderShowsOwnChanges'
  BY ClientParts DEF HeaderShowsOwnChanges, IsFetching
<1>3. StatusInTime'
  <2>1. ownChange \in Nat /\ generation \in Nat /\ generation' \in Nat
    BY ClientParts, ClientConstants
  <2>2. ownChange' <= generation'
    BY <2>1, ClientParts DEF StatusInTime
  <2> QED
    BY <2>2, ClientParts DEF StatusInTime
<1> QED
  BY <1>1, <1>2, <1>3 DEF ClientInv

(* A fetch goes on; a query that is not on screen is forgotten. *)
LEMMA FetchesKeep ==
  ASSUME ClientInv, NEW q \in Queries,
         Refetch(q) \/ ServerReads(q) \/ FetchArrives(q) \/ FetchFails(q) \/ Collect(q)
  PROVE  ClientInv'
<1>0. UNCHANGED <<generation, page, compare, mutation, ownChange>> /\ cache[q] \in CacheEntry
  BY ClientParts DEF Refetch, ServerReads, FetchArrives, FetchFails, Collect
<1> DEFINE entry == cache'[q]
<1>1. cache' = [cache EXCEPT ![q] = entry] /\ entry \in CacheEntry
  <2>1. CASE Refetch(q)
    BY <1>0, <2>1, ClientParts DEF Refetch, CacheEntry
  <2>2. CASE ServerReads(q)
    BY <1>0, <2>2, ClientParts DEF ServerReads, CacheEntry
  <2>3. CASE FetchArrives(q)
    BY <1>0, <2>3, ClientParts DEF FetchArrives, CacheEntry
  <2>4. CASE FetchFails(q)
    <3>1. (cache[q].data # NoData) \in BOOLEAN
      OBVIOUS
    <3> QED
      BY <1>0, <2>4, <3>1, ClientParts DEF FetchFails, CacheEntry
  <2>5. CASE Collect(q)
    BY <1>0, <2>5, ClientParts DEF Collect, CacheEntry, Empty
  <2> QED
    BY <2>1, <2>2, <2>3, <2>4, <2>5
<1>2. cache' \in [Queries -> CacheEntry]
  BY <1>1, ClientParts
<1>3. MutationKnown'
  BY <1>0, ClientParts DEF MutationKnown
<1>4. generation' \in Generations /\ generation <= generation'
  BY <1>0, ClientParts, ClientConstants
<1>5. CASE q # "status"
  <2>1. cache'["status"] = cache["status"]
    BY <1>1, <1>5, ClientParts
  <2> QED
    BY <1>0, <1>2, <1>3, <1>4, <2>1, ClientParts, StatusUntouched
<1>6. CASE q = "status"
  <2> DEFINE status == cache["status"]
             status1 == cache'["status"]
  <2>1. /\ status \in CacheEntry /\ ownChange \in Nat /\ generation \in Generations /\ generation \in Nat
        /\ ownChange <= generation
        /\ status.data = NoData => ownChange = 0
        /\ status.fetch \in Generations => status.fetch >= ownChange
        /\ status.fetch # NoData \/ status.stale \/ status.data = NoData \/ status.data >= ownChange
    BY ClientParts, ClientConstants DEF StatusInTime, HeaderShowsOwnChanges, IsFetching
  <2>2. /\ status1.data = NoData => ownChange = 0
        /\ status1.fetch \in Generations => status1.fetch >= ownChange
        /\ status1.fetch # NoData \/ status1.stale \/ status1.data = NoData \/ status1.data >= ownChange
    <3>1. CASE Refetch(q)
      <4>1. status1 = [status EXCEPT !.fetch = OnItsWay]
        BY <1>6, <3>1, ClientParts DEF Refetch
      <4> HIDE DEF status, status1
      <4> QED
        BY <2>1, <4>1, ClientConstants DEF CacheEntry
    <3>2. CASE ServerReads(q)
      <4>1. status1 = [status EXCEPT !.fetch = generation]
        BY <1>6, <3>2, ClientParts DEF ServerReads
      <4> HIDE DEF status, status1
      <4> QED
        BY <2>1, <4>1, ClientConstants DEF CacheEntry
    <3>3. CASE FetchArrives(q)
      <4>1. /\ status1 = [data |-> status.fetch, stale |-> FALSE, fetch |-> NoData]
            /\ status.fetch \notin {NoData, OnItsWay}
        BY <1>6, <3>3, ClientParts DEF FetchArrives
      <4> HIDE DEF status, status1
      <4>2. status.fetch \in Generations
        BY <2>1, <4>1 DEF CacheEntry
      <4> QED
        BY <2>1, <4>1, <4>2, ClientConstants
    <3>4. CASE FetchFails(q)
      <4>1. status1 = [data |-> status.data, stale |-> status.data # NoData, fetch |-> NoData]
        BY <1>6, <3>4, ClientParts DEF FetchFails, CacheEntry
      <4> HIDE DEF status, status1
      <4> QED
        BY <2>1, <4>1, ClientConstants
    <3>5. CASE Collect(q)
      BY <1>6, <3>5 DEF Collect, Mounted
    <3> QED
      BY <3>1, <3>2, <3>3, <3>4, <3>5
  <2>3. StatusInTime' /\ HeaderShowsOwnChanges'
    BY <1>0, <2>1, <2>2 DEF StatusInTime, HeaderShowsOwnChanges, IsFetching
  <2>4. ClientTypeOK'
    BY <1>0, <1>2, ClientParts DEF ClientTypeOK, CacheEntry, ClientInv
  <2> QED
    BY <1>0, <1>3, <2>3, <2>4, ClientParts DEF ClientInv
<1> QED
  BY <1>5, <1>6

LEMMA MountingKeeps ==
  ASSUME ClientInv, NEW onPage, NEW sides, cache' = OnMount(onPage, sides)
  PROVE  cache' \in [Queries -> CacheEntry] /\ cache'["status"] = cache["status"]
<1>1. \A q \in Queries : cache[q] \in CacheEntry /\ Refreshed(q) \in CacheEntry
  BY ClientParts DEF Refreshed, CacheEntry
<1>2. cache' \in [Queries -> CacheEntry]
  BY <1>1 DEF OnMount
<1>3. cache'["status"] = cache["status"]
  BY ClientParts DEF OnMount, Mounted
<1> QED
  BY <1>2, <1>3

LEMMA UserKeeps ==
  ASSUME ClientInv,
         \/ \E next \in Pages : GoTo(next)
         \/ \E a, b \in Recalls : RunBoth(a, b)
         \/ Pin \/ Unpin
         \/ \E does \in Mutations : Mutate(does)
  PROVE  ClientInv'
<1> DEFINE Sides == [a : Recalls \cup {NoData}, b : Recalls \cup {NoData},
                     pinned : Generations \cup {NoData}]
<1>1. generation' = generation /\ ownChange' = ownChange
  BY DEF GoTo, RunBoth, Pin, Unpin, Mutate
<1>2. generation' \in Generations /\ generation <= generation'
  BY <1>1, ClientParts, ClientConstants
<1>3. UNCHANGED mutation => MutationKnown'
  BY <1>1, ClientParts DEF MutationKnown
<1>4. ASSUME NEW next \in Pages, GoTo(next) PROVE ClientInv'
  <2>1. cache' \in [Queries -> CacheEntry] /\ cache'["status"] = cache["status"]
    BY <1>4, MountingKeeps DEF GoTo
  <2>2. compare' \in Sides /\ page' \in Pages /\ mutation' = mutation
    BY <1>4 DEF GoTo, NotRun
  <2> QED
    BY <1>1, <1>2, <1>3, <2>1, <2>2, ClientParts, StatusUntouched
<1>5. ASSUME NEW a \in Recalls, NEW b \in Recalls, RunBoth(a, b) PROVE ClientInv'
  <2>1. PICK sides : cache' = OnMount(page, sides)
    BY <1>5 DEF RunBoth
  <2>2. cache' \in [Queries -> CacheEntry] /\ cache'["status"] = cache["status"]
    BY <2>1, MountingKeeps
  <2>3. compare' \in Sides
    BY <1>5, ClientParts DEF RunBoth
  <2>4. page' \in Pages /\ mutation' = mutation
    BY <1>5, ClientParts DEF RunBoth
  <2> QED
    BY <1>1, <1>2, <1>3, <2>2, <2>3, <2>4, ClientParts, StatusUntouched
<1>6. ASSUME Pin PROVE ClientInv'
  <2>1. cache[compare.a].data \in Generations
    <3>1. compare.a \in Queries
      BY <1>6, ClientParts DEF Pin, Queries
    <3>2. cache[compare.a] \in CacheEntry
      BY <3>1, ClientParts
    <3> QED
      BY <1>6, <3>2 DEF Pin, CacheEntry
  <2>2. compare' \in Sides
    BY <1>6, <2>1, ClientParts DEF Pin
  <2> QED
    BY <1>1, <1>2, <1>3, <1>6, <2>2, ClientParts, StatusUntouched DEF Pin
<1>7. ASSUME Unpin PROVE ClientInv'
  <2>1. cache' \in [Queries -> CacheEntry] /\ cache'["status"] = cache["status"]
    BY <1>7, MountingKeeps DEF Unpin
  <2>2. compare' \in Sides
    BY <1>7, ClientParts DEF Unpin
  <2> QED
    BY <1>1, <1>2, <1>3, <1>7, <2>1, <2>2, ClientParts, StatusUntouched DEF Unpin
<1>8. ASSUME NEW does \in Mutations, Mutate(does) PROVE ClientInv'
  <2>1. Invalidates(does) \in SUBSET Queries /\ "status" \in Invalidates(does)
    BY ClientParts DEF Invalidates
  <2>2. mutation' = [keys |-> Invalidates(does), made |-> OnItsWay]
    BY <1>8 DEF Mutate
  <2>3. MutationKnown'
    BY <2>1, <2>2, ClientConstants DEF MutationKnown
  <2> QED
    BY <1>1, <1>2, <1>8, <2>1, <2>2, <2>3, ClientParts, StatusUntouched DEF Mutate
<1> QED
  BY <1>4, <1>5, <1>6, <1>7, <1>8

LEMMA StoreChangesKeep ==
  ASSUME ClientInv, ServerChanges \/ MutationFails \/ OthersChange
  PROVE  ClientInv'
<1>1. UNCHANGED <<cache, page, compare, ownChange>>
  BY DEF ServerChanges, MutationFails, OthersChange
<1>2. /\ generation' \in Generations /\ generation <= generation'
      /\ mutation' \in [keys : SUBSET Queries, made : Generations \cup {NoData, OnItsWay}]
      /\ MutationKnown'
  <2>1. CASE ServerChanges
    <3>1. generation' \in Generations /\ generation <= generation' /\ generation' = generation + 1
      BY <2>1, ClientParts, ClientConstants DEF ServerChanges, Generations
    <3>2. /\ mutation' = [keys |-> mutation.keys, made |-> generation'] /\ mutation.made = OnItsWay
          /\ mutation.keys \in SUBSET Queries
      BY <2>1, ClientParts DEF ServerChanges
    <3>3. mutation.made # NoData => "status" \in mutation.keys
      BY ClientParts DEF MutationKnown
    <3>4. OnItsWay # NoData
      BY ClientAssumption
    <3> QED
      BY <3>1, <3>2, <3>3, <3>4, ClientConstants DEF MutationKnown
  <2>2. CASE MutationFails
    BY <2>2, ClientParts, ClientConstants DEF MutationFails, NoMutation, MutationKnown
  <2>3. CASE OthersChange
    <3>1. generation' \in Generations /\ generation' = generation + 1 /\ mutation' = mutation
      BY <2>3, ClientParts, ClientConstants DEF OthersChange, Generations
    <3>2. /\ generation \in Nat /\ Generations \subseteq Nat
          /\ mutation.made \in Generations => mutation.made <= generation
      BY ClientParts, ClientConstants DEF MutationKnown
    <3>3. ASSUME mutation.made \in Generations PROVE mutation.made <= generation'
      <4>1. mutation.made \in Nat /\ mutation.made <= generation
        BY <3>2, <3>3
      <4> QED
        BY <3>1, <3>2, <4>1
    <3> QED
      BY <3>1, <3>2, <3>3, ClientParts DEF MutationKnown
  <2> QED
    BY <2>1, <2>2, <2>3
<1> QED
  BY <1>1, <1>2, ClientParts, StatusUntouched

(* The fetch of the status, unless it is the first, starts over. *)
LEMMA AnswerKeeps ==
  ASSUME ClientInv, MutationAnswered
  PROVE  ClientInv'
<1>1. /\ mutation.made \in Generations /\ mutation.made \in Nat
      /\ "status" \in mutation.keys /\ mutation.made <= generation
  BY ClientParts, ClientConstants DEF MutationAnswered, MutationKnown
<1>2. cache' \in [Queries -> CacheEntry]
  <2>1. \A q \in Queries : cache[q] \in CacheEntry /\ Invalidated(q) \in CacheEntry
    BY ClientParts DEF Invalidated, CacheEntry, Empty
  <2> QED
    BY <2>1 DEF MutationAnswered
<1> DEFINE status == cache["status"]
           status1 == cache'["status"]
<1>3. /\ status \in CacheEntry
      /\ ownChange \in Nat /\ ownChange <= generation /\ generation \in Nat
      /\ status.data = NoData => ownChange = 0
      /\ status.fetch \in Generations => status.fetch >= ownChange
  BY ClientParts, ClientConstants DEF StatusInTime
<1>4. status1 = IF status.data = NoData /\ status.fetch # NoData
                THEN [status EXCEPT !.stale = TRUE]
                ELSE [status EXCEPT !.stale = TRUE, !.fetch = OnItsWay]
  <2>1. status # Empty \/ ~ (status.data = NoData /\ status.fetch # NoData)
    BY DEF Empty
  <2>2. status1 = Invalidated("status")
    BY <1>1, ClientParts DEF MutationAnswered
  <2>3. FirstFetch("status") <=> status.data = NoData /\ status.fetch # NoData
    BY DEF FirstFetch, IsFetching
  <2>4. Mounted("status", page, compare)
    BY DEF Mounted
  <2> QED
    BY <2>1, <2>2, <2>3, <2>4 DEF Invalidated
<1>5. /\ generation' = generation /\ page' = page /\ compare' = compare /\ mutation' = NoMutation
      /\ ownChange' = IF status.data = NoData THEN ownChange ELSE mutation.made
  BY DEF MutationAnswered
<1> HIDE DEF status, status1
<1>6. status1.stale /\ status1.data = status.data
  BY <1>3, <1>4 DEF CacheEntry
<1>7. status1.fetch \in Generations => status.data = NoData /\ status1.fetch = status.fetch
  BY <1>3, <1>4, ClientConstants DEF CacheEntry
<1>8. StatusInTime' /\ HeaderShowsOwnChanges'
  <2>1. ownChange' <= generation'
    BY <1>1, <1>3, <1>5
  <2>2. status1.data = NoData => ownChange' = 0
    BY <1>3, <1>5, <1>6
  <2>3. status1.fetch \in Generations => status1.fetch >= ownChange'
    BY <1>3, <1>5, <1>7
  <2> QED
    BY <1>6, <2>1, <2>2, <2>3 DEF StatusInTime, HeaderShowsOwnChanges, status1
<1>9. MutationKnown' /\ ClientTypeOK'
  BY <1>1, <1>2, <1>5, ClientParts, ClientConstants
     DEF MutationKnown, ClientTypeOK, NoMutation, CacheEntry
<1> QED
  BY <1>5, <1>8, <1>9, ClientParts DEF ClientInv

LEMMA ClientKeepsInv == ClientInv /\ [ClientNext]_clientVars => ClientInv'
<1> SUFFICES ASSUME ClientInv, [ClientNext]_clientVars PROVE ClientInv'
  OBVIOUS
<1>1. CASE ClientNext
  BY <1>1, FetchesKeep, UserKeeps, StoreChangesKeep, AnswerKeeps DEF ClientNext
<1>2. CASE UNCHANGED clientVars
  BY <1>2 DEF clientVars, ClientInv, ClientTypeOK, StatusInTime, MutationKnown, HeaderShowsOwnChanges, IsFetching
<1> QED
  BY <1>1, <1>2

LEMMA ClientInvariant == ClientSpec => []ClientInv
BY ClientBegins, ClientKeepsInv, PTL DEF ClientSpec

(* The cache, the compare page and the mutation keep their types, in       *)
(* whatever order fetches and answers land (queries.ts, compare.tsx).      *)
THEOREM ClientTypeCorrect == ClientSpec => []ClientTypeOK
<1>1. ClientInv => ClientTypeOK
  BY DEF ClientInv
<1> QED
  BY <1>1, ClientInvariant, PTL

(* Once a change made in this browser is answered, the header never shows  *)
(* as current the counts from before it, for any number of changes, queries*)
(* and fetches under way (the invalidations of queries.ts:214-290).        *)
THEOREM HeadersShowOwnChanges == ClientSpec => []HeaderShowsOwnChanges
<1>1. ClientInv => HeaderShowsOwnChanges
  BY DEF ClientInv
<1> QED
  BY <1>1, ClientInvariant, PTL

(***************************************************************************)
(* Of the curator agent, for any sizes of messages, any model and any      *)
(* number of requests: its types, and what is dropped of the conversation. *)
(*                                                                         *)
(* Trim and TotalSize are recursive functions of the conversation; that    *)
(* they have their values is proved by induction over its prefixes.        *)
(***************************************************************************)

Roles == {"system", "user", "assistant", "tool", "dropped"}
Messages == [role : Roles, size : Nat]

(* The sizes of the prefixes of a conversation. *)
SizesOf(sizes, messages) ==
  /\ sizes \in [0..Len(messages) -> Int]
  /\ \A n \in 0..Len(messages) : sizes[n] = IF n = 0 THEN 0 ELSE sizes[n-1] + messages[n].size

LEMMA SizesExist ==
  ASSUME NEW messages \in Seq(Messages)
  PROVE  \E sizes : SizesOf(sizes, messages)
<1> DEFINE m == Len(messages)
           step == [n \in 1..m |-> [sum \in Int |-> sum + messages[n].size]]
<1>1. m \in Nat /\ \A n \in 1..m : messages[n] \in Messages /\ messages[n].size \in Int
  <2>1. m \in Nat /\ \A n \in 1..m : messages[n] \in Messages
    OBVIOUS
  <2> QED
    BY <2>1 DEF Messages
<1> HIDE DEF m
<1>2. step \in [1..m -> [Int -> Int]]
  BY <1>1
<1>3. PICK sizes : IsRecursion(sizes, m, Int, 0, step)
  <2> DEFINE zero == 0
  <2>1. zero \in Int
    OBVIOUS
  <2> HIDE DEF step, zero
  <2>2. \E sizes : IsRecursion(sizes, m, Int, zero, step)
    BY <1>1, <1>2, <2>1, Recursion
  <2> QED
    BY <2>2 DEF zero
<1>4. sizes \in [0..m -> Int]
  BY <1>3 DEF IsRecursion
<1>5. ASSUME NEW n \in 0..m
      PROVE  sizes[n] = IF n = 0 THEN 0 ELSE sizes[n-1] + messages[n].size
  <2>1. sizes[n] = IF n = 0 THEN 0 ELSE step[n][sizes[n-1]]
    <3> HIDE DEF step
    <3> QED
      BY <1>3 DEF IsRecursion
  <2>2. CASE n = 0
    BY <2>1, <2>2
  <2>3. CASE n # 0
    <3>1. n \in 1..m /\ sizes[n-1] \in Int
      BY <1>1, <1>4, <2>3
    <3> QED
      BY <2>1, <2>3, <3>1
  <2> QED
    BY <2>2, <2>3
<1> QED
  BY <1>4, <1>5 DEF SizesOf, m

LEMMA SizesAreUnique ==
  ASSUME NEW messages \in Seq(Messages), NEW one, NEW other,
         SizesOf(one, messages),
         \A n \in 0..Len(messages) : other[n] = IF n = 0 THEN 0 ELSE other[n-1] + messages[n].size
  PROVE  other[Len(messages)] = one[Len(messages)]
<1> DEFINE Same == {n \in Nat : other[n] = one[n]}
<1>1. Len(messages) \in Nat
  OBVIOUS
<1>2. 0 \in Same
  BY <1>1 DEF SizesOf
<1>3. ASSUME NEW n \in 0..Len(messages)-1, n \in Same PROVE n + 1 \in Same
  <2>1. n + 1 \in 0..Len(messages) /\ n + 1 # 0 /\ (n + 1) - 1 = n /\ n + 1 \in Nat
    BY <1>1
  <2>2. one[n+1] = one[n] + messages[n+1].size
    BY <2>1 DEF SizesOf
  <2>3. other[n+1] = other[n] + messages[n+1].size
    BY <2>1
  <2> QED
    BY <1>3, <2>1, <2>2, <2>3
<1>4. \A n \in 0..Len(messages) : n \in Same
  <2> HIDE DEF Same
  <2> QED
    BY <1>1, <1>2, <1>3, InductionUpto
<1> QED
  BY <1>1, <1>4

(* The total is the last of the sizes of the prefixes. *)
LEMMA TotalIsTheLast ==
  ASSUME NEW messages \in Seq(Messages), NEW sizes, SizesOf(sizes, messages)
  PROVE  TotalSize(messages) = sizes[Len(messages)] /\ TotalSize(messages) \in Int
<1> DEFINE Is(f) == f = [n \in 0..Len(messages) |->
                           IF n = 0 THEN 0 ELSE f[n-1] + messages[n].size]
           upto == CHOOSE f : Is(f)
<1>0. Len(messages) \in Nat
  OBVIOUS
<1>1. Is(sizes)
  <2>1. sizes = [n \in 0..Len(messages) |-> sizes[n]]
    BY DEF SizesOf
  <2>2. \A n \in 0..Len(messages) : sizes[n] = IF n = 0 THEN 0 ELSE sizes[n-1] + messages[n].size
    BY DEF SizesOf
  <2> QED
    BY <2>1, <2>2
<1>2. Is(upto)
  <2> HIDE DEF Is
  <2> QED
    BY <1>1
<1>3. TotalSize(messages) = upto[Len(messages)]
  BY DEF TotalSize
<1> HIDE DEF upto
<1>4. \A n \in 0..Len(messages) : upto[n] = IF n = 0 THEN 0 ELSE upto[n-1] + messages[n].size
  BY <1>0, <1>2
<1>5. upto[Len(messages)] = sizes[Len(messages)]
  BY <1>4, SizesAreUnique
<1>6. sizes[Len(messages)] \in Int
  BY <1>0 DEF SizesOf
<1> QED
  BY <1>3, <1>5, <1>6

Over(total, m) == total > MaxContextChars /\ m.role = "tool"

(* What is left of the total after each message was looked at. *)
LeftOf(left, messages) ==
  /\ left \in [0..Len(messages) -> Int]
  /\ \A n \in 0..Len(messages) :
       left[n] = IF n = 0 THEN TotalSize(messages)
                 ELSE IF Over(left[n-1], messages[n])
                 THEN left[n-1] - (messages[n].size - DroppedSize) ELSE left[n-1]

LEMMA Trimmed ==
  ASSUME NEW messages \in Seq(Messages)
  PROVE  \E left : /\ LeftOf(left, messages)
                   /\ Trim(messages) = [i \in DOMAIN messages |->
                        IF Over(left[i-1], messages[i]) THEN Dropped ELSE messages[i]]
<1> DEFINE m == Len(messages)
           Next1(total, n) == IF Over(total, messages[n])
                              THEN total - (messages[n].size - DroppedSize) ELSE total
           step == [n \in 1..m |-> [total \in Int |-> Next1(total, n)]]
           Is(f) == f = [n \in 0..m |-> IF n = 0 THEN TotalSize(messages) ELSE Next1(f[n-1], n)]
           left == CHOOSE f : Is(f)
<1>1. m \in Nat /\ \A n \in 1..m : messages[n] \in Messages /\ messages[n].size \in Int
  <2>1. m \in Nat /\ \A n \in 1..m : messages[n] \in Messages
    OBVIOUS
  <2> QED
    BY <2>1 DEF Messages
<1>2. TotalSize(messages) \in Int
  BY SizesExist, TotalIsTheLast
<1>3. \A n \in 1..m, total \in Int : Next1(total, n) \in Int
  BY <1>1, AgentAssumption
<1>4. Trim(messages) = [i \in DOMAIN messages |->
                          IF Over(left[i-1], messages[i]) THEN Dropped ELSE messages[i]]
  BY DEF Trim, DropOldest, Over
<1> HIDE DEF m, Next1
<1>5. step \in [1..m -> [Int -> Int]]
  BY <1>3
<1>6. PICK f : IsRecursion(f, m, Int, TotalSize(messages), step)
  <2> HIDE DEF step
  <2> QED
    BY <1>1, <1>2, <1>5, Recursion
<1>7. f \in [0..m -> Int]
  BY <1>6 DEF IsRecursion
<1>8. ASSUME NEW n \in 0..m
      PROVE  f[n] = IF n = 0 THEN TotalSize(messages) ELSE Next1(f[n-1], n)
  <2>1. f[n] = IF n = 0 THEN TotalSize(messages) ELSE step[n][f[n-1]]
    <3> HIDE DEF step
    <3> QED
      BY <1>6 DEF IsRecursion
  <2>2. CASE n = 0
    BY <2>1, <2>2
  <2>3. CASE n # 0
    <3>1. n \in 1..m /\ f[n-1] \in Int
      BY <1>1, <1>7, <2>3
    <3> QED
      BY <2>1, <2>3, <3>1
  <2> QED
    BY <2>2, <2>3
<1>9. Is(f)
  <2>1. f = [n \in 0..m |-> f[n]]
    BY <1>7
  <2> QED
    BY <1>8, <2>1
<1>10. Is(left)
  <2> HIDE DEF Is
  <2> QED
    BY <1>9
<1> HIDE DEF left, step
<1>11. \A n \in 0..m : left[n] = IF n = 0 THEN TotalSize(messages) ELSE Next1(left[n-1], n)
  BY <1>10
<1>12. \A n \in 0..m : left[n] \in Int
  <2>1. left[0] \in Int
    BY <1>1, <1>2, <1>11
  <2>2. ASSUME NEW n \in 0..m-1, left[n] \in Int PROVE left[n+1] \in Int
    <3>1. n + 1 \in 0..m /\ n + 1 \in 1..m /\ n + 1 # 0 /\ (n + 1) - 1 = n
      BY <1>1
    <3>2. left[n+1] = Next1(left[n], n+1)
      BY <1>11, <3>1
    <3> QED
      BY <1>3, <2>2, <3>1, <3>2
  <2> QED
    BY <1>1, <2>1, <2>2, RecursionType
<1>13. left \in [0..m -> Int]
  BY <1>10, <1>12
<1>14. LeftOf(left, messages)
  BY <1>11, <1>13 DEF LeftOf, Next1, m
<1> QED
  BY <1>4, <1>14

(* Once the rest fits nothing more is dropped. *)
LEMMA FitsForGood ==
  ASSUME NEW messages \in Seq(Messages), NEW left, LeftOf(left, messages),
         NEW n \in 0..Len(messages), left[n] <= MaxContextChars
  PROVE  \A k \in n..Len(messages) : left[k] = left[n]
<1> DEFINE m == Len(messages)
           Same == {k \in Nat : n <= k => left[k] = left[n]}
<1>1. m \in Nat /\ n \in 0..m
  OBVIOUS
<1>2. 0 \in Same
  BY <1>1
<1>3. ASSUME NEW k \in 0..m-1, k \in Same PROVE k + 1 \in Same
  <2>1. k + 1 \in 0..m /\ k + 1 # 0 /\ (k + 1) - 1 = k /\ k + 1 \in Nat /\ k \in Nat
    BY <1>1
  <2>2. CASE n <= k
    <3>1. left[k] = left[n] /\ left[n] \in Int
      BY <1>3, <2>2 DEF LeftOf
    <3>2. ~Over(left[k], messages[k+1])
      BY <3>1, AgentAssumption DEF Over
    <3>3. left[k+1] = left[k]
      BY <2>1, <3>2 DEF LeftOf
    <3> QED
      BY <2>1, <3>1, <3>3
  <2>3. CASE ~(n <= k)
    <3>1. n <= k + 1 => n = k + 1
      BY <1>1, <2>1, <2>3
    <3> QED
      BY <2>1, <3>1
  <2> QED
    BY <2>2, <2>3
<1>4. \A k \in 0..m : k \in Same
  <2> HIDE DEF Same
  <2> QED
    BY <1>1, <1>2, <1>3, InductionUpto
<1> QED
  BY <1>1, <1>4

LEMMA TrimType ==
  ASSUME NEW messages \in Seq(Messages)
  PROVE  /\ Trim(messages) \in Seq(Messages) /\ Len(Trim(messages)) = Len(messages)
         /\ DOMAIN Trim(messages) = DOMAIN messages
<1> DEFINE m == Len(messages)
<1>1. PICK left : /\ LeftOf(left, messages)
                  /\ Trim(messages) = [i \in DOMAIN messages |->
                       IF Over(left[i-1], messages[i]) THEN Dropped ELSE messages[i]]
  BY Trimmed
<1>2. Dropped \in Messages
  BY AgentAssumption DEF Dropped, Message, Messages, Roles
<1>3. m \in Nat /\ DOMAIN messages = 1..m /\ \A i \in 1..m : messages[i] \in Messages
  OBVIOUS
<1>4. Trim(messages) \in [1..m -> Messages]
  BY <1>1, <1>2, <1>3
<1> QED
  BY <1>3, <1>4

(* A trimmed conversation fits, or has no result left to drop. *)
LEMMA TrimFits ==
  ASSUME NEW messages \in Seq(Messages)
  PROVE  \/ TotalSize(Trim(messages)) <= MaxContextChars
         \/ \A i \in DOMAIN Trim(messages) : Trim(messages)[i].role # "tool"
<1> DEFINE m == Len(messages)
           sent == Trim(messages)
<1>1. PICK left : /\ LeftOf(left, messages)
                  /\ sent = [i \in DOMAIN messages |->
                       IF Over(left[i-1], messages[i]) THEN Dropped ELSE messages[i]]
  BY Trimmed
<1>2. PICK sizes : SizesOf(sizes, messages)
  BY SizesExist
<1>3. /\ m \in Nat /\ DOMAIN messages = 1..m /\ \A i \in 1..m : messages[i] \in Messages
      /\ sent \in Seq(Messages) /\ Len(sent) = m /\ DOMAIN sent = 1..m
  BY TrimType
<1>4. TotalSize(messages) = sizes[m] /\ sizes[m] \in Int
  BY <1>2, TotalIsTheLast
<1> DEFINE after == [n \in 0..m |-> sizes[n] + left[n] - sizes[m]]
<1> HIDE DEF m, sent
<1>5. \A n \in 0..m : sizes[n] \in Int /\ left[n] \in Int
  BY <1>1, <1>2 DEF SizesOf, LeftOf, m
<1>6. SizesOf(after, sent)
  <2>1. after \in [0..m -> Int]
    BY <1>4, <1>5
  <2>2. ASSUME NEW n \in 0..m
        PROVE  after[n] = IF n = 0 THEN 0 ELSE after[n-1] + sent[n].size
    <3>1. CASE n = 0
      <4>1. sizes[0] = 0 /\ left[0] = sizes[m]
        BY <1>1, <1>2, <1>3, <1>4 DEF SizesOf, LeftOf, m
      <4> QED
        BY <1>3, <1>4, <3>1, <4>1
    <3>2. CASE n # 0
      <4>1. n \in 1..m /\ n - 1 \in 0..m
        BY <1>3, <3>2
      <4>2. sizes[n] = sizes[n-1] + messages[n].size
        BY <1>2, <3>2 DEF SizesOf, m
      <4>3. left[n] = IF Over(left[n-1], messages[n])
                      THEN left[n-1] - (messages[n].size - DroppedSize) ELSE left[n-1]
        BY <1>1, <3>2 DEF LeftOf, m
      <4>4. sent[n] = IF Over(left[n-1], messages[n]) THEN Dropped ELSE messages[n]
        BY <1>1, <1>3, <4>1
      <4>5. messages[n].size \in Nat /\ DroppedSize \in Nat /\ Dropped.size = DroppedSize
        BY <1>3, <4>1, AgentAssumption DEF Messages, Dropped, Message
      <4>6. sizes[n-1] \in Int /\ left[n-1] \in Int
        BY <1>5, <4>1
      <4>7. after[n] = sizes[n] + left[n] - sizes[m] /\ after[n-1] = sizes[n-1] + left[n-1] - sizes[m]
        BY <4>1
      <4> HIDE DEF after
      <4>8. CASE Over(left[n-1], messages[n])
        BY <1>4, <3>2, <4>2, <4>3, <4>4, <4>5, <4>6, <4>7, <4>8
      <4>9. CASE ~Over(left[n-1], messages[n])
        BY <1>4, <3>2, <4>2, <4>3, <4>4, <4>5, <4>6, <4>7, <4>9
      <4> QED
        BY <4>8, <4>9
    <3> QED
      BY <3>1, <3>2
  <2> HIDE DEF after
  <2> QED
    BY <1>3, <2>1, <2>2 DEF SizesOf
<1>7. TotalSize(sent) = left[m]
  <2>1. TotalSize(sent) = after[m]
    <3> HIDE DEF after
    <3> QED
      BY <1>3, <1>6, TotalIsTheLast
  <2>2. after[m] = sizes[m] + left[m] - sizes[m]
    BY <1>3
  <2> QED
    BY <1>3, <1>4, <1>5, <2>1, <2>2
<1>8. ASSUME ~(left[m] <= MaxContextChars), NEW i \in 1..m PROVE sent[i].role # "tool"
  <2>1. i - 1 \in 0..m /\ m \in (i-1)..m /\ left[i-1] \in Int
    BY <1>3, <1>5
  <2>2. ~(left[i-1] <= MaxContextChars)
    <3>1. ASSUME left[i-1] <= MaxContextChars PROVE left[m] = left[i-1]
      BY <1>1, <2>1, <3>1, FitsForGood DEF m
    <3> QED
      BY <1>8, <3>1
  <2>3. left[i-1] > MaxContextChars
    BY <2>1, <2>2, AgentAssumption
  <2>4. sent[i] = IF Over(left[i-1], messages[i]) THEN Dropped ELSE messages[i]
    BY <1>1, <1>3
  <2> QED
    BY <2>3, <2>4 DEF Over, Dropped, Message
<1> QED
  BY <1>3, <1>7, <1>8 DEF sent

(* What is dropped is older than what is kept. *)
DroppedAreOldest(messages) ==
  \A i, j \in DOMAIN messages :
    messages[i].role = "tool" /\ messages[j].role = "dropped" => j < i

LEMMA TrimDropsOldest ==
  ASSUME NEW messages \in Seq(Messages), DroppedAreOldest(messages)
  PROVE  DroppedAreOldest(Trim(messages))
<1> DEFINE m == Len(messages)
           sent == Trim(messages)
<1>1. PICK left : /\ LeftOf(left, messages)
                  /\ sent = [i \in DOMAIN messages |->
                       IF Over(left[i-1], messages[i]) THEN Dropped ELSE messages[i]]
  BY Trimmed
<1>2. m \in Nat /\ DOMAIN messages = 1..m /\ DOMAIN sent = 1..m
  BY TrimType
<1>3. \A n \in 0..m : left[n] \in Int
  BY <1>1 DEF LeftOf
<1> HIDE DEF sent
<1>4. ASSUME NEW i \in 1..m, NEW j \in 1..m, sent[i].role = "tool", sent[j].role = "dropped"
      PROVE  j < i
  <2>1. /\ sent[i] = IF Over(left[i-1], messages[i]) THEN Dropped ELSE messages[i]
        /\ sent[j] = IF Over(left[j-1], messages[j]) THEN Dropped ELSE messages[j]
    BY <1>1, <1>2
  <2>2. Dropped.role = "dropped"
    BY DEF Dropped, Message
  <2>3. messages[i].role = "tool" /\ ~Over(left[i-1], messages[i])
    BY <1>4, <2>1, <2>2
  <2>4. CASE ~Over(left[j-1], messages[j])
    BY <1>2, <1>4, <2>1, <2>3, <2>4 DEF DroppedAreOldest
  <2>5. CASE Over(left[j-1], messages[j])
    <3>1. i - 1 \in 0..m /\ j - 1 \in 0..m /\ left[i-1] \in Int /\ left[j-1] \in Int
      BY <1>2, <1>3
    <3>2. left[i-1] <= MaxContextChars /\ ~(left[j-1] <= MaxContextChars)
      BY <2>3, <2>5, <3>1, AgentAssumption DEF Over
    <3>3. ASSUME i <= j PROVE FALSE
      <4>1. j - 1 \in (i-1)..m
        BY <1>2, <3>1, <3>3
      <4>2. left[j-1] = left[i-1]
        BY <1>1, <3>1, <3>2, <4>1, FitsForGood
      <4> QED
        BY <3>2, <4>2
    <3> QED
      BY <3>3
  <2> QED
    BY <2>4, <2>5
<1> QED
  BY <1>2, <1>4 DEF DroppedAreOldest, sent

AgentStates == {"idle", "asking", "relaying", "done", "stopped", "failed"}

AgentInv ==
  /\ agentAt \in AgentStates
  /\ conversation \in Seq(Messages) /\ DroppedAreOldest(conversation)
  /\ callsLeft \in 0..MaxCalls /\ (callsLeft > 0 <=> agentAt = "relaying")
  /\ canApply \in BOOLEAN /\ nudged \in BOOLEAN
  /\ report \in [steps : 0..MaxSteps, finished : BOOLEAN, closed : BOOLEAN]
  /\ agentAt \in {"idle", "asking"} => report.steps < MaxSteps
  /\ runEnds \in Nat

LEMMA AgentBegins == AgentInit => AgentInv
<1> SUFFICES ASSUME AgentInit PROVE AgentInv
  OBVIOUS
<1>1. TheTask \in Messages /\ TheTask.role = "system"
  BY AgentAssumption DEF TheTask, Message, Messages, Roles
<1>2. conversation \in Seq(Messages) /\ DOMAIN conversation = {1} /\ conversation[1] = TheTask
  BY <1>1 DEF AgentInit
<1>3. DroppedAreOldest(conversation)
  BY <1>1, <1>2 DEF DroppedAreOldest
<1>4. /\ agentAt = "idle" /\ callsLeft = 0 /\ canApply \in BOOLEAN /\ nudged = FALSE /\ runEnds = 0
      /\ report = [steps |-> 0, finished |-> FALSE, closed |-> FALSE]
  BY DEF AgentInit
<1>5. 0 \in 0..MaxCalls /\ 0 \in 0..MaxSteps /\ 0 < MaxSteps
  BY AgentAssumption
<1>6. report \in [steps : 0..MaxSteps, finished : BOOLEAN, closed : BOOLEAN] /\ report.steps < MaxSteps
  BY <1>4, <1>5
<1>7. callsLeft \in 0..MaxCalls /\ (callsLeft > 0 <=> agentAt = "relaying")
  BY <1>4, <1>5
<1> QED
  BY <1>2, <1>3, <1>4, <1>6, <1>7 DEF AgentInv, AgentStates

LEMMA AppendKeepsOrder ==
  ASSUME NEW messages \in Seq(Messages), DroppedAreOldest(messages),
         NEW message \in Messages, message.role # "dropped"
  PROVE  Append(messages, message) \in Seq(Messages) /\ DroppedAreOldest(Append(messages, message))
<1> DEFINE longer == Append(messages, message)
           m == Len(messages)
<1>1. /\ m \in Nat /\ DOMAIN messages = 1..m /\ longer \in Seq(Messages)
      /\ DOMAIN longer = 1..m+1 /\ longer[m+1] = message
      /\ \A i \in 1..m : longer[i] = messages[i]
  OBVIOUS
<1> HIDE DEF longer
<1>2. ASSUME NEW i \in 1..m+1, NEW j \in 1..m+1, longer[i].role = "tool", longer[j].role = "dropped"
      PROVE  j < i
  <2>1. j \in 1..m
    BY <1>1, <1>2
  <2>2. CASE i = m + 1
    BY <1>1, <2>1, <2>2
  <2>3. CASE i # m + 1
    <3>1. i \in 1..m
      BY <1>1, <2>3
    <3>2. messages[i].role = "tool" /\ messages[j].role = "dropped"
      BY <1>1, <1>2, <2>1, <3>1
    <3> QED
      BY <1>1, <2>1, <3>1, <3>2 DEF DroppedAreOldest
  <2> QED
    BY <2>2, <2>3
<1> QED
  BY <1>1, <1>2 DEF DroppedAreOldest, longer

(* The conversation after a reply: what was sent, and what came of it. *)
LEMMA Replied ==
  ASSUME AgentInv
  PROVE  LET sent == Trim(conversation)
             reply == Message("assistant", ReplySize) IN
         /\ Append(sent, reply) \in Seq(Messages) /\ DroppedAreOldest(Append(sent, reply))
         /\ sent \o <<reply, NotClosed>> \in Seq(Messages)
         /\ DroppedAreOldest(sent \o <<reply, NotClosed>>)
         /\ SubSeq(Append(sent, reply), 1, Len(conversation)) = sent
         /\ SubSeq(sent \o <<reply, NotClosed>>, 1, Len(conversation)) = sent
<1> DEFINE sent == Trim(conversation)
           reply == Message("assistant", ReplySize)
<1>1. /\ reply \in Messages /\ reply.role # "dropped"
      /\ NotClosed \in Messages /\ NotClosed.role # "dropped"
  BY AgentAssumption DEF NotClosed, Message, Messages, Roles
<1>2. sent \in Seq(Messages) /\ Len(sent) = Len(conversation) /\ DroppedAreOldest(sent)
  BY TrimType, TrimDropsOldest DEF AgentInv
<1>3. Len(conversation) \in Nat
  BY DEF AgentInv
<1> HIDE DEF sent, reply
<1>4. Append(sent, reply) \in Seq(Messages) /\ DroppedAreOldest(Append(sent, reply))
  BY <1>1, <1>2, AppendKeepsOrder
<1>5. /\ Append(Append(sent, reply), NotClosed) \in Seq(Messages)
      /\ DroppedAreOldest(Append(Append(sent, reply), NotClosed))
  BY <1>1, <1>4, AppendKeepsOrder
<1>6. sent \o <<reply, NotClosed>> = Append(Append(sent, reply), NotClosed)
  BY <1>1, <1>2
<1>7. SubSeq(Append(sent, reply), 1, Len(sent)) = sent
  BY <1>1, <1>2, <1>3
<1>8. SubSeq(Append(Append(sent, reply), NotClosed), 1, Len(sent)) = sent
  BY <1>1, <1>2, <1>3
<1> QED
  BY <1>2, <1>4, <1>5, <1>6, <1>7, <1>8 DEF sent, reply

LEMMA AgentKeepsInv == AgentInv /\ [AgentNext]_agentVars => AgentInv'
<1> SUFFICES ASSUME AgentInv, [AgentNext]_agentVars PROVE AgentInv'
  OBVIOUS
<1>0. /\ MaxSteps \in Nat \ {0} /\ MaxCalls \in Nat \ {0} /\ callsLeft \in 0..MaxCalls
      /\ report \in [steps : 0..MaxSteps, finished : BOOLEAN, closed : BOOLEAN]
      /\ agentAt \in {"idle", "asking"} => report.steps < MaxSteps
      /\ callsLeft > 0 <=> agentAt = "relaying"
  BY AgentAssumption DEF AgentInv
<1>1. CASE StartAgent
  BY <1>1 DEF StartAgent, AgentInv, AgentStates
<1>2. ASSUME NEW calls \in 1..MaxCalls, ReplyWithCalls(calls) PROVE AgentInv'
  <2>1. conversation' \in Seq(Messages) /\ DroppedAreOldest(conversation')
    BY <1>2, Replied DEF ReplyWithCalls
  <2>2. report' \in [steps : 0..MaxSteps, finished : BOOLEAN, closed : BOOLEAN]
    BY <1>0, <1>2 DEF ReplyWithCalls
  <2>3. /\ agentAt' = "relaying" /\ callsLeft' = calls /\ calls \in 0..MaxCalls /\ calls > 0
        /\ UNCHANGED <<canApply, nudged, runEnds>>
    BY <1>0, <1>2 DEF ReplyWithCalls
  <2> QED
    BY <2>1, <2>2, <2>3 DEF AgentInv, AgentStates
<1>3. CASE ReplyLeavingOpen
  <2>1. conversation' \in Seq(Messages) /\ DroppedAreOldest(conversation')
    BY <1>3, Replied DEF ReplyLeavingOpen
  <2>2. report' \in [steps : 0..MaxSteps, finished : BOOLEAN, closed : BOOLEAN]
    <3>1. /\ report.steps \in 0..MaxSteps /\ report.steps < MaxSteps
          /\ report' = [report EXCEPT !.steps = report.steps + 1, !.finished = report.finished]
      BY <1>0, <1>3 DEF ReplyLeavingOpen
    <3>2. report.steps + 1 \in 0..MaxSteps
      BY <1>0, <3>1
    <3> QED
      BY <1>0, <3>1, <3>2
  <2>3. /\ agentAt' \in {"asking", "stopped"} /\ (agentAt' = "asking" => report'.steps < MaxSteps)
        /\ callsLeft' = callsLeft /\ ~(callsLeft > 0) /\ nudged' = TRUE
        /\ UNCHANGED <<canApply, runEnds>>
    BY <1>0, <1>3 DEF ReplyLeavingOpen, AskAgain
  <2> QED
    BY <1>0, <2>1, <2>2, <2>3 DEF AgentInv, AgentStates
<1>4. CASE ReplyToFinish
  <2>1. conversation' \in Seq(Messages) /\ DroppedAreOldest(conversation')
    BY <1>4, Replied DEF ReplyToFinish
  <2>2. report' \in [steps : 0..MaxSteps, finished : BOOLEAN, closed : BOOLEAN]
    <3>1. /\ report.steps \in 0..MaxSteps /\ report.steps < MaxSteps
          /\ report' = [report EXCEPT !.steps = report.steps + 1, !.finished = TRUE]
      BY <1>0, <1>4 DEF ReplyToFinish
    <3>2. report.steps + 1 \in 0..MaxSteps
      BY <1>0, <3>1
    <3> QED
      BY <1>0, <3>1, <3>2
  <2>3. /\ agentAt' = "done" /\ callsLeft' = callsLeft /\ ~(callsLeft > 0)
        /\ UNCHANGED <<canApply, nudged, runEnds>>
    BY <1>0, <1>4 DEF ReplyToFinish
  <2> QED
    BY <1>0, <2>1, <2>2, <2>3 DEF AgentInv, AgentStates
<1>5. CASE ModelFails
  BY <1>5 DEF ModelFails, AgentInv, AgentStates
<1>6. ASSUME NEW asksEnd \in BOOLEAN, NEW isError \in BOOLEAN, NEW recorded \in BOOLEAN, NEW size \in TextSizes,
             Relayed(asksEnd, isError, recorded, size)
      PROVE  AgentInv'
  <2>1. Message("tool", Clip(size)) \in Messages /\ Message("tool", Clip(size)).role # "dropped"
    BY AgentAssumption DEF Message, Messages, Roles, Clip
  <2>2. conversation' = Append(conversation, Message("tool", Clip(size)))
    BY <1>6 DEF Relayed
  <2>3. conversation' \in Seq(Messages) /\ DroppedAreOldest(conversation')
    BY <2>1, <2>2, AppendKeepsOrder DEF AgentInv
  <2>4. /\ report' \in [steps : 0..MaxSteps, finished : BOOLEAN, closed : BOOLEAN]
        /\ report'.steps = report.steps
    <3>1. (report.closed \/ (asksEnd /\ ~isError)) \in BOOLEAN
      OBVIOUS
    <3>2. report' = [report EXCEPT !.closed = report.closed \/ (asksEnd /\ ~isError)]
      BY <1>6 DEF Relayed
    <3> QED
      BY <1>0, <3>1, <3>2
  <2>5. runEnds' \in Nat
    BY <1>6 DEF Relayed, AgentInv
  <2>6. /\ agentAt = "relaying" /\ callsLeft' = callsLeft - 1
        /\ agentAt' = IF callsLeft' = 0 THEN AskAgain(report.steps) ELSE agentAt
        /\ UNCHANGED <<canApply, nudged>>
    BY <1>6 DEF Relayed
  <2>7. /\ callsLeft' \in 0..MaxCalls /\ agentAt' \in AgentStates
        /\ callsLeft' > 0 <=> agentAt' = "relaying"
        /\ agentAt' \in {"idle", "asking"} => report'.steps < MaxSteps
    BY <1>0, <2>4, <2>6 DEF AskAgain, AgentStates
  <2> QED
    BY <2>3, <2>4, <2>5, <2>6, <2>7 DEF AgentInv
<1>7. CASE UNCHANGED agentVars
  BY <1>7 DEF agentVars, AgentInv
<1> QED
  BY <1>1, <1>2, <1>3, <1>4, <1>5, <1>6, <1>7 DEF AgentNext, Reply, AnswerCall

LEMMA AgentInvariant == AgentSpec => []AgentInv
BY AgentBegins, AgentKeepsInv, PTL DEF AgentSpec

(* The agent's state keeps its types; calls are left only while they are   *)
(* relayed, and no run makes more than MaxSteps requests (agent.ts).       *)
THEOREM AgentTypeCorrect == AgentSpec => []AgentTypeOK
<1>1. AgentInv => AgentTypeOK
  BY DEF AgentInv, AgentTypeOK, AgentStates, Messages, Roles
<1> QED
  BY <1>1, AgentInvariant, PTL

(* Over any number of requests, and whatever the sizes: no result is       *)
(* dropped while an older one is kept (trim, agent.ts:211-223).            *)
THEOREM AgentDropsTheOldest == AgentSpec => []OldestDroppedFirst
<1>1. AgentInv => OldestDroppedFirst
  BY DEF AgentInv, OldestDroppedFirst, DroppedAreOldest
<1> QED
  BY <1>1, AgentInvariant, PTL

(* What is sent to the model fits its context, or has no result left that  *)
(* could be dropped, for any conversation (agent.ts:109, 211-223).         *)
THEOREM AgentSendsWhatFits == AgentSpec => SentFits
<1>1. ASSUME AgentInv, [AgentNext]_agentVars, report'.steps > report.steps
      PROVE  LET sent == SubSeq(conversation', 1, Len(conversation))
             IN \/ TotalSize(sent) <= MaxContextChars
                \/ \A i \in DOMAIN sent : sent[i].role # "tool"
  <2>1. Reply
    <3>1. report.steps \in Int
      BY <1>1, AgentAssumption DEF AgentInv
    <3>2. ASSUME report'.steps = report.steps PROVE FALSE
      BY <1>1, <3>1, <3>2
    <3>3. ~StartAgent /\ ~ModelFails /\ ~UNCHANGED agentVars
      BY <3>2 DEF StartAgent, ModelFails, agentVars
    <3>4. ~AnswerCall
      <4> SUFFICES ASSUME NEW asksEnd, NEW isError, NEW recorded, NEW size, Relayed(asksEnd, isError, recorded, size)
                   PROVE  FALSE
        BY DEF AnswerCall
      <4>1. report' = [report EXCEPT !.closed = report.closed \/ (asksEnd /\ ~isError)]
        BY DEF Relayed
      <4>2. report'.steps = report.steps
        BY <4>1 DEF AgentInv
      <4> QED
        BY <3>2, <4>2
    <3> QED
      BY <1>1, <3>3, <3>4 DEF AgentNext
  <2>2. SubSeq(conversation', 1, Len(conversation)) = Trim(conversation)
    BY <1>1, <2>1, Replied DEF Reply, ReplyWithCalls, ReplyLeavingOpen, ReplyToFinish
  <2>3. conversation \in Seq(Messages)
    BY <1>1 DEF AgentInv
  <2> QED
    BY <2>2, <2>3, TrimFits
<1>2. AgentInv /\ [AgentNext]_agentVars
        => [report'.steps > report.steps =>
              LET sent == SubSeq(conversation', 1, Len(conversation))
              IN \/ TotalSize(sent) <= MaxContextChars
                 \/ \A i \in DOMAIN sent : sent[i].role # "tool"]_agentVars
  BY <1>1
<1> QED
  BY <1>2, AgentInvariant, PTL DEF AgentSpec, SentFits


(***************************************************************************)
(* Of recall, for any turns, notes, scores and supersessions.              *)
(***************************************************************************)

(* What superseded_by is a function of. *)
IsBy(by) == DOMAIN by \subseteq RecallTurns /\ by \in [DOMAIN by -> RecallTurns]

FollowsBy(at, by, n) ==
  \A i \in 1..n : at[i] = IF at[i-1] \in DOMAIN by THEN by[at[i-1]] ELSE at[i-1]

LEMMA FlagsAreFinite ==
  ASSUME NEW by, IsBy(by)
  PROVE  IsFiniteSet(DOMAIN by) /\ Cardinality(DOMAIN by) \in Nat
BY RecallAssumption, FS_Subset, FS_CardinalityType DEF IsBy

LEMMA ChainFollows ==
  ASSUME NEW by, IsBy(by), NEW t \in RecallTurns, NEW n, n = Cardinality(DOMAIN by)
  PROVE  /\ Chain(by, t) \in [0..n -> RecallTurns]
         /\ Chain(by, t)[0] = t
         /\ FollowsBy(Chain(by, t), by, n)
<1>1. n \in Nat
  BY FlagsAreFinite
<1> DEFINE step == [i \in 1..n |-> [x \in RecallTurns |-> IF x \in DOMAIN by THEN by[x] ELSE x]]
           Is(at) == at = [i \in 0..n |-> IF i = 0 THEN t
                                          ELSE LET last == at[i-1]
                                               IN IF last \in DOMAIN by THEN by[last] ELSE last]
<1>2. step \in [1..n -> [RecallTurns -> RecallTurns]]
  BY DEF IsBy
<1>3. \E at : Is(at)
  <2>1. PICK at : IsRecursion(at, n, RecallTurns, t, step)
    <3> HIDE DEF step
    <3> QED
      BY <1>1, <1>2, Recursion
  <2>2. at \in [0..n -> RecallTurns] /\ \A i \in 0..n : at[i] = IF i = 0 THEN t ELSE step[i][at[i-1]]
    BY <2>1 DEF IsRecursion
  <2>3. \A i \in 0..n : at[i] = IF i = 0 THEN t ELSE IF at[i-1] \in DOMAIN by THEN by[at[i-1]] ELSE at[i-1]
    <3>1. ASSUME NEW i \in 0..n, i # 0
          PROVE  step[i][at[i-1]] = IF at[i-1] \in DOMAIN by THEN by[at[i-1]] ELSE at[i-1]
      <4>1. i \in 1..n /\ i - 1 \in 0..n
        BY <1>1, <3>1
      <4>2. at[i-1] \in RecallTurns
        BY <2>2, <4>1
      <4> QED
        BY <4>1, <4>2
    <3> QED
      BY <2>2, <3>1
  <2>4. Is(at)
    BY <2>2, <2>3
  <2> QED
    BY <2>4
<1> DEFINE at == CHOOSE at : Is(at)
<1>4. Is(at)
  BY <1>3
<1>5. Chain(by, t) = at
  BY DEF Chain
<1> HIDE DEF at
<1>6. /\ DOMAIN at = 0..n /\ at[0] = t
      /\ \A i \in 1..n : at[i] = IF at[i-1] \in DOMAIN by THEN by[at[i-1]] ELSE at[i-1]
  BY <1>1, <1>4
<1>7. \A i \in 0..n : at[i] \in RecallTurns
  <2>1. at[0] \in RecallTurns /\ \A i \in 0..n-1 : at[i] \in RecallTurns => at[i+1] \in RecallTurns
    <3>1. ASSUME NEW i \in 0..n-1, at[i] \in RecallTurns PROVE at[i+1] \in RecallTurns
      <4>1. i + 1 \in 1..n /\ (i + 1) - 1 = i
        BY <1>1
      <4>2. at[i+1] = IF at[i] \in DOMAIN by THEN by[at[i]] ELSE at[i]
        BY <1>6, <4>1
      <4> QED
        BY <3>1, <4>2 DEF IsBy
    <3> QED
      BY <1>6, <3>1
  <2> QED
    BY <1>1, <2>1, RecursionType
<1>8. at \in [0..n -> RecallTurns]
  BY <1>4, <1>7
<1> QED
  BY <1>5, <1>6, <1>8 DEF FollowsBy

(* A chain that has come to its end stays there. *)
LEMMA ChainsEnd ==
  ASSUME NEW at, NEW by, NEW n \in Nat, FollowsBy(at, by, n), NEW i \in 0..n, at[i] \notin DOMAIN by
  PROVE  \A j \in i..n : at[j] = at[i]
<1> DEFINE S == {j \in Nat : j <= n /\ i <= j => at[j] = at[i]}
<1>1. 0 \in S
  OBVIOUS
<1>2. ASSUME NEW j \in Nat, j \in S PROVE j + 1 \in S
  <2> SUFFICES ASSUME j + 1 <= n, i <= j + 1 PROVE at[j+1] = at[i]
    OBVIOUS
  <2>1. CASE i = j + 1
    BY <2>1
  <2>2. CASE i # j + 1
    <3>1. i <= j /\ j <= n /\ j + 1 \in 1..n /\ (j + 1) - 1 = j
      BY <2>2
    <3>2. at[j] = at[i]
      BY <1>2, <3>1
    <3> QED
      BY <3>1, <3>2 DEF FollowsBy
  <2> QED
    BY <2>1, <2>2
<1>3. \A j \in Nat : j \in S
  <2> HIDE DEF S
  <2> QED
    BY <1>1, <1>2, Induction
<1> QED
  BY <1>3

(* Two chains that meet go on together. *)
LEMMA ChainsMeet ==
  ASSUME NEW at, NEW bt, NEW by, NEW n \in Nat, FollowsBy(at, by, n), FollowsBy(bt, by, n),
         NEW i \in 0..n, NEW j \in 0..n, at[i] = bt[j]
  PROVE  \A m \in Nat : i + m <= n /\ j + m <= n => at[i+m] = bt[j+m]
<1> DEFINE S == {m \in Nat : i + m <= n /\ j + m <= n => at[i+m] = bt[j+m]}
<1>1. 0 \in S
  OBVIOUS
<1>2. ASSUME NEW m \in Nat, m \in S PROVE m + 1 \in S
  <2> SUFFICES ASSUME i + (m + 1) <= n, j + (m + 1) <= n PROVE at[i+(m+1)] = bt[j+(m+1)]
    OBVIOUS
  <2>1. /\ i + (m + 1) \in 1..n /\ j + (m + 1) \in 1..n
        /\ i + (m + 1) - 1 = i + m /\ j + (m + 1) - 1 = j + m /\ i + m <= n /\ j + m <= n
    OBVIOUS
  <2>2. at[i+m] = bt[j+m]
    BY <1>2, <2>1
  <2> QED
    BY <2>1, <2>2 DEF FollowsBy
<1>3. \A m \in Nat : m \in S
  <2> HIDE DEF S
  <2> QED
    BY <1>1, <1>2, Induction
<1> QED
  BY <1>3

(* A chain that has not come to its end in as many steps as there are flags*)
(* runs in a circle, and where it stands is on it.                         *)
LEMMA EndlessIsACircle ==
  ASSUME NEW by, IsBy(by), NEW t \in RecallTurns, Latest(by, t) \in DOMAIN by
  PROVE  Latest(by, t) \in Successors(by, Latest(by, t))
<1> DEFINE n == Cardinality(DOMAIN by)
<1>1. n \in Nat /\ IsFiniteSet(DOMAIN by)
  BY FlagsAreFinite
<1>2. PICK at : at = Chain(by, t)
  OBVIOUS
<1>3. at \in [0..n -> RecallTurns] /\ at[0] = t /\ FollowsBy(at, by, n) /\ Latest(by, t) = at[n]
  BY <1>2, ChainFollows DEF Latest
<1>4. PICK y : y = at[n]
  OBVIOUS
<1>5. y \in DOMAIN by /\ y \in RecallTurns
  BY <1>3, <1>4 DEF IsBy
<1>6. PICK bt : bt = Chain(by, y)
  OBVIOUS
<1>7. bt \in [0..n -> RecallTurns] /\ bt[0] = y /\ FollowsBy(bt, by, n)
  BY <1>5, <1>6, ChainFollows
<1>8. Successors(by, y) = {bt[i] : i \in 1..n}
  BY <1>5, <1>6 DEF Successors
<1> HIDE DEF n
<1>9. \A i \in 0..n : at[i] \in DOMAIN by
  <2> SUFFICES ASSUME NEW i \in 0..n, at[i] \notin DOMAIN by PROVE FALSE
    OBVIOUS
  <2>1. \A j \in i..n : at[j] = at[i]
    BY <1>1, <1>3, ChainsEnd
  <2>2. n \in i..n
    BY <1>1
  <2> QED
    BY <1>4, <1>5, <2>1, <2>2
<1>10. PICK i \in 0..n, j \in 0..n : i < j /\ at[i] = at[j]
  <2>1. at \in [0..n -> DOMAIN by]
    BY <1>3, <1>9
  <2>2. IsFiniteSet(0..n) /\ Cardinality(0..n) = n + 1
    BY <1>1, FS_Interval
  <2>3. Cardinality(DOMAIN by) < Cardinality(0..n)
    BY <1>1, <2>2 DEF n
  <2>4. \E x, z \in 0..n : x # z /\ at[x] = at[z]
    BY <1>1, <2>1, <2>2, <2>3, FS_PigeonHole
  <2>5. PICK x \in 0..n, z \in 0..n : x # z /\ at[x] = at[z]
    BY <2>4
  <2>6. x < z \/ z < x
    BY <1>1, <2>5
  <2> QED
    BY <2>5, <2>6
<1>11. PICK p \in i..j-1 : at[p] = y
  <2> DEFINE S == {m \in Nat : m <= n - i => \E p \in i..j-1 : at[p] = at[i+m]}
  <2>1. 0 \in S
    <3>1. i \in i..j-1 /\ i + 0 = i
      BY <1>10
    <3> QED
      BY <3>1
  <2>2. ASSUME NEW m \in Nat, m \in S PROVE m + 1 \in S
    <3> SUFFICES ASSUME m + 1 <= n - i PROVE \E p \in i..j-1 : at[p] = at[i+(m+1)]
      OBVIOUS
    <3>1. m <= n - i /\ i + (m + 1) \in 1..n /\ i + (m + 1) - 1 = i + m /\ i + m \in 0..n
      BY <1>1, <1>10
    <3>2. PICK p \in i..j-1 : at[p] = at[i+m]
      BY <2>2, <3>1
    <3>3. at[i+(m+1)] = by[at[p]]
      BY <1>3, <1>9, <3>1, <3>2 DEF FollowsBy
    <3>4. p + 1 \in 1..n /\ (p + 1) - 1 = p /\ p \in 0..n
      BY <1>1, <1>10
    <3>5. at[p+1] = by[at[p]]
      BY <1>3, <1>9, <3>4 DEF FollowsBy
    <3>6. CASE p + 1 = j
      <4>1. i \in i..j-1 /\ at[i] = at[i+(m+1)]
        BY <1>10, <3>3, <3>5, <3>6
      <4> QED
        BY <4>1
    <3>7. CASE p + 1 # j
      <4>1. p + 1 \in i..j-1
        BY <3>7
      <4> QED
        BY <3>3, <3>5, <4>1
    <3> QED
      BY <3>6, <3>7
  <2>3. \A m \in Nat : m \in S
    <3> HIDE DEF S
    <3> QED
      BY <2>1, <2>2, Induction
  <2>4. n - i \in Nat /\ n - i <= n - i /\ i + (n - i) = n
    BY <1>1, <1>10
  <2> QED
    BY <1>4, <2>3, <2>4
<1>12. p \in 0..n /\ j - p \in Nat /\ p + (j - p) = j /\ 0 + (j - p) = j - p /\ j - p \in 0..n /\ j <= n
       /\ p - i \in Nat /\ (j - p) + (p - i) = j - i /\ i + (p - i) = p /\ j - i \in 1..n /\ j - i <= n /\ p <= n
  BY <1>1, <1>10, <1>11
<1>13. bt[j-p] = at[j]
  <2>1. bt[0] = at[p] /\ 0 \in 0..n
    BY <1>1, <1>7, <1>11
  <2>2. \A m \in Nat : 0 + m <= n /\ p + m <= n => bt[0+m] = at[p+m]
    <3> DEFINE zero == 0
    <3>1. zero \in 0..n /\ bt[zero] = at[p]
      BY <2>1
    <3>2. p \in 0..n /\ n \in Nat /\ FollowsBy(bt, by, n) /\ FollowsBy(at, by, n)
      BY <1>1, <1>3, <1>7, <1>12
    <3> HIDE DEF zero
    <3>3. \A m \in Nat : zero + m <= n /\ p + m <= n => bt[zero+m] = at[p+m]
      BY <3>1, <3>2, ChainsMeet
    <3> QED
      BY <3>3 DEF zero
  <2>3. 0 + (j - p) <= n /\ p + (j - p) <= n
    BY <1>12
  <2>4. bt[0 + (j - p)] = at[p + (j - p)]
    BY <1>12, <2>2, <2>3
  <2> QED
    BY <1>12, <2>4
<1>14. bt[j-i] = at[p]
  <2> DEFINE q == j - p
  <2>1. q \in 0..n /\ bt[q] = at[i]
    BY <1>10, <1>12, <1>13
  <2> HIDE DEF q
  <2>2. \A m \in Nat : q + m <= n /\ i + m <= n => bt[q+m] = at[i+m]
    BY <1>1, <1>3, <1>7, <2>1, ChainsMeet
  <2>3. q + (p - i) = j - i
    BY <1>12 DEF q
  <2>4. bt[q + (p - i)] = at[i + (p - i)]
    BY <1>12, <2>2, <2>3
  <2> QED
    BY <1>12, <2>3, <2>4
<1>15. y \in {bt[m] : m \in 1..n}
  BY <1>11, <1>12, <1>14
<1> QED
  BY <1>3, <1>4, <1>8, <1>15

(* A chain that begins on a circle never comes to an end. *)
LEMMA CirclesAreEndless ==
  ASSUME NEW by, IsBy(by), NEW t \in RecallTurns, t \in Successors(by, t)
  PROVE  Latest(by, t) \in DOMAIN by
<1> DEFINE n == Cardinality(DOMAIN by)
<1>1. n \in Nat /\ IsFiniteSet(DOMAIN by)
  BY FlagsAreFinite
<1>2. PICK at : at = Chain(by, t)
  OBVIOUS
<1>3. at \in [0..n -> RecallTurns] /\ at[0] = t /\ FollowsBy(at, by, n) /\ Latest(by, t) = at[n]
  BY <1>2, ChainFollows DEF Latest
<1>4. t \in DOMAIN by
  BY DEF Successors
<1>5. PICK k \in 1..n : at[k] = t
  BY <1>2, <1>4 DEF Successors
<1> HIDE DEF n
<1> DEFINE circle == {at[i] : i \in 0..k}
<1>6. ASSUME NEW i \in 0..k PROVE at[i] \in DOMAIN by
  <2> SUFFICES ASSUME at[i] \notin DOMAIN by PROVE FALSE
    OBVIOUS
  <2>1. i \in 0..n /\ k \in i..n
    BY <1>1, <1>5
  <2>2. at[k] = at[i]
    BY <1>1, <1>3, <2>1, ChainsEnd
  <2> QED
    BY <1>4, <1>5, <2>2
<1>7. ASSUME NEW x \in circle PROVE x \in DOMAIN by /\ by[x] \in circle
  <2>1. PICK i \in 0..k : x = at[i]
    OBVIOUS
  <2>2. x \in DOMAIN by
    BY <1>6, <2>1
  <2>3. CASE i < k
    <3>1. i + 1 \in 1..n /\ (i + 1) - 1 = i /\ i + 1 \in 0..k
      BY <1>1, <1>5, <2>3
    <3>2. at[i+1] = by[x]
      BY <1>3, <2>1, <2>2, <3>1 DEF FollowsBy
    <3> QED
      BY <2>2, <3>1, <3>2
  <2>4. CASE i = k
    <3>1. x = at[0] /\ 1 \in 1..n /\ 1 - 1 = 0 /\ 1 \in 0..k
      BY <1>1, <1>3, <1>5, <2>1, <2>4
    <3>2. at[1] = by[x]
      BY <1>3, <2>2, <3>1 DEF FollowsBy
    <3> QED
      BY <2>2, <3>1, <3>2
  <2> QED
    BY <1>5, <2>3, <2>4
<1>8. at[0] \in circle
  BY <1>5
<1> HIDE DEF circle
<1>9. \A i \in 0..n-1 : at[i] \in circle => at[i+1] \in circle
  <2> SUFFICES ASSUME NEW i \in 0..n-1, at[i] \in circle PROVE at[i+1] \in circle
    OBVIOUS
  <2>1. i + 1 \in 1..n /\ (i + 1) - 1 = i
    BY <1>1
  <2>2. at[i+1] = by[at[i]]
    BY <1>3, <1>7, <2>1 DEF FollowsBy
  <2> QED
    BY <1>7, <2>2
<1>10. \A i \in 0..n : at[i] \in circle
  BY <1>1, <1>8, <1>9, RecursionType
<1> QED
  BY <1>1, <1>3, <1>7, <1>10

(***************************************************************************)
(* What stands for a turn: the least set with what it folds under that is  *)
(* closed under folding.                                                   *)
(***************************************************************************)

LEMMA SuccessorsAreTurns ==
  ASSUME NEW by, IsBy(by), NEW t \in RecallTurns
  PROVE  Successors(by, t) \subseteq RecallTurns
<1> DEFINE n == Cardinality(DOMAIN by)
<1>1. n \in Nat /\ Chain(by, t) \in [0..n -> RecallTurns]
  BY FlagsAreFinite, ChainFollows
<1>2. CASE t \notin DOMAIN by
  BY <1>2 DEF Successors
<1>3. CASE t \in DOMAIN by
  <2>1. Successors(by, t) = {Chain(by, t)[i] : i \in 1..n}
    BY <1>3 DEF Successors
  <2> QED
    BY <1>1, <2>1
<1> QED
  BY <1>2, <1>3

LEMMA QuestionsAreTyped ==
  ASSUME NEW q \in Questions
  PROVE  /\ IsBy(q.by) /\ q.notes \subseteq DOMAIN SourcesOfNote
         /\ \A t \in DOMAIN q.by : q.by[t] # t
         /\ DOMAIN q.found \subseteq RecallTurns /\ q.found \in [DOMAIN q.found -> Scores]
         /\ DOMAIN q.found # {}
         /\ q.refused \subseteq RecallTurns /\ q.past \in BOOLEAN /\ q.topK \in TopKs
<1>1. /\ q.found \in UNION {[nominated -> Scores] : nominated \in (SUBSET RecallTurns) \ {{}}}
      /\ q.by \in Supersessions /\ q.notes \subseteq DOMAIN SourcesOfNote
      /\ q.refused \subseteq RecallTurns /\ q.past \in BOOLEAN /\ q.topK \in TopKs
  BY DEF Questions
<1>2. PICK nominated \in (SUBSET RecallTurns) \ {{}} : q.found \in [nominated -> Scores]
  BY <1>1
<1>3. PICK old \in SUBSET RecallTurns : q.by \in [old -> RecallTurns]
  BY <1>1 DEF Supersessions
<1>4. \A t \in DOMAIN q.by : q.by[t] # t
  BY <1>1 DEF Supersessions
<1>5. DOMAIN q.found = nominated /\ DOMAIN q.by = old
  BY <1>2, <1>3
<1>6. IsBy(q.by)
  <2>1. PICK by : by = q.by
    OBVIOUS
  <2>2. by \in [old -> RecallTurns]
    BY <1>3, <2>1
  <2>3. DOMAIN by \subseteq RecallTurns /\ by \in [DOMAIN by -> RecallTurns]
    BY <2>2
  <2> QED
    BY <2>1, <2>3 DEF IsBy
<1>7. DOMAIN q.found \subseteq RecallTurns /\ q.found \in [DOMAIN q.found -> Scores] /\ DOMAIN q.found # {}
  <2>1. PICK found : found = q.found
    OBVIOUS
  <2>2. found \in [nominated -> Scores]
    BY <1>2, <2>1
  <2>3. DOMAIN found \subseteq RecallTurns /\ found \in [DOMAIN found -> Scores] /\ DOMAIN found # {}
    <3>1. DOMAIN found = nominated
      BY <2>2
    <3>2. found \in [DOMAIN found -> Scores]
      BY <2>2, <3>1
    <3>3. nominated \subseteq RecallTurns /\ nominated # {}
      OBVIOUS
    <3> QED
      BY <3>1, <3>2, <3>3
  <2> QED
    BY <2>1, <2>3
<1> QED
  BY <1>1, <1>4, <1>6, <1>7

LEMMA FoldsUnderTurns ==
  ASSUME asked \in Questions, NEW t \in RecallTurns
  PROVE  FoldsUnder(t) \subseteq RecallTurns
<1>1. Covering(t) \subseteq RecallTurns
  BY QuestionsAreTyped, RecallAssumption DEF Covering
<1>2. Successors(asked.by, t) \subseteq RecallTurns
  BY QuestionsAreTyped, SuccessorsAreTurns
<1> QED
  BY <1>1, <1>2 DEF FoldsUnder

LEMMA StandInsReach ==
  ASSUME asked \in Questions, NEW t \in RecallTurns, NEW n, n = Cardinality(RecallTurns)
  PROVE  \E reach \in [0..n -> SUBSET RecallTurns] :
           /\ StandIns(t) = reach[n] /\ reach[0] = FoldsUnder(t)
           /\ \A i \in 0..n-1 : reach[i+1] = reach[i] \cup UNION {FoldsUnder(u) : u \in reach[i]}
<1>1. n \in Nat
  BY RecallAssumption, FS_CardinalityType
<1> DEFINE base == FoldsUnder(t)
           more(B) == B \cup UNION {FoldsUnder(u) : u \in B}
           step == [i \in 1..n |-> [B \in SUBSET RecallTurns |-> more(B)]]
           Is(reach) == reach = [i \in 0..n |-> IF i = 0 THEN FoldsUnder(t)
                                    ELSE LET before == reach[i-1]
                                         IN before \cup UNION {FoldsUnder(u) : u \in before}]
<1>2. \A B \in SUBSET RecallTurns : more(B) \in SUBSET RecallTurns
  BY FoldsUnderTurns
<1>3. step \in [1..n -> [SUBSET RecallTurns -> SUBSET RecallTurns]] /\ base \in SUBSET RecallTurns
  BY <1>2, FoldsUnderTurns
<1>4. PICK f : IsRecursion(f, n, SUBSET RecallTurns, base, step)
  <2> HIDE DEF step, base
  <2> QED
    BY <1>1, <1>3, Recursion
<1>5. f \in [0..n -> SUBSET RecallTurns] /\ \A i \in 0..n : f[i] = IF i = 0 THEN base ELSE step[i][f[i-1]]
  BY <1>4 DEF IsRecursion
<1>6. \A i \in 0..n : f[i] = IF i = 0 THEN base ELSE more(f[i-1])
  <2>1. ASSUME NEW i \in 0..n, i # 0 PROVE step[i][f[i-1]] = more(f[i-1])
    <3>1. i \in 1..n /\ i - 1 \in 0..n
      BY <1>1, <2>1
    <3>2. f[i-1] \in SUBSET RecallTurns
      BY <1>5, <3>1
    <3> HIDE DEF more
    <3> QED
      BY <3>1, <3>2
  <2> HIDE DEF more, step
  <2> QED
    BY <1>5, <2>1
<1>7. Is(f)
  BY <1>5, <1>6
<1> DEFINE reach == CHOOSE reach : Is(reach)
<1>8. Is(reach)
  BY <1>7
<1>9. StandIns(t) = reach[n]
  BY DEF StandIns
<1> HIDE DEF reach
<1>10. DOMAIN reach = 0..n /\ \A i \in 0..n : reach[i] = IF i = 0 THEN base ELSE more(reach[i-1])
  BY <1>8
<1>11. /\ reach[0] = base
       /\ \A i \in 0..n-1 : reach[i+1] = more(reach[i])
  <2>1. \A i \in 0..n-1 : i + 1 \in 0..n /\ i + 1 # 0 /\ (i + 1) - 1 = i
    BY <1>1
  <2>2. 0 \in 0..n
    BY <1>1
  <2> HIDE DEF more, base
  <2> QED
    BY <1>10, <2>1, <2>2
<1>12. \A i \in 0..n : reach[i] \in SUBSET RecallTurns
  <2> DEFINE S == SUBSET RecallTurns
  <2>1. reach[0] \in S
    BY <1>3, <1>11
  <2>2. \A i \in 0..n-1 : reach[i] \in S => reach[i+1] \in S
    <3> HIDE DEF more
    <3> QED
      BY <1>2, <1>11
  <2> HIDE DEF S
  <2>3. \A i \in 0..n : reach[i] \in S
    BY <1>1, <2>1, <2>2, RecursionType
  <2> QED
    BY <2>3 DEF S
<1>13. reach = [i \in 0..n |-> reach[i]]
  BY <1>8
<1>14. reach \in [0..n -> SUBSET RecallTurns]
  BY <1>12, <1>13
<1> QED
  BY <1>9, <1>11, <1>14

LEMMA StandInsAreClosed ==
  ASSUME asked \in Questions, NEW t \in RecallTurns
  PROVE  /\ StandIns(t) \subseteq RecallTurns
         /\ FoldsUnder(t) \subseteq StandIns(t)
         /\ \A u \in StandIns(t) : FoldsUnder(u) \subseteq StandIns(t)
<1> DEFINE n == Cardinality(RecallTurns)
<1>1. n \in Nat /\ IsFiniteSet(RecallTurns)
  BY RecallAssumption, FS_CardinalityType
<1>2. PICK reach \in [0..n -> SUBSET RecallTurns] :
           /\ StandIns(t) = reach[n] /\ reach[0] = FoldsUnder(t)
           /\ \A i \in 0..n-1 : reach[i+1] = reach[i] \cup UNION {FoldsUnder(u) : u \in reach[i]}
  BY StandInsReach
<1>n. n = Cardinality(RecallTurns)
  OBVIOUS
<1> HIDE DEF n
<1> DEFINE Closed(B) == \A u \in B : FoldsUnder(u) \subseteq B
           S == {i \in 0..n : FoldsUnder(t) \subseteq reach[i]
                              /\ (Closed(reach[i]) \/ Cardinality(reach[i]) >= i)}
<1>3. \A i \in 0..n : reach[i] \subseteq RecallTurns /\ IsFiniteSet(reach[i]) /\ Cardinality(reach[i]) \in Nat
                      /\ Cardinality(reach[i]) <= n
  <2> SUFFICES ASSUME NEW i \in 0..n
               PROVE reach[i] \subseteq RecallTurns /\ IsFiniteSet(reach[i]) /\ Cardinality(reach[i]) \in Nat
                     /\ Cardinality(reach[i]) <= n
    OBVIOUS
  <2>1. reach[i] \subseteq RecallTurns
    BY <1>2
  <2>2. IsFiniteSet(reach[i]) /\ Cardinality(reach[i]) <= Cardinality(RecallTurns)
    BY <1>1, <2>1, FS_Subset
  <2> QED
    BY <1>n, <2>1, <2>2, FS_CardinalityType
<1>4. 0 \in S
  BY <1>1, <1>2, <1>3
<1>5. ASSUME NEW i \in 0..n-1, i \in S PROVE i + 1 \in S
  <2>1. i \in 0..n /\ i + 1 \in 0..n
    BY <1>1
  <2>2. reach[i+1] = reach[i] \cup UNION {FoldsUnder(u) : u \in reach[i]}
    BY <1>2
  <2>3. FoldsUnder(t) \subseteq reach[i+1]
    BY <1>5, <2>2
  <2>4. CASE Closed(reach[i])
    <3>1. reach[i+1] = reach[i]
      BY <2>2, <2>4
    <3> QED
      BY <2>1, <2>3, <2>4, <3>1
  <2>5. CASE ~ Closed(reach[i])
    <3>1. Cardinality(reach[i]) >= i
      BY <1>5, <2>5
    <3>2. PICK w \in reach[i+1] : w \notin reach[i]
      BY <2>2, <2>5
    <3> DEFINE B == reach[i]
    <3>3. IsFiniteSet(B) /\ Cardinality(B) \in Nat /\ w \notin B
      BY <1>3, <2>1, <3>2
    <3> HIDE DEF B
    <3>4. Cardinality(B \cup {w}) = Cardinality(B) + 1 /\ IsFiniteSet(B \cup {w})
      BY <3>3, FS_AddElement
    <3>5. B \cup {w} \subseteq reach[i+1]
      BY <2>2, <3>2 DEF B
    <3>6. Cardinality(B \cup {w}) <= Cardinality(reach[i+1])
      BY <1>3, <2>1, <3>5, FS_Subset
    <3>7. Cardinality(reach[i+1]) \in Nat /\ Cardinality(B) >= i
      BY <1>3, <2>1, <3>1 DEF B
    <3>8. Cardinality(reach[i+1]) >= i + 1
      BY <3>3, <3>4, <3>6, <3>7
    <3> QED
      BY <2>1, <2>3, <3>8
  <2> QED
    BY <2>4, <2>5
<1>6. n \in S
  <2>1. \A i \in 0..n-1 : i \in S => i + 1 \in S
    BY <1>5
  <2> HIDE DEF S
  <2>2. \A i \in 0..n : i \in S
    BY <1>1, <1>4, <2>1, InductionUpto
  <2> QED
    BY <1>1, <2>2
<1>7. Closed(reach[n])
  <2>1. CASE Closed(reach[n])
    BY <2>1
  <2>2. CASE Cardinality(reach[n]) >= n
    <3> DEFINE B == reach[n]
    <3>1. B \subseteq RecallTurns /\ Cardinality(B) = n
      BY <1>1, <1>3, <2>2
    <3> HIDE DEF B
    <3>2. B = RecallTurns
      BY <1>1, <1>n, <3>1, FS_Subset
    <3> QED
      BY <3>2, FoldsUnderTurns DEF B
  <2> QED
    BY <1>6, <2>1, <2>2
<1> QED
  BY <1>1, <1>2, <1>3, <1>6, <1>7

LEMMA StandInsAreLeast ==
  ASSUME asked \in Questions, NEW t \in RecallTurns, NEW B, FoldsUnder(t) \subseteq B,
         \A u \in B : FoldsUnder(u) \subseteq B
  PROVE  StandIns(t) \subseteq B
<1> DEFINE n == Cardinality(RecallTurns)
<1>1. n \in Nat
  BY RecallAssumption, FS_CardinalityType
<1>2. PICK reach \in [0..n -> SUBSET RecallTurns] :
           /\ StandIns(t) = reach[n] /\ reach[0] = FoldsUnder(t)
           /\ \A i \in 0..n-1 : reach[i+1] = reach[i] \cup UNION {FoldsUnder(u) : u \in reach[i]}
  BY StandInsReach
<1> HIDE DEF n
<1> DEFINE S == SUBSET B
<1>3. reach[0] \in S
  BY <1>2
<1>4. \A i \in 0..n-1 : reach[i] \in S => reach[i+1] \in S
  BY <1>2
<1>5. \A i \in 0..n : reach[i] \in S
  <2> HIDE DEF S
  <2> QED
    BY <1>1, <1>3, <1>4, RecursionType
<1> QED
  BY <1>1, <1>2, <1>5

(***************************************************************************)
(* The order in which candidates are looked at, and what folds.            *)
(***************************************************************************)

Scored == DOMAIN fused \subseteq RecallTurns /\ \A t \in DOMAIN fused : fused[t] \in Nat

LEMMA BetterOrders ==
  ASSUME Scored
  PROVE  \A t, u, v \in DOMAIN fused :
           /\ ~Better(t, t)
           /\ Better(t, u) /\ Better(u, v) => Better(t, v)
           /\ t # u => Better(t, u) \/ Better(u, t)
           /\ ~ (Better(t, u) /\ Better(u, t))
<1> SUFFICES ASSUME NEW t \in DOMAIN fused, NEW u \in DOMAIN fused, NEW v \in DOMAIN fused
             PROVE  /\ ~Better(t, t)
                    /\ Better(t, u) /\ Better(u, v) => Better(t, v)
                    /\ t # u => Better(t, u) \/ Better(u, t)
                    /\ ~ (Better(t, u) /\ Better(u, t))
  OBVIOUS
<1>1. /\ fused[t] \in Nat /\ fused[u] \in Nat /\ fused[v] \in Nat
      /\ SaidAt[t] \in Nat /\ SaidAt[u] \in Nat /\ SaidAt[v] \in Nat
      /\ t \in Nat /\ u \in Nat /\ v \in Nat
  BY RecallAssumption DEF Scored
<1> QED
  BY <1>1 DEF Better

(* There is a worst one. *)
LEMMA WorstOfSome ==
  ASSUME Scored, NEW T \in SUBSET DOMAIN fused, T # {}
  PROVE  \E w \in T : \A x \in T \ {w} : Better(x, w)
<1> DEFINE F == {U \in SUBSET T : U # {} => \E w \in U : \A x \in U \ {w} : Better(x, w)}
<1>1. IsFiniteSet(T)
  BY RecallAssumption, FS_Subset DEF Scored
<1>2. {} \in F
  OBVIOUS
<1>3. ASSUME NEW U \in SUBSET T, NEW y \in T, U \in F PROVE U \cup {y} \in F
  <2>1. CASE U = {} \/ y \in U
    BY <1>3, <2>1
  <2>2. CASE U # {} /\ y \notin U
    <3>1. PICK w \in U : \A x \in U \ {w} : Better(x, w)
      BY <1>3, <2>2
    <3>2. y \in DOMAIN fused /\ w \in DOMAIN fused /\ y # w /\ U \subseteq DOMAIN fused
      BY <2>2
    <3>3. CASE Better(y, w)
      BY <3>1, <3>3
    <3>4. CASE Better(w, y)
      <4>1. \A x \in U : Better(x, y)
        BY <3>1, <3>2, <3>4, BetterOrders
      <4>2. \A x \in (U \cup {y}) \ {y} : Better(x, y)
        BY <4>1
      <4> QED
        BY <4>2
    <3> QED
      BY <3>2, <3>3, <3>4, BetterOrders
  <2> QED
    BY <2>1, <2>2
<1>4. T \in F
  <2>1. \A U \in SUBSET T, y \in T : U \in F => U \cup {y} \in F
    BY <1>3
  <2> HIDE DEF F
  <2> QED
    BY <1>1, <1>2, <2>1, FiniteInduction
<1> QED
  BY <1>4

(* Looking at the candidates best first says of each whether it folds. *)
FoldsBestFirst(gone, some, kept) ==
  \A t \in some : t \in gone <=> FoldsUnder(t) \cap (kept \ {u \in gone : Better(u, t)}) # {}

LEMMA SomeFoldingExists ==
  ASSUME Scored, NEW kept \in SUBSET DOMAIN fused
  PROVE  \E gone \in SUBSET kept : FoldsBestFirst(gone, kept, kept)
<1> DEFINE Sizes == {n \in Nat : \A some \in SUBSET kept : Cardinality(some) = n =>
                                   \E gone \in SUBSET some : FoldsBestFirst(gone, some, kept)}
<1>1. IsFiniteSet(kept)
  BY RecallAssumption, FS_Subset DEF Scored
<1>2. 0 \in Sizes
  <2> SUFFICES ASSUME NEW some \in SUBSET kept, Cardinality(some) = 0
               PROVE  \E gone \in SUBSET some : FoldsBestFirst(gone, some, kept)
    OBVIOUS
  <2>1. some = {}
    BY <1>1, FS_Subset, FS_EmptySet
  <2>2. FoldsBestFirst({}, some, kept)
    BY <2>1 DEF FoldsBestFirst
  <2> QED
    BY <2>2
<1>3. ASSUME NEW n \in Nat, n \in Sizes PROVE n + 1 \in Sizes
  <2> SUFFICES ASSUME NEW some \in SUBSET kept, Cardinality(some) = n + 1
               PROVE  \E gone \in SUBSET some : FoldsBestFirst(gone, some, kept)
    OBVIOUS
  <2>1. IsFiniteSet(some) /\ some # {}
    BY <1>1, FS_Subset, FS_EmptySet
  <2>2. PICK w \in some : \A x \in some \ {w} : Better(x, w)
    BY <2>1, WorstOfSome
  <2>3. Cardinality(some \ {w}) = n
    <3>1. Cardinality(some \ {w}) = Cardinality(some) - 1
      BY <2>1, <2>2, FS_RemoveElement
    <3> QED
      BY <3>1
  <2>4. PICK gone \in SUBSET (some \ {w}) : FoldsBestFirst(gone, some \ {w}, kept)
    BY <1>3, <2>3
  <2> DEFINE folds == FoldsUnder(w) \cap (kept \ {u \in gone : Better(u, w)}) # {}
             after == gone \cup (IF folds THEN {w} ELSE {})
  <2>5. \A t \in some : ~Better(w, t)
    BY <2>2, BetterOrders
  <2>6. \A t \in some : {u \in after : Better(u, t)} = {u \in gone : Better(u, t)}
    BY <2>5
  <2>7. ASSUME NEW t \in some
        PROVE  t \in after <=> FoldsUnder(t) \cap (kept \ {u \in after : Better(u, t)}) # {}
    <3>1. CASE t = w
      BY <2>6, <3>1
    <3>2. CASE t # w
      <4>1. t \in after <=> t \in gone
        BY <3>2
      <4>2. t \in gone <=> FoldsUnder(t) \cap (kept \ {u \in gone : Better(u, t)}) # {}
        BY <2>4, <3>2 DEF FoldsBestFirst
      <4> QED
        BY <2>6, <4>1, <4>2
    <3> QED
      BY <3>1, <3>2
  <2>8. after \in SUBSET some /\ FoldsBestFirst(after, some, kept)
    BY <2>2, <2>7 DEF FoldsBestFirst
  <2> HIDE DEF after
  <2> QED
    BY <2>8
<1>4. \A n \in Nat : n \in Sizes
  <2> HIDE DEF Sizes
  <2> QED
    BY <1>2, <1>3, Induction
<1>5. Cardinality(kept) \in Nat
  BY <1>1, FS_CardinalityType
<1> QED
  BY <1>4, <1>5

LEMMA FoldingIsBestFirst ==
  ASSUME Scored
  PROVE  Folding \subseteq Kept /\ FoldsBestFirst(Folding, Kept, Kept)
<1> DEFINE kept == Kept
<1>1. kept \in SUBSET DOMAIN fused
  BY DEF Kept
<1> HIDE DEF kept
<1>2. \E gone \in SUBSET kept : FoldsBestFirst(gone, kept, kept)
  BY <1>1, SomeFoldingExists
<1>3. \E gone \in SUBSET Kept : \A t \in Kept :
        t \in gone <=> FoldsUnder(t) \cap (Kept \ {u \in gone : Better(u, t)}) # {}
  BY <1>2 DEF kept, FoldsBestFirst
<1>4. Folding \in SUBSET Kept /\ \A t \in Kept :
        t \in Folding <=> FoldsUnder(t) \cap (Kept \ {u \in Folding : Better(u, t)}) # {}
  <2> HIDE DEF Kept
  <2> QED
    BY <1>3 DEF Folding
<1> QED
  BY <1>4 DEF FoldsBestFirst

(***************************************************************************)
(* The invariant. NoStaleAnswer says of answers what follows, at the last  *)
(* pass, from where a score stands at all times: a superseded turn still   *)
(* among the candidates has its latest turn before it (HeirsComeFirst).    *)
(***************************************************************************)

HeirsComeFirst ==
  ~asked.past =>
    \A t \in DOMAIN fused \cap DOMAIN asked.by :
      LET heir == Latest(asked.by, t)
      IN \/ heir \in asked.refused \cup folded
         \/ heir \in DOMAIN asked.by
         \/ heir \in DOMAIN fused /\ fused[heir] > fused[t]

RecallInv ==
  \/ asked = NotAsked /\ fused = << >> /\ folded = {} /\ passes = 0
  \/ /\ asked \in Questions
     /\ RecallTypeOK
     /\ FoldsUnderWhatIsShown
     /\ HeirsComeFirst

LEMMA HighestIs ==
  ASSUME NEW S \in SUBSET Nat, IsFiniteSet(S), S # {}
  PROVE  Highest(S) \in S /\ \A s \in S : s <= Highest(S)
<1>1. Max(S) \in S /\ \A s \in S : s <= Max(S)
  BY MaxOfFinite
<1> QED
  BY <1>1 DEF Highest

LEMMA RankIsMonotone ==
  ASSUME NEW D, NEW B \in SUBSET D, NEW C \in SUBSET B, D \subseteq RecallTurns
  PROVE  Cardinality(C) <= Cardinality(B) /\ Cardinality(B) \in Nat /\ Cardinality(C) \in Nat
<1>1. IsFiniteSet(B) /\ IsFiniteSet(C)
  BY RecallAssumption, FS_Subset
<1> QED
  BY <1>1, FS_Subset, FS_CardinalityType

LEMMA TypeScores == RecallTypeOK => Scored
<1>1. Scores \subseteq Nat
  BY RecallAssumption
<1>2. ASSUME RecallTypeOK, NEW t \in DOMAIN fused PROVE fused[t] \in Nat
  BY <1>2 DEF RecallTypeOK
<1> QED
  BY <1>2 DEF RecallTypeOK, Scored

(* What a pass does not fold stays within what is kept: nothing that was   *)
(* not ranked before it comes before it.                                   *)
LEMMA KeptStays ==
  ASSUME asked \in Questions, RecallTypeOK, UNCHANGED asked,
         NEW gone \in SUBSET Kept, fused' = [t \in DOMAIN fused \ gone |-> fused[t]]
  PROVE  Kept \ gone \subseteq Kept'
<1> SUFFICES ASSUME NEW t \in Kept, t \notin gone PROVE t \in Kept'
  OBVIOUS
<1>1. t \in DOMAIN fused /\ Rank(t) <= asked.topK
      /\ \A best \in DOMAIN fused : 100 * fused[t] >= 35 * fused[best]
  BY DEF Kept
<1>2. DOMAIN fused' = DOMAIN fused \ gone /\ \A u \in DOMAIN fused' : fused'[u] = fused[u]
  OBVIOUS
<1>3. \A u \in DOMAIN fused' : Better(u, t)' <=> Better(u, t)
  BY <1>1, <1>2 DEF Better
<1> DEFINE before == {u \in DOMAIN fused : Better(u, t)}
           after == {u \in DOMAIN fused' : Better(u, t)'}
<1>4. after \subseteq before
  BY <1>2, <1>3
<1>5. before \in SUBSET DOMAIN fused /\ DOMAIN fused \subseteq RecallTurns
  BY DEF RecallTypeOK
<1>6. Rank(t) = Cardinality(before) + 1
  BY DEF Rank
<1>7. Rank(t)' = Cardinality(after) + 1
  BY DEF Rank
<1>8. asked.topK \in Nat
  BY QuestionsAreTyped, RecallAssumption
<1> HIDE DEF before, after
<1>9. Cardinality(after) <= Cardinality(before) /\ Cardinality(before) \in Nat /\ Cardinality(after) \in Nat
  BY <1>4, <1>5, RankIsMonotone
<1>10. Rank(t)' <= asked.topK
  BY <1>1, <1>6, <1>7, <1>8, <1>9
<1>11. \A best \in DOMAIN fused' : 100 * fused'[t] >= 35 * fused'[best]
  BY <1>1, <1>2
<1>12. asked'.topK = asked.topK /\ t \in DOMAIN fused'
  BY <1>1, <1>2
<1> QED
  BY <1>10, <1>11, <1>12 DEF Kept

(* What is under t is under what t is under.                               *)
LEMMA StandInsNest ==
  ASSUME asked \in Questions, NEW t \in RecallTurns, NEW u \in StandIns(t)
  PROVE  u \in RecallTurns /\ StandIns(u) \subseteq StandIns(t)
<1>1. PICK B : B = StandIns(t)
  OBVIOUS
<1>2. B \subseteq RecallTurns /\ FoldsUnder(u) \subseteq B /\ \A x \in B : FoldsUnder(x) \subseteq B
  BY <1>1, StandInsAreClosed
<1>3. u \in RecallTurns
  BY <1>1, <1>2
<1>4. StandIns(u) \subseteq B
  BY <1>2, <1>3, StandInsAreLeast
<1> QED
  BY <1>1, <1>3, <1>4

(* A turn folded away is stood for by what is in evidence.                 *)
IsStoodFor(t, evidence) ==
  StandIns(t) \cap evidence # {} \/ \E u \in {t} \cup StandIns(t) : InACircle(u)

(* By what it folds under, then, if that is in evidence or stood for.      *)
LEMMA StoodForByStandIn ==
  ASSUME asked \in Questions, NEW t \in RecallTurns, NEW u \in StandIns(t), NEW evidence,
         u \in evidence \/ IsStoodFor(u, evidence)
  PROVE  IsStoodFor(t, evidence)
<1>1. StandIns(u) \subseteq StandIns(t)
  BY StandInsNest
<1> QED
  BY <1>1 DEF IsStoodFor

(* What folds in a pass: the worst of what would be lost has folded under  *)
(* something that stays, or under something worse that is not lost.        *)
LEMMA FoldingIsStoodFor ==
  ASSUME asked \in Questions, RecallTypeOK, NEW evidence, Kept \ Folding \subseteq evidence
  PROVE  \A t \in Folding : IsStoodFor(t, evidence)
<1> DEFINE lost == {t \in Folding : ~IsStoodFor(t, evidence)}
<1> SUFFICES ASSUME lost # {} PROVE FALSE
  OBVIOUS
<1>1. Scored /\ DOMAIN fused \subseteq RecallTurns
  BY TypeScores DEF RecallTypeOK
<1>2. Folding \subseteq Kept /\ FoldsBestFirst(Folding, Kept, Kept) /\ Kept \subseteq DOMAIN fused
  BY <1>1, FoldingIsBestFirst DEF Kept
<1>3. lost \in SUBSET DOMAIN fused
  BY <1>2
<1>4. PICK w \in lost : \A x \in lost \ {w} : Better(x, w)
  <2> HIDE DEF lost
  <2> QED
    BY <1>1, <1>3, WorstOfSome
<1>5. w \in Folding /\ w \in RecallTurns /\ ~IsStoodFor(w, evidence)
  BY <1>1, <1>2
<1>6. PICK v \in FoldsUnder(w) : v \in Kept /\ ~ (v \in Folding /\ Better(v, w))
  BY <1>2, <1>5 DEF FoldsBestFirst
<1>7. v \in StandIns(w)
  BY <1>5, StandInsAreClosed
<1>8. CASE v \notin Folding
  BY <1>5, <1>6, <1>7, <1>8, StoodForByStandIn
<1>9. CASE v = w
  <2>1. w \notin Covering(w)
    <3>1. asked.notes \subseteq DOMAIN SourcesOfNote
      BY QuestionsAreTyped
    <3> QED
      BY <3>1, RecallAssumption DEF Covering
  <2>2. InACircle(w)
    BY <1>9, <2>1 DEF FoldsUnder, InACircle
  <2> QED
    BY <1>5, <2>2 DEF IsStoodFor
<1>10. CASE v \in Folding /\ v # w
  <2>1. v \notin lost
    BY <1>4, <1>6, <1>10
  <2>2. IsStoodFor(v, evidence)
    BY <1>10, <2>1
  <2> QED
    BY <1>5, <1>7, <2>2, StoodForByStandIn
<1> QED
  BY <1>8, <1>9, <1>10

LEMMA ShownIsStoodFor ==
  FoldsUnderWhatIsShown <=> \A t \in folded : IsStoodFor(t, Kept)
BY DEF FoldsUnderWhatIsShown, IsStoodFor

LEMMA StandInsStay ==
  ASSUME UNCHANGED asked
  PROVE  /\ \A t : StandIns(t)' = StandIns(t) /\ (InACircle(t)' <=> InACircle(t))
         /\ FoldsUnderWhatIsShown' <=> \A t \in folded' : IsStoodFor(t, Kept')
<1>1. \A t : FoldsUnder(t)' = FoldsUnder(t)
  BY DEF FoldsUnder, Covering
<1>2. \A t : StandIns(t)' = StandIns(t)
  BY DEF StandIns, FoldsUnder, Covering
<1>3. \A t : InACircle(t)' <=> InACircle(t)
  BY DEF InACircle
<1>4. \A t : IsStoodFor(t, Kept') <=>
               StandIns(t) \cap Kept' # {} \/ \E u \in {t} \cup StandIns(t) : InACircle(u)
  <2> HIDE DEF Kept
  <2> QED
    BY DEF IsStoodFor
<1>5. FoldsUnderWhatIsShown' <=>
        \A t \in folded' : StandIns(t)' \cap Kept' # {} \/ \E u \in {t} \cup StandIns(t)' : InACircle(u)'
  BY DEF FoldsUnderWhatIsShown
<1> QED
  BY <1>2, <1>3, <1>4, <1>5

LEMMA PassKeepsInv ==
  ASSUME RecallInv, CollapsePass
  PROVE  RecallInv'
<1>1. /\ asked \in Questions /\ RecallTypeOK /\ FoldsUnderWhatIsShown /\ HeirsComeFirst
      /\ UNCHANGED asked /\ passes > 0 /\ passes' = passes - 1
      /\ fused' = [t \in DOMAIN fused \ Folding |-> fused[t]] /\ folded' = folded \cup Folding
  BY DEF RecallInv, CollapsePass, Asked
<1>2. Scored /\ Folding \subseteq Kept /\ Kept \subseteq DOMAIN fused
  BY <1>1, TypeScores, FoldingIsBestFirst DEF Kept
<1>3. /\ DOMAIN fused \subseteq RecallTurns /\ \A t \in DOMAIN fused : fused[t] \in 1..Highest(Scores)
      /\ folded \subseteq RecallTurns \ DOMAIN fused /\ passes \in 0..CollapsePasses
  BY <1>1 DEF RecallTypeOK
<1>4. DOMAIN fused' = DOMAIN fused \ Folding /\ \A t \in DOMAIN fused' : fused'[t] = fused[t]
  BY <1>1
<1>5. RecallTypeOK'
  <2>1. passes' \in 0..CollapsePasses
    BY <1>1, <1>3, RecallAssumption
  <2>2. folded' \subseteq RecallTurns \ DOMAIN fused'
    BY <1>1, <1>2, <1>3, <1>4
  <2>3. \A t \in DOMAIN fused' : fused'[t] \in 1..Highest(Scores)
    BY <1>3, <1>4
  <2>4. DOMAIN fused' \subseteq RecallTurns
    BY <1>3, <1>4
  <2> QED
    BY <2>1, <2>2, <2>3, <2>4 DEF RecallTypeOK
<1>6. FoldsUnderWhatIsShown'
  <2>1. PICK evidence : evidence = Kept'
    OBVIOUS
  <2>2. PICK folding : folding = Folding
    OBVIOUS
  <2>3. folding \subseteq Kept /\ fused' = [t \in DOMAIN fused \ folding |-> fused[t]]
    BY <1>1, <1>2, <2>2
  <2>4. Kept \ folding \subseteq evidence
    <3>1. Kept \ folding \subseteq Kept'
      BY <1>1, <2>3, KeptStays
    <3> QED
      BY <2>1, <3>1
  <2>5. \A t \in folding : IsStoodFor(t, evidence)
    BY <1>1, <2>2, <2>4, FoldingIsStoodFor
  <2>6. ASSUME NEW t \in folded PROVE IsStoodFor(t, evidence)
    <3>1. IsStoodFor(t, Kept) /\ t \in RecallTurns
      BY <1>1, <1>3, ShownIsStoodFor
    <3>2. CASE \E u \in {t} \cup StandIns(t) : InACircle(u)
      BY <3>2 DEF IsStoodFor
    <3>3. CASE StandIns(t) \cap Kept # {}
      <4>1. PICK u \in StandIns(t) : u \in Kept
        BY <3>3
      <4>2. u \in evidence \/ IsStoodFor(u, evidence)
        BY <2>4, <2>5, <4>1
      <4> QED
        BY <1>1, <3>1, <4>2, StoodForByStandIn
    <3> QED
      BY <3>1, <3>2, <3>3 DEF IsStoodFor
  <2>7. \A t \in folded' : IsStoodFor(t, evidence)
    BY <1>1, <2>2, <2>5, <2>6
  <2> QED
    BY <1>1, <2>1, <2>7, StandInsStay
<1>7. HeirsComeFirst'
  <2> SUFFICES ASSUME ~asked.past, NEW t \in DOMAIN fused' \cap DOMAIN asked.by, NEW heir,
                      heir = Latest(asked.by, t)
               PROVE  \/ heir \in asked.refused \cup folded'
                      \/ heir \in DOMAIN asked.by
                      \/ heir \in DOMAIN fused' /\ fused'[heir] > fused'[t]
    BY <1>1 DEF HeirsComeFirst
  <2>1. \/ heir \in asked.refused \cup folded \/ heir \in DOMAIN asked.by
        \/ heir \in DOMAIN fused /\ fused[heir] > fused[t]
    BY <1>1, <1>4 DEF HeirsComeFirst
  <2> QED
    BY <1>1, <1>4, <2>1
<1> QED
  BY <1>1, <1>5, <1>6, <1>7 DEF RecallInv

(***************************************************************************)
(* hand_over: the latest turn of a chain is before the turns it replaces.  *)
(***************************************************************************)

LEMMA ScoresAreHigh ==
  ASSUME Scores # {}
  PROVE  /\ Highest(Scores) \in Nat
         /\ \A s \in Scores : s \in 1..Highest(Scores) /\ s \div 2 \in 1..Highest(Scores) /\ s \div 2 < s
<1>1. Scores \subseteq Nat /\ IsFiniteSet(Scores)
  BY RecallAssumption
<1> DEFINE h == Highest(Scores)
<1>2. h \in Nat /\ \A s \in Scores : s <= h
  BY <1>1, HighestIs
<1> HIDE DEF h
<1>3. ASSUME NEW s \in Scores PROVE s \in 1..h /\ s \div 2 \in 1..h /\ s \div 2 < s
  <2>1. s \in Nat /\ s # 0 /\ s % 2 = 0 /\ s <= h
    BY <1>2, RecallAssumption
  <2>2. s >= 2
    <3>1. s # 1
      BY <2>1
    <3> QED
      BY <2>1, <3>1
  <2>3. s \div 2 \in Int /\ 1 <= s \div 2 /\ s \div 2 < s
    BY <2>1, <2>2
  <2> QED
    BY <1>2, <2>1, <2>3
<1> QED
  BY <1>2, <1>3 DEF h

(* Only a turn that nothing supersedes inherits, unless it is on a circle. *)
LEMMA HeirsAreNotOutOfDate ==
  ASSUME NEW q \in Questions, NEW t \in Heirs(q) \cap DOMAIN q.by
  PROVE  Latest(q.by, t) \in DOMAIN q.by
<1>1. IsBy(q.by)
  BY QuestionsAreTyped
<1>2. PICK old \in DOMAIN q.by : Latest(q.by, old) = t
  BY DEF Heirs, HandsTo
<1>3. t \in RecallTurns /\ old \in RecallTurns
  BY <1>1 DEF Heirs, IsBy
<1>4. t \in Successors(q.by, t)
  BY <1>1, <1>2, <1>3, EndlessIsACircle
<1> QED
  BY <1>1, <1>3, <1>4, CirclesAreEndless

LEMMA HandedOverScores ==
  ASSUME NEW q \in Questions, NEW h, h = HandedOver(q)
  PROVE  /\ DOMAIN h = DOMAIN q.found \cup Heirs(q)
         /\ \A t \in DOMAIN h : h[t] \in 1..Highest(Scores)
         /\ \A t \in Heirs(q) : \A old \in HandsTo(q, t) : q.found[old] <= h[t]
         /\ \A t \in DOMAIN q.by : t \in DOMAIN q.found /\ t \notin Heirs(q) => h[t] = q.found[t] \div 2
<1> DEFINE own(t) == IF t \notin DOMAIN q.found THEN 0
                     ELSE IF t \in DOMAIN q.by THEN q.found[t] \div 2 ELSE q.found[t]
           inherited(t) == IF t \in Heirs(q) THEN {q.found[old] : old \in HandsTo(q, t)} ELSE {}
           offers(t) == {own(t)} \cup inherited(t)
<1>1. PICK found : found = q.found
  OBVIOUS
<1>2. /\ found \in [DOMAIN found -> Scores] /\ DOMAIN found # {} /\ DOMAIN found \subseteq RecallTurns
      /\ IsBy(q.by)
  BY <1>1, QuestionsAreTyped
<1>3. Scores # {}
  BY <1>2
<1>4. h = [t \in DOMAIN q.found \cup Heirs(q) |-> Highest(offers(t))]
  BY DEF HandedOver
<1>5. DOMAIN h = DOMAIN q.found \cup Heirs(q) /\ \A t \in DOMAIN h : h[t] = Highest(offers(t))
  BY <1>4
<1>6. \A t : HandsTo(q, t) \subseteq DOMAIN found
  BY <1>1 DEF HandsTo
<1>7. \A t \in Heirs(q) : HandsTo(q, t) # {}
  BY DEF Heirs
<1>8. ASSUME NEW t \in DOMAIN q.found \cup Heirs(q)
      PROVE  /\ Highest(offers(t)) \in offers(t) /\ \A s \in offers(t) : s <= Highest(offers(t))
             /\ offers(t) \subseteq 0..Highest(Scores) /\ \E s \in offers(t) : s >= 1
  <2>1. inherited(t) \subseteq Scores
    BY <1>1, <1>2, <1>6
  <2>2. own(t) \in 0..Highest(Scores) /\ (t \in DOMAIN q.found => own(t) >= 1)
    <3>1. CASE t \notin DOMAIN q.found
      BY <1>3, <3>1, ScoresAreHigh
    <3>2. CASE t \in DOMAIN q.found
      <4>1. found[t] \in Scores
        BY <1>1, <1>2, <3>2
      <4>2. own(t) = found[t] \div 2 \/ own(t) = found[t]
        BY <1>1, <3>2
      <4>3. own(t) \in 1..Highest(Scores)
        BY <1>3, <4>1, <4>2, ScoresAreHigh
      <4> HIDE DEF own
      <4> QED
        BY <4>3
    <3> QED
      BY <3>1, <3>2
  <2> HIDE DEF own
  <2>3. IsFiniteSet(offers(t))
    <3>1. IsFiniteSet(inherited(t))
      BY <2>1, RecallAssumption, FS_Subset
    <3> DEFINE I == inherited(t)
               o == own(t)
    <3>2. IsFiniteSet(I)
      BY <3>1
    <3> HIDE DEF I, o
    <3>3. IsFiniteSet(I \cup {o})
      BY <3>2, FS_AddElement
    <3>4. offers(t) = I \cup {o}
      BY DEF I, o
    <3> QED
      BY <3>3, <3>4
  <2>4. offers(t) \subseteq 0..Highest(Scores)
    <3>1. \A s \in Scores : s \in 0..Highest(Scores)
      BY <1>3, ScoresAreHigh
    <3> QED
      BY <2>1, <2>2, <3>1
  <2>5. \E s \in offers(t) : s >= 1
    <3>1. CASE t \in DOMAIN q.found
      BY <2>2, <3>1
    <3>2. CASE t \in Heirs(q)
      <4>1. PICK old \in HandsTo(q, t) : TRUE
        BY <1>7, <3>2
      <4>2. q.found[old] \in inherited(t)
        BY <3>2
      <4>3. q.found[old] \in Scores
        BY <2>1, <4>2
      <4>4. q.found[old] >= 1
        BY <1>3, <4>3, ScoresAreHigh
      <4> QED
        BY <4>2, <4>4
    <3> QED
      BY <3>1, <3>2
  <2> DEFINE O == offers(t)
  <2>6. O # {} /\ O \subseteq Nat /\ IsFiniteSet(O)
    BY <2>3, <2>4
  <2> HIDE DEF O
  <2>7. Highest(O) \in O /\ \A s \in O : s <= Highest(O)
    BY <2>6, HighestIs
  <2> QED
    BY <2>4, <2>5, <2>7 DEF O
<1>9. \A t \in DOMAIN h : h[t] \in 1..Highest(Scores)
  <2> SUFFICES ASSUME NEW t \in DOMAIN h PROVE h[t] \in 1..Highest(Scores)
    OBVIOUS
  <2> HIDE DEF offers
  <2>1. /\ h[t] = Highest(offers(t)) /\ h[t] \in offers(t) /\ \A s \in offers(t) : s <= h[t]
        /\ offers(t) \subseteq 0..Highest(Scores) /\ \E s \in offers(t) : s >= 1
    BY <1>5, <1>8
  <2>2. Highest(Scores) \in Nat
    BY <1>3, ScoresAreHigh
  <2> QED
    BY <2>1, <2>2
<1>10. ASSUME NEW t \in Heirs(q), NEW old \in HandsTo(q, t) PROVE q.found[old] <= h[t]
  <2>1. q.found[old] \in offers(t)
    OBVIOUS
  <2> HIDE DEF offers
  <2> QED
    BY <1>5, <1>8, <2>1
<1>11. ASSUME NEW t \in DOMAIN q.by, t \in DOMAIN q.found, t \notin Heirs(q) PROVE h[t] = q.found[t] \div 2
  <2>1. offers(t) = {q.found[t] \div 2}
    BY <1>11
  <2> HIDE DEF offers
  <2> QED
    BY <1>5, <1>8, <1>11, <2>1
<1> QED
  BY <1>5, <1>9, <1>10, <1>11

LEMMA AskKeepsInv ==
  ASSUME RecallInv, NEW q \in Questions, Ask(q)
  PROVE  RecallInv'
<1>1. asked' = q /\ fused' = (IF q.past THEN q.found ELSE HandedOver(q)) /\ folded' = {} /\ passes' = CollapsePasses
  BY DEF Ask
<1>2. PICK found : found = q.found
  OBVIOUS
<1>3. /\ found \in [DOMAIN found -> Scores] /\ DOMAIN found # {} /\ DOMAIN found \subseteq RecallTurns
      /\ IsBy(q.by)
  BY <1>2, QuestionsAreTyped
<1>4. Scores # {} /\ Heirs(q) \subseteq RecallTurns
  BY <1>3 DEF Heirs
<1>5. RecallTypeOK'
  <2>1. DOMAIN fused' \subseteq RecallTurns /\ \A t \in DOMAIN fused' : fused'[t] \in 1..Highest(Scores)
    <3>1. CASE q.past
      BY <1>1, <1>2, <1>3, <1>4, <3>1, ScoresAreHigh
    <3>2. CASE ~q.past
      BY <1>1, <1>2, <1>3, <1>4, <3>2, HandedOverScores
    <3> QED
      BY <3>1, <3>2
  <2>2. folded' \subseteq RecallTurns \ DOMAIN fused' /\ passes' \in 0..CollapsePasses
    BY <1>1, RecallAssumption
  <2> QED
    BY <2>1, <2>2 DEF RecallTypeOK
<1>6. FoldsUnderWhatIsShown'
  BY <1>1 DEF FoldsUnderWhatIsShown
<1>7. HeirsComeFirst'
  <2> SUFFICES ASSUME ~q.past, NEW t \in DOMAIN fused' \cap DOMAIN q.by, NEW heir, heir = Latest(q.by, t),
                      heir \notin q.refused, heir \notin DOMAIN q.by
               PROVE  heir \in DOMAIN fused' /\ fused'[heir] > fused'[t]
    BY <1>1 DEF HeirsComeFirst
  <2>1. PICK h : h = HandedOver(q)
    OBVIOUS
  <2>2. fused' = h
    BY <1>1, <2>1
  <2>3. t \notin Heirs(q)
    BY HeirsAreNotOutOfDate
  <2>4. t \in DOMAIN found /\ t \in RecallTurns
    BY <1>2, <1>3, <2>1, <2>2, <2>3, HandedOverScores
  <2>5. h[t] = found[t] \div 2
    BY <1>2, <2>1, <2>3, <2>4, HandedOverScores
  <2>6. t \in HandsTo(q, heir)
    BY <1>2, <2>4 DEF HandsTo
  <2>7. heir \in RecallTurns
    <3>1. PICK n : n = Cardinality(DOMAIN q.by)
      OBVIOUS
    <3>2. n \in Nat /\ Chain(q.by, t) \in [0..n -> RecallTurns]
      BY <1>3, <2>4, <3>1, FlagsAreFinite, ChainFollows
    <3> QED
      BY <3>1, <3>2 DEF Latest
  <2>8. heir \in Heirs(q)
    BY <2>6, <2>7 DEF Heirs
  <2>9. heir \in DOMAIN h /\ found[t] <= h[heir] /\ h[heir] \in 1..Highest(Scores)
    BY <1>2, <2>1, <2>6, <2>8, HandedOverScores
  <2>10. found[t] \in Scores /\ found[t] \div 2 < found[t] /\ Highest(Scores) \in Nat
    BY <1>3, <1>4, <2>4, ScoresAreHigh
  <2>11. found[t] \in Nat /\ found[t] \div 2 \in Int
    BY <2>10, RecallAssumption
  <2>12. h[heir] > h[t]
    BY <2>5, <2>9, <2>10, <2>11
  <2> QED
    BY <2>2, <2>9, <2>12
<1> QED
  BY <1>1, <1>5, <1>6, <1>7 DEF RecallInv

(***************************************************************************)
(* The theorems.                                                           *)
(***************************************************************************)

LEMMA RecallInvHolds == RecallSpec => []RecallInv
<1>1. RecallInit => RecallInv
  BY DEF RecallInit, RecallInv
<1>2. RecallInv /\ [RecallNext]_recallVars => RecallInv'
  <2> SUFFICES ASSUME RecallInv, [RecallNext]_recallVars PROVE RecallInv'
    OBVIOUS
  <2>1. ASSUME NEW q \in Questions, Ask(q) PROVE RecallInv'
    BY <2>1, AskKeepsInv
  <2>2. CASE CollapsePass
    BY <2>2, PassKeepsInv
  <2>3. CASE UNCHANGED recallVars
    <3>1. UNCHANGED <<asked, fused, folded, passes>>
      BY <2>3 DEF recallVars
    <3>2. Kept' = Kept
      BY <3>1 DEF Kept, Rank, Better
    <3>3. FoldsUnderWhatIsShown => FoldsUnderWhatIsShown'
      BY <3>1, <3>2, StandInsStay, ShownIsStoodFor
    <3> QED
      BY <3>1, <3>3 DEF RecallInv, RecallTypeOK, HeirsComeFirst
  <2> QED
    BY <2>1, <2>2, <2>3 DEF RecallNext
<1> QED
  BY <1>1, <1>2, PTL DEF RecallSpec

LEMMA InvTypes == RecallInv => RecallTypeOK
BY RecallAssumption DEF RecallInv, RecallTypeOK

LEMMA InvShown == RecallInv => FoldsUnderWhatIsShown
BY DEF RecallInv, FoldsUnderWhatIsShown

(* Where the last pass folds nothing, no turn of the evidence has a        *)
(* successor there; the latest of its chain, being before it, would be.    *)
LEMMA InvNotStale == RecallInv => NoStaleAnswer
<1> SUFFICES ASSUME RecallInv, Answered, ~asked.past, passes > 0, NEW t \in Kept \cap DOMAIN asked.by,
                    NEW heir, heir = Latest(asked.by, t),
                    heir \notin asked.refused \cup folded, ~InACircle(heir)
             PROVE  FALSE
  BY DEF NoStaleAnswer
<1>1. asked \in Questions /\ RecallTypeOK /\ HeirsComeFirst /\ Folding = {}
  BY DEF RecallInv, Answered, Asked
<1>2. IsBy(asked.by) /\ t \in RecallTurns /\ t \in DOMAIN fused
  BY <1>1, QuestionsAreTyped DEF RecallTypeOK, Kept
<1>3. Scored
  BY <1>1, TypeScores
<1>4. heir \notin DOMAIN asked.by
  BY <1>2, EndlessIsACircle DEF InACircle
<1>5. heir \in DOMAIN fused /\ fused[heir] > fused[t]
  BY <1>1, <1>2, <1>4 DEF HeirsComeFirst
<1>6. heir \in FoldsUnder(t)
  <2>1. PICK n : n = Cardinality(DOMAIN asked.by)
    OBVIOUS
  <2>2. n \in Nat /\ IsFiniteSet(DOMAIN asked.by)
    BY <1>2, <2>1, FlagsAreFinite
  <2>3. n # 0
    BY <2>1, <2>2, FS_EmptySet
  <2>4. n \in 1..n
    BY <2>2, <2>3
  <2>5. heir \in Successors(asked.by, t)
    BY <2>1, <2>4 DEF Successors, Latest
  <2> QED
    BY <2>5 DEF FoldsUnder
<1>7. heir \in Kept
  <2> DEFINE B == {u \in DOMAIN fused : Better(u, t)}
             C == {u \in DOMAIN fused : Better(u, heir)}
  <2>1. Better(heir, t)
    BY <1>5 DEF Better
  <2>2. C \subseteq B
    BY <1>2, <1>3, <1>5, <2>1, BetterOrders
  <2>3. B \in SUBSET DOMAIN fused /\ DOMAIN fused \subseteq RecallTurns
    BY <1>1 DEF RecallTypeOK
  <2>4. Rank(t) = Cardinality(B) + 1 /\ Rank(heir) = Cardinality(C) + 1
    BY DEF Rank
  <2> HIDE DEF B, C
  <2>5. Cardinality(C) <= Cardinality(B) /\ Cardinality(B) \in Nat /\ Cardinality(C) \in Nat
    BY <2>2, <2>3, RankIsMonotone
  <2>6. asked.topK \in Nat
    BY <1>1, QuestionsAreTyped, RecallAssumption
  <2>7. Rank(t) <= asked.topK /\ \A best \in DOMAIN fused : 100 * fused[t] >= 35 * fused[best]
    BY DEF Kept
  <2>8. Rank(heir) <= asked.topK
    BY <2>4, <2>5, <2>6, <2>7
  <2>9. ASSUME NEW best \in DOMAIN fused PROVE 100 * fused[heir] >= 35 * fused[best]
    <3>1. fused[heir] \in Nat /\ fused[t] \in Nat /\ fused[best] \in Nat
      BY <1>2, <1>3, <1>5 DEF Scored
    <3>2. 100 * fused[t] >= 35 * fused[best]
      BY <2>7
    <3> QED
      BY <1>5, <3>1, <3>2
  <2> QED
    BY <1>5, <2>8, <2>9 DEF Kept
<1>8. t \in Folding
  <2>1. FoldsBestFirst(Folding, Kept, Kept)
    BY <1>3, FoldingIsBestFirst
  <2> HIDE DEF Kept, Folding
  <2> QED
    BY <1>1, <1>6, <1>7, <2>1 DEF FoldsBestFirst
<1> QED
  BY <1>1, <1>8

(* Candidates are turns with scores, those folded are not among them, and  *)
(* the passes are counted down (mod.rs:109-131).                           *)
THEOREM RecallTypes == RecallSpec => []RecallTypeOK
BY RecallInvHolds, InvTypes, PTL

(* Whatever turns supersede and notes stand for, and however scores tie:   *)
(* what collapse folds away has something that stands for it in the        *)
(* evidence, after every pass, unless supersessions run in a circle        *)
(* (mod.rs:493-535).                                                       *)
THEOREM FoldedIsShown == RecallSpec => []FoldsUnderWhatIsShown
BY RecallInvHolds, InvShown, PTL

(* With hand_over's half of a score for a superseded turn and at least the *)
(* whole for the latest of its chain, an answer reached before the passes  *)
(* ran out shows no turn beside the one that replaced it (mod.rs:418-491). *)
THEOREM AnswersAreNotStale == RecallSpec => []NoStaleAnswer
BY RecallInvHolds, InvNotStale, PTL

(***************************************************************************)
(* Of the run over all of them: a behaviour of it is one of each part, so  *)
(* that what is proved of the parts holds of what the run checks.          *)
(***************************************************************************)

(* Each part's variables move by its own actions or not at all.            *)
THEOREM PartsRunAlone ==
  PartsSpec => /\ Spec /\ SweepSpec /\ EntitiesSpec /\ MigrationSpec
               /\ AgentSpec /\ ClientSpec /\ PageSpec /\ RecallSpec
<1>1. PartsInit => /\ Init /\ SweepInit /\ EntitiesInit /\ MigrationInit
                   /\ AgentInit /\ ClientInit /\ PageInit /\ RecallInit
  BY DEF PartsInit
<1>2. [PartsNext]_allVars =>
        /\ [Next]_vars /\ [SweepNext]_sweepVars /\ [EntitiesNext]_entitiesVars
        /\ [MigrationNext]_migrationVars /\ [AgentNext]_agentVars /\ [ClientNext]_clientVars
        /\ [PageNext]_pageVars /\ [RecallNext]_recallVars
  BY DEF PartsNext, allVars
<1> QED
  BY <1>1, <1>2, PTL DEF PartsSpec, Spec, SweepSpec, EntitiesSpec, MigrationSpec,
     AgentSpec, ClientSpec, PageSpec, RecallSpec

(* The types of whatever part a behaviour is of.                           *)
THEOREM PartsTypeCorrect == PartsSpec => []PartsTypeOK
<1>1. PartsSpec => [](part \in Parts)
  <2>1. PartsInit => part \in Parts
    BY DEF PartsInit
  <2>2. part \in Parts /\ [PartsNext]_allVars => (part \in Parts)'
    BY DEF PartsNext, allVars
  <2> QED
    BY <2>1, <2>2, PTL DEF PartsSpec
<1>2. /\ part \in Parts /\ TypeOK /\ SweepTypeOK /\ EntitiesTypeOK /\ MigrationTypeOK
      /\ AgentTypeOK /\ ClientTypeOK /\ PageTypeOK /\ RecallTypeOK
      => PartsTypeOK
  BY DEF Parts, PartsTypeOK
<1> QED
  BY <1>1, <1>2, PartsRunAlone, CurationTypes, SweepTypes, EntitiesTypes, MigrationTypeCorrect,
     AgentTypeCorrect, ClientTypeCorrect, PageTypeCorrect, RecallTypes, PTL

================================================================================
