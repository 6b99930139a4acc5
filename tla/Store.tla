-------------------------------- MODULE Store --------------------------------
(***************************************************************************)
(* The SQLite file every engine process shares, as far as the dense view   *)
(* sees it: the turns, their vectors, the store's generation and the       *)
(* embedder it records.  crates/zeromem-core/src/store.rs.                 *)
(*                                                                         *)
(* Every operator below is one transaction of the store.  SQLite runs the  *)
(* writers one at a time (WAL, one IMMEDIATE transaction each), so a       *)
(* transaction is one atomic step; a crash inside one leaves no trace.     *)
(*                                                                         *)
(* A turn's text is a member of Texts, which stands for its uuid too (a    *)
(* uuid the caller did not give is a hash of the text's own fields).  A    *)
(* vector is a function of the model and of the text it was made from, so  *)
(* it is kept as that pair.  One sequence number stamps all the vectors of *)
(* one transaction: they appear to every reader together.                  *)
(***************************************************************************)
EXTENDS Integers, FiniteSets, Functions, FiniteSetsExt

CONSTANTS
  Texts,          \* the turns that may be said
  Sessions,       \* the sessions they belong to
  SessionOf,      \* the session of each text
  Models,         \* embedder names
  NoModel,        \* no embedder recorded, or no vectors to keep
  MaxGeneration   \* bound: how far the generation may be bumped

ASSUME SessionOfAssumption == SessionOf \in [Texts -> Sessions]
ASSUME NoModelAssumption == NoModel \notin Models
ASSUME MaxGenerationAssumption == MaxGeneration \in Nat

VARIABLES
  turns,          \* row id -> text
  vecs,           \* row id -> [seq, model, text]
  nextSeq,        \* next AUTOINCREMENT value of embeddings.seq
  generation,     \* meta.generation
  stored          \* meta.embedder

storeVars == <<turns, vecs, nextSeq, generation, stored>>

EmptyFn == [x \in {} |-> x]

Vector == [seq : Nat, model : Models, text : Texts]

StoreTypeOK ==
  /\ DOMAIN turns \subseteq Nat \ {0}
  /\ turns \in [DOMAIN turns -> Texts]
  /\ DOMAIN vecs \subseteq Nat \ {0}
  /\ vecs \in [DOMAIN vecs -> Vector]
  /\ nextSeq \in Nat
  /\ generation \in Nat
  /\ stored \in Models \cup {NoModel}

(* A fresh store has no embedder yet; one an earlier process used has one. *)
StoreInit ==
  /\ turns = EmptyFn
  /\ vecs = EmptyFn
  /\ nextSeq = 1
  /\ generation = 0

(***************************************************************************)
(* Rows.                                                                   *)
(***************************************************************************)

(* Bug: ids from zero. *)
NextRowIdFromZero == Max(DOMAIN turns \cup {-1}) + 1

(* turns.id is INTEGER PRIMARY KEY without AUTOINCREMENT: one more than the*)
(* largest id in the table, so the id of a deleted last turn comes back.   *)
NextRowId == Max(DOMAIN turns \cup {0}) + 1

(* The rows a writer holds become the vectors of those turns, replacing    *)
(* what was there (INSERT OR REPLACE), under the next sequence number.     *)
PutVectors(rows, model) ==
  /\ vecs' = [id \in DOMAIN vecs \cup DOMAIN rows |->
                IF id \in DOMAIN rows
                THEN [seq |-> nextSeq, model |-> model, text |-> rows[id]]
                ELSE vecs[id]]
  /\ nextSeq' = nextSeq + 1

BumpGeneration ==
  /\ generation < MaxGeneration
  /\ generation' = generation + 1

(***************************************************************************)
(* Transactions.                                                           *)
(***************************************************************************)

(* The first embedder of a store: written without looking, no vector       *)
(* dropped and no generation bumped.                                       *)
SeedEmbedder(model) ==
  /\ stored' = model
  /\ UNCHANGED <<turns, vecs, nextSeq, generation>>

SwitchEmbedder(model) ==
  /\ stored' = model
  /\ vecs' = EmptyFn
  /\ BumpGeneration
  /\ UNCHANGED <<turns, nextSeq>>

(* Bug: the vector is kept whatever model made it. *)
InsertTurnTrusting(text, model) ==
  IF text \in Range(turns)
  THEN UNCHANGED storeVars
  ELSE /\ turns' = [id \in DOMAIN turns \cup {NextRowId} |->
                      IF id = NextRowId THEN text ELSE turns[id]]
       /\ IF model # NoModel
          THEN PutVectors([id \in {NextRowId} |-> text], model)
          ELSE UNCHANGED <<vecs, nextSeq>>
       /\ UNCHANGED <<generation, stored>>

(* One turn.  A text the store holds is a duplicate and writes nothing; the*)
(* vector is kept only when `model` is still the store's embedder.         *)
InsertTurn(text, model) ==
  IF text \in Range(turns)
  THEN UNCHANGED storeVars
  ELSE /\ turns' = [id \in DOMAIN turns \cup {NextRowId} |->
                      IF id = NextRowId THEN text ELSE turns[id]]
       /\ IF model # NoModel /\ stored = model
          THEN PutVectors([id \in {NextRowId} |-> text], model)
          ELSE UNCHANGED <<vecs, nextSeq>>
       /\ UNCHANGED <<generation, stored>>

(* The turns of the session go, and their vectors with them (ON DELETE     *)
(* CASCADE); nothing happens to a store without such a turn.               *)
DeleteSession(session) ==
  LET gone == {id \in DOMAIN turns : SessionOf[turns[id]] = session} IN
  IF gone = {}
  THEN UNCHANGED storeVars
  ELSE /\ turns' = Restrict(turns, DOMAIN turns \ gone)
       /\ vecs' = Restrict(vecs, DOMAIN vecs \ gone)
       /\ BumpGeneration
       /\ UNCHANGED <<nextSeq, stored>>

(* Every derived table is made again; the turns and vectors stay. *)
RebuildDerived ==
  /\ BumpGeneration
  /\ UNCHANGED <<turns, vecs, nextSeq, stored>>

(* Bug: the readers are not told. *)
DropVectorsQuietly ==
  /\ vecs' = EmptyFn
  /\ UNCHANGED <<turns, nextSeq, generation, stored>>

DropVectors ==
  /\ vecs' = EmptyFn
  /\ BumpGeneration
  /\ UNCHANGED <<turns, nextSeq, stored>>

ForgetEverything ==
  /\ turns' = EmptyFn
  /\ vecs' = EmptyFn
  /\ BumpGeneration
  /\ UNCHANGED <<nextSeq, stored>>

(* Bug: the store is not compared with what the backlog was read from. *)
StoreMovedIgnored(readGen) == FALSE

(* Vectors made outside any transaction, for turns read at `readGen`.  The *)
(* write is refused when the embedder or the generation moved meanwhile.   *)
EmbedderMoved(model) == stored # model
StoreMoved(readGen) == generation # readGen

(* Bug: neither the embedder nor the generation is looked at. *)
WriteEmbeddingsUnchecked(rows, model, readGen) ==
  /\ PutVectors(rows, model)
  /\ UNCHANGED <<turns, generation, stored>>

WriteEmbeddings(rows, model, readGen) ==
  /\ ~EmbedderMoved(model)
  /\ ~StoreMoved(readGen)
  /\ PutVectors(rows, model)
  /\ UNCHANGED <<turns, generation, stored>>

(***************************************************************************)
(* Reads.                                                                  *)
(***************************************************************************)

(* Turns without a vector of `model`. *)
Backlog(model) ==
  {id \in DOMAIN turns : ~(id \in DOMAIN vecs /\ vecs[id].model = model)}

(* The `limit` oldest of them. *)
OldestOf(ids, limit) ==
  {id \in ids : Cardinality({m \in ids : m < id}) < limit}

(* The vectors of `model` written after sequence `after`. *)
VectorsAfter(after, model) ==
  {id \in DOMAIN vecs : vecs[id].seq > after /\ vecs[id].model = model}

=============================================================================
