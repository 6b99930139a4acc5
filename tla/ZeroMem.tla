------------------------------- MODULE ZeroMem -------------------------------
(***************************************************************************)
(* The engine processes over one Store: crates/zeromem-core/src/lib.rs.    *)
(*                                                                         *)
(* Each process (an HTTP server, a stdio session, a `zm` hook) keeps the   *)
(* embedder it follows and an in-memory index of the store's vectors, and  *)
(* runs one call at a time: the Node binding holds the engine's mutex for  *)
(* a whole call.  Between two statements of one process any other process  *)
(* may commit, and a process may die at any point.                         *)
(*                                                                         *)
(* pc[p] is the statement process p runs next:                             *)
(*   closed    not running                                                 *)
(*   seed      opening a store without an embedder; the pick is built      *)
(*   switch    opening with another embedder than the store's              *)
(*   probe     set_embedder: the stored spec is read, the new one probed   *)
(*   reembed   reembed: the stored spec is read and probed                 *)
(*   refresh   refresh: read the generation                                *)
(*   follow, refollow, ingested    follow_store_if_changed, from refresh or*)
(*             embed_backlog, after a refused write, after an ingest       *)
(*   batch     embed_one_batch: read the generation                        *)
(*   backlog   embed_one_batch: read the backlog, call the model           *)
(*   write     embed_one_batch: write the vectors                          *)
(*   load      load_new_vectors                                            *)
(*   idle      no call in progress                                         *)
(***************************************************************************)
EXTENDS Store

CONSTANTS
  Procs,          \* the engine processes
  Batch,          \* EMBED_BATCH, turns per model call
  DrainLimit,     \* the limit embed_backlog is called with
  Worker          \* the process of the HTTP server, which runs an EmbedWorker

ASSUME BatchAssumption == Batch \in Nat \ {0}
ASSUME DrainLimitAssumption == DrainLimit \in Nat \ {0}
ASSUME WorkerAssumption == Worker \in Procs

VARIABLES
  pc,
  dense,          \* dense_enabled
  spec,           \* embedder_spec: the name this process follows
  live,           \* embedder.is_some()
  index,          \* row id -> [model, text], the VectorIndex
  seenSeq,
  seenGen,        \* seen_generation, -1 before the first refresh
  job,            \* the locals of the call in progress
  rows            \* row id -> text: the batch its model call works on

procVars == <<pc, dense, spec, live, index, seenSeq, seenGen, job, rows>>
vars == <<turns, vecs, nextSeq, generation, stored,
          pc, dense, spec, live, index, seenSeq, seenGen, job, rows>>

Labels == {"closed", "seed", "switch", "probe", "reembed", "refresh", "follow",
           "refollow", "ingested", "batch", "backlog", "write", "load", "idle"}

IndexEntry == [model : Models, text : Texts]

(* target, same: set_embedder and open.  limit, drain: what is left of the *)
(* limit of embed_backlog, and whether this is one.  gen: the generation   *)
(* its batch was read at.                                                  *)
Job == [target : Models \cup {NoModel}, same : BOOLEAN, drain : BOOLEAN,
        limit : Int, gen : Nat]

TargetJob(model, same) ==
  [target |-> model, same |-> same, drain |-> FALSE, limit |-> 0, gen |-> 0]

EmbedJob(drain, limit) ==
  [target |-> NoModel, same |-> FALSE, drain |-> drain, limit |-> limit, gen |-> 0]

NoJob == TargetJob(NoModel, FALSE)

Init ==
  /\ StoreInit
  /\ stored \in Models \cup {NoModel}
  /\ pc = [p \in Procs |-> "closed"]
  /\ dense = [p \in Procs |-> FALSE]
  /\ spec = [p \in Procs |-> NoModel]
  /\ live = [p \in Procs |-> FALSE]
  /\ index = [p \in Procs |-> EmptyFn]
  /\ seenSeq = [p \in Procs |-> 0]
  /\ seenGen = [p \in Procs |-> -1]
  /\ job = [p \in Procs |-> NoJob]
  /\ rows = [p \in Procs |-> EmptyFn]

(* A store that has an embedder before any process opens it. *)
SeededInit == Init /\ stored # NoModel

(***************************************************************************)
(* Steps shared by the calls.                                              *)
(***************************************************************************)

Goto(p, label) == pc' = [pc EXCEPT ![p] = label]
At(p, label) == pc[p] = label

(* Bug: the vectors of the embedder before stay in the index. *)
InstallKeepingIndex(p, model, built) ==
  /\ spec' = [spec EXCEPT ![p] = model]
  /\ live' = [live EXCEPT ![p] = built]
  /\ seenSeq' = [seenSeq EXCEPT ![p] = 0]
  /\ UNCHANGED index

(* A new embedder means a new, empty index, read from the first vector. *)
Install(p, model, built) ==
  /\ spec' = [spec EXCEPT ![p] = model]
  /\ live' = [live EXCEPT ![p] = built]
  /\ index' = [index EXCEPT ![p] = EmptyFn]
  /\ seenSeq' = [seenSeq EXCEPT ![p] = 0]

(* The stored embedder is built, or the process runs without one. *)
FollowStore(p) ==
  IF dense[p] /\ stored # spec[p]
  THEN \E built \in BOOLEAN : Install(p, stored, built)
  ELSE UNCHANGED <<spec, live, index, seenSeq>>

(***************************************************************************)
(* Opening and closing.                                                    *)
(***************************************************************************)

OpenWithoutDense(p) ==
  /\ At(p, "closed")
  /\ Goto(p, "refresh")
  /\ UNCHANGED <<dense, spec, live, index, seenSeq, seenGen, job, rows>>
  /\ UNCHANGED storeVars

(* choose_embedder read no stored embedder and picks one.  Probing the pick*)
(* may take long; the store is written in a later step.                    *)
OpenFresh(p, model) ==
  /\ At(p, "closed")
  /\ stored = NoModel
  /\ dense' = [dense EXCEPT ![p] = TRUE]
  /\ job' = [job EXCEPT ![p] = TargetJob(model, FALSE)]
  /\ Goto(p, "seed")
  /\ UNCHANGED <<spec, live, index, seenSeq, seenGen, rows>>
  /\ UNCHANGED storeVars

Seed(p) ==
  /\ At(p, "seed")
  /\ SeedEmbedder(job[p].target)
  /\ Install(p, job[p].target, TRUE)
  /\ job' = [job EXCEPT ![p] = NoJob]
  /\ Goto(p, "refresh")
  /\ UNCHANGED <<dense, seenGen, rows>>

(* The stored embedder is followed, or asked for by name and then built: a *)
(* build that fails runs without one in the first case only.               *)
OpenFollowing(p, built) ==
  /\ At(p, "closed")
  /\ stored # NoModel
  /\ dense' = [dense EXCEPT ![p] = TRUE]
  /\ Install(p, stored, built)
  /\ Goto(p, "refresh")
  /\ UNCHANGED <<seenGen, job, rows>>
  /\ UNCHANGED storeVars

(* allow_embedder_switch; without it the open is refused. *)
OpenSwitching(p, model) ==
  /\ At(p, "closed")
  /\ stored \notin {NoModel, model}
  /\ dense' = [dense EXCEPT ![p] = TRUE]
  /\ job' = [job EXCEPT ![p] = TargetJob(model, FALSE)]
  /\ Goto(p, "switch")
  /\ UNCHANGED <<spec, live, index, seenSeq, seenGen, rows>>
  /\ UNCHANGED storeVars

OpenSwitch(p) ==
  /\ At(p, "switch")
  /\ SwitchEmbedder(job[p].target)
  /\ Install(p, job[p].target, TRUE)
  /\ job' = [job EXCEPT ![p] = NoJob]
  /\ Goto(p, "refresh")
  /\ UNCHANGED <<dense, seenGen, rows>>

(* The process exits or is killed; the store keeps what was committed. *)
Close(p) ==
  /\ ~At(p, "closed")
  /\ Goto(p, "closed")
  /\ dense' = [dense EXCEPT ![p] = FALSE]
  /\ spec' = [spec EXCEPT ![p] = NoModel]
  /\ live' = [live EXCEPT ![p] = FALSE]
  /\ index' = [index EXCEPT ![p] = EmptyFn]
  /\ seenSeq' = [seenSeq EXCEPT ![p] = 0]
  /\ seenGen' = [seenGen EXCEPT ![p] = -1]
  /\ job' = [job EXCEPT ![p] = NoJob]
  /\ rows' = [rows EXCEPT ![p] = EmptyFn]
  /\ UNCHANGED storeVars

(***************************************************************************)
(* Calls.  Each begins in an idle process; what it runs after its own      *)
(* transaction is refresh, the first line of every read.                   *)
(***************************************************************************)

(* query, stats, the candidates and the views: refresh, then reads. *)
Read(p) ==
  /\ At(p, "idle")
  /\ Goto(p, "refresh")
  /\ UNCHANGED <<dense, spec, live, index, seenSeq, seenGen, job, rows>>
  /\ UNCHANGED storeVars

(* The text is embedded first when there is an embedder and it answers     *)
(* (`embedded`), and the turn is stored either way.                        *)
Ingest(p, text, embedded) ==
  /\ At(p, "idle")
  /\ embedded => live[p]
  /\ InsertTurn(text, IF embedded THEN spec[p] ELSE NoModel)
  /\ Goto(p, IF embedded /\ EmbedderMoved(spec[p]) THEN "ingested" ELSE "refresh")
  /\ UNCHANGED <<dense, spec, live, index, seenSeq, seenGen, job, rows>>

(* delete_session, rebuild, clear_embeddings, clear_memory. *)
Discard(p) ==
  /\ At(p, "idle")
  /\ \/ \E s \in Sessions : DeleteSession(s)
     \/ RebuildDerived
     \/ DropVectors
     \/ ForgetEverything
  /\ Goto(p, "refresh")
  /\ UNCHANGED <<dense, spec, live, index, seenSeq, seenGen, job, rows>>

BeginSetEmbedder(p, model) ==
  /\ At(p, "idle")
  /\ job' = [job EXCEPT ![p] = TargetJob(model, stored = model)]
  /\ Goto(p, "probe")
  /\ UNCHANGED <<dense, spec, live, index, seenSeq, seenGen, rows>>
  /\ UNCHANGED storeVars

(* The probed embedder is another one than the store held before the probe.*)
ApplySwitch(p) ==
  /\ At(p, "probe")
  /\ ~job[p].same
  /\ SwitchEmbedder(job[p].target)
  /\ Install(p, job[p].target, TRUE)
  /\ dense' = [dense EXCEPT ![p] = TRUE]
  /\ job' = [job EXCEPT ![p] = NoJob]
  /\ Goto(p, "refresh")
  /\ UNCHANGED <<seenGen, rows>>

(* The same model again (a new key): the spec is written and the vectors   *)
(* stay, unless the name changed meanwhile: then the call fails.           *)
ApplySameModel(p) ==
  /\ At(p, "probe")
  /\ job[p].same
  /\ IF EmbedderMoved(job[p].target)
     THEN /\ Goto(p, "idle")
          /\ UNCHANGED <<dense, spec, live, index, seenSeq>>
     ELSE /\ Install(p, job[p].target, TRUE)
          /\ dense' = [dense EXCEPT ![p] = TRUE]
          /\ Goto(p, "refresh")
  /\ job' = [job EXCEPT ![p] = NoJob]
  /\ UNCHANGED <<seenGen, rows>>
  /\ UNCHANGED storeVars

BeginReembed(p) ==
  /\ At(p, "idle")
  /\ stored # NoModel
  /\ job' = [job EXCEPT ![p] = TargetJob(stored, FALSE)]
  /\ Goto(p, "reembed")
  /\ UNCHANGED <<dense, spec, live, index, seenSeq, seenGen, rows>>
  /\ UNCHANGED storeVars

ApplyReembed(p) ==
  /\ At(p, "reembed")
  /\ DropVectors
  /\ Install(p, job[p].target, TRUE)
  /\ dense' = [dense EXCEPT ![p] = TRUE]
  /\ job' = [job EXCEPT ![p] = NoJob]
  /\ Goto(p, "refresh")
  /\ UNCHANGED <<seenGen, rows>>

(* The embedder cannot be built or does not answer its probe.  An open that*)
(* fails leaves no process.                                                *)
ProbeFails(p) ==
  /\ \/ pc[p] \in {"probe", "reembed"} /\ Goto(p, "idle") /\ UNCHANGED dense
     \/ /\ pc[p] \in {"seed", "switch"}
        /\ Goto(p, "closed")
        /\ dense' = [dense EXCEPT ![p] = FALSE]
  /\ job' = [job EXCEPT ![p] = NoJob]
  /\ UNCHANGED <<spec, live, index, seenSeq, seenGen, rows>>
  /\ UNCHANGED storeVars

(* embed_backlog: follow, embed up to the limit, load. *)
BeginDrain(p) ==
  /\ At(p, "idle")
  /\ job' = [job EXCEPT ![p] = EmbedJob(TRUE, DrainLimit)]
  /\ Goto(p, "follow")
  /\ UNCHANGED <<dense, spec, live, index, seenSeq, seenGen, rows>>
  /\ UNCHANGED storeVars

(***************************************************************************)
(* refresh, embed_one_batch and load_new_vectors, statement by statement.  *)
(***************************************************************************)

(* Bug: the embedder is not looked at when the generation moved. *)
ReadGenerationOnly(p) ==
  /\ At(p, "refresh")
  /\ IF generation # seenGen[p]
     THEN /\ index' = [index EXCEPT ![p] = EmptyFn]
          /\ seenSeq' = [seenSeq EXCEPT ![p] = 0]
          /\ seenGen' = [seenGen EXCEPT ![p] = generation]
     ELSE UNCHANGED <<index, seenSeq, seenGen>>
  /\ Goto(p, "batch")
  /\ job' = [job EXCEPT ![p] = EmbedJob(FALSE, Batch)]
  /\ UNCHANGED <<dense, spec, live, rows>>
  /\ UNCHANGED storeVars

(* Bug: the index is dropped, and its place in the sequence kept. *)
ReadGenerationKeepingSeq(p) ==
  /\ At(p, "refresh")
  /\ IF generation # seenGen[p]
     THEN /\ index' = [index EXCEPT ![p] = EmptyFn]
          /\ seenGen' = [seenGen EXCEPT ![p] = generation]
          /\ Goto(p, "follow")
     ELSE /\ Goto(p, "batch")
          /\ UNCHANGED <<index, seenGen>>
  /\ job' = [job EXCEPT ![p] = EmbedJob(FALSE, Batch)]
  /\ UNCHANGED <<dense, spec, live, seenSeq, rows>>
  /\ UNCHANGED storeVars

(* A generation that moved drops the index, and the embedder is looked at. *)
ReadGeneration(p) ==
  /\ At(p, "refresh")
  /\ IF generation # seenGen[p]
     THEN /\ index' = [index EXCEPT ![p] = EmptyFn]
          /\ seenSeq' = [seenSeq EXCEPT ![p] = 0]
          /\ seenGen' = [seenGen EXCEPT ![p] = generation]
          /\ Goto(p, "follow")
     ELSE /\ Goto(p, "batch")
          /\ UNCHANGED <<index, seenSeq, seenGen>>
  /\ job' = [job EXCEPT ![p] = EmbedJob(FALSE, Batch)]
  /\ UNCHANGED <<dense, spec, live, rows>>
  /\ UNCHANGED storeVars

AfterFollow == [follow |-> "batch", refollow |-> "load", ingested |-> "refresh"]

Follow(p) ==
  /\ pc[p] \in DOMAIN AfterFollow
  /\ FollowStore(p)
  /\ Goto(p, AfterFollow[pc[p]])
  /\ UNCHANGED <<dense, seenGen, job, rows>>
  /\ UNCHANGED storeVars

(* Bug: the batch goes by the generation of the last refresh. *)
BeginBatchAsSeen(p) ==
  /\ At(p, "batch")
  /\ IF live[p]
     THEN /\ job' = [job EXCEPT ![p].gen = IF seenGen[p] < 0 THEN 0 ELSE seenGen[p]]
          /\ Goto(p, "backlog")
     ELSE UNCHANGED job /\ Goto(p, "load")
  /\ UNCHANGED <<dense, spec, live, index, seenSeq, seenGen, rows>>
  /\ UNCHANGED storeVars

(* The generation is read before the backlog. *)
BeginBatch(p) ==
  /\ At(p, "batch")
  /\ IF live[p]
     THEN job' = [job EXCEPT ![p].gen = generation] /\ Goto(p, "backlog")
     ELSE UNCHANGED job /\ Goto(p, "load")
  /\ UNCHANGED <<dense, spec, live, index, seenSeq, seenGen, rows>>
  /\ UNCHANGED storeVars

NextBatch(p) ==
  OldestOf(Backlog(spec[p]), IF job[p].limit < Batch THEN job[p].limit ELSE Batch)

(* The model call works on the texts read here; nothing else is read until *)
(* the write.                                                              *)
EmbedBatch(p) ==
  /\ At(p, "backlog")
  /\ IF NextBatch(p) = {}
     THEN Goto(p, "load") /\ UNCHANGED rows
     ELSE /\ rows' = [rows EXCEPT ![p] = Restrict(turns, NextBatch(p))]
          /\ Goto(p, "write")
  /\ UNCHANGED <<dense, spec, live, index, seenSeq, seenGen, job>>
  /\ UNCHANGED storeVars

(* A model call that fails ends a drain with an error; refresh goes on. *)
EmbedFails(p) ==
  /\ At(p, "backlog")
  /\ NextBatch(p) # {}
  /\ Goto(p, IF job[p].drain THEN "idle" ELSE "load")
  /\ job' = [job EXCEPT ![p] = IF job[p].drain THEN NoJob ELSE job[p]]
  /\ UNCHANGED <<dense, spec, live, index, seenSeq, seenGen, rows>>
  /\ UNCHANGED storeVars

BatchWritten(p) ==
  /\ At(p, "write")
  /\ WriteEmbeddings(rows[p], spec[p], job[p].gen)
  /\ rows' = [rows EXCEPT ![p] = EmptyFn]
  /\ LET left == job[p].limit - Cardinality(DOMAIN rows[p]) IN
     /\ job' = [job EXCEPT ![p].limit = left]
     /\ Goto(p, IF job[p].drain /\ left > 0 THEN "batch" ELSE "load")
  /\ UNCHANGED <<dense, spec, live, index, seenSeq, seenGen>>

BatchRefused(p) ==
  /\ At(p, "write")
  /\ \/ EmbedderMoved(spec[p]) /\ Goto(p, "refollow")
     \/ ~EmbedderMoved(spec[p]) /\ StoreMoved(job[p].gen) /\ Goto(p, "load")
  /\ rows' = [rows EXCEPT ![p] = EmptyFn]
  /\ UNCHANGED <<dense, spec, live, index, seenSeq, seenGen, job>>
  /\ UNCHANGED storeVars

(* Vectors newer than the last one seen; a vector pushed for a row the     *)
(* index has replaces it.  Without an embedder spec nothing is read.       *)
LoadVectors(p) ==
  /\ At(p, "load")
  /\ LET new == IF spec[p] = NoModel THEN {} ELSE VectorsAfter(seenSeq[p], spec[p]) IN
     /\ index' = [index EXCEPT ![p] =
          [id \in DOMAIN index[p] \cup new |->
             IF id \in new THEN [model |-> vecs[id].model, text |-> vecs[id].text]
                           ELSE index[p][id]]]
     /\ seenSeq' = [seenSeq EXCEPT ![p] = Max({seenSeq[p]} \cup {vecs[id].seq : id \in new})]
  /\ job' = [job EXCEPT ![p] = NoJob]
  /\ Goto(p, "idle")
  /\ UNCHANGED <<dense, spec, live, seenGen, rows>>
  /\ UNCHANGED storeVars

(***************************************************************************)
(* The specification.                                                      *)
(***************************************************************************)

OpenStored(p) ==
  \/ OpenWithoutDense(p)
  \/ \E m \in Models : OpenSwitching(p, m)
  \/ \E built \in BOOLEAN : OpenFollowing(p, built)

Open(p) == OpenStored(p) \/ \E m \in Models : OpenFresh(p, m)

Call(p) ==
  \/ Read(p)
  \/ \E t \in Texts, embedded \in BOOLEAN : Ingest(p, t, embedded)
  \/ Discard(p)
  \/ \E m \in Models : BeginSetEmbedder(p, m)
  \/ BeginReembed(p)
  \/ BeginDrain(p)

ApplyProbed(p) ==
  \/ OpenSwitch(p)
  \/ ApplySwitch(p)
  \/ ApplySameModel(p)
  \/ ApplyReembed(p)
  \/ ProbeFails(p)

Apply(p) == Seed(p) \/ ApplyProbed(p)

(* What a call does once begun, but for the model call's outcome. *)
Continue(p) ==
  \/ ReadGeneration(p)
  \/ Follow(p)
  \/ BeginBatch(p)
  \/ EmbedBatch(p)
  \/ BatchWritten(p)
  \/ BatchRefused(p)
  \/ LoadVectors(p)

Step(p) == Open(p) \/ Call(p) \/ Apply(p) \/ Continue(p) \/ EmbedFails(p) \/ Close(p)

Next == \E p \in Procs : Step(p)

Spec == Init /\ [][Next]_vars

SeededSpec == SeededInit /\ [][Next]_vars

(* Next as far as a store is concerned that has an embedder: none of these *)
(* steps takes it away, so nobody opens it as a new one and seeds it.      *)
SeededNext ==
  \E p \in Procs : \/ OpenStored(p) \/ Call(p) \/ ApplyProbed(p)
                    \/ Continue(p) \/ EmbedFails(p) \/ Close(p)

(* A call once begun runs on; a model asked again and again answers at     *)
(* last; and the EmbedWorker of the HTTP server, which comes back every    *)
(* idleMs or retryMs, gets the engine's mutex again and again.             *)
Fairness ==
  /\ \A p \in Procs : WF_vars(Continue(p)) /\ WF_vars(ApplyProbed(p)) /\ SF_vars(EmbedBatch(p))
  /\ SF_vars(BeginDrain(Worker))

FairSpec == SeededInit /\ [][SeededNext]_vars /\ Fairness

(***************************************************************************)
(* Properties.                                                             *)
(***************************************************************************)

ProcTypeOK ==
  /\ pc \in [Procs -> Labels]
  /\ dense \in [Procs -> BOOLEAN]
  /\ spec \in [Procs -> Models \cup {NoModel}]
  /\ live \in [Procs -> BOOLEAN]
  /\ DOMAIN index = Procs
  /\ \A p \in Procs : /\ DOMAIN index[p] \subseteq Nat
                      /\ index[p] \in [DOMAIN index[p] -> IndexEntry]
  /\ seenSeq \in [Procs -> Nat]
  /\ seenGen \in [Procs -> Nat \cup {-1}]
  /\ job \in [Procs -> Job]
  /\ DOMAIN rows = Procs
  /\ \A p \in Procs : /\ DOMAIN rows[p] \subseteq Nat \ {0}
                      /\ IsFiniteSet(DOMAIN rows[p])
                      /\ rows[p] \in [DOMAIN rows[p] -> Texts]

(* The types of the store's tables and of each process's fields. *)
TypeOK == StoreTypeOK /\ ProcTypeOK

(* Every stored vector is of a live turn and was made from that turn's     *)
(* text, although row ids are reused and vectors are made outside any      *)
(* transaction (store.rs write_embeddings, "after a clear, a turn id can   *)
(* name a different turn").                                                *)
VectorsOfTheirTurn ==
  \A id \in DOMAIN vecs : id \in DOMAIN turns /\ vecs[id].text = turns[id]

(* Under SeededSpec, where the first embedder was recorded before any      *)
(* process races to record one, no vector of another model than the recorded one is      *)
(* stored (store.rs switch_embedder: "no reader can see the new name with  *)
(* the old vectors or the other way round").                               *)
VectorsOfTheEmbedder ==
  \A id \in DOMAIN vecs : vecs[id].model = stored

(* What a process holds in its index after it saw the current generation is*)
(* what the store holds: a vector the store still has, unless a newer one  *)
(* of that row is yet to be loaded; and no vector it has moved past is     *)
(* missing, however late it was backfilled (store.rs embeddings_after).    *)
IndexCurrent ==
  \A p \in Procs : seenGen[p] = generation =>
    /\ \A id \in DOMAIN index[p] :
         /\ id \in DOMAIN vecs
         /\ \/ vecs[id].seq > seenSeq[p]
            \/ index[p][id] = [model |-> vecs[id].model, text |-> vecs[id].text]
    /\ \A id \in DOMAIN vecs :
         vecs[id].model = spec[p] /\ vecs[id].seq <= seenSeq[p] => id \in DOMAIN index[p]

(* Every vector in an index is of the model the process follows: a query   *)
(* embedded by it is compared with vectors of its own space only.          *)
IndexOfOneModel ==
  \A p \in Procs : \A id \in DOMAIN index[p] : index[p][id].model = spec[p]

(* A process between calls that saw the current generation follows the     *)
(* embedder the store records (lib.rs refresh: "when the generation moved  *)
(* [...] the store's embedder [is] followed").  It is promised of stores    *)
(* that record an embedder before any process opens them; of a fresh one   *)
(* two processes may record different picks (SeedMeetsNoVectors).          *)
FollowsTheStore ==
  \A p \in Procs :
    At(p, "idle") /\ dense[p] /\ seenGen[p] = generation => spec[p] = stored

(* While the server runs with an embedder, every turn gets its vector: no  *)
(* interleaving of switches, clears and refused writes starves the backlog *)
(* (lib.rs embed_backlog, "so a worker can loop until zero").              *)
BacklogDrains ==
  <>[](pc[Worker] # "closed" /\ live[Worker]) => <>[](Backlog(stored) = {})

(* The index of a process that keeps reading catches up with the store: in *)
(* the end it holds every vector of the store and nothing else (lib.rs     *)
(* refresh, "pick up whatever other writers have added").                  *)
ReadersCatchUp ==
  \A p \in Procs :
    <>[](pc[p] # "closed" /\ dense[p]) /\ []<>At(p, "refresh") =>
      <>[](At(p, "idle") =>
             index[p] = [id \in DOMAIN vecs |-> [model |-> vecs[id].model, text |-> vecs[id].text]])

(* A first embedder never meets vectors: "No vectors exist to drop", says  *)
(* store.rs of seed_embedder.                                              *)
SeedMeetsNoVectors ==
  [][\A p \in Procs : Seed(p) => DOMAIN vecs = {}]_vars

=============================================================================
