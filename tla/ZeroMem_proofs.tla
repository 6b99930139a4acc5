---------------------------- MODULE ZeroMem_proofs ----------------------------
(***************************************************************************)
(* Theorems about ZeroMem for any number of processes, texts and models.   *)
(*                                                                         *)
(* The argument of VectorsOfTheirTurn: a row id whose turn is gone can name*)
(* another turn, but only a transaction that bumps the generation takes a  *)
(* turn away (TurnsStay).  So while the generation a batch was read at is  *)
(* still the store's, the batch's ids name the turns they named            *)
(* (BatchOfItsTurns), and otherwise the write is refused.                  *)
(***************************************************************************)
EXTENDS ZeroMem, NaturalsInduction, WellFoundedInduction, FiniteSetTheorems, TLAPS

(***************************************************************************)
(* Lemmas about the store's rows and transactions, for every set of texts, *)
(* sessions and models.  Nothing here depends on how many turns there are. *)
(***************************************************************************)

(* The row ids in use have a bound.  TLC sees it in every state; here it   *)
(* gives NextRowId its value.                                              *)
RowsBounded == \E n \in Nat : DOMAIN turns \subseteq 1 .. n

(* A non-empty set of natural numbers below a bound has a largest element: *)
(* it is what Max returns.                                                 *)
LEMMA MaxOfBounded ==
  ASSUME NEW S \in SUBSET Nat, S # {}, NEW n \in Nat, \A x \in S : x <= n
  PROVE  Max(S) \in S /\ \A x \in S : x <= Max(S)
<1> DEFINE Bounds == {b \in Nat : \A x \in S : x <= b}
<1>1. PICK b \in Bounds : \A c \in Bounds : ~ (<<c, b>> \in OpToRel(<, Nat))
  <2>1. Bounds \subseteq Nat /\ Bounds # {}
    OBVIOUS
  <2> HIDE DEF Bounds
  <2> QED
    BY <2>1, WFMin, NatLessThanWellFounded
<1>2. \A c \in Bounds : b <= c
  <2> SUFFICES ASSUME NEW c \in Bounds PROVE b <= c
    OBVIOUS
  <2>1. ~ (<<c, b>> \in OpToRel(<, Nat))
    BY <1>1
  <2>2. ~ (c < b)
    BY <2>1 DEF OpToRel
  <2> QED
    BY <2>2
<1>3. b \in S
  <2> SUFFICES ASSUME b \notin S PROVE FALSE
    OBVIOUS
  <2>1. \A x \in S : x < b
    OBVIOUS
  <2>2. PICK x \in S : TRUE
    OBVIOUS
  <2>3. b \in Nat /\ x \in Nat /\ x < b
    BY <1>1, <2>1, <2>2
  <2>4. b - 1 \in Nat
    BY <2>3
  <2>5. \A y \in S : y <= b - 1
    BY <2>1, <2>3
  <2>6. b - 1 \in Bounds
    BY <2>4, <2>5
  <2> QED
    BY <1>2, <2>3, <2>6
<1>4. \E m \in S : \A x \in S : m >= x
  BY <1>3
<1> QED
  BY <1>4 DEF Max

(* The next row id is above every id in use, so it names no turn yet. *)
LEMMA NextRowIdIsNew ==
  ASSUME RowsBounded
  PROVE  /\ NextRowId \in Nat \ {0}
         /\ \A id \in DOMAIN turns : id < NextRowId
         /\ NextRowId \notin DOMAIN turns
<1>1. PICK n \in Nat : DOMAIN turns \subseteq 1 .. n
  BY DEF RowsBounded
<1> DEFINE S == DOMAIN turns \cup {0}
<1>2. S \in SUBSET Nat /\ S # {} /\ \A x \in S : x <= n
  BY <1>1
<1>3. Max(S) \in S /\ \A x \in S : x <= Max(S)
  <2> HIDE DEF S
  <2> QED BY <1>2, MaxOfBounded
<1>4. Max(S) \in Nat /\ \A id \in DOMAIN turns : id <= Max(S)
  BY <1>2, <1>3
<1> QED
  BY <1>1, <1>4 DEF NextRowId

(***************************************************************************)
(* What every transaction preserves: the types of the tables, a bound on   *)
(* the row ids and the order of the sequence numbers.                      *)
(***************************************************************************)

(* nextSeq is above the sequence number of every vector. *)
SeqsBelowNext == \A id \in DOMAIN vecs : vecs[id].seq < nextSeq

StoreInv == StoreTypeOK /\ RowsBounded /\ SeqsBelowNext

(* Storing vectors under the next sequence number leaves the vectors typed *)
(* and all their numbers below the one after.                              *)
LEMMA PutVectorsKeepsVectors ==
  ASSUME StoreTypeOK, SeqsBelowNext,
         NEW model \in Models, NEW held, DOMAIN held \subseteq Nat \ {0},
         held \in [DOMAIN held -> Texts], PutVectors(held, model)
  PROVE  /\ DOMAIN vecs' \subseteq Nat \ {0}
         /\ vecs' \in [DOMAIN vecs' -> Vector]
         /\ nextSeq' \in Nat
         /\ SeqsBelowNext'
<1>1. DOMAIN vecs' = DOMAIN vecs \cup DOMAIN held
  BY DEF PutVectors
<1>2. \A id \in DOMAIN vecs' : vecs'[id] \in Vector /\ vecs'[id].seq < nextSeq + 1
  BY <1>1 DEF PutVectors, StoreTypeOK, SeqsBelowNext, Vector
<1>3. vecs' \in [DOMAIN vecs' -> Vector]
  <2>1. vecs' = [id \in DOMAIN vecs' |-> vecs'[id]]
    BY DEF PutVectors
  <2> QED
    BY <1>2, <2>1
<1>4. nextSeq' = nextSeq + 1 /\ nextSeq' \in Nat
  BY DEF PutVectors, StoreTypeOK
<1>5. SeqsBelowNext'
  BY <1>2, <1>4 DEF SeqsBelowNext
<1>6. DOMAIN vecs' \subseteq Nat \ {0}
  BY <1>1 DEF StoreTypeOK
<1> QED
  BY <1>3, <1>4, <1>5, <1>6

(* A smaller table keeps its type, its bounds and its order. *)
LEMMA RestrictKeepsRows ==
  ASSUME NEW S, NEW T, NEW f \in [S -> T], NEW D \in SUBSET S
  PROVE  /\ DOMAIN Restrict(f, D) = D
         /\ Restrict(f, D) \in [D -> T]
         /\ \A x \in D : Restrict(f, D)[x] = f[x]
BY DEF Restrict

(* The empty table has no rows.                                            *)
LEMMA EmptyFnHasNoRows == DOMAIN EmptyFn = {}
BY DEF EmptyFn

(* The store as migrate leaves it satisfies the invariant.                 *)
LEMMA InitialStore ==
  ASSUME StoreInit, stored \in Models \cup {NoModel}
  PROVE  StoreInv
<1>1. RowsBounded
  BY EmptyFnHasNoRows DEF RowsBounded, StoreInit
<1> QED
  BY <1>1 DEF StoreInit, StoreInv, StoreTypeOK, SeqsBelowNext, EmptyFn

(* Recording a first embedder keeps the invariant of the store.            *)
LEMMA SeedEmbedderKeepsStore ==
  ASSUME StoreInv, NEW model \in Models, SeedEmbedder(model)
  PROVE  StoreInv'
BY DEF StoreInv, StoreTypeOK, RowsBounded, SeqsBelowNext, SeedEmbedder, Vector

(* Switching the embedder keeps the invariant of the store.                *)
LEMMA SwitchEmbedderKeepsStore ==
  ASSUME StoreInv, NEW model \in Models, SwitchEmbedder(model)
  PROVE  StoreInv'
BY DEF StoreInv, StoreTypeOK, RowsBounded, SeqsBelowNext, SwitchEmbedder,
       BumpGeneration, EmptyFn, Vector

(* Rebuilding the derived tables keeps the invariant of the store.         *)
LEMMA RebuildDerivedKeepsStore ==
  ASSUME StoreInv, RebuildDerived
  PROVE  StoreInv'
BY DEF StoreInv, StoreTypeOK, RowsBounded, SeqsBelowNext, RebuildDerived,
       BumpGeneration, Vector

(* Dropping the vectors keeps the invariant of the store.                  *)
LEMMA DropVectorsKeepsStore ==
  ASSUME StoreInv, DropVectors
  PROVE  StoreInv'
BY DEF StoreInv, StoreTypeOK, RowsBounded, SeqsBelowNext, DropVectors,
       BumpGeneration, EmptyFn, Vector

(* Clearing the memory keeps the invariant of the store.                   *)
LEMMA ForgetEverythingKeepsStore ==
  ASSUME StoreInv, ForgetEverything
  PROVE  StoreInv'
<1>1. RowsBounded'
  BY EmptyFnHasNoRows DEF RowsBounded, ForgetEverything
<1> QED
  BY <1>1 DEF StoreInv, StoreTypeOK, SeqsBelowNext, ForgetEverything,
              BumpGeneration, EmptyFn, Vector

(* The insert of a text that is new: one more row, under the next id. *)
LEMMA InsertedRow ==
  ASSUME StoreInv, NEW text \in Texts, NEW model, text \notin Range(turns),
         InsertTurn(text, model)
  PROVE  /\ NextRowId \in Nat \ {0}
         /\ NextRowId \notin DOMAIN turns
         /\ turns' = [id \in DOMAIN turns \cup {NextRowId} |->
                        IF id = NextRowId THEN text ELSE turns[id]]
         /\ RowsBounded'
         /\ StoreTypeOK => turns' \in [DOMAIN turns' -> Texts]
<1>1. /\ NextRowId \in Nat \ {0}
      /\ \A id \in DOMAIN turns : id < NextRowId
      /\ NextRowId \notin DOMAIN turns
  BY NextRowIdIsNew DEF StoreInv
<1>2. turns' = [id \in DOMAIN turns \cup {NextRowId} |->
                  IF id = NextRowId THEN text ELSE turns[id]]
  BY DEF InsertTurn
<1>3. DOMAIN turns' \subseteq 1 .. NextRowId
  BY <1>1, <1>2 DEF StoreInv, StoreTypeOK
<1>4. RowsBounded'
  BY <1>1, <1>3 DEF RowsBounded
<1> QED
  BY <1>1, <1>2, <1>4 DEF StoreInv, StoreTypeOK

(* Inserting a turn keeps the invariant of the store.                      *)
LEMMA InsertTurnKeepsStore ==
  ASSUME StoreInv, NEW text \in Texts, NEW model \in Models \cup {NoModel},
         InsertTurn(text, model)
  PROVE  StoreInv'
<1>1. CASE text \in Range(turns)
  BY <1>1 DEF InsertTurn, storeVars, StoreInv, StoreTypeOK, RowsBounded,
              SeqsBelowNext, Vector
<1>2. CASE text \notin Range(turns)
  <2>1. /\ NextRowId \in Nat \ {0}
        /\ turns' = [id \in DOMAIN turns \cup {NextRowId} |->
                       IF id = NextRowId THEN text ELSE turns[id]]
        /\ RowsBounded'
        /\ turns' \in [DOMAIN turns' -> Texts]
    BY <1>2, InsertedRow DEF StoreInv
  <2>2. /\ DOMAIN vecs' \subseteq Nat \ {0}
        /\ vecs' \in [DOMAIN vecs' -> Vector]
        /\ nextSeq' \in Nat
        /\ SeqsBelowNext'
    <3>1. CASE model # NoModel /\ stored = model
      <4> DEFINE held == [id \in {NextRowId} |-> text]
      <4>1. DOMAIN held \subseteq Nat \ {0} /\ held \in [DOMAIN held -> Texts]
        BY <2>1
      <4>2. PutVectors(held, model) /\ model \in Models
        BY <1>2, <3>1 DEF InsertTurn
      <4> HIDE DEF held
      <4> QED
        BY <4>1, <4>2, PutVectorsKeepsVectors DEF StoreInv
    <3>2. CASE ~(model # NoModel /\ stored = model)
      BY <1>2, <3>2 DEF InsertTurn, StoreInv, StoreTypeOK, SeqsBelowNext, Vector
    <3> QED
      BY <3>1, <3>2
  <2>3. generation' = generation /\ stored' = stored
    BY <1>2 DEF InsertTurn
  <2> QED
    BY <2>1, <2>2, <2>3 DEF StoreInv, StoreTypeOK
<1> QED
  BY <1>1, <1>2

(* Deleting a session keeps the invariant of the store.                    *)
LEMMA DeleteSessionKeepsStore ==
  ASSUME StoreInv, NEW session, DeleteSession(session)
  PROVE  StoreInv'
<1> DEFINE gone == {id \in DOMAIN turns : SessionOf[turns[id]] = session}
<1>1. CASE gone = {}
  BY <1>1 DEF DeleteSession, storeVars, StoreInv, StoreTypeOK, RowsBounded,
              SeqsBelowNext, Vector
<1>2. CASE gone # {}
  <2>1. /\ turns' = Restrict(turns, DOMAIN turns \ gone)
        /\ vecs' = Restrict(vecs, DOMAIN vecs \ gone)
        /\ generation' = generation + 1
        /\ UNCHANGED <<nextSeq, stored>>
    BY <1>2 DEF DeleteSession, BumpGeneration
  <2> HIDE DEF gone
  <2>2. /\ DOMAIN turns' = DOMAIN turns \ gone
        /\ turns' \in [DOMAIN turns' -> Texts]
    BY <2>1, RestrictKeepsRows DEF StoreInv, StoreTypeOK
  <2>3. /\ DOMAIN vecs' = DOMAIN vecs \ gone
        /\ vecs' \in [DOMAIN vecs' -> Vector]
        /\ \A id \in DOMAIN vecs' : vecs'[id] = vecs[id]
    <3>1. vecs \in [DOMAIN vecs -> Vector] /\ DOMAIN vecs \ gone \in SUBSET DOMAIN vecs
      BY DEF StoreInv, StoreTypeOK
    <3> QED
      BY <2>1, <3>1, RestrictKeepsRows
  <2>4. RowsBounded'
    BY <2>2 DEF StoreInv, RowsBounded
  <2>5. SeqsBelowNext'
    BY <2>1, <2>3 DEF StoreInv, SeqsBelowNext
  <2>6. StoreTypeOK'
    <3>1. DOMAIN turns' \subseteq Nat \ {0} /\ DOMAIN vecs' \subseteq Nat \ {0}
      BY <2>2, <2>3 DEF StoreInv, StoreTypeOK
    <3>2. nextSeq' \in Nat /\ generation' \in Nat /\ stored' \in Models \cup {NoModel}
      BY <2>1 DEF StoreInv, StoreTypeOK
    <3>3. turns' \in [DOMAIN turns' -> Texts] /\ vecs' \in [DOMAIN vecs' -> Vector]
      BY <2>2, <2>3
    <3> QED
      BY <3>1, <3>2, <3>3, Zenon DEF StoreTypeOK
  <2> QED
    BY <2>4, <2>5, <2>6 DEF StoreInv
<1> QED
  BY <1>1, <1>2

(* Storing a batch, or refusing it, keeps the invariant of the store.      *)
LEMMA WriteEmbeddingsKeepsStore ==
  ASSUME StoreInv, NEW model \in Models, NEW readGen, NEW held,
         DOMAIN held \subseteq Nat \ {0}, held \in [DOMAIN held -> Texts],
         WriteEmbeddings(held, model, readGen)
  PROVE  StoreInv'
<1>1. PutVectors(held, model) /\ UNCHANGED <<turns, generation, stored>>
  BY DEF WriteEmbeddings
<1>2. /\ DOMAIN vecs' \subseteq Nat \ {0}
      /\ vecs' \in [DOMAIN vecs' -> Vector]
      /\ nextSeq' \in Nat
      /\ SeqsBelowNext'
  BY <1>1, PutVectorsKeepsVectors DEF StoreInv
<1> QED
  BY <1>1, <1>2 DEF StoreInv, StoreTypeOK, RowsBounded

(***************************************************************************)
(* The inductive invariant.                                                *)
(***************************************************************************)

(* A process that embeds follows some model, and so does the store; a call *)
(* about to write an embedder has one to write.                            *)
Known(p) ==
  /\ spec[p] # NoModel \/ At(p, "reembed") => stored # NoModel
  /\ live[p] => spec[p] # NoModel
  /\ pc[p] \in {"seed", "switch", "probe", "reembed"} => job[p].target # NoModel
  /\ pc[p] \in {"backlog", "write"} => live[p]

EmbedderKnown == \A p \in Procs : Known(p)

(* No batch is of a later generation than the store's, and one of the same *)
(* generation holds ids that still name the turns whose texts it holds.    *)
BatchOfItsTurns ==
  \A p \in Procs :
    /\ job[p].gen <= generation
    /\ At(p, "write") /\ job[p].gen = generation =>
         \A id \in DOMAIN rows[p] : id \in DOMAIN turns /\ rows[p][id] = turns[id]

TypeInv == StoreInv /\ ProcTypeOK /\ EmbedderKnown

(***************************************************************************)
(* Every step is one transaction of the store, or leaves it alone.         *)
(***************************************************************************)

Transaction ==
  \/ UNCHANGED storeVars
  \/ \E p \in Procs : At(p, "seed") /\ job[p].target \in Models /\ SeedEmbedder(job[p].target)
  \/ \E m \in Models : SwitchEmbedder(m)
  \/ \E t \in Texts, m \in Models \cup {NoModel} : InsertTurn(t, m)
  \/ \E s \in Sessions : DeleteSession(s)
  \/ RebuildDerived
  \/ DropVectors
  \/ ForgetEverything
  \/ \E p \in Procs :
       /\ At(p, "write")
       /\ spec[p] \in Models
       /\ WriteEmbeddings(rows[p], spec[p], job[p].gen)

(* Whatever step the engine takes, what it does to the store is one        *)
(* transaction of the store or nothing.                                    *)
LEMMA StepIsTransaction ==
  ASSUME ProcTypeOK, EmbedderKnown, NEW p \in Procs, Step(p)
  PROVE  Transaction
<1> USE DEF Transaction
<1>1. CASE Open(p)
  BY <1>1 DEF Open, OpenStored, OpenWithoutDense, OpenFresh, OpenSwitching, OpenFollowing
<1>2. CASE Call(p)
  <2>1. CASE \E t \in Texts, embedded \in BOOLEAN : Ingest(p, t, embedded)
    BY <2>1 DEF Ingest, ProcTypeOK
  <2>2. CASE Discard(p)
    BY <2>2 DEF Discard
  <2> QED
    BY <1>2, <2>1, <2>2 DEF Call, Read, BeginSetEmbedder, BeginReembed, BeginDrain
<1>3. CASE Apply(p)
  <2>1. pc[p] \in {"seed", "switch", "probe", "reembed"} => job[p].target \in Models
    BY DEF ProcTypeOK, EmbedderKnown, Known, Job
  <2>2. CASE Seed(p)
    BY <2>1, <2>2 DEF Seed, At
  <2>3. CASE OpenSwitch(p)
    BY <2>1, <2>3 DEF OpenSwitch, At
  <2>4. CASE ApplySwitch(p)
    BY <2>1, <2>4 DEF ApplySwitch, At
  <2>5. CASE ApplyReembed(p)
    BY <2>5 DEF ApplyReembed
  <2> QED
    BY <1>3, <2>2, <2>3, <2>4, <2>5 DEF Apply, ApplyProbed, ApplySameModel, ProbeFails
<1>4. CASE Continue(p)
  <2>1. CASE BatchWritten(p)
    BY <2>1 DEF BatchWritten, At, ProcTypeOK, EmbedderKnown, Known
  <2> QED
    BY <1>4, <2>1 DEF Continue, ReadGeneration, Follow, BeginBatch, EmbedBatch,
                      BatchRefused, LoadVectors
<1>5. CASE EmbedFails(p) \/ Close(p)
  BY <1>5 DEF EmbedFails, Close
<1> QED
  BY <1>1, <1>2, <1>3, <1>4, <1>5 DEF Step

(* Every transaction keeps the invariant of the store.                     *)
LEMMA TransactionKeepsStore ==
  ASSUME StoreInv, ProcTypeOK, Transaction
  PROVE  StoreInv'
<1>1. CASE UNCHANGED storeVars
  BY <1>1 DEF StoreInv, StoreTypeOK, RowsBounded, SeqsBelowNext, storeVars, Vector
<1>2. ASSUME NEW m \in Models, SeedEmbedder(m) \/ SwitchEmbedder(m)
      PROVE  StoreInv'
  BY <1>2, SeedEmbedderKeepsStore, SwitchEmbedderKeepsStore
<1>3. CASE \E t \in Texts, m \in Models \cup {NoModel} : InsertTurn(t, m)
  BY <1>3, InsertTurnKeepsStore
<1>4. CASE \E s \in Sessions : DeleteSession(s)
  BY <1>4, DeleteSessionKeepsStore
<1>5. CASE RebuildDerived \/ DropVectors \/ ForgetEverything
  BY <1>5, RebuildDerivedKeepsStore, DropVectorsKeepsStore, ForgetEverythingKeepsStore
<1>6. ASSUME NEW p \in Procs, spec[p] \in Models,
             WriteEmbeddings(rows[p], spec[p], job[p].gen)
      PROVE  StoreInv'
  <2>1. DOMAIN rows[p] \subseteq Nat \ {0} /\ rows[p] \in [DOMAIN rows[p] -> Texts]
    BY DEF ProcTypeOK
  <2> QED
    BY <1>6, <2>1, WriteEmbeddingsKeepsStore
<1> QED
  BY <1>1, <1>2, <1>3, <1>4, <1>5, <1>6 DEF Transaction

(* The generation never falls, and while it stands no turn is taken away. *)
LEMMA TurnsStay ==
  ASSUME StoreInv, Transaction
  PROVE  /\ generation \in Nat /\ generation' \in Nat
         /\ generation <= generation'
         /\ generation' = generation =>
              \A id \in DOMAIN turns : id \in DOMAIN turns' /\ turns'[id] = turns[id]
<1>1. generation \in Nat
  BY DEF StoreInv, StoreTypeOK
<1>2. CASE UNCHANGED storeVars
  BY <1>1, <1>2 DEF storeVars
<1>3. CASE \E m \in Models : SeedEmbedder(m) \/ SwitchEmbedder(m)
  BY <1>1, <1>3 DEF SeedEmbedder, SwitchEmbedder, BumpGeneration
<1>4. CASE \E t \in Texts, m \in Models \cup {NoModel} : InsertTurn(t, m)
  <2>1. PICK t \in Texts, m \in Models \cup {NoModel} : InsertTurn(t, m)
    BY <1>4
  <2>2. CASE t \in Range(turns)
    BY <1>1, <2>1, <2>2 DEF InsertTurn, storeVars
  <2>3. CASE t \notin Range(turns)
    <3>1. generation' = generation
      BY <2>1, <2>3 DEF InsertTurn
    <3>2. NextRowId \notin DOMAIN turns
      BY NextRowIdIsNew DEF StoreInv
    <3>3. turns' = [id \in DOMAIN turns \cup {NextRowId} |->
                      IF id = NextRowId THEN t ELSE turns[id]]
      BY <2>1, <2>3 DEF InsertTurn
    <3> QED
      BY <1>1, <3>1, <3>2, <3>3
  <2> QED
    BY <2>2, <2>3
<1>5. CASE \E s \in Sessions : DeleteSession(s)
  BY <1>1, <1>5 DEF DeleteSession, BumpGeneration, storeVars
<1>6. CASE RebuildDerived \/ DropVectors \/ ForgetEverything
  BY <1>1, <1>6 DEF RebuildDerived, DropVectors, ForgetEverything, BumpGeneration
<1>7. CASE \E p \in Procs : WriteEmbeddings(rows[p], spec[p], job[p].gen)
  BY <1>1, <1>7 DEF WriteEmbeddings
<1> QED
  BY <1>2, <1>3, <1>4, <1>5, <1>6, <1>7 DEF Transaction

(* An embedder once recorded is followed by another, never by none. *)
LEMMA StoredStays ==
  ASSUME Transaction, stored # NoModel
  PROVE  stored' # NoModel
BY NoModelAssumption
   DEF Transaction, storeVars, SeedEmbedder, SwitchEmbedder, InsertTurn, DeleteSession,
       RebuildDerived, DropVectors, ForgetEverything, WriteEmbeddings

(***************************************************************************)
(* Types of the processes' fields.                                         *)
(***************************************************************************)

(* The job of a call that prepares an embedder is a job.                   *)
LEMMA TargetJobType ==
  ASSUME NEW model \in Models \cup {NoModel}, NEW same \in BOOLEAN
  PROVE  TargetJob(model, same) \in Job
<1>1. 0 \in Int /\ 0 \in Nat /\ FALSE \in BOOLEAN
  OBVIOUS
<1> QED
  BY <1>1, Zenon DEF TargetJob, Job

(* The job of a call that embeds is a job.                                 *)
LEMMA EmbedJobType ==
  ASSUME NEW drain \in BOOLEAN, NEW limit \in Int
  PROVE  EmbedJob(drain, limit) \in Job
<1>1. 0 \in Nat /\ FALSE \in BOOLEAN /\ NoModel \in Models \cup {NoModel}
  OBVIOUS
<1> QED
  BY <1>1, Zenon DEF EmbedJob, Job

(* So is the job of a process that is in no call.                          *)
LEMMA NoJobType == NoJob \in Job
<1>1. NoModel \in Models \cup {NoModel} /\ FALSE \in BOOLEAN
  OBVIOUS
<1> QED
  BY <1>1, TargetJobType, Zenon DEF NoJob

(* Installing an embedder gives the fields of its process values of their  *)
(* types.                                                                  *)
LEMMA InstallType ==
  ASSUME ProcTypeOK, NEW p \in Procs, NEW model \in Models \cup {NoModel},
         NEW built \in BOOLEAN, Install(p, model, built)
  PROVE  /\ spec' \in [Procs -> Models \cup {NoModel}]
         /\ live' \in [Procs -> BOOLEAN]
         /\ DOMAIN index' = Procs
         /\ \A q \in Procs : /\ DOMAIN index'[q] \subseteq Nat
                             /\ index'[q] \in [DOMAIN index'[q] -> IndexEntry]
         /\ seenSeq' \in [Procs -> Nat]
BY DEF Install, ProcTypeOK, EmptyFn, IndexEntry

(* Emptying an index leaves an index.                                      *)
LEMMA EmptyIndexType ==
  ASSUME ProcTypeOK, NEW p \in Procs, index' = [index EXCEPT ![p] = EmptyFn]
  PROVE  /\ DOMAIN index' = Procs
         /\ \A q \in Procs : /\ DOMAIN index'[q] \subseteq Nat
                             /\ index'[q] \in [DOMAIN index'[q] -> IndexEntry]
BY DEF ProcTypeOK, EmptyFn, IndexEntry

(* Emptying the batch of a process leaves a batch.                         *)
LEMMA EmptyRowsType ==
  ASSUME ProcTypeOK, NEW p \in Procs, rows' = [rows EXCEPT ![p] = EmptyFn]
  PROVE  /\ DOMAIN rows' = Procs
         /\ \A q \in Procs : /\ DOMAIN rows'[q] \subseteq Nat \ {0}
                             /\ IsFiniteSet(DOMAIN rows'[q])
                             /\ rows'[q] \in [DOMAIN rows'[q] -> Texts]
<1>1. DOMAIN EmptyFn \subseteq Nat \ {0} /\ EmptyFn \in [DOMAIN EmptyFn -> Texts]
  BY DEF EmptyFn
<1>2. IsFiniteSet(DOMAIN EmptyFn)
  BY FS_EmptySet, EmptyFnHasNoRows
<1> HIDE DEF EmptyFn
<1> QED
  BY <1>1, <1>2 DEF ProcTypeOK

(* Opening and closing a store keeps the fields of the processes typed.    *)
LEMMA OpenKeepsTypes ==
  ASSUME TypeInv, NEW p \in Procs, Open(p)
  PROVE  ProcTypeOK'
<1> USE DEF ProcTypeOK, Labels, Goto, At
<1>1. CASE OpenWithoutDense(p)
  BY <1>1 DEF OpenWithoutDense, TypeInv
<1>2. ASSUME NEW m \in Models, OpenFresh(p, m) \/ OpenSwitching(p, m)
      PROVE  ProcTypeOK'
  <2>1. TargetJob(m, FALSE) \in Job
    <3>1. m \in Models \cup {NoModel} /\ FALSE \in BOOLEAN
      OBVIOUS
    <3> QED
      BY <3>1, TargetJobType, Zenon
  <2>2. CASE OpenFresh(p, m)
    BY <2>1, <2>2 DEF OpenFresh, TypeInv
  <2>3. CASE OpenSwitching(p, m)
    BY <2>1, <2>3 DEF OpenSwitching, TypeInv
  <2> QED
    BY <1>2, <2>2, <2>3
<1>3. ASSUME NEW built \in BOOLEAN, OpenFollowing(p, built)
      PROVE  ProcTypeOK'
  <2>1. Install(p, stored, built) /\ stored \in Models \cup {NoModel}
    BY <1>3 DEF OpenFollowing, TypeInv, StoreInv, StoreTypeOK
  <2> QED
    BY <1>3, <2>1, InstallType DEF OpenFollowing, TypeInv
<1> QED
  BY <1>1, <1>2, <1>3 DEF Open, OpenStored

(* So do the calls a host makes, up to their first pause.                  *)
LEMMA CallKeepsTypes ==
  ASSUME TypeInv, NEW p \in Procs, Call(p)
  PROVE  ProcTypeOK'
<1> USE DEF ProcTypeOK, Labels, Goto, At
<1>1. CASE Read(p) \/ Discard(p)
  BY <1>1 DEF Read, Discard, TypeInv
<1>2. ASSUME NEW t \in Texts, NEW embedded \in BOOLEAN, Ingest(p, t, embedded)
      PROVE  ProcTypeOK'
  BY <1>2 DEF Ingest, TypeInv
<1>3. ASSUME NEW m \in Models, BeginSetEmbedder(p, m)
      PROVE  ProcTypeOK'
  <2>1. TargetJob(m, stored = m) \in Job
    <3>1. m \in Models \cup {NoModel} /\ (stored = m) \in BOOLEAN
      OBVIOUS
    <3> QED
      BY <3>1, TargetJobType, Zenon
  <2> QED
    BY <1>3, <2>1 DEF BeginSetEmbedder, TypeInv
<1>4. CASE BeginReembed(p)
  <2>1. TargetJob(stored, FALSE) \in Job
    <3>1. stored \in Models \cup {NoModel} /\ FALSE \in BOOLEAN
      BY DEF TypeInv, StoreInv, StoreTypeOK
    <3> QED
      BY <3>1, TargetJobType, Zenon
  <2> QED
    BY <1>4, <2>1 DEF BeginReembed, TypeInv
<1>5. CASE BeginDrain(p)
  <2>1. EmbedJob(TRUE, DrainLimit) \in Job
    <3>1. DrainLimit \in Int /\ TRUE \in BOOLEAN
      BY DrainLimitAssumption
    <3> QED
      BY <3>1, EmbedJobType, Zenon
  <2> QED
    BY <1>5, <2>1 DEF BeginDrain, TypeInv
<1> QED
  BY <1>1, <1>2, <1>3, <1>4, <1>5 DEF Call

(* So do the writes of a switch, a re-applied embedder and a reembed.      *)
LEMMA ApplyKeepsTypes ==
  ASSUME TypeInv, NEW p \in Procs, Apply(p)
  PROVE  ProcTypeOK'
<1>1. job[p].target \in Models \cup {NoModel}
  BY DEF TypeInv, ProcTypeOK, Job
<1>2. job' = [job EXCEPT ![p] = NoJob] => job' \in [Procs -> Job]
  BY NoJobType DEF TypeInv, ProcTypeOK
<1>3. job' = [job EXCEPT ![p] = NoJob]
  BY DEF Apply, ApplyProbed, Seed, OpenSwitch, ApplySwitch, ApplySameModel, ApplyReembed, ProbeFails
<1>4. CASE Seed(p) \/ OpenSwitch(p) \/ ApplySwitch(p) \/ ApplyReembed(p)
  <2>1. Install(p, job[p].target, TRUE) /\ Goto(p, "refresh")
    BY <1>4 DEF Seed, OpenSwitch, ApplySwitch, ApplyReembed
  <2>2. dense' \in [Procs -> BOOLEAN] /\ seenGen' = seenGen /\ rows' = rows
    BY <1>4 DEF Seed, OpenSwitch, ApplySwitch, ApplyReembed, TypeInv, ProcTypeOK
  <2> QED
    BY <1>1, <1>2, <1>3, <2>1, <2>2, InstallType
       DEF TypeInv, ProcTypeOK, Labels, Goto
<1>5. CASE ApplySameModel(p)
  <2>1. CASE EmbedderMoved(job[p].target)
    BY <1>2, <1>3, <1>5, <2>1
       DEF ApplySameModel, TypeInv, ProcTypeOK, Labels, Goto
  <2>2. CASE ~EmbedderMoved(job[p].target)
    BY <1>1, <1>2, <1>3, <1>5, <2>2, InstallType
       DEF ApplySameModel, TypeInv, ProcTypeOK, Labels, Goto
  <2> QED
    BY <2>1, <2>2
<1>6. CASE ProbeFails(p)
  BY <1>2, <1>3, <1>6 DEF ProbeFails, TypeInv, ProcTypeOK, Labels, Goto
<1> QED
  BY <1>4, <1>5, <1>6 DEF Apply, ApplyProbed

(* The rows of a batch are turns the store holds, finitely many. *)
LEMMA BatchRowsType ==
  ASSUME StoreInv, NEW B \in SUBSET DOMAIN turns
  PROVE  /\ DOMAIN Restrict(turns, B) = B
         /\ B \subseteq Nat \ {0}
         /\ IsFiniteSet(B)
         /\ Restrict(turns, B) \in [B -> Texts]
         /\ \A id \in B : Restrict(turns, B)[id] = turns[id]
<1>1. turns \in [DOMAIN turns -> Texts] /\ DOMAIN turns \subseteq Nat \ {0}
  BY DEF StoreInv, StoreTypeOK
<1>2. PICK n \in Nat : DOMAIN turns \subseteq 1 .. n
  BY DEF StoreInv, RowsBounded
<1>3. IsFiniteSet(1 .. n)
  BY FS_Interval
<1>4. IsFiniteSet(B)
  BY <1>2, <1>3, FS_Subset
<1> QED
  BY <1>1, <1>4, RestrictKeepsRows

(* The rows a batch takes from the backlog are turns of the store.         *)
LEMMA NextBatchOfTurns ==
  ASSUME NEW p \in Procs
  PROVE  NextBatch(p) \in SUBSET DOMAIN turns
BY DEF NextBatch, OldestOf, Backlog

(* The largest sequence number loaded is a number. *)
LEMMA LoadedSeqType ==
  ASSUME StoreInv, NEW seen \in Nat, NEW new \in SUBSET DOMAIN vecs
  PROVE  Max({seen} \cup {vecs[id].seq : id \in new}) \in Nat
<1> DEFINE S == {seen} \cup {vecs[id].seq : id \in new}
<1>1. nextSeq \in Nat /\ \A id \in new : vecs[id].seq \in Nat /\ vecs[id].seq < nextSeq
  BY DEF StoreInv, StoreTypeOK, SeqsBelowNext, Vector
<1>2. S \in SUBSET Nat /\ S # {} /\ \A x \in S : x <= nextSeq + seen
  BY <1>1
<1>3. nextSeq + seen \in Nat
  BY <1>1
<1> HIDE DEF S
<1>4. Max(S) \in S
  BY <1>2, <1>3, MaxOfBounded
<1> QED
  BY <1>2, <1>4 DEF S

(* Loading the new vectors keeps the fields typed.                         *)
LEMMA LoadKeepsTypes ==
  ASSUME TypeInv, NEW p \in Procs, LoadVectors(p)
  PROVE  ProcTypeOK'
<1> DEFINE new == IF spec[p] = NoModel THEN {} ELSE VectorsAfter(seenSeq[p], spec[p])
<1>1. new \in SUBSET DOMAIN vecs
  BY DEF VectorsAfter
<1>2. seenSeq[p] \in Nat /\ StoreInv
  BY DEF TypeInv, ProcTypeOK
<1>3. /\ index' = [index EXCEPT ![p] =
            [id \in DOMAIN index[p] \cup new |->
               IF id \in new THEN [model |-> vecs[id].model, text |-> vecs[id].text]
                             ELSE index[p][id]]]
      /\ seenSeq' = [seenSeq EXCEPT ![p] = Max({seenSeq[p]} \cup {vecs[id].seq : id \in new})]
      /\ job' = [job EXCEPT ![p] = NoJob]
      /\ Goto(p, "idle")
      /\ UNCHANGED <<dense, spec, live, seenGen, rows>>
  BY DEF LoadVectors
<1> HIDE DEF new
<1>4. seenSeq' \in [Procs -> Nat]
  BY <1>1, <1>2, <1>3, LoadedSeqType DEF TypeInv, ProcTypeOK
<1>5. job' \in [Procs -> Job]
  BY <1>3, NoJobType DEF TypeInv, ProcTypeOK
<1>6. /\ DOMAIN index' = Procs
      /\ \A q \in Procs : /\ DOMAIN index'[q] \subseteq Nat
                          /\ index'[q] \in [DOMAIN index'[q] -> IndexEntry]
  <2>1. \A id \in new : id \in Nat /\ [model |-> vecs[id].model, text |-> vecs[id].text] \in IndexEntry
    BY <1>1 DEF TypeInv, StoreInv, StoreTypeOK, Vector, IndexEntry
  <2>2. DOMAIN index = Procs /\ DOMAIN index[p] \subseteq Nat
        /\ index[p] \in [DOMAIN index[p] -> IndexEntry]
    BY DEF TypeInv, ProcTypeOK
  <2>3. DOMAIN index' = Procs
    BY <1>3, <2>2
  <2>4. DOMAIN index'[p] \subseteq Nat /\ index'[p] \in [DOMAIN index'[p] -> IndexEntry]
    <3> DEFINE f == [id \in DOMAIN index[p] \cup new |->
                       IF id \in new THEN [model |-> vecs[id].model, text |-> vecs[id].text]
                                     ELSE index[p][id]]
    <3>1. DOMAIN f \subseteq Nat /\ f \in [DOMAIN f -> IndexEntry]
      BY <2>1, <2>2
    <3>2. index'[p] = f
      BY <1>3, <2>2
    <3> HIDE DEF f
    <3> QED
      BY <3>1, <3>2
  <2>5. \A q \in Procs \ {p} : index'[q] = index[q]
    BY <1>3, <2>2
  <2> QED
    BY <2>3, <2>4, <2>5 DEF TypeInv, ProcTypeOK
<1> QED
  BY <1>3, <1>4, <1>5, <1>6 DEF TypeInv, ProcTypeOK, Goto, Labels

(* So do the steps of a call that has begun: following the store, batches  *)
(* and their outcomes.                                                     *)
LEMMA ContinueKeepsTypes ==
  ASSUME TypeInv, NEW p \in Procs, Continue(p)
  PROVE  ProcTypeOK'
<1> USE DEF Labels, Goto
<1>1. CASE ReadGeneration(p)
  <2>1. job' \in [Procs -> Job]
    <3>1. EmbedJob(FALSE, Batch) \in Job
      <4>1. Batch \in Int /\ FALSE \in BOOLEAN
        BY BatchAssumption
      <4> QED
        BY <4>1, EmbedJobType, Zenon
    <3> QED
      BY <1>1, <3>1 DEF ReadGeneration, TypeInv, ProcTypeOK
  <2>2. generation \in Nat
    BY DEF TypeInv, StoreInv, StoreTypeOK
  <2>3. CASE generation # seenGen[p]
    <3>1. /\ DOMAIN index' = Procs
          /\ \A q \in Procs : /\ DOMAIN index'[q] \subseteq Nat
                              /\ index'[q] \in [DOMAIN index'[q] -> IndexEntry]
      BY <1>1, <2>3, EmptyIndexType DEF ReadGeneration, TypeInv
    <3>2. /\ seenSeq' = [seenSeq EXCEPT ![p] = 0]
          /\ seenGen' = [seenGen EXCEPT ![p] = generation]
          /\ pc' = [pc EXCEPT ![p] = "follow"]
          /\ UNCHANGED <<dense, spec, live, rows>>
      BY <1>1, <2>3 DEF ReadGeneration
    <3>3. /\ seenSeq' \in [Procs -> Nat]
          /\ seenGen' \in [Procs -> Nat \cup {-1}]
          /\ pc' \in [Procs -> Labels]
      BY <2>2, <3>2 DEF TypeInv, ProcTypeOK
    <3> QED
      BY <2>1, <3>1, <3>2, <3>3 DEF TypeInv, ProcTypeOK
  <2>4. CASE generation = seenGen[p]
    BY <1>1, <2>1, <2>4 DEF ReadGeneration, TypeInv, ProcTypeOK
  <2> QED
    BY <2>3, <2>4
<1>2. CASE Follow(p)
  <2>1. pc' \in [Procs -> Labels]
    BY <1>2 DEF Follow, AfterFollow, TypeInv, ProcTypeOK
  <2>2. stored \in Models \cup {NoModel}
    BY DEF TypeInv, StoreInv, StoreTypeOK
  <2>3. CASE dense[p] /\ stored # spec[p]
    <3>1. PICK built \in BOOLEAN : Install(p, stored, built)
      BY <1>2, <2>3 DEF Follow, FollowStore
    <3>2. ProcTypeOK
      BY DEF TypeInv
    <3>3. /\ spec' \in [Procs -> Models \cup {NoModel}]
          /\ live' \in [Procs -> BOOLEAN]
          /\ DOMAIN index' = Procs
          /\ \A q \in Procs : /\ DOMAIN index'[q] \subseteq Nat
                              /\ index'[q] \in [DOMAIN index'[q] -> IndexEntry]
          /\ seenSeq' \in [Procs -> Nat]
      BY <2>2, <3>1, <3>2, InstallType
    <3>4. UNCHANGED <<dense, seenGen, job, rows>>
      BY <1>2 DEF Follow
    <3> QED
      BY <2>1, <3>2, <3>3, <3>4 DEF ProcTypeOK
  <2>4. CASE ~(dense[p] /\ stored # spec[p])
    BY <1>2, <2>1, <2>4 DEF Follow, FollowStore, TypeInv, ProcTypeOK
  <2> QED
    BY <2>3, <2>4
<1>3. CASE BeginBatch(p)
  <2>1. [job[p] EXCEPT !.gen = generation] \in Job
    <3>1. job[p] \in Job /\ generation \in Nat
      BY DEF TypeInv, StoreInv, StoreTypeOK, ProcTypeOK
    <3> QED
      BY <3>1 DEF Job
  <2>2. job' \in [Procs -> Job]
    <3>1. \/ job' = job
          \/ job' = [job EXCEPT ![p] = [job[p] EXCEPT !.gen = generation]]
      BY <1>3 DEF BeginBatch
    <3> QED
      BY <2>1, <3>1 DEF TypeInv, ProcTypeOK
  <2> QED
    BY <1>3, <2>2 DEF BeginBatch, TypeInv, ProcTypeOK
<1>4. CASE EmbedBatch(p)
  <2>1. CASE NextBatch(p) = {}
    BY <1>4, <2>1 DEF EmbedBatch, TypeInv, ProcTypeOK
  <2>2. CASE NextBatch(p) # {}
    <3>1. rows' = [rows EXCEPT ![p] = Restrict(turns, NextBatch(p))]
      BY <1>4, <2>2 DEF EmbedBatch
    <3>2. /\ DOMAIN Restrict(turns, NextBatch(p)) \subseteq Nat \ {0}
          /\ IsFiniteSet(DOMAIN Restrict(turns, NextBatch(p)))
          /\ Restrict(turns, NextBatch(p)) \in [DOMAIN Restrict(turns, NextBatch(p)) -> Texts]
      BY BatchRowsType, NextBatchOfTurns DEF TypeInv
    <3>3. /\ DOMAIN rows' = Procs
          /\ \A q \in Procs : /\ DOMAIN rows'[q] \subseteq Nat \ {0}
                              /\ IsFiniteSet(DOMAIN rows'[q])
                              /\ rows'[q] \in [DOMAIN rows'[q] -> Texts]
      BY <3>1, <3>2 DEF TypeInv, ProcTypeOK
    <3> QED
      BY <1>4, <2>2, <3>3 DEF EmbedBatch, TypeInv, ProcTypeOK
  <2> QED
    BY <2>1, <2>2
<1>5. CASE BatchWritten(p)
  <2>1. Cardinality(DOMAIN rows[p]) \in Nat
    BY FS_CardinalityType DEF TypeInv, ProcTypeOK
  <2>2. job' \in [Procs -> Job]
    <3> DEFINE left == job[p].limit - Cardinality(DOMAIN rows[p])
    <3>1. job[p] \in Job /\ left \in Int
      BY <2>1 DEF TypeInv, ProcTypeOK, Job
    <3>2. job' = [job EXCEPT ![p] = [job[p] EXCEPT !.limit = left]]
      BY <1>5 DEF BatchWritten
    <3> HIDE DEF left
    <3>3. [job[p] EXCEPT !.limit = left] \in Job
      BY <3>1 DEF Job
    <3> QED
      BY <3>2, <3>3 DEF TypeInv, ProcTypeOK
  <2> QED
    BY <1>5, <2>2, EmptyRowsType DEF BatchWritten, TypeInv, ProcTypeOK
<1>6. CASE BatchRefused(p)
  BY <1>6, EmptyRowsType DEF BatchRefused, TypeInv, ProcTypeOK
<1>7. CASE LoadVectors(p)
  BY <1>7, LoadKeepsTypes
<1> QED
  BY <1>1, <1>2, <1>3, <1>4, <1>5, <1>6, <1>7 DEF Continue

(* So does every step of every process.                                    *)
LEMMA StepKeepsTypes ==
  ASSUME TypeInv, NEW p \in Procs, Step(p)
  PROVE  ProcTypeOK'
<1>1. CASE EmbedFails(p)
  BY <1>1, NoJobType DEF EmbedFails, TypeInv, ProcTypeOK, Labels, Goto
<1>2. CASE Close(p)
  BY <1>2, NoJobType, EmptyIndexType, EmptyRowsType
     DEF Close, TypeInv, ProcTypeOK, Labels, Goto
<1> QED
  BY <1>1, <1>2, OpenKeepsTypes, CallKeepsTypes, ApplyKeepsTypes, ContinueKeepsTypes DEF Step

(* The processes that take no step keep their fields. *)
LEMMA OthersStay ==
  ASSUME ProcTypeOK, NEW p \in Procs, Step(p), NEW q \in Procs, q # p
  PROVE  /\ pc'[q] = pc[q] /\ dense'[q] = dense[q] /\ spec'[q] = spec[q]
         /\ live'[q] = live[q] /\ index'[q] = index[q] /\ seenSeq'[q] = seenSeq[q]
         /\ seenGen'[q] = seenGen[q] /\ job'[q] = job[q] /\ rows'[q] = rows[q]
<1> USE DEF ProcTypeOK, Goto, Install
<1>1. CASE Open(p)
  BY <1>1 DEF Open, OpenStored, OpenWithoutDense, OpenFresh, OpenSwitching, OpenFollowing
<1>2. CASE Call(p)
  BY <1>2 DEF Call, Read, Ingest, Discard, BeginSetEmbedder, BeginReembed, BeginDrain
<1>3. CASE Apply(p)
  <2>1. CASE Seed(p) \/ OpenSwitch(p) \/ ApplySwitch(p) \/ ApplyReembed(p)
    BY <2>1 DEF Seed, OpenSwitch, ApplySwitch, ApplyReembed
  <2>2. CASE ApplySameModel(p) \/ ProbeFails(p)
    BY <2>2 DEF ApplySameModel, ProbeFails
  <2> QED
    BY <1>3, <2>1, <2>2 DEF Apply, ApplyProbed
<1>4. CASE Continue(p)
  <2>1. CASE ReadGeneration(p) \/ BeginBatch(p) \/ EmbedBatch(p)
    BY <2>1 DEF ReadGeneration, BeginBatch, EmbedBatch
  <2>2. CASE Follow(p)
    BY <2>2 DEF Follow, FollowStore
  <2>3. CASE BatchWritten(p) \/ BatchRefused(p)
    BY <2>3 DEF BatchWritten, BatchRefused
  <2>4. CASE LoadVectors(p)
    BY <2>4 DEF LoadVectors
  <2> QED
    BY <1>4, <2>1, <2>2, <2>3, <2>4 DEF Continue
<1>5. CASE EmbedFails(p) \/ Close(p)
  BY <1>5 DEF EmbedFails, Close
<1> QED
  BY <1>1, <1>2, <1>3, <1>4, <1>5 DEF Step

(* Every step keeps what a process knows of the embedder: it follows none  *)
(* before the store records one, and a call that needs one has it.         *)
LEMMA StepKeepsKnown ==
  ASSUME TypeInv, NEW p \in Procs, Step(p)
  PROVE  Known(p)'
<1>1. Known(p) /\ ProcTypeOK
  BY DEF Known, EmbedderKnown, TypeInv
<1>2. stored # NoModel => stored' # NoModel
  BY StepIsTransaction, StoredStays DEF TypeInv
<1> USE <1>1 DEF ProcTypeOK, Known, Goto, At, NoJob, TargetJob, EmbedJob
<1>3. CASE Open(p)
  <2>1. stored' = stored
    BY <1>3 DEF Open, OpenStored, OpenWithoutDense, OpenFresh, OpenSwitching, OpenFollowing, storeVars
  <2>2. CASE OpenWithoutDense(p)
    BY <1>2, <2>2 DEF OpenWithoutDense
  <2>3. ASSUME NEW m \in Models, OpenFresh(p, m) \/ OpenSwitching(p, m)
        PROVE  Known(p)'
    BY <1>2, <2>3, NoModelAssumption DEF OpenFresh, OpenSwitching
  <2>4. ASSUME NEW built \in BOOLEAN, OpenFollowing(p, built)
        PROVE  Known(p)'
    BY <2>1, <2>4 DEF OpenFollowing, Install
  <2> QED
    BY <1>3, <2>2, <2>3, <2>4 DEF Open, OpenStored
<1>4. CASE Call(p)
  <2>1. CASE Read(p) \/ Discard(p) \/ BeginDrain(p)
    BY <1>2, <2>1 DEF Read, Discard, BeginDrain
  <2>2. ASSUME NEW t \in Texts, NEW embedded \in BOOLEAN, Ingest(p, t, embedded)
        PROVE  Known(p)'
    BY <1>2, <2>2 DEF Ingest
  <2>3. ASSUME NEW m \in Models, BeginSetEmbedder(p, m)
        PROVE  Known(p)'
    BY <1>2, <2>3, NoModelAssumption DEF BeginSetEmbedder
  <2>4. CASE BeginReembed(p)
    BY <1>2, <2>4 DEF BeginReembed
  <2> QED
    BY <1>4, <2>1, <2>2, <2>3, <2>4 DEF Call
<1>5. CASE Apply(p)
  <2>1. pc'[p] \in {"refresh", "idle", "closed"}
    BY <1>5 DEF Apply, ApplyProbed, Seed, OpenSwitch, ApplySwitch, ApplySameModel, ApplyReembed, ProbeFails
  <2>2. CASE Seed(p) \/ OpenSwitch(p) \/ ApplySwitch(p)
    <3>1. /\ job[p].target # NoModel /\ stored' = job[p].target
          /\ spec'[p] = job[p].target
      BY <2>2 DEF Seed, OpenSwitch, ApplySwitch, Install, SeedEmbedder, SwitchEmbedder
    <3> QED
      BY <2>1, <3>1
  <2>3. CASE ApplyReembed(p)
    <3>1. job[p].target # NoModel /\ stored # NoModel /\ stored' = stored
      BY <2>3 DEF ApplyReembed, DropVectors
    <3>2. spec'[p] = job[p].target
      BY <2>3 DEF ApplyReembed, Install
    <3> QED
      BY <2>1, <3>1, <3>2
  <2>4. CASE ApplySameModel(p)
    BY <1>2, <2>1, <2>4 DEF ApplySameModel, Install, EmbedderMoved
  <2>5. CASE ProbeFails(p)
    BY <1>2, <2>1, <2>5 DEF ProbeFails
  <2> QED
    BY <1>5, <2>2, <2>3, <2>4, <2>5 DEF Apply, ApplyProbed
<1>6. CASE Continue(p)
  <2>1. CASE ReadGeneration(p)
    BY <1>2, <2>1 DEF ReadGeneration
  <2>2. CASE Follow(p)
    <3>1. pc'[p] \in {"batch", "load", "refresh"} /\ stored' = stored
      BY <2>2 DEF Follow, AfterFollow, storeVars
    <3>2. CASE dense[p] /\ stored # spec[p]
      BY <2>2, <3>1, <3>2 DEF Follow, FollowStore, Install
    <3>3. CASE ~(dense[p] /\ stored # spec[p])
      BY <2>2, <3>1, <3>3 DEF Follow, FollowStore
    <3> QED
      BY <3>2, <3>3
  <2>3. CASE BeginBatch(p)
    BY <1>2, <2>3 DEF BeginBatch
  <2>4. CASE EmbedBatch(p)
    BY <1>2, <2>4 DEF EmbedBatch
  <2>5. CASE BatchWritten(p)
    BY <1>2, <2>5 DEF BatchWritten
  <2>6. CASE BatchRefused(p)
    BY <1>2, <2>6 DEF BatchRefused
  <2>7. CASE LoadVectors(p)
    BY <1>2, <2>7 DEF LoadVectors
  <2> QED
    BY <1>6, <2>1, <2>2, <2>3, <2>4, <2>5, <2>6, <2>7 DEF Continue
<1>7. CASE EmbedFails(p)
  BY <1>2, <1>7 DEF EmbedFails
<1>8. CASE Close(p)
  BY <1>2, <1>8 DEF Close
<1> QED
  BY <1>3, <1>4, <1>5, <1>6, <1>7, <1>8 DEF Step

(* Every step keeps the type invariant.                                    *)
LEMMA StepKeepsTypeInv ==
  ASSUME TypeInv, NEW p \in Procs, Step(p)
  PROVE  TypeInv'
<1>1. StoreInv'
  BY StepIsTransaction, TransactionKeepsStore DEF TypeInv
<1>2. EmbedderKnown'
  <2> SUFFICES ASSUME NEW q \in Procs PROVE Known(q)'
    BY DEF EmbedderKnown
  <2>1. CASE q = p
    BY <2>1, StepKeepsKnown
  <2>2. CASE q # p
    <3>1. /\ pc'[q] = pc[q] /\ spec'[q] = spec[q]
          /\ live'[q] = live[q] /\ job'[q] = job[q]
      BY <2>2, OthersStay DEF TypeInv
    <3>2. Known(q) /\ (stored # NoModel => stored' # NoModel)
      BY StepIsTransaction, StoredStays DEF TypeInv, EmbedderKnown
    <3> QED
      BY <3>1, <3>2 DEF Known, At
  <2> QED
    BY <2>1, <2>2
<1> QED
  BY <1>1, <1>2, StepKeepsTypes DEF TypeInv

(* The type invariant holds at the start.                                  *)
LEMMA InitTypeInv == Init => TypeInv
<1> SUFFICES ASSUME Init PROVE TypeInv
  OBVIOUS
<1>1. StoreInv
  BY InitialStore DEF Init
<1>2. /\ job \in [Procs -> Job]
      /\ \A p \in Procs : job[p] = NoJob
  BY NoJobType DEF Init
<1>3. \A p \in Procs : /\ DOMAIN rows[p] \subseteq Nat \ {0}
                       /\ IsFiniteSet(DOMAIN rows[p])
                       /\ rows[p] \in [DOMAIN rows[p] -> Texts]
  BY FS_EmptySet DEF Init, EmptyFn
<1>4. \A p \in Procs : /\ DOMAIN index[p] \subseteq Nat
                       /\ index[p] \in [DOMAIN index[p] -> IndexEntry]
  BY DEF Init, EmptyFn
<1>5. ProcTypeOK
  BY <1>2, <1>3, <1>4 DEF Init, ProcTypeOK, Labels
<1>6. EmbedderKnown
  BY DEF Init, EmbedderKnown, Known, At
<1> QED
  BY <1>1, <1>5, <1>6 DEF TypeInv

(* A stuttering step keeps it.                                             *)
LEMMA StutterKeepsTypeInv ==
  ASSUME TypeInv, UNCHANGED vars
  PROVE  TypeInv'
BY DEF vars, TypeInv, StoreInv, StoreTypeOK, RowsBounded, SeqsBelowNext, ProcTypeOK,
       EmbedderKnown, Known, At, Vector, IndexEntry, Job, Labels

(* The types, with what they rest on: ids and sequence numbers below the   *)
(* next one, and what each process knows of the embedder.                  *)
THEOREM TypeInvariant == Spec => []TypeInv
<1>1. TypeInv /\ [Next]_vars => TypeInv'
  BY StepKeepsTypeInv, StutterKeepsTypeInv DEF Next
<1> QED
  BY <1>1, InitTypeInv, PTL DEF Spec

(* The tables of the store and the fields of every process keep their      *)
(* types, however many processes run.                                      *)
THEOREM TypeCorrect == Spec => []TypeOK
<1>1. TypeInv => TypeOK
  BY DEF TypeInv, TypeOK, StoreInv
<1> QED
  BY <1>1, TypeInvariant, PTL

(***************************************************************************)
(* Every vector was made from the text of its turn.                        *)
(***************************************************************************)

(* A transaction that finds the vectors right leaves them right, when the  *)
(* batches are of their turns.                                             *)
LEMMA TransactionKeepsVectors ==
  ASSUME TypeInv, VectorsOfTheirTurn, BatchOfItsTurns, Transaction
  PROVE  VectorsOfTheirTurn'
<1> USE DEF VectorsOfTheirTurn
<1>1. CASE UNCHANGED storeVars
  BY <1>1 DEF storeVars
<1>2. CASE \E m \in Models : SeedEmbedder(m) \/ SwitchEmbedder(m)
  BY <1>2 DEF SeedEmbedder, SwitchEmbedder, EmptyFn
<1>3. ASSUME NEW t \in Texts, NEW m \in Models \cup {NoModel}, InsertTurn(t, m)
      PROVE  VectorsOfTheirTurn'
  <2>1. CASE t \in Range(turns)
    BY <1>3, <2>1 DEF InsertTurn, storeVars
  <2>2. CASE t \notin Range(turns)
    <3>1. NextRowId \notin DOMAIN turns
      BY NextRowIdIsNew DEF TypeInv, StoreInv
    <3>2. turns' = [id \in DOMAIN turns \cup {NextRowId} |->
                      IF id = NextRowId THEN t ELSE turns[id]]
      BY <1>3, <2>2 DEF InsertTurn
    <3>3. \/ vecs' = vecs
          \/ PutVectors([id \in {NextRowId} |-> t], m)
      BY <1>3, <2>2 DEF InsertTurn
    <3> QED
      BY <3>1, <3>2, <3>3 DEF PutVectors
  <2> QED
    BY <2>1, <2>2
<1>4. ASSUME NEW s \in Sessions, DeleteSession(s)
      PROVE  VectorsOfTheirTurn'
  <2> DEFINE gone == {id \in DOMAIN turns : SessionOf[turns[id]] = s}
  <2>1. CASE gone = {}
    BY <1>4, <2>1 DEF DeleteSession, storeVars
  <2>2. CASE gone # {}
    BY <1>4, <2>2 DEF DeleteSession, Restrict
  <2> QED
    BY <2>1, <2>2
<1>5. CASE RebuildDerived \/ DropVectors \/ ForgetEverything
  BY <1>5 DEF RebuildDerived, DropVectors, ForgetEverything, EmptyFn
<1>6. ASSUME NEW p \in Procs, At(p, "write"),
             WriteEmbeddings(rows[p], spec[p], job[p].gen)
      PROVE  VectorsOfTheirTurn'
  <2>1. \A id \in DOMAIN rows[p] : id \in DOMAIN turns /\ rows[p][id] = turns[id]
    BY <1>6 DEF WriteEmbeddings, StoreMoved, BatchOfItsTurns
  <2> QED
    BY <1>6, <2>1 DEF WriteEmbeddings, PutVectors
<1> QED
  BY <1>1, <1>2, <1>3, <1>4, <1>5, <1>6 DEF Transaction

(* A call that writes an embedder has no batch after it. *)
LEMMA ApplyEnds ==
  ASSUME ProcTypeOK, NEW p \in Procs, Apply(p)
  PROVE  pc'[p] \in {"refresh", "idle", "closed"} /\ job'[p] = NoJob
<1> USE DEF ProcTypeOK, Goto
<1>1. CASE Seed(p) \/ OpenSwitch(p) \/ ApplySwitch(p) \/ ApplyReembed(p)
  BY <1>1 DEF Seed, OpenSwitch, ApplySwitch, ApplyReembed
<1>2. CASE ApplySameModel(p)
  BY <1>2 DEF ApplySameModel
<1>3. CASE ProbeFails(p)
  BY <1>3 DEF ProbeFails
<1> QED
  BY <1>1, <1>2, <1>3 DEF Apply, ApplyProbed

(* The generation a call holds is the one it was given, that of the store  *)
(* as its batch begins, or zero.                                           *)
LEMMA BatchGeneration ==
  ASSUME TypeInv, NEW p \in Procs, Step(p)
  PROVE  \/ job'[p].gen = job[p].gen
         \/ job'[p].gen = 0
         \/ generation' = generation /\ job'[p].gen = generation
<1> USE DEF TypeInv, ProcTypeOK, Job, NoJob, TargetJob, EmbedJob
<1>1. CASE Open(p)
  BY <1>1 DEF Open, OpenStored, OpenWithoutDense, OpenFresh, OpenSwitching, OpenFollowing
<1>2. CASE Call(p)
  BY <1>2 DEF Call, Read, Ingest, Discard, BeginSetEmbedder, BeginReembed, BeginDrain
<1>3. CASE Apply(p)
  BY <1>3, ApplyEnds
<1>4. CASE Continue(p)
  <2>1. CASE BeginBatch(p)
    BY <2>1 DEF BeginBatch, storeVars
  <2>2. CASE BatchWritten(p)
    BY <2>2 DEF BatchWritten
  <2> QED
    BY <1>4, <2>1, <2>2 DEF Continue, ReadGeneration, Follow, EmbedBatch, BatchRefused,
                            LoadVectors
<1>5. CASE EmbedFails(p) \/ Close(p)
  BY <1>5 DEF EmbedFails, Close
<1> QED
  BY <1>1, <1>2, <1>3, <1>4, <1>5 DEF Step

(* A process comes to its write with a batch of the turns as they are, and *)
(* stays there until it writes.                                            *)
LEMMA BatchIsRead ==
  ASSUME TypeInv, NEW p \in Procs, Step(p), At(p, "write")'
  PROVE  /\ UNCHANGED storeVars
         /\ \A id \in DOMAIN rows'[p] : id \in DOMAIN turns /\ rows'[p][id] = turns[id]
<1> USE DEF TypeInv, ProcTypeOK, Goto, At
<1>1. EmbedBatch(p) /\ NextBatch(p) # {}
  <2>1. ~Open(p)
    BY DEF Open, OpenStored, OpenWithoutDense, OpenFresh, OpenSwitching, OpenFollowing
  <2>2. ~Call(p)
    BY DEF Call, Read, Ingest, Discard, BeginSetEmbedder, BeginReembed, BeginDrain
  <2>3. ~Apply(p)
    <3> SUFFICES ASSUME Apply(p) PROVE FALSE
      OBVIOUS
    <3>1. pc'[p] \in {"refresh", "idle", "closed"}
      BY ApplyEnds
    <3> QED
      BY <3>1
  <2>4. Continue(p) => EmbedBatch(p)
    <3>1. Follow(p) => pc'[p] \in {"batch", "load", "refresh"}
      BY DEF Follow, AfterFollow
    <3>2. ~ReadGeneration(p) /\ ~BeginBatch(p) /\ ~LoadVectors(p)
      BY DEF ReadGeneration, BeginBatch, LoadVectors
    <3>3. BatchWritten(p) => pc'[p] \in {"batch", "load"}
      BY DEF BatchWritten
    <3>4. ~BatchRefused(p)
      BY DEF BatchRefused
    <3> QED
      BY <3>1, <3>2, <3>3, <3>4 DEF Continue
  <2>5. ~EmbedFails(p) /\ ~Close(p)
    BY DEF EmbedFails, Close
  <2>6. EmbedBatch(p)
    BY <2>1, <2>2, <2>3, <2>4, <2>5 DEF Step
  <2> QED
    BY <2>6 DEF EmbedBatch
<1>2. rows'[p] = Restrict(turns, NextBatch(p))
  BY <1>1 DEF EmbedBatch
<1>3. /\ DOMAIN Restrict(turns, NextBatch(p)) = NextBatch(p)
      /\ \A id \in NextBatch(p) : Restrict(turns, NextBatch(p))[id] = turns[id]
  BY BatchRowsType, NextBatchOfTurns
<1>4. NextBatch(p) \in SUBSET DOMAIN turns
  BY NextBatchOfTurns
<1> QED
  BY <1>1, <1>2, <1>3, <1>4 DEF EmbedBatch

(* Every step keeps the batches that are out made of the turns their rows  *)
(* held while the generation stands.                                       *)
LEMMA StepKeepsBatches ==
  ASSUME TypeInv, BatchOfItsTurns, NEW p \in Procs, Step(p)
  PROVE  BatchOfItsTurns'
<1>1. /\ generation \in Nat /\ generation' \in Nat
      /\ generation <= generation'
      /\ generation' = generation =>
           \A id \in DOMAIN turns : id \in DOMAIN turns' /\ turns'[id] = turns[id]
  BY StepIsTransaction, TurnsStay DEF TypeInv
<1> SUFFICES ASSUME NEW q \in Procs
             PROVE  /\ job'[q].gen <= generation'
                    /\ At(q, "write")' /\ job'[q].gen = generation' =>
                         \A id \in DOMAIN rows'[q] :
                           id \in DOMAIN turns' /\ rows'[q][id] = turns'[id]
  BY DEF BatchOfItsTurns, At
<1>2. job[q].gen <= generation /\ job[q].gen \in Nat
  BY DEF BatchOfItsTurns, TypeInv, ProcTypeOK, Job
<1>3. CASE q = p
  <2>1. job'[q].gen <= generation'
    BY <1>1, <1>2, <1>3, BatchGeneration
  <2>2. ASSUME At(q, "write")'
        PROVE  \A id \in DOMAIN rows'[q] :
                 id \in DOMAIN turns' /\ rows'[q][id] = turns'[id]
    <3>1. /\ UNCHANGED storeVars
          /\ \A id \in DOMAIN rows'[p] : id \in DOMAIN turns /\ rows'[p][id] = turns[id]
      BY <1>3, <2>2, BatchIsRead
    <3> QED
      BY <1>3, <3>1 DEF storeVars
  <2> QED
    BY <2>1, <2>2
<1>4. CASE q # p
  <2>1. pc'[q] = pc[q] /\ job'[q] = job[q] /\ rows'[q] = rows[q]
    BY <1>4, OthersStay DEF TypeInv
  <2>2. job'[q].gen <= generation'
    BY <1>1, <1>2, <2>1
  <2>3. ASSUME At(q, "write")', job'[q].gen = generation'
        PROVE  \A id \in DOMAIN rows'[q] :
                 id \in DOMAIN turns' /\ rows'[q][id] = turns'[id]
    <3>1. generation' = generation /\ job[q].gen = generation /\ At(q, "write")
      BY <1>1, <1>2, <2>1, <2>3 DEF At
    <3>2. \A id \in DOMAIN rows[q] : id \in DOMAIN turns /\ rows[q][id] = turns[id]
      BY <3>1 DEF BatchOfItsTurns
    <3> QED
      BY <1>1, <2>1, <3>1, <3>2
  <2> QED
    BY <2>2, <2>3
<1> QED
  BY <1>3, <1>4

VectorInv == TypeInv /\ BatchOfItsTurns /\ VectorsOfTheirTurn

(* The store begins with the invariant.                                    *)
LEMMA InitVectorInv == Init => VectorInv
<1> SUFFICES ASSUME Init PROVE VectorInv
  OBVIOUS
<1>1. VectorsOfTheirTurn
  BY DEF Init, StoreInit, VectorsOfTheirTurn, EmptyFn
<1>2. BatchOfItsTurns
  BY DEF Init, StoreInit, BatchOfItsTurns, At, NoJob, TargetJob
<1> QED
  BY <1>1, <1>2, InitTypeInv DEF VectorInv

(* Every step keeps it.                                                    *)
LEMMA NextKeepsVectorInv ==
  ASSUME VectorInv, [Next]_vars
  PROVE  VectorInv'
<1>1. ASSUME NEW p \in Procs, Step(p)
      PROVE  VectorInv'
  <2>1. Transaction
    BY <1>1, StepIsTransaction DEF VectorInv, TypeInv
  <2> QED
    BY <1>1, <2>1, StepKeepsTypeInv, StepKeepsBatches, TransactionKeepsVectors DEF VectorInv
<1>2. CASE UNCHANGED vars
  <2>1. TypeInv'
    BY <1>2, StutterKeepsTypeInv DEF VectorInv
  <2> QED
    BY <1>2, <2>1 DEF vars, VectorInv, BatchOfItsTurns, VectorsOfTheirTurn, At
<1> QED
  BY <1>1, <1>2 DEF Next

(* Whatever is deleted, cleared and said again while model calls are out,  *)
(* no vector is stored for a turn it was not made from: the invariant of   *)
(* the argument above, and what it protects.                               *)
THEOREM VectorsAreOfTheirTurns == Spec => []VectorsOfTheirTurn
<1>1. VectorInv => VectorsOfTheirTurn
  BY DEF VectorInv
<1> QED
  BY <1>1, InitVectorInv, NextKeepsVectorInv, PTL DEF Spec

(***************************************************************************)
(* Vectors of one model: in the store, once its first embedder is recorded,*)
(* and in every index.                                                     *)
(***************************************************************************)

(* No process is about to record a first embedder. *)
Seeded == stored # NoModel /\ \A p \in Procs : ~At(p, "seed")

(* Once an embedder is recorded and no process is about to record a first  *)
(* one, none ever is.                                                      *)
LEMMA StepKeepsSeeded ==
  ASSUME TypeInv, Seeded, NEW p \in Procs, Step(p)
  PROVE  Seeded'
<1>1. stored' # NoModel
  BY StepIsTransaction, StoredStays DEF TypeInv, Seeded
<1>2. pc'[p] # "seed"
  <2> USE DEF TypeInv, ProcTypeOK, Goto, At
  <2>1. CASE Open(p)
    BY <2>1 DEF Open, OpenStored, OpenWithoutDense, OpenFresh, OpenSwitching, OpenFollowing, Seeded
  <2>2. CASE Call(p)
    BY <2>2 DEF Call, Read, Ingest, Discard, BeginSetEmbedder, BeginReembed, BeginDrain
  <2>3. CASE Apply(p)
    <3>1. pc'[p] \in {"refresh", "idle", "closed"}
      BY <2>3, ApplyEnds
    <3> QED
      BY <3>1
  <2>4. CASE Continue(p)
    <3>1. Follow(p) => pc'[p] \in {"batch", "load", "refresh"}
      BY DEF Follow, AfterFollow
    <3> QED
      BY <2>4, <3>1 DEF Continue, ReadGeneration, BeginBatch, EmbedBatch, BatchWritten,
                        BatchRefused, LoadVectors
  <2>5. CASE EmbedFails(p) \/ Close(p)
    BY <2>5 DEF EmbedFails, Close
  <2> QED
    BY <2>1, <2>2, <2>3, <2>4, <2>5 DEF Step
<1> SUFFICES ASSUME NEW q \in Procs PROVE pc'[q] # "seed"
  BY <1>1 DEF Seeded, At
<1>3. q # p => pc'[q] = pc[q]
  BY OthersStay DEF TypeInv
<1> QED
  BY <1>2, <1>3 DEF Seeded, At

(* Every step keeps the vectors those of the recorded embedder, in a store *)
(* that has one.                                                           *)
LEMMA StepKeepsEmbedder ==
  ASSUME TypeInv, Seeded, VectorsOfTheEmbedder, NEW p \in Procs, Step(p)
  PROVE  VectorsOfTheEmbedder'
<1> USE DEF VectorsOfTheEmbedder
<1>1. Transaction
  BY StepIsTransaction DEF TypeInv
<1>2. CASE UNCHANGED storeVars
  BY <1>2 DEF storeVars
<1>3. CASE \E m \in Models : SwitchEmbedder(m)
  BY <1>3 DEF SwitchEmbedder, EmptyFn
<1>4. ASSUME NEW t \in Texts, NEW m \in Models \cup {NoModel}, InsertTurn(t, m)
      PROVE  VectorsOfTheEmbedder'
  BY <1>4 DEF InsertTurn, PutVectors, storeVars
<1>5. ASSUME NEW s \in Sessions, DeleteSession(s)
      PROVE  VectorsOfTheEmbedder'
  BY <1>5 DEF DeleteSession, Restrict, storeVars
<1>6. CASE RebuildDerived \/ DropVectors \/ ForgetEverything
  BY <1>6 DEF RebuildDerived, DropVectors, ForgetEverything, EmptyFn
<1>7. ASSUME NEW q \in Procs, WriteEmbeddings(rows[q], spec[q], job[q].gen)
      PROVE  VectorsOfTheEmbedder'
  BY <1>7 DEF WriteEmbeddings, EmbedderMoved, PutVectors
<1> QED
  BY <1>1, <1>2, <1>3, <1>4, <1>5, <1>6, <1>7 DEF Transaction, Seeded

(* In a store whose first embedder was recorded before any process races to*)
(* record one, every vector is of the recorded embedder's model.           *)
THEOREM VectorsAreOfTheEmbedder == SeededSpec => []VectorsOfTheEmbedder
<1> DEFINE Inv == Seeded /\ VectorsOfTheEmbedder
<1>1. SeededInit => Inv
  BY NoModelAssumption
     DEF SeededInit, Init, StoreInit, Seeded, VectorsOfTheEmbedder, EmptyFn, At
<1>2. TypeInv /\ Inv /\ [Next]_vars => Inv'
  <2>1. ASSUME TypeInv, Inv, NEW p \in Procs, Step(p)
        PROVE  Inv'
    BY <2>1, StepKeepsSeeded, StepKeepsEmbedder
  <2>2. ASSUME Inv, UNCHANGED vars
        PROVE  Inv'
    BY <2>2 DEF vars, Seeded, VectorsOfTheEmbedder, At
  <2> QED
    BY <2>1, <2>2 DEF Next
<1>3. Inv => VectorsOfTheEmbedder
  OBVIOUS
<1>4. SeededSpec => Spec
  BY DEF SeededSpec, SeededInit, Spec
<1> HIDE DEF Inv
<1> QED
  BY <1>1, <1>2, <1>3, <1>4, TypeInvariant, PTL DEF SeededSpec

(* Every step keeps each index to the model its process follows.           *)
LEMMA StepKeepsIndexModel ==
  ASSUME TypeInv, IndexOfOneModel, NEW p \in Procs, Step(p)
  PROVE  \A id \in DOMAIN index'[p] : index'[p][id].model = spec'[p]
<1>1. ProcTypeOK /\ \A id \in DOMAIN index[p] : index[p][id].model = spec[p]
  BY DEF TypeInv, IndexOfOneModel
<1> USE <1>1 DEF ProcTypeOK
<1>2. ASSUME index'[p] = EmptyFn
      PROVE  \A id \in DOMAIN index'[p] : index'[p][id].model = spec'[p]
  BY <1>2 DEF EmptyFn
<1>3. Open(p) => (index' = index /\ spec' = spec) \/ index'[p] = EmptyFn
  BY DEF Open, OpenStored, OpenWithoutDense, OpenFresh, OpenSwitching, OpenFollowing, Install
<1>4. Call(p) => index' = index /\ spec' = spec
  BY DEF Call, Read, Ingest, Discard, BeginSetEmbedder, BeginReembed, BeginDrain
<1>5. Apply(p) => (index' = index /\ spec' = spec) \/ index'[p] = EmptyFn
  <2>1. CASE Seed(p) \/ OpenSwitch(p) \/ ApplySwitch(p) \/ ApplyReembed(p)
    BY <2>1 DEF Seed, OpenSwitch, ApplySwitch, ApplyReembed, Install
  <2>2. CASE ApplySameModel(p) \/ ProbeFails(p)
    BY <2>2 DEF ApplySameModel, ProbeFails, Install
  <2> QED
    BY <2>1, <2>2 DEF Apply, ApplyProbed
<1>6. ReadGeneration(p) => spec' = spec /\ (index' = index \/ index'[p] = EmptyFn)
  BY DEF ReadGeneration
<1>7. Follow(p) => (index' = index /\ spec' = spec) \/ index'[p] = EmptyFn
  BY DEF Follow, FollowStore, Install
<1>8. BeginBatch(p) \/ EmbedBatch(p) \/ BatchWritten(p) \/ BatchRefused(p) \/ EmbedFails(p)
        => index' = index /\ spec' = spec
  BY DEF BeginBatch, EmbedBatch, BatchWritten, BatchRefused, EmbedFails
<1>9. Close(p) => index'[p] = EmptyFn
  BY DEF Close
<1>10. ASSUME LoadVectors(p)
       PROVE  \A id \in DOMAIN index'[p] : index'[p][id].model = spec'[p]
  <2> DEFINE new == IF spec[p] = NoModel THEN {} ELSE VectorsAfter(seenSeq[p], spec[p])
  <2>1. \A id \in new : vecs[id].model = spec[p]
    BY DEF VectorsAfter
  <2>2. index' = [index EXCEPT ![p] =
            [id \in DOMAIN index[p] \cup new |->
               IF id \in new THEN [model |-> vecs[id].model, text |-> vecs[id].text]
                             ELSE index[p][id]]]
        /\ spec' = spec
    BY <1>10 DEF LoadVectors
  <2> HIDE DEF new
  <2> QED
    BY <2>1, <2>2
<1> QED
  BY <1>2, <1>3, <1>4, <1>5, <1>6, <1>7, <1>8, <1>9, <1>10 DEF Step, Continue

(* Every vector in an index is of the model its process follows, whatever  *)
(* is switched and followed while it loads.                                *)
THEOREM IndexesAreOfOneModel == Spec => []IndexOfOneModel
<1>1. Init => IndexOfOneModel
  BY DEF Init, IndexOfOneModel, EmptyFn
<1>2. TypeInv /\ IndexOfOneModel /\ [Next]_vars => IndexOfOneModel'
  <2>1. ASSUME TypeInv, IndexOfOneModel, NEW p \in Procs, Step(p)
        PROVE  IndexOfOneModel'
    <3>1. \A q \in Procs : q # p => index'[q] = index[q] /\ spec'[q] = spec[q]
      BY <2>1, OthersStay DEF TypeInv
    <3>2. \A id \in DOMAIN index'[p] : index'[p][id].model = spec'[p]
      BY <2>1, StepKeepsIndexModel
    <3> QED
      BY <2>1, <3>1, <3>2 DEF IndexOfOneModel
  <2>2. ASSUME IndexOfOneModel, UNCHANGED vars
        PROVE  IndexOfOneModel'
    BY <2>2 DEF vars, IndexOfOneModel
  <2> QED
    BY <2>1, <2>2 DEF Next
<1> QED
  BY <1>1, <1>2, TypeInvariant, PTL DEF Spec

=============================================================================
