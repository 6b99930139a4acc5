-------------------------- MODULE ZeroMemSeeded_proofs --------------------------
(***************************************************************************)
(* Theorems about ZeroMem over a store whose first embedder was recorded   *)
(* before any process began, for any number of processes, texts and models:*)
(* whom a process follows, what its index holds, and that all processes    *)
(* together keep the promise of EmbeddingPromise.                          *)
(*                                                                         *)
(* The argument of the first two: while the generation a process has seen  *)
(* is the store's, no vector was taken away and the embedder is the same,  *)
(* and a vector that was written since has a larger sequence number than   *)
(* any the process has seen (WhileTheGenerationStands). Of the third:      *)
(* every transaction is a step of the promise, as the vectors are of their *)
(* turns and a batch is too, when it is written (TransactionKeepsPromise). *)
(***************************************************************************)
EXTENDS MCZeroMem, ZeroMem_proofs

(* A process that is not open has seen nothing and follows nobody; one that*)
(* is has seen no generation to come, and without dense follows nobody.    *)
SeenInTime(p) ==
  /\ seenGen[p] <= generation
  /\ pc[p] \in {"closed", "seed", "switch"} => seenGen[p] = -1 /\ spec[p] = NoModel
  /\ ~dense[p] => spec[p] = NoModel
  /\ At(p, "switch") => dense[p]

(* FollowsTheStore, between any two statements but the one where a process *)
(* that saw the generation move has yet to look.                           *)
Follows(p) ==
  ~At(p, "follow") /\ dense[p] /\ seenGen[p] = generation => spec[p] = stored

FollowInv == Seeded /\ \A p \in Procs : SeenInTime(p) /\ Follows(p)

(* What a transaction can do that leaves the generation: add vectors under *)
(* the next sequence number.                                               *)
VectorsAdded ==
  /\ stored' = stored
  /\ nextSeq <= nextSeq'
  /\ DOMAIN vecs \subseteq DOMAIN vecs'
  /\ \A id \in DOMAIN vecs' :
       \/ id \in DOMAIN vecs /\ vecs'[id] = vecs[id]
       \/ vecs'[id].seq = nextSeq

(* The generation never falls, and while it stands the embedder is the same*)
(* and no vector is taken away.                                            *)
LEMMA WhileTheGenerationStands ==
  ASSUME StoreInv, Transaction, Seeded
  PROVE  /\ generation \in Nat /\ generation' \in Nat
         /\ generation <= generation'
         /\ generation' = generation => VectorsAdded
<1>1. /\ generation \in Nat /\ generation' \in Nat /\ generation <= generation'
  BY TurnsStay
<1>2. nextSeq \in Nat
  BY DEF StoreInv, StoreTypeOK
<1> SUFFICES ASSUME generation' = generation PROVE VectorsAdded
  BY <1>1
<1>3. ASSUME UNCHANGED <<stored, vecs, nextSeq>>
      PROVE  VectorsAdded
  BY <1>2, <1>3 DEF VectorsAdded
<1>4. ASSUME NEW held, NEW model, PutVectors(held, model), stored' = stored
      PROVE  VectorsAdded
  BY <1>2, <1>4 DEF VectorsAdded, PutVectors
<1>5. CASE UNCHANGED storeVars
  BY <1>3, <1>5 DEF storeVars
<1>6. ~ \E m \in Models : SwitchEmbedder(m)
  BY <1>1 DEF SwitchEmbedder, BumpGeneration
<1>7. ASSUME NEW t \in Texts, NEW m \in Models \cup {NoModel}, InsertTurn(t, m)
      PROVE  VectorsAdded
  BY <1>3, <1>4, <1>7 DEF InsertTurn, storeVars
<1>8. ASSUME NEW s \in Sessions, DeleteSession(s)
      PROVE  VectorsAdded
  BY <1>1, <1>3, <1>8 DEF DeleteSession, BumpGeneration, storeVars
<1>9. ~(RebuildDerived \/ DropVectors \/ ForgetEverything)
  BY <1>1 DEF RebuildDerived, DropVectors, ForgetEverything, BumpGeneration
<1>10. ASSUME NEW q \in Procs, WriteEmbeddings(rows[q], spec[q], job[q].gen)
       PROVE  VectorsAdded
  BY <1>4, <1>10 DEF WriteEmbeddings
<1> QED
  BY <1>5, <1>6, <1>7, <1>8, <1>9, <1>10 DEF Transaction, Seeded

(***************************************************************************)
(* Whom a process follows.                                                 *)
(***************************************************************************)

(* A process that opens has seen nothing.                                  *)
LEMMA OpenKeepsFollowing ==
  ASSUME TypeInv, NEW p \in Procs, Open(p), SeenInTime(p), Seeded
  PROVE  seenGen'[p] = -1 /\ generation' = generation /\ SeenInTime(p)'
<1> USE DEF TypeInv, ProcTypeOK, StoreInv, StoreTypeOK, SeenInTime, Goto, At, storeVars, Seeded
<1>1. CASE OpenWithoutDense(p)
  BY <1>1 DEF OpenWithoutDense
<1>2. ASSUME NEW m \in Models, OpenSwitching(p, m)
      PROVE  seenGen'[p] = -1 /\ generation' = generation /\ SeenInTime(p)'
  BY <1>2 DEF OpenSwitching
<1>3. ASSUME NEW built \in BOOLEAN, OpenFollowing(p, built)
      PROVE  seenGen'[p] = -1 /\ generation' = generation /\ SeenInTime(p)'
  BY <1>3 DEF OpenFollowing, Install
<1>4. ~ \E m \in Models : OpenFresh(p, m)
  BY DEF OpenFresh
<1> QED
  BY <1>1, <1>2, <1>3, <1>4 DEF Open, OpenStored

(* A call leaves its process following whom it followed.                   *)
LEMMA CallKeepsFollowing ==
  ASSUME TypeInv, NEW p \in Procs, Call(p)
  PROVE  /\ UNCHANGED <<dense, spec, seenGen>>
         /\ At(p, "idle") /\ pc'[p] \notin {"closed", "seed", "switch"}
BY DEF TypeInv, ProcTypeOK, Goto, At, Call, Read, Ingest, Discard, BeginSetEmbedder,
       BeginReembed, BeginDrain

(* An embedder that is written is followed, or moves the generation past   *)
(* what its process has seen.                                              *)
LEMMA ApplyKeepsFollowing ==
  ASSUME TypeInv, NEW p \in Procs, Apply(p), SeenInTime(p), Follows(p), Seeded,
         generation \in Nat, generation' \in Nat, generation <= generation'
  PROVE  SeenInTime(p)' /\ Follows(p)'
<1> USE DEF TypeInv, ProcTypeOK, SeenInTime, Follows, Goto, At, Job, Seeded
<1>1. CASE OpenSwitch(p) \/ ApplySwitch(p)
  <2>1. Install(p, job[p].target, TRUE) /\ Goto(p, "refresh") /\ seenGen' = seenGen
    BY <1>1 DEF OpenSwitch, ApplySwitch
  <2>2. generation' = generation + 1
    BY <1>1 DEF OpenSwitch, ApplySwitch, SwitchEmbedder, BumpGeneration
  <2>3. dense'[p] = TRUE
    BY <1>1 DEF OpenSwitch, ApplySwitch
  <2> QED
    BY <2>1, <2>2, <2>3 DEF Install
<1>2. CASE ApplyReembed(p)
  BY <1>2 DEF ApplyReembed, DropVectors, BumpGeneration, Install
<1>3. CASE ApplySameModel(p)
  BY <1>3 DEF ApplySameModel, EmbedderMoved, Install, storeVars
<1>4. CASE ProbeFails(p)
  BY <1>4 DEF ProbeFails, storeVars
<1>5. ~Seed(p)
  BY DEF Seed
<1> QED
  BY <1>1, <1>2, <1>3, <1>4, <1>5 DEF Apply, ApplyProbed

(* The steps within a call: the embedder is looked at after the generation *)
(* moved, before anything else is done.                                    *)
LEMMA ContinueKeepsFollowing ==
  ASSUME TypeInv, NEW p \in Procs, Continue(p) \/ EmbedFails(p),
         SeenInTime(p), Follows(p)
  PROVE  SeenInTime(p)' /\ Follows(p)'
<1> USE DEF TypeInv, ProcTypeOK, SeenInTime, Follows, Goto, At, StoreInv, StoreTypeOK, storeVars
<1>1. CASE ReadGeneration(p)
  BY <1>1 DEF ReadGeneration
<1>2. CASE Follow(p)
  <2>1. CASE dense[p] /\ stored # spec[p]
    BY <1>2, <2>1 DEF Follow, FollowStore, Install, AfterFollow
  <2>2. CASE ~(dense[p] /\ stored # spec[p])
    BY <1>2, <2>2 DEF Follow, FollowStore, AfterFollow
  <2> QED
    BY <2>1, <2>2
<1>3. CASE BeginBatch(p) \/ EmbedBatch(p)
  BY <1>3 DEF BeginBatch, EmbedBatch
<1>4. CASE BatchWritten(p)
  BY <1>4 DEF BatchWritten, WriteEmbeddings
<1>5. CASE BatchRefused(p)
  BY <1>5 DEF BatchRefused
<1>6. CASE LoadVectors(p) \/ EmbedFails(p)
  BY <1>6 DEF LoadVectors, EmbedFails
<1> QED
  BY <1>1, <1>2, <1>3, <1>4, <1>5, <1>6 DEF Continue

(* Every step of one process keeps all of them following.                  *)
LEMMA StepKeepsFollowing ==
  ASSUME TypeInv, FollowInv, NEW p \in Procs, Step(p)
  PROVE  FollowInv'
<1>1. /\ generation \in Nat /\ generation' \in Nat
      /\ generation <= generation'
      /\ generation' = generation => VectorsAdded
  BY StepIsTransaction, WhileTheGenerationStands DEF TypeInv, FollowInv
<1>2. Seeded'
  BY StepKeepsSeeded DEF FollowInv
<1>3. SeenInTime(p) /\ Follows(p) /\ Seeded
  BY DEF FollowInv
<1>4. SeenInTime(p)' /\ Follows(p)'
  <2>1. CASE Open(p)
    <3>1. seenGen'[p] = -1 /\ generation' = generation /\ SeenInTime(p)'
      BY <1>3, <2>1, OpenKeepsFollowing
    <3> QED
      BY <1>1, <3>1 DEF Follows
  <2>2. CASE Call(p)
    <3>1. /\ UNCHANGED <<dense, spec, seenGen>>
          /\ At(p, "idle") /\ pc'[p] \notin {"closed", "seed", "switch"}
      BY <2>2, CallKeepsFollowing
    <3>2. generation' = generation => stored' = stored
      BY <1>1 DEF VectorsAdded
    <3>3. seenGen[p] \in Int
      BY DEF TypeInv, ProcTypeOK
    <3> QED
      BY <1>1, <1>3, <3>1, <3>2, <3>3 DEF SeenInTime, Follows, At
  <2>3. CASE Apply(p)
    BY <1>1, <1>3, <2>3, ApplyKeepsFollowing
  <2>4. CASE Continue(p) \/ EmbedFails(p)
    BY <1>3, <2>4, ContinueKeepsFollowing
  <2>5. CASE Close(p)
    BY <1>1, <2>5 DEF Close, SeenInTime, Follows, TypeInv, ProcTypeOK, Goto, At
  <2> QED
    BY <2>1, <2>2, <2>3, <2>4, <2>5 DEF Step
<1>5. ASSUME NEW q \in Procs, q # p
      PROVE  SeenInTime(q)' /\ Follows(q)'
  <2>1. /\ pc'[q] = pc[q] /\ dense'[q] = dense[q] /\ spec'[q] = spec[q]
        /\ seenGen'[q] = seenGen[q] /\ seenGen[q] \in Int
    BY <1>5, OthersStay DEF TypeInv, ProcTypeOK
  <2>2. SeenInTime(q) /\ Follows(q)
    BY DEF FollowInv
  <2>3. generation' = generation => stored' = stored
    BY <1>1 DEF VectorsAdded
  <2> QED
    BY <1>1, <2>1, <2>2, <2>3 DEF SeenInTime, Follows, At
<1> QED
  BY <1>2, <1>4, <1>5 DEF FollowInv

(* No process runs at the start.                                           *)
LEMMA InitFollowInv == SeededInit => FollowInv
BY NoModelAssumption DEF SeededInit, Init, StoreInit, FollowInv, Seeded, SeenInTime, Follows, At

(* A stuttering step keeps it.                                             *)
LEMMA StutterKeepsFollowing ==
  ASSUME FollowInv, UNCHANGED vars
  PROVE  FollowInv'
BY DEF vars, FollowInv, Seeded, SeenInTime, Follows, At

(* What both theorems rest on: the types, and whom each process follows.   *)
THEOREM FollowInvariant == SeededSpec => [](TypeInv /\ FollowInv)
<1>1. TypeInv /\ FollowInv /\ [Next]_vars => FollowInv'
  BY StepKeepsFollowing, StutterKeepsFollowing DEF Next
<1>2. SeededSpec => Spec
  BY DEF SeededSpec, SeededInit, Spec
<1> QED
  BY <1>1, <1>2, InitFollowInv, TypeInvariant, PTL DEF SeededSpec

(* A process between calls that has seen the current generation follows the*)
(* embedder the store records, whatever was switched, re-applied and failed*)
(* to be built on the way.                                                 *)
THEOREM ProcessesFollowTheStore == SeededSpec => []FollowsTheStore
<1>1. FollowInv => FollowsTheStore
  BY DEF FollowInv, Follows, FollowsTheStore, At
<1> QED
  BY <1>1, FollowInvariant, PTL

(***************************************************************************)
(* What an index holds.                                                    *)
(***************************************************************************)

(* IndexCurrent of one process.                                            *)
Current(p) ==
  seenGen[p] = generation =>
    /\ \A id \in DOMAIN index[p] :
         /\ id \in DOMAIN vecs
         /\ \/ vecs[id].seq > seenSeq[p]
            \/ index[p][id] = [model |-> vecs[id].model, text |-> vecs[id].text]
    /\ \A id \in DOMAIN vecs :
         vecs[id].model = spec[p] /\ vecs[id].seq <= seenSeq[p] => id \in DOMAIN index[p]

(* Numbers start from one, and a process has seen none that is yet to be   *)
(* given.                                                                  *)
SeqsSeen ==
  /\ nextSeq >= 1
  /\ \A id \in DOMAIN vecs : vecs[id].seq >= 1
  /\ \A p \in Procs : seenSeq[p] < nextSeq

ReaderInv == SeqsSeen /\ \A p \in Procs : Current(p)

Untouched(p) ==
  /\ index'[p] = index[p] /\ seenSeq'[p] = seenSeq[p]
  /\ spec'[p] = spec[p] /\ seenGen'[p] = seenGen[p]

Emptied(p) == index'[p] = EmptyFn /\ seenSeq'[p] = 0

(* A step leaves the index of its process as it was, or empties it, or     *)
(* loads it.                                                               *)
LEMMA StepOnIndex ==
  ASSUME TypeInv, NEW p \in Procs, Step(p)
  PROVE  Untouched(p) \/ Emptied(p) \/ LoadVectors(p)
<1> USE DEF TypeInv, ProcTypeOK, Untouched, Emptied
<1>1. CASE Open(p)
  BY <1>1 DEF Open, OpenStored, OpenWithoutDense, OpenFresh, OpenSwitching, OpenFollowing, Install
<1>2. CASE Call(p)
  BY <1>2 DEF Call, Read, Ingest, Discard, BeginSetEmbedder, BeginReembed, BeginDrain
<1>3. CASE Apply(p)
  <2>1. CASE Seed(p) \/ OpenSwitch(p) \/ ApplySwitch(p) \/ ApplyReembed(p)
    BY <2>1 DEF Seed, OpenSwitch, ApplySwitch, ApplyReembed, Install
  <2>2. CASE ApplySameModel(p) \/ ProbeFails(p)
    BY <2>2 DEF ApplySameModel, ProbeFails, Install
  <2> QED
    BY <1>3, <2>1, <2>2 DEF Apply, ApplyProbed
<1>4. CASE Continue(p)
  <2>1. CASE ReadGeneration(p)
    BY <2>1 DEF ReadGeneration
  <2>2. CASE Follow(p)
    BY <2>2 DEF Follow, FollowStore, Install
  <2>3. CASE BeginBatch(p) \/ EmbedBatch(p) \/ BatchWritten(p) \/ BatchRefused(p)
    BY <2>3 DEF BeginBatch, EmbedBatch, BatchWritten, BatchRefused
  <2> QED
    BY <1>4, <2>1, <2>2, <2>3 DEF Continue
<1>5. CASE EmbedFails(p) \/ Close(p)
  BY <1>5 DEF EmbedFails, Close
<1> QED
  BY <1>1, <1>2, <1>3, <1>4, <1>5 DEF Step

(* Transactions number their vectors from one.                             *)
LEMMA NumbersFromOne ==
  ASSUME TypeInv, SeqsSeen, Transaction
  PROVE  /\ nextSeq <= nextSeq' /\ nextSeq' \in Int
         /\ \A id \in DOMAIN vecs' : vecs'[id].seq >= 1
<1>1. nextSeq \in Nat /\ \A id \in DOMAIN vecs : vecs[id].seq \in Nat
  BY DEF TypeInv, StoreInv, StoreTypeOK, Vector
<1>2. ASSUME NEW held, NEW model, PutVectors(held, model)
      PROVE  nextSeq <= nextSeq' /\ nextSeq' \in Int /\ \A id \in DOMAIN vecs' : vecs'[id].seq >= 1
  BY <1>1, <1>2 DEF SeqsSeen, PutVectors
<1>3. ASSUME nextSeq' = nextSeq,
             \A id \in DOMAIN vecs' : id \in DOMAIN vecs /\ vecs'[id] = vecs[id]
      PROVE  nextSeq <= nextSeq' /\ nextSeq' \in Int /\ \A id \in DOMAIN vecs' : vecs'[id].seq >= 1
  BY <1>1, <1>3 DEF SeqsSeen
<1>4. CASE UNCHANGED storeVars \/ RebuildDerived
  BY <1>3, <1>4 DEF storeVars, RebuildDerived
<1>5. CASE \E m \in Models : SeedEmbedder(m) \/ SwitchEmbedder(m)
  BY <1>3, <1>5 DEF SeedEmbedder, SwitchEmbedder, EmptyFn
<1>6. CASE \E t \in Texts, m \in Models \cup {NoModel} : InsertTurn(t, m)
  BY <1>2, <1>3, <1>6 DEF InsertTurn, storeVars
<1>7. CASE \E s \in Sessions : DeleteSession(s)
  BY <1>3, <1>7 DEF DeleteSession, Restrict, storeVars
<1>8. CASE DropVectors \/ ForgetEverything
  BY <1>3, <1>8 DEF DropVectors, ForgetEverything, EmptyFn
<1>9. CASE \E q \in Procs : WriteEmbeddings(rows[q], spec[q], job[q].gen)
  BY <1>2, <1>9 DEF WriteEmbeddings
<1> QED
  BY <1>4, <1>5, <1>6, <1>7, <1>8, <1>9 DEF Transaction

(* What is loaded is numbered, and the largest number is kept.             *)
LEMMA LoadedSeqs ==
  ASSUME StoreInv, NEW seen \in Nat, seen < nextSeq, NEW new \in SUBSET DOMAIN vecs
  PROVE  LET top == Max({seen} \cup {vecs[id].seq : id \in new}) IN
         /\ top \in Nat /\ seen <= top /\ top < nextSeq
         /\ \A id \in new : vecs[id].seq <= top
<1> DEFINE S == {seen} \cup {vecs[id].seq : id \in new}
<1>1. nextSeq \in Nat /\ \A id \in new : vecs[id].seq \in Nat /\ vecs[id].seq < nextSeq
  BY DEF StoreInv, StoreTypeOK, SeqsBelowNext, Vector
<1>2. S \in SUBSET Nat /\ S # {} /\ \A x \in S : x <= nextSeq
  BY <1>1
<1>3. seen \in S /\ (\A id \in new : vecs[id].seq \in S) /\ \A x \in S : x < nextSeq
  BY <1>1
<1> HIDE DEF S
<1>4. Max(S) \in S /\ \A x \in S : x <= Max(S)
  BY <1>1, <1>2, MaxOfBounded
<1>5. /\ Max(S) \in Nat /\ seen <= Max(S) /\ Max(S) < nextSeq
      /\ \A id \in new : vecs[id].seq <= Max(S)
  BY <1>2, <1>3, <1>4
<1> QED
  BY <1>5 DEF S

(* A step keeps the numbers that were seen below the next one.             *)
LEMMA StepKeepsSeqs ==
  ASSUME TypeInv, SeqsSeen, NEW p \in Procs, Step(p)
  PROVE  SeqsSeen'
<1>1. /\ nextSeq <= nextSeq' /\ nextSeq' \in Int
      /\ \A id \in DOMAIN vecs' : vecs'[id].seq >= 1
  BY StepIsTransaction, NumbersFromOne DEF TypeInv
<1>2. nextSeq \in Nat /\ nextSeq >= 1 /\ \A q \in Procs : seenSeq[q] < nextSeq /\ seenSeq[q] \in Nat
  BY DEF TypeInv, StoreInv, StoreTypeOK, ProcTypeOK, SeqsSeen
<1>3. \A q \in Procs : q # p => seenSeq'[q] = seenSeq[q]
  BY OthersStay DEF TypeInv
<1>4. seenSeq'[p] < nextSeq'
  <2>1. CASE Untouched(p) \/ Emptied(p)
    BY <1>1, <1>2, <2>1 DEF Untouched, Emptied
  <2>2. CASE LoadVectors(p)
    <3> DEFINE new == IF spec[p] = NoModel THEN {} ELSE VectorsAfter(seenSeq[p], spec[p])
    <3>1. new \in SUBSET DOMAIN vecs
      BY DEF VectorsAfter
    <3>2. seenSeq'[p] = Max({seenSeq[p]} \cup {vecs[id].seq : id \in new}) /\ nextSeq' = nextSeq
      BY <2>2 DEF LoadVectors, TypeInv, ProcTypeOK, storeVars
    <3> HIDE DEF new
    <3> QED
      BY <1>2, <3>1, <3>2, LoadedSeqs DEF TypeInv
  <2> QED
    BY <2>1, <2>2, StepOnIndex
<1> QED
  BY <1>1, <1>2, <1>3, <1>4 DEF SeqsSeen

(* An index nobody touches stays current: a vector that is new, or replaced*)
(* another, has a number that was not seen.                                *)
LEMMA UntouchedStaysCurrent ==
  ASSUME TypeInv, FollowInv, SeqsSeen, Transaction, NEW q \in Procs, Current(q), Untouched(q)
  PROVE  Current(q)'
<1>1. /\ generation \in Nat /\ generation' \in Nat
      /\ generation <= generation'
      /\ generation' = generation => VectorsAdded
  BY WhileTheGenerationStands DEF TypeInv, FollowInv
<1>2. seenGen[q] <= generation /\ seenGen[q] \in Int
  BY DEF FollowInv, SeenInTime, TypeInv, ProcTypeOK
<1>3. seenSeq[q] < nextSeq /\ seenSeq[q] \in Nat /\ nextSeq \in Nat
  BY DEF SeqsSeen, TypeInv, ProcTypeOK, StoreInv, StoreTypeOK
<1> SUFFICES ASSUME seenGen'[q] = generation' PROVE Current(q)'
  BY DEF Current
<1>4. seenGen[q] = generation /\ VectorsAdded
  BY <1>1, <1>2 DEF Untouched
<1>5. ASSUME NEW id \in DOMAIN index'[q]
      PROVE  /\ id \in DOMAIN vecs'
             /\ \/ vecs'[id].seq > seenSeq'[q]
                \/ index'[q][id] = [model |-> vecs'[id].model, text |-> vecs'[id].text]
  BY <1>3, <1>4, <1>5 DEF Current, Untouched, VectorsAdded
<1>6. ASSUME NEW id \in DOMAIN vecs', vecs'[id].model = spec'[q], vecs'[id].seq <= seenSeq'[q]
      PROVE  id \in DOMAIN index'[q]
  <2>1. id \in DOMAIN vecs /\ vecs'[id] = vecs[id]
    <3>1. vecs'[id].seq # nextSeq
      BY <1>3, <1>6 DEF Untouched
    <3> QED
      BY <1>4, <1>6, <3>1 DEF VectorsAdded
  <2> QED
    BY <1>4, <1>6, <2>1 DEF Current, Untouched
<1> QED
  BY <1>5, <1>6 DEF Current

(* An index is current when it was loaded: all vectors are of the embedder *)
(* its process follows, so every one above the last number seen is taken.  *)
LEMMA LoadedIsCurrent ==
  ASSUME TypeInv, FollowInv, VectorsOfTheEmbedder, IndexOfOneModel, SeqsSeen,
         NEW p \in Procs, Current(p), LoadVectors(p)
  PROVE  Current(p)'
<1> DEFINE new == IF spec[p] = NoModel THEN {} ELSE VectorsAfter(seenSeq[p], spec[p])
           loaded == [id \in DOMAIN index[p] \cup new |->
                        IF id \in new THEN [model |-> vecs[id].model, text |-> vecs[id].text]
                                      ELSE index[p][id]]
           top == Max({seenSeq[p]} \cup {vecs[id].seq : id \in new})
<1>1. /\ index'[p] = loaded /\ seenSeq'[p] = top
      /\ At(p, "load") /\ UNCHANGED <<dense, spec, seenGen, vecs, generation, stored>>
  BY DEF LoadVectors, TypeInv, ProcTypeOK, storeVars
<1>2. new \in SUBSET DOMAIN vecs
  BY DEF VectorsAfter
<1>3. seenSeq[p] \in Nat /\ seenSeq[p] < nextSeq /\ \A id \in DOMAIN vecs : vecs[id].seq \in Nat
  BY DEF SeqsSeen, TypeInv, ProcTypeOK, StoreInv, StoreTypeOK, Vector
<1>4. top \in Nat /\ seenSeq[p] <= top /\ \A id \in new : vecs[id].seq <= top
  <2> HIDE DEF new
  <2> QED
    BY <1>2, <1>3, LoadedSeqs DEF TypeInv
<1> SUFFICES ASSUME seenGen[p] = generation PROVE Current(p)'
  BY <1>1 DEF Current
<1>5. CASE spec[p] = NoModel
  <2>1. DOMAIN index[p] = {} /\ DOMAIN loaded = {}
    BY <1>5, NoModelAssumption DEF IndexOfOneModel, TypeInv, ProcTypeOK, IndexEntry
  <2>2. \A id \in DOMAIN vecs : vecs[id].model # NoModel
    BY NoModelAssumption DEF TypeInv, StoreInv, StoreTypeOK, Vector
  <2> QED
    BY <1>1, <1>5, <2>1, <2>2 DEF Current
<1>6. CASE spec[p] # NoModel
  <2>1. spec[p] = stored
    BY <1>1, <1>6 DEF FollowInv, SeenInTime, Follows, At
  <2>2. \A id \in DOMAIN vecs : id \in new <=> vecs[id].seq > seenSeq[p]
    BY <1>6, <2>1 DEF VectorsOfTheEmbedder, VectorsAfter
  <2> HIDE DEF new, top
  <2>3. ASSUME NEW id \in DOMAIN loaded
        PROVE  /\ id \in DOMAIN vecs
               /\ loaded[id] = [model |-> vecs[id].model, text |-> vecs[id].text]
    BY <1>2, <1>3, <2>2, <2>3 DEF Current
  <2>4. ASSUME NEW id \in DOMAIN vecs, vecs[id].model = spec[p]
        PROVE  id \in DOMAIN loaded
    BY <1>3, <2>2, <2>4 DEF Current
  <2> HIDE DEF loaded
  <2> QED
    BY <1>1, <2>3, <2>4 DEF Current
<1> QED
  BY <1>5, <1>6

(* Every step keeps every index current.                                   *)
LEMMA StepKeepsReaders ==
  ASSUME TypeInv, FollowInv, VectorsOfTheEmbedder, IndexOfOneModel, ReaderInv,
         NEW p \in Procs, Step(p)
  PROVE  ReaderInv'
<1>1. Transaction
  BY StepIsTransaction DEF TypeInv
<1>2. SeqsSeen /\ \A q \in Procs : Current(q)
  BY DEF ReaderInv
<1>3. SeqsSeen'
  BY <1>2, StepKeepsSeqs
<1>4. Current(p)'
  <2>1. CASE Untouched(p)
    BY <1>1, <1>2, <2>1, UntouchedStaysCurrent
  <2>2. CASE Emptied(p)
    <3>1. \A id \in DOMAIN vecs' : vecs'[id].seq >= 1 /\ vecs'[id].seq \in Nat
      <4>1. StoreInv'
        BY <1>1, TransactionKeepsStore DEF TypeInv
      <4> QED
        BY <1>3, <4>1 DEF SeqsSeen, StoreInv, StoreTypeOK, Vector
    <3> QED
      BY <2>2, <3>1 DEF Emptied, Current, EmptyFn
  <2>3. CASE LoadVectors(p)
    BY <1>2, <2>3, LoadedIsCurrent
  <2> QED
    BY <2>1, <2>2, <2>3, StepOnIndex
<1>5. ASSUME NEW q \in Procs, q # p
      PROVE  Current(q)'
  <2>1. Untouched(q)
    BY <1>5, OthersStay DEF TypeInv, Untouched
  <2> QED
    BY <1>1, <1>2, <2>1, UntouchedStaysCurrent
<1> QED
  BY <1>3, <1>4, <1>5 DEF ReaderInv

(* An index at the current generation holds what the store holds, as far as*)
(* its process has read: it keeps no vector that is gone and has skipped   *)
(* none, whoever writes vectors and whenever.                              *)
THEOREM IndexesAreCurrent == SeededSpec => []IndexCurrent
<1>1. SeededInit => ReaderInv
  BY DEF SeededInit, Init, StoreInit, ReaderInv, SeqsSeen, Current, EmptyFn
<1>2. ASSUME TypeInv, FollowInv, VectorsOfTheEmbedder, IndexOfOneModel, ReaderInv, [Next]_vars
      PROVE  ReaderInv'
  <2>1. CASE UNCHANGED vars
    BY <1>2, <2>1 DEF vars, ReaderInv, SeqsSeen, Current
  <2> QED
    BY <1>2, <2>1, StepKeepsReaders DEF Next
<1>3. ReaderInv => IndexCurrent
  BY DEF ReaderInv, Current, IndexCurrent
<1>4. SeededSpec => Spec
  BY DEF SeededSpec, SeededInit, Spec
<1> QED
  BY <1>1, <1>2, <1>3, <1>4, FollowInvariant, VectorsAreOfTheEmbedder, IndexesAreOfOneModel, PTL
     DEF SeededSpec

(***************************************************************************)
(* The promise.                                                            *)
(***************************************************************************)

(* What a row of the two tables says, in the terms of the promise.         *)
LEMMA Embedded ==
  ASSUME VectorsOfTheirTurn
  PROVE  EmbeddedTexts = {turns[id] : id \in {i \in DOMAIN vecs : vecs[i].model = stored}}
BY DEF EmbeddedTexts, VectorsOfTheirTurn, Range

(* A turn that is inserted is said, with its vector or without.            *)
LEMMA InsertIsSay ==
  ASSUME TypeInv, VectorsOfTheirTurn, VectorsOfTheirTurn',
         NEW t \in Texts, NEW m \in Models \cup {NoModel}, InsertTurn(t, m), t \notin Range(turns)
  PROVE  Promise!Say(t)
<1>1. /\ NextRowId \notin DOMAIN turns
      /\ turns' = [id \in DOMAIN turns \cup {NextRowId} |->
                     IF id = NextRowId THEN t ELSE turns[id]]
      /\ UNCHANGED <<generation, stored>>
  BY NextRowIdIsNew DEF InsertTurn, TypeInv, StoreInv
<1>2. Range(turns') = Range(turns) \cup {t}
  BY <1>1 DEF Range
<1>3. \A id \in DOMAIN vecs : id \in DOMAIN turns /\ turns'[id] = turns[id]
  BY <1>1 DEF VectorsOfTheirTurn
<1>4. EmbeddedTexts = {turns[id] : id \in {i \in DOMAIN vecs : vecs[i].model = stored}}
  BY Embedded
<1>5. EmbeddedTexts' = {turns'[id] : id \in {i \in DOMAIN vecs' : vecs'[i].model = stored'}}
  BY DEF EmbeddedTexts, VectorsOfTheirTurn, Range
<1>6. CASE m # NoModel /\ stored = m
  <2>1. vecs' = [id \in DOMAIN vecs \cup {NextRowId} |->
                   IF id \in {NextRowId} THEN [seq |-> nextSeq, model |-> m, text |-> t]
                                        ELSE vecs[id]]
    BY <1>6 DEF InsertTurn, PutVectors
  <2>2. NextRowId \notin DOMAIN vecs
    BY <1>1, <1>3
  <2>3. {i \in DOMAIN vecs' : vecs'[i].model = stored'}
          = {i \in DOMAIN vecs : vecs[i].model = stored} \cup {NextRowId}
    BY <1>1, <1>6, <2>1, <2>2
  <2>4. EmbeddedTexts' = EmbeddedTexts \cup {t}
    BY <1>1, <1>3, <1>4, <1>5, <2>3
  <2> QED
    BY <1>1, <1>2, <1>6, <2>4 DEF Promise!Say
<1>7. CASE ~(m # NoModel /\ stored = m)
  <2>1. vecs' = vecs
    BY <1>7 DEF InsertTurn
  <2>2. EmbeddedTexts' = EmbeddedTexts
    BY <1>1, <1>3, <1>4, <1>5, <2>1
  <2> QED
    BY <1>1, <1>2, <2>2 DEF Promise!Say
<1> QED
  BY <1>6, <1>7

(* A session that is deleted is forgotten, with its vectors.               *)
LEMMA DeleteIsForget ==
  ASSUME TypeInv, VectorsOfTheirTurn, VectorsOfTheirTurn',
         NEW s \in Sessions, DeleteSession(s)
  PROVE  UNCHANGED storeVars \/ \E ts \in SUBSET Range(turns) : Promise!Forget(ts)
<1> DEFINE gone == {id \in DOMAIN turns : SessionOf[turns[id]] = s}
           ts == {t \in Range(turns) : SessionOf[t] = s}
<1>1. CASE gone = {}
  BY <1>1 DEF DeleteSession
<1>2. CASE gone # {}
  <2>1. /\ DOMAIN turns' = DOMAIN turns \ gone
        /\ \A id \in DOMAIN turns' : turns'[id] = turns[id]
        /\ DOMAIN vecs' = DOMAIN vecs \ gone
        /\ \A id \in DOMAIN vecs' : vecs'[id] = vecs[id]
        /\ generation' = generation + 1 /\ stored' = stored
    BY <1>2 DEF DeleteSession, BumpGeneration, Restrict
  <2>2. Range(turns') = Range(turns) \ ts
    BY <2>1 DEF Range
  <2>3. EmbeddedTexts = {turns[id] : id \in {i \in DOMAIN vecs : vecs[i].model = stored}}
    BY Embedded
  <2>4. EmbeddedTexts' = {turns'[id] : id \in {i \in DOMAIN vecs' : vecs'[i].model = stored'}}
    BY DEF EmbeddedTexts, VectorsOfTheirTurn, Range
  <2>5. \A id \in DOMAIN vecs : id \in DOMAIN turns /\ (id \in gone <=> turns[id] \in ts)
    BY DEF VectorsOfTheirTurn, Range
  <2>6. EmbeddedTexts' = EmbeddedTexts \ ts
    <3>1. ASSUME NEW t \in EmbeddedTexts' PROVE t \in EmbeddedTexts \ ts
      BY <2>1, <2>3, <2>4, <2>5, <3>1 DEF VectorsOfTheirTurn
    <3>2. ASSUME NEW t \in EmbeddedTexts, t \notin ts PROVE t \in EmbeddedTexts'
      BY <2>1, <2>3, <2>4, <2>5, <3>2 DEF VectorsOfTheirTurn
    <3> QED
      BY <3>1, <3>2
  <2>7. ts \in SUBSET Range(turns)
    OBVIOUS
  <2> QED
    BY <2>1, <2>2, <2>6, <2>7 DEF Promise!Forget
<1> QED
  BY <1>1, <1>2

(* A batch that is written embeds its turns: it holds the texts its rows   *)
(* still hold, and the vectors it replaces are of the same turns.          *)
LEMMA WriteIsEmbed ==
  ASSUME VectorsOfTheirTurn, VectorsOfTheirTurn', BatchOfItsTurns,
         NEW p \in Procs, At(p, "write"), spec[p] \in Models,
         WriteEmbeddings(rows[p], spec[p], job[p].gen)
  PROVE  \E ts \in SUBSET Range(turns) : Promise!Embed(ts)
<1> DEFINE ts == {turns[id] : id \in DOMAIN rows[p]}
<1>1. /\ stored = spec[p] /\ UNCHANGED <<turns, generation, stored>>
      /\ vecs' = [id \in DOMAIN vecs \cup DOMAIN rows[p] |->
                    IF id \in DOMAIN rows[p]
                    THEN [seq |-> nextSeq, model |-> spec[p], text |-> rows[p][id]]
                    ELSE vecs[id]]
  BY DEF WriteEmbeddings, EmbedderMoved, PutVectors
<1>2. \A id \in DOMAIN rows[p] : id \in DOMAIN turns /\ rows[p][id] = turns[id]
  BY DEF WriteEmbeddings, StoreMoved, BatchOfItsTurns
<1>3. EmbeddedTexts = {turns[id] : id \in {i \in DOMAIN vecs : vecs[i].model = stored}}
  BY Embedded
<1>4. EmbeddedTexts' = {turns'[id] : id \in {i \in DOMAIN vecs' : vecs'[i].model = stored'}}
  BY DEF EmbeddedTexts, VectorsOfTheirTurn, Range
<1>5. {i \in DOMAIN vecs' : vecs'[i].model = stored'}
        = {i \in DOMAIN vecs : vecs[i].model = stored} \cup DOMAIN rows[p]
  BY <1>1
<1>6. EmbeddedTexts' = EmbeddedTexts \cup ts
  BY <1>1, <1>3, <1>4, <1>5
<1>7. ts \in SUBSET Range(turns)
  BY <1>2 DEF Range
<1>8. stored # NoModel
  BY <1>1, NoModelAssumption
<1> QED
  BY <1>1, <1>6, <1>7, <1>8 DEF Promise!Embed

(* Whatever a transaction does is what the promise allows.                 *)
LEMMA TransactionKeepsPromise ==
  ASSUME TypeInv, VectorsOfTheirTurn, VectorsOfTheirTurn', BatchOfItsTurns, Seeded, Transaction
  PROVE  Promise!Next \/ UNCHANGED Promise!promiseVars
<1> USE DEF Promise!Next
<1>1. CASE UNCHANGED storeVars
  BY <1>1 DEF storeVars, Promise!promiseVars, EmbeddedTexts
<1>2. ASSUME vecs' = EmptyFn
      PROVE  EmbeddedTexts' = {}
  BY <1>2, EmptyFnHasNoRows DEF EmbeddedTexts
<1>3. ASSUME NEW m \in Models, SwitchEmbedder(m)
      PROVE  Promise!Next
  <2>1. Promise!Choose(m)
    BY <1>2, <1>3 DEF SwitchEmbedder, BumpGeneration, Promise!Choose
  <2> QED
    BY <2>1
<1>4. ASSUME NEW t \in Texts, NEW m \in Models \cup {NoModel}, InsertTurn(t, m)
      PROVE  Promise!Next \/ UNCHANGED storeVars
  BY <1>4, InsertIsSay DEF InsertTurn
<1>5. ASSUME NEW s \in Sessions, DeleteSession(s)
      PROVE  Promise!Next \/ UNCHANGED storeVars
  BY <1>5, DeleteIsForget
<1>6. CASE RebuildDerived
  <2>1. EmbeddedTexts' = EmbeddedTexts
    BY <1>6 DEF RebuildDerived, EmbeddedTexts
  <2>2. Promise!Forget({})
    BY <1>6, <2>1 DEF RebuildDerived, BumpGeneration, Promise!Forget
  <2> QED
    BY <2>2
<1>7. CASE DropVectors
  <2>1. Promise!DropAll
    BY <1>2, <1>7 DEF DropVectors, BumpGeneration, Promise!DropAll
  <2> QED
    BY <2>1
<1>8. CASE ForgetEverything
  <2>1. Range(turns') = {}
    BY <1>8, EmptyFnHasNoRows DEF ForgetEverything, Range
  <2>2. EmbeddedTexts' = {} /\ EmbeddedTexts \subseteq Range(turns)
    BY <1>2, <1>8 DEF ForgetEverything, EmbeddedTexts
  <2>3. Promise!Forget(Range(turns))
    BY <1>8, <2>1, <2>2 DEF ForgetEverything, BumpGeneration, Promise!Forget
  <2> QED
    BY <2>3
<1>9. ASSUME NEW p \in Procs, At(p, "write"), spec[p] \in Models,
             WriteEmbeddings(rows[p], spec[p], job[p].gen)
      PROVE  Promise!Next
  BY <1>9, WriteIsEmbed
<1> QED
  BY <1>1, <1>3, <1>4, <1>5, <1>6, <1>7, <1>8, <1>9 DEF Transaction, Seeded

(* However the processes interleave, no turn or good vector is lost or     *)
(* replaced by one of an abandoned model unless the generation moves: they *)
(* implement EmbeddingPromise.                                             *)
THEOREM ProcessesKeepThePromise == SeededSpec => KeepsPromise
<1> DEFINE Inv == Seeded /\ VectorInv
<1>1. SeededInit => Promise!Init
  <2> SUFFICES ASSUME SeededInit PROVE Promise!Init
    OBVIOUS
  <2>1. Range(turns) = {} /\ EmbeddedTexts = {}
    BY EmptyFnHasNoRows DEF SeededInit, Init, StoreInit, Range, EmbeddedTexts
  <2> QED
    BY <2>1 DEF SeededInit, Init, StoreInit, Promise!Init
<1>2. SeededInit => Inv
  BY InitVectorInv, InitFollowInv DEF FollowInv, SeededInit
<1>3. Inv /\ [Next]_vars => Inv'
  <2> SUFFICES ASSUME Inv, [Next]_vars PROVE Inv'
    OBVIOUS
  <2>1. VectorInv'
    BY NextKeepsVectorInv
  <2>2. ASSUME NEW p \in Procs, Step(p) PROVE Seeded'
    BY <2>2, StepKeepsSeeded DEF VectorInv
  <2>3. ASSUME UNCHANGED vars PROVE Seeded'
    BY <2>3 DEF vars, Seeded, At
  <2> QED
    BY <2>1, <2>2, <2>3 DEF Next
<1>4. Inv /\ Inv' /\ [Next]_vars => [Promise!Next]_Promise!promiseVars
  <2> SUFFICES ASSUME Inv, Inv', [Next]_vars PROVE [Promise!Next]_Promise!promiseVars
    OBVIOUS
  <2>1. ASSUME NEW p \in Procs, Step(p)
        PROVE  Promise!Next \/ UNCHANGED Promise!promiseVars
    <3>1. Transaction
      BY <2>1, StepIsTransaction DEF VectorInv, TypeInv
    <3> QED
      BY <3>1, TransactionKeepsPromise DEF VectorInv
  <2>2. CASE UNCHANGED vars
    BY <2>2 DEF vars, Promise!promiseVars, EmbeddedTexts
  <2> QED
    BY <2>1, <2>2 DEF Next
<1> QED
  BY <1>1, <1>2, <1>3, <1>4, PTL DEF SeededSpec, KeepsPromise, Promise!Spec
=================================================================================
