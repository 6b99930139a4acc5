---------------------------- MODULE Workers_proofs -----------------------------
(***************************************************************************)
(* Theorems about the parts of the run of MCWorkers: the embed worker, the *)
(* breaker, the curator settings and the token gate, one after another, and*)
(* of the four together.                                                   *)
(***************************************************************************)
EXTENDS MCWorkers, TLAPS


(***************************************************************************)
(* The worker keeps its types and never sleeps on a kick, for any number of*)
(* callers, any batch and any backlog.                                     *)
(***************************************************************************)

(* What the types and the sleep rest on: within a pass fewer readings than *)
(* end it have not fallen; a kick no pass has answered is kept for the next*)
(* sleep, or has woken the loop already.                                   *)
PassNotStalled == pc \notin {"asleep", "woken", "done"} => stalled < MaxStalled
KickKept == unanswered => kicked \/ pc = "woken"
DoneIsStopped == pc \in {"off", "done"} => stopped

WorkerInv == TypeOK /\ PassNotStalled /\ KickKept /\ DoneIsStopped /\ SleepsOnNoKick

(* The invariant holds before the loop starts. *)
LEMMA InitWorkerInv == Init => WorkerInv
<1> SUFFICES ASSUME Init PROVE WorkerInv
  OBVIOUS
<1>1. TypeOK
  <2> USE DEF Init
  <2>1. arrivals \in 0..MaxArrivals /\ before \in 0..MaxBacklog /\ stalled \in 0..MaxStalled
    BY WorkerAssumption
  <2>2. at \in [Drainers -> {"out", "reading", "settling"}]
    OBVIOUS
  <2> QED
    BY <2>1, <2>2 DEF TypeOK
<1>2. PassNotStalled
  BY WorkerAssumption DEF Init, PassNotStalled
<1> QED
  BY <1>1, <1>2 DEF Init, WorkerInv, KickKept, DoneIsStopped, SleepsOnNoKick

USE DEF NoAnswer, Failure

(* A pass that ends leaves nothing unkept: a kick wakes the loop at once.  *)
LEMMA EndPassKeeps ==
  ASSUME WorkerInv, EndPass, UNCHANGED unanswered,
         pc \notin {"off", "asleep", "woken", "done"}
  PROVE  /\ pc' \in {"asleep", "woken"} /\ answer' = answer
         /\ draining' \in BOOLEAN /\ kicked' \in BOOLEAN /\ waiters' = {}
         /\ KickKept' /\ SleepsOnNoKick'
BY DEF EndPass, Sleep, WorkerInv, TypeOK, KickKept, SleepsOnNoKick

(* So does one that goes on to the next batch. *)
LEMMA NextBatchKeeps ==
  ASSUME WorkerInv, NEW left \in 0..MaxBacklog, NextBatch(left), UNCHANGED unanswered,
         pc \in {"reading", "yielding"}
  PROVE  /\ pc' \in {"embedding", "asleep", "woken"}
         /\ answer' \in {NoAnswer, answer}
         /\ draining' \in BOOLEAN /\ kicked' \in BOOLEAN
         /\ waiters' \subseteq Drainers
         /\ KickKept' /\ SleepsOnNoKick'
<1>1. CASE ~stopped /\ left > 0
  BY <1>1 DEF NextBatch, Call, WorkerInv, TypeOK, KickKept, SleepsOnNoKick
<1>2. CASE ~(~stopped /\ left > 0)
  BY <1>2, EndPassKeeps DEF NextBatch, WorkerInv, TypeOK
<1> QED
  BY <1>1, <1>2

(* Every step of the loop keeps the invariant. *)
LEMMA LoopStepKeeps ==
  ASSUME WorkerInv, LoopStep
  PROVE  WorkerInv'
<1> USE DEF WorkerInv
<1>0. UNCHANGED <<backlog, arrivals, stopped, at>>
  BY DEF LoopStep, store, Pass
<1>1. CASE AfterRead /\ UNCHANGED unanswered
  <2>1. answer \in 0..MaxBacklog
    BY <1>1 DEF AfterRead, TypeOK
  <2> QED
    BY <1>0, <1>1, <2>1, NextBatchKeeps
       DEF AfterRead, TypeOK, PassNotStalled, DoneIsStopped
<1>2. CASE AfterBatch /\ UNCHANGED unanswered
  <2>1. /\ answer \in 0..MaxBacklog /\ before \in 0..MaxBacklog
        /\ stalled \in Nat /\ stalled < MaxStalled
    BY <1>2, WorkerAssumption DEF AfterBatch, TypeOK, PassNotStalled
  <2>3. stalled' \in 0..MaxStalled
    BY <1>2, <2>1, WorkerAssumption DEF AfterBatch, Stalled
  <2>4. CASE stalled' = MaxStalled
    <3>1. EndPass /\ before' = before /\ pc = "embedding"
      BY <1>2, <2>4 DEF AfterBatch
    <3> QED
      BY <1>0, <1>2, <2>3, <3>1, EndPassKeeps DEF TypeOK, PassNotStalled, DoneIsStopped
  <2>5. CASE stalled' # MaxStalled
    BY <1>0, <1>2, <2>1, <2>3, <2>5, WorkerAssumption
       DEF AfterBatch, TypeOK, PassNotStalled, DoneIsStopped, KickKept, SleepsOnNoKick
  <2> QED
    BY <2>4, <2>5
<1>3. CASE AfterYield /\ UNCHANGED unanswered
  <2>1. before \in 0..MaxBacklog
    BY DEF TypeOK
  <2> QED
    BY <1>0, <1>3, <2>1, NextBatchKeeps
       DEF AfterYield, TypeOK, PassNotStalled, DoneIsStopped
<1>4. CASE AfterFailure /\ UNCHANGED unanswered
  BY <1>0, <1>4, EndPassKeeps DEF AfterFailure, TypeOK, PassNotStalled, DoneIsStopped
<1>5. CASE pc = "woken" /\ Pass
  <2>1. unanswered' \in BOOLEAN /\ ~unanswered'
    BY <1>5 DEF Pass
  <2>2. stalled' \in 0..MaxStalled
    BY <1>5, WorkerAssumption DEF Pass, TypeOK
  <2> QED
    BY <1>0, <1>5, <2>1, <2>2, WorkerAssumption
       DEF Pass, Call, TypeOK, PassNotStalled, DoneIsStopped, KickKept, SleepsOnNoKick
<1> QED
  BY <1>1, <1>2, <1>3, <1>4, <1>5 DEF LoopStep

(* So does what its callers do: a kick is kept or wakes it. *)
LEMMA CallersKeep ==
  ASSUME WorkerInv, Start \/ TimerFires \/ Kick \/ Stop
  PROVE  WorkerInv'
<1> USE DEF WorkerInv, TypeOK, PassNotStalled, DoneIsStopped, KickKept, SleepsOnNoKick,
            store, work, callers
<1>1. CASE Start
  BY <1>1 DEF Start, Call
<1>2. CASE TimerFires
  BY <1>2 DEF TimerFires
<1>3. CASE Kick
  BY <1>3 DEF Kick, Wake
<1>4. CASE Stop
  BY <1>4 DEF Stop, Wake
<1> QED
  BY <1>1, <1>2, <1>3, <1>4

(* So do those who wait for it. *)
LEMMA DrainersKeep ==
  ASSUME WorkerInv, NEW d \in Drainers,
         DrainedCall(d) \/ DrainedAnswer(d) \/ DrainedFails(d) \/ DrainedResume(d)
  PROVE  WorkerInv'
<1>1. UNCHANGED <<store, pc, answer, work, stopped, kicked, unanswered>>
  BY DEF DrainedCall, DrainedAnswer, DrainedFails, DrainedResume, Register
<1>2. /\ at' \in [Drainers -> {"out", "reading", "settling"}]
      /\ waiters' \subseteq Drainers
  BY DEF WorkerInv, TypeOK, DrainedCall, DrainedAnswer, DrainedFails, DrainedResume, Register
<1> QED
  BY <1>1, <1>2
     DEF WorkerInv, TypeOK, PassNotStalled, DoneIsStopped, KickKept, SleepsOnNoKick, store, work

(* So does the engine, whatever it answers and however the backlog moves. *)
LEMMA EngineKeeps ==
  ASSUME WorkerInv, EngineStep \/ BacklogGrows \/ BacklogFalls
  PROVE  WorkerInv'
<1>1. UNCHANGED <<pc, work, stopped, kicked, callers, unanswered>>
  BY DEF EngineStep, EngineCounts, EngineFailsToCount, EngineEmbeds, EngineRefuses,
         EngineFails, Answers, BacklogGrows, BacklogFalls
<1>2. /\ backlog' \in 0..MaxBacklog
      /\ answer' \in {NoAnswer, Failure} \cup 0..MaxBacklog
      /\ arrivals' \in 0..MaxArrivals
  <2> USE WorkerAssumption DEF WorkerInv, TypeOK, Answers
  <2>1. CASE EngineCounts \/ EngineFailsToCount \/ EngineRefuses
    BY <2>1 DEF EngineCounts, EngineFailsToCount, EngineRefuses
  <2>2. CASE EngineEmbeds
    BY <2>2 DEF EngineEmbeds, Least
  <2>3. CASE EngineFails
    BY <2>3 DEF EngineFails, Least
  <2>4. CASE BacklogGrows
    BY <2>4 DEF BacklogGrows
  <2>5. CASE BacklogFalls
    BY <2>5 DEF BacklogFalls
  <2> QED
    BY <2>1, <2>2, <2>3, <2>4, <2>5 DEF EngineStep
<1> QED
  BY <1>1, <1>2 DEF WorkerInv, TypeOK, PassNotStalled, DoneIsStopped, KickKept,
                    SleepsOnNoKick, work, callers

(* Every step keeps the invariant, and so does none. *)
LEMMA NextKeeps ==
  ASSUME WorkerInv, [Next]_vars
  PROVE  WorkerInv'
<1>1. CASE Next
  BY <1>1, LoopStepKeeps, CallersKeep, DrainersKeep, EngineKeeps DEF Next
<1>2. CASE UNCHANGED vars
  BY <1>2 DEF vars, store, work, callers, WorkerInv, TypeOK, PassNotStalled,
              DoneIsStopped, KickKept, SleepsOnNoKick
<1> QED
  BY <1>1, <1>2

(* The invariant holds of every behaviour. *)
LEMMA WorkerInvariant == Spec => []WorkerInv
<1>1. WorkerInv /\ [Next]_vars => WorkerInv'
  BY NextKeeps
<1> QED
  BY <1>1, InitWorkerInv, PTL DEF Spec

(* The worker's fields keep their types; the stall counter never passes the*)
(* count that ends a pass, whatever arrives while it runs.                 *)
THEOREM WorkerTypeCorrect == Spec => []TypeOK
<1>1. WorkerInv => TypeOK
  BY DEF WorkerInv
<1> QED
  BY <1>1, WorkerInvariant, PTL

(* The loop never sleeps on a kick, wherever the kick finds it             *)
(* (embed-worker.ts:73-81).                                                *)
THEOREM NoKickIsSleptOn == Spec => []SleepsOnNoKick
<1>1. WorkerInv => SleepsOnNoKick
  BY DEF WorkerInv
<1> QED
  BY <1>1, WorkerInvariant, PTL


(***************************************************************************)
(* Of the breaker, for any number of failures that trips it, any cooldown  *)
(* and jobs of any length: its type, and that a dead endpoint is cheap.    *)
(*                                                                         *)
(* That bound alone is not inductive: it says nothing of how many requests *)
(* a failure stands for. SpentOnFailures does: outside the request under   *)
(* way there are at most two for each failure counted, and after a pause   *)
(* none at all until the next call.                                        *)
(***************************************************************************)

(* Requests sent by the call under way. *)
InCall == IF request = "none" THEN 0 ELSE IF request = "first" THEN 1 ELSE 2

(* A call is under way only while calls are let through, and they are not   *)
(* once the failures are as many as trip the breaker, until a pause ended.  *)
CallsWhenClosed ==
  /\ pause > 0 => request = "none" /\ failures = BreakerTrip
  /\ ~paused /\ failures = BreakerTrip => pause > 0
  /\ paused => failures = BreakerTrip

SpentOnFailures ==
  /\ ~paused => spent <= 2 * failures + InCall
  /\ paused /\ pause = 0 => spent <= InCall
  /\ paused => spent <= 2

BreakerInv == BreakerTypeOK /\ CallsWhenClosed /\ SpentOnFailures

--------------------------------------------------------------------------------

(* The fields begin as the constructor leaves them. *)
LEMMA BreakerBegins == BreakerInit => BreakerInv
  <1> SUFFICES ASSUME BreakerInit PROVE BreakerInv
    OBVIOUS
  <1>1. ~paused /\ paused \in BOOLEAN BY Zenon DEF BreakerInit
  <1>2. QED
    BY <1>1, BreakerAssumption
    DEF BreakerInit, BreakerInv, BreakerTypeOK, CallsWhenClosed, SpentOnFailures, InCall

(* A job begins: the first request of a call goes out. *)
LEMMA JobBegins ==
  ASSUME BreakerInv, NEW n \in 1..MaxChunks, BeginJob(n)
  PROVE  BreakerInv'
  BY BreakerAssumption
  DEF BeginJob, BreakerInv, BreakerTypeOK, CallsWhenClosed, SpentOnFailures, InCall

(* An answer: nothing has been spent in vain. *)
LEMMA AnswerComes ==
  ASSUME BreakerInv, Answered
  PROVE  BreakerInv'
  <1>1. chunks \in 1..MaxChunks
    BY BreakerAssumption DEF Answered, BreakerInv, BreakerTypeOK
  <1>a. ~paused' /\ paused' \in BOOLEAN BY Zenon DEF Answered
  <1>2. BreakerTypeOK'
    BY <1>1, <1>a, BreakerAssumption DEF Answered, BreakerInv, BreakerTypeOK
  <1>3. CallsWhenClosed'
    BY <1>1, <1>a, BreakerAssumption DEF Answered, BreakerInv, BreakerTypeOK, CallsWhenClosed
  <1>4. SpentOnFailures'
    BY <1>1, <1>a, BreakerAssumption DEF Answered, BreakerInv, BreakerTypeOK, SpentOnFailures, InCall
  <1>5. QED BY <1>2, <1>3, <1>4 DEF BreakerInv

(* The call tries a second time. *)
LEMMA RetryGoesOut ==
  ASSUME BreakerInv, Retry
  PROVE  BreakerInv'
  BY BreakerAssumption
  DEF Retry, BreakerInv, BreakerTypeOK, CallsWhenClosed, SpentOnFailures, InCall

(* A call fails: its requests are those of one more failure, or the ones    *)
(* that were let through after a pause.                                     *)
LEMMA CallHasFailed ==
  ASSUME BreakerInv, CallFails
  PROVE  BreakerInv'
  <1>1. request \in {"first", "retry"} /\ InCall \in 1..2 /\ pause = 0
    BY DEF CallFails, BreakerInv, BreakerTypeOK, CallsWhenClosed, InCall
  <1>2. BreakerTypeOK'
    BY BreakerAssumption DEF CallFails, PauseAfter, BreakerInv, BreakerTypeOK
  <1>3. CallsWhenClosed'
    BY <1>1, BreakerAssumption
    DEF CallFails, PauseAfter, BreakerInv, BreakerTypeOK, CallsWhenClosed
  <1>4. SpentOnFailures'
    <2>1. CASE paused
      <3>1. pause' > 0 /\ paused' /\ spent' = spent /\ spent <= 2
        BY <2>1, <1>1, BreakerAssumption
        DEF CallFails, PauseAfter, BreakerInv, BreakerTypeOK, CallsWhenClosed, SpentOnFailures
      <3>2. QED BY <3>1 DEF SpentOnFailures
    <2>2. CASE ~paused
      <3>1. failures' = failures + 1 /\ ~paused' /\ spent' = spent /\ request' = "none"
        BY <2>2, <1>1, BreakerAssumption DEF CallFails, BreakerInv, BreakerTypeOK, CallsWhenClosed
      <3>2. spent <= 2 * failures + 2 /\ failures \in Nat /\ spent \in Nat
        BY <2>2, <1>1 DEF BreakerInv, BreakerTypeOK, SpentOnFailures
      <3>3. QED BY <3>1, <3>2 DEF SpentOnFailures, InCall
    <2>3. QED BY <2>1, <2>2
  <1>5. QED BY <1>2, <1>3, <1>4 DEF BreakerInv

(* Time passes; at the end of a pause the count of requests starts anew.    *)
LEMMA PauseGoesOn ==
  ASSUME BreakerInv, PauseTicks
  PROVE  BreakerInv'
  <1>1. request = "none" /\ request' = "none" /\ failures' = failures
    BY DEF PauseTicks, BreakerInv, BreakerTypeOK, CallsWhenClosed
  <1>b. paused' \in BOOLEAN
    BY Zenon DEF PauseTicks, BreakerInv, BreakerTypeOK
  <1>2. BreakerTypeOK'
    BY <1>b, BreakerAssumption DEF PauseTicks, BreakerInv, BreakerTypeOK
  <1>3. CASE pause' = 0
    <2>1. paused' /\ spent' = 0 BY <1>3 DEF PauseTicks
    <2>2. failures = BreakerTrip
      BY DEF PauseTicks, BreakerInv, CallsWhenClosed
    <2>3. QED
      BY <1>1, <1>2, <1>3, <2>1, <2>2, BreakerAssumption
      DEF BreakerInv, CallsWhenClosed, SpentOnFailures, InCall
  <1>4. CASE pause' # 0
    <2>1. UNCHANGED <<paused, spent>> /\ pause' > 0
      BY <1>4, BreakerAssumption DEF PauseTicks, BreakerInv, BreakerTypeOK
    <2>2. QED
      BY <1>1, <1>2, <2>1 DEF PauseTicks, BreakerInv, CallsWhenClosed, SpentOnFailures, InCall
  <1>5. QED BY <1>3, <1>4

(* A new embedder. *)
LEMMA EmbedderRebuilt ==
  ASSUME BreakerInv, Rebuilt
  PROVE  BreakerInv'
  <1>1. ~paused' /\ paused' \in BOOLEAN BY Zenon DEF Rebuilt
  <1>2. QED
    BY <1>1, BreakerAssumption
    DEF Rebuilt, BreakerInv, BreakerTypeOK, CallsWhenClosed, SpentOnFailures, InCall

LEMMA BreakerKeepsInv == BreakerInv /\ [BreakerNext]_breakerVars => BreakerInv'
  <1> SUFFICES ASSUME BreakerInv, [BreakerNext]_breakerVars PROVE BreakerInv'
    OBVIOUS
  <1>1. CASE Called BY <1>1, JobBegins DEF Called
  <1>2. CASE CallGoesOn BY <1>2, AnswerComes, RetryGoesOut, CallHasFailed DEF CallGoesOn
  <1>3. CASE PauseTicks BY <1>3, PauseGoesOn
  <1>4. CASE Rebuilt BY <1>4, EmbedderRebuilt
  <1>5. CASE UNCHANGED breakerVars
    BY <1>5 DEF breakerVars, BreakerInv, BreakerTypeOK, CallsWhenClosed, SpentOnFailures, InCall
  <1>6. QED BY <1>1, <1>2, <1>3, <1>4, <1>5 DEF BreakerNext

LEMMA BreakerInvariant == BreakerSpec => []BreakerInv
  BY BreakerBegins, BreakerKeepsInv, PTL DEF BreakerSpec

(* No handler of the breaker leaves a count, a pause or a job that the next *)
(* does not expect (remote.rs:111-119, 187-226).                            *)
THEOREM BreakerTypeCorrect == BreakerSpec => []BreakerTypeOK
  <1>1. BreakerInv => BreakerTypeOK BY DEF BreakerInv
  <1>2. QED BY <1>1, BreakerInvariant, PTL

(* What a dead endpoint costs is bounded, for every BREAKER_TRIP and        *)
(* BREAKER_COOLDOWN and for jobs of any length (remote.rs:9-13, 187-226).   *)
THEOREM DeadEndpointsAreCheap == BreakerSpec => []DeadEndpointIsCheap
  <1>1. BreakerInv => DeadEndpointIsCheap
    <2> SUFFICES ASSUME BreakerInv PROVE DeadEndpointIsCheap
      OBVIOUS
    <2>1. CASE paused BY <2>1 DEF BreakerInv, SpentOnFailures, DeadEndpointIsCheap
    <2>2. CASE ~paused
      <3>1. request # "none" => failures + 1 <= BreakerTrip
        BY <2>2, BreakerAssumption DEF BreakerInv, BreakerTypeOK, CallsWhenClosed
      <3>2. spent <= 2 * failures + InCall
        BY <2>2 DEF BreakerInv, SpentOnFailures
      <3>3. spent <= 2 * BreakerTrip
        BY <3>1, <3>2, BreakerAssumption DEF BreakerInv, BreakerTypeOK, InCall
      <3>4. QED BY <2>2, <3>3 DEF DeadEndpointIsCheap
    <2>3. QED BY <2>1, <2>2
  <1>2. QED BY <1>1, BreakerInvariant, PTL


(***************************************************************************)
(* Of the server's curator settings, for any requests, tokens and limits:  *)
(* their type, and that an update is merged into nothing older than what   *)
(* was stored when it came in.                                             *)
(*                                                                         *)
(* The second is not inductive: while the engine has the call, what it will*)
(* read is not known. FreshEnough says that what is stored then is new     *)
(* enough, which a write keeps, as writes only ever add one.               *)
(***************************************************************************)

RequestSet ==
  [at : {"idle", "asking", "answered", "writing", "written"},
   for : {"nothing", "config", "update"},
   body : Updates \cup {Absent},
   since : 0..MaxWrites,
   got : Configs \cup {Absent}]

(* What a request has by the await it is at. *)
Sound(q) ==
  /\ q.at \in {"answered", "writing", "written"} => q.got \in Configs
  /\ q.at \in {"writing", "written"} => q.for = "update"
  /\ q.for = "update" => q.body \in Updates

FreshEnough(q, write) ==
  q.for = "update" =>
    /\ q.at = "asking" => write >= q.since
    /\ q.at \in {"answered", "writing"} => q.got.write >= q.since

SettingsInv ==
  /\ SettingsTypeOK
  /\ \A r \in Requests : Sound(requests[r]) /\ FreshEnough(requests[r], stored.write)

--------------------------------------------------------------------------------

(* A request that does nothing is sound whatever is stored. *)
LEMMA IdleIsSound == Idle \in RequestSet /\ Sound(Idle) /\ \A w \in Nat : FreshEnough(Idle, w)
  BY SettingsAssumption DEF Idle, Request, RequestSet, Sound, FreshEnough

LEMMA SettingsBegin == SettingsInit => SettingsInv
  <1> SUFFICES ASSUME SettingsInit PROVE SettingsInv
    OBVIOUS
  <1>1. stored \in Configs /\ stored.write = 0
    BY SettingsAssumption DEF SettingsInit, Configs
  <1>2. cached \in Configs /\ cacheAge \in 0..CacheAge
    BY <1>1, SettingsAssumption DEF SettingsInit
  <1>3. requests \in [Requests -> RequestSet] /\ \A r \in Requests : requests[r] = Idle
    BY IdleIsSound DEF SettingsInit
  <1>4. server \in [readOnly : BOOLEAN, envToken : BOOLEAN]
    BY DEF SettingsInit
  <1>5. SettingsTypeOK
    BY <1>1, <1>2, <1>3, <1>4 DEF SettingsTypeOK, RequestSet
  <1>6. QED BY <1>1, <1>3, <1>5, IdleIsSound DEF SettingsInv

(* One request goes on, and is sound where it goes; the store is what it    *)
(* was or a later one.                                                      *)
LEMMA OneGoesOn ==
  ASSUME SettingsInv, NEW r \in Requests, NEW q \in RequestSet, Goes(r, q),
         stored' \in Configs, stored'.write >= stored.write,
         cached' \in Configs, cacheAge' \in 0..CacheAge, UNCHANGED server,
         Sound(q), FreshEnough(q, stored'.write)
  PROVE  SettingsInv'
  <1>1. requests \in [Requests -> RequestSet]
    BY DEF SettingsInv, SettingsTypeOK, RequestSet
  <1>2. requests' \in [Requests -> RequestSet]
    BY <1>1 DEF Goes
  <1>3. SettingsTypeOK'
    BY <1>2 DEF SettingsInv, SettingsTypeOK, RequestSet
  <1>4. stored.write \in Nat /\ stored'.write \in Nat
    BY SettingsAssumption DEF SettingsInv, SettingsTypeOK, Configs
  <1>5. ASSUME NEW o \in Requests
        PROVE  Sound(requests'[o]) /\ FreshEnough(requests'[o], stored'.write)
    <2>1. CASE o = r
      BY <2>1, <1>1 DEF Goes
    <2>2. CASE o # r
      <3>1. requests'[o] = requests[o] BY <2>2, <1>1 DEF Goes
      <3>2. Sound(requests[o]) /\ FreshEnough(requests[o], stored.write)
        BY DEF SettingsInv
      <3>3. requests[o].since \in Nat
        BY <1>1, SettingsAssumption DEF RequestSet
      <3>4. QED BY <3>1, <3>2, <3>3, <1>4 DEF FreshEnough
    <2>3. QED BY <2>1, <2>2
  <1>6. QED
    BY <1>3, <1>5 DEF SettingsInv, SettingsTypeOK, Sound, FreshEnough, Configs, Updates

(* Neither requests nor the store change. *)
LEMMA OnlyTheCopyChanges ==
  ASSUME SettingsInv, UNCHANGED <<requests, stored, server>>,
         cached' \in Configs, cacheAge' \in 0..CacheAge
  PROVE  SettingsInv'
  BY DEF SettingsInv, SettingsTypeOK, Sound, FreshEnough, Configs, Updates

--------------------------------------------------------------------------------

(* The request is at its engine call, or comes in. *)
LEMMA ConfigAsked ==
  ASSUME SettingsInv, NEW r \in Requests, AskConfig(r)
  PROVE  SettingsInv'
  <1> DEFINE q == Request("asking", "config", Absent, 0)
  <1>1. q \in RequestSet /\ Sound(q) /\ FreshEnough(q, stored'.write)
    BY SettingsAssumption DEF Request, RequestSet, Sound, FreshEnough
  <1>2. Goes(r, q) /\ UNCHANGED <<curatorStore, server>> BY DEF AskConfig
  <1>3. stored.write \in Nat BY SettingsAssumption DEF SettingsInv, SettingsTypeOK, Configs
  <1>4. QED
    BY <1>1, <1>2, <1>3, OneGoesOn DEF curatorStore, SettingsInv, SettingsTypeOK

LEMMA UpdateAsked ==
  ASSUME SettingsInv, NEW r \in Requests, NEW update \in Updates, AskUpdate(r, update)
  PROVE  SettingsInv'
  <1> DEFINE q == Request("asking", "update", update, stored.write)
  <1>1. stored.write \in 0..MaxWrites /\ stored' = stored
    BY DEF SettingsInv, SettingsTypeOK, Configs, AskUpdate, curatorStore
  <1>2. q \in RequestSet /\ Sound(q) /\ FreshEnough(q, stored'.write)
    BY <1>1, SettingsAssumption DEF Request, RequestSet, Sound, FreshEnough
  <1>3. Goes(r, q) /\ UNCHANGED <<curatorStore, server>> BY DEF AskUpdate
  <1>4. QED
    BY <1>1, <1>2, <1>3, SettingsAssumption, OneGoesOn DEF curatorStore, SettingsInv, SettingsTypeOK

(* The engine reads what is stored now. *)
LEMMA EngineHasRead ==
  ASSUME SettingsInv, NEW r \in Requests, EngineReads(r)
  PROVE  SettingsInv'
  <1> DEFINE q == [requests[r] EXCEPT !.at = "answered", !.got = stored]
  <1>1. requests[r] \in RequestSet /\ stored \in Configs /\ stored.write \in Nat
    BY SettingsAssumption DEF SettingsInv, SettingsTypeOK, RequestSet, Configs
  <1>2. stored' = stored /\ Goes(r, q) /\ requests[r].at = "asking" /\ UNCHANGED <<curatorStore, server>>
    BY DEF EngineReads, curatorStore
  <1>3. q \in RequestSet
    BY <1>1 DEF RequestSet
  <1>4. q.at = "answered" /\ q.got = stored /\ q.for = requests[r].for
          /\ q.body = requests[r].body /\ q.since = requests[r].since
    BY <1>1 DEF RequestSet
  <1>5. Sound(requests[r]) /\ FreshEnough(requests[r], stored.write)
    BY DEF SettingsInv
  <1>6. Sound(q) BY <1>1, <1>4, <1>5 DEF Sound
  <1>7. FreshEnough(q, stored'.write)
    BY <1>1, <1>2, <1>4, <1>5 DEF FreshEnough
  <1> HIDE DEF q
  <1>8. QED
    BY <1>1, <1>2, <1>3, <1>6, <1>7, OneGoesOn DEF curatorStore, SettingsInv, SettingsTypeOK

(* The engine stores what the request merged, and counts the write. *)
LEMMA EngineHasWritten ==
  ASSUME SettingsInv, NEW r \in Requests, EngineWrites(r)
  PROVE  SettingsInv'
  <1> DEFINE q == [requests[r] EXCEPT !.at = "written", !.got = stored']
             w == stored.write + 1
  <1>1. requests[r] \in RequestSet /\ stored.write \in 0..MaxWrites
    BY DEF SettingsInv, SettingsTypeOK, RequestSet, Configs
  <1>2. /\ requests[r].at = "writing" /\ stored.write < MaxWrites /\ Goes(r, q)
        /\ stored' = Merge(requests[r].got, requests[r].body, w)
        /\ UNCHANGED <<cached, cacheAge, server>>
    BY DEF EngineWrites
  <1>3. requests[r].got \in Configs /\ requests[r].for = "update" /\ requests[r].body \in Updates
    BY <1>2 DEF SettingsInv, Sound
  <1>4. w \in 0..MaxWrites /\ w >= stored.write
    BY <1>1, <1>2, SettingsAssumption
  <1>5. stored' \in Configs /\ stored'.write = w
    BY <1>2, <1>3, <1>4, SettingsAssumption DEF Merge, Updates, Configs
  <1>6. q \in RequestSet
    BY <1>1, <1>5 DEF RequestSet
  <1>7. q.at = "written" /\ q.got = stored' /\ q.for = "update" /\ q.body \in Updates
    BY <1>1, <1>3 DEF RequestSet
  <1>8. Sound(q) /\ FreshEnough(q, stored'.write)
    BY <1>5, <1>7 DEF Sound, FreshEnough
  <1> HIDE DEF q
  <1>9. QED
    BY <1>2, <1>4, <1>5, <1>6, <1>8, OneGoesOn DEF SettingsInv, SettingsTypeOK

(* The request ends, in an error or with the copy replaced. *)
LEMMA RequestEnds ==
  ASSUME SettingsInv, NEW r \in Requests, Goes(r, Idle), UNCHANGED <<stored, server>>,
         cached' \in Configs, cacheAge' \in 0..CacheAge
  PROVE  SettingsInv'
  <1>1. stored \in Configs /\ stored' = stored /\ stored.write \in Nat
    BY SettingsAssumption DEF SettingsInv, SettingsTypeOK, Configs
  <1>2. QED BY <1>1, IdleIsSound, OneGoesOn

(* The read is answered and the request goes on to its write. *)
LEMMA WriteAsked ==
  ASSUME SettingsInv, NEW r \in Requests, GoesOnToWrite(r)
  PROVE  SettingsInv'
  <1> DEFINE q == [requests[r] EXCEPT !.at = "writing"]
  <1>1. requests[r] \in RequestSet /\ stored \in Configs /\ stored.write \in Nat
    BY SettingsAssumption DEF SettingsInv, SettingsTypeOK, RequestSet, Configs
  <1>2. /\ requests[r].at = "answered" /\ requests[r].for = "update" /\ Goes(r, q)
        /\ stored' = stored /\ UNCHANGED <<curatorStore, server>>
    BY DEF GoesOnToWrite, curatorStore
  <1>3. q \in RequestSet
    BY <1>1 DEF RequestSet
  <1>4. q.at = "writing" /\ q.got = requests[r].got /\ q.for = "update"
          /\ q.body = requests[r].body /\ q.since = requests[r].since
    BY <1>1, <1>2 DEF RequestSet
  <1>5. Sound(requests[r]) /\ FreshEnough(requests[r], stored.write)
    BY DEF SettingsInv
  <1>6. Sound(q) /\ FreshEnough(q, stored'.write)
    BY <1>2, <1>4, <1>5 DEF Sound, FreshEnough
  <1> HIDE DEF q
  <1>7. QED
    BY <1>1, <1>2, <1>3, <1>6, OneGoesOn DEF curatorStore, SettingsInv, SettingsTypeOK

(* The process starts over: no request is left of before. *)
LEMMA ServerRestarted ==
  ASSUME SettingsInv, Restart
  PROVE  SettingsInv'
  <1>1. stored \in Configs /\ stored' = stored /\ stored.write \in Nat
    BY SettingsAssumption DEF SettingsInv, SettingsTypeOK, Configs, Restart
  <1>2. requests' \in [Requests -> RequestSet] /\ \A r \in Requests : requests'[r] = Idle
    BY IdleIsSound DEF Restart
  <1>3. cached' \in Configs /\ cacheAge' \in 0..CacheAge /\ server' = server
    BY SettingsAssumption DEF Restart, SettingsInv, SettingsTypeOK
  <1>4. SettingsTypeOK'
    BY <1>1, <1>2, <1>3 DEF SettingsInv, SettingsTypeOK, RequestSet
  <1>5. \A r \in Requests : Sound(requests'[r]) /\ FreshEnough(requests'[r], stored'.write)
    BY <1>1, <1>2, IdleIsSound
  <1>6. QED
    BY <1>4, <1>5 DEF SettingsInv, SettingsTypeOK, Sound, FreshEnough, Configs, Updates

LEMMA SettingsKeepInv == SettingsInv /\ [SettingsNext]_settingsVars => SettingsInv'
  <1> SUFFICES ASSUME SettingsInv, [SettingsNext]_settingsVars PROVE SettingsInv'
    OBVIOUS
  <1>a. cached \in Configs /\ cacheAge \in 0..CacheAge /\ 0 \in 0..CacheAge
    BY SettingsAssumption DEF SettingsInv, SettingsTypeOK
  <1>1. ASSUME NEW r \in Requests, AskConfig(r) PROVE SettingsInv'
    BY <1>1, ConfigAsked
  <1>2. ASSUME NEW r \in Requests, NEW update \in Updates, AskUpdate(r, update) PROVE SettingsInv'
    BY <1>2, UpdateAsked
  <1>3. ASSUME NEW r \in Requests, EngineCallEnds(r) PROVE SettingsInv'
    BY <1>3, EngineHasRead, EngineHasWritten DEF EngineCallEnds
  <1>4. ASSUME NEW r \in Requests, EngineCallFails(r) PROVE SettingsInv'
    BY <1>4, <1>a, RequestEnds DEF EngineCallFails, curatorStore
  <1>5. ASSUME NEW r \in Requests, KeepsConfig(r) \/ KeepsWritten(r) PROVE SettingsInv'
    <2>1. requests[r].got \in Configs
      BY <1>5 DEF KeepsConfig, KeepsWritten, SettingsInv, Sound
    <2>2. QED BY <1>5, <1>a, <2>1, RequestEnds DEF KeepsConfig, KeepsWritten
  <1>6. ASSUME NEW r \in Requests, GoesOnToWrite(r) PROVE SettingsInv'
    BY <1>6, WriteAsked
  <1>7. CASE Tick
    <2>1. cacheAge' \in 0..CacheAge /\ cached' = cached
      BY <1>7, <1>a, SettingsAssumption DEF Tick
    <2>2. QED BY <1>7, <1>a, <2>1, OnlyTheCopyChanges DEF Tick
  <1>8. CASE Restart BY <1>8, ServerRestarted
  <1>9. CASE UNCHANGED settingsVars
    BY <1>9, <1>a, OnlyTheCopyChanges DEF settingsVars
  <1>10. QED
    BY <1>1, <1>2, <1>3, <1>4, <1>5, <1>6, <1>7, <1>8, <1>9 DEF SettingsNext, GoesOn

LEMMA SettingsInvariant == SettingsSpec => []SettingsInv
  BY SettingsBegin, SettingsKeepInv, PTL DEF SettingsSpec

(* What is stored, kept and asked for keeps its type, whichever requests    *)
(* overlap and wherever the process restarts (curator.ts:14-78).            *)
THEOREM SettingsTypeCorrect == SettingsSpec => []SettingsTypeOK
  <1>1. SettingsInv => SettingsTypeOK BY DEF SettingsInv
  <1>2. QED BY <1>1, SettingsInvariant, PTL

(* An update never merges into settings that were replaced before it was    *)
(* asked for, with any number of requests in flight (curator.ts:60-73).     *)
THEOREM UpdatesAreOfAFreshRead == SettingsSpec => []UpdatesOfAFreshRead
  <1>1. SettingsInv => UpdatesOfAFreshRead
    BY DEF SettingsInv, FreshEnough, UpdatesOfAFreshRead
  <1>2. QED BY <1>1, SettingsInvariant, PTL

(***************************************************************************)
(* Of the token gate, for any tabs, tokens and faults: its type. What it   *)
(* promises is a leads-to, which stays with TLC.                           *)
(***************************************************************************)

Asked == [bearer : Bearers \cup {NoBearer}, answer : {Underway, 200, 401}]

LEMMA GateBegins == GateInit => GateTypeOK
BY GateAssumption DEF GateInit, GateTypeOK

LEMMA GateKeepsType == GateTypeOK /\ [GateNext]_gateVars => GateTypeOK'
<1> SUFFICES ASSUME GateTypeOK, [GateNext]_gateVars PROVE GateTypeOK'
  OBVIOUS
<1>0. /\ required \in Bearers \cup {NoBearer} /\ kept \in Bearers \cup {NoBearer}
      /\ needsAuth \in [Tabs -> BOOLEAN] /\ asking \in [Tabs -> Asked \cup {NoRequest}]
      /\ faults \in 0..MaxFaults /\ MaxFaults \in Nat
  BY GateAssumption DEF GateTypeOK, Asked
<1>1. ASSUME NEW t \in Tabs, Ask(t) PROVE GateTypeOK'
  <2>1. [bearer |-> kept, answer |-> Underway] \in Asked
    BY <1>0 DEF Asked
  <2>2. asking' \in [Tabs -> Asked \cup {NoRequest}]
    BY <1>0, <1>1, <2>1 DEF Ask
  <2> QED
    BY <1>0, <1>1, <2>2 DEF Ask, GateTypeOK, Asked
<1>2. ASSUME NEW t \in Tabs, ServerAnswers(t) PROVE GateTypeOK'
  <2>1. asking[t] \in Asked
    BY <1>0, <1>2 DEF ServerAnswers
  <2>2. [asking[t] EXCEPT !.answer = IF Accepts(asking[t].bearer) THEN 200 ELSE 401] \in Asked
    BY <2>1 DEF Asked
  <2>3. asking' \in [Tabs -> Asked \cup {NoRequest}]
    BY <1>0, <1>2, <2>2 DEF ServerAnswers
  <2> QED
    BY <1>0, <1>2, <2>3 DEF ServerAnswers, GateTypeOK, Asked
<1>3. ASSUME NEW t \in Tabs, Responded(t) PROVE GateTypeOK'
  <2>1. asking' \in [Tabs -> Asked \cup {NoRequest}]
    BY <1>0, <1>3 DEF Responded
  <2>2. needsAuth' \in [Tabs -> BOOLEAN]
    BY <1>0, <1>3 DEF Responded
  <2> QED
    BY <1>0, <1>3, <2>1, <2>2 DEF Responded, GateTypeOK, Asked
<1>4. ASSUME NEW t \in Tabs, RequestLost(t) PROVE GateTypeOK'
  <2>1. asking' \in [Tabs -> Asked \cup {NoRequest}] /\ faults' \in 0..MaxFaults
    BY <1>0, <1>4 DEF RequestLost
  <2> QED
    BY <1>0, <1>4, <2>1 DEF RequestLost, GateTypeOK, Asked
<1>5. ASSUME NEW t \in Tabs, Lock(t) PROVE GateTypeOK'
  BY <1>0, <1>5 DEF Lock, GateTypeOK, Asked
<1>6. ASSUME NEW t \in Tabs, NEW bearer \in Bearers, Unlock(t, bearer) PROVE GateTypeOK'
  BY <1>0, <1>6 DEF Unlock, GateTypeOK, Asked
<1>7. ASSUME NEW bearer \in Bearers \cup {NoBearer}, ServerRestarts(bearer) PROVE GateTypeOK'
  <2>1. faults' \in 0..MaxFaults
    BY <1>0, <1>7 DEF ServerRestarts
  <2> QED
    BY <1>0, <1>7, <2>1 DEF ServerRestarts, GateTypeOK, Asked
<1>8. CASE UNCHANGED gateVars
  BY <1>8 DEF gateVars, GateTypeOK
<1> QED
  BY <1>1, <1>2, <1>3, <1>4, <1>5, <1>6, <1>7, <1>8 DEF GateNext

(***************************************************************************)
(* Of the four together.                                                   *)
(***************************************************************************)

LEMMA GateTypes == GateSpec => []GateTypeOK
BY GateBegins, GateKeepsType, PTL DEF GateSpec

(* A behaviour of the run over the four is one of each: its variables move *)
(* by its own actions or not at all.                                       *)
THEOREM WorkersRunAlone == WorkersSpec => Spec /\ BreakerSpec /\ SettingsSpec /\ GateSpec
<1>1. WorkersInit => Init /\ BreakerInit /\ SettingsInit /\ GateInit
  BY DEF WorkersInit
<1>2. [WorkersNext]_allVars =>
        /\ [Next]_vars /\ [BreakerNext]_breakerVars
        /\ [SettingsNext]_settingsVars /\ [GateNext]_gateVars
  BY DEF WorkersNext, allVars
<1> QED
  BY <1>1, <1>2, PTL DEF WorkersSpec, Spec, BreakerSpec, SettingsSpec, GateSpec

(* In each of the four parts every handler leaves what the next expects,   *)
(* whatever the numbers of callers, requests and tabs and all the bounds.  *)
THEOREM WorkersTypeCorrect == WorkersSpec => []WorkersTypeOK
<1>1. TypeOK /\ BreakerTypeOK /\ SettingsTypeOK /\ GateTypeOK => WorkersTypeOK
  BY DEF WorkersTypeOK
<1> QED
  BY <1>1, WorkersRunAlone, WorkerTypeCorrect, BreakerTypeCorrect, SettingsTypeCorrect, GateTypes, PTL

================================================================================
