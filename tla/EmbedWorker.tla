----------------------------- MODULE EmbedWorker -----------------------------
(***************************************************************************)
(* The loop of the HTTP server that drains the embedding backlog, those    *)
(* who kick it awake or wait for it, and the engine it calls.              *)
(* server/src/engine/embed-worker.ts, started and stopped by               *)
(* server/src/index.ts and kicked by server/src/api/routes/settings.ts.    *)
(*                                                                         *)
(* JavaScript runs from one await to the next without interruption: that is*)
(* one step here.  An engine call of the loop is two, the engine's, which  *)
(* computes the answer, and the loop's, which resumes with it; anything may*)
(* come between.  The backlog is the engine's: module ZeroMem says how it  *)
(* moves.  What the worker only reports (its count of embedded turns, its  *)
(* log lines, last_error) is left out.                                     *)
(***************************************************************************)
EXTENDS Integers

CONSTANTS
  Drainers,       \* callers of drained()
  Batch,          \* turns per engine call
  MaxStalled,     \* batches without progress that end a pass (3)
  MaxBacklog,     \* bound: turns without a vector
  MaxArrivals     \* bound: times the backlog grows

ASSUME WorkerAssumption ==
  /\ Batch \in Nat \ {0} /\ MaxStalled \in Nat \ {0}
  /\ MaxBacklog \in Nat /\ MaxArrivals \in Nat

VARIABLES
  backlog, arrivals,            \* the engine's count, and how often it grew
  pc, answer,                   \* where the loop is, what the engine told it
  before, stalled, draining,
  stopped, kicked,
  at, waiters,                  \* where each drainer is; unresolved promises
  unanswered      \* history: no pass began since the last kick

work == <<before, stalled, draining>>
store == <<backlog, arrivals>>
callers == <<at, waiters>>
vars == <<store, pc, answer, work, stopped, kicked, callers, unanswered>>

NoAnswer == -1
Failure == -2

Least(m, n) == IF m <= n THEN m ELSE n

Init ==
  /\ backlog \in 0..MaxBacklog /\ arrivals = 0
  /\ pc = "off" /\ answer = NoAnswer
  /\ before = 0 /\ stalled = 0 /\ draining = FALSE
  /\ stopped = TRUE /\ kicked = FALSE /\ unanswered = FALSE
  /\ at = [d \in Drainers |-> "out"] /\ waiters = {}

(***************************************************************************)
(* The loop.                                                               *)
(***************************************************************************)

Call(what) == pc' = what /\ answer' = NoAnswer

(* Bug: the loop ends without a word to those who wait. *)
PassEndingQuietly ==
  /\ IF stopped
     THEN pc' = "done" /\ UNCHANGED <<answer, stalled, waiters>>
     ELSE Call("reading") /\ stalled' = 0 /\ UNCHANGED waiters
  /\ unanswered' = FALSE
  /\ UNCHANGED <<before, draining, kicked, at>>

(* Top of the loop: another pass, or its end. *)
Pass ==
  /\ IF stopped
     THEN pc' = "done" /\ waiters' = {} /\ UNCHANGED <<answer, stalled>>
     ELSE Call("reading") /\ stalled' = 0 /\ UNCHANGED waiters
  /\ unanswered' = FALSE
  /\ UNCHANGED <<before, draining, kicked, at>>

(* Bug: what came while the loop worked is not looked at. *)
SleepThrough == pc' = "asleep" /\ UNCHANGED kicked

(* Sleep, unless a kick or a stop came while the loop worked. *)
Sleep ==
  IF stopped \/ kicked
  THEN pc' = "woken" /\ kicked' = FALSE
  ELSE pc' = "asleep" /\ UNCHANGED kicked

(* The loop has stopped working: those who wait on it look again. *)
EndPass ==
  /\ draining' = FALSE
  /\ waiters' = {}
  /\ Sleep
  /\ UNCHANGED answer

(* Bug: the last turn is left. *)
NextBatchButLast(left) ==
  IF ~stopped /\ left > 1
  THEN Call("embedding") /\ draining' = TRUE /\ UNCHANGED <<waiters, kicked>>
  ELSE EndPass

NextBatch(left) ==
  IF ~stopped /\ left > 0
  THEN Call("embedding") /\ draining' = TRUE /\ UNCHANGED <<waiters, kicked>>
  ELSE EndPass

AfterRead ==
  /\ pc = "reading" /\ answer >= 0
  /\ before' = answer
  /\ NextBatch(answer)
  /\ UNCHANGED stalled

(* Bug: a batch that made no progress does not count. *)
Unstalled(left) == 0

Stalled(left) == IF left < before THEN 0 ELSE stalled + 1

AfterBatch ==
  /\ pc = "embedding" /\ answer >= 0
  /\ stalled' = Stalled(answer)
  /\ IF stalled' = MaxStalled
     THEN EndPass /\ UNCHANGED before
     ELSE /\ pc' = "yielding" /\ before' = answer
          /\ UNCHANGED <<answer, draining, kicked, waiters>>

AfterYield ==
  /\ pc = "yielding"
  /\ NextBatch(before)
  /\ UNCHANGED <<before, stalled>>

AfterFailure ==
  /\ pc \in {"reading", "embedding"} /\ answer = Failure
  /\ EndPass
  /\ UNCHANGED <<before, stalled>>

LoopStep ==
  /\ \/ (AfterRead \/ AfterBatch \/ AfterYield \/ AfterFailure) /\ UNCHANGED <<unanswered, at>>
     \/ pc = "woken" /\ Pass
  /\ UNCHANGED <<store, stopped>>

(* The idle or retry timer. *)
TimerFires ==
  /\ pc = "asleep"
  /\ pc' = "woken"
  /\ UNCHANGED <<store, answer, work, stopped, kicked, callers, unanswered>>

(***************************************************************************)
(* Those who call the worker.                                              *)
(***************************************************************************)

Start ==
  /\ pc = "off"
  /\ stopped' = FALSE
  /\ Call("reading")
  /\ UNCHANGED <<store, work, kicked, callers, unanswered>>

(* A kick wakes the loop, or is kept for the sleep it is about to start. *)
Wake ==
  /\ IF pc = "asleep"
     THEN pc' = "woken" /\ UNCHANGED kicked
     ELSE kicked' = TRUE /\ UNCHANGED pc
  /\ unanswered' = (pc # "done")
  /\ UNCHANGED <<store, answer, work, callers>>

(* After a switch of the embedder, a reembed or a clear. *)
Kick == pc # "off" /\ Wake /\ UNCHANGED stopped

Stop == pc # "off" /\ ~stopped /\ stopped' = TRUE /\ Wake

(* One round of drained(): register, then read the backlog unless a pass is*)
(* on.                                                                     *)
Register(d) ==
  /\ IF stopped
     THEN at' = [at EXCEPT ![d] = "out"] /\ UNCHANGED waiters
     ELSE /\ waiters' = waiters \cup {d}
          /\ at' = [at EXCEPT ![d] = IF draining THEN "settling" ELSE "reading"]
  /\ UNCHANGED <<store, pc, answer, work, stopped, kicked, unanswered>>

DrainedCall(d) == at[d] = "out" /\ ~stopped /\ Register(d)

DrainedAnswer(d) ==
  /\ at[d] = "reading"
  /\ at' = [at EXCEPT ![d] = IF backlog = 0 THEN "out" ELSE "settling"]
  /\ UNCHANGED <<store, pc, answer, work, stopped, kicked, waiters, unanswered>>

(* embeddingBacklog() fails, and drained() with it; what it registered stays. *)
DrainedFails(d) ==
  /\ at[d] = "reading"
  /\ at' = [at EXCEPT ![d] = "out"]
  /\ UNCHANGED <<store, pc, answer, work, stopped, kicked, waiters, unanswered>>

DrainedResume(d) == at[d] = "settling" /\ d \notin waiters /\ Register(d)

(***************************************************************************)
(* The engine.                                                             *)
(***************************************************************************)

Answers(what, n) ==
  /\ pc = what /\ answer = NoAnswer
  /\ answer' = n
  /\ UNCHANGED <<arrivals, pc, work, stopped, kicked, callers, unanswered>>

EngineCounts == Answers("reading", backlog) /\ UNCHANGED backlog

EngineFailsToCount == Answers("reading", Failure) /\ UNCHANGED backlog

(* A batch is embedded and its vectors stored. *)
EngineEmbeds ==
  /\ backlog' = backlog - Least(Batch, backlog)
  /\ Answers("embedding", backlog')

(* The store moved under the batch, and it is dropped. *)
EngineRefuses == Answers("embedding", backlog) /\ UNCHANGED backlog

(* The embedder fails, perhaps after some of the turns were stored. *)
EngineFails ==
  /\ \E n \in 0..Least(Batch - 1, backlog) : backlog' = backlog - n
  /\ Answers("embedding", Failure)

EngineStep ==
  EngineCounts \/ EngineFailsToCount \/ EngineEmbeds \/ EngineRefuses \/ EngineFails

(* The backlog grows: turns arrive without a vector, or vectors are dropped*)
(* by a switch.                                                            *)
BacklogGrows ==
  /\ arrivals < MaxArrivals
  /\ arrivals' = arrivals + 1
  /\ backlog' \in backlog+1 .. MaxBacklog
  /\ UNCHANGED <<pc, answer, work, stopped, kicked, callers, unanswered>>

(* It falls otherwise: a read embedded a batch, or turns were deleted. *)
BacklogFalls ==
  /\ backlog' \in 0..backlog-1
  /\ UNCHANGED <<arrivals, pc, answer, work, stopped, kicked, callers, unanswered>>

-----------------------------------------------------------------------------

Next ==
  \/ Start \/ LoopStep \/ TimerFires \/ Kick \/ Stop
  \/ \E d \in Drainers :
       DrainedCall(d) \/ DrainedAnswer(d) \/ DrainedFails(d) \/ DrainedResume(d)
  \/ EngineStep \/ BacklogGrows \/ BacklogFalls

Spec == Init /\ [][Next]_vars

(* What runs goes on running and the engine answers; the timer may be as   *)
(* late as it likes, and the embedder refuse or fail for ever.             *)
PromptSpec ==
  /\ Spec
  /\ WF_vars(LoopStep) /\ WF_vars(EngineStep)
  /\ \A d \in Drainers : WF_vars(DrainedAnswer(d)) /\ WF_vars(DrainedResume(d))

(* The timer fires, and the engine does not fail or refuse every time.     *)
Timely == WF_vars(TimerFires) /\ SF_vars(EngineCounts) /\ SF_vars(EngineEmbeds)

(***************************************************************************)
(* Properties.                                                             *)
(***************************************************************************)

(* The fields keep their types, and the stall counter its bound. *)
TypeOK ==
  /\ backlog \in 0..MaxBacklog /\ arrivals \in 0..MaxArrivals
  /\ pc \in {"off", "reading", "embedding", "yielding", "asleep", "woken", "done"}
  /\ answer \in {NoAnswer, Failure} \cup 0..MaxBacklog
  /\ before \in 0..MaxBacklog /\ stalled \in 0..MaxStalled
  /\ draining \in BOOLEAN
  /\ stopped \in BOOLEAN /\ kicked \in BOOLEAN /\ unanswered \in BOOLEAN
  /\ at \in [Drainers -> {"out", "reading", "settling"}]
  /\ waiters \subseteq Drainers

(* The loop does not sleep on a kick: one that comes while it works, or    *)
(* before its first sleep, is answered by a pass and not by the idle timer *)
(* (embed-worker.ts:73-81).                                                *)
SleepsOnNoKick == pc = "asleep" => ~unanswered

(* A stop ends the loop with no help from the timer, wherever it finds it  *)
(* (embed-worker.ts:83-89).                                                *)
StopEndsTheLoop == [](stopped /\ pc # "off" => <>(pc = "done"))

(* No pass goes on for ever, even when the store moves under every batch   *)
(* (embed-worker.ts:146-155).                                              *)
PassesEnd == pc \in {"reading", "embedding", "yielding"} ~> pc \in {"asleep", "woken", "done"}

(* drained() comes back, whoever stops the worker meanwhile, if all is     *)
(* timely (embed-worker.ts:93-118).                                        *)
DrainedResolves ==
  Timely => \A d \in Drainers : at[d] # "out" ~> at[d] = "out"

(* The backlog is drained while the worker runs, kicked or not, likewise   *)
(* (embed-worker.ts:22-37).                                                *)
BacklogIsDrained == Timely => [](pc # "off" => <>(backlog = 0 \/ stopped))

=============================================================================
