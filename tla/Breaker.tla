-------------------------------- MODULE Breaker --------------------------------
(***************************************************************************)
(* The remote embedder's circuit breaker                                   *)
(* (crates/zeromem-core/src/dense/remote.rs): a request is tried twice, a  *)
(* third failure in a row pauses every call for a cooldown, and after it a *)
(* single failure pauses them again.                                       *)
(*                                                                         *)
(* An engine holds its mutex through a job, a query or a batch of texts,   *)
(* which is a call for each chunk of them; so one job is under way at once.*)
(* A call during the pause fails at once and changes nothing: it is no step*)
(* here. Failures beyond the third are alike.                              *)
(***************************************************************************)
EXTENDS Naturals

CONSTANTS
  BreakerTrip,    \* BREAKER_TRIP
  Cooldown,       \* BREAKER_COOLDOWN, in ticks
  MaxChunks       \* bound: chunks of one job

ASSUME BreakerAssumption ==
  /\ BreakerTrip \in Nat \ {0} /\ Cooldown \in Nat \ {0}
  /\ MaxChunks \in Nat \ {0}

VARIABLES
  failures,
  pause,          \* ticks until open_until; 0: past, or None
  request,        \* the one out: "none", "first" or "retry"
  chunks,         \* of the job under way, this one included
  paused,         \* history: a pause ended since a request was answered
  spent           \* history: requests sent since either

breakerVars == <<failures, pause, request, chunks, paused, spent>>

BreakerInit ==
  /\ failures = 0 /\ pause = 0
  /\ request = "none" /\ chunks = 0
  /\ paused = FALSE /\ spent = 0

BeginJob(n) ==
  /\ request = "none" /\ pause = 0
  /\ request' = "first" /\ chunks' = n
  /\ spent' = spent + 1
  /\ UNCHANGED <<failures, pause, paused>>

(* The vectors came, and the next chunk goes out. *)
Answered ==
  /\ request # "none"
  /\ failures' = 0 /\ paused' = FALSE
  /\ chunks' = chunks - 1
  /\ request' = IF chunks' = 0 THEN "none" ELSE "first"
  /\ spent' = IF chunks' = 0 THEN 0 ELSE 1
  /\ UNCHANGED pause

(* A timeout, a lost connection or a 5xx. *)
Retry ==
  /\ request = "first"
  /\ request' = "retry"
  /\ spent' = spent + 1
  /\ UNCHANGED <<failures, pause, chunks, paused>>

(* Bug: only as many failures as trip it do. *)
PauseAtTrip(failed) == IF failed = BreakerTrip /\ failures < BreakerTrip THEN Cooldown ELSE pause

PauseAfter(failed) == IF failed >= BreakerTrip THEN Cooldown ELSE pause

(* Bug: the chunks that are left of a failed job stay. *)
CallFailsAlone ==
  /\ request # "none"
  /\ failures' = IF failures < BreakerTrip THEN failures + 1 ELSE failures
  /\ pause' = PauseAfter(failures')
  /\ request' = "none"
  /\ UNCHANGED <<chunks, paused, spent>>

(* The retry failed too, or what came is not worth one; the job ends. *)
CallFails ==
  /\ request # "none"
  /\ failures' = IF failures < BreakerTrip THEN failures + 1 ELSE failures
  /\ pause' = PauseAfter(failures')
  /\ request' = "none" /\ chunks' = 0
  /\ UNCHANGED <<paused, spent>>

(* Bug: time does not pass while the engine is idle. *)
TickOfAJob ==
  /\ pause > 0 /\ request # "none"
  /\ pause' = pause - 1
  /\ IF pause' = 0 THEN paused' = TRUE /\ spent' = 0 ELSE UNCHANGED <<paused, spent>>
  /\ UNCHANGED <<failures, request, chunks>>

PauseTicks ==
  /\ pause > 0
  /\ pause' = pause - 1
  /\ IF pause' = 0 THEN paused' = TRUE /\ spent' = 0 ELSE UNCHANGED <<paused, spent>>
  /\ UNCHANGED <<failures, request, chunks>>

(* The store names another embedder, or the settings were applied again:    *)
(* a new one is built, which has failed at nothing.                         *)
Rebuilt ==
  /\ request = "none"
  /\ failures' = 0 /\ pause' = 0 /\ paused' = FALSE /\ spent' = 0
  /\ UNCHANGED <<request, chunks>>

Called == \E n \in 1..MaxChunks : BeginJob(n)
CallGoesOn == Answered \/ Retry \/ CallFails

BreakerNext == Called \/ CallGoesOn \/ PauseTicks \/ Rebuilt

BreakerSpec == BreakerInit /\ [][BreakerNext]_breakerVars

(* The worker's timer has it called again and again, a request ends, in a   *)
(* timeout if need be, and time passes.                                     *)
BreakerFairness ==
  WF_breakerVars(Called) /\ WF_breakerVars(CallGoesOn) /\ WF_breakerVars(PauseTicks)

--------------------------------------------------------------------------------

BreakerTypeOK ==
  /\ failures \in 0..BreakerTrip /\ pause \in 0..Cooldown
  /\ request \in {"none", "first", "retry"}
  /\ chunks \in 0..MaxChunks /\ (chunks = 0 <=> request = "none")
  /\ paused \in BOOLEAN /\ spent \in Nat

(* A dead endpoint is cheap: however calls, retries, half-done jobs and      *)
(* cooldowns follow one another, the requests spent on one that answers none *)
(* are two for each of the first three calls, and then two per cooldown     *)
(* (remote.rs:9-13, 187-226).                                               *)
DeadEndpointIsCheap == spent <= IF paused THEN 2 ELSE 2 * BreakerTrip

(* A pause is not for ever: the endpoint is asked again, so that one that   *)
(* has come to answer is found (remote.rs:188-197).                         *)
AskedAgain == pause > 0 ~> request # "none"

================================================================================
