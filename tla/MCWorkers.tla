------------------------------- MODULE MCWorkers -------------------------------
(***************************************************************************)
(* One run over four parts that wait for something outside them: the worker*)
(* that drains the backlog, the breaker of the embedder it calls, the      *)
(* server's copy of the curator settings, and the token gate of the admin  *)
(* pages. `part` says which one a behaviour is of; the others stay as they *)
(* began.                                                                  *)
(***************************************************************************)
EXTENDS MCEmbedWorker, Breaker, ServerSettings, TokenGate

CONSTANTS w1, w2, k1, l1, t1, t2, b1, b2

VARIABLE part

Parts == {"worker", "breaker", "settings", "gate"}

allVars == <<part, vars, breakerVars, settingsVars, gateVars>>

(* Where a part may begin in more than one state, it begins in one of them *)
(* when the behaviour is of another; a gate, where no token is needed.     *)
WorkersInit ==
  /\ part \in Parts
  /\ Init /\ BreakerInit /\ SettingsInit /\ GateInit
  /\ part # "worker" => backlog = 0
  /\ part # "settings" => /\ stored = [token |-> NoToken, limits |-> l1, write |-> 0]
                          /\ server = [readOnly |-> TRUE, envToken |-> TRUE]
  /\ part # "gate" => required = NoBearer /\ kept = NoBearer

WorkersNext ==
  /\ UNCHANGED part
  /\ \/ part = "worker" /\ Next /\ UNCHANGED <<breakerVars, settingsVars, gateVars>>
     \/ part = "breaker" /\ BreakerNext /\ UNCHANGED <<vars, settingsVars, gateVars>>
     \/ part = "settings" /\ SettingsNext /\ UNCHANGED <<vars, breakerVars, gateVars>>
     \/ part = "gate" /\ GateNext /\ UNCHANGED <<vars, breakerVars, settingsVars>>

(* PromptSpec's fairness and SettingsFairness as they stand: what they are *)
(* about is out until the worker is started or a request comes. Breaker and*)
(* TokenGate ask of themselves, which only their own behaviours do.        *)
WorkersSpec ==
  /\ WorkersInit /\ [][WorkersNext]_allVars
  /\ WF_vars(LoopStep) /\ WF_vars(EngineStep)
  /\ \A d \in Drainers : WF_vars(DrainedAnswer(d)) /\ WF_vars(DrainedResume(d))
  /\ SettingsFairness
  /\ WF_breakerVars(part = "breaker" /\ Called)
  /\ WF_breakerVars(CallGoesOn) /\ WF_breakerVars(PauseTicks)
  /\ \A t \in Tabs :
       /\ WF_gateVars(part = "gate" /\ Ask(t))
       /\ WF_gateVars(ServerAnswers(t)) /\ WF_gateVars(Responded(t))

(* The types of every part: what one handler leaves is what the next       *)
(* expects; a breaker between calls has no chunks, a request has its body  *)
(* and its answer.                                                         *)
WorkersTypeOK == TypeOK /\ BreakerTypeOK /\ SettingsTypeOK /\ GateTypeOK

================================================================================
