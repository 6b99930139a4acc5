------------------------------- MODULE TokenGate -------------------------------
(***************************************************************************)
(* The admin UI's bearer token: kept in the browser's local storage, which *)
(* all its tabs share, sent with every request, and asked for by a tab that*)
(* was refused (src/app/src/lib/auth.ts, api.ts, token-gate.tsx, and the   *)
(* Lock button of app-layout.tsx). The gate takes the place of the page,   *)
(* so that a gated tab polls nothing; its requests under way go on.        *)
(***************************************************************************)
EXTENDS Naturals

CONSTANTS
  Tabs,
  Bearers, NoBearer,
  Underway,       \* the answer of a request that has none yet; NoRequest: no request
  NoRequest,
  MaxFaults       \* bound: restarts of the server and requests lost

ASSUME GateAssumption ==
  /\ NoBearer \notin Bearers /\ Underway # NoRequest /\ MaxFaults \in Nat

VARIABLES
  required,       \* MCP_ZEROMEM_TOKEN; NoBearer: auth is off
  kept,           \* localStorage
  needsAuth,      \* tab -> the gate is up
  asking,         \* tab -> its request: [bearer, answer]
  faults

gateVars == <<required, kept, needsAuth, asking, faults>>

GateInit ==
  /\ required \in Bearers \cup {NoBearer}
  /\ kept \in Bearers \cup {NoBearer}
  /\ needsAuth = [t \in Tabs |-> FALSE]
  /\ asking = [t \in Tabs |-> NoRequest]
  /\ faults = 0

Accepts(bearer) == required = NoBearer \/ bearer = required

(* Every page polls the status. *)
Ask(t) ==
  /\ ~needsAuth[t] /\ asking[t] = NoRequest
  /\ asking' = [asking EXCEPT ![t] = [bearer |-> kept, answer |-> Underway]]
  /\ UNCHANGED <<required, kept, needsAuth, faults>>

ServerAnswers(t) ==
  /\ asking[t] # NoRequest /\ asking[t].answer = Underway
  /\ asking' = [asking EXCEPT ![t].answer = IF Accepts(asking[t].bearer) THEN 200 ELSE 401]
  /\ UNCHANGED <<required, kept, needsAuth, faults>>

(* Bug: only a token that was refused is asked about. *)
RespondedToABearer(t) ==
  /\ asking[t] # NoRequest /\ asking[t].answer # Underway
  /\ needsAuth' = [needsAuth EXCEPT ![t] = @ \/ (asking[t].answer = 401 /\ asking[t].bearer # NoBearer)]
  /\ asking' = [asking EXCEPT ![t] = NoRequest]
  /\ UNCHANGED <<required, kept, faults>>

Responded(t) ==
  /\ asking[t] # NoRequest /\ asking[t].answer # Underway
  /\ needsAuth' = [needsAuth EXCEPT ![t] = @ \/ asking[t].answer = 401]
  /\ asking' = [asking EXCEPT ![t] = NoRequest]
  /\ UNCHANGED <<required, kept, faults>>

RequestLost(t) ==
  /\ asking[t] # NoRequest
  /\ faults < MaxFaults
  /\ faults' = faults + 1
  /\ asking' = [asking EXCEPT ![t] = NoRequest]
  /\ UNCHANGED <<required, kept, needsAuth>>

(* A token is typed into the gate; the page is back and asks again. *)
Unlock(t, bearer) ==
  /\ needsAuth[t]
  /\ kept' = bearer
  /\ needsAuth' = [needsAuth EXCEPT ![t] = FALSE]
  /\ UNCHANGED <<required, asking, faults>>

(* Offered on a page whose last status said that auth is on. *)
Lock(t) ==
  /\ ~needsAuth[t]
  /\ kept' = NoBearer
  /\ needsAuth' = [needsAuth EXCEPT ![t] = TRUE]
  /\ UNCHANGED <<required, asking, faults>>

ServerRestarts(bearer) ==
  /\ faults < MaxFaults
  /\ faults' = faults + 1
  /\ required' = bearer
  /\ UNCHANGED <<kept, needsAuth, asking>>

GateNext ==
  \/ \E t \in Tabs :
       \/ Ask(t) \/ ServerAnswers(t) \/ Responded(t) \/ RequestLost(t) \/ Lock(t)
       \/ \E bearer \in Bearers : Unlock(t, bearer)
  \/ \E bearer \in Bearers \cup {NoBearer} : ServerRestarts(bearer)

GateSpec == GateInit /\ [][GateNext]_gateVars

(* A page goes on polling, and what is not lost is answered.                *)
GateFairness ==
  \A t \in Tabs :
    WF_gateVars(Ask(t)) /\ WF_gateVars(ServerAnswers(t)) /\ WF_gateVars(Responded(t))

--------------------------------------------------------------------------------

GateTypeOK ==
  /\ required \in Bearers \cup {NoBearer} /\ kept \in Bearers \cup {NoBearer}
  /\ needsAuth \in [Tabs -> BOOLEAN]
  /\ asking \in [Tabs -> [bearer : Bearers \cup {NoBearer}, answer : {Underway, 200, 401}]
                           \cup {NoRequest}]
  /\ faults \in 0..MaxFaults

(* A token that no longer opens the server, because another tab forgot it   *)
(* (Lock) or the server was started with another, brings every tab to its   *)
(* gate, or is replaced in one of them (auth.ts:38-44, api.ts:80-82).       *)
RefusedTabsAskForAToken ==
  \A t \in Tabs : ~Accepts(kept) ~> (needsAuth[t] \/ Accepts(kept))

================================================================================
