---------------------------- MODULE ServerSettings ----------------------------
(***************************************************************************)
(* The curator settings in the Node server: stored by the engine, kept in  *)
(* a copy that is trusted for five seconds and that every /mcp request     *)
(* goes by (src/server/src/curator.ts, auth.ts), and changed by the routes *)
(* of the settings page (src/server/src/api/routes/settings.ts).           *)
(*                                                                         *)
(* A request runs up to its next await in one step. An engine call is made *)
(* on a worker thread: it takes effect some time after it was issued, in   *)
(* any order with the calls of the other requests, and the request goes on *)
(* some time after that, again in any order. `write` numbers the stored    *)
(* curator configurations; the program has no such number.                 *)
(***************************************************************************)
EXTENDS Naturals

CONSTANTS
  Requests,       \* bound: HTTP requests in flight at once
  Tokens, NoToken,
  Limits,         \* the other curator settings, as a whole
  Absent,         \* a field the body leaves out
  CacheAge,       \* CACHE_MS: how many ticks the copy is trusted for
  MaxWrites       \* bound: writes of the curator settings

ASSUME SettingsAssumption ==
  /\ NoToken \notin Tokens /\ Absent \notin Tokens \cup {NoToken} \cup Limits
  /\ CacheAge \in Nat \ {0} /\ MaxWrites \in Nat

VARIABLES
  stored,         \* meta.curator_config
  cached,         \* CuratorSettingsStore.cached ...
  cacheAge,       \* ... and its age; CacheAge: too old, or none
  requests,       \* what each request is doing
  server          \* how the process was started: [readOnly, envToken]

settingsVars == <<stored, cached, cacheAge, requests, server>>
curatorStore == <<stored, cached, cacheAge>>

Configs == [token : Tokens \cup {NoToken}, limits : Limits, write : 0..MaxWrites]

(* PUT /curator gives every limit, and perhaps a token, null to clear it;   *)
(* POST /curator/token gives a token alone.                                 *)
Updates == [token : Tokens \cup {NoToken, Absent}, limits : Limits]
             \cup [token : Tokens, limits : {Absent}]

(* A request: the await it is at, what it is for, the body it came with and *)
(* the engine's answer. `since` is the configuration stored as it came in.  *)
Request(at, for, body, since) ==
  [at |-> at, for |-> for, body |-> body, since |-> since, got |-> Absent]
Idle == Request("idle", "nothing", Absent, 0)

SettingsInit ==
  /\ stored \in [token : Tokens \cup {NoToken}, limits : Limits, write : {0}]
  /\ cached = stored /\ cacheAge = CacheAge
  /\ requests = [r \in Requests |-> Idle]
  /\ server \in [readOnly : BOOLEAN, envToken : BOOLEAN]

Goes(r, request) == requests' = [requests EXCEPT ![r] = request]

--------------------------------------------------------------------------------
(* A request up to its first await.                                         *)

(* config(), of /mcp's token and exposure and of the settings page: a copy  *)
(* that is young enough is returned at once, which changes nothing.         *)
AskConfig(r) ==
  /\ requests[r] = Idle /\ cacheAge = CacheAge
  /\ Goes(r, Request("asking", "config", Absent, 0))
  /\ UNCHANGED <<curatorStore, server>>

(* Bug: update goes by config(), so by a copy that is young enough.         *)
AskUpdateOfTheCopy(r, update) ==
  /\ requests[r] = Idle
  /\ ~server.readOnly
  /\ update.token # Absent => ~server.envToken
  /\ Goes(r, IF cacheAge < CacheAge
             THEN [Request("answered", "update", update, stored.write) EXCEPT !.got = cached]
             ELSE Request("asking", "update", update, stored.write))
  /\ UNCHANGED <<curatorStore, server>>

(* update and generateToken read the store, never the copy. *)
AskUpdate(r, update) ==
  /\ requests[r] = Idle
  /\ ~server.readOnly
  /\ update.token # Absent => ~server.envToken
  /\ Goes(r, Request("asking", "update", update, stored.write))
  /\ UNCHANGED <<curatorStore, server>>

--------------------------------------------------------------------------------
(* The engine, on its own thread.                                           *)

EngineReads(r) ==
  /\ requests[r].at = "asking"
  /\ Goes(r, [requests[r] EXCEPT !.at = "answered", !.got = stored])
  /\ UNCHANGED <<curatorStore, server>>

Merge(current, update, write) ==
  [token  |-> IF update.token = Absent THEN current.token ELSE update.token,
   limits |-> IF update.limits = Absent THEN current.limits ELSE update.limits,
   write  |-> write]

EngineWrites(r) ==
  /\ requests[r].at = "writing"
  /\ stored.write < MaxWrites
  /\ stored' = Merge(requests[r].got, requests[r].body, stored.write + 1)
  /\ Goes(r, [requests[r] EXCEPT !.at = "written", !.got = stored'])
  /\ UNCHANGED <<cached, cacheAge, server>>

(* A locked database, or limits it refuses: the request ends in an error.   *)
EngineCallFails(r) ==
  /\ requests[r].at \in {"asking", "writing"}
  /\ Goes(r, Idle)
  /\ UNCHANGED <<curatorStore, server>>

--------------------------------------------------------------------------------
(* The request goes on with what the engine answered.                       *)

KeepsConfig(r) ==
  /\ requests[r].at = "answered" /\ requests[r].for = "config"
  /\ cached' = requests[r].got /\ cacheAge' = 0
  /\ Goes(r, Idle)
  /\ UNCHANGED <<stored, server>>

GoesOnToWrite(r) ==
  /\ requests[r].at = "answered" /\ requests[r].for = "update"
  /\ Goes(r, [requests[r] EXCEPT !.at = "writing"])
  /\ UNCHANGED <<curatorStore, server>>

(* write() keeps what was stored; the view the request then returns finds   *)
(* that copy young.                                                         *)
KeepsWritten(r) ==
  /\ requests[r].at = "written"
  /\ cached' = requests[r].got /\ cacheAge' = 0
  /\ Goes(r, Idle)
  /\ UNCHANGED <<stored, server>>

(* Bug: the copy grows old with the requests, not with time. *)
TickOfARequest ==
  /\ cacheAge < CacheAge /\ \E r \in Requests : requests[r] # Idle
  /\ cacheAge' = cacheAge + 1
  /\ UNCHANGED <<stored, cached, requests, server>>

Tick ==
  /\ cacheAge < CacheAge
  /\ cacheAge' = cacheAge + 1
  /\ UNCHANGED <<stored, cached, requests, server>>

(* The process dies and is started again: its requests and its copy are     *)
(* gone, what the engine wrote is not.                                      *)
Restart ==
  /\ requests' = [r \in Requests |-> Idle]
  /\ cacheAge' = CacheAge
  /\ UNCHANGED <<stored, cached, server>>

EngineCallEnds(r) == EngineReads(r) \/ EngineWrites(r)
GoesOn(r) == KeepsConfig(r) \/ GoesOnToWrite(r) \/ KeepsWritten(r)

SettingsNext ==
  \/ \E r \in Requests :
       \/ AskConfig(r)
       \/ \E update \in Updates : AskUpdate(r, update)
       \/ EngineCallEnds(r) \/ EngineCallFails(r) \/ GoesOn(r)
  \/ Tick \/ Restart

SettingsSpec == SettingsInit /\ [][SettingsNext]_settingsVars

(* Engine calls end, in an error if need be (the busy timeout, the end of a *)
(* transaction), the event loop runs what they resolve, and time passes.    *)
SettingsFairness ==
  /\ \A r \in Requests : WF_settingsVars(EngineCallEnds(r)) /\ WF_settingsVars(GoesOn(r))
  /\ WF_settingsVars(Tick)

--------------------------------------------------------------------------------

SettingsTypeOK ==
  /\ stored \in Configs /\ cached \in Configs /\ cacheAge \in 0..CacheAge
  /\ requests \in [Requests ->
       [at : {"idle", "asking", "answered", "writing", "written"},
        for : {"nothing", "config", "update"},
        body : Updates \cup {Absent},
        since : 0..MaxWrites,
        got : Configs \cup {Absent}]]
  /\ server \in [readOnly : BOOLEAN, envToken : BOOLEAN]

(* What an update merges into was stored when the update came in, or later: *)
(* it brings back nothing that was replaced before it was asked for, however *)
(* old the copy is (update and generateToken, curator.ts:60-73). What is    *)
(* replaced between its read and its write it does bring back:              *)
(* EarlierTokensStayOut.                                                    *)
UpdatesOfAFreshRead ==
  \A r \in Requests :
    requests[r].for = "update" /\ requests[r].at \in {"answered", "writing"}
      => requests[r].got.write >= requests[r].since

(* Once the settings are no longer changed, the copy that /mcp goes by comes *)
(* to be what is stored, whatever reads were under way when they last were: *)
(* a read that is answered late may fill it with what was replaced, and such *)
(* a copy is not trusted for ever (curator.ts:24-31, 75-78).                *)
OldSettingsExpire == <>[](cacheAge < CacheAge => cached = stored)

(* "Any earlier token stops working" (src/app/src/routes/settings.tsx:772): *)
(* the token that is stored changes only to the one an update came with, and *)
(* an update without one keeps what is stored (curator.ts:59).              *)
EarlierTokensStayOut ==
  [][stored'.token # stored.token
       => \E r \in Requests :
            /\ requests[r].at = "writing" /\ requests'[r].at = "written"
            /\ requests[r].body.token = stored'.token]_settingsVars

================================================================================
