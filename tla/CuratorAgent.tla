----------------------------- MODULE CuratorAgent -----------------------------
(***************************************************************************)
(* mcp-zeromem-curate: one curation run by a local model, in               *)
(* src/server/src/curator-agent/agent.ts. The agent sends the conversation *)
(* to the model, relays the tool calls of its reply to the MCP server one  *)
(* after another, and sends again, until the model replies without a call  *)
(* or the requests are used up. Before each request the oldest tool        *)
(* results are dropped until the conversation fits.                        *)
(*                                                                         *)
(* Texts are their lengths. What a call does to the store is kept only for *)
(* the one that matters to the agent: the run_end that closes the run. The *)
(* server answers a call with a result, of which one may say that it       *)
(* refused the action; with an error; or not in time, having done it.      *)
(***************************************************************************)
EXTENDS Integers, Sequences, FiniteSets, SequencesExt

CONSTANTS
  MaxSteps,       \* requests to the model
  MaxCalls,       \* bound: calls in one reply
  TextSizes,      \* bound: lengths of tool results
  MaxToolChars,   \* a result is clipped to this ...
  MarkerSize,     \* ... and says so
  MaxContextChars,
  DroppedSize,    \* the text left of a dropped result
  ReplySize,      \* bound: length of every reply
  TaskSize        \* the system message and the playbook

ASSUME AgentAssumption ==
  /\ MaxSteps \in Nat \ {0} /\ MaxCalls \in Nat \ {0} /\ TextSizes \subseteq Nat
  /\ {MaxToolChars, MarkerSize, MaxContextChars, DroppedSize, ReplySize, TaskSize} \subseteq Nat

VARIABLES
  agentAt,        \* where the run is
  conversation,   \* messages
  callsLeft,      \* calls of the last reply still to be relayed
  canApply,       \* zeromem_curate_apply is listed: the server is not read-only
  nudged,
  report,         \* [steps, finished, closed]
  runEnds         \* the run_ends the store has recorded of this run

agentVars == <<agentAt, conversation, callsLeft, canApply, nudged, report, runEnds>>

Message(role, size) == [role |-> role, size |-> size]

TheTask == Message("system", TaskSize)
NotClosed == Message("user", 0)
Dropped == Message("dropped", DroppedSize)      \* a tool message whose content is DROPPED

AgentInit ==
  /\ agentAt = "idle"
  /\ conversation = <<TheTask>>
  /\ callsLeft = 0
  /\ canApply \in BOOLEAN
  /\ nudged = FALSE
  /\ report = [steps |-> 0, finished |-> FALSE, closed |-> FALSE]
  /\ runEnds = 0

(* The tools are listed and the playbook fetched, or one of these fails. *)
StartAgent ==
  /\ agentAt = "idle"
  /\ agentAt' \in {"asking", "failed"}
  /\ UNCHANGED <<conversation, callsLeft, canApply, nudged, report, runEnds>>

Clip(size) == IF size <= MaxToolChars THEN size ELSE MaxToolChars + MarkerSize

TotalSize(messages) ==
  LET upto[n \in 0..Len(messages)] == IF n = 0 THEN 0 ELSE upto[n-1] + messages[n].size
  IN upto[Len(messages)]

(* The results are dropped, from the first message on, until what is left  *)
(* of the total fits; a dropped one still counts as `leaves`.              *)
DropOldest(messages, leaves) ==
  LET over(total, m) == total > MaxContextChars /\ m.role = "tool"
      left[n \in 0..Len(messages)] ==
        IF n = 0 THEN TotalSize(messages)
        ELSE LET total == left[n-1] IN
             IF over(total, messages[n]) THEN total - (messages[n].size - leaves) ELSE total
  IN [i \in DOMAIN messages |-> IF over(left[i-1], messages[i]) THEN Dropped ELSE messages[i]]

(* Bug: the newest results are dropped first. *)
TrimFromTheEnd(messages) == Reverse(DropOldest(Reverse(messages), DroppedSize))

(* Bug: what is left of a dropped result is not counted. *)
TrimLeavingNothing(messages) == DropOldest(messages, 0)

(* The oldest results are dropped until the rest fits. *)
Trim(messages) == DropOldest(messages, DroppedSize)

(* The while condition. *)
AskAgain(steps) == IF steps < MaxSteps THEN "asking" ELSE "stopped"

(* The model has been sent the trimmed conversation and replies with calls. *)
ReplyWithCalls(calls) ==
  /\ agentAt = "asking"
  /\ report' = [report EXCEPT !.steps = @ + 1]
  /\ conversation' = Append(Trim(conversation), Message("assistant", ReplySize))
  /\ callsLeft' = calls
  /\ agentAt' = "relaying"
  /\ UNCHANGED <<canApply, nudged, runEnds>>

(* It replies without a call while the run is open, for the first time. *)
ReplyLeavingOpen ==
  /\ agentAt = "asking"
  /\ canApply /\ ~report.closed /\ ~nudged
  /\ nudged' = TRUE
  /\ report' = [report EXCEPT !.steps = @ + 1]
  /\ conversation' = Trim(conversation) \o <<Message("assistant", ReplySize), NotClosed>>
  /\ agentAt' = AskAgain(report'.steps)
  /\ UNCHANGED <<callsLeft, canApply, runEnds>>

ReplyToFinish ==
  /\ agentAt = "asking"
  /\ ~canApply \/ report.closed \/ nudged
  /\ report' = [report EXCEPT !.steps = @ + 1, !.finished = TRUE]
  /\ conversation' = Append(Trim(conversation), Message("assistant", ReplySize))
  /\ agentAt' = "done"
  /\ UNCHANGED <<callsLeft, canApply, nudged, runEnds>>

(* complete() throws: no answer in time, not a 2xx, not the shape expected. *)
ModelFails ==
  /\ agentAt = "asking"
  /\ agentAt' = "failed"
  /\ UNCHANGED <<conversation, callsLeft, canApply, nudged, report, runEnds>>

(***************************************************************************)
(* One call is relayed and answered. `ends`: it is an apply with a run_end *)
(* in it that is not a dry run; `isError`: it has no result; `recorded`:   *)
(* the store has the run_end. A call for a tool that is not listed, or     *)
(* whose arguments are not JSON, never reaches the server.                 *)
(***************************************************************************)
Relayed(ends, isError, recorded, size) ==
  /\ agentAt = "relaying"
  /\ recorded => ends /\ canApply
  /\ ends /\ ~canApply => isError
  /\ runEnds' = IF recorded THEN runEnds + 1 ELSE runEnds
  /\ report' = [report EXCEPT !.closed = @ \/ (ends /\ ~isError)]
  /\ conversation' = Append(conversation, Message("tool", Clip(size)))
  /\ callsLeft' = callsLeft - 1
  /\ agentAt' = IF callsLeft' = 0 THEN AskAgain(report.steps) ELSE agentAt
  /\ UNCHANGED <<canApply, nudged>>

AnswerCall == \E ends, isError, recorded \in BOOLEAN, size \in TextSizes :
                 Relayed(ends, isError, recorded, size)

Reply == (\E calls \in 1..MaxCalls : ReplyWithCalls(calls)) \/ ReplyLeavingOpen \/ ReplyToFinish

AgentNext == StartAgent \/ Reply \/ ModelFails \/ AnswerCall

AgentSpec == AgentInit /\ [][AgentNext]_agentVars

--------------------------------------------------------------------------------

AgentTypeOK ==
  /\ agentAt \in {"idle", "asking", "relaying", "done", "stopped", "failed"}
  /\ conversation \in Seq([role : {"system", "user", "assistant", "tool", "dropped"}, size : Nat])
  /\ callsLeft \in 0..MaxCalls /\ (callsLeft > 0 <=> agentAt = "relaying")
  /\ canApply \in BOOLEAN /\ nudged \in BOOLEAN
  /\ report \in [steps : 0..MaxSteps, finished : BOOLEAN, closed : BOOLEAN]
  /\ runEnds \in Nat

(* What is dropped is always older than what is kept, over all the requests *)
(* of a run: a result the model has lately read is not lost while one from  *)
(* the start stays (trim, agent.ts:211-223).                                *)
OldestDroppedFirst ==
  \A i, j \in DOMAIN conversation :
    conversation[i].role = "tool" /\ conversation[j].role = "dropped" => j < i

(* A conversation that is sent fits the context or has no result left to    *)
(* drop (agent.ts:109).                                                     *)
SentFits ==
  [][report'.steps > report.steps =>
       LET sent == SubSeq(conversation', 1, Len(conversation))
       IN \/ TotalSize(sent) <= MaxContextChars
          \/ \A i \in DOMAIN sent : sent[i].role # "tool"]_agentVars

(* "A `run_end` was applied" (AgentReport.closed, agent.ts:36): a run that  *)
(* is reported closed has its run_end in the log.                           *)
ClosedAsReported == report.closed => runEnds > 0

================================================================================
