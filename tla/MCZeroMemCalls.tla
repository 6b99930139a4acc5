---------------------------- MODULE MCZeroMemCalls ----------------------------
(***************************************************************************)
(* One run over two small worlds of ZeroMem. In "reuse" a store without an *)
(* embedder gets one of one model, and two turns: row ids come back while  *)
(* vectors are made, by reads. In "switch" a seeded store has one turn, and*)
(* the embedder changes between two models under the calls, drains among   *)
(* them.                                                                   *)
(***************************************************************************)
EXTENDS MCZeroMem

CONSTANTS MaxInReuse   \* bound: the generations of "reuse"

VARIABLE world

Worlds == {"reuse", "switch"}

(* What bounds each world, of the state and of the calls under way. *)
WithinReuse ==
  /\ generation <= MaxInReuse
  /\ stored # m2 /\ \A p \in Procs : job[p].target # m2 /\ ~job[p].drain

WithinSwitch == t2 \notin Range(turns)

Within == IF world = "reuse" THEN WithinReuse ELSE WithinSwitch

CallsInit ==
  /\ Init
  /\ world \in Worlds
  /\ (world = "switch") = (stored # NoModel)

CallsNext == Next /\ UNCHANGED world /\ Within'

CallsSpec == CallsInit /\ [][CallsNext]_<<vars, world>>

===============================================================================
