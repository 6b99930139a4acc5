-------------------------------- MODULE MCParts --------------------------------
(***************************************************************************)
(* One run over eight parts that do not meet in one step: the curation log,*)
(* the sweep, the entity tables and their rules, the opening of an older   *)
(* store, the agent that makes a sweep, what recall makes of the flags, and *)
(* two parts of the admin pages.                                           *)
(* `part` says which one a behaviour is of; the others stay as they began. *)
(***************************************************************************)
EXTENDS MCCuration, MCSweep, MCEntities, MCMigration, CuratorAgent, AdminClient, SettingsPage,
        MCRecall

CONSTANTS q1, l1, l2

VARIABLE part

Parts == {"curation", "sweep", "entities", "migration", "agent", "client", "page", "recall"}

allVars == <<part, vars, sweepVars, entitiesVars, migrationVars, agentVars, clientVars, pageVars, recallVars>>

(* Where a part may begin in more than one state, it begins in one of them *)
(* when the behaviour is of another.                                       *)
PartsInit ==
  /\ part \in Parts
  /\ Init /\ SweepInit /\ EntitiesInit /\ MigrationInit /\ AgentInit /\ ClientInit /\ PageInit /\ RecallInit
  /\ part # "migration" => version = SchemaVersion
  /\ part # "agent" => canApply
  /\ part # "page" => settings = [token |-> "set", limits |-> l1, lastRun |-> 0]

PartsNext ==
  /\ UNCHANGED part
  /\ \/ /\ part = "curation" /\ Next
        /\ UNCHANGED <<sweepVars, entitiesVars, migrationVars, agentVars, clientVars, pageVars, recallVars>>
     \/ /\ part = "sweep" /\ SweepNext
        /\ UNCHANGED <<vars, entitiesVars, migrationVars, agentVars, clientVars, pageVars, recallVars>>
     \/ /\ part = "entities" /\ EntitiesNext
        /\ UNCHANGED <<vars, sweepVars, migrationVars, agentVars, clientVars, pageVars, recallVars>>
     \/ /\ part = "migration" /\ MigrationNext
        /\ UNCHANGED <<vars, sweepVars, entitiesVars, agentVars, clientVars, pageVars, recallVars>>
     \/ /\ part = "agent" /\ AgentNext
        /\ UNCHANGED <<vars, sweepVars, entitiesVars, migrationVars, clientVars, pageVars, recallVars>>
     \/ /\ part = "client" /\ ClientNext
        /\ UNCHANGED <<vars, sweepVars, entitiesVars, migrationVars, agentVars, pageVars, recallVars>>
     \/ /\ part = "page" /\ PageNext
        /\ UNCHANGED <<vars, sweepVars, entitiesVars, migrationVars, agentVars, clientVars, recallVars>>
     \/ /\ part = "recall" /\ RecallNext
        /\ UNCHANGED <<vars, sweepVars, entitiesVars, migrationVars, agentVars, clientVars, pageVars>>

PartsSpec == PartsInit /\ [][PartsNext]_allVars

(* The types of every part: what a handler leaves is what the next expects. *)
PartsTypeOK ==
  CASE part = "curation"  -> TypeOK
    [] part = "sweep"     -> SweepTypeOK
    [] part = "entities"  -> EntitiesTypeOK
    [] part = "migration" -> MigrationTypeOK
    [] part = "agent"     -> AgentTypeOK
    [] part = "client"    -> ClientTypeOK
    [] part = "page"      -> PageTypeOK
    [] part = "recall"    -> RecallTypeOK

================================================================================
