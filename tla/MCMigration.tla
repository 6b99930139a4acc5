------------------------------ MODULE MCMigration ------------------------------
(***************************************************************************)
(* Small instances of Migration: one or two processes open the store.      *)
(***************************************************************************)
EXTENDS Migration

CONSTANTS p1, p2

==============================================================================
