---------------------------- MODULE MCEmbedWorker ----------------------------
(***************************************************************************)
(* Small instances of EmbedWorker: one or two callers of drained().        *)
(***************************************************************************)
EXTENDS EmbedWorker

CONSTANTS d1, d2

=============================================================================
