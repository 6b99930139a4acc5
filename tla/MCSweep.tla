------------------------------- MODULE MCSweep -------------------------------
(***************************************************************************)
(* Small instances of Sweep: pages of one candidate or two turns.          *)
(***************************************************************************)
EXTENDS Sweep

CONSTANTS c1, c2, dup, noise

CuratorSymmetry == Permutations(Curators)

=============================================================================
