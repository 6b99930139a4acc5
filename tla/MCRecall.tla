------------------------------- MODULE MCRecall -------------------------------
(***************************************************************************)
(* A small instance of Recall: a turn, a turn and a note of both said at   *)
(* the same time, and a later turn.                                        *)
(***************************************************************************)
EXTENDS Recall, TLC

TwoAtOnce == [t \in RecallTurns |-> CASE t = 1 -> 1 [] t \in {2, 3} -> 2 [] OTHER -> 3]
NoteOfBoth == 3 :> {1, 2}

===============================================================================
