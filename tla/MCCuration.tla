------------------------------ MODULE MCCuration ------------------------------
(***************************************************************************)
(* Small instances of Curation: two or three turns, one said after another.*)
(***************************************************************************)
EXTENDS Curation

CONSTANTS said1, said2, note1, note2, s1, s2, r1, r2

InOneSession == [u \in Said |-> s1]
OverOneAndBoth == [u \in Notes |-> IF u = note1 THEN {said1} ELSE {said1, said2}]
RunSymmetry == Permutations(Runs)
OneAfterAnother == [u \in Said |-> IF u = said1 THEN 1 ELSE 2]

=============================================================================
