------------------------------ MODULE MCZeroMem ------------------------------
(***************************************************************************)
(* Small instances of ZeroMem: its constants, and its refinement mapping to*)
(* EmbeddingPromise.                                                       *)
(***************************************************************************)
EXTENDS ZeroMem, TLC

CONSTANTS t1, t2, s1, s2, p1, p2, m1, m2

OneSession == [t \in Texts |-> s1]
TwoSessions == [t \in Texts |-> IF t = t1 THEN s1 ELSE s2]

(* Processes are interchangeable; in safety runs they are permuted. *)
ProcSymmetry == Permutations(Procs)

(* The turns with a vector the recorded embedder made from their text. *)
EmbeddedTexts ==
  {t \in Range(turns) :
     \E id \in DOMAIN vecs : turns[id] = t /\ vecs[id].text = t /\ vecs[id].model = stored}

Promise == INSTANCE EmbeddingPromise
             WITH said <- Range(turns), model <- stored, embedded <- EmbeddedTexts,
                  epoch <- generation

(* The processes together keep the promise of EmbeddingPromise: no step of *)
(* one loses a turn or a good vector another wrote, or replaces it by one  *)
(* of an abandoned model, without moving the generation (store.rs          *)
(* write_embeddings: "a writer holding a pre-switch backlog must not       *)
(* overwrite new vectors").                                                *)
KeepsPromise == Promise!Spec

=============================================================================
