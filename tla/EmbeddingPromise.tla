--------------------------- MODULE EmbeddingPromise ---------------------------
(***************************************************************************)
(* What the engine promises about vectors, however many processes serve    *)
(* it: turns are remembered, one model embeds them, and some of them have  *)
(* a vector of that model.  A vector is lost only when its turn is         *)
(* forgotten, when the model changes or when every vector is dropped, and  *)
(* each of those moves the epoch, which is how a reader learns of it.      *)
(***************************************************************************)
EXTENDS Naturals

CONSTANTS Texts, Models, NoModel

VARIABLES said, model, embedded, epoch

promiseVars == <<said, model, embedded, epoch>>

Init ==
  /\ said = {}
  /\ embedded = {}
  /\ epoch = 0
  /\ model \in Models \cup {NoModel}

(* A turn is remembered once, with or without its vector. *)
Say(t) ==
  /\ t \notin said
  /\ said' = said \cup {t}
  /\ embedded' \in {embedded} \cup (IF model = NoModel THEN {} ELSE {embedded \cup {t}})
  /\ UNCHANGED <<model, epoch>>

(* Turns the model had not reached yet get their vector. *)
Embed(ts) ==
  /\ model # NoModel
  /\ embedded' = embedded \cup ts
  /\ UNCHANGED <<said, model, epoch>>

Forget(ts) ==
  /\ said' = said \ ts
  /\ embedded' = embedded \ ts
  /\ epoch' = epoch + 1
  /\ UNCHANGED model

DropAll ==
  /\ embedded' = {}
  /\ epoch' = epoch + 1
  /\ UNCHANGED <<said, model>>

(* The first model is chosen before anything could be embedded. *)
ChooseFirst(m) ==
  /\ model = NoModel
  /\ model' = m
  /\ UNCHANGED <<said, embedded, epoch>>

(* Another model means no vector at all. *)
Choose(m) ==
  /\ model' = m
  /\ embedded' = {}
  /\ epoch' = epoch + 1
  /\ UNCHANGED said

Next ==
  \/ \E t \in Texts : Say(t)
  \/ \E ts \in SUBSET said : Embed(ts) \/ Forget(ts)
  \/ DropAll
  \/ \E m \in Models : ChooseFirst(m) \/ Choose(m)

Spec == Init /\ [][Next]_promiseVars

=============================================================================
