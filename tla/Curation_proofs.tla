---------------------------- MODULE Curation_proofs ----------------------------
(***************************************************************************)
(* The flags and notes of the store are those of the log.  A replay of the *)
(* log is a recursive function; that it says of each turn what the turn's  *)
(* last live actions say is proved by induction over the prefixes of the   *)
(* log.  The rest is an inductive invariant in those words.                *)
(***************************************************************************)
EXTENDS Curation, Induction


NothingSaid == [u \in Turns |-> Unflagged]

(* The function by which Replay is defined. *)
IsReplay(f, actions, m) ==
  f = [n \in 0..m |-> IF n = 0 THEN NothingSaid ELSE Replayed(f[n-1], actions[n])]

LEMMA ReplayExists ==
  ASSUME NEW actions, NEW m \in Nat
  PROVE  \E f : IsReplay(f, actions, m)
<1> DEFINE Lengths == {k \in Nat : \E f : IsReplay(f, actions, k)}
<1>1. 0 \in Lengths
  <2>1. IsReplay([n \in 0..0 |-> NothingSaid], actions, 0)
    BY DEF IsReplay
  <2> QED
    BY <2>1
<1>2. ASSUME NEW k \in Nat, k \in Lengths PROVE k + 1 \in Lengths
  <2>1. PICK f : IsReplay(f, actions, k)
    BY <1>2
  <2> DEFINE g == [n \in 0..k+1 |-> IF n = k + 1 THEN Replayed(f[k], actions[k+1]) ELSE f[n]]
  <2>2. \A n \in 0..k+1 : g[n] = IF n = 0 THEN NothingSaid ELSE Replayed(g[n-1], actions[n])
    BY <2>1 DEF IsReplay
  <2>3. IsReplay(g, actions, k+1)
    BY <2>2 DEF IsReplay
  <2> QED
    BY <2>3
<1>3. \A k \in Nat : k \in Lengths
  <2> HIDE DEF Lengths
  <2> QED
    BY <1>1, <1>2, Induction
<1> QED
  BY <1>3

LEMMA ReplayUnfolds ==
  ASSUME NEW actions, Len(actions) \in Nat
  PROVE  \E f : IsReplay(f, actions, Len(actions)) /\ Replay(actions) = f[Len(actions)]
<1> DEFINE f == CHOOSE f : IsReplay(f, actions, Len(actions))
<1>1. IsReplay(f, actions, Len(actions))
  BY ReplayExists
<1>2. Replay(actions) = f[Len(actions)]
  BY DEF Replay, IsReplay, NothingSaid
<1> QED
  BY <1>1, <1>2

(* The turn the last live "supersede" of `u` names. *)
LastBy(actions, u) ==
  LET supersedes == Live(actions, {"supersede"}, u) IN
  IF supersedes = {} THEN NoTurn ELSE actions[Max(supersedes)].by

(* What the first n actions say of a turn, in the words of the fold. *)
Upto(actions, ops, u, n) == {i \in Live(actions, ops, u) : i <= n}

LEMMA UptoGrows ==
  ASSUME NEW actions \in Seq(Action), NEW ops, NEW u, NEW n \in 0..Len(actions)-1
  PROVE  IF ~actions[n+1].undone /\ actions[n+1].op \in ops /\ u \in actions[n+1].turns
         THEN /\ Upto(actions, ops, u, n+1) = Upto(actions, ops, u, n) \cup {n+1}
              /\ Max(Upto(actions, ops, u, n+1)) = n+1
         ELSE Upto(actions, ops, u, n+1) = Upto(actions, ops, u, n)
<1>1. DOMAIN actions = 1..Len(actions)
  OBVIOUS
<1>2. CASE ~actions[n+1].undone /\ actions[n+1].op \in ops /\ u \in actions[n+1].turns
  <2>1. Upto(actions, ops, u, n+1) = Upto(actions, ops, u, n) \cup {n+1}
    BY <1>1, <1>2 DEF Upto, Live
  <2>2. Upto(actions, ops, u, n+1) \in SUBSET Int
    BY <1>1 DEF Upto, Live
  <2>3. \A x \in Upto(actions, ops, u, n+1) : x <= n+1
    BY DEF Upto
  <2>4. Max(Upto(actions, ops, u, n+1)) = n+1
    BY <2>1, <2>2, <2>3, LargestIsMax
  <2> QED
    BY <1>2, <2>1, <2>4
<1>3. CASE ~ (~actions[n+1].undone /\ actions[n+1].op \in ops /\ u \in actions[n+1].turns)
  <2>1. Upto(actions, ops, u, n+1) = Upto(actions, ops, u, n)
    BY <1>1, <1>3 DEF Upto, Live
  <2> QED
    BY <1>3, <2>1
<1> QED
  BY <1>2, <1>3

HiddenUpto(actions, u, n) ==
  LET hides == Upto(actions, {"hide", "unhide"}, u, n) IN
  hides # {} /\ actions[Max(hides)].op = "hide"

LastByUpto(actions, u, n) ==
  LET supersedes == Upto(actions, {"supersede"}, u, n) IN
  IF supersedes = {} THEN NoTurn ELSE actions[Max(supersedes)].by

(* A replay of the log says of each turn what its last live actions say.   *)
LEMMA ReplayIsTheFold ==
  ASSUME NEW actions \in Seq(Action), NEW u \in Turns
  PROVE  /\ Replay(actions)[u].hidden = Hidden(actions, u)
         /\ Replay(actions)[u].by = LastBy(actions, u)
<1>1. Len(actions) \in Nat
  OBVIOUS
<1>2. PICK f : IsReplay(f, actions, Len(actions)) /\ Replay(actions) = f[Len(actions)]
  BY <1>1, ReplayUnfolds
<1> DEFINE Agrees(n) == /\ f[n] \in [Turns -> Flag]
                        /\ f[n][u].hidden <=> HiddenUpto(actions, u, n)
                        /\ f[n][u].by = LastByUpto(actions, u, n)
<1> DEFINE Agreeing == {n \in Nat : n <= Len(actions) => Agrees(n)}
<1>3. 0 \in Agreeing
  <2>1. f[0] = NothingSaid
    BY <1>1, <1>2 DEF IsReplay
  <2>2. \A ops : Upto(actions, ops, u, 0) = {}
    BY DEF Upto, Live
  <2>3. f[0] \in [Turns -> Flag]
    BY <2>1 DEF NothingSaid, Unflagged, Flag
  <2>4. f[0][u] = [hidden |-> FALSE, by |-> NoTurn]
    BY <2>1 DEF NothingSaid, Unflagged
  <2>5. ~HiddenUpto(actions, u, 0) /\ HiddenUpto(actions, u, 0) \in BOOLEAN
    BY <2>2 DEF HiddenUpto
  <2>6. LastByUpto(actions, u, 0) = NoTurn
    BY <2>2 DEF LastByUpto
  <2> QED
    BY <2>3, <2>4, <2>5, <2>6
<1>4. ASSUME NEW n \in Nat, n \in Agreeing, n + 1 <= Len(actions) PROVE Agrees(n+1)
  <2> DEFINE a == actions[n+1]
  <2>1. Agrees(n) /\ n \in 0..Len(actions)-1
    BY <1>1, <1>4
  <2>2. f[n+1] = Replayed(f[n], a)
    BY <1>1, <1>2, <1>4 DEF IsReplay
  <2>3. a \in Action
    BY <1>4
  <2>4. f[n+1] \in [Turns -> Flag]
    <3>1. ASSUME NEW v \in Turns PROVE f[n+1][v] \in Flag
      <4>1. f[n][v] \in Flag
        BY <2>1
      <4>2. a.by \in Turns \cup {NoTurn} /\ a.op \in {"hide", "unhide", "supersede", "note"}
        BY <2>3 DEF Action
      <4>3. f[n+1][v] \in {f[n][v], [f[n][v] EXCEPT !.hidden = TRUE],
                           [f[n][v] EXCEPT !.hidden = FALSE], [f[n][v] EXCEPT !.by = a.by]}
        BY <2>2, <4>2 DEF Replayed
      <4> QED
        BY <4>1, <4>2, <4>3 DEF Flag
    <3>2. f[n+1] = [v \in Turns |-> f[n+1][v]]
      BY <2>2 DEF Replayed
    <3> QED
      BY <3>1, <3>2
  <2>5. CASE a.undone \/ u \notin a.turns \/ a.op = "note"
    <3>1. f[n+1][u] = f[n][u]
      BY <2>2, <2>5 DEF Replayed
    <3>2. /\ Upto(actions, {"hide", "unhide"}, u, n+1) = Upto(actions, {"hide", "unhide"}, u, n)
          /\ Upto(actions, {"supersede"}, u, n+1) = Upto(actions, {"supersede"}, u, n)
      <4>1. ~ (~a.undone /\ a.op \in {"hide", "unhide"} /\ u \in a.turns)
        BY <2>5
      <4>2. ~ (~a.undone /\ a.op \in {"supersede"} /\ u \in a.turns)
        BY <2>5
      <4> QED
        BY <2>1, <4>1, <4>2, UptoGrows
    <3>3. /\ HiddenUpto(actions, u, n+1) <=> HiddenUpto(actions, u, n)
          /\ LastByUpto(actions, u, n+1) = LastByUpto(actions, u, n)
      BY <3>2 DEF HiddenUpto, LastByUpto
    <3>4. HiddenUpto(actions, u, n+1) \in BOOLEAN /\ HiddenUpto(actions, u, n) \in BOOLEAN
      BY DEF HiddenUpto
    <3> QED
      BY <2>1, <2>4, <3>1, <3>3, <3>4
  <2>6. CASE ~a.undone /\ u \in a.turns /\ a.op \in {"hide", "unhide"}
    <3>1. f[n+1][u] = [f[n][u] EXCEPT !.hidden = (a.op = "hide")]
      BY <2>1, <2>2, <2>6 DEF Replayed
    <3>2. HiddenUpto(actions, u, n+1) <=> a.op = "hide"
      BY <2>1, <2>6, UptoGrows DEF HiddenUpto
    <3>3. LastByUpto(actions, u, n+1) = LastByUpto(actions, u, n)
      BY <2>1, <2>6, UptoGrows DEF LastByUpto
    <3>4. HiddenUpto(actions, u, n+1) \in BOOLEAN
      BY DEF HiddenUpto
    <3> QED
      BY <2>1, <2>4, <3>1, <3>2, <3>3, <3>4 DEF Flag
  <2>7. CASE ~a.undone /\ u \in a.turns /\ a.op = "supersede"
    <3>1. f[n+1][u] = [f[n][u] EXCEPT !.by = a.by]
      BY <2>1, <2>2, <2>7 DEF Replayed
    <3>2. HiddenUpto(actions, u, n+1) <=> HiddenUpto(actions, u, n)
      BY <2>1, <2>7, UptoGrows DEF HiddenUpto
    <3>3. LastByUpto(actions, u, n+1) = a.by
      BY <2>1, <2>7, UptoGrows DEF LastByUpto
    <3> QED
      BY <2>1, <2>4, <3>1, <3>2, <3>3 DEF Flag
  <2> QED
    BY <2>3, <2>5, <2>6, <2>7 DEF Action
<1>5. \A n \in Nat : n \in Agreeing
  <2>1. \A n \in Nat : n \in Agreeing => n + 1 \in Agreeing
    BY <1>4
  <2> HIDE DEF Agreeing
  <2> QED
    BY <1>3, <2>1, Induction
<1>6. Agrees(Len(actions))
  BY <1>1, <1>5
<1>7. \A ops : Upto(actions, ops, u, Len(actions)) = Live(actions, ops, u)
  BY <1>1 DEF Upto, Live
<1> QED
  <2>1. HiddenUpto(actions, u, Len(actions)) <=> Hidden(actions, u)
    BY <1>7 DEF HiddenUpto, Hidden
  <2>2. LastByUpto(actions, u, Len(actions)) = LastBy(actions, u)
    BY <1>7 DEF LastByUpto, LastBy
  <2>3. f[Len(actions)][u].hidden \in BOOLEAN /\ Hidden(actions, u) \in BOOLEAN
    BY <1>6 DEF Flag, Hidden
  <2> QED
    BY <1>2, <1>6, <2>1, <2>2, <2>3

(***************************************************************************)
(* What an action leaves as it is.                                         *)
(***************************************************************************)

LEMMA FoldTypes ==
  ASSUME NEW actions \in Seq(Action), NEW u, NEW present
  PROVE  /\ Hidden(actions, u) \in BOOLEAN
         /\ LastBy(actions, u) \in Turns \cup {NoTurn}
         /\ SupersededBy(actions, u, present) \in Turns \cup {NoTurn}
         /\ NoTurn \notin present =>
              SupersededBy(actions, u, present)
                = IF LastBy(actions, u) \in present THEN LastBy(actions, u) ELSE NoTurn
         /\ Live(actions, {"supersede"}, u) # {} =>
              \E i \in DOMAIN actions : actions[i].by = LastBy(actions, u)
<1> DEFINE supersedes == Live(actions, {"supersede"}, u)
<1>1. Hidden(actions, u) \in BOOLEAN
  BY DEF Hidden
<1>2. CASE supersedes = {}
  BY <1>1, <1>2 DEF LastBy, SupersededBy
<1>3. CASE supersedes # {}
  <2>1. supersedes \in SUBSET DOMAIN actions
    BY DEF Live
  <2>2. Max(supersedes) \in supersedes
    BY <1>3, <2>1, MaxOfPositions
  <2>3. LastBy(actions, u) = actions[Max(supersedes)].by
    BY <1>3 DEF LastBy
  <2>4. actions[Max(supersedes)] \in Action
    BY <2>1, <2>2
  <2>5. LastBy(actions, u) \in Turns \cup {NoTurn}
    BY <2>3, <2>4 DEF Action
  <2>6. SupersededBy(actions, u, present)
          = IF LastBy(actions, u) \in present THEN LastBy(actions, u) ELSE NoTurn
    BY <1>3, <2>3 DEF SupersededBy
  <2> QED
    BY <1>1, <2>1, <2>2, <2>3, <2>5, <2>6
<1> QED
  BY <1>2, <1>3

(* The fold of a turn reads nothing but the live actions that name it.     *)
LEMMA FoldReads ==
  ASSUME NEW before \in Seq(Action), NEW after \in Seq(Action), NEW u,
         \A ops \in {{"hide", "unhide"}, {"supersede"}} : Live(before, ops, u) = Live(after, ops, u),
         \A i \in DOMAIN before : i \in DOMAIN after /\ before[i].op = after[i].op
                                  /\ before[i].by = after[i].by
  PROVE  /\ Hidden(before, u) <=> Hidden(after, u)
         /\ LastBy(before, u) = LastBy(after, u)
<1>1. ASSUME NEW ops, Live(before, ops, u) # {}
      PROVE  Max(Live(before, ops, u)) \in DOMAIN before
  <2>1. Live(before, ops, u) \in SUBSET DOMAIN before
    BY DEF Live
  <2> QED
    BY <1>1, <2>1, MaxOfPositions
<1>2. Hidden(before, u) <=> Hidden(after, u)
  BY <1>1 DEF Hidden
<1>3. LastBy(before, u) = LastBy(after, u)
  BY <1>1 DEF LastBy
<1> QED
  BY <1>2, <1>3

(* An action that does not name a turn leaves its fold as it is, and so    *)
(* does a note.                                                            *)
LEMMA AppendLeavesOthers ==
  ASSUME NEW actions \in Seq(Action), NEW a \in Action, NEW u, u \notin a.turns \/ a.op = "note"
  PROVE  /\ Hidden(actions, u) <=> Hidden(Append(actions, a), u)
         /\ LastBy(actions, u) = LastBy(Append(actions, a), u)
<1> DEFINE after == Append(actions, a)
<1>1. /\ after \in Seq(Action)
      /\ DOMAIN after = DOMAIN actions \cup {Len(actions) + 1}
      /\ after[Len(actions) + 1] = a
      /\ \A i \in DOMAIN actions : after[i] = actions[i]
  OBVIOUS
<1>2. ASSUME NEW ops \in {{"hide", "unhide"}, {"supersede"}}
      PROVE  Live(actions, ops, u) = Live(after, ops, u)
  <2>1. "note" \notin ops
    OBVIOUS
  <2>2. Len(actions) + 1 \notin Live(after, ops, u)
    BY <1>1, <2>1 DEF Live
  <2> HIDE DEF after
  <2> QED
    BY <1>1, <2>2 DEF Live
<1> HIDE DEF after
<1>3. Hidden(actions, u) <=> Hidden(after, u)
  BY <1>1, <1>2, FoldReads
<1>4. LastBy(actions, u) = LastBy(after, u)
  BY <1>1, <1>2, FoldReads
<1> QED
  BY <1>3, <1>4 DEF after

(* The log with the actions `ids` undone. *)
WithUndone(actions, ids) ==
  [i \in DOMAIN actions |-> [actions[i] EXCEPT !.undone = @ \/ i \in ids]]

LEMMA UndoneLog ==
  ASSUME NEW actions \in Seq(Action), NEW ids
  PROVE  /\ WithUndone(actions, ids) \in Seq(Action)
         /\ DOMAIN WithUndone(actions, ids) = DOMAIN actions
         /\ \A i \in DOMAIN actions :
              /\ WithUndone(actions, ids)[i].op = actions[i].op
              /\ WithUndone(actions, ids)[i].by = actions[i].by
              /\ WithUndone(actions, ids)[i].turns = actions[i].turns
              /\ WithUndone(actions, ids)[i].undone <=> actions[i].undone \/ i \in ids
<1>1. ASSUME NEW i \in DOMAIN actions
      PROVE  /\ actions[i] \in Action
             /\ WithUndone(actions, ids)[i] = [actions[i] EXCEPT !.undone = @ \/ i \in ids]
             /\ WithUndone(actions, ids)[i] \in Action
  <2>1. actions[i] \in Action
    OBVIOUS
  <2>2. WithUndone(actions, ids)[i] = [actions[i] EXCEPT !.undone = @ \/ i \in ids]
    BY DEF WithUndone
  <2>3. (actions[i].undone \/ i \in ids) \in BOOLEAN
    OBVIOUS
  <2>4. [actions[i] EXCEPT !.undone = @ \/ i \in ids] \in Action
    BY <2>1, <2>3 DEF Action
  <2> QED
    BY <2>1, <2>2, <2>4
<1>2. DOMAIN actions = 1..Len(actions) /\ Len(actions) \in Nat
  OBVIOUS
<1>3. WithUndone(actions, ids) \in [1..Len(actions) -> Action]
  BY <1>1, <1>2 DEF WithUndone
<1>4. WithUndone(actions, ids) \in Seq(Action)
  BY <1>2, <1>3
<1>5. DOMAIN WithUndone(actions, ids) = DOMAIN actions
  BY DEF WithUndone
<1>6. ASSUME NEW i \in DOMAIN actions
      PROVE  /\ WithUndone(actions, ids)[i].op = actions[i].op
             /\ WithUndone(actions, ids)[i].by = actions[i].by
             /\ WithUndone(actions, ids)[i].turns = actions[i].turns
             /\ WithUndone(actions, ids)[i].undone <=> actions[i].undone \/ i \in ids
  BY <1>1 DEF Action
<1> QED
  BY <1>4, <1>5, <1>6

LEMMA UndoLeavesOthers ==
  ASSUME NEW actions \in Seq(Action), NEW ids, NEW u,
         \A i \in ids \cap DOMAIN actions : u \notin actions[i].turns
  PROVE  /\ Hidden(actions, u) <=> Hidden(WithUndone(actions, ids), u)
         /\ LastBy(actions, u) = LastBy(WithUndone(actions, ids), u)
<1>1. /\ WithUndone(actions, ids) \in Seq(Action)
      /\ DOMAIN WithUndone(actions, ids) = DOMAIN actions
      /\ \A i \in DOMAIN actions :
           /\ WithUndone(actions, ids)[i].op = actions[i].op
           /\ WithUndone(actions, ids)[i].by = actions[i].by
           /\ WithUndone(actions, ids)[i].turns = actions[i].turns
           /\ WithUndone(actions, ids)[i].undone <=> actions[i].undone \/ i \in ids
  BY UndoneLog
<1>2. \A ops : Live(actions, ops, u) = Live(WithUndone(actions, ids), ops, u)
  BY <1>1 DEF Live
<1> QED
  BY <1>1, <1>2, FoldReads

(***************************************************************************)
(* The inductive invariant: the properties, with the fold for the replay,  *)
(* and that a note some action names as `by` is one some action wrote, so  *)
(* that one that comes back is known to have been there.                   *)
(***************************************************************************)

FlagsAreTheFold ==
  \A u \in DOMAIN turns \ returned :
    /\ flags[u].hidden <=> Hidden(log, u)
    /\ LastBy(log, u) \notin returned =>
         flags[u].by = IF LastBy(log, u) \in DOMAIN turns THEN LastBy(log, u) ELSE NoTurn

NoFlagOutlivesTheFold ==
  \A u \in DOMAIN turns :
    /\ flags[u].hidden => Hidden(log, u)
    /\ flags[u].by \in {NoTurn, LastBy(log, u)}

NamedNotesWereWritten ==
  \A i \in DOMAIN log : log[i].by \in Notes => \E j \in DOMAIN log : log[i].by \in log[j].turns

CurationInv ==
  /\ TypeOK
  /\ FlagsAreTheFold
  /\ NoFlagOutlivesTheFold
  /\ NotesOfTheLog
  /\ NamedNotesWereWritten

LEMMA InitCurationInv == Init => CurationInv
<1> SUFFICES ASSUME Init PROVE CurationInv
  OBVIOUS
<1> USE DEF Init
<1>1. DOMAIN turns = Said /\ turns \in [Said -> Sessions]
  BY SaidAssumption
<1>2. TypeOK
  BY <1>1 DEF TypeOK, Flag, Unflagged, Turns
<1>3. \A u : ~Hidden(log, u) /\ LastBy(log, u) = NoTurn
  BY DEF Hidden, LastBy, Live
<1>4. FlagsAreTheFold
  BY <1>1, <1>3, NotesAssumption DEF FlagsAreTheFold, Unflagged
<1>5. NoFlagOutlivesTheFold
  BY <1>1, <1>3 DEF NoFlagOutlivesTheFold, Unflagged
<1>6. NotesOfTheLog
  BY <1>1, NotesAssumption DEF NotesOfTheLog
<1>7. NamedNotesWereWritten
  BY DEF NamedNotesWereWritten
<1> QED
  BY <1>2, <1>4, <1>5, <1>6, <1>7 DEF CurationInv

(***************************************************************************)
(* What recompute_flags does to the invariant, whatever the transaction did*)
(* before it: the turns it does not refold must be ones of which the log   *)
(* says what it did, and what came back to the store or to a link must be  *)
(* counted among what returned.                                            *)
(***************************************************************************)
LEMMA RefoldKeepsFlags ==
  ASSUME TypeOK, FlagsAreTheFold, NoFlagOutlivesTheFold,
         NEW us, RecomputeFlags(us),
         DOMAIN turns' \subseteq Turns, log' \in Seq(Action), returned \subseteq returned',
         \A u \in (DOMAIN turns \cap DOMAIN turns') \ us :
           (Hidden(log, u) <=> Hidden(log', u)) /\ LastBy(log, u) = LastBy(log', u),
         \A u \in DOMAIN turns' \ DOMAIN turns :
           u \in returned' \/ (~Hidden(log', u) /\ LastBy(log', u) = NoTurn),
         \A u \in DOMAIN turns :
           LastBy(log, u) \in DOMAIN turns' \ DOMAIN turns => LastBy(log, u) \in returned'
  PROVE  /\ flags' \in [DOMAIN turns' -> Flag]
         /\ FlagsAreTheFold'
         /\ NoFlagOutlivesTheFold'
<1>0. NoTurn \notin DOMAIN turns' /\ NoTurn \notin DOMAIN turns
  BY NotesAssumption DEF Turns, TypeOK
<1>a. DOMAIN flags = DOMAIN turns /\ flags \in [DOMAIN turns -> Flag]
  BY DEF TypeOK
<1>1. ASSUME NEW u \in DOMAIN turns'
      PROVE  /\ flags'[u] \in Flag
             /\ u \notin returned' =>
                  /\ flags'[u].hidden <=> Hidden(log', u)
                  /\ LastBy(log', u) \notin returned' =>
                       flags'[u].by = IF LastBy(log', u) \in DOMAIN turns' THEN LastBy(log', u) ELSE NoTurn
             /\ flags'[u].hidden => Hidden(log', u)
             /\ flags'[u].by \in {NoTurn, LastBy(log', u)}
  <2>1. CASE u \in us
    <3>1. flags'[u] = [hidden |-> Hidden(log', u), by |-> SupersededBy(log', u, DOMAIN turns')]
      BY <2>1 DEF RecomputeFlags
    <3>2. /\ Hidden(log', u) \in BOOLEAN
          /\ LastBy(log', u) \in Turns \cup {NoTurn}
          /\ SupersededBy(log', u, DOMAIN turns') \in Turns \cup {NoTurn}
          /\ SupersededBy(log', u, DOMAIN turns')
               = IF LastBy(log', u) \in DOMAIN turns' THEN LastBy(log', u) ELSE NoTurn
      BY <1>0, FoldTypes
    <3> QED
      BY <3>1, <3>2 DEF Flag
  <2>2. CASE u \in DOMAIN turns \ us
    <3>1. flags'[u] = [flags[u] EXCEPT !.by = IF @ \in DOMAIN turns' THEN @ ELSE NoTurn]
      BY <1>a, <2>2 DEF RecomputeFlags
    <3>2. flags[u] \in Flag
      BY <1>a, <2>2
    <3>3. /\ flags'[u] \in Flag
          /\ flags'[u].hidden = flags[u].hidden
          /\ flags'[u].by = IF flags[u].by \in DOMAIN turns' THEN flags[u].by ELSE NoTurn
      BY <3>1, <3>2 DEF Flag
    <3>4. (Hidden(log, u) <=> Hidden(log', u)) /\ LastBy(log, u) = LastBy(log', u)
      BY <2>2
    <3>5. (flags[u].hidden => Hidden(log, u)) /\ flags[u].by \in {NoTurn, LastBy(log, u)}
      BY <2>2 DEF NoFlagOutlivesTheFold
    <3>6. ASSUME u \notin returned' PROVE flags'[u].hidden <=> Hidden(log', u)
      BY <2>2, <3>3, <3>4, <3>6 DEF FlagsAreTheFold
    <3>7. ASSUME u \notin returned', LastBy(log', u) \notin returned'
          PROVE  flags'[u].by = IF LastBy(log', u) \in DOMAIN turns' THEN LastBy(log', u) ELSE NoTurn
      <4>1. flags[u].by = IF LastBy(log, u) \in DOMAIN turns THEN LastBy(log, u) ELSE NoTurn
        BY <2>2, <3>4, <3>7 DEF FlagsAreTheFold
      <4>2. LastBy(log, u) \in DOMAIN turns' => LastBy(log, u) \in DOMAIN turns
        BY <2>2, <3>4, <3>7
      <4> QED
        BY <1>0, <3>3, <3>4, <4>1, <4>2
    <3> QED
      BY <3>3, <3>4, <3>5, <3>6, <3>7
  <2>3. CASE u \notin DOMAIN turns \cup us
    <3>1. flags'[u] = Unflagged
      BY <1>a, <2>3 DEF RecomputeFlags
    <3>2. flags'[u] \in Flag /\ ~flags'[u].hidden /\ flags'[u].by = NoTurn
      BY <3>1 DEF Unflagged, Flag
    <3> QED
      BY <1>0, <2>3, <3>2
  <2> QED
    BY <2>1, <2>2, <2>3
<1>2. flags' = [u \in DOMAIN turns' |-> flags'[u]]
  BY DEF RecomputeFlags
<1> QED
  BY <1>1, <1>2 DEF FlagsAreTheFold, NoFlagOutlivesTheFold

(***************************************************************************)
(* Steps that only append to the log.                                      *)
(***************************************************************************)
LEMMA AppendKeepsNotes ==
  ASSUME CurationInv, NEW a \in Action, log' = Append(log, a),
         a.by \in Notes => a.by \in DOMAIN turns
  PROVE  /\ log' \in Seq(Action)
         /\ NamedNotesWereWritten'
         /\ \A i \in DOMAIN log : i \in DOMAIN log' /\ log'[i] = log[i]
         /\ Len(log) + 1 \in DOMAIN log' /\ log'[Len(log) + 1] = a
<1>1. log \in Seq(Action)
  BY DEF CurationInv, TypeOK
<1>2. /\ log' \in Seq(Action)
      /\ DOMAIN log' = DOMAIN log \cup {Len(log) + 1}
      /\ \A i \in DOMAIN log : log'[i] = log[i]
      /\ log'[Len(log) + 1] = a
  BY <1>1
<1>3. ASSUME NEW i \in DOMAIN log', log'[i].by \in Notes
      PROVE  \E j \in DOMAIN log' : log'[i].by \in log'[j].turns
  <2>1. \E j \in DOMAIN log : log'[i].by \in log[j].turns
    <3>1. CASE i \in DOMAIN log
      BY <1>2, <1>3, <3>1 DEF CurationInv, NamedNotesWereWritten
    <3>2. CASE i = Len(log) + 1
      <4>1. a.by \in Notes \cap DOMAIN turns
        BY <1>2, <1>3, <3>2
      <4> QED
        BY <1>2, <3>2, <4>1 DEF CurationInv, NotesOfTheLog
    <3> QED
      BY <1>2, <3>1, <3>2
  <2> QED
    BY <1>2, <2>1
<1> QED
  BY <1>2, <1>3 DEF NamedNotesWereWritten

(* Hide, Unhide and Supersede differ in what they append. *)
LEMMA NamingStep ==
  ASSUME CurationInv, NEW run \in Runs, NEW op \in {"hide", "unhide", "supersede"},
         NEW us \in SUBSET DOMAIN turns, NEW changed \in SUBSET us,
         NEW by \in DOMAIN turns \cup {NoTurn},
         Record(run, op, us, changed, by), UNCHANGED <<turns, noteSources, returned>>,
         RecomputeFlags(changed)
  PROVE  CurationInv'
<1> DEFINE a == [run |-> run, op |-> op, asked |-> us, turns |-> changed,
                 by |-> by, undone |-> FALSE]
<1>1. TypeOK /\ DOMAIN turns \subseteq Turns /\ log \in Seq(Action)
  BY DEF CurationInv, TypeOK
<1>2. a \in Action
  BY <1>1 DEF Action
<1>3. log' = Append(log, a)
  BY DEF Record
<1>4. a.by = by /\ a.turns = changed
  OBVIOUS
<1> HIDE DEF a
<1>5. a.by \in Notes => a.by \in DOMAIN turns
  BY <1>4, NotesAssumption
<1>6. /\ log' \in Seq(Action)
      /\ NamedNotesWereWritten'
      /\ \A i \in DOMAIN log : i \in DOMAIN log' /\ log'[i] = log[i]
  BY <1>2, <1>3, <1>5, AppendKeepsNotes
<1>7. \A u : u \notin changed =>
        (Hidden(log, u) <=> Hidden(log', u)) /\ LastBy(log, u) = LastBy(log', u)
  BY <1>1, <1>2, <1>3, <1>4, AppendLeavesOthers
<1>8. /\ flags' \in [DOMAIN turns' -> Flag]
      /\ FlagsAreTheFold'
      /\ NoFlagOutlivesTheFold'
  BY <1>1, <1>6, <1>7, RefoldKeepsFlags DEF CurationInv
<1>9. TypeOK'
  BY <1>1, <1>6, <1>8 DEF TypeOK
<1>10. NotesOfTheLog'
  BY <1>6 DEF CurationInv, NotesOfTheLog
<1> QED
  BY <1>6, <1>8, <1>9, <1>10 DEF CurationInv

LEMMA WriteNoteStep ==
  ASSUME CurationInv, NEW run \in Runs, NEW note \in Notes, NEW session \in Sessions,
         WriteNote(run, note, session)
  PROVE  CurationInv'
<1> DEFINE a == [run |-> run, op |-> "note", asked |-> {note}, turns |-> {note},
                 by |-> NoTurn, undone |-> FALSE]
<1>1. /\ TypeOK /\ DOMAIN turns \subseteq Turns /\ turns \in [DOMAIN turns -> Sessions]
      /\ log \in Seq(Action) /\ returned \subseteq Turns
  BY DEF CurationInv, TypeOK
<1>2. a \in Action
  BY DEF Action, Turns
<1>3. log' = Append(log, a)
  BY DEF WriteNote, Record
<1>4. a.by = NoTurn /\ a.turns = {note} /\ a.op = "note" /\ ~a.undone
  OBVIOUS
<1> HIDE DEF a
<1>5. a.by \notin Notes
  BY <1>4, NotesAssumption
<1>6. /\ log' \in Seq(Action)
      /\ NamedNotesWereWritten'
      /\ \A i \in DOMAIN log : i \in DOMAIN log' /\ log'[i] = log[i]
      /\ Len(log) + 1 \in DOMAIN log' /\ log'[Len(log) + 1] = a
  BY <1>2, <1>3, <1>5, AppendKeepsNotes
<1>7. \A u : (Hidden(log, u) <=> Hidden(log', u)) /\ LastBy(log, u) = LastBy(log', u)
  BY <1>1, <1>2, <1>3, <1>4, AppendLeavesOthers
<1>8. /\ turns' = [u \in DOMAIN turns \cup {note} |-> IF u = note THEN session ELSE turns[u]]
      /\ DOMAIN turns' = DOMAIN turns \cup {note}
      /\ note \notin DOMAIN turns
  BY DEF WriteNote
<1>9. returned' = returned \cup {u \in {note} : \E i \in DOMAIN log : u \in log[i].turns}
  BY DEF WriteNote
<1>10. note \in returned' \/ (~Hidden(log', note) /\ LastBy(log', note) = NoTurn)
  <2>1. CASE \E i \in DOMAIN log : note \in log[i].turns
    BY <1>9, <2>1
  <2>2. CASE \A i \in DOMAIN log : note \notin log[i].turns
    <3>1. \A ops : Live(log, ops, note) = {}
      BY <2>2 DEF Live
    <3>2. ~Hidden(log, note) /\ LastBy(log, note) = NoTurn
      BY <3>1 DEF Hidden, LastBy
    <3> QED
      BY <1>7, <3>2
  <2> QED
    BY <2>1, <2>2
<1>11. ASSUME NEW u, LastBy(log, u) = note PROVE note \in returned'
  <2>1. Live(log, {"supersede"}, u) # {}
    <3>1. note # NoTurn
      BY NotesAssumption
    <3> QED
      BY <1>11, <3>1 DEF LastBy
  <2>2. \E i \in DOMAIN log : log[i].by = note
    BY <1>1, <1>11, <2>1, FoldTypes
  <2>3. \E j \in DOMAIN log : note \in log[j].turns
    BY <2>2 DEF CurationInv, NamedNotesWereWritten
  <2> QED
    BY <1>9, <2>3
<1>12. DOMAIN turns' \subseteq Turns
  BY <1>1, <1>8 DEF Turns
<1>13. /\ flags' \in [DOMAIN turns' -> Flag]
       /\ FlagsAreTheFold'
       /\ NoFlagOutlivesTheFold'
  <2>1. RecomputeFlags({})
    BY DEF WriteNote
  <2>2. returned \subseteq returned'
    BY <1>9
  <2>3. \A u \in DOMAIN turns' \ DOMAIN turns :
          u \in returned' \/ (~Hidden(log', u) /\ LastBy(log', u) = NoTurn)
    BY <1>8, <1>10
  <2>4. \A u \in DOMAIN turns :
          LastBy(log, u) \in DOMAIN turns' \ DOMAIN turns => LastBy(log, u) \in returned'
    BY <1>8, <1>11
  <2> QED
    BY <1>1, <1>6, <1>7, <1>12, <2>1, <2>2, <2>3, <2>4, RefoldKeepsFlags DEF CurationInv
<1>14. noteSources' = noteSources \cup {<<note, s>> : s \in SourcesOf[note]}
       /\ SourcesOf[note] \subseteq Said \cap DOMAIN turns
  BY NotesAssumption DEF WriteNote
<1>15. TypeOK'
  <2>1. turns' \in [DOMAIN turns' -> Sessions]
    BY <1>1, <1>8
  <2>2. noteSources' \subseteq (Notes \cap DOMAIN turns') \X (Said \cap DOMAIN turns')
    BY <1>1, <1>8, <1>14 DEF TypeOK
  <2>3. returned' \subseteq Turns
    BY <1>1, <1>9 DEF Turns
  <2> QED
    BY <1>6, <1>12, <1>13, <2>1, <2>2, <2>3 DEF TypeOK
<1>16. NotesOfTheLog'
  <2>1. ASSUME NEW n \in Notes \cap DOMAIN turns', n # note
        PROVE  /\ \E i \in DOMAIN log' : log'[i].op = "note" /\ n \in log'[i].turns /\ ~log'[i].undone
               /\ \A s \in (SourcesOf[n] \cap DOMAIN turns') \ returned' : <<n, s>> \in noteSources'
    <3>1. n \in Notes \cap DOMAIN turns
      BY <1>8, <2>1
    <3>2. \E i \in DOMAIN log : log[i].op = "note" /\ n \in log[i].turns /\ ~log[i].undone
      BY <3>1 DEF CurationInv, NotesOfTheLog
    <3>3. SourcesOf[n] \subseteq Said /\ note \notin Said
      BY <3>1, NotesAssumption
    <3>4. \A s \in (SourcesOf[n] \cap DOMAIN turns) \ returned : <<n, s>> \in noteSources
      BY <3>1 DEF CurationInv, NotesOfTheLog
    <3> QED
      BY <1>6, <1>8, <1>9, <1>14, <3>2, <3>3, <3>4
  <2>2. /\ \E i \in DOMAIN log' : log'[i].op = "note" /\ note \in log'[i].turns /\ ~log'[i].undone
        /\ \A s \in (SourcesOf[note] \cap DOMAIN turns') \ returned' : <<note, s>> \in noteSources'
    BY <1>4, <1>6, <1>14
  <2> QED
    BY <2>1, <2>2 DEF NotesOfTheLog
<1> QED
  BY <1>6, <1>13, <1>15, <1>16 DEF CurationInv

(***************************************************************************)
(* An undo, and the store's own writes.                                    *)
(***************************************************************************)

(* Turns that leave the store take what hangs on them along. *)
LEMMA LeavingKeepsTypes ==
  ASSUME TypeOK, NEW kept \in SUBSET DOMAIN turns, turns' = Restrict(turns, kept),
         noteSources' = KeepSources(DOMAIN turns'), UNCHANGED returned,
         log' \in Seq(Action), flags' \in [DOMAIN turns' -> Flag]
  PROVE  /\ DOMAIN turns' = kept
         /\ TypeOK'
<1>1. DOMAIN turns' = kept /\ \A u \in kept : turns'[u] = turns[u]
  BY DEF Restrict
<1>2. turns' \in [kept -> Sessions]
  BY DEF Restrict, TypeOK
<1>3. noteSources' \subseteq (Notes \cap kept) \X (Said \cap kept)
  <2>1. ASSUME NEW ns \in noteSources' PROVE ns \in (Notes \cap kept) \X (Said \cap kept)
    <3>1. ns \in noteSources /\ ns[1] \in kept /\ ns[2] \in kept
      BY <1>1 DEF KeepSources
    <3>2. ns \in (Notes \cap DOMAIN turns) \X (Said \cap DOMAIN turns)
      BY <3>1 DEF TypeOK
    <3> QED
      BY <3>1, <3>2
  <2> QED
    BY <2>1
<1> QED
  BY <1>1, <1>2, <1>3 DEF TypeOK

(* Of the links that stay, those of the turns that stay. *)
LEMMA LeavingKeepsNotes ==
  ASSUME NotesOfTheLog, NEW kept \in SUBSET DOMAIN turns, DOMAIN turns' = kept,
         noteSources' = KeepSources(DOMAIN turns'), UNCHANGED returned,
         \A n \in Notes \cap kept :
           \E i \in DOMAIN log' : log'[i].op = "note" /\ n \in log'[i].turns /\ ~log'[i].undone
  PROVE  NotesOfTheLog'
  BY DEF NotesOfTheLog, KeepSources

LEMMA UndoStep ==
  ASSUME CurationInv, NEW ids \in SUBSET DOMAIN log, Undo(ids)
  PROVE  CurationInv'
<1> DEFINE notes == {u \in Notes : \E i \in ids : log[i].op = "note" /\ u \in log[i].turns}
           named == (UNION {log[i].turns : i \in ids}) \ notes
           kept  == DOMAIN turns \ notes
<1>1. TypeOK /\ DOMAIN turns \subseteq Turns /\ log \in Seq(Action)
  BY DEF CurationInv, TypeOK
<1>2. log' = WithUndone(log, ids)
  BY DEF Undo, WithUndone
<1>3. /\ log' \in Seq(Action)
      /\ DOMAIN log' = DOMAIN log
      /\ \A i \in DOMAIN log :
           /\ log'[i].op = log[i].op
           /\ log'[i].by = log[i].by
           /\ log'[i].turns = log[i].turns
           /\ log'[i].undone <=> log[i].undone \/ i \in ids
  BY <1>1, <1>2, UndoneLog
<1>4. /\ turns' = Restrict(turns, kept)
      /\ noteSources' = KeepSources(DOMAIN turns')
      /\ UNCHANGED returned
      /\ RecomputeFlags(named)
  BY DEF Undo
<1>5. DOMAIN turns' = kept
  BY <1>4 DEF Restrict
<1>6. \A u \in kept \ named :
        (Hidden(log, u) <=> Hidden(log', u)) /\ LastBy(log, u) = LastBy(log', u)
  <2>1. ASSUME NEW u \in kept \ named, NEW i \in ids PROVE u \notin log[i].turns
    <3>1. log[i].turns \in {log[j].turns : j \in ids}
      OBVIOUS
    <3>2. u \in log[i].turns => u \in UNION {log[j].turns : j \in ids}
      BY <3>1
    <3> QED
      BY <3>2
  <2> QED
    BY <1>1, <1>2, <2>1, UndoLeavesOthers
<1>7. \A n \in Notes \cap kept :
        \E i \in DOMAIN log' : log'[i].op = "note" /\ n \in log'[i].turns /\ ~log'[i].undone
  <2>1. ASSUME NEW n \in Notes \cap kept
        PROVE \E i \in DOMAIN log' : log'[i].op = "note" /\ n \in log'[i].turns /\ ~log'[i].undone
    <3>1. PICK i \in DOMAIN log : log[i].op = "note" /\ n \in log[i].turns /\ ~log[i].undone
      BY DEF CurationInv, NotesOfTheLog
    <3>2. i \notin ids
      BY <3>1
    <3> QED
      BY <1>3, <3>1, <3>2
  <2> QED
    BY <2>1
<1>8. kept \subseteq DOMAIN turns
  OBVIOUS
<1> HIDE DEF notes, named, kept
<1>9. /\ flags' \in [DOMAIN turns' -> Flag]
      /\ FlagsAreTheFold'
      /\ NoFlagOutlivesTheFold'
  BY <1>1, <1>3, <1>4, <1>5, <1>6, <1>8, RefoldKeepsFlags DEF CurationInv
<1>10. TypeOK'
  BY <1>1, <1>3, <1>4, <1>8, <1>9, LeavingKeepsTypes
<1>11. NotesOfTheLog'
  BY <1>4, <1>5, <1>7, <1>8, LeavingKeepsNotes DEF CurationInv
<1>12. NamedNotesWereWritten'
  BY <1>3 DEF CurationInv, NamedNotesWereWritten
<1> QED
  BY <1>9, <1>10, <1>11, <1>12 DEF CurationInv

LEMMA DeleteSessionStep ==
  ASSUME CurationInv, NEW session \in Sessions, DeleteSession(session)
  PROVE  CurationInv'
<1> DEFINE kept == DOMAIN turns \ {u \in DOMAIN turns : turns[u] = session}
<1>1. TypeOK /\ DOMAIN turns \subseteq Turns /\ log \in Seq(Action)
  BY DEF CurationInv, TypeOK
<1>2. /\ turns' = Restrict(turns, kept)
      /\ noteSources' = KeepSources(DOMAIN turns')
      /\ UNCHANGED <<log, returned>>
      /\ RecomputeFlags({})
  BY DEF DeleteSession
<1>3. DOMAIN turns' = kept
  BY <1>2 DEF Restrict
<1>4. kept \subseteq DOMAIN turns
  OBVIOUS
<1> HIDE DEF kept
<1>5. /\ flags' \in [DOMAIN turns' -> Flag]
      /\ FlagsAreTheFold'
      /\ NoFlagOutlivesTheFold'
  BY <1>1, <1>2, <1>3, <1>4, RefoldKeepsFlags DEF CurationInv
<1>6. TypeOK'
  BY <1>1, <1>2, <1>4, <1>5, LeavingKeepsTypes
<1>7. NotesOfTheLog'
  <2>1. \A n \in Notes \cap kept :
          \E i \in DOMAIN log' : log'[i].op = "note" /\ n \in log'[i].turns /\ ~log'[i].undone
    BY <1>2, <1>4 DEF CurationInv, NotesOfTheLog
  <2> QED
    BY <1>2, <1>3, <1>4, <2>1, LeavingKeepsNotes DEF CurationInv
<1>8. NamedNotesWereWritten'
  BY <1>2 DEF CurationInv, NamedNotesWereWritten
<1> QED
  BY <1>5, <1>6, <1>7, <1>8 DEF CurationInv

LEMMA IngestAgainStep ==
  ASSUME CurationInv, NEW u \in Said, IngestAgain(u)
  PROVE  CurationInv'
<1>1. /\ TypeOK /\ DOMAIN turns \subseteq Turns /\ turns \in [DOMAIN turns -> Sessions]
      /\ log \in Seq(Action) /\ returned \subseteq Turns
  BY DEF CurationInv, TypeOK
<1>2. /\ returned' = returned \cup {u}
      /\ turns' = [v \in DOMAIN turns \cup {u} |-> IF v = u THEN SessionOf[u] ELSE turns[v]]
      /\ DOMAIN turns' = DOMAIN turns \cup {u}
      /\ UNCHANGED <<noteSources, log>>
      /\ RecomputeFlags({})
  BY DEF IngestAgain
<1>3. DOMAIN turns' \subseteq Turns
  BY <1>1, <1>2 DEF Turns
<1>4. /\ flags' \in [DOMAIN turns' -> Flag]
      /\ FlagsAreTheFold'
      /\ NoFlagOutlivesTheFold'
  BY <1>1, <1>2, <1>3, RefoldKeepsFlags DEF CurationInv
<1>5. TypeOK'
  <2>1. turns' \in [DOMAIN turns' -> Sessions]
    BY <1>1, <1>2, SaidAssumption
  <2>2. noteSources' \subseteq (Notes \cap DOMAIN turns') \X (Said \cap DOMAIN turns')
    BY <1>1, <1>2 DEF TypeOK
  <2>3. returned' \subseteq Turns
    BY <1>1, <1>2 DEF Turns
  <2> QED
    BY <1>1, <1>2, <1>3, <1>4, <2>1, <2>2, <2>3 DEF TypeOK
<1>6. NotesOfTheLog'
  <2>1. u \notin Notes
    BY NotesAssumption
  <2> QED
    BY <1>2, <2>1 DEF CurationInv, NotesOfTheLog
<1>7. NamedNotesWereWritten'
  BY <1>2 DEF CurationInv, NamedNotesWereWritten
<1> QED
  BY <1>4, <1>5, <1>6, <1>7 DEF CurationInv

LEMMA ClearMemoryStep ==
  ASSUME ClearMemory
  PROVE  CurationInv'
<1>1. DOMAIN turns' = {} /\ DOMAIN flags' = {} /\ noteSources' = {} /\ log' = <<>> /\ returned' = {}
  BY DEF ClearMemory
<1>2. TypeOK'
  BY <1>1 DEF ClearMemory, TypeOK
<1> QED
  BY <1>1, <1>2 DEF CurationInv, FlagsAreTheFold, NoFlagOutlivesTheFold, NotesOfTheLog,
                    NamedNotesWereWritten

LEMMA NextCurationInv == CurationInv /\ [Next]_vars => CurationInv'
<1> SUFFICES ASSUME CurationInv, [Next]_vars
             PROVE  CurationInv'
  OBVIOUS
<1>1. ASSUME NEW run \in Runs, NEW us \in SUBSET DOMAIN turns, Hide(run, us) PROVE CurationInv'
  <2> DEFINE changed == {u \in us : ~flags[u].hidden}
  <2>1. changed \in SUBSET us
    OBVIOUS
  <2>2. /\ Record(run, "hide", us, changed, NoTurn)
        /\ UNCHANGED <<turns, noteSources, returned>>
        /\ RecomputeFlags(changed)
    BY <1>1 DEF Hide
  <2> QED
    BY <2>1, <2>2, NamingStep
<1>2. ASSUME NEW run \in Runs, NEW us \in SUBSET DOMAIN turns, Unhide(run, us) PROVE CurationInv'
  <2> DEFINE changed == {u \in us : flags[u].hidden}
  <2>1. changed \in SUBSET us
    OBVIOUS
  <2>2. /\ Record(run, "unhide", us, changed, NoTurn)
        /\ UNCHANGED <<turns, noteSources, returned>>
        /\ RecomputeFlags(changed)
    BY <1>2 DEF Unhide
  <2> QED
    BY <2>1, <2>2, NamingStep
<1>3. ASSUME NEW run \in Runs, NEW us \in SUBSET DOMAIN turns, NEW by \in DOMAIN turns,
             Supersede(run, us, by)
      PROVE  CurationInv'
  <2> DEFINE changed == {u \in us : flags[u].by # by}
  <2>1. changed \in SUBSET us
    OBVIOUS
  <2>2. /\ Record(run, "supersede", us, changed, by)
        /\ UNCHANGED <<turns, noteSources, returned>>
        /\ RecomputeFlags(changed)
    BY <1>3 DEF Supersede
  <2> QED
    BY <2>1, <2>2, NamingStep
<1>4. ASSUME NEW run \in Runs, Apply(run) PROVE CurationInv'
  BY <1>1, <1>2, <1>3, <1>4, WriteNoteStep DEF Apply
<1>5. ASSUME NEW run \in Runs, UndoRun(run) PROVE CurationInv'
  BY <1>5, UndoStep DEF UndoRun
<1>6. ASSUME NEW i \in DOMAIN log, UndoAction(i) PROVE CurationInv'
  BY <1>6, UndoStep DEF UndoAction
<1>7. CASE UNCHANGED vars
  BY <1>7 DEF vars, CurationInv, TypeOK, FlagsAreTheFold, NoFlagOutlivesTheFold, NotesOfTheLog,
              NamedNotesWereWritten
<1> QED
  BY <1>4, <1>5, <1>6, <1>7, IngestAgainStep, DeleteSessionStep, ClearMemoryStep DEF Next

LEMMA CurationInvariant == Spec => []CurationInv
  BY InitCurationInv, NextCurationInv, PTL DEF Spec

(* The invariant in the words of the replay. *)
LEMMA InvIsOfTheReplay ==
  CurationInv => FlagsFoldTheLog /\ NoFlagOutlivesTheLog
<1> SUFFICES ASSUME CurationInv PROVE FlagsFoldTheLog /\ NoFlagOutlivesTheLog
  OBVIOUS
<1>1. log \in Seq(Action) /\ DOMAIN turns \subseteq Turns /\ flags \in [DOMAIN turns -> Flag]
  BY DEF CurationInv, TypeOK
<1>2. \A u \in DOMAIN turns : /\ ReplayedLog[u].hidden <=> Hidden(log, u)
                              /\ ReplayedLog[u].by = LastBy(log, u)
                              /\ ReplayedLog[u].hidden \in BOOLEAN
                              /\ flags[u].hidden \in BOOLEAN
  <2>1. ASSUME NEW u \in DOMAIN turns
        PROVE  /\ ReplayedLog[u].hidden = Hidden(log, u)
               /\ ReplayedLog[u].by = LastBy(log, u)
               /\ Hidden(log, u) \in BOOLEAN
               /\ flags[u] \in Flag
    BY <1>1, ReplayIsTheFold DEF ReplayedLog, Hidden
  <2> QED
    BY <2>1 DEF Flag
<1>3. FlagsFoldTheLog
  BY <1>2 DEF CurationInv, FlagsAreTheFold, FlagsFoldTheLog
<1>4. NoFlagOutlivesTheLog
  BY <1>2 DEF CurationInv, NoFlagOutlivesTheFold, NoFlagOutlivesTheLog
<1> QED
  BY <1>3, <1>4

(***************************************************************************)
(* The theorems.                                                           *)
(***************************************************************************)

(* The curation tables have their types, for any turns, notes and runs.    *)
THEOREM CurationTypes == Spec => []TypeOK
<1>1. CurationInv => TypeOK
  BY DEF CurationInv
<1> QED
  BY <1>1, CurationInvariant, PTL

(* The flags of a turn are those of a replay of the whole log, though each *)
(* transaction refolds only the turns it names.                            *)
THEOREM CurationFoldsTheLog == Spec => []FlagsFoldTheLog
<1>1. CurationInv => FlagsFoldTheLog
  BY InvIsOfTheReplay
<1> QED
  BY <1>1, CurationInvariant, PTL

(* No turn bears a flag the log does not give it, one that was deleted and *)
(* stored again included.                                                  *)
THEOREM CurationOutlivesNothing == Spec => []NoFlagOutlivesTheLog
<1>1. CurationInv => NoFlagOutlivesTheLog
  BY InvIsOfTheReplay
<1> QED
  BY <1>1, CurationInvariant, PTL

(* A note in the store is one a live action wrote, and covers its sources. *)
THEOREM CurationNotes == Spec => []NotesOfTheLog
<1>1. CurationInv => NotesOfTheLog
  BY DEF CurationInv
<1> QED
  BY <1>1, CurationInvariant, PTL

================================================================================
