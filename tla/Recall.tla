-------------------------------- MODULE Recall --------------------------------
(***************************************************************************)
(* From scored candidates to the evidence of an answer, under the curation *)
(* flags: hand_over and collapse of crates/zeromem-core/src/retrieve/mod.rs*)
(* and calibrate of retrieve/calibrate.rs.                                 *)
(*                                                                         *)
(* A question is asked of the flags as they are then. What the views score,*)
(* the filter and the past reading of the question are chosen with it.     *)
(* Turns are their row ids, which also settle ties (the uuid in the code). *)
(* Left out: abstention, roles, and the neighbours attached to each hit.   *)
(***************************************************************************)
EXTENDS Integers, FiniteSets

CONSTANTS
  RecallTurns,    \* row ids
  SaidAt,         \* turn -> ts
  SourcesOfNote,  \* note -> the turns it stands for
  Scores,         \* what a nominated turn may score; halved without a rest
  TopKs,          \* the top_k a question may ask for
  CollapsePasses, \* COLLAPSE_PASSES
  NotAsked        \* no question yet

ASSUME RecallAssumption ==
  /\ RecallTurns \subseteq Nat /\ IsFiniteSet(RecallTurns)
  /\ SaidAt \in [RecallTurns -> Nat]
  /\ SourcesOfNote \in [DOMAIN SourcesOfNote -> SUBSET RecallTurns]
  /\ DOMAIN SourcesOfNote \subseteq RecallTurns
  /\ \A note \in DOMAIN SourcesOfNote : note \notin SourcesOfNote[note]
  /\ IsFiniteSet(Scores) /\ \A s \in Scores : s \in Nat \ {0} /\ s % 2 = 0
  /\ TopKs \subseteq Nat \ {0} /\ CollapsePasses \in Nat \ {0}

VARIABLES
  asked,          \* the question with the flags it was asked under, or NotAsked
  fused,          \* candidate -> score, of those not folded
  folded,         \* candidates folded under another
  passes          \* passes of collapse that are left

recallVars == <<asked, fused, folded, passes>>

Asked == asked # NotAsked

(* What superseded_by can hold. Apply refuses a turn that is newer than the *)
(* one that would supersede it; it also refuses to close a circle of two,   *)
(* but not a longer one, and an undo may bring back the other half.         *)
Supersessions ==
  {by \in UNION {[old -> RecallTurns] : old \in SUBSET RecallTurns} :
     \A t \in DOMAIN by : by[t] # t /\ SaidAt[t] <= SaidAt[by[t]]}

RecallInit == asked = NotAsked /\ fused = << >> /\ folded = {} /\ passes = 0

--------------------------------------------------------------------------------
(* The chain of supersessions from a turn, followed for as many steps as    *)
(* there are flags: past the end it stays there, and a circle comes round.  *)

Chain(by, t) ==
  LET at[i \in 0..Cardinality(DOMAIN by)] ==
        IF i = 0 THEN t
        ELSE LET last == at[i - 1] IN IF last \in DOMAIN by THEN by[last] ELSE last
  IN at

Latest(by, t) == Chain(by, t)[Cardinality(DOMAIN by)]

Successors(by, t) ==
  IF t \notin DOMAIN by THEN {}
  ELSE LET at == Chain(by, t) IN {at[i] : i \in 1..Cardinality(DOMAIN by)}

--------------------------------------------------------------------------------
(* hand_over. *)

Highest(scores) == CHOOSE s \in scores : \A other \in scores : other <= s

(* The candidates that hand their score to t: not those of a circle that    *)
(* comes back to where it began.                                            *)
HandsTo(q, t) ==
  {old \in DOMAIN q.found \cap DOMAIN q.by : Latest(q.by, old) = t /\ t # old}

(* Bug: only a replacement some view nominated takes over a score. *)
HeirsAmongFound(q) == {t \in DOMAIN q.found : HandsTo(q, t) # {}}

(* A replacement nobody nominated is brought in unless the filter refuses it.*)
Heirs(q) == {t \in RecallTurns \ q.refused : HandsTo(q, t) # {}}

HandedOver(q) ==
  LET own(t) == IF t \notin DOMAIN q.found THEN 0
                ELSE IF t \in DOMAIN q.by THEN q.found[t] \div 2 ELSE q.found[t]
      inherited(t) == IF t \in Heirs(q) THEN {q.found[old] : old \in HandsTo(q, t)} ELSE {}
  IN [t \in DOMAIN q.found \cup Heirs(q) |-> Highest({own(t)} \cup inherited(t))]

(* The filter refuses turns that are hidden, briefs or out of reach; those  *)
(* are not nominated either.                                                *)
Ask(q) ==
  /\ asked = NotAsked
  /\ q.refused \cap DOMAIN q.found = {}
  /\ asked' = q
  /\ fused' = IF q.past THEN q.found ELSE HandedOver(q)
  /\ folded' = {} /\ passes' = CollapsePasses

--------------------------------------------------------------------------------
(* calibrate: the best top_k, and of those what is worth 35 % of the best.  *)

Better(t, u) ==
  \/ fused[t] > fused[u]
  \/ /\ fused[t] = fused[u]
     /\ SaidAt[t] > SaidAt[u] \/ (SaidAt[t] = SaidAt[u] /\ t < u)

Rank(t) == Cardinality({u \in DOMAIN fused : Better(u, t)}) + 1

Kept ==
  {t \in DOMAIN fused :
     /\ Rank(t) <= asked.topK
     /\ \A best \in DOMAIN fused : 100 * fused[t] >= 35 * fused[best]}

(* collapse, best first: a turn folds under a later one of its chain or a   *)
(* note that stands for it, if that one is kept and has not folded before.  *)

Covering(t) == {note \in asked.notes : t \in SourcesOfNote[note]}

FoldsUnder(t) == Covering(t) \cup (IF asked.past THEN {} ELSE Successors(asked.by, t))

(* Bug: what has folded in this pass still counts as kept. *)
FoldingAtOnce == LET kept == Kept IN {t \in kept : FoldsUnder(t) \cap kept # {}}

Folding ==
  LET kept == Kept IN
  CHOOSE gone \in SUBSET kept :
    \A t \in kept :
      t \in gone <=> FoldsUnder(t) \cap (kept \ {u \in gone : Better(u, t)}) # {}

(* A pass; the places it frees are filled by the next calibration. A pass   *)
(* that folds nothing is the last.                                          *)
CollapsePass ==
  /\ Asked /\ passes > 0
  /\ LET folding == Folding IN
     /\ folding # {}
     /\ fused' = [t \in DOMAIN fused \ folding |-> fused[t]]
     /\ folded' = folded \cup folding
  /\ passes' = passes - 1
  /\ UNCHANGED asked

Answered == Asked /\ (passes = 0 \/ Folding = {})

Questions ==
  [found : UNION {[nominated -> Scores] : nominated \in (SUBSET RecallTurns) \ {{}}},
   by : Supersessions, notes : SUBSET DOMAIN SourcesOfNote,
   refused : SUBSET RecallTurns, past : BOOLEAN, topK : TopKs]

RecallNext ==
  \/ asked = NotAsked /\ \E q \in Questions : Ask(q)
  \/ CollapsePass

RecallSpec == RecallInit /\ [][RecallNext]_recallVars

--------------------------------------------------------------------------------

RecallTypeOK ==
  /\ DOMAIN fused \subseteq RecallTurns
  /\ \A t \in DOMAIN fused : fused[t] \in 1..Highest(Scores)
  /\ folded \subseteq RecallTurns \ DOMAIN fused
  /\ passes \in 0..CollapsePasses

(* What stands for t: what it folds under, what that folds under, and so on.*)
StandIns(t) ==
  LET reach[i \in 0..Cardinality(RecallTurns)] ==
        IF i = 0 THEN FoldsUnder(t)
        ELSE LET before == reach[i - 1] IN before \cup UNION {FoldsUnder(u) : u \in before}
  IN reach[Cardinality(RecallTurns)]

InACircle(t) == t \in Successors(asked.by, t)

(* What is folded away is not lost: something that stands for it is in the  *)
(* evidence after every pass, in whatever order turns and notes fold and    *)
(* whatever the refills bring. Not so where supersessions run in a circle.  *)
(* (collapse, mod.rs:493-535)                                               *)
FoldsUnderWhatIsShown ==
  \A t \in folded :
    LET standIns == StandIns(t)
    IN standIns \cap Kept # {} \/ \E u \in {t} \cup standIns : InACircle(u)

(* An answer that is not about the past shows a superseded turn only where  *)
(* the latest turn of its chain may not be shown, or has folded under a note*)
(* itself, or the passes have run out, or there is no latest turn           *)
(* (hand_over, mod.rs:418-491, and collapse).                               *)
NoStaleAnswer ==
  Answered /\ ~asked.past /\ passes > 0 =>
    \A t \in Kept \cap DOMAIN asked.by :
      LET heir == Latest(asked.by, t)
      IN heir \in asked.refused \cup folded \/ InACircle(heir)

(* Of two turns superseding each other that were both fit to be shown, and  *)
(* that no note stands for, the better one is (mod.rs:506).                 *)
TheBetterStays ==
  Asked /\ ~asked.past =>
    \A t, u \in RecallTurns :
      /\ t \in DOMAIN asked.by /\ u \in DOMAIN asked.by
      /\ asked.by[t] = u /\ asked.by[u] = t
      /\ Covering(t) \cup Covering(u) = {}
      => ~({t, u} \subseteq folded)

================================================================================
