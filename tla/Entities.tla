------------------------------- MODULE Entities -------------------------------
(***************************************************************************)
(* The entity tables, derived from the turns through the curators' rules.  *)
(* crates/zeromem-core/src/store.rs (EntityMap, insert_one, aggregates,    *)
(* segments) and curation/mod.rs (alias, unalias, block, unblock).         *)
(*                                                                         *)
(* What is extracted from a text is a constant here, a sequence of keys    *)
(* with their kinds; `mentions` is what is stored of it: a key is stored   *)
(* under its canonical one, and not at all if blocked.  Everything but the *)
(* rules is derived, kept incrementally when turns come, recomputed from   *)
(* `mentions` when they go and from the texts when a rule changes.         *)
(*                                                                         *)
(* curate_apply is a transaction of several actions.  They are steps here, *)
(* from Begin on, for a plan reads what the earlier ones left; nothing     *)
(* else runs until Commit, which derives the tables anew.                  *)
(***************************************************************************)
EXTENDS Integers, FiniteSets, Sequences, SequencesExt

CONSTANTS
  Keys,           \* entity keys
  EntityKinds,    \* numbers, in the order of the kinds' names
  HostTexts,      \* turns of hosts
  NoteTexts,      \* and of curators
  Extracted,      \* turn -> the sequence of [key, kind] in its text
  TextSessions, SessionOfText, TsOfText,
  MaxHops,        \* 8
  MaxRuleLog      \* bound: how long the log grows

Texts == HostTexts \cup NoteTexts

ASSUME KindsAssumption == EntityKinds \subseteq Nat
ASSUME TurnsAssumption ==
  /\ Extracted \in [Texts -> Seq([key : Keys, kind : EntityKinds])]
  /\ SessionOfText \in [Texts -> TextSessions] /\ TsOfText \in [Texts -> Nat]
ASSUME HopsAssumption == MaxHops \in Nat

VARIABLES
  mentions,       \* turn -> its rows of turn_entities, in order; its DOMAIN is `turns`
  stats,          \* key -> [kind, turns, first, last]
  edges,          \* {key, key} -> turns they share
  segments,       \* session -> the turns it was segmented from, and their keys
  aliases,        \* key -> key
  blocked,
  ruleLog,        \* the entity actions and the notes, oldest first
  call            \* the curate_apply in progress

derived == <<mentions, stats, edges, segments>>
entitiesVars == <<mentions, stats, edges, segments, aliases, blocked, ruleLog, call>>

NoRows == [x \in {} |-> x]
NoCall == [open |-> FALSE, dirty |-> FALSE, touched |-> {}]

EntitiesInit ==
  /\ mentions = NoRows /\ stats = NoRows /\ edges = NoRows
  /\ segments = [s \in TextSessions |-> NoRows]
  /\ aliases = NoRows /\ blocked = {} /\ ruleLog = <<>> /\ call = NoCall

(***************************************************************************)
(* EntityMap.                                                              *)
(***************************************************************************)

(* Bug: one alias is followed, not the chain. *)
OneHop(map, key) == IF key \in DOMAIN map THEN map[key] ELSE key

(* The end of the chain of aliases, or where the hops run out on a cycle. *)
Canonical(map, key) ==
  LET after[n \in 0..MaxHops] ==
        IF n = 0 THEN key
        ELSE LET last == after[n-1] IN IF last \in DOMAIN map THEN map[last] ELSE last
  IN after[MaxHops]

(* What is stored of the mentions in a text: one after another, those that *)
(* are not blocked.                                                        *)
Stored(map, bars, m) ==
  IF {m.key, Canonical(map, m.key)} \cap bars = {}
  THEN <<[m EXCEPT !.key = Canonical(map, @)]>> ELSE <<>>

Ruled(map, bars, extracted) ==
  LET upto[n \in 0..Len(extracted)] ==
        IF n = 0 THEN <<>> ELSE upto[n-1] \o Stored(map, bars, extracted[n])
  IN upto[Len(extracted)]

(***************************************************************************)
(* What is derived from the mentions.                                      *)
(***************************************************************************)

KeysOf(ms) == {ms[i].key : i \in DOMAIN ms}
PairsOf(ms) == {{ms[i].key, ms[j].key} : i, j \in DOMAIN ms} \ {{k} : k \in Keys}
FirstKind(ms, key) == ms[Min({i \in DOMAIN ms : ms[i].key = key})].kind

(* rebuild_aggregates. *)
RebuiltStats(all) ==
  [key \in UNION {KeysOf(all[t]) : t \in DOMAIN all} |->
     LET of == {t \in DOMAIN all : key \in KeysOf(all[t])} IN
     [kind |-> Min(UNION {{m.kind : m \in {n \in ToSet(all[t]) : n.key = key}} : t \in of}),
      turns |-> Cardinality(of),
      first |-> Min({TsOfText[t] : t \in of}),
      last |-> Max({TsOfText[t] : t \in of})]]

RebuiltEdges(all) ==
  [pair \in UNION {PairsOf(all[t]) : t \in DOMAIN all} |->
     Cardinality({t \in DOMAIN all : pair \in PairsOf(all[t])})]

RebuildAggregates ==
  /\ stats' = RebuiltStats(mentions')
  /\ edges' = RebuiltEdges(mentions')

(* Bug: every mention of a key counts, not every turn. *)
AddEveryMention(t) ==
  LET ms == mentions'[t] IN
  /\ stats' = [key \in DOMAIN stats \cup KeysOf(ms) |->
       LET times == Cardinality({i \in DOMAIN ms : ms[i].key = key}) IN
       IF times = 0 THEN stats[key]
       ELSE IF key \in DOMAIN stats
       THEN [stats[key] EXCEPT !.turns = @ + times, !.first = Min({@, TsOfText[t]}),
                               !.last = Max({@, TsOfText[t]})]
       ELSE [kind |-> FirstKind(ms, key), turns |-> times, first |-> TsOfText[t], last |-> TsOfText[t]]]
  /\ edges' = RebuiltEdges(mentions')

(* add_to_aggregates: a key keeps the kind it was first seen with. *)
AddToAggregates(t) ==
  LET ms == mentions'[t] IN
  /\ stats' = [key \in DOMAIN stats \cup KeysOf(ms) |->
       IF key \notin KeysOf(ms) THEN stats[key]
       ELSE IF key \in DOMAIN stats
       THEN [stats[key] EXCEPT !.turns = @ + 1, !.first = Min({@, TsOfText[t]}),
                               !.last = Max({@, TsOfText[t]})]
       ELSE [kind |-> FirstKind(ms, key), turns |-> 1, first |-> TsOfText[t], last |-> TsOfText[t]]]
  /\ edges' = [pair \in DOMAIN edges \cup PairsOf(ms) |->
       (IF pair \in DOMAIN edges THEN edges[pair] ELSE 0)
       + (IF pair \in PairsOf(ms) THEN 1 ELSE 0)]

(* A session is segmented from its turns and their keys. *)
Segmented(all, s) ==
  [t \in {u \in DOMAIN all : SessionOfText[u] = s} |-> KeysOf(all[t])]

(* resegment, of the sessions `ss`. *)
Resegment(ss) ==
  segments' = [s \in TextSessions |-> IF s \in ss THEN Segmented(mentions', s) ELSE segments[s]]

(* rederive_entities, of the turns `ts` there are, under the rules as the  *)
(* transaction leaves them.                                                *)
Rederive(ts) ==
  /\ mentions' = [t \in ts |-> Ruled(aliases', blocked', Extracted[t])]
  /\ RebuildAggregates
  /\ Resegment(TextSessions)

(***************************************************************************)
(* The store's writes.                                                     *)
(***************************************************************************)

(* insert_one of a turn that is not there yet. *)
InsertOne(t) ==
  /\ t \notin DOMAIN mentions
  /\ mentions' = [u \in DOMAIN mentions \cup {t} |->
                    IF u = t THEN Ruled(aliases, blocked, Extracted[t]) ELSE mentions[u]]
  /\ AddToAggregates(t)

Idle == ~call.open

IngestText(t) ==
  /\ Idle
  /\ InsertOne(t)
  /\ Resegment({SessionOfText[t]})
  /\ UNCHANGED <<aliases, blocked, ruleLog, call>>

(* Rows of turn_entities go with their turns. *)
DeleteTurns(ts) == mentions' = Restrict(mentions, DOMAIN mentions \ ts)

DropSession(s) ==
  LET gone == {t \in DOMAIN mentions : SessionOfText[t] = s} IN
  /\ Idle /\ gone # {}
  /\ DeleteTurns(gone)
  /\ segments' = [segments EXCEPT ![s] = NoRows]
  /\ RebuildAggregates
  /\ UNCHANGED <<aliases, blocked, ruleLog, call>>

Rebuild ==
  /\ Idle
  /\ UNCHANGED <<aliases, blocked, ruleLog, call>>
  /\ Rederive(DOMAIN mentions)

ClearTables ==
  /\ Idle
  /\ mentions' = NoRows /\ stats' = NoRows /\ edges' = NoRows
  /\ segments' = [s \in TextSessions |-> NoRows]
  /\ aliases' = NoRows /\ blocked' = {} /\ ruleLog' = <<>>
  /\ UNCHANGED call

(***************************************************************************)
(* curate_apply.                                                           *)
(***************************************************************************)

(* Bug: an undone alias is taken off, whatever was there before it. *)
AliasesWithout(actions, keys) == Restrict(aliases, DOMAIN aliases \ keys)

(* The aliases with those of `keys` refolded: each is what the newest live *)
(* action that names it says.                                              *)
RefoldAliases(actions, keys) ==
  LET naming(k) == {i \in DOMAIN actions : /\ ~actions[i].undone
                                           /\ actions[i].op \in {"alias", "unalias"}
                                           /\ actions[i].key = k}
      named == {k \in keys : naming(k) # {} /\ actions[Max(naming(k))].op = "alias"}
  IN [k \in (DOMAIN aliases \ keys) \cup named |->
        IF k \in named THEN actions[Max(naming(k))].to ELSE aliases[k]]

RefoldBlocked(actions, keys) ==
  LET naming(k) == {i \in DOMAIN actions : /\ ~actions[i].undone
                                           /\ actions[i].op \in {"block", "unblock"}
                                           /\ actions[i].key = k}
  IN (blocked \ keys)
     \cup {k \in keys : naming(k) # {} /\ actions[Max(naming(k))].op = "block"}

(* recompute_entity_rule, for the actions `ids` of `actions`. *)
RecomputeRules(actions, ids) ==
  /\ aliases' = RefoldAliases(actions,
       {actions[i].key : i \in {j \in ids : actions[j].op \in {"alias", "unalias"}}})
  /\ blocked' = RefoldBlocked(actions,
       {actions[i].key : i \in {j \in ids : actions[j].op \in {"block", "unblock"}}})

RuleAction == [op : {"alias", "unalias", "block", "unblock"}, key : Keys, to : Keys,
               undone : BOOLEAN]
NoteAction == [op : {"note"}, key : NoteTexts, undone : BOOLEAN]

Begin ==
  /\ Idle /\ Len(ruleLog) < MaxRuleLog
  /\ call' = [call EXCEPT !.open = TRUE]
  /\ UNCHANGED <<derived, aliases, blocked, ruleLog>>

ApplyRule(op, key, to) ==
  LET actions == Append(ruleLog, [op |-> op, key |-> key, to |-> to, undone |-> FALSE]) IN
  /\ call.open /\ Len(ruleLog) < MaxRuleLog
  /\ ruleLog' = actions
  /\ RecomputeRules(actions, {Len(actions)})
  /\ call' = [call EXCEPT !.dirty = TRUE]
  /\ UNCHANGED derived

(* Bug: what aliases to the new alias is not looked at. *)
AliasOfATarget(alias, to) ==
  /\ alias # to
  /\ {alias, to} \cap DOMAIN aliases = {}
  /\ {alias, to} \subseteq DOMAIN stats => stats[alias].kind = stats[to].kind
  /\ ApplyRule("alias", alias, to)

(* An alias must not make a chain, nor join what is not of a kind. *)
Alias(alias, to) ==
  /\ alias # to
  /\ {alias, to} \cap DOMAIN aliases = {}
  /\ \A k \in DOMAIN aliases : aliases[k] # alias
  /\ {alias, to} \subseteq DOMAIN stats => stats[alias].kind = stats[to].kind
  /\ ApplyRule("alias", alias, to)

Unalias(alias) == alias \in DOMAIN aliases /\ ApplyRule("unalias", alias, aliases[alias])
Block(key) == key \notin blocked /\ ApplyRule("block", key, key)
Unblock(key) == key \in blocked /\ ApplyRule("unblock", key, key)

InsertNote(n) ==
  /\ call.open /\ Len(ruleLog) < MaxRuleLog
  /\ UNCHANGED <<aliases, blocked, segments>>
  /\ InsertOne(n)
  /\ ruleLog' = Append(ruleLog, [op |-> "note", key |-> n, undone |-> FALSE])
  /\ call' = [call EXCEPT !.touched = @ \cup {SessionOfText[n]}]

(* Bug: only a call that changed rules has tables to derive. *)
CommitRules ==
  /\ call.open /\ call' = NoCall
  /\ UNCHANGED <<aliases, blocked, ruleLog>>
  /\ IF call.dirty THEN Rederive(DOMAIN mentions) ELSE UNCHANGED derived

Commit ==
  /\ call.open /\ call' = NoCall
  /\ UNCHANGED <<aliases, blocked, ruleLog>>
  /\ IF call.dirty THEN Rederive(DOMAIN mentions)
     ELSE UNCHANGED <<mentions, stats, edges>> /\ Resegment(call.touched)

(***************************************************************************)
(* curate_undo, of one action or of several.                               *)
(***************************************************************************)

UndoRules(ids) ==
  LET actions == [i \in DOMAIN ruleLog |-> [ruleLog[i] EXCEPT !.undone = @ \/ i \in ids]]
      notes == {ruleLog[i].key : i \in {j \in ids : ruleLog[j].op = "note"}} \cap DOMAIN mentions
  IN
  /\ Idle /\ ids # {} /\ \A i \in ids : ~ruleLog[i].undone
  /\ ruleLog' = actions
  /\ RecomputeRules(actions, ids)
  /\ IF \E i \in ids : ruleLog[i].op # "note"
     THEN Rederive(DOMAIN mentions \ notes)
     ELSE /\ DeleteTurns(notes)
          /\ IF notes = {} THEN UNCHANGED <<stats, edges>> ELSE RebuildAggregates
          /\ Resegment({SessionOfText[n] : n \in notes})
  /\ UNCHANGED call

EntitiesNext ==
  \/ \E t \in HostTexts : IngestText(t)
  \/ \E s \in TextSessions : DropSession(s)
  \/ Rebuild \/ ClearTables
  \/ Begin
  \/ \E k, l \in Keys : Alias(k, l)
  \/ \E k \in Keys : Unalias(k) \/ Block(k) \/ Unblock(k)
  \/ \E n \in NoteTexts : InsertNote(n)
  \/ Commit
  \/ \E ids \in SUBSET DOMAIN ruleLog : UndoRules(ids)

EntitiesSpec == EntitiesInit /\ [][EntitiesNext]_entitiesVars

(***************************************************************************)
(* Properties.                                                             *)
(***************************************************************************)

Stat == [kind : EntityKinds, turns : Nat, first : Nat, last : Nat]

(* The types of the tables. *)
EntitiesTypeOK ==
  /\ DOMAIN mentions \subseteq Texts
  /\ \A t \in DOMAIN mentions : mentions[t] \in Seq([key : Keys, kind : EntityKinds])
  /\ DOMAIN stats \subseteq Keys /\ stats \in [DOMAIN stats -> Stat]
  /\ edges \in [DOMAIN edges -> Nat \ {0}]
  /\ \A s \in TextSessions : DOMAIN segments[s] \subseteq DOMAIN mentions
  /\ DOMAIN aliases \subseteq Keys /\ aliases \in [DOMAIN aliases -> Keys]
  /\ blocked \subseteq Keys
  /\ ruleLog \in Seq(RuleAction \cup NoteAction)
  /\ call \in [open : BOOLEAN, dirty : BOOLEAN, touched : SUBSET TextSessions]

(* Between calls the counts of keys and of the pairs they are mentioned in *)
(* are those a rebuild would make: "the incremental path must agree with   *)
(* this exactly" (store.rs:1313-1315).  All but the kind of a key: of a key*)
(* seen with two the incremental path keeps the first, a rebuild the least.*)
CountsAsRebuilt ==
  Idle =>
    /\ edges = RebuiltEdges(mentions)
    /\ DOMAIN stats = DOMAIN RebuiltStats(mentions)
    /\ \A k \in DOMAIN stats :
         stats[k] = [RebuiltStats(mentions)[k] EXCEPT !.kind = stats[k].kind]

(* Every segment is of the turns its session has, with the keys they have. *)
SegmentsCurrent ==
  Idle => \A s \in TextSessions : segments[s] = Segmented(mentions, s)

(* What one action makes of the rules. *)
RulesAfter(rules, a) ==
  LET others == DOMAIN rules.aliases \ {a.key} IN
  IF a.undone THEN rules ELSE
  CASE a.op = "note"    -> rules
    [] a.op = "alias"   -> [rules EXCEPT !.aliases =
                              [k \in others \cup {a.key} |-> IF k = a.key THEN a.to ELSE @[k]]]
    [] a.op = "unalias" -> [rules EXCEPT !.aliases = Restrict(@, others)]
    [] a.op = "block"   -> [rules EXCEPT !.blocked = @ \cup {a.key}]
    [] a.op = "unblock" -> [rules EXCEPT !.blocked = @ \ {a.key}]

ReplayedRules(actions) ==
  LET after[n \in 0..Len(actions)] ==
        IF n = 0 THEN [aliases |-> NoRows, blocked |-> {}] ELSE RulesAfter(after[n-1], actions[n])
  IN after[Len(actions)]

(* The rules, refolded only for the keys an action names, are those of a   *)
(* replay of the log with the undone actions left out (mod.rs:10-14).      *)
RulesFoldTheLog == [aliases |-> aliases, blocked |-> blocked] = ReplayedRules(ruleLog)

(* "Apply refuses chains, but an undo can recreate one" (store.rs:1218):   *)
(* while nothing is undone, no alias leads to an alias.                    *)
ChainsComeOfUndo ==
  (\A i \in DOMAIN ruleLog : ~ruleLog[i].undone) =>
    \A k \in DOMAIN aliases : aliases[k] \notin DOMAIN aliases

(* k leads back to itself: it is of some aliases that lead to each other. *)
OnCycle(k) ==
  \E round \in SUBSET DOMAIN aliases : k \in round /\ {aliases[l] : l \in round} = round

(* Following aliases from k one comes to l: l is in every set of keys that *)
(* has k and, with an alias, what it stands for.                           *)
LeadsTo(k, l) ==
  \A on \in SUBSET Keys :
    k \in on /\ {aliases[x] : x \in on \cap DOMAIN aliases} \subseteq on => l \in on

(* Where the aliases from k end, "the end of the chain" (store.rs:1218):   *)
(* at a key that is none.  An undo can leave a cycle, which has no end, or *)
(* a chain of more aliases than are followed; then some key on the way.    *)
EndsOf(k) ==
  {l \in Keys : /\ LeadsTo(k, l)
                /\ l \in DOMAIN aliases => OnCycle(l) \/ Cardinality(DOMAIN aliases) > MaxHops}

(* Between calls every text is stored as the rules of now have it, whenever*)
(* it came and whatever was ruled and undone since: "an alias is stored    *)
(* under its canonical key, a blocked key is not stored at all" (store.rs: *)
(* 1198-1200).  The rows of a text are those of its mentions of which      *)
(* neither the key nor the canonical one is blocked, all of them, in their *)
(* order, each under the canonical key, and one key has one canonical key  *)
(* in the whole store.                                                     *)
StoredUnderTheRules ==
  LET ends == [k \in Keys |-> EndsOf(k)] IN
  Idle => \E under \in [Keys -> Keys] :
    /\ \A k \in Keys : under[k] \in ends[k]
    /\ \A t \in DOMAIN mentions :
         LET said == Extracted[t]
             kept == {p \in DOMAIN said : {said[p].key, under[said[p].key]} \cap blocked = {}}
         IN
         /\ Len(mentions[t]) = Cardinality(kept)
         /\ \A p \in kept :
              mentions[t][Cardinality({q \in kept : q <= p})]
                = [key |-> under[said[p].key], kind |-> said[p].kind]

==============================================================================
