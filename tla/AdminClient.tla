----------------------------- MODULE AdminClient -----------------------------
(***************************************************************************)
(* What the admin page in one browser shows of a store that others change  *)
(* too: the queries and mutations of src/app/src/lib/queries.ts, and the   *)
(* Compare page (src/app/src/routes/compare.tsx), whose results are cached *)
(* for ever and which keeps one of them pinned.                            *)
(*                                                                         *)
(* The query cache is @tanstack/react-query's: a query has data, a mark    *)
(* that it was invalidated and perhaps a fetch under way, which an answer  *)
(* ends and which clears the mark. An invalidation starts the fetch of a   *)
(* mounted query over again, unless it is the first and there is no data   *)
(* yet, and leaves that of an unmounted one alone.                         *)
(* What a read returns is the generation of the store it was made at.      *)
(***************************************************************************)
EXTENDS Naturals

CONSTANTS
  Recalls,        \* the recalls the user asks for, by query and settings
  NoData,         \* nothing fetched, nothing asked for
  OnItsWay,       \* a fetch the server has not read the store for yet
  MaxGeneration   \* bound: how often the store changes

ASSUME ClientAssumption ==
  /\ MaxGeneration \in Nat /\ NoData # OnItsWay /\ {NoData, OnItsWay} \cap (Nat \cup Recalls) = {}

VARIABLES
  generation,     \* the store's
  cache,          \* query -> [data, stale, fetch]
  page,           \* the route on screen
  compare,        \* state of the Compare page: [a, b, pinned]
  mutation,       \* the one under way: the keys it will invalidate, and the
                  \* generation it made, or OnItsWay
  ownChange       \* history: the store's generation after the last mutation
                  \* that was answered with counts on screen

clientVars == <<generation, cache, page, compare, mutation, ownChange>>

Queries == {"status", "sessions"} \cup Recalls
Pages == {"compare", "sessions", "settings"}

Empty == [data |-> NoData, stale |-> FALSE, fetch |-> NoData]
NotRun == [a |-> NoData, b |-> NoData, pinned |-> NoData]
NoMutation == [keys |-> {}, made |-> NoData]

ClientInit ==
  /\ generation = 0
  /\ cache = [q \in Queries |-> IF q = "status" THEN [Empty EXCEPT !.fetch = OnItsWay] ELSE Empty]
  /\ page = "settings"
  /\ compare = NotRun
  /\ mutation = NoMutation
  /\ ownChange = 0

(* The components that read a query are on screen: the header's status on   *)
(* every page; side A of the comparison unless it is pinned.                *)
Mounted(q, onPage, sides) ==
  \/ q = "status"
  \/ q = "sessions" /\ onPage = "sessions"
  \/ /\ onPage = "compare"
     /\ q = sides.b \/ (q = sides.a /\ sides.pinned = NoData)

IsFetching(q) == cache[q].fetch # NoData

(* A mounted query that has no data, or stale data, is fetched; one that is *)
(* being fetched goes on with that fetch. Sessions are stale at once,       *)
(* a recall never is of itself (staleTime).                                 *)
Refreshed(q) ==
  IF ~IsFetching(q) /\ (cache[q].data = NoData \/ cache[q].stale \/ q = "sessions")
  THEN [cache[q] EXCEPT !.fetch = OnItsWay]
  ELSE cache[q]

OnMount(onPage, sides) ==
  [q \in Queries |-> IF Mounted(q, onPage, sides) /\ ~Mounted(q, page, compare)
                     THEN Refreshed(q) ELSE cache[q]]

--------------------------------------------------------------------------------
(* Fetches.                                                                 *)

(* refetchInterval, or the Retry of a query that failed. *)
Refetch(q) ==
  /\ Mounted(q, page, compare) /\ ~IsFetching(q)
  /\ q \in {"status", "sessions"} \/ cache[q].data = NoData \/ cache[q].stale
  /\ cache' = [cache EXCEPT ![q].fetch = OnItsWay]
  /\ UNCHANGED <<generation, page, compare, mutation, ownChange>>

ServerReads(q) ==
  /\ cache[q].fetch = OnItsWay
  /\ cache' = [cache EXCEPT ![q].fetch = generation]
  /\ UNCHANGED <<generation, page, compare, mutation, ownChange>>

FetchArrives(q) ==
  /\ cache[q].fetch \notin {NoData, OnItsWay}
  /\ cache' = [cache EXCEPT ![q] = [data |-> cache[q].fetch, stale |-> FALSE, fetch |-> NoData]]
  /\ UNCHANGED <<generation, page, compare, mutation, ownChange>>

(* After its retries; what was there stays, and is stale. *)
FetchFails(q) ==
  /\ IsFetching(q)
  /\ cache' = [cache EXCEPT ![q].fetch = NoData, ![q].stale = cache[q].data # NoData]
  /\ UNCHANGED <<generation, page, compare, mutation, ownChange>>

(* Five minutes after its last component went. *)
Collect(q) ==
  /\ ~Mounted(q, page, compare) /\ ~IsFetching(q) /\ cache[q] # Empty
  /\ cache' = [cache EXCEPT ![q] = Empty]
  /\ UNCHANGED <<generation, page, compare, mutation, ownChange>>

--------------------------------------------------------------------------------
(* The user. The page's own state goes with the page.                       *)

GoTo(next) ==
  /\ page # next
  /\ page' = next
  /\ compare' = NotRun
  /\ cache' = OnMount(next, NotRun)
  /\ UNCHANGED <<generation, mutation, ownChange>>

RunBoth(a, b) ==
  /\ page = "compare"
  /\ \A q \in {compare.a, compare.b} \ {NoData} : Mounted(q, page, compare) => ~IsFetching(q)
  /\ LET sides == [compare EXCEPT !.a = IF compare.pinned = NoData THEN a ELSE @, !.b = b]
     IN compare' = sides /\ cache' = OnMount(page, sides)
  /\ UNCHANGED <<generation, page, mutation, ownChange>>

Pin ==
  /\ compare.a # NoData /\ compare.pinned = NoData /\ cache[compare.a].data # NoData
  /\ compare' = [compare EXCEPT !.pinned = cache[compare.a].data]
  /\ UNCHANGED <<generation, cache, page, mutation, ownChange>>

Unpin ==
  /\ compare.pinned # NoData
  /\ compare' = [compare EXCEPT !.pinned = NoData]
  /\ cache' = OnMount(page, compare')
  /\ UNCHANGED <<generation, page, mutation, ownChange>>

(* The keys a mutation invalidates once it is answered. The settings, the   *)
(* curation log and the graphs are reads like the sessions.                 *)
Invalidates(does) == IF does \in {"reembed", "undo"} THEN Queries \ {"sessions"} ELSE Queries

Mutate(does) ==
  /\ page # "compare" /\ mutation = NoMutation
  /\ mutation' = [keys |-> Invalidates(does), made |-> OnItsWay]
  /\ UNCHANGED <<generation, cache, page, compare, ownChange>>

ServerChanges ==
  /\ mutation.made = OnItsWay
  /\ generation < MaxGeneration
  /\ generation' = generation + 1
  /\ mutation' = [mutation EXCEPT !.made = generation']
  /\ UNCHANGED <<cache, page, compare, ownChange>>

FirstFetch(q) == cache[q].data = NoData /\ IsFetching(q)

Invalidated(q) ==
  IF Mounted(q, page, compare) /\ ~FirstFetch(q) THEN [cache[q] EXCEPT !.stale = TRUE, !.fetch = OnItsWay]
  ELSE IF cache[q] = Empty THEN Empty
  ELSE [cache[q] EXCEPT !.stale = TRUE]

(* Bug: nothing that is already being fetched is invalidated.               *)
MutationAnsweredLater ==
  /\ mutation.made \notin {NoData, OnItsWay}
  /\ cache' = [q \in Queries |-> IF q \in mutation.keys /\ ~IsFetching(q) THEN Invalidated(q) ELSE cache[q]]
  /\ ownChange' = IF cache["status"].data = NoData THEN ownChange ELSE mutation.made
  /\ mutation' = NoMutation
  /\ UNCHANGED <<generation, page, compare>>

MutationAnswered ==
  /\ mutation.made \notin {NoData, OnItsWay}
  /\ cache' = [q \in Queries |-> IF q \in mutation.keys THEN Invalidated(q) ELSE cache[q]]
  /\ ownChange' = IF cache["status"].data = NoData THEN ownChange ELSE mutation.made
  /\ mutation' = NoMutation
  /\ UNCHANGED <<generation, page, compare>>

(* Refused, or its answer is lost: nothing is invalidated.                  *)
MutationFails ==
  /\ mutation # NoMutation
  /\ mutation' = NoMutation
  /\ UNCHANGED <<generation, cache, page, compare, ownChange>>

(* A hook or another client changes the store, or another browser's page.   *)
OthersChange ==
  /\ generation < MaxGeneration
  /\ generation' = generation + 1
  /\ UNCHANGED <<cache, page, compare, mutation, ownChange>>

Mutations == {"clear", "switch", "ingest", "forget", "reembed", "undo"}

ClientNext ==
  \/ \E q \in Queries : Refetch(q) \/ ServerReads(q) \/ FetchArrives(q) \/ FetchFails(q) \/ Collect(q)
  \/ \E next \in Pages : GoTo(next)
  \/ \E a, b \in Recalls : RunBoth(a, b)
  \/ Pin \/ Unpin
  \/ \E does \in Mutations : Mutate(does)
  \/ ServerChanges \/ MutationAnswered \/ MutationFails \/ OthersChange

ClientSpec == ClientInit /\ [][ClientNext]_clientVars

--------------------------------------------------------------------------------

Generations == 0..MaxGeneration

ClientTypeOK ==
  /\ generation \in Generations /\ ownChange \in Generations
  /\ cache \in [Queries -> [data : Generations \cup {NoData}, stale : BOOLEAN,
                             fetch : Generations \cup {NoData, OnItsWay}]]
  /\ page \in Pages
  /\ {compare.a, compare.b} \subseteq Recalls \cup {NoData}
  /\ compare.pinned \in Generations \cup {NoData}
  /\ mutation \in [keys : SUBSET Queries, made : Generations \cup {NoData, OnItsWay}]

(* Once a change made in this browser is answered, the counts on top of     *)
(* every page are not those from before it, whatever fetches were under way *)
(* then: the status is fetching, marked stale, or no older than the change  *)
(* (the invalidations of queries.ts:214-290). Not so while the first status *)
(* of the page is still on its way: that one is not fetched over again.     *)
HeaderShowsOwnChanges ==
  \/ IsFetching("status") \/ cache["status"].stale \/ cache["status"].data = NoData
  \/ cache["status"].data >= ownChange

================================================================================
