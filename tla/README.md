# mcp-zeromem in TLA+

mcp-zeromem keeps the conversations of coding agents as *turns* in one SQLite
file and recalls them.  Several operating-system processes use that file at once: an HTTP
server, stdio sessions, the `zm` hooks and a command line.  None of them talks
to another; what coordinates them is SQLite's write lock and a few counters in
the `meta` table.  Around that core there are a curator, which hides, supersedes
and summarises turns through an undoable log; a worker that drains the
backlog of turns without a vector through an embedder that may be down; a Node
server whose settings and token decide who may do what; and an admin page that
shows all this from a cache.

This directory models what of that is a protocol: state that several actors
read and write, in orders nobody can write a test for.

| module | models | checked by | proved in |
|---|---|---|---|
| `Store` | the transactions of `store.rs` on turns, vectors, generation and embedder | through `ZeroMem` | `ZeroMem_proofs` |
| `ZeroMem` | the engine processes over one store: `lib.rs` | `MCZeroMem`, `MCZeroMemCalls`: `zeromem_calls`, `zeromem_drain`, `zeromem_seed_race` | `ZeroMem_proofs`, `ZeroMemSeeded_proofs` |
| `EmbeddingPromise` | what the processes promise together, as an abstract specification | refined by `MCZeroMem!KeepsPromise` | `ZeroMemSeeded_proofs` |
| `Curation` | the curation log and its folds: `curation/mod.rs` | `MCCuration`, `parts`: `curation_reingest`, `curation_undo_order` | `Curation_proofs` |
| `Entities` | the rules on entity keys and the tables that follow from them: `store.rs`, `curation/mod.rs` | `MCEntities`, `parts` | `Entities_proofs` |
| `Sweep` | the pages of candidates and the cursor a run leaves: `curation/finders.rs` | `MCSweep`, `parts`: `sweep_cursor` | `Sweep_proofs` |
| `Migration` | opening a store of an older version: `store.rs`, `lib.rs` | `MCMigration`, `parts`: `migration_crash` | `Parts_proofs` |
| `Recall` | from scored candidates to the evidence, under the flags: `retrieve/` | `MCRecall`, `parts`: `recall_circle` | `Parts_proofs` |
| `CuratorAgent` | the agent that makes a sweep with a local model: `curator-agent/agent.ts` | `parts`, `agent_closed` | `Parts_proofs` |
| `AdminClient` | the query cache of the admin page and its Compare page: `queries.ts`, `compare.tsx` | `parts` | `Parts_proofs` |
| `SettingsPage` | the curator card of the settings page: `settings.tsx` | `parts` | `Parts_proofs` |
| `EmbedWorker` | the server's backlog loop: `embed-worker.ts` | `MCEmbedWorker`, `workers` | `Workers_proofs` |
| `Breaker` | the circuit breaker of the remote embedder: `dense/remote.rs` | `workers` | `Workers_proofs` |
| `ServerSettings` | the curator settings, their copy and the routes that change them: `curator.ts`, `auth.ts`, `api/routes/settings.ts` | `workers`, `settings_lost_token` | `Workers_proofs` |
| `TokenGate` | the bearer token of the admin page, in several tabs: `auth.ts`, `api.ts`, `token-gate.tsx` | `workers` | `Workers_proofs` (its type) |
| `MCParts`, `MCWorkers` | one run each over the parts above that do not meet in one step | `parts`, `workers` | `Parts_proofs`, `Workers_proofs` |
| `Induction` | nothing of the code: induction and recursion, for the proofs | | itself |

Run a check with `tlc -config ZeroMemCalls.cfg MCZeroMemCalls.tla`, a proof with
`tlapm ZeroMem_proofs.tla`.

## Inventory

### Store (`crates/zeromem-core/src/store.rs`)

*State.*  `turns` by row id (INTEGER PRIMARY KEY without AUTOINCREMENT, so the
id of a deleted last turn comes back), `embeddings` by turn id with a write
sequence and the model's name, `meta` with `generation` (moved by everything
that removes turns or vectors), `embedder`, `next_seq`, and the tables derived
from turns: entities and their counts, segments, timeline, full-text index.
*Operations.*  Insert a turn, with a vector or without; write a batch of
vectors; delete a session, clear the memory, wipe; seed, switch and re-apply
the embedder; drop all vectors; migrate.
*Interacts* with every process through the file.
*Hard.*  Vectors are made by a model call of seconds that runs outside any
transaction, so what was read before it must be re-validated when it is
written.  *Correct if* a vector is of the text its row holds and of the model
the store records, and a reader that goes on where it stopped misses nothing.

### Engine (`lib.rs`, `dense.rs`)

*State* per process: the embedder it follows, whether it could be built, an
in-memory index of vectors, the last sequence and generation it has seen.
*Operations.*  open, close, refresh (before every read), ingest, embed_backlog,
set_embedder, reembed, delete, clear.
*Interacts* with other processes through the store only; with the remote
embedder through model calls that may fail.
*Hard.*  Another process may commit between any two statements; the process may
die between them.  *Correct if* no index mixes models, none keeps a deleted
turn once it has seen the generation, readers catch up, and the backlog drains.

### Curation (`curation/mod.rs`, `curation/finders.rs`)

*State.*  The log `curation_actions`, and its folds: `turn_flags` (hidden,
superseded by), `note_sources`, entity aliases and blocks, the run cursor, the
standing briefs.
*Operations.*  Apply an action (hide, unhide, supersede, note, brief, alias,
unalias, block, unblock, end of run), undo an action or a run, find candidates.
*Interacts* with the store's deletes and inserts, which know nothing of the
log, and with recall, which reads the flags.
*Hard.*  Folds are recomputed only for the keys an apply or an undo names, while
undo may come in any order and the rows may be deleted and come back.
*Correct if* the folds are always those of a replay of the log.

### Embed worker (`server/src/engine/embed-worker.ts`)

*State.*  `stopped`, `kicked`, the waiters of drained(), the stall counter, the
sleeping loop's timer and wake-up.
*Operations.*  start, kick, stop, drained, and the loop.
*Interacts* with the engine (one call at a time), with the settings routes,
which kick it, and with the server's start and shutdown.
*Hard.*  Kicks, stops and callers of drained() come at any await of the loop.
*Correct if* no kick is lost, a stop ends the loop, nobody waits for ever, and
no pass spins.

### Remote embedder (`dense/remote.rs`)

*State.*  The failures in a row and the time until which no request is made.
*Operations.*  A job of several chunks, each a request that is tried twice;
the pause; a new embedder when the settings are applied again.
*Interacts* with the engine, which holds its mutex through a job, and with an
endpoint that may be slow, down or wrong.
*Hard.*  A failure may end a chunk in the middle of a job, a retry may succeed,
a cooldown may end in the first failure.  *Correct if* an endpoint that is
down costs a bounded number of requests, and one that has come back is found.

### Opening an older store (`store.rs`, `lib.rs`)

*State.*  The stamped version, the columns there are, the entity rows that are
of an older extraction.
*Operations.*  Create what is missing, look at each table's shape, add a column,
read the stamp and write it, rebuild; each a statement of its own.
*Interacts* with other processes that open the store at the same time.
*Hard.*  Any statement may be the last of its process.  *Correct if* the stamp
never promises more than the tables hold.

### Recall (`retrieve/`)

*State* of one question only: scores by words, vectors and anchors, the flags
as they are then, and what has folded.
*Operations.*  Hand the score of a superseded turn to the last of its chain;
keep the best; fold turns under their replacements and notes; fill the freed
places and fold again, up to five times.
*Interacts* with curation through the flags, which undo can leave in a circle.
*Correct if* nothing folds away without something that stands for it, and no
superseded turn is shown where its replacement could be.

### Curator agent (`server/src/curator-agent/agent.ts`)

*State.*  The conversation, the calls of the last reply, the report.
*Operations.*  Ask the model, relay its calls one after another, clip their
results, drop the oldest results before the next request, ask once more for the
end of a run that was left open.
*Interacts* with the model and with its own MCP server; either may fail, and the
server may do what it did not answer in time.
*Correct if* what is sent fits, what is dropped is the oldest, and the report
says what the store holds.

### Server settings and the /mcp scope (`curator.ts`, `auth.ts`, `api/routes/settings.ts`)

*State.*  The settings the engine stores, a copy of them and its age.
*Operations.*  Read through the copy, update, generate a token; every engine
call is on another thread and two awaits apart.
*Interacts* with every /mcp request, which goes by the copy.
*Correct if* an update brings nothing back that was replaced, and the copy comes
to be what is stored.  The first holds of what was replaced before the update was
asked for, and not of what is replaced while it is under way.

### Admin page (`app/src`)

*State.*  The query cache of react-query, the page on screen, the state of the
Compare page, the forms of the settings page; in local storage, shared by all
tabs, the bearer token, and in each tab whether it asks for one.
*Operations.*  Navigate, fetch, mutate, invalidate, edit, save, lock, unlock.
*Interacts* with the server by requests that overlap, fail and answer late, and
with other clients through the store.
*Correct if* the page shows its own changes, a form neither loses what is
typed nor writes back what is not, and a tab whose token is refused asks for
another.

### The other parts

- *Entities* (`entities.rs`, and `rederive_entities`, `EntityMap` in
  `store.rs`): extraction, the rules of curation on it, and counts kept
  incrementally.
- *Segments and timeline* (`timeline.rs`), *projection* (`viz.rs`) and its cache.
- *Node binding* (`zeromem-node`): one mutex per engine, held for a whole call.
- *Gateway, HTTP API, configuration, discovery, metrics*: requests in,
  one engine call each, results out.
- *Evaluation harness*: measures recall offline.

`PROJECT.json` lists all of them with their files and says of each whether it
is modelled, and under `hazards` what is hard to test in them, line by line.

## The modules

### Store, ZeroMem and EmbeddingPromise

A turn is its text; the text stands for its uuid.  A vector is the model and
the text it was made from and the sequence number it was written under: what
the properties tell apart, and all they do.  One operator of `Store` is one
transaction of `store.rs`: SQLite's write lock makes it one step.  The vectors
written in one transaction share a sequence number here and have consecutive
ones in the code; a reader sees all of them or none either way.

`ZeroMem` gives each process a program counter whose labels are the statements
between which another process may commit (listed at the head of the module).
A process runs one call at a time, as the mutex of the Node binding makes it.
The locals that live across statements are `job` and `rows`.  A model call
may fail (`EmbedFails`, `ProbeFails`); an embedder may fail to be built
(`built \in BOOLEAN`); a process may die anywhere and open again (`Close`).
All processes are alike except `Worker`, which only the fairness names.

`EmbeddingPromise` is what a user of the store is promised: a set of turns, the
recorded model, and the turns embedded by it; a turn stays and a good vector
stays until a discard or a switch moves the epoch.  `MCZeroMem!KeepsPromise`
maps the tables to it; TLC checks, and a theorem says, that every step of every
process is a step of the promise or a stutter.

`Spec` may begin with a store that records no embedder; `SeededSpec` begins with
one that does, before any process opens it, which is every store but a fresh
one.  `SeededNext` leaves out the two actions that cannot happen there
(`OpenFresh`, `Seed`), and `zeromem_drain` is of it.

### Curation

The four tables are `turns` (uuid to session), `flags`, `noteSources` and
`log`.  An action of the module is one transaction: `Apply` (hide, unhide,
supersede, note), `UndoAction`, `UndoRun`, and the store's writes that touch
the same tables: `IngestAgain`, `DeleteSession`, `ClearMemory`.  What SQLite's
foreign keys do (ON DELETE CASCADE and SET NULL) is in `RecomputeFlags` and
`KeepSources`.  The id of an action is its position.  A refused action and a
dry run change nothing and are no step.

Two variables are not in the code.  `asked`, in an action, is what the caller
named: the code keeps only the turns whose flag the action changed, and one
finding is about the difference.  `returned` is the uuids that were deleted and
stored again.

### Entities

What the extractor finds in a text is the constant `Extracted`: an operator of
the code without state, whose string matching no property here depends on.  A
turn's row of `mentions` is what the rules of the moment left of it
(`Ruled`), and the counts, pairs and segments are derived from the rows, by
`AddToAggregates` when a turn comes and by a rebuild when one goes.
A call of `curate_apply` is one transaction of several actions: `Begin`, then
`Alias`, `Unalias`, `Block`, `Unblock` and `InsertNote` in any number and order,
then `Commit`, which rederives the mentions if a rule was touched.  Nothing
else happens within it, and the properties of the derived tables are about the
states between calls.  `Canonical` follows at most `MaxHops` (8) aliases, which
matters for the cycles an undo can leave.

### Sweep

A curator is an agent outside this code that pages through the candidates of
each kind and then ends its run; what it knows of its run is `run[c]`.  `find`
is `OpenPage`, one `ScanBatch` per query, and `AskMore`; any subset of what is
scanned may be a candidate.  The first page of a kind (`NoPage`: there was none)
starts at the cursor in force when it is asked for, which another curator may have
moved since the run began, and since the first page of another kind.  In a batch, `UpTo` are the turns a scan has passed
when it looks at one, `Stops` says at which it stops, and `Looked` are those it
looks at.  A run ends with the cursor the code chooses
(`EndUntold`), with the smallest id its pages reached, once it has one of every
kind (`EndTold`), with the cursor it was told as it began, as the focused prompts
say (`EndFocused`), or not at all
(`Abandon`).  Two things are history: `due`, the turns a run has still to look
at of a kind since its first page of it, and `settled`, the turns some run has looked at for a kind, or which no run
need look at.  A row id that was deleted or hidden once, or was followed by an
older turn, counts as settled: ids come back and times do not follow ids, so no
cursor that is an id can promise anything of those.  `ends` holds the cursors of
the ends of runs that stand, in their order; an undo takes one out, and the
cursor is the last that is left.  `named` remembers whether every run that ended
named its cursor, those undone included.

### EmbedWorker

JavaScript runs from one await to the next, so that is one step.  An engine
call of the loop is two: the engine's, which puts its `answer`, and the loop's,
which resumes with it.  The read of a caller of drained() is one step, its answer
or its failure (`DrainedFails`).  `pc` is the await the loop is at.  The backlog falls
when the engine embeds, or by itself (a read embeds a batch, a session is
deleted); it grows a bounded number of times (turns arrive, a switch drops the
vectors).  `unanswered` is a history variable: a kick has come since the last
pass began.


### Breaker

`request` is the one request that is out, the first try of a chunk or its retry;
`chunks` counts what is left of the job.  A call during the pause fails at once
and changes nothing, so it is no step.  `pause` counts ticks down.  `paused` and
`spent` are history: the requests sent since one was answered or a pause ended.
`Rebuilt` is the new embedder a switch or a save of the settings makes.

### Migration

The file is the stamp, the columns later versions added, and `oldRows`: some
entity rows are of the extraction before version 5.  `opening[p]` is the
statement a process is at; before any of them another process may run, and
`Leave` may end the process.  `LookAtShape` and `AddColumn` are two statements:
two processes may both miss a column, and the second to add it fails where the
code's ALTER does.  `rebuildLost` is history.

### Recall

One question is asked, under any flags that applies and undos can leave, and its
candidates come with any scores: `Ask` hands the scores of superseded turns over,
`Kept` is what calibration keeps, `CollapsePass` is a pass of `collapse` and the
refill that follows.  Scores are small integers; only their order, halving, and
the cut at 35 % of the best matter here.  Abstention, roles, and the neighbours
attached to a hit are left out.

### CuratorAgent

Texts are their lengths.  `Reply*` is a request and its answer, whose conversation
is trimmed first; `Relayed` is one tool call, of which `ends`, `isError` and
`recorded` say whether it asked for the end of the run, whether an error came
back, and whether the store has it: the server may have done what it did not
answer in time, and may refuse an action within a result that is no error.

### ServerSettings

Each request is at one of its awaits.  An engine call takes effect in one step
(`EngineReads`, `EngineWrites`) and its request goes on in another, in any order
with those of the other requests.  `write` numbers the stored configurations and
`since` is the number as a request came in; neither is in the program.
`Restart` loses the copy and the requests, not what the engine wrote.

### TokenGate

`kept` is in local storage, one for all tabs; `needsAuth` and `asking` are a
tab's own.  A request carries the token as it was when it was sent, so its
answer may come after the token was replaced.  Requests are lost and the server
is started again, with another token or none, a bounded number of times.

### AdminClient and SettingsPage

What a read returns is the generation of the store it was made at.  `AdminClient`
has react-query's cache, as the page relies on it (`data`, `stale`, `fetch`), the
keys each mutation invalidates, and the Compare page, whose recalls are never
stale of themselves and of which one side can be pinned.  `ownChange` is history.

`SettingsPage` has the form of limits, which React makes anew when its key
changes, and two components that save beside each other.  `Shows` is a render
with new data: the form stays if its key does.  A component has one save under
way at most; but the save of one that is gone, because the page was left or the
form made anew, goes on beside those of the next (`LeftBy`).  The slots of `saves`
are of the model alone.  `ServerSettings` takes the
server's update apart; here it is one step.

### The sums: MCParts, MCWorkers and MCZeroMemCalls

Parts that do not meet in one step of the program share a run: `part` says whose
behaviour it is, and the others stay at a single starting state.  The state
space is the sum of the parts', not their product, and a property of one part
is trivially kept by the behaviours of the others.  In `MCParts` the curators and
the runs of the curation log are the same model values, so that one symmetry
serves both.  In `MCWorkers`, the fairness of `Breaker` and `TokenGate` that would
make a frozen part move is asked of their own behaviours only.
`MCZeroMemCalls` does the same with two `world`s of one module.

## The runs

| run | instance | shows |
|---|---|---|
| `zeromem_calls` | 2 processes; in the world "reuse" a fresh store, 2 turns in 2 sessions, 1 model, 1 discard and no drain; in "switch" a seeded store, 1 turn, 2 models, 2 generations | `VectorsOfTheirTurn`: a vector is of the text its row holds, though row ids come back while the model works.  `VectorsOfTheEmbedder`, `IndexOfOneModel`, `FollowsTheStore`, whatever switches race with batches.  `IndexCurrent`: an index at the current generation holds no ghost and misses nothing it has moved past.  The refinement `KeepsPromise`. |
| `zeromem_drain` | 2 processes, 2 models, 1 turn, seeded, fair | `BacklogDrains`, `ReadersCatchUp` |
| `parts` | the eight parts of `MCParts` | *Curation*: `FlagsFoldTheLog`, `NoFlagOutlivesTheLog`, `NotesOfTheLog`.  *Sweep*: `LastPageIsTheLast`, `NamedCursorsSkipNothing`.  *Entities*: `CountsAsRebuilt`, `SegmentsCurrent`, `RulesFoldTheLog`, `ChainsComeOfUndo`, `StoredUnderTheRules`.  *Migration*: `StampNotAheadOfShape`, `OldRowsOnlyByALostRebuild`.  *Agent*: `OldestDroppedFirst`, `SentFits`.  *Recall*: `FoldsUnderWhatIsShown`, `NoStaleAnswer`.  *Admin page*: `HeaderShowsOwnChanges`, `FormIsOfTheSettings`, `EditsOutliveRefetches` |
| `workers` | the four parts of `MCWorkers`, fair | *Embed worker*: `SleepsOnNoKick`, `StopEndsTheLoop`, `PassesEnd`; and, if the timer and the embedder are timely, `DrainedResolves`, `BacklogIsDrained`.  *Breaker*: `DeadEndpointIsCheap`, `AskedAgain`.  *Settings*: `UpdatesOfAFreshRead`, `OldSettingsExpire`.  *Gate*: `RefusedTabsAskForAToken` |
| `zeromem_seed_race` | a fresh store, 2 models | violation of `SeedMeetsNoVectors` |
| `curation_reingest` | the curation of `parts` | violation of `LogIsTheTruth` |
| `curation_undo_order` | the same | violation of `UndoneAsNeverApplied` |
| `sweep_cursor` | 1 curator, 2 kinds | violation of `NextRunStartsWhereThisEnded` |
| `migration_crash` | 1 process | violation of `OpenedIsRederived` |
| `recall_circle` | 3 turns, 2 of them said at once, top 2 | violation of `TheBetterStays` |
| `settings_lost_token` | 2 requests, 2 tokens, 2 limits, 2 writes | violation of `EarlierTokensStayOut` |
| `agent_closed` | the agent of `parts` | violation of `ClosedAsReported` |

The violations are the findings below.  Every passing run also checks the types
of its parts.  Every property has a mutated definition in its module, marked
`Bug:`, that breaks it: a dropped re-validation, a missing reset, an off-by-one.

Some properties except a case on purpose.  `HeaderShowsOwnChanges` excepts a
first status fetch that is still under way when the change is answered:
react-query does not start that one over.  `NoStaleAnswer` excepts an answer
whose passes ran out, although a comment (`retrieve/mod.rs:125-126`) has a
superseded turn kept only when its replacement is not in the answer.
`CountsAsRebuilt` excepts the kind of an entity: one seen as two kinds keeps the
first it was seen with while counts are kept incrementally (`store.rs:1292`) and
gets the least when they are rebuilt (`store.rs:1321`), although the two "must agree
[...] exactly" (`store.rs:1314-1315`).
`StoredUnderTheRules` lets a stored key be an alias where aliases run in a circle
or there are more of them than `MaxHops`, which the code does not follow further
either.  `FoldsUnderWhatIsShown` excepts supersessions
in a circle, which an undo, or three turns said at the same time, can leave;
`recall_circle` shows what happens there.

### Bounds

- *Two processes.*  Each property relates one process to the store; what the
  others do to the store, one other can do.  The theorems hold for any number.
- *Turns.*  Row-id reuse needs two turns, one to delete and one to take its id;
  everything about models needs one.
- `MaxGeneration` bounds how often vectors or turns are dropped.  It is a
  guard, so ZeroMem stops there: its runs have CHECK_DEADLOCK FALSE.  One
  drop is enough for every stale write; a second lets a store return to the
  model it had.
- `Batch` 1 and `DrainLimit` 2: a drain of two batches with a gap between them.
- `MaxLog` 3, `MaxPerRun` 2: three actions are a supersession of a hidden turn
  and its undoing, or two overlapping hides and an unhide, and the limit of a
  run is reached.
- Entities: three keys make a chain of two aliases, and with undo a cycle; the
  three texts share keys pairwise, one names a key twice, and one key is seen
  with two kinds.  `MaxHops` 8 is the code's.
- Sweep: `Limit` 1, `Budget` 2 and `BatchSize` 2, so that a page can fill up
  inside a batch, by candidates or by turns scanned, or run dry.  `MinAge` and
  `MaxTime` 1: a turn is too young, then old enough.  `MaxEnds` 2: ends of runs
  that are not undone, so that an undo uncovers the cursor of an earlier one.  Two
  curators with one kind interleave their pages, ends and undos.  That the cursor
  moves between a run's first pages of two kinds, and that `EndTold` takes the
  smallest of several, is not in `parts`: two curators and two kinds are eight
  million states with `MaxEnds` 1 alone; TLC finds no violation in them, and the
  theorems `LastPages` and `NamedCursors` are of any number of kinds.
- Migration: two processes, all versions from none to the present, any step the
  last.
- Agent: three requests of two calls; a text that fits, one at the limit and one
  that is clipped (`TextSizes` 1, 4, 7 against `MaxToolChars` 5), and a
  context (`MaxContextChars` 14) that three results overflow.
- Recall: four turns of which one is a note over two, two said at once, so that
  they may supersede each other; scores of which the lower, halved, is cut and
  whole is not; top 2 and 3, so that places are freed and refilled.
  `CollapsePasses` 2 instead of the code's 5 lets the passes run out.
- Admin page: one recall, asked on both sides or one; two limits; one change
  of the store or by others, which can fall between any two steps.  `MaxSaves` 2:
  the two components' saves, or that of a form that is gone and that of the next.
- Workers: `MaxBacklog` 3 with `Batch` 2 is a full batch and a short one, and
  with `MaxArrivals` 1 a drained backlog fills once more; `MaxStalled` and
  `BreakerTrip` 3 are the code's; `MaxChunks` 2 lets a job fail half-way;
  two requests and two writes let one request's read be stale at its write.
  `MaxFaults` 2: a restart and a lost request, or two restarts.
- CHECK_DEADLOCK FALSE, besides ZeroMem: an answer ends, an agent ends, and
  changes, faults and arrivals are bounded.
- Processes are permuted in `zeromem_calls` and `zeromem_seed_race`, runs and
  curators in `parts`; no property or constant tells them apart there.  No run
  with a liveness property has a symmetry.

### Fairness

*ZeroMem.*  `Fairness` has weak fairness of what a call does once begun
(`Continue`, `ApplyProbed`): a running process is scheduled.  It has strong
fairness of `EmbedBatch`: a model asked again and again answers in the end, for
the remote embedder's breaker closes (`AskedAgain`) and the backoff retries.  And
strong fairness of `BeginDrain` of the server's process, for its EmbedWorker comes
back every `idleMs` or `retryMs` and the engine's mutex is handed on in between.
Nothing makes a process open, call or switch.  `BacklogDrains` holds because the
generation is bounded: switches without end may starve it, and should.

*EmbedWorker.*  `PromptSpec` has weak fairness of the loop, of the engine's
answering *something*, and of the callers' resuming: an event loop.  The timer
may be late for ever and the embedder fail for ever; `SleepsOnNoKick`,
`StopEndsTheLoop` and `PassesEnd` hold all the same.  `Timely` adds that the
timer fires and the engine sometimes counts and embeds; only the two properties
that need it assume it.

*Breaker.*  The worker's timer has the embedder called again and again; a request
ends, in its timeout if need be; the clock ticks.

*ServerSettings.*  `SettingsFairness`: an engine call ends, in an error if need
be, and its request goes on; the clock ticks.  No request has to come.

*TokenGate.*  A page polls, and what is not lost is answered.  Nobody has to type
a token.

### Findings

- `zeromem_seed_race`: a process that opens a fresh store reads that no embedder
  is recorded, builds and probes its own, and records it later
  (`lib.rs:choose_embedder`).  Another process may have recorded its own and
  stored vectors meanwhile.  The comment of `seed_embedder` says "No vectors
  exist to drop".  `IndexOfOneModel` holds all the same, as proved: a
  reader takes only the vectors of the model it follows.
- `curation_reingest`: a turn that was hidden, deleted with its session and
  ingested again is back without its flag, although its hide is live in the
  log, which "is the source of truth".
- `curation_undo_order`: a hide of a hidden turn records nothing for it, so
  undoing the first hide shows a turn the second asked to hide as well:
  "undoing in any order lands where never having applied would have".
- `settings_lost_token`: an update reads the settings, awaits, and writes all of
  them back (`curator.ts:59-64`).  If a token is replaced in between, the update
  of the limits puts the earlier one back, and it opens the curator's tools from
  then on, though "Any earlier token stops working" (`settings.tsx:772-773`).
  `UpdatesOfAFreshRead` says what holds: nothing comes back that was replaced
  before the update was asked for.
- `sweep_cursor`: a run that ends without naming a cursor, as the playbook has
  it after a complete sweep, moves the cursor past turns that were too young
  for its pages, or came after them with an old time.  The next run does not
  look at them: not "where this one ended".  Runs that name their cursor are
  safe, as `NamedCursorsSkipNothing` shows.
- `migration_crash`: the version is stamped before the rebuild it calls for is
  made (`store.rs:280`, `lib.rs:103-107`).  A process that dies in between
  leaves old entity rows that no later open rebuilds, although a store below the
  version "re-derives its entity tables once on open".  `zm rebuild` repairs it.
- `recall_circle`: of two turns that supersede each other, the better folds
  under the other, and then the other, whose chain comes round to it, folds under
  itself (`retrieve/mod.rs:511`): neither is shown.  The comment says "the better
  stays".
- `agent_closed`: a `run_end` that is refused inside a result without `isError`
  counts as applied (`agent.ts:136`); the agent does not ask again and reports
  the run closed, though "A `run_end` was applied" is not so.

## The proofs

All theorems are for any set of processes, turns, sessions, keys, models and
requests, any batch and any bound, under the named assumptions of the modules.
Every invariant and action property of a passing run is a theorem; what is
left to TLC is at the end of this section.

*From a part to its run.*  `PartsRunAlone` and `WorkersRunAlone` say that a
behaviour of a sum is a behaviour of each part's own specification, so what is
proved of a part holds of the run that checks it; `PartsTypeCorrect` and
`WorkersTypeCorrect` are the types of all parts at once.

*Assumptions.*  Most say that the bounds are numbers, what a constant function is
from and to, and that values which stand for nothing are none of the others.
Three say more.  `PageAssumption`: there is a kind of candidate (the code has a
fixed list).  `RecallAssumption`: scores are even, so that half of one is a
number, and finitely many; and a note is not among its own sources, which are
turns that were there when it was written.  `NotesAssumption`: a note has sources,
and the same sources make the same note, as its uuid is made from them.

`Induction` has what the provers cannot take from the library, whose induction
theorems are about an operator: induction over the natural numbers and over
finite sets for a *set* of those that have the property, that a function defined
by recursion exists, and that a finite set of numbers has a largest and a least.
With it the folds of the models, which are recursive functions, are reasoned
about over logs, texts and conversations of any length.

`ZeroMem_proofs` begins with `Store`: each transaction keeps `StoreInv`, which is
`StoreTypeOK` with two facts it needs: the row ids are bounded (so the next one
is a number greater than all of them) and every stored sequence number is below
the next.  That the ids are bounded says \E n \in Nat, which TLC cannot
evaluate; TLC checks the type alone.  Then:

- `TypeCorrect`: every variable keeps its type.  The induction needs to know
  that a process past a given statement has an embedder (`EmbedderKnown`).
- `VectorsAreOfTheirTurns`: `VectorsOfTheirTurn` is not inductive, for it says
  nothing of the batch a process holds while the model works.  The
  strengthening `BatchOfItsTurns` says that a batch read at the current
  generation names rows that still hold its texts: rows go only with the
  generation, and the write is refused when it has moved.
- `VectorsAreOfTheEmbedder`, under `SeededSpec`: it needs that a recorded
  embedder stays recorded (`Seeded`), so that no process can seed over another.
- `IndexesAreOfOneModel`: inductive as it stands, with the type.

`ZeroMemSeeded_proofs`, all under `SeededSpec`:

- `ProcessesFollowTheStore` and `IndexesAreCurrent`.  While the generation a
  process has seen is the store's, nothing was taken away and the embedder is the
  same, and a vector written since has a larger sequence number than any the
  process has seen (`WhileTheGenerationStands`).  The inductive forms `FollowInv`
  and `ReaderInv` add what a process has seen to what it holds, at each statement
  of a refresh.
- `ProcessesKeepThePromise`: every behaviour is one of `EmbeddingPromise`.  The
  initial states map to initial states; every transaction maps to a step of the
  promise or a stutter (`TransactionKeepsPromise`), where a write of vectors
  needs `VectorsOfTheirTurn` and `BatchOfItsTurns`; every other statement leaves the
  tables alone.

`Curation_proofs`: `CurationTypes`, `CurationFoldsTheLog`,
`CurationOutlivesNothing`, `CurationNotes`.  Apply and undo recompute the turns an
action names; the invariant is of all turns.  A replay is first shown to be a fold
that can be read off the log (`ReplayIsTheFold`, by induction over its prefixes):
a turn is hidden if the last live action to hide or unhide it hides, superseded by
whom the last live supersession of it names.  Then an action that does not name a
turn leaves its fold alone, appended (`AppendLeavesOthers`) or undone
(`UndoLeavesOthers`).  `NamedNotesWereWritten` is what a note that comes back
needs.

`Entities_proofs`:

- `EntitiesCounts`: insertion adds to the counts and edges what a rebuild from
  all mentions would count more (`OneMoreText`).
- `EntitiesSegments`: within a call the segments of the sessions it has touched may lag
  (`SegmentsKept`), and of no others.
- `EntitiesFoldTheLog`: as for the flags, for aliases and blocked keys; two
  rules that the log gives alike are the same (`FoldIsUnique`).
- `EntitiesChains`: what is refused depends on the key and the target of an action, the
  claim about all aliases.
- `EntitiesStored`: but for a call that has touched a rule and not rederived, each
  text is stored as `Ruled` has it (`StoredInv`).  What `Ruled` makes of a text, row by
  row, is found by induction over its mentions (`RuledRanks`, by `KeptGrows`).  A
  canonical key is on the way of the aliases (`CanonicalIsOnTheWay`); where `Canonical` stops short of the end of a chain,
  the hops repeat a key or outnumber the aliases (`CanonicalIsTheEnd`, by the
  pigeonhole principle), of which a log of rules makes finitely many.

`Sweep_proofs`: `SweepTypes`, `LastPages`, `NamedCursors`.  What is due of a kind is
what is eligible past the page's own place, from the first page of that kind on.  Every number a run holds,
and every cursor that is or could again be in force, is a mark: the turns below it
were settled as long as cursors were named, and every id below it was in use once
(`Known`), so that one missing was deleted.  The second is what a clear needs,
after which named cursors begin anew while runs hold marks from before it.  A batch
looks at all it passes up to where it stops (`LookedIsRight`), by counting
(`CountedUpTo`).

`Parts_proofs`, one part after another:

- *Migration*: `MigrationTypeCorrect`, `StampsAreNotAhead` and
  `OldRowsComeOfALostRebuild`.  At its n-th migration a process knows the columns
  of the earlier ones to be there, and columns never go (`ShapeBehind`); a process
  that has read an old stamp and is to write the new one still calls for the
  rebuild (`StampsRebuild`), whoever else has stamped meanwhile.
- *SettingsPage*: `PageTypeCorrect`, `FormsAreOfTheSettings`, and the action
  property `EditsAreKept`, whatever saves are under way, of components on screen or
  gone.
- *AdminClient*: `ClientTypeCorrect` and `HeadersShowOwnChanges`.  A status on its
  way may be an old one; but the header is on every page, so the answer to a
  mutation starts the status over, and a fetch that has read the store has read it
  since the last change (`StatusInTime`).
- *CuratorAgent*: `AgentTypeCorrect`, `AgentDropsTheOldest` and `AgentSendsWhatFits`.
  The trim is taken apart once (`Trimmed`): it drops results from the front, one
  at a time, until the rest fits or none is left.
- *Recall*: `RecallTypes`, `FoldedIsShown` and `AnswersAreNotStale`.  What stands in
  for a turn is the least set closed under what folds (`StandInsAreLeast`).
  Suppose a pass left something folded without a stand-in: the worst-scored of
  these was folded under a better one, which is shown or was folded itself, and
  then has no stand-in either.  For the stale answer the invariant says of every
  moment what the property says of the end: a superseded candidate has the latest of its
  chain ahead of it (`HeirsComeFirst`), for it handed its score on when asked, and
  a pass only removes.  A chain without an end is one that meets a circle
  (`EndlessIsACircle`, `CirclesAreEndless`).

`Workers_proofs`:

- *EmbedWorker*: `WorkerTypeCorrect` and `NoKickIsSleptOn`.  The inductive
  invariant adds that within a pass the stall counter is below its bound, that a
  kick not answered yet is noted in `kicked` or finds the loop awake, and that the
  loop is done only when it was stopped.
- *Breaker*: `BreakerTypeCorrect` and `DeadEndpointsAreCheap`.  What is spent
  is at most two for each failure (`SpentOnFailures`), and while calls go out the
  failures are fewer than trip it, or a pause has ended (`CallsWhenClosed`).
- *ServerSettings*: `SettingsTypeCorrect` and `UpdatesAreOfAFreshRead`.  The
  stored number never falls, so what the engine reads after a request came in is
  no older than what was stored then (`FreshEnough`).
- *TokenGate*: its type (`GateTypes`); what else it promises is liveness.

*Model-checked only.*  The liveness properties, which rest on fairness, and with it
on ENABLED, of which the provers know nothing: `BacklogDrains`, `ReadersCatchUp`,
`StopEndsTheLoop`, `PassesEnd`, `DrainedResolves`, `BacklogIsDrained`, `AskedAgain`,
`OldSettingsExpire`, `RefusedTabsAskForAToken`.  And the findings, which are
counterexamples.

## Not modelled

- Scoring and ranking of recall's views, abstention and the context of a hit, the
  projection of vectors to the plane: floating-point arithmetic.  The cache of the
  projection is one map; what its key is made of is in `ZeroMem`.
- The text side of turns: tokens, dates, the extraction of entities, where a
  session is cut into segments, the full-text index.
- The HTTP and MCP surface, whose handlers are one engine call each;
  configuration, discovery, metrics, logging, argument parsing; the evaluation
  harness.
- The standing briefs, which are notes in all but their uuid.
- The admin page's widgets and layout.  `app/components.json` installs most of
  them from a registry of components; they are about half of the repository's
  TypeScript (13,000 lines of 27,000), and hold no state that meets the store's.
  The protocols of this system are in its Rust core and in a few files of the
  server and the page, so the models stand for few lines of TypeScript.
- SQLite itself, which is taken to be serialisable, and its transactions durable.

## Plan

What could come next, in this order:

1. `Stewardship`: Sweep and Curation together, for the one hazard neither
   covers alone: a candidate names a row id, and by the time the curator acts
   on it the id may be another turn's.
2. `Briefs`: writing, replacing and undoing the standing brief of a scope.
3. The projection's cache key, the copy of the discovery settings, and `Segments`:
   where a session is cut and what a timeline says of it.
4. Lemmas that would shorten the proofs there are: the two folds of a log, of
   flags and of rules, are shown in the same way twice; one lemma about the last
   live action with a property could serve both.
