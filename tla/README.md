# SALTMDB: TLA+ models, checks and proofs

SALTMDB is a memory store for coding agents. One daemon process per database
file owns SQLite; MCP adapters, hooks and the command line talk to it over a
local socket. A set of scripts measures the retrieval and decides, by a
preregistered protocol, what ranking is deployed. This directory models the
parts whose correctness depends on orderings: threads, sockets, timers, crashes,
leases, reads that straddle other sessions' writes, and long sequences of
governed writes.

Paths below are relative to `src/src/saltmdb/` unless they start with `src/`.
`services/` stands for `domain/services/`, `benchmarking/` for
`src/scripts/benchmarking/`, `hooks/` for `src/hooks/`.

## 1. Inventory

| component | code | state it keeps | operations | interacts with |
|---|---|---|---|---|
| write coordinator | `daemon/db_write_coordinator.py`, `db/connection.py` | two FIFO lanes, stop flag, writer thread, open transaction | `start`, `submit`, `submit_maintenance`, `begin_draining`, `shutdown`, the writer loop | every writer in the daemon submits to it; done-callbacks submit again |
| daemon sessions and lifetime | `daemon/server.py`, `db/agent_sessions.py`, `daemon/client.py` | live sessions, capabilities and leases, in-flight count, drain flag, grace timer, `_agent_sessions` table | hello, goodbye, disconnect, tool call, timer, signal, shutdown sequence, start-up reconciliation | coordinator (rows), recovery thread (counts as in flight), adapters |
| election, discovery, spawn | `daemon/discovery.py`, `client.py`, `service.py`, `server.py` | guard and probe port, discovery file, spawn stamp | bind, probe, publish, spawn, connect, retry a lost call | operating system sockets, sessions |
| schema and migrations | `db/schema.py`, `db/vector_schema.py` | table shapes, `PRAGMA user_version`, the migrated rows | `init_db` | runs before the coordinator opens |
| embedding generations | `db/embedding_generations.py` | generations, switches, active one | register, record, seal, activate, validate | vectors of the embedding jobs |
| durable embedding jobs | `services/embedding_service.py`, `daemon/server.py` | job rows with attempts and leases, vectors, `embedding_status`, two permits | enqueue, cancel, claim, infer, persist, retry, lease recovery, canary, scan, backfill | coordinator, memory writes, shutdown |
| memory lifecycle, relations | `services/memory_service/*.py`, `services/relation_service.py` | memories, status, content, edges with validity | store, revise, supersede, consolidate, archive, relate, relate in bulk, update metadata | coordinator, embedding jobs, core governance |
| core governance | `services/core_governance_service.py` | core flag, review date, reason, declared details | store/derive/set/review core, capacity and overdue tests | memory lifecycle |
| tags and librarian | `services/memory_service/tags.py`, `services/librarian_service.py` | tag rows and aliases, links, cooldown row | resolve, create, merge, maintenance pass | memory writes, search by tag |
| traces | `services/trace_service.py`, `hooks/saltmdb-stop-trace-capture.py` | trace rows, messages, links to memories | append message, finalize, link, sweep | hooks, coordinator |
| session digest | `services/session_digest_service.py` | none (reads sessions, traces, events) | choose the cohort, render within a budget | agent sessions, hooks |
| session hooks | `hooks/*.py` | marker, claim, flag and counter files | deliver digest, retry, gate a tool, gate a stop | the agent's harness, command line |
| search and ranking | `services/memory_service/orchestrator.py`, `search_primitives.py`, `ranking.py`, `services/reranker_service.py` | none (reads; a cursor) | lexical, vector, fusion, predecessor resolution, reranking, paging | relations, vectors |
| context retrieval | `services/retrieve_context_service.py` and its five services | none (reads) | expand, conflict sets, orphan communities, budget, lineage | relations, communities |
| communities | `services/community_detection_service.py`, `community_retrieval_service.py` | community index, cooldown row | recompute, ask | relations, vectors |
| retrieval bakeoff | `benchmarking/bakeoff_state.py`, `bakeoff_orchestrator.py`, `judge_pool.py`, `merge_judgments.py`, ... | run directory: checkpoint, history, receipts, rankings, labels | advance, unlock, index, run, pool, judge, merge, evaluate | index of the store |
| fresh development protocol | `benchmarking/fresh_development_protocol.py` | spec, manifest, evidence, labels, decision | freeze, retrieve, judge, run, evaluate, assert ready | index of the store |
| events, telemetry | `services/event_service.py`, ... | appended rows | append, prune | coordinator |
| tool dispatch, guard, MCP surface | `daemon/dispatch.py`, `mcp/*.py` | guard state | argument checks, forwarding | sessions |
| viewer, CLI, configuration | `viewer/`, `cli.py`, `config.py` | - | pages, arguments | - |

What is hard, and what makes each part correct:

* **Coordinator.** Submitters, the writer and up to two draining threads share
  two lanes. Correct means: every admitted job is settled exactly once, success
  is reported exactly when the write is durable, background work is not starved.
* **Sessions.** Hello, tool calls and the timer race for one lock after an
  unlocked test; a client that lost patience repeats its hello; the process can
  die between any two steps. Correct means: a drain begun by the timer interrupts
  nobody, an idle daemon always has a timer, a goodbye is durable before it is
  acknowledged, and the next process closes exactly the rows the last left open.
* **Election.** Processes race for two ports, a file outlives its writer, a
  client may lose its daemon in the middle of a write. Correct means: one process
  writes, the file names it, a requested drain ends it, and a client that is told
  its write failed can believe that.
* **Schema.** Three data migrations run in one transaction with swallowed errors
  and crashes between them. Correct means: no relation or memory is lost or
  doubled, and a version number is the end of its migration.
* **Generations.** A generation is filled while another one serves. Correct
  means: the active one is complete, and what start-up validated stays true.
* **Embedding jobs.** Inference takes place outside any transaction and can
  outlast its lease, the memory can change meanwhile, and the daemon can die.
  Correct means: attempts are bounded, permits are exact, the vectors that search
  uses are those of the present text, and every job comes to an end.
* **Memories and relations.** A call validates what it read and applies it
  later. Correct means: one successor per memory, no cycle, at most one target of a strong
  predicate, no silent loss of an edge, and nothing archived or frozen changes.
* **Core governance.** Cores are given to every session, so they are few, short
  and reviewed. Six writes can make or change one, each resolves its own fields
  and tests its own set of rows. Correct means: no path exceeds a limit, none
  evades an overdue review, and bootstrap never fails closed on a row that was
  accepted.
* **Tags.** Names are sanitised, aliased and merged. Correct means: what was
  tagged is found by that tag after any merge.
* **Traces, digest, hooks.** Hooks are short processes that share files only, send
  everything again, are killed and overlap. Correct means: a trace tells its own
  turn in order, an undelivered digest part is not forgotten, the digest fits,
  and gates block a bounded number of times and let every turn end.
* **Search, context, communities.** Each stage reads by itself while others write.
  Correct means: nothing the caller may not see is served, strict mode serves
  grounded heads, pages neither repeat nor lose, a conflict is told whole, the
  budget is kept, and an answer comes from one generation of the index.
* **Benchmark protocols.** Files are signed and replaced by processes that may
  be killed, and stages are run by hand in any order. Correct means: a winner
  rests on settled grades of all that was ranked, blind queries are opened with an
  authorization only, and a verdict is final.

`PROJECT.json` lists the hazards, each at its line, with the properties that
would catch it.

## 2. Modules

| module | models | run by | proved in |
|---|---|---|---|
| `SerialWriter` | what the coordinator promises: a call is accepted only while open, decided once, and reported as success exactly if durable | refinement target | - |
| `DbWriteCoordinator` | the coordinator with its threads, lanes, retries, nested submits, callbacks and drains | `MC_Store`, `MC_DbWriteCoordinator` | `DbWriteCoordinator_proofs` |
| `SchemaMigration` | `init_db` with crashes and errors between its steps, and the services that write between two starts | `MC_Store` | `DurableRecords_proofs` |
| `EmbeddingGenerations` | the registry of vector generations | `MC_Store` | `DurableRecords_proofs` |
| `DaemonSessions` | one daemon after another, its connections, calls, timers and session rows | `MC_AgentSessions`, `MC_Lifetime`, `MC_DaemonSessions` | `DaemonLifetime_proofs` |
| `DaemonElection` | several processes, the ports, the discovery file and the adapters | `MC_Lifetime` | `DaemonLifetime_proofs` |
| `SessionHandover` | the sessions of a directory and the digest of them | `MC_AgentSessions` | `Digest_proofs` |
| `TraceCapture` | transcript, capture hooks, trace rows | `MC_AgentSessions` | `SessionHooks_proofs` |
| `EmbedJobs` | job rows, vectors, scheduler, workers, recovery | `MC_EmbedJobs`, `MC_Answers` | `EmbedJobs_proofs` |
| `DigestDelivery` | the two digest hooks and their marker files | `MC_Answers`, itself | `SessionHooks_proofs` |
| `StopGates` | search gate, flags and the three stop gates | `MC_Answers` | `SessionHooks_proofs` |
| `CoreGovernance` | the core fields of all memories and every write that touches them | `MC_CoreGovernance` | `Digest_proofs` |
| `MemoryGraph` | memories, edges and every call that changes them | `MC_Memories` (with `MC_MemoryGraph`) | `MemoryGraph_proofs` |
| `TagCatalog` | tag rows, aliases, links, librarian | `MC_Memories` (with `MC_TagCatalog`) | `MemoryGraph_proofs` |
| `SearchPipeline` | one search, its stages and pages, and the writers beside it | `MC_Reading` | `Reading_proofs` |
| `ContextAssembly` | one `retrieve_context` call, strategy local | `MC_Reading` | `Reading_proofs` |
| `CommunityIndex` | passes over the community index and one global question | `MC_Reading` | `Reading_proofs` |
| `BakeoffLedger` | checkpoint chain, receipts, lock, blind vault | `MC_Bakeoff` | `DurableRecords_proofs` |
| `BakeoffJudging` | rankings, pool, packets, answers, grades, winner | `MC_Bakeoff` | `DurableRecords_proofs` |
| `FreshDevelopment` | the two-arm protocol and its decision | `MC_Bakeoff` | `DurableRecords_proofs` |

Operators that begin with "Seeded fault" in their comment are wrong variants of
the operator that follows them. No specification uses them; replacing the
operator by its variant must break the property that `PROJECT.json` pairs it
with, which shows that the property is about that piece of code.

**One run, several parts.** Components that share no variable are explored in
one run: the variable `part` says which one moves, the others stand still in one
initial state, and the fairness of each is conditioned on its part. The state
space is the sum of the parts, not their product, and a property of one part
means there what it means in the component's own specification. Each checked
property is a conjunction of named parts, whose own comments say what each
states. Where components do interact, the interaction is in the module: the
coordinator's inline and callback submissions, sessions and the recovery
thread, memory writes and embedding jobs (`EmbedJobs`), session rows and the digest
(`SessionHandover`), hooks and the daemon's trace operations (`TraceCapture`),
passes and questions (`CommunityIndex`).

### DbWriteCoordinator

One action per critical section of `_admission_lock`; what the code does
outside the lock is a step of its own. `submit` is `Submit` (admission) and
`Notify` (the second critical section). The writer thread is the program
counter `wpc`: `OpenConnection`, `CheckStopping` (the two unlocked reads of
`_stopping`), `NextJob`, `WaitForWakeup`, `BeginJob`, `RetryTransaction`,
`CommitJob` or `FailJob`, `SettleFuture`, `RunCallback`. `begin_draining` may be
under way on the shutdown thread and on the writer at once: `DrainTake`,
`DrainCancel`, `DrainNotify` for each of `Drainers`. `SubmitNested` is a submit
made by a running job on the writer thread, which runs inline in its
transaction. `fut` is what the caller sees of the call; `tx` and `committed`
stand for the contents of the open transaction and of the database: a job's
writes are abstracted to its name.

### DaemonSessions

One action per critical section of `_DaemonState._lock`, and one per step that
can fail in between (writing the row, sending the answer). A connection's
handler is `hpc`, a one-shot call's handler is `cpc`, the main thread `mpc`.
`threading.Timer` is external: `armed`, then `fired` (its thread runs and wants
the lock), and `cancel()` stops only an armed one. `start_initial_grace_period`
runs without the lock, hence two actions. `ProcessEnds` (crash or exit) clears
everything but `row`, the `_agent_sessions` table. The client side is reduced to
what the server sees: an adapter says hello again only after it gave up its
earlier connection, and not after its goodbye. `greeted` and
`drainedBy` are history variables. Left out: `touch` (a timestamp), the
validation of hello arguments, the viewer's sessions.

### EmbedJobs

Every function that runs as one coordinator job is one action. The clock is abstracted to
`LeaseExpires` and `RetryDue`; sources (a base kind or a retrieval text) stand for source
hashes. Title and content of a stored memory cannot change (`_legacy_update_guard` in
`write.py` rejects it), so a base job has one source and the branch of
`_persist_embedding_if_current` for a changed hash is not reachable; the retrieval text
can be replaced (`SetRetrievalText`). A task is one call of `_infer_and_persist`: `queued`
in the pool, `infer`, `persist`, `retry`. `vecAvailable` says whether sqlite_vec can be
imported: without it a base persist returns as if done and a retrieval persist raises.
Claims take any due job instead of the oldest, base work before retrieval work as in the
code. A page of the scan is one memory (100 in the code). `Init` allows a database of an
earlier version: active memories without job rows, embedded or not.

### CoreGovernance

One action per write transaction: the fields it resolves, the admission tests it
runs inside the transaction, the rows it writes. `StoreCore` and `StoreOrdinary`
are `store_memory` (new memory, update in place, promotion, demotion),
`SetCore` is `set_core_memory`, `DeriveOrdinary` and `DeriveCore` are
`revise_memory`, `supersede_memory` and `consolidate_memories`, which archive
their sources and insert the new row; `Retain`, `Demote` and `Archive` are the
outcomes of a review. `FallsDue` is the clock. A refused call changes nothing
and so is no step; the preview that `store_memory` makes before its transaction
refuses only what the transaction would have refused, or what changed in
between, and is left out.

Texts are their lengths, since the limits count characters: `body` (title, type, content:
frozen once stored), `note` (reason and exit condition) and `date`. `datetime.isoformat`
writes 25 characters, or 32 with microseconds; a date may be given with `Z`, and one not
given is rendered as `None`. A note has two lengths, as given and as kept after redaction.
Left out: the `elaborates_on` edges that mirror the declaration (they are edges of
`MemoryGraph`), the `#core` tag (`TagCatalog`), who reviewed and why, ownership, and
private memories, which can be neither core nor detail. That the content mentions its
details is an input condition.

### SchemaMigration

`init_db` runs all its steps in one transaction: `pending` is what that transaction sees,
`disk` what is committed. `Startup`, `EnsureSchema` (the idempotent steps, `EnsureTables`
then `EnsureVectorsAndLedger`), `Refuse` (a shape no migration reads), `TrackAVersion1`,
`PredicateVersion`, `LifecycleVersion` and `Commit` follow the code's order; a caught
`OperationalError` in a versioned block leaves what the block had done, and version 3 goes
back to its savepoint. Its cleanup of orphaned vectors reads all three vector tables and
so fails without sqlite_vec, also when nothing is to be cleaned (`CleanupFails`).
`RenameStages` are the rows after each row update of the drift rewrite; what an update
finds taken (`Taken`) is a function of the rows it began with, as the code's own set is. A
component of superseding relations is the least set that no relation leaves. `Crash` drops
`pending`. Between two starts the services write relations and archive (`ServeRelation`,
`ServeArchive`), so that a migration that failed is met again by rows of the new release.
Left out: columns that are only added, indexes, FTS triggers.

### EmbeddingGenerations

`gens` holds per generation its state, specification, expected count, rows and
health check, `switches` the activation table, `verdict` what the start-up guard
last answered. Each function of the module is one action; it runs in its
caller's transaction, so a caller that dies leaves no step. The rows of a generation are
the set of its sources: an upsert that replaces a vector by another one of the same
source, which keeps the count, is not told from the vector that was there.

### DaemonElection

A process walks `BindGuard`, `BindProbe`, `ElectServices`, `PublishReady`, `Arm`
and, on the way out, `Stop` (one close after another, in `StopOrder`). `ports`
has the holder of the guard and the probe port and the process that the discovery
file names; a crash frees the ports and leaves the file. An adapter's call is
`Call`, `Send`, `Receive` or one of its losses, and `Attempt`, one round of
`ensure_daemon_running`'s loop. A tick is one retry delay; `stamp` counts ticks
since the last spawn. The reads that one round makes (file, ping, probe) are one
step, and so is the clean-up of a start that failed. External: the ports.

### MemoryGraph

`db` is the committed database: memories with status, body and key, edges with validity. A
call is a `Prepare...` step that reads and validates, and a commit step that applies the
prepared plan; `direct` says whether some caller opens the database itself, in which case
other commits come between. Consolidation and relation batches take one step per item
(`MergeStep`, `RelateItem`) before their end decides what is kept. A declared core may
have the very memory it replaces among its details, as in the code: that edge is stored
inside the replacement, would become one of the new memory to itself, and stays on the
predecessor (`Unmoved`, `OwnDetail`). A detail may be archived, but not core or private.
The edges that `Reconcile` closes because a core no longer declares them are closed on
purpose and not counted as lost. The list of orphaned edges is the one read when the call
was prepared; that of a consolidation, which the code reads after its commit, is no part
of a property. Title, type and content are one body, similarity is an input, core capacity
is a commit that fails (`Fail`).

### TagCatalog

The table `tags` is a sequence of rows with their alias target, `links` the
table `entity_tags`. Each operation is one coordinator job and so one action;
the librarian's pass is one job as well, with its cooldown in ticks.
`SanitizedName`, `NormalForm` and `PluralStem` are the three conversions of
names, given as tables. Initial tables include ones that earlier releases left.

### SearchPipeline

One search at a time: `ExactTitle`, `RunFts`, `RunSemantic`,
`ResolvePredecessors`, `RankAndCut`, each reading `corpus` at its own moment,
`SearchFails` and `NextPage`; `ArchiveMeanwhile`, `ReclassifyMeanwhile`
and `RelateMeanwhile` are the other sessions. A query is the two orders it
induces on the memories; fusion uses the code's reciprocal ranks with weight 1,
exactly; browsing without a query lists by last update, leaving out that the code puts
cores first. The cross-encoder inverts what it scores, the order furthest from the
one it is given. Explain mode, previews, related memories and traces attached
to a result are left out.

### ContextAssembly

One call of `retrieve_context` with strategy local: `ResolveAnchors`,
`CollectEdges`, `AssembleConflicts`, `FindOrphans`, `PackBudget`,
`AssembleLineage`, with five kinds of foreign writes between them. Tokens are
numbers per memory. Each stage's own reads are taken at one moment.

### CommunityIndex

`CheckEdges`, `ClaimCooldown`, `ComputeRows`, `WriteIndex` or `PassFails` are
one pass of each of two processes, which reads the edges twice: to see whether there are
any, and to cluster them. Without any it goes on without a claim and empties the
index. `SeedCommunities`, `LoadMembers` and
`RankAndPack` are one global question. Leiden may return any partition of the
clustered memories and of each group that is split again; `Hierarchies` are the
groups of each level down to `LevelCap`. Equally similar memories are listed by id,
as in the code. A failed pass keeps its claim, as in the code.

### DigestDelivery

The SessionStart hook is `bootHook`, each UserPromptSubmit hook a `retryHook`; they share
`pendingFile` and `claimedFile` only. Every system call that another hook can observe is a
step: rename, touch, read, open, write, unlink. A marker is renamed in one call and
written in two, as `Path.write_text` does: `OpenMarker` empties the file, and the text
lands later (`WriteMarker`) in whatever file the open descriptor leads to by then, a
renamed one included (`Landed`); both may fail, which the hook does not notice. So
`BootOpen`, `BootWrite`, `BootReopen`, `BootRewrite`, `FinishOpen`, `FinishWrite`.
`KillStart` and `KillRetry` end a hook between any two calls; an empty or torn marker is
one that `read_digest_pending` ignores (`Readable`). A session start prunes markers as old
as the clock of the model tells (`Pruned`; a day in the code, so it may or may not). Calls
of the command line tool take time, so that a claim can go stale.

`book` records what is owed, printed and given up, and `cut`: what a session start held
when it was killed between opening and writing a marker. `NoPartForgotten` is stated as
long as no two hooks overlapped, no more than one was killed and every write succeeded
(`Orderly`), and exempts `cut`; without that exemption it does not hold (section 6).

### StopGates

The transcript is the sequence of lines the gates' patterns can match. A stop
runs the three gates in order (`StopEvent`) and is one step, since the harness
waits for them; what a gate prints goes into the transcript. `harness` says what
the harness offers, and a transcript may be unreadable.

### TraceCapture

At every stop a hook without memory sends the whole transcript again, call by
call. `CallTool` is a call that is answered, `CallFails` one that is not, after
which it may still be executed (`late`, `ExecuteLate`). The three capture
operations and the sweep are transactions of the daemon.

### SessionHandover

Sessions of one directory start, work, end, are reopened and swept; then a digest
is rendered from the rows as they are. Text is its length, the shrinking of the
handover (a common cap by water filling, lowered until the text fits, then stubs for
the oldest) is the code's.
A digest is asked at the horizon of the clock, which loses nothing: moving every
timestamp by the same amount changes no comparison.

### BakeoffLedger, BakeoffJudging, FreshDevelopment

Fingerprints are the values they hash, so a checkpoint is the chain of steps that
led to it. In `BakeoffLedger` an orchestrator replaces one file per step under
the lock (a copy or receipt and its index entry are one) and may be killed
between two.

In `BakeoffJudging` the stages are commands run by hand, each at any time and as often as
one likes: `ExecuteCell` (an index is built in the call that searches it) replaces the
bundle of its cell, `BuildJudgingMatrix` the matrix, `WritePacket` one judge's packet and
private mapping, one after the other and possibly cut short in between, `Answer` is a
judge grading the packet it was handed, `IngestLabels` reads that answer through the
mapping there is by then, `MergeJudgments` merges and arbitrates. A packet is the order in
which it shows the pool; a raw artifact keeps the order of its mapping (`under`) for the
fingerprint the code keeps. The two phases have directories of their own (`NoFiles`),
which contenders are within five seconds at the 95th percentile is a choice of
`EvaluateDevelopment`, one query stands for the manifest and the gain of the first hit for
the metrics. Left out: the resuming of an interrupted index build, which no later step
sees.

In `FreshDevelopment` a file may be edited and signed
again (`EditSpec`, `EditLabels`, `EditDecision`), the index may change under the
run (`Reindex`), and a decision counts only when `AssertReady` accepts it. Three
judges and their arbitration are one panel there; NDCG is in thousandths, the
floor of an absent channel is a thousandth of the span, the lower bound of the
bootstrap is the mean difference, recall is a count, failures are counted per arm, and both
latency percentiles are one speed.

## 3. Runs

| run | parts | what it shows |
|---|---|---|
| `writer_persist` | coordinator (3 tool calls, 1 persist with a retry callback, burst 2, 1 retry); schema (3 relation rows or notes, 2 old rows, 2 starts, 1 error, 1 served write); generations (2, with 2 specifications, 2 sources, 3 switches) | `CustodyKept`, `ReportedIffCommitted`, `BackgroundNotStarved`, `FactsKept`, `LifecycleAllOrNothing`, `GenerationsSound`; no deadlock of the writer |
| `writer_checkpoint` | coordinator with 1 tool call, persist and callback, 1 maintenance job, under fairness | `WriterAnswers` (every job settles, the writer stops) and the refinement `ImplementsSerialWriter` |
| `sessions_reconnect` | sessions (1 adapter with 2 connections, 1 call, 3 timers, 2 processes); handover (3 sessions, 2 budgets); traces (2 hooks, 2 turns, 2 messages, 2 revisions, 2 faults) | `LeasesExact`, `GraceSound`, `RowsTrue`, `RowsDurable`, `HandoverTold`, `TracesTrue` |
| `sessions_liveness` | sessions (1 connection, 1 call that may hang); election (2 processes, 1 adapter, 1 fault); under fairness | `OneOwner`, `SessionsEnd` (an idle daemon stops, a goodbye is answered), `ElectionEnds` (a drain ends, a client stops waiting) |
| `embed_safety` | 1 memory, base job and 2 texts, 2 permits and tasks, 2 attempts, 1 edit, 2 processes, with and without sqlite_vec | `JobsBounded`, `VectorsAgree` |
| `embed_liveness` | embedding (1 permit, 2 attempts); digest (1 prompt hook, 2 session starts, 1 kill, 2 retries); gates (2 turns, 2 prompts, cap at most 2); under fairness | `EveryJobEnds`, `PartsKept`, `MarkersSettle`, `GatesBounded`, `TurnCloses` |
| `core_capacity` | 3 memories, 2 core places, 1 detail, contents at and above the limit, a short note and a long one that grows | `CoresSound`, `OverrunBounded`, `OverdueHolds`, `AdmittedFits` |
| `memories` | graph (5 memory ids, 2 callers, at most 2 new edges, 2 items and 2 calls); tags (1 memory, name tables with aliases and legacy rows) | `LineageSound`, `EdgesFollow`, `PastIsFixed`, `TagsKept` |
| `reading` | search (3 memories, window at most 3, 1 foreign write); context (4 memories, 1 foreign write); communities (3 memories, 2 processes, 2 passes, 1 foreign write) | `ServedRightly`, `PagesComplete`, `ConflictsTold`, `ContextPacked`, `IndexSound` |
| `bakeoff` | ledger (2 orchestrators, experiments and pipelines, 1 kill); fresh development (2 experiments, 1 repetition); judging (2 contenders, 2 documents, 3 judges; in the first phase one step done again or cut short: a cell, a packet, an answer or a merge) | `LedgerSound`, `FreshSound`, `JudgingSound` |
| `sessions_late_hello`, `core_derive` | small instances | the disagreements of section 6 |

**Why the bounds are enough.** A foreground burst of 2 with three tool calls, and of 1 with
one, reaches the state in which a background job has its turn and the one in which
it does not. Two connections of one adapter give every order of
an old handler's end and a new one's hello. Three timers are one current, one
orphaned by the unlocked start and one fired but not yet run; the starting of a
fourth while three are under way is cut off. Two attempts have a retry and a
last attempt; two permits and two tasks allow a second worker on the same job
after its lease was lost while the first still computes. Two core places
and three memories allow a full set with a candidate, and a derived core that
replaces one of two; three cores with
short notes would fit in 100 characters, so that the count binds, and a long
and a short one do not, so that the size does. Memories are not
reused, so three of them bound the number of derived writes.

Two starts with an error or a crash between them let a half-finished migration be met
again. Two daemon processes are one that goes and one that comes; a spawn gap of three
ticks separates a retry that may spawn from one that may not. Two callers and two calls
are one prepared plan and one commit in between; the seeds of the graph (`MC_MemoryGraph`)
start from lineages and edges that shorter call sequences would have to build. Three
memories and a window of at most three have a page that is short because the window is,
and one that is short because nothing is left; a chain of two successors has a head that
one hop does not reach; the databases hold the chains, cycles and one fork of three
memories. Two levels below the first (`LevelCap`) let a group be split, and a part of it
again; two of the three memories match the query equally well, so that ids decide. Two
passes of two processes overlap in every way. Two hooks over one transcript, with calls
executed late, give every order of two messages of two turns. One kill separates every two
steps of a hook or an orchestrator. One judging step done again is a packet remade under
an answer, an answer to a packet that is gone, or a cell run again after its pool was
judged; what is ingested or pooled again is not bounded. Of the nine
opinions on two documents a judge may have six, with which the three agree, differ by one vote,
or all differ, on either document. The blind phase has the same
actions, so work is done again in the first only (`MaxRemakes`). Three judges are the
code's, and the smallest number with a majority; they are interchangeable (symmetry).
`MaxStarts`, `MaxEdits`, `MaxFaults` and the other `Max...` constants that count are
bounds of the exploration; the attempts, the burst, the retries, the caps and the windows
are parameters of the code, set small.

**Deadlock** is checked for the coordinator (after shutdown it may stutter,
`Terminated`). The other models may stop: after the last permitted start, call,
pass or stage nothing has to happen.

**Fairness.** Threads that can run do run (Python's scheduler and the OS).
Coordinator: job functions return, which their callers rely on. Sessions: timers
expire and handlers proceed, but no tool has to return (`Dispatch` is not fair),
and nobody has to connect, leave, signal or crash. Election: time passes, the
recovery ends, the shutdown sequence goes on and a waiting client tries again;
no process has to come up. Embedding: inference returns,
leases run out, and a claim that is tried again and again is not refused by a
locked database every time (strong fairness of `Claim`; the code retries each
claim with a back-off and polls for ever). Digest: hooks proceed, and the user
keeps prompting with the tool to be found now and then (weak fairness of `RetryStep`, which
begins with `Look`, strong fairness of `ResolveCli`); time passes between prompts (strong
fairness of `DigestTick`, which stands still while a hook is between two
immediate steps). Without a prompt no hook runs and a marker stays.
Gates: an agent that goes on wants to stop in the end, the only thing a turn's
end can rest on.

## 4. What is proved

`DbWriteCoordinator_proofs` proves, for any set of jobs, any callbacks, any burst
and any retry limit, from `JobsAssumption` and `BoundsAssumption` alone:

* `TypeCorrect`, `JobCustody`: `Spec => []CustodyKept`, which is `TypeOK`, `NoJobLost`,
  `HeldOnce` and `StoppingEmptiesLanes`. The inductive invariant is `Custody`: these
  four together with `OnlyDrainersCancel` (a thread has a cancel list only
  inside `begin_draining`, which sets `_stopping` first, and the writer drains
  only on its way out). They need each other: a job is not lost because whoever
  removes it from a lane holds it, and it is held once because lanes stay
  empty after the first drain took them.
* `BackgroundServed`: `BackgroundNotStarved`, from `RunCountsOvertakes`
  (the code's counter is at least the number of overtakings and stays within
  the burst while background work waits).
* `HonestReports`: `ReportedIffCommitted`. Inductive invariant `Ledger`, which
  adds `TransactionShape` (what an open transaction holds, and when the writer
  may have one) to `Custody`.
* `CommitsOnly`: the action property `WritesOnlyByCommit`.
* `Implementation`: `Spec => Promise!Spec`, the refinement of `SerialWriter`
  with `Phase`, `Outcome` and `committed`, every action shown to be a step of
  the abstract writer or to change nothing its callers see.

`Digest_proofs` proves the two digests a session is given. Of the core digest
(`CoreGovernance`), for any finite set of memories, any lengths and any limits, from
`CoreAssumption` alone:

* `Governed`: the inductive invariant `Inv`, which is `CountBounded` with
  `RowsInv` (the type of each row; the date goes with the core flag; a row
  that is injected has a reason and an admissible content). The types are
  needed for the lengths that the overdue test compares, the rest for bootstrap.
* `CoresGoverned`: `CoresSound`, that is `TypeOK`, `CountBounded` and
  `CoresWellFormed`. The count needs finite-set arithmetic once, in the lemma on
  a set that loses some members and gains one, which every admitted write cites.
* `OverdueHeld`: `OverdueHolds`, that is the action properties
  `OverdueBlocksNew` and `OverdueFreezes`, one step per action.
* `DigestOverrunBounded`: `Spec => []OverrunBounded`. The excess that it allows is not
  inductive: a retaining review can add microseconds to every core. `SumInv` adds
  `ShortDigest`: counted with a date without microseconds for every core, the digest
  exceeds its limit by at most what one derived write can hide from its admission, since
  the next one is admitted against what is then stored.
* `AdmissionFits`: the action property `AdmittedFits`. Every write but a review and a
  derivation either joins after `Admits` (`Joins`) or enlarges no entry (`Quiet`).

Both rest on lemmas about the sum of the community module: the set of its terms is
unfolded by an element that holds none of the rest of a counterexample (`SmallestSet`,
well-foundedness of the subsets of a finite set), and a sum does not depend on the order of
its terms (`SumTakesOut`).

Of the digest of the sessions (`SessionHandover`), for any sessions, texts, windows, limits and
budgets, from `HandoverAssumption` (the texts and limits are numbers, what is divided by or
counted down to is not zero, and a line of the index is no shorter than its "more" mark):

* `HandoverStaysTold`: `HandoverSpec => []HandoverTold`. The inductive invariant
  `HandoverInv` is the types of the rows with `DigestFits` and `EndedNotForgotten`, which
  hold of the digest from the step that renders it; `WaterLevel` follows from the types
  alone. `EndedNotForgotten`: sessions are in one order (`LaterOrders`), so when an ended
  session is not among the first `MaxCohort` of the cohort's candidates, exactly that many
  are ahead of it (`TopIsFull`). `WaterLevel`: the messages before the first one that is
  longer than its share take no more than theirs and leave at least as much for each of
  the others (`PartFits`), so that share is the largest cap that fits (`WaterFills`).
  `DigestFits`: the shrinking of the cap is a recursive function whose argument goes down;
  that it exists and ends in a text that fits, or in the frame, is shown by its least
  counterexample (`ShrinkingThere`, `ShrinkingEnds`, `FitKeeps`). Either some phase fits
  or every session is a stub (`StubbedToFit`), and an index without a line takes no more
  than its stub (`EmptyIndexFits`), which is why the first pass fits whenever nothing was
  stubbed.

`DaemonLifetime_proofs` proves, for any connections, calls, agents, timers and
restarts, from `SessionsAssumption`: `LeasesStayExact`, `GraceStaysSound`,
`RowsStayTrue` and the action property `RowsStayDurable`. The inductive invariant
`SessionsInv` is the types with three groups of facts. `Counts`: `_inflight` of a
session is the number of calls in dispatch under its lease (`LeasesCounted`, by
finite-set arithmetic, one element in or out per step). `Lifetime`: which of timer,
connection and lease keeps the daemon up, and what is clear before it serves
(`NotYetServing`). `Rows`: a record exists exactly where its handler stands between
the hello and the leave (`RecordsPlaced`), and of two connections of one agent one
is gone (`OneLivePerAgent`), without which the goodbye of the older one could close
the row of the younger.

It also proves, for any number of processes, adapters, ticks and
faults, from `ElectionConstants`: `OwnerStaysOne`. `ElectInv` says which of guard
port, probe port, discovery file and writer a process has at each point of its start
and of its shutdown (`PortsOwned`), and how often a write has run at each point of
its call (`CallsTrue`). Two writers are excluded because a process that may write
holds the guard port; a write runs once because a call that is sent again was never
in the hands of a daemon that still has it.

`EmbedJobs_proofs` proves, for any memories, texts, tasks, retry budget and capacity,
from `EmbedAssumption`: `JobsStayBounded` and `VectorsStayTrue`. `EmbedInv` is
`WorkInv` (rows and leases, and that a busy task holds a snapshot of a real key)
with `DataInv`: the four parts of `VectorsAgree`, `NotStoredIsBlank` (no row and no
vector before the memory) and `BehindScan` (no gap behind a recovery scan that is
under way; `RecoveryLeavesNoGap` speaks only of its end).

`MemoryGraph_proofs` proves, for any drafts, predicates, callers and bounds, from
`GraphConstants`: `LineageStaysSound`, `EdgesStayFollowed` and the action property
`PastStaysFixed`. `GraphInv` states `GraphOK` of the committed database and of the
working copy of each open transaction (edges lie between stored memories, what a
lineage edge points at is archived and has one successor, the lineage is acyclic,
a strong relation has one target), and `JobOK`, what a prepared call still knows
when it commits: inside the daemon all of it, from another process only what the
commit tests again. Acyclicity is stated over sets (each non-empty set of memories
has one without a predecessor in it), so that a new row, which nothing points at
yet, extends it without an induction over paths.

It also proves, for any names, tables of older rows and memories, from `TagAssumption`:
`TagsStayKept`, that is `TagSpec => TagsKept`. The assumption says what sanitizing and
normalizing do (a sanitized name is left as it is, rows older than the rules differ from
their sanitized names in separators and case only) and bounds the names of a call by two.
`TagInv` says of the table that an alias leads to another row and names are unique
(`TagRowsOK`), and of each memory that it has a link into the class of every name it was
given, unless that class is `#core`'s (`AllHeld`). This is claimed of tables without
chains only, and it is inductive nonetheless: an append, a merge or a pass that leaves no
chain found none (`GrowHops`, `MergeKeeps`, `PassKeeps`), since a chain is never resolved,
and puts no class asunder (`Coarser`). Appending a row changes no name's row, because a
row is made only for a name that none of the three rules matches (`AppendGrows`). A chain
of aliases is the least set closed under following them (`ChainIs`): a chain of subsets of
the table that grows with each hop is longer than the table unless it closes
(`ChainCloses`).

`SessionHooks_proofs` proves three theorems over the three hook modules:

* `PartsStayKept`: `DigestSpec => []PartsKept`, for any number of prompt hooks and any
  budgets with `RunningGrace <= ClaimStale` (`DigestConstants`, as in the hooks).
  `DigestInv` follows the parts owed through the marker, the claimed file and the hands of
  each hook, at each of its system calls: `BootKeeps` and `RetryKeeps` say what a hook
  knows of the two files at its step, `Covered` and `AtRest` what the files hold when none
  runs, and only who is in the middle of a write has a file open (`Opened`). A retry that
  is killed inside a write loses nothing, since it drops its claim afterwards; a start has
  no claim, which is why `cut` is needed. No part is lost twice because one kill is all
  `Orderly` allows.
* `GatesStayBounded`: `GateSpec => []GatesBounded` (`GateConstants`). `GateInv` relates
  each state file to the transcript: a second question needs an answer after the
  first (`Unasked`), an episode half asked has one question left to it.
* `TracesStayTrue`: `TraceSpec => TracesTrue`, rows and steps (`TraceConstants`).
  `TraceInv` says of each call in a hook's queue, or given up and still to be executed,
  that it agrees with the transcript, and that the row it writes to exists or is made by a
  call before it in its queue. The calls of a turn are listed by the recursive function
  `CallsUpTo`; the lemma `UpToIs` unfolds it by a least counterexample over the naturals,
  since the induction theorems of the library cannot be instantiated.

`DurableRecords_proofs` proves six theorems over records that outlive the processes
that write them:

* `GenerationsHold`: `GenSpec => []GenerationsSound`, for any generations, sources,
  specifications and number of switches. The inductive invariant `GenInv` is `GenTypes`,
  `LastActive` (the active generation is the one the last recorded switch names, and
  without a switch there is none), `Chained` (each switch names the generation the one
  before it entered), `AllComplete` (what is active is complete: activation tests it, and
  afterwards no vector is recorded in it) and `GuardStands`. That there is one active
  generation at most, and that the predecessor a switch records is the one before it in
  the log, both rest on `LastActive`.
* `LifecycleStaysWhole`: `MigSpec => LifecycleAllOrNothing`, for any numbers of rows,
  starts, crashes and caught errors (`MigrationConstants`). `MigInv` says that until
  version 3 is marked only callers have archived anything, on disk and in the open
  transaction (`Unarchived`), and that the transaction marks version 3 in its last step,
  when no archived memory has a vector left (`MarksLast`).
* `FactsStayKept`: `MigSpec => []FactsKept`, for any memories, rows of old releases, starts,
  crashes, caught errors and served writes (`MigrationConstants`). Beside `MigInv`, `KeptInv`
  says of the committed database and of the open transaction that they are `Kept`: what every
  row ever written says is still said (`Told`), of the open rows between two memories some
  open row says it (`Stands`), the unique index is not broken, and a marked version is whole
  (`Finished`); and that the versions run on a database that has its index. Deduplication,
  each stage of the renaming, and the closing of self relations are rewritings (`Rewrites`)
  that keep this, the first two because of the rows that claim a triple one is the earliest.
  So the renaming never meets the index (`NeverAborts`), which is why startup is refused for
  a shape only. That whoever is archived has an heir (`SafeHaveHeirs`) is a count:
  memories that all follow one another inside their set would be, links and members
  alike, their whole component, and that has one link less than members.
* `LedgerStaysSound`: `LedgerSpec => LedgerSound`, for any orchestrators, experiments,
  pipelines and kills, from `LedgerConstants` (no experiment is the missing spec). `LedgerInv`
  holds of the run directory that the entry at place n is a chain of n steps (`Grown`),
  which is why a checkpoint that verifies fixes the length of history and copies, and of
  the orchestrator in the lock what each of its writes finds (`AtWork`). `TerminalFinal`
  follows: the entry about to be written continues the last one along an allowed edge.
* `JudgingStaysSound`: `JudgingSpec => JudgingSound`, for any contenders and documents,
  every shuffle and answer, and whatever is done again or cut short, from
  `JudgingAssumption` (three judges, a finite corpus). `JudgingInv` is `Bundled` (a
  ranking is of the corpus), `Handed` (what a packet or mapping shows) and `Judged`: a raw
  artifact is its answer read through the order it names, so its grades are the judge's
  own when that is the order answered (`RawOk`), and every grade of a merged artifact
  stands on the raw artifacts it was merged from (`LabelsOk`), which need not be those on
  file. That an evaluation compares the two is what makes a winner's grades those of the
  judges. A packet that repeats nothing shows all of its pool because an injection between
  finite sets of one size is onto; the grade that is not escalated is that of two judges
  because three of which no three differ have two alike.
* `FreshStaysSound`: `FreshSpec => []FreshSound`, for any queries, documents, index
  contents, list lengths, packet sizes, gates and repetitions, from `FreshAssumption` (a
  channel's scores are integers, one per document; the manifest names a query once; the
  protected set is finite). `FreshInv` says that every set of grades, on file, in a run or
  in a decision, is what the panel told (`GradesStand`), and that a decision keeps the
  evidence it was computed from (`ReturnedIsJudged`, `StudyOnFile`), whatever is edited
  around it. That the arms share their pool is the lemma that ordering a list by integer
  scores drops its repeats and nothing else (`ByScoreKeeps`); that a query is in one
  packet is the arithmetic of the cut (`PacketsCover`).

`Reading_proofs` proves five theorems over the three modules of the reading side. They
share lemmas on what the code's lists hold: that a finite set listed by a total order is
listed once (`ByQuery`, `SortByScore`, `RankExpansion`), what a filtered, cut or
deduplicated list keeps (`Only`, `First`, `RemoveRepeats`), and what a recursive function over
0..n computes. These are inductions over data, made by a least counterexample in the
naturals (`StepByStep`), since the induction theorems of the library cannot be instantiated.

* `IndexStaysSound`: `IndexSpec => []IndexSound`, for any memories, similarities, caps, depth
  and processes, from `IndexAssumption`. `IndexInv` says of every set of rows, in the index
  or in the hands of a pass, that it is sound by itself (`SoundRows`: leaves partition what
  was split, an id names its group), and of a question that what it has seeded is fixed by
  the ids alone (`SeedsNamed`). That is why an answer is of one generation although it reads
  the index twice: an id that is gone yields no members, and one that is found yields those
  it was seeded for.
* `ConflictsStayTold`, `ContextStaysPacked`: for any graph, request, caps and writes in
  between, from `CtxAssumption`. `CtxInv` says what has been read was visible when the
  call began (`ReadWasSeen`), that borrowed members are none of the others
  (`OrphansApart`), that the ledger is that of the budget (`BudgetPacked`) and that
  lineage was read in the graph of the answer (`LineageRead`). The search for a settled
  contradiction is a breadth-first search with as many rounds as `LineageDepth`; that it
  spans every family of at most one member more is the lemma that each round before the
  last adds a member.
* `SearchServesRightly`, `SearchCompletesPages`: for any database, query, windows, caps
  and edits in between, from `SearchAssumption`. `SearchInv` is what was read and seen
  (`SearchTyped`, `SearchSeen`), what the gate has let through (`SearchGated`), which
  candidates are in the pool (`SearchOrdered`), and, while nobody writes, that the call
  has read what one pass reads (`SearchPassed`) and why widening has stopped
  (`SearchPaged`). The last is what `PagesComplete` needs: where it stopped because no
  channel filled its window, every wider window reads the same.

What is only model-checked, and why:

* `DeriveFits` and `GoodbyeIsFinal` do not hold (section 6).
* All properties under fairness (`WriterAnswers`, `SessionsEnd`, `ElectionEnds`,
  `EveryJobEnds`, `MarkersSettle`, `TurnCloses`), which the prover does not treat.

## 5. Not modelled

* Events and telemetry: rows that are appended and pruned, which no other part
  reads to decide anything.
* Tool dispatch, guard and the MCP surface beyond the retry of a lost call:
  argument checks and forwarding without state that outlives a call.
* Viewer, command line, configuration: rendering, argument parsing, constants.
* Floating point: similarity and reranker scores are orders; cohesion measures,
  bootstrap intervals and latency percentiles are not computed.
* Text: formatting, redaction patterns, sanitising of names (given as tables),
  FTS syntax.
* The offline evaluators `evaluate_development_fusion.py`,
  `retrieval_text_generation.py` and their like: single passes over files.
* The resuming of an interrupted index build (`retrieval_index_runner.py`): a cell builds and
  searches in one call, and nothing reads an index that is not finished.
* The stall monitor of inference, Windows job objects, the installation of the
  systemd unit, the hooks that only print a reminder.

Next in the plan: `MemoryGraph` composed with `EmbedJobs`, where a
replacement cancels and queues jobs in its transaction; a larger graph instance,
with three callers.

## 6. Findings

Two disagreements between code and its documentation are runs of their own:

* **A late hello reopens a closed session** (`sessions_late_hello`). The client
  gives up on a hello and repeats it on a new connection; the first is recorded
  after the adapter's goodbye and sets `ended_at` back to NULL
  (`db/agent_sessions.py:37`), although goodbye is called definitive
  (`db/agent_sessions.py:55`, `daemon/server.py:137`). The row stays open until
  the next start marks it orphaned.
* **A derived core is admitted with other fields than it is stored with**
  (`core_derive`). `lifecycle.py:822` and `relation_service.py:1929` count the
  declaration as given. A date left out counts 4 characters and is rendered
  with 32, so an accepted write can exceed the limit, after which bootstrap
  fails closed. `OverrunBounded` shows that the excess does not accumulate
  over any sequence of such writes, since the next admission counts the rows as stored.
  A retaining review (`core_governance_service.py:1426`) writes a date without
  an admission test too, at most 7 characters longer; `AdmittedFits` shows that
  these two are the only paths on which the digest can outgrow its limit.

Observed while modelling, not kept as runs; the models behave like the code here:

* A session start killed while it writes its marker loses the digest.
  `write_digest_pending` (`hooks/_saltmdb_hook_common.py:341`) opens the marker for
  writing, which empties it, and then writes. A hook killed in between leaves an empty
  file, which is ignored, and what the marker held before is gone as well.
  `src/docs/specs/SPEC-BOOTSTRAP-DELIVERY-GUARANTEE.md:97-99` says that a hook killed
  anywhere leaves the marker and can never lose a digest. `NoPartForgotten` shows that
  this moment (`cut`) is the only one.
* A replacement does not list the edge it leaves to its own predecessor. A core that
  replaces a memory may declare it as a detail (`services/core_governance_service.py:277`
  does not compare them). The edge is stored on the predecessor, stays active there, and
  is not among the reported ones (`lifecycle.py:872`), although repointing "reports any
  edge that cannot be carried forward" (`lifecycle.py:937`). `OrphansReported` shows that
  it is the only such edge (`OwnDetail`).
* Grades can land on other documents than the judge graded. `write_packets`
  (`benchmarking/judge_pool.py:524`) overwrites a packet that calls itself immutable
  (`:333`), and `validate_labels` (`:383`) takes an answer by its positions without asking
  which packet it answers. `LabelsLandWhereGiven` shows that grades are right wherever the
  mapping is that of the packet answered (`InStep`).
* A grace timer that fired before a session arrived, and got the lock only after
  it left, drains the daemon at once (`daemon/server.py:229`), where
  `src/docs/architecture.md:34` promises 30 s after the last session.
* A declared detail can be promoted to core later
  (`core_governance_service.py:1269`), although a core "cannot declare another
  core" (`:287`).
* The respawn attempts inside one wait all fall within the spawn gap
  (`config.py:713`, `daemon/client.py:556`), so they start nothing.
* A strict search stops widening its window when every channel returned fewer rows than
  it asked for, since then "growing candidate_window further cannot reveal more
  candidates" (`exhausted_`, `memory_service/orchestrator.py:790-793`). It can, where the
  caller's filters thin out the nearest vectors, or where a memory has no vector yet:
  `ShortPageIsAll` is then false, and `PagesComplete` states it for a caller without filters
  and a store in which every live memory has its vector.
* A digest part can be printed twice when a claim goes stale under a hook that is
  still alive, or lost when a second hook is killed as well
  (`hooks/saltmdb-prompt-submit-digest-retry.py:6-7`, `:48`).
* Sending a transcript again also links memories that were revised since
  (`hooks/saltmdb-stop-trace-capture.py:9`), so links grow.
* A data sweep of the schema that raised is not tried again once the version is
  marked (`db/schema.py:536`).
* An orchestrator killed between the history copy and the checkpoint leaves a
  ledger that no later command accepts (`benchmarking/bakeoff_state.py:936-942`,
  called "resumable" at `:916`); one killed before its receipt leaves the
  receipts one behind. The transition does not compare the winner in an
  unlock or a verdict with the one that was signed at `DEV_WINNER_SIGNED`.
* Nothing authenticates a signature of the benchmark files: raw labels that are
  edited and followed by a new signature of everything after them are accepted.
* A marker write that fails (`hooks/_saltmdb_hook_common.py:342` swallows the error) leaves the
  old marker or an empty one, and no hook notices.
* Aliases can form chains (`tags.py:170` promises the canonical row,
  `librarian_service.py:252` merges into a row that may be an alias); `NoTagLost`
  is stated for tables without them. Merging `#core` into a user tag makes every
  later write of a memory that is not core remove that tag (`write.py:654-665`).
* A page of a search whose window grew meanwhile need not continue the page
  before it where the ranking changed; `PagesDisjoint` says what does hold.
* A community pass stalled for longer than the cooldown can replace a newer
  index; the best member of a community that the caps cut is not in the pool.
* Below its floor (the frame and the stubs) a session digest exceeds the budget,
  and a session that ended last can be pushed out by `MaxCohort` running ones.
