# Verification of LangBot in TLA+

LangBot is an asyncio program that connects instant messaging platforms to
models, agents and tools. This directory holds TLA+ models of its concurrent
core, TLC configurations that check them on small instances, and TLAPS proofs
for every value of the parameters. Paths below are relative to
`src/src/langbot/pkg/` unless they start with `src/`. `PROJECT.json` maps each
definition to the lines it models and lists the runs, the mutations that show
each property can fail, the hazards and the theorems.

Contents: [inventory](#inventory), [modules](#modules-and-how-they-read-the-code),
[runs](#runs), [fairness](#fairness), [proofs](#proofs),
[disagreements](#where-the-code-and-its-documents-disagree),
[observations](#observations), [limits](#what-is-not-modelled).

## Inventory

The path of a message: an adapter hands an event to a `RuntimeBot`
(`platform/botmgr.py`), which calls `MessageAggregator.add_message`; merged
messages become a query in the `QueryPool`; the `Controller` selects queries
whose session has a slot and runs each in a task; the pipeline's stages call a
runner, in the plugin runtime or in the host; an agent runner reports to the
run ledger and may be steered by later queries or ask its user a question. In
Cloud mode the workspaces themselves come from a directory that every replica of
the host projects into the shared database.

| Component | State | Operations | Interacts with | What makes it correct |
|---|---|---|---|---|
| query pool (`pipeline/pool.py`) | queue, cache, legacy index, active count per workspace, lifetime counters per scope, completed set | `add_query`, `remove_query`, mark running, discard under overload | producers, controller, tasks; one condition | the indexes agree, limits hold, no refusal after queuing |
| pipeline scheduler (`pipeline/controller.py`) | global semaphore, the selection in hand | scan, steering offer, select, spawn, undo, finish | pool, session cache, orchestrator, task manager | slots conserved, order per session, no lost wake-up, every query completes |
| session cache (`provider/session/sessionmgr.py`) | sessions by key, their semaphores, an access heap | get or create, evict, clean up, reset by adapters | controller, stages, adapters | a session in use is not replaced; capacity per workspace and in all |
| message aggregation (`pipeline/aggregator.py`) | a buffer and timer per conversation, buffer counts per scope | `add_message`, delayed flush, forced flush | bots, pool, workspace bindings | each message once, conversations apart, no buffer without a timer |
| agent run ledger (`agent/runner/run_ledger_store.py`) | rows of runs, events and runtimes | create, claim, renew, release, expire, finalize, append, cancel | orchestrator, runtimes through `plugin/runner_actions.py` | one holder at a time unless a run is queued again under its lease, ends are final, attempts counted |
| agent run orchestration (`agent/runner/orchestrator.py`, `session_registry.py`, `run_journal.py`, `reply_stream.py`) | active runs, steering queues, the stream of results | run loop with deadline, steering claim and pull, journal | ledger, controller, plugin runtime | results numbered apart and journalled, a claimed query has one fate, a run ends and its row says how, unless the ledger failed |
| agent interactions (`agent/runner/interaction_store.py`, `interaction_manager.py`) | rows of questions with status and expiry | create, deliver, submit, consume, expire | bots, orchestrator | one answer is accepted, the processor is resumed once at most, a request that waits keeps its controls |
| agent history and state (`event_log_store.py`, `transcript_store.py`, `persistent_state_store.py`) | rows | append, read-modify-write | orchestrator, plugins | no update lost, cursors monotone |
| agent run preparation (rest of `agent/runner`) | registry cache | resolve, build, validate | orchestrator | sequential |
| pipeline runtime and stages (`pipeline/pipelinemgr.py`, the rest of `pipeline`) | pipelines by uuid and generation | load, remove, run stages | controller, stores | a run never uses a pipeline of another generation |
| rate limiting (`pipeline/ratelimit`) | window counts and waiters per session | `require_access` | stages | at most `limitation` per window, waiters not evicted |
| platform bots, adapters and the conversation resets of two of them (`platform`) | running bots, adapters, connections | load, reload, remove, dispatch | aggregation, API | one runtime per bot and generation |
| plugin runner actions and runtime connection (`plugin`) | connection, pending calls, installs | connect, call, reconnect | runners, API | no answer to the wrong call, no orphan run |
| models and tools (`provider`) | MCP sessions and registries | connect, retry, shut down, call | stages, orchestrator | a session outlives no generation |
| workspaces and members (`workspace`) | invitations, memberships, bindings | invite, accept, revoke, expire, change role, remove | API, directory | an invitation is used once, there is an owner |
| cloud directory and entitlements (`cloud`) | projection rows, a cursor per replica, snapshots | apply snapshot, delta and events; resolve entitlements | box, MCP, workspaces | revisions only grow, the shared cursor passes nothing the rows do not show |
| sandbox (`box`) | grants, highest revisions, sandboxes | require, revoke, execute | entitlements | no grant survives its revocation |
| persistence (`persistence`) | engine, units of work | open, commit, roll back, after-commit gates | every store | scopes do not cross, gates open after commit only |
| task manager, executors (`core`, `utils`) | tasks, slots, queues | admit, cancel, prune | everything | limits hold, tasks end |
| telemetry, traces, survey | buffers | record, flush | everything | bounded |
| knowledge and storage (`rag`, `vector`, `storage`, `skill`) | files, collections | CRUD | stages | I/O |
| web API (`api`, `command`, `config`, `discover`, `entity`) | none of its own | handlers | services | request by request |
| vendored clients (`src/src/langbot/libs`), feishu plugins (`src/plugins`), web console (`src/web`), tooling | | | | outside the core |

The hard behaviours, with their lines, are the hazards of `PROJECT.json`. They
are of four kinds:

- *tasks that interleave at awaits*: resets and evictions around a scan, timers
  around flushes, the end of a run around a steering offer, audit events between
  two results of a run;
- *rows read in one statement and written in another*: the ledger, interactions
  and the directory, where only row locks or a guarded `UPDATE` decide;
- *limits with several counters*: admission, slots, buffers, sessions, scope
  counters;
- *partial failures*: a spawn that raises, a pool that is full after a buffer was
  taken out, a unit of work that cannot be opened, a platform call that raises
  after it had its effect, a stop between a commit and what follows it.

## Modules and how they read the code

| Module | Models | Extends |
|---|---|---|
| `QueryPool` | the pool as a value and its methods as operators on it | community modules |
| `QueryScheduler` | pool, controller, session semaphores, tasks | `QueryPool`, `ConversationQueues` (instance) |
| `ConversationQueues` | what is promised of a conversation | standard modules |
| `MessageAggregator` | buffers, timers and flushes | community modules |
| `RunLedger` | rows of runs and overlapping calls | `RunLeases` (instance) |
| `RunLeases` | what is promised to the runtimes | standard modules |
| `AgentRun` | one run: its loop, its events, the calls of plugins on it | standard modules |
| `Steering` | the messages of a conversation, offered to its runs | standard modules |
| `Interactions` | questions, their delivery and their callbacks | `InteractionContract` (instance) |
| `InteractionContract` | what is promised of a question | standard modules |
| `Directory` | replicas that project the Cloud directory | standard modules |
| `MC...` | the constants of the runs | the above |
| `...Proofs` | theorems | the above, TLAPS |

`QueryScheduler` composes pool, controller and session cache. `Steering` looks at
the same scan from the side of one conversation: what is a nondeterministic step
there (`ClaimAsSteering`) is spelled out here with the registry of runs, and the
sessions and limits of the scheduler are left to the other module. `RunLedger`
has claims and leases without events, `AgentRun` one run with its events and
without leases. A definition whose comment says "Mutant" is a mutated form of the
one below it and is used by no specification.

### QueryPool and QueryScheduler

`QueryPool` is a record with the fields of the class that matter: `queries` (the
list), `cached`, `legacy`, `active`, `scopes` (the keys of
`query_count_by_scope`), `dropped` and `completed`. Each method is an operator
from pool to pool, in the order of the code's assignments: `Admit` discards the
oldest queued query of a full workspace and then of a full pool, `Insert` queues,
`Supersede` purges counters of older generations, `Forget` evicts counters of
idle workspaces, `Count` adds the counter of the query. Numbers inside the
lifetime counters are dropped; nothing reads them but statistics.

`QueryScheduler` adds the rest as variables:

| Variable | Code |
|---|---|
| `pool` | `QueryPool` |
| `index`, `value` | `SessionManager._session_index`, the `_semaphore` of each session object |
| `sess`, `stage` | `selected_session` and the place in `_process_query` of each query |
| `slots` | `Controller.semaphore` |
| `consumer` | where `Controller.consumer` is: scanning (which holds the pool's lock across the steering offer), waiting on the condition, waiting for a global slot, undoing a failed spawn, or in its one second retry |
| `refused` | the queries whose `add_query` raised after it had queued them |

One action is one section between two awaits. `AddQuery` is the whole critical
section of `add_query`, with both outcomes of making counter room. `BeginScan`,
`SkipQuery`, `ClaimAsSteering`, `SelectQuery`, `SelectInNewSession`,
`SessionCacheFull` and `EndScan` are the scan; `SpawnTask`, `SpawnFails`,
`UndoRemove`, `UndoRelease` the rest of the loop; `PipelineEnds`, `TaskAborts`,
`RemoveEnded`, `ReleaseSlots` the task; `DropIdleSession` and `ResetSession` the
session cache. Only the scanning consumer awaits while it holds the lock, so the
other sections need no lock variable: they are enabled while no scan is on.

Abstractions: eviction picks idle sessions in any order (the code uses a heap of
last accesses and an expiry time; every choice it can make is one of the
model's); session objects are identities drawn from `SessionObjs` and reused
once nothing refers to them; the content of queries is nothing but their key
(`KeyOf`) and generation.

`ConversationQueues` is the abstract specification, without pool, cache, lock or
consumer: requests that wait, the pairs of them that are of one conversation in
their order, and requests that are served. The mapping takes the queue for the
first, the order of the queue for the second (`Before`) and the queries with a
stage for the third. `AddQuery` is `Arrive`, which displaces what the overload
policy discards; `SelectQuery` and `SelectInNewSession` are `Start`,
`ClaimAsSteering` is `TakeOver`, `ReleaseSlots` and `UndoRelease` are `Finish`,
and every other step leaves the conversations alone. The runs offer a query to a
busy run before they look at the next one, so a query that is taken over may have
others of its conversation before it; one that starts or is displaced may not.
The contract holds where conversations are not reset.

### MessageAggregator

`buffers`, `counts` and `timer` are `buffers`, `_buffer_counts_by_scope` and the
timer tasks, each named by the message that started it. No critical section of
the aggregator awaits, so each is one step, and a forced flush is one step with
the message that fills the buffer. Whatever leaves the aggregator sits in `calls`
while it awaits the workspace binding and the pool, and becomes a query
(`Enqueue`) or an error (`Fail`: the binding is stale, the pool is full). The key
of a buffer does not contain all of the `ExecutionContext`: the principal and the
entitlement revision change when a bot is loaded again, so each message has a
context besides its key, and one that differs from the buffer's is refused as the
code refuses it. `TimerFails` is cloud mode, where a delayed flush opens a unit
of work before it touches the buffer, and the timer task ends when it cannot;
elsewhere it does not occur, and what holds with it holds without it.

### RunLedger

A row has the six columns the claim protocol uses. A call of the store first
takes the time, then selects its rows, then commits what it decided from them:
`Ask...`, `Read...` and `Commit...` are the three steps, and calls of several
tasks overlap between them. A commit writes the columns the call has changed and
no others, by primary key, as SQLAlchemy's flush does, over whatever the row has
become. `RowLocks` says whether the database honours `FOR UPDATE` (PostgreSQL) or
not (SQLite, where the clause is not emitted). A token is the number of its
grant. `grants` is the history of what runtimes were told: it is what
exclusiveness is about and is not a column. "running" stands for `created` too,
and "failed" for `cancelled` and `timeout`: the code treats them alike.

`finalize_run` accepts any status. One that is no end leaves token, owner and
lease in the row and nobody is told, so a finalization with 'queued' offers the
run to a second runtime while the first still takes it for its own. The model has
this: the time of such a grant stays in `grants`, and `requeued` marks it.
`LeaseExclusive` says that this is the only way in which two runtimes come to
hold one run.

`RunLeases` is the abstract specification, without columns, clock or calls: a run
is open or has ended, goes by a token or by none, and has holders that take it for
theirs. The mapping reads the fate off the status, the token off its column, the
holders off the answers whose time has not passed and the recalled tokens off
`requeued`. `Tick` is `Lapse`; a commit of a claim is `Grant`, of a renewal
`Renew`, of the host's cleanup `Reclaim`, of a finalization `End`, `Recall` (when
it writes 'queued') or a step that changes nothing, and of a release `GiveBack` or
`End`. The contract holds for calls that do not overlap.

### AgentRun

`pc` is the place of `AgentRunOrchestrator.run` between two awaits; `row` and
`events` are the ledger's `AgentRun` and `AgentRunEvent` of this run, `seen`,
`last` and `terminal` are `seen_sequences`, `last_sequence` and
`terminal_status`, `kept` and `late` are history. A result is known by its
position in the stream (`given`). `Numbered`, `Unnumbered` and `Garbled` are what
the loop makes of a number that is an integer, missing, or neither; a kind of
result decides what `Handle` does and whether the loop looks for a cancellation
afterwards. `AppendSelect` and `AppendInsert` are the two statements of
`append_event`, `Finalize`, `FinalizeFailed` and `CommitEnd` the read and the
write of `finalize_run` on both ways out of the loop, `Abandon` the cancellation
of the task or a consumer that stops iterating. `RunCancel`, `RunAppendResult`
and `RunFinalize` are the calls of `plugin/runner_actions.py`, one at a time, each
followed by its audit event (`AuditSelect`, `AuditInsert`) when an administrator
makes it.

Every statement of the ledger may fail, and the commit of one that fails may have
been made: `CreateRun` and `AppendInsert` have such outcomes, `LedgerFails` is a
failure before anything was written, `FinalizeFailed` and `CommitEndFails` are those
of `finalize_run` on both ways out, and `CallFails` those of a plugin's call. The
yield, the effects of a result and the runner may raise too. `left` says how the run
was left: returned, raised, abandoned, or "unrecorded" when `finalize_run` itself
raised. A plugin finalizes with any status of a run (`PluginEnds`), ends or not, and
`foreign` remembers whether one has, and whether it wrote over a status that it had
not read ("stale").

### Steering

One conversation. Messages are numbered in the order of arrival, and a run has the
number of the message that started it. `stage` says where a message is, `scan` where
the controller is, which holds the pool's lock from the first message to the last,
`target` to which run a message is being offered. `Steers` are the pairs of a
message and a run such that the one may be claimed by the other: the message is a
received message and not the answer to an interaction, its runner takes steering,
and the run is of the same runner, bot, workspace and thread and may pull. Any other
message starts a run of its own without a look at the registry. An offer is two
steps, `find_steering_target` and, after the resources were awaited,
`enqueue_steering`; the controller's scan makes offers and so does the message's own
handler. `claims`, `pulled`, `dropped` and `lost` are what each run claimed and what
became of it, `queue` and `pending` what is on its way there. `Finish` takes a run
out of the registry with its queue, after which its messages are audited one by one
until an audit fails.

### Interactions and InteractionContract

A row of `InteractionStore` is its `status` and whether its time has passed
(`due`). `delivery` is the place of `handle_result`: `Prepare` looks for the
presentation to take over, `Create` inserts the row, `Present`, `PresentText` and
`PresentFails` are the platform's call, `Record` and `MarkFailed` its outcome. An
update that fails is sent again as a new presentation. A callback (`call`) takes the
time, selects the row, writes, acknowledges and resumes: `Receive`, `Select`,
`Submit` or `WriteExpired`, `Acknowledge`, `Resume`. `Submit` is an `UPDATE` on the
pending status and may find the row taken; `WriteExpired` writes by primary key.
`Crash` ends deliveries and callbacks and keeps the rows.

What the platform shows is modelled too. A presentation is a message with controls
and goes by the interaction it was first sent for; `shows` is the interaction whose
controls it has, `place` the presentation that a delivery returned, `visible` that
the user can answer. Three steps write into a presentation: a delivery of its own, an
update that takes it over, and the acknowledgement of an answer. `find_update_target`
takes the interaction to replace from the event that the run was resumed with, so a
request may replace (`Replaceable`) only an answered interaction whose answer resumed
a run; and nothing keeps a second request of the same run from finding the same one.
`ControlsKept` says that a request that waits keeps its controls but for that
(`Forked`). An interaction id is taken to be used once in a conversation.

`InteractionContract` is the abstract specification: unasked, open, then answered
by one submission or closed. The mapping (`StateOf`) reads the state off status
and accepted answers; `Create` opens, `Submit` answers, `MarkFailed` and
`WriteExpired` close when the row was pending, and every other step leaves the
contract alone. A row that is answered and then written over with 'expired'
stays answered in the contract, which is what the guarded `UPDATE` guarantees.

### Directory

`dir` is the directory at every cursor and `now` the last one: the control plane
is outside the repository, and the model has of it what
`cloud/directory_projection.py` relies on. It publishes an event for each change,
the position of an event stands for the revision it gives to its workspace, a
snapshot lists active workspaces only, and a page names workspaces whose present
contents are fetched by a second call, which returns archived ones and omits those
that are gone. `shared`, `row` and `inbox` are the rows of the database; `op`,
`consumer` and `active` are what each replica does under its lock, its
`_consumer_cursor`, and the set of active workspaces of its entitlement resolver.

Each transaction is one step, since it holds the row of the shared cursor, and so
is each fetch. `FetchSnapshot` and `FetchAgain` are the loop of
`_refresh_snapshot`; `FetchEvents`, `FetchWorkspaces` and `ApplyDelta`,
`ApplyEvents` or `Touch` are `_sync_once` for pages with workspaces, with
entitlements only, and without events; `FetchTargeted` and `ApplyTargeted` are
`reconcile_workspaces` for a launch. `Publish` is what follows a commit: the
resolver is told, readiness is renewed (`vouch` is what it vouches for), the
cursor moves. `Fails` and `Crash` may come at any point. Left out are accounts
and memberships, execution generations, capacity limits, and the fingerprint of a
snapshot, which cannot differ at one cursor when snapshots are consistent.

## Runs

The scheduler's runs check for deadlock. The others may stop (every message has
left, a bound is reached), and there the liveness property says what has to
happen.

| Run | Instance | States | Shows |
|---|---|---|---|
| `scheduler_core` | 4 queries, 3 sessions, 2 workspaces, one of which changes its generation; pool 3, 2 per workspace, 1 slot per session, 2 in all; 2 cached sessions, 1 per workspace | 43 thousand | indexes, admission, session concurrency, wake-ups, order, the contract of conversations |
| `scheduler_reset` | 4 queries in 3 conversations that are reset at any time, 3 workspaces in a pool of 2; 1 slot in all, 1 cached session | 100 thousand | slots return to where they came from, a sleeping consumer has a waker, counters are evicted in time, every accepted query completes |
| `aggregator` | 7 messages, one of them plain, 3 conversations, 2 scopes, 2 contexts; 3 messages fill a buffer, 2 buffers, 1 per scope | 469 thousand | once, apart, counted, with a timer, and gone in the end |
| `ledger_serial` | 2 runs, 2 runtimes, 1 call, lease 2, time to 3, 2 claims, any status | 3.0 million | the claim protocol with calls that do not overlap, the contract of leases |
| `agent_run` | 3 results, numbers 0, 1, 2 or none or no integer, 1 call of a plugin that may finalize with an end or with 'queued' | 2.3 million | numbers, the ledger's gaps, the recorded end, cancellation, the deadline |
| `steering` | 4 messages, 2 slots, a queue of 2, one message that is not offered | 62 thousand | one fate, live queues, order, bound, settled in the end |
| `interactions` | 3 requests, 2 callbacks, one deadline that passes | 1.0 million | the contract, one resumption, what may be written over, whose controls stay |
| `directory` | 2 replicas, 2 workspaces, 3 events, pages of 2, 2 attempts | 1.9 million | covered rows, revisions, own views, lagging replicas, readiness |
| `scheduler_reset_overlap`, `ledger_terminal`, `agent_run_replay`, `directory_older_snapshot` | small | | disagreements, below |

Why the bounds are enough.

- *Scheduler.* Every limit is reached by one of the two instances: in
  `scheduler_core` the limit of a workspace (in the pool and in the session
  cache) binds before that of the whole, and two queries run at once; in
  `scheduler_reset` the pool, the global slot and the session cache are full while
  no workspace is, and counters have to be evicted. A session has two queries,
  enough for overlap and overtaking. Queries come back after they end, so the runs
  are not bounded in length.
- *Aggregator.* A buffer has a first, a middle and a filling message, and the
  other conversations reach both limits on buffers. A message that has left cannot
  come back, which bounds the run and nothing else. Three messages that differ in
  nothing arrive in a fixed order (`InOrder`): symmetry by hand, because the run
  has a liveness property.
- *Ledger.* Two claims suffice for a claim, its loss and its successor, and the
  clock goes past the end of a lease.
- *AgentRun.* Three results give a number, its repetition and a number out of
  order; one call of a plugin with its audit is enough to take a number, to finalize
  under the loop and to cancel.
- *Steering.* Two slots let two runs live at once, so that the oldest may end and
  the other be found; the second to fourth message fill the queue and overtake or
  wait. The first is never offered and starts its run although another may be there.
- *Interactions.* Two callbacks race for one answer, also when one of them is late.
  Three requests are one that is answered and two of the run it resumes, which is
  where a presentation is handed down twice, or a chain of two updates.
- *Directory.* Three events make a page of two and a rest, an archive that
  follows a creation, and a change between the fetch of a page and that of its
  contents; a replica restarts any number of times.

`MaxTime`, `MaxClaims`, `MaxResults`, `MaxCalls`, `MaxMessages` of `Steering`,
`MaxDue` and `MaxEvents` are bounds of the model; all other constants are parameters
of the program. Callbacks, requests, replicas and workspaces are symmetric where a
run says so, and those runs check no liveness.

Every property of a passing run has a mutation of a mapped definition that breaks
it: a slot that is not returned, an eviction without the idle check, a lease that
expires early, a page that is applied again.

## Fairness

Asyncio runs every task that can run, and `asyncio.Lock` serves its waiters in
the order they came.

- *Scheduler*: weak fairness for the consumer as a whole (one task); strong
  fairness for each task of a query (`Progress`: its pipeline ends, and then its
  two critical sections), because their guard, that the lock is free, goes on and
  off while the consumer scans. The consumer's retry after a second and the end of
  a run are steps that eventually happen, without a time.
- *Aggregator*: weak fairness for timers and calls. A timer either fires or
  fails: weak fairness of `TimerFires` is not violated by a timer that fails first.
- *AgentRun*: weak fairness for the steps the event loop goes on with (`Host`),
  for the passing of time (`Expire`) and for the consumer of the results
  (`Resume`). Nothing is assumed of the runner: only the deadline ends it. A
  binding has one by default; when its timeout is null or not positive there is
  none, and `RunEnds` is then up to the runner.
- *Steering*: weak fairness for the consumer, for the handlers of messages and
  for the end of runs (which `RunEnds` justifies), strong fairness for giving back
  a slot, which needs the pool's lock.

Nothing is assumed of arrivals, resets, evictions, callbacks and plugins.
`Interactions` and `Directory` have no liveness: a question may stay unanswered,
a stop may lose a resumption, and a replica may be refused until the directory
changes again (see the observations).

## Proofs

`tlapm` checks all proofs. They hold for any number of queries, sessions,
workspaces, messages, runs, runtimes, calls, callbacks and replicas and for any
value of the limits, from the assumptions named `...Assumption` in the modules,
which only give the constants their types and exclude zero limits where the code
does (`max(..., 1)` and the like).

**Scheduler.** `PoolIndexesAgree` and `AdmissionCaps` are not inductive: that a
discard leaves the count of its workspace right depends on the queue holding each
query once, and that counters can be evicted depends on every counted scope having
been active. `WellFormed` (`QueryPool`) collects what the pool needs, and
`QueryPoolProofs` shows that each operation keeps it. `CounterRoom` is the argument
behind `NeverPhantom`: scopes of workspaces with an active query are at most
`MaxQueries - 1` when another query arrives, since each active workspace has a query
of its own in the pool, so enough of the rest can be evicted. The invariant `IInv`
adds `HandsInv` (a query out of the queue is in the hands of exactly the consumer or
one task, and has a session) and `SlotsConserved`, whose step lemmas `TakeSlot` and
`ReturnSlot` are about cardinalities of the sets of holders. `CacheInv` (no two keys
share a session, a held session knows its key) and `WakerInv` give
`WakerAlwaysExists`, with resets allowed. Without resets (`~AllowReset`) `KeptInv`
says that a held session stays in the cache, since a session that is held is not
idle, and `LockedInv` that whatever the scan has passed stays locked until somebody
notifies; from these follow `SessionsBounded`, `WakeUpsKept` and `OrderKept`. With
resets the first of the three is false; see below. `ConversationsImplemented` is the
refinement, under the same condition. The steps that start a query need
`NobodySelectedBefore`, the lemma behind `OrderKept`, and `SessionsBounded`; one
that is taken over, that a session without a free slot serves as many queries as it
has slots (`FullSession`, from `SlotsConserved`). Those that take queries out of the
queue need that the pairs of the rest stay (`BeforeStays`, from `Ordered` and the
queue holding each query once), and an arrival that its discards come from the front
of the queue or of a workspace's part of it (`ArriveStep`).

**Aggregator.** `CountInv` adds the finiteness of the set of buffers to
`CountsAgree`. `ScopeInv` says that whatever is buffered under a key has that key
and the context of its first message; it makes the buffers disjoint, which
`OnceInv` (`MessagesKeptOnce`) and `TimerInv` (`EveryBufferHasItsTimer`) need: a
timer of another key cannot belong to this buffer.

**Ledger.** `ClaimsAreCounted` holds with row locks or with calls that do not
overlap; its invariant says that a claim in progress has read the number of attempts
the row still has. The run checks that property with one call; with overlapping
calls it is the theorem that establishes it. The others assume that calls do not
overlap (`OneCall`): `SerialInv` says that what a call has read is still so, that a
live grant is the one its row names with the same expiry unless the run was put back
in the queue under it, that a run goes by the token of its latest grant, and that a
row has its end stamped exactly when it has ended. Without the assumption they are
false; see below. `LedgerLeasesRuns` is the refinement of `RunLeases` under the same
assumption: what a commit decides from is what is there (`SerialInv`), so a claim
finds nobody holding the run who was not recalled, and each kind of commit is the
step of the contract named above (`ClaimStep` to `FinalizeStep`).
`LedgerTypeCorrect` has no such assumption. `LockedClaimsAreFree` needs less than
`OneCall`: with row locks and calls that overlap in any way, every claim takes a run
that is free when it is granted. Its invariant, `LockInv`, says that the row a claim
has locked is still as it was read; it fails without row locks, as on SQLite. The
theorem is stated in `RunLedgerProofs` and belongs to no run: the instance with two
calls and row locks has more than seven million states.

**Agent run.** `Numbering` says that `last_sequence` bounds every number seen, so
that a number the host gives is new; `Recorded` that an event in the way of a
result tells whose it is, unless the append of that one has failed and with it the
run; `Ending` that what a finalization has read may be stale when it writes, but an
end that was read is still an end as long as nobody writes over what he has not
read. `EndsAreRecorded` holds for any statuses that plugins name and for failures of
every statement, and says what the row may then be. `Cancelling` that after
a late message the loop is not entered again.

**Steering.** `Placed` says where messages are: what the scan is at still waits,
the runs in the registry are the active ones, and what a run has claimed starts
none of its own. `Emptied` says which parts of a run's claims can be there at each
stage of the run. With them `ClaimsInOrder` is a matter of moving a message from
the head of one sequence to the end of the one before, which the lemmas about
`Whole` do (`EnqueueOrder`, `PullOrder`, `UnregisterOrder`, `AuditOrder`).

**Interactions.** `Rows` says what a status says of the past (a row that is pending
has had no answer), `Selected` what a callback knew when it selected the row,
`Resuming` that one callback at most may still resume the processor. `Replaced` says
that a presentation goes by its first interaction and is handed down only by
interactions that have resumed their run, `Shown` that one that is not forked shows
the last interaction it was handed to; an acknowledgement cannot hit another's
controls because it comes before the resumption that lets anybody take the
presentation over (`AcknowledgeKeeps`). From the invariant follow `ResumesOnce`,
`LatenessTakesBack`, `ControlsStay` and the refinement `Implements`: the initial
states map to initial states (`ContractInit`), and every step to a step of the
contract or a stutter (`ContractStep`).

**Directory.** `DirOK` says that a workspace that did not change after a cursor is
at every later one as it was then. `OpOK` is what a fetch knows: the workspaces it
asks for are as new as the cursor it moves to, and the others did not change since
the replica's cursor. `ViewsAreOwn` and `RowsStayCovered` are both arguments from
these two: whoever moves a cursor over a workspace it did not fetch moves it over a
stretch in which that workspace stayed the same (`CoversUnasked`). `RowsAdvance`
needs only the checks before each write. `LaggingReplicasAreServed` (`LagIsServed`)
rests on two invariants: each event between the last snapshot and the shared cursor
has its receipt (`ReceiptsComplete`, part of the invariant of the module), and
whatever a replica's cursor is or is about to become, the shared cursor has been
there (`Behind`). The shared cursor never goes back (`SharedAdvances`), so the
second stays true of the replicas that do not act.

Not proved, model-checked only: the liveness properties `EveryQueryCompletes`,
`AggregatorDrains`, `RunEnds` and `EveryMessageSettles`, since liveness under
fairness needs `ENABLED`, which the prover does not support, and what the violation
runs show. Induction over data is not used: no definition is recursive. The type
invariants of all modules are proved and are not repeated by the runs.

## Where the code and its documents disagree

Each is a run that must fail, with the quoted line in `PROJECT.json`.

- `scheduler_reset_overlap`: a conversation that is reset while a query of it
  runs gets a fresh semaphore, so two queries of it run at once although
  `concurrency.session` is 1.
- `ledger_terminal`: two overlapping finalizations both pass the check, and the
  second overwrites the terminal status. The same gap lets a release or renewal
  that checked its token before the lease passed on commit over the claim that
  superseded it (`StaleTokenInert` fails with `Calls = {c1, c2}`).
- `agent_run_replay`: an audit event takes the number that the run loop gives to
  its next result; `append_event` returns the audit row, and the result is shown to
  the user and is not in the ledger.
- `directory_older_snapshot`: a snapshot is compared with the shared cursor, which
  a launch does not move. A snapshot fetched before a workspace was created is
  applied after the launch of that workspace and archives its row at its current
  revision; from then on every page and snapshot that names the workspace is
  refused for conflicting contents, until it changes again.

## Observations

Behaviours that the models have because the code has them, and that contradict no
document but where one is named:

- Discarding a queued query of an old generation brings back a counter: the purge
  of `add_query` (`pipeline/pool.py:326`) runs over the counters that are there,
  and a discard adds a counter that was purged before. `CounterRoom` holds with it.
- In Cloud mode a timer that cannot open its unit of work leaves its buffer behind
  (`pipeline/aggregator.py:273`); only another message of the conversation with the
  same context starts a timer again. `AggregatorDrains` excepts such buffers.
- On SQLite `FOR UPDATE` is not emitted, so two overlapping claims are given the
  same run and one attempt is counted (`agent/runner/run_ledger_store.py:194`).
  `ClaimsAreCounted` therefore assumes row locks or calls that do not overlap.
- `finalize_run` takes any status, although `RUN_FINALIZE` is documented as closing
  the run (`src/docs/agent-runner-pluginization/RUNTIME_CONTROL_PLANE_V2.md:245`):
  'queued' under a live claim keeps token and lease in the row and lets a second runtime claim the run
  while the first holds it (`agent/runner/run_ledger_store.py:392`); and a finalization
  with 'queued' that read the row before the run ended takes the end back
  (`foreign = "stale"`).
- When `finalize_run` raises in the except branch of a run
  (`agent/runner/orchestrator.py:421`), the row stays 'running'.
- Two requests of one resumed run find the same answered interaction
  (`agent/runner/interaction_manager.py:139`), and the second takes the presentation
  from the first, which still waits for its answer. `ControlsKept` excepts it.
- An abandoned run (a cancelled task, a consumer that stops iterating) leaves the
  registry and its row stays 'running'; `EndIsRecorded` excepts it.
- Steering messages that a run has claimed and never pulled are dropped when it
  ends, although their queries were completed; an audit that fails loses the rest.
- A callback that comes late and overlaps with the accepted answer writes 'expired'
  over 'submitted'. A stop between the answer and the resumption loses the
  resumption.
- A launch that fetched a workspace before another replica consumed the event that
  archives or removes it revives its row until the next snapshot; this is the
  exception `LateLaunch` of `StaysCovered`.
- A page that fetched contents newer than its last event raises the row above the
  revision of later tombstones; when the workspace is then gone, the next page is
  refused ("tombstone revision rolled back") until the replica starts again.

## What is not modelled

Inside the modelled parts: cancellation of tasks when the process exits; the
heap and clock of session expiry (any order instead); the debounce delay (a timer
may fire at any time); `MessageAggregator.flush_all` and
`InteractionStore.expire_pending`, which nothing calls; the registry of runtimes;
the ownership check of `plugin/runner_actions.py` before it finalizes, so that the
models admit more callers than the program; payloads, authority checks and formats
of interactions; reply streams; in the directory what is listed above, and the
entitlement snapshots that the resolver caches beside the set of active
workspaces.

Parts not modelled at all, with the reasons also in `PROJECT.json`:

- *I/O with services and devices*: platform adapters and vendored clients, models
  and tools (the lifecycle of an MCP session depends on the tasks and cancellation
  scopes of the MCP library), the plugin runtime connection (of which the models
  take that any call may fail or be slow), knowledge and storage, the sandbox.
- *single transactions*: history and state stores, workspaces and members, the web
  API. Each operation reads and writes rows under a lock or in one statement, and
  none waits for another; a model would repeat the SQL.
- *wall-clock windows*: the rate limiter is one container of counters whose
  behaviour is that of the clock.
- *text and configuration*: the stages of the pipeline, run preparation, telemetry.
- *separate programs*: the feishu plugins, the web console, packaging and scripts.
