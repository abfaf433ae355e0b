# Conseqa, specified

TLA+ specifications of conseqa, a Rust program in which several LLM agents design
one software system together, and proofs about them. Paths below are relative to
the repository; `engine.rs` alone is `src/design/engine.rs`, `store.rs`,
`analysis.rs`, `auth.rs`, `commit.rs`, `task.rs` its neighbours, and
`scheduler.rs`, `supervisor.rs`, `workflow.rs`, `build.rs`, `handoff.rs` live in
`src/harness/`, `attest.rs`, `review.rs`, `state.rs` in `src/conformance/`,
`transaction_conflicts.rs`, `replay.rs` and their like in
`src/analyzer/verification/`, `extract.rs` in `src/analyzer/basis/`, `diff.rs`,
`partition.rs`, `mutation.rs` in `src/design/change/`, and `mod.rs` is
`src/analyzer/validation/mod.rs`.

`tlc -config X.cfg M` checks a run (module and expected outcome in
`PROJECT.json`), `tlapm M_proofs.tla` the proofs.

## 1. The system

A *design* is a set of symbols (services, schemas, operations with an interface, a
program and requirements, runtime topology). A *harness* breaks a goal down into
*logical tasks*, schedules them in waves, and launches one agent process per
attempt. Each agent talks, with its capability token, to an MCP server that calls
the *design engine*. The engine serves facts from the revision the task is pinned
to, records each of them in the task's read set, and takes one patch from the
task; a single *commit sequencer* judges the patches against the head by optimistic
concurrency control, persists the accepted ones through the *project store* as
files beside the code, which people edit too, and sweeps the other tasks,
invalidating those whose context the commit made untrue. Each new head is queued
at the *analysis hub*, whose worker verifies it in the background; summaries of
verified operations enter the bundles of later tasks. The harness repeats
synthesis, discovery and repair until the analyzer has nothing to object to.

A program can be written as a *sketch*, a list of actions that a compiler turns
into transactions and effects; the gate judges every program it is given before it
commits it. The analyzer *validates* a whole design and *verifies* what it
requires: that transactions are serializable, or commit in a declared order, that
an operation attempted again does no work twice and answers the same, that it
recovers. Each verdict has a *basis*, the facts of the design it rests on, and the
*change analysis* says of two designs which verdicts moved and which changed
declarations explain it. Beside the finished design stands the code: parties *attest* that a region
of it realizes a declaration, others *review* that, and what a proof rests on is
derived from the design, the code and these records whenever somebody asks.

| Component | State it keeps | Operations | Talks to | Hard behaviour |
|---|---|---|---|---|
| Design engine (`engine.rs`, `commit.rs`, `read_set.rs`, `invalidation.rs`, `auth.rs`, `task.rs`) | head, task map, read sets, token map, nonce map, submission queue | create, read, query, submit, cancel/fail/conclude, refresh, commit, sweep, adopt an edit, recover | MCP tools, store, hub, event subscribers | read sets grow while the gate reads them; tasks ended while judged; phantom query answers; retries; restart between persist and publish |
| Project store (`store.rs`) | committed files, `local/pending.json`, `local/state.json`, the engine's image of both | open, recover, look for changes, record, write, roll back | engine; editors, git | a stop between any two file writes; a write that fails half-way; edits during any of it |
| Analysis hub (`analysis.rs`) | queue of revisions, state per revision, pins | enqueue, pin, ready, worker loop, drop | engine, workflow, bundles | coalescing against pins; lost wake-ups; results overwritten |
| Scheduler (`scheduler.rs`) | waves, one queue a wave, claims on programs, ledger | plan, run, chain a follow-up, replace | engine, supervisor | siblings invalidating each other; follow-ups stranded; work done twice |
| Supervisor and backends | one watch a session | run a process, cancel it on invalidation, fail its task | engine, agents | the event lost or late; the task's state moves between two looks |
| Workflow (`workflow.rs`, `build.rs`, `review.rs`) | phase, operations discovered, iteration count | the loop over topology, synthesis, discovery, repair, review | scheduler, hub, engine | termination; success while a task is active; analysis of one revision with the model of another |
| Dependency requests (`engine.rs`, `handoff.rs`) | the requests | file, resolve, reject, dispatch | engine, workflow | resolving twice; a requester that has gone |
| Task log (`store.rs`) | append-only `local/tasks.jsonl` | append, replay | engine | partial lines, concurrent appends |
| Symbol graph, drafts (`graph_build.rs`, `graph_query.rs`, `patch.rs`, `workspace.rs`) | the workspace, rebuilt edges, stages of drafts, proposals and prompt obligations | apply a patch, fingerprint, query, judge piece by piece, assemble | engine, gate, analyzer | a piece is accepted for what it names, which others go on changing; fingerprints and edges that miss something |
| Basis, change analysis (`src/analyzer/basis/`, `src/design/change/`) | none | extract a basis, partition, compare, explain, mutate | workflow, command line | a verdict depends on something its basis does not name |
| MCP surface, candidate patches | none | route, render, preview | engine | - |
| Sketches (`src/design/sketch.rs`) | none | compile | engine, gate | what is read, locked, decided and changed ends up in another order than it was told |
| Validation (`src/analyzer/validation/`) | none | judge a program, judge a design | gate, hub | paths that meet again: what is there on one and not on the other |
| Verification (`src/analyzer/verification/`) | none | conflicts, serializability, ordering, replay, idempotency, result replay, recoverability | hub, conformance | each verdict is about every interleaving, stop and retry of what it judges |
| Conformance (`src/conformance/`) | one record a declaration, under a lock | read a packet, attest, review, derive | files, code markers | derived, then written: the design, the code and the record move in between; lost answers |
| System One (`src/system_one/`) | breaker, budget, log | ask a model service, retry, fall back | HTTP | retries, exhaustion |
| Report, specification, parser, visualisation, realization | none | pure functions | - | - |

What makes each correct:

- **Engine.** What is committed is a serial execution of what the tasks saw: every
  fact a committing task was served is true of the head it is laid over, answers to
  queries included; nothing that changed since is overwritten; a task commits once,
  under whatever nonces and restarts; a receipt is true for ever; an invalidated
  task has no authority again; its patch is not lost to its replacement; a token is
  the authority of one task; every submission is answered.
- **Store.** The files hold all or nothing of a commit; no edit is missed or
  overwritten; a revision number names one design, and never goes back.
- **Hub.** The newest revision is analysed; a pinned one is never coalesced away and
  its waiters are answered; the queue stays short; a result is final; the hub can
  always be dropped.
- **Scheduler.** Tasks of a wave do not invalidate each other through what was
  scheduled; each is planned once and held back for a reason; callees come first;
  one writer a program; a task lands once and its run says so; nothing is stranded.
- **Workflow.** A run ends; success is the truth about the design that is there;
  every operation's requirements were looked for; what was handed back to the
  caller is not judged; no two tasks that run at once may write one symbol.
- **Sketches and validation.** The one-pass judgment is right of each path of a
  program; what compiles is admitted; it does what the sketch tells, course by
  course; no change falls on a record that moved since it was found.
- **Verification.** What is called serializable has a serial order, what is called
  ordered commits in the order of its positions, what is called idempotent does no
  work twice and goes on one way only, what is called result-stable answers the
  same, and what is called recoverable is not stranded by what it did before.
- **Drafts.** A commit changes nothing that others have changed since its task's
  snapshot, and names nothing that is not as its task saw it; what it breaks
  elsewhere the graph leads to; the gate accepts piece by piece what the analyzer
  accepts as a whole.
- **Change analysis.** A verdict or a basis that moved is explained by a changed
  declaration that it read; a basis is enough for its verdict.
- **Conformance.** What is derived as reviewed was confirmed by somebody else, who
  read that very record; a retry replays; no review is lost to another party's
  write; what is derived of obligations and of declarations agrees.

## 2. Modules

| Module | Stands for | Composition |
|---|---|---|
| `DesignData` | workspaces, patches, queries, read sets and what it is for one to be true | extended by the two below |
| `SerialDesign` | what the engine promises: a design, facts told, commits that happen at once | abstract specification |
| `DesignEngine` | the engine with its sessions, sequencer, sweep and restarts | refines `SerialDesign` (`Serial!`) |
| `ProjectStore` | the store, with the files, the journal, editors and stops | |
| `AnalysisHub` | the hub with publisher, worker and waiters | |
| `WavePlanner` | how a batch is laid out in waves | extended by `Scheduler` |
| `Scheduler` | one batch with its slots, attempts, supervisor, and the engine as they see it | |
| `DesignRun` | the workflow's loop over batches, with what it reads off a head and its dependency requests | a batch is what `Scheduler` runs |
| `Conformance` | the records, and what is derived from them, the code and the design | |
| `TransactionConflicts` | the conflict index and the provers of serializability and ordering, as operators | extended by the next |
| `TransactionHistory` | executions of a specification's transactions on a database | holds the provers to what they say |
| `ReplayRules` | paths, derivations and the provers of idempotency, result replay, recoverability, as operators | extended by the next, and by `ProgramRules` |
| `ReplayHistory` | attempts of an operation that stop, repeat and interleave | holds the provers to what they say |
| `ProgramRules` | the judgment of one program, as operators | extended by the next |
| `SketchCompiler` | the compiler of sketches, as operators | extended by the next |
| `Programs` | a sketch compiled, judged and run beside another writer | holds both to a reading of their own |
| `SymbolGraph` | workspaces, their fingerprints, nodes, edges and queries, as operators | extends `ProgramRules`, extended by the next |
| `ValueRules` | whether a reference to a value can be observed and leads to a field | extended by the next |
| `ModelRules` | the judgment of a whole model | extended by the next |
| `DraftRules` | patches, write scopes, the gate's checks, drafts and their stages | extended by the next |
| `Workspaces` | tasks that write one workspace together | the gate of `DesignEngine` with the symbols, patches and checks of the code |
| `VerdictBasis` | the bases of serializability and ordering verdicts, as operators | extends `TransactionConflicts`, extended by the next |
| `SpecChange` | two specifications, one edited from the other, and their difference | `MCTransactions` runs it beside `TransactionHistory` |
| `MC*` | small instances for TLC | extend the module they are named for |
| `*_proofs` | theorems and their proofs | extend the module they are named for; `Verdicts_proofs` extends `TransactionHistory` and `SpecChange` |
| `Fixpoints` | lemmas: the least number, functions by recursion, growing sets that settle | extended by `Conformance_proofs` and `Verdicts_proofs` |

Operators marked "Mutant" next to a definition are plausible mistakes in the code
it models. Putting one in the place of the definition breaks the property
`PROJECT.json` pairs it with: each property is one the code could fail.

### DesignEngine over DesignData

*State.* `log` is the sequence of revisions on disk, `head` the one that has been
published (`ArcSwap` head); they differ between `Persist` and `Publish`. `state`
is the lifecycle state in the task map and `logged` the one in the task log,
which is what `Restart` finds. `symbols` and `queries` are the two maps of
`TaskReadSet`; `tokens` is `auth.rs`'s map; `queue` the channel to
`commit_worker`; `pc`, `req`, `verdict`, `todo` are the holder of the writer lock
(`commit_lock`): sequencer, `sync_with_disk` and `refresh_session` alike. `seen`,
`exposed`, `receipts`, `refused` are history variables.

*Actions.* `PinTask` and `InstallTask` are the two halves of `create_task` (the
token works, and the log has the task, before the task map does). `ReadSymbol` and
`GraphQuery` serve and record. `Submit` sends with a nonce and base. `TakeSubmission`
takes the lock, after which adoption of edits (`AdoptNothing`, `AdoptEdit`,
`AdoptFails`), `Gate` (state, replay by nonce, `KeepPatch`), `CheckReads`,
`CheckRefs`, `Persist`, `Publish`, `SweepTask` for each task in any order, and one
of the `Settle*` follow, each a step of its own since other threads get in
between: a task can be ended while it is judged, and a reader can read on. A
session's task is followed by its successor (`Succeed`) under the same token, or
`Strand`ed if the token is gone. `Restart` stops the process at any step and runs
`recover_tasks`.

*Abstractions.* A symbol's fingerprint is its content. A query selects the symbols
that hold a given content. A patch is what it writes, what it addresses
(existing symbols it edits or deletes) and what it refers to; the effect of each
mutation kind is in these sets. `finish_task` sets the state and the log in one
step. Failed appends to the task log are ignored, as the code ignores them. The
check of `active_entry` and the record it leads to are one step. Dependency
requests, analysis waits and context bundles are not in this module (a bundle is
a series of `ReadSymbol`s to the gate).

*`SerialDesign`* has neither revisions nor queues: tasks are told facts, and a
`Commit` happens in one step, while all the task was told is true, and refers only
to what it was told of. `DesignEngine` implements it with the last persisted
revision as the design: `Persist` is the step that commits.

### ProjectStore

*State.* `files`, `journal` and `stateFile` are on disk. `disk` is the engine's
image (`disk.files`), `touched` stands for the comparison of metadata
fingerprints (`scan`): whether any file was written since the fingerprint the
engine holds was taken; `moved` is the same for a look under way. The rest is history:
`kept` and `coming` are what the files should hold without and with the commit in flight,
`unread` the files whose last edit the engine has not taken in, and `late` those edited
after the look that the commit under way, or the journal of an interrupted one, relies on.

*Actions.* One per file operation: `Open`, `RecoverFile`, `RecoverState`,
`RecoverClear`, `ReadFile` and the ends of a look (`LookSeesNothing`, `LookReads`,
`LookReadsTheHead`, `RecordChange`, `Adopt`, `LoadFails`), then `Accept`,
`WriteJournal`, `ApplyFile` (writes before deletes), `WriteState`, `ClearJournal`,
`Rescan`, `Publish`, and the roll-back `ApplyFails`, `RestoreFile`, `Restored`.
`Stop` may come anywhere. `Edit` is an editor. A file is what it says after canonical
rendering, so a reformat touches a file and changes nothing; one that does not
load is `Broken`. Creation of a project is not modelled, nor reading one from a git
commit; within a journal, order is that of `InTurn`.

In `Spec` files are edited at any time, in the middle of a commit and over a journal that
waits to be completed included. There the engine writes over edits and misses them, against
its documentation: `NeverWritesOverAnEdit` and `EveryEditIsFound` are the documented claims, and fail
(section 5); `EarlierEditsAreKept`, `NothingMissed` and `AllOrNothing` say how much of them
is so, by leaving out the files in `late`.
`HarmedSpec` adds the failures that follow the point of no return, a failing roll-back, and
deletion of `local/`; only theorems speak of it.

### AnalysisHub

`PublishNext` is the sequencer publishing, which then enqueues: `Push` (with the
coalescing, under the queue's lock), `MarkPending` and `Notify`. The worker is
`Pop`, `Assemble`, `Validate`, `Verify`, `Sleep`, `StopWorking`. A waiter is `Wait`
(`ready`: pin, then look), `Answer` or `TimeOut`. The queue is a set: it is always in
order of revision. Pins are the waiters there are, which is what the reference
count counts; `retain` and pinning are atomic as in the code, which holds the
queue's lock for one and a map entry for the other. What the analyzer finds is open.

### WavePlanner and Scheduler

A task of a batch is its place in it, with the operation it is about, its peers,
what its bundle includes, its grants, and whether a follow-up may be chained.
`Writes`, `Reads`, `Conflicts` are `footprint` and `conflicts`, symbol by symbol.
The in-degree counters of `callee_first_order` are sets of tasks waited for;
`TakeReady`, `AppendCycles` and `Place` are its loop, the tail for cycles and the
loop of `plan_waves`.

In `Scheduler` each of the `Slots` is one worker future: `FetchJob` (and the
advisory claim), `CreateTask`, `ContextBundle` (as deep as the analysis is *then*),
the session (`ReadMore`, `SubmitPatch`, `Exit`), `FirstLook`, `FailTask`,
`Replace` or `FinishJob`, which may chain the discovery of an operation just
synthesized. The engine is what the scheduler sees of it: an attempt has a state,
what it observed and what has moved under it since, and the sequencer takes,
commits or refuses one patch at a time; the sweep is one step with the commit.
`NoticeInvalidation` may come late or never. "Failed" is every end of a process
but success: an exit code, a stream error, a timeout. An engine error
(`LaunchFails`) ends a job, and the batch after its wave. A process may end (`Exit`) with its patch
unanswered, as one that is killed at a time limit or a cancellation does
(`process.rs:128`, `supervisor.rs:138`): the patch stays with the sequencer, and may commit while
the supervisor looks, fails the task, or runs a replacement. Such attempts are in `cut`; an attempt's
`landed` says whether it committed, `shifted` what attempts outside `cut` have changed under it. The interactive
decomposition is not run in batches and not modelled here.

### DesignRun

*State.* `head` is what the workflow acts on of a workspace: of each operation
whether its program is absent, missing, invalid, weak or strong, which declare
requirements, whether there is an obligation and it is mapped, the runtime, and
whether a shared symbol is faulty. `analysis` is that of the revision the iteration
pinned, which later batches leave behind. `phase` says where `run` goes on once the
`tasks` of the batch at hand have ended; `asks`, `carried` and `touched` are the
dependency requests, those a dispatch carries and what has changed since.

*Actions.* `Decompose`, `OperationFanout`, `NextIteration` (budget, halt, dispatch of asks,
analysis), `AnalysisTimeout`, `AnalysisStuck`, `FillGaps`, `RepairErrors`,
`RepairPrograms`, `RequirementDiscovery`, `AfterDiscovery`, `AfterTopology`,
`RepairUnproven`, `AfterRepair` and `Finalize` are the stretches of `run` between two
awaits. `TaskEnds` commits or not, asks or not, and may chain a discovery;
`TaskFails` and `HandedBack` are its other ends; `OutsideCommit` is another session
of the server.

*Abstractions.* A task is one step: how it gets there is `Scheduler`. The analyzer
is a function of the head: an operation is proven if it and all that its evidence
names (`Names`) are strong. Artifacts and the manifest are left out.

### Conformance

*State.* `spec`, `code` and `matches` are what derivations read, digests standing
for themselves; `records` the files; `calls` what each client is at: it holds a
packet, is about to write what it derived, or never had its answer. `looked` and
`crossed` are history variables.

*Actions.* A call is two steps, as the record lock makes it: `AttestFromPacket`,
`RetryAttest` and `RecordReview` derive, `WriteRecord` compares the record it
replaces and writes, or is refused. `GiveUp` loses the answer. `EditCode`, `EditMatches`,
`EditSpec` and `RemoveRecord` are editors. What a declaration owes, what blocks an
obligation and what spreads along reliance are operators of the state. Realizations
and their checkers are left out.

### TransactionConflicts and TransactionHistory

`StepAccesses` translates each kind of step into accesses with a selector and a
footprint of fields; `Conflict` and `Closure` follow, then what protects, guards or
locks an access, `Unconstrained` dependencies and the cycles they close.
`SerializabilityProven` and `OrderingProven` are the two provers.

`TransactionHistory` runs the same specifications. `Begin`, `Step`, `Commit` and
`Abort` are those of a database that promises what is declared and nothing more:
dirty reads and overwritten writes where isolation is unspecified, one committed
state under snapshot, write locks until the end under a declared isolation, a
version that moves with every mutation. An execution writes its own number, so
that a serial order is found, or not, by replaying the committed ones.
`pending` is what each execution has written, `later` who wrote after whom where several
wrote one place: the latest is what a dirty read sees, and a commit discards what it overwrote.
`Valid` is what validation leaves of a specification: a managed field has one role, a fence no
rule, a cursor's field is not the version's. `KeepsRoute` is the condition
under which an ordering that is proven is kept (section 4).

*Abstractions.* An object's identity is one field; a position is a number.

### ReplayRules and ReplayHistory

`Paths` enumerates the paths of a program; a derivation is a set of roots and
whether it is deterministic; `ReplayRules` says of each path what is stable over an
attempt, what over attempts of one class, and which deliveries and requests are of
one class. The three families of verdicts are sets of operations. Gaps and obstacles, which
are wording, are truth values.

`ReplayHistory` runs the programs: an attempt commits (or recovers what its key has
committed), launches effects, joins or races them, decides and terminates; a
stopped attempt is one that takes no more steps. The environment starts attempts,
a broker delivers again, a requester repeats. A deterministic value is an
injective function of its roots, and anything else is any of two values: what a
verdict does not rest on, it cannot use.

### ProgramRules, SketchCompiler and Programs

`ProgramRules` is the one pass over a program (`Judge` of a block, meeting the arms of a
decision where they join) and yields errors as `<<code, id, step>>`. `SketchCompiler` is
both ways of the code, the simple one and the general one, as functions of the
compiler's state `c`, whose fields are the code's. `Programs` compiles a sketch, judges
the program, and runs any of its transactions a step of its body at a time beside a
writer that is not one of its attempts (`OutsideChange`).

What both are held to is stated apart from them: `Paths` walks a program path
by path; a sketch's courses are what it tells when read as it stands, with no
transactions' bodies, locks, exports, binds or joins.

*Abstractions.* A value is named by its source, an alias or the input, so the text
the compiler scans for later uses is the set of sources mentioned, and which field
is taken is left out. Isolation, lock modes and the order of locks, key overrides
and their propagation, literals and types are taken away. Selectors stand for the
records they select.

### SymbolGraph, ValueRules, ModelRules, DraftRules and Workspaces

`SymbolGraph` is the workspace as a record of declarations, with the fingerprint of
each symbol, the nodes and edges of the graph that is rebuilt after every commit, and
its queries (callers, callees, dependents, impact and their like). `ModelRules` is the
analyzer's judgment of the assembled model stage by stage: ids, references, schemas and
their paths, topics, outboxes, inputs, state machines, managed fields, paths of values,
guarantees, the runtime document. `DraftRules` is a patch's write targets, external
references and effect (`Apply`, mutation by mutation, with proposals, prompt obligations
and stages), the scopes, and the gate's own checks (`CheckPatch`).

*State of `Workspaces`.* `head` is the published workspace, `base` the snapshot of each
task begun, `committed` the tasks that have committed, `last` the commit that made the
head. *Actions.* `BeginTask` takes a snapshot; `Submits` is `validate_and_commit` of a
patch: scope, read set, answers to queries, write targets, read-before-reference,
application, checks. What a task has read is all its patch refers to, or nothing, and
what it asked is all it may ask, or nothing.

*Abstractions.* A judgment is whether it reports nothing. The fields that a selector
compares, the order of locks, checks of presence that cannot matter, search, and the
export of a draft are left out. A fingerprint is the content it is taken of.

### VerdictBasis and SpecChange

`VerdictBasis` computes what `extract.rs` extracts of the two provers of
`TransactionConflicts`: facts present and missing, and the declarations they anchor.
`SpecChange` has `base` and `head`, both sides' obligations in `analyses`, and `diff`,
the entries of the difference. `Edit` applies a mutation of the catalogue
(`mutation.rs`) and compares; `TurnRound` compares the other way.

*Abstractions.* Declarations other than transactions, objects and their requirements
are left out, as are relied-on explanations, impact and reliance; at most one ordering
requirement has a given key. The catalogue's heads include some that would not validate.

## 3. Runs

| Run | Instance | Shows |
|---|---|---|
| `engine_sessions` | 1 token, 3 tasks, edits of the files, fair | a token is the authority of one task however it is rolled; submissions are answered |
| `engine_restart` | 2 tasks, 2 symbols, 1 query, 2 patches, 2 nonces, 3 revisions, stops at every step | gate and sweep let no commit rest on anything stale, lose no update, leave no stale worker running; one commit a task; refinement of `SerialDesign` |
| `store_atomic` | 2 files, 3 revisions, stops at every step, edits at any time that touch, change, create and break files (650,852 states) | all or nothing; no edit made before the look a commit relies on is missed or written over |
| `analysis_hub` | 4 revisions, 2 waiters, fair | analysis of the newest, answers to who waits, shutdown |
| `scheduler` | 4 batches of two tasks x 2 call graphs of 3 operations x analysis ready or not, 2 slots, 2 attempts, 1 session cut off (3,123,920 states) | plan, runs, follow-ups, contexts; deadlock is checked: a batch that stops has returned |
| `design_run` | 2 operations, 5 heads, 2 iterations, 1 ask, 1 outside commit, agents or builders, fair | success is one and nothing is left unlooked, one writer a symbol, the run ends |
| `conformance` | 2 declarations, 2 facts, 3 obligations (two rely on each other), 3 clients of 2 parties, 3 specs | reviews, retries, derivations |
| `transactions` | 293 specifications of which something is proven, of 48 transactions in ones, twos and threes, in 3 executions; and each of them edited by every mutation of the catalogue, compared both ways | verdicts of serializability and ordering; what moved is explained by what changed, a basis is enough for its verdict |
| `replay` | 303 specifications of one operation or two, 2 attempts started from outside, 4 in all | verdicts of idempotency, result replay and recoverability |
| `programs` | 7,996 sketches of up to three of 27 parts, 18,354 programs written by hand, 1 change by the other writer | judgment, compilation, guarded changes |
| `workspaces` | 3 designs of three operations, 4 tasks of which 2 begin, some 60 patches | no commit overwrites or names what its task did not see; what it breaks the graph leads to; the gate accepts what the analyzer does |
| `predicate_update` | 2 transactions, the smallest that fails | section 5 |

*Bounds, and why they are enough to be of interest.* Two tasks and three revisions
are what it takes for a conflict, a sweep and a second commit, and what a stale read, a
phantom (a query on contents that another patch adds or removes), a lost update and a
dangling reference look like with the two patches of `MCPatches`: one rewrites the
symbol the other refers to. Three tasks under one token make two rolls in a row. A
submission queue of one (`MaxQueue`) still has a second task waiting as one is
judged. Two nonces make a retry and a fresh submission of one patch. In the store,
one of the two files is written and the other created by a commit, and taken away by
the next, so that both orders of `InTurn` and every prefix of a journal occur;
three revisions admit a recovery between two commits. Four revisions and two waiters make
coalescing drop one between two pinned ones. Two slots make a follow-up run
beside a primary, two attempts make a replacement and an exhaustion, and one session that ends with
its patch unanswered (`MaxCutOff`) is met by every state its patch and its siblings can be in. The batches
are of the kinds the workflow submits: a synthesis that chains discovery, repairs, a repair beside a discovery
of one operation, and the topology author, whose grant is global. In one call graph two operations call each
other and the third calls one of them. Batches of three, which put one task between two waves, are left to
`PlansHold`, which is about all batches and all calls.

Two iterations (`MaxIterations`) are one that works and one that meets what the
first left, with the budget's end behind it; the heads are an empty project, and what
sessions and stopped runs leave: programs without requirements, invalid ones, an
obligation nobody mapped. One ask (`MaxAsks`) and one outside commit (`MaxOutside`)
are each met at every point of the loop. In `conformance` one edit (`MaxMoves`) and three
packets or repeated calls (`MaxCalls`) suffice for an attest, its review, and an attest
or a retry across the edit; regions are none, one, or one and another (`Texts`).
Three executions over two instances make a dependency cycle through a third
transaction, two `Positions` an order to be broken; beside every transaction that orders by an
instance, another brings that instance into being. Every ordering proven in the run meets
`KeepsRoute` (TLC evaluates `ProvenRoutesAreKept`), so the theorem of section 4 is about all of them. Two started attempts
(`MaxRoots`) and four in all (`MaxAttempts`) make a race of two and a redelivery or repeated
request for each. Up to three parts make a sketch that finds, acts and acts on
the answer, with a decision in any place; one change by the other writer
(`MaxOutside`) falls between any two steps of a transaction.

In `workspaces` the tasks have the scopes the workflow grants (the skeleton, the
runtime, one operation, everything), each patch is one a task of that scope may submit, of
every kind of mutation, and two tasks begun (`MaxTasks`) at the heads that there are
by then make every order of two snapshots and two commits. Among the queries is that for
the consumers of a topic and of an outbox, at heads that declare them and at heads that do not. `Full` is a design the
analyzer accepts; `Slipped` and `Unwritten` are what earlier commits leave of it. One
mutation (`MaxEdits`) is what the code's own check applies before it compares; turned
round it makes the difference that improves.

`CHECK_DEADLOCK FALSE` stands where a bound, a closed project, a dropped hub, a
report or the end of all executions lets the system stop.

*Symmetry* is used in runs that check safety only.

*Fairness.* `engine_sessions` assumes weak fairness of the lock's holder, which is
straight-line code that never waits while it holds the lock, and strong fairness of
`TakeSubmission`, since others take the lock in between: parking_lot's mutex is
fair in the long run. `analysis_hub` assumes weak fairness of `enqueue`, of the
worker thread and of a waiter woken by its watch channel; nobody has to publish,
wait or time out. `design_run` assumes weak fairness of `Step`: the workflow is one
async function, each of whose awaits ends, every task's by its session's limits and
its attempts, every analysis' by a timeout. The other runs assume none.

## 4. Proofs

All theorems hold for every value of the constants that satisfies the named
assumptions; the bounds on revisions, queues, attempts, iterations and asks are
arbitrary numbers.

| Module | Theorem | Property |
|---|---|---|
| `DesignEngine_proofs` | `TypeCorrect` | `TypeOK` |
| | `GateIsSound` | `CommittedOnWhatWasSeen` |
| | `NoUpdateIsLost` | `NoLostUpdate` |
| | `CommitsOnce` | `OneCommitPerTask` |
| | `ReceiptsAreTrue` | `ReceiptsHonoured` |
| | `InvalidationIsFinal` | `InvalidatedIsTerminal` |
| | `TokensAreExclusive` | `OneAuthorityPerToken` |
| | `SweepIsComplete` | `SweepLeavesNoneBehind` |
| | `EngineIsSerial` (if `~Pipelined`) | `ImplementsSerialDesign` |
| `ProjectStore_proofs` | `StoreTypeCorrect`, `HeadsAreRecorded` (`HarmedSpec`) | `TypeOK`, `PublishedIsRecorded` |
| | `RevisionsNameOneDesign`, `HeadsNeverGoBack` | `RevisionNamesOneDesign`, `HeadNeverGoesBack` |
| | `CommitsAreAtomic`, `NoEditIsMissed`, `EarlierEditsAreNotWrittenOver` | `AllOrNothing`, `NothingMissed`, `EarlierEditsAreKept` |
| `AnalysisHub_proofs` | `HubTypeCorrect`, `PinsHold`, `QueueIsShort` | `TypeOK`, `PinHolds`, `Coalesced` |
| `Scheduler_proofs` | `WavesKeepApart` | `WavesConflictFree` |
| | `PlansHold` | `PlanSound` |
| | `NoneIsStranded` | `NothingStranded` |
| | `RunsAreTruthful` | `RunsTellTheTruth` |
| | `ContextIsKept` | `PlannedContextHolds` |
| | `ProgramsHaveOneWriter` | `OneProgramWriter` |
| `DesignRun_proofs` | `RunTypeCorrect` | `RunTypes` |
| | `WritersAreApart` | `NoTwoWriters` |
| | `SuccessIsTrue` | `SuccessIsSound` |
| | `HandedBackStops` | `HandedBackIsNotJudged` |
| `Conformance_proofs` | `RetriesReplay` | `RetryReplays` |
| | `ReviewsAreIndependent` | `IndependentlyConfirmed` |
| | `ReviewsAreKept` | `NoReviewLost` |
| | `DerivationsCoincide` | `DerivationsAgree` |
| `Verdicts_proofs` | `OrderIsAsProven`, `RoutesKeepTheirOrder` (where `KeepsRoute`) | `OrderedAsProven` |
| | `LocksAreExclusive` | of the locks of `TransactionHistory` |
| | `OneComponent`, `ReadsItsClosure` | of the operators of `VerdictBasis` |
| | `DiffIsExplained`, `DifferencesAreExplained` | `VerdictsAreExplained` |

Those of these properties that no run checks (types, `ReceiptsHonoured`,
`InvalidatedIsTerminal`, `PublishedIsRecorded`, `RevisionNamesOneDesign`,
`HeadNeverGoesBack`, `PinHolds`, `Coalesced`, `WavesConflictFree`, `OneProgramWriter`,
`HandedBackIsNotJudged`) are proved for every instance, and the runs spend their time
on others. `VerdictsAreExplained` is part of what `ChangesAreExplained` says.

### Assumptions

Most of the assumptions on constants only say what a constant is: patches, scopes and
edits are over the symbols (`DataConstants`, `EngineConstants`), a file that is missing or broken
is not a text (`StoreConstants`), nothing is not something (`NoneIsNothing`). Six say more.

- `PlannerConstants`, `SchedulerConstants`: a grant to write an operation or its program is about
  one; only a task granted an operation's program chains that operation's discovery,
  and no task beside it is handed that operation's requirements by themselves. The
  batches of `workflow.rs:428` and of the repair groups are of this form, and there is
  at least one attempt and one slot.
- `RunConstants`: what the evidence of an operation names are operations.
- `ConformanceConstants`: there are finitely many obligations. They are those of one
  specification.
- `HistoryConstants`: executions and positions are numbers, and each specification is one that
  validation lets through (`Valid`), with identities of one field. Cursors of decimals and of
  timestamps (`validation/mod.rs:1487`) are ordered as numbers are.
- `KeepsRoute` in `OrderIsAsProven` and `RoutesKeepTheirOrder` is a hypothesis on the route that is proven: no transaction
  deletes instances of the ordered object, and one that passes a fence has an exclusive lock on the fenced
  instance, or guards it, before, and names it by identity alone. The prover asks for neither
  (section 5, and below).
- `Comparable` in `DifferencesAreExplained` is a hypothesis on the two specifications compared: steps
  are numbered and of the ten kinds, and the objects are the same. The catalogue edits no
  object and no kind but to another of the ten, so every difference of `ChangeSpec` is of such two when
  the base is well formed; the run checks that (`ChangesAreExplained`), since the prover has nothing to say of
  `SelectSeq`, by which a lock is removed.
- `~Pipelined` in `EngineIsSerial`: an agent waits for the answer to its submission before it
  calls another tool. Without it the refinement fails (section 5).

### The engine

Between `CheckReads` and `Persist` the lock is held, so
the last revision is the head the verdict was reached against; the invariant says
of each step of the protocol what has been established of `seen` and of the
patch's targets against `log[Len(log)]`, and of each revision what it was
persisted with. That a task commits once needs that the task is Committed, or
being settled as committed, from the moment its revision is in the log, although
another thread may end it in between and `recover_tasks` finds it Running: `Admitted`
refuses by state, and after a restart nothing is admitted that was in the log.
Receipts are what the nonce map holds, and the map what the log holds.

That a token is the authority of one task is not inductive alone: a session's token
goes to its task's successor, and a restart brings back what the log calls live. `OneHolder`
counts among the holders the task being judged and the task a move is about to end, and
`LoggedSettled` says that the log never holds a state that is passed through. The sweep
leaves none behind since what a task has read is what its pin says, however often it
reads (`ReadsOfPin`), and whoever the publication left stale stays so while the sweep lasts
(`ExposedStale`).

*Refinement.* `design` is the workspace of the last revision in `log`, `known` and `asked` are the
read sets, `done` the tasks whose commits are in the log. Every step but the creation of a task, the
two that read, the adoption of an edit and `Persist` is a stutter, and `Persist` is the commit. It needs that
what the gate validated is all its task was told, and that the patch refers to nothing
else: `GateKnows`, which holds where no tool is called while a patch is judged.

### The store and the hub

One invariant relates revision numbers, the journal and the
state file (`RInv`), one says what the files hold at each step of a commit, a roll-back and a
recovery in terms of `kept`, `coming` and what is `left` (`CInv`), and one says which
files the engine's image and its hash cover (`FInv`). Edits come at every step, so the last two
speak of the files that are not `late` (`Sure`); of the others it does not hold (section 5). The hub: a pinned revision whose result
was to come is in the queue, in the worker's hands or settled, and the queue holds
awaited revisions and the newest.

### The scheduler

*Plan.* `PlanInv` follows the three loops of `plan_waves`: what has been taken is ordered
once, a task is placed before all its callers unless a cycle of calls is upstream of it,
and of two tasks in one wave the later placed was found free of conflict with the earlier. That the
loop leaves over only what waits for a cycle is the lemma `WaitingIsCyclic`: of tasks that all wait
for one of their own, one with the fewest ahead of it waits for itself.

*Batch.* `BatchInv` adds where each job is: in the queue, with exactly one slot, or done
(`Slotted`, `Lined`), and that whatever is still owed is in one of these places (`Due`).
`SessionInv` says of the attempts of a job that only the last can have
committed with its session told, since what is told of is answered before the supervisor looks
(`CommitsLand`, `RecordsSound`), and what the run will say of it (`WatchSound`, `RunsSound`). An attempt in
`cut` may land at any time, after its replacement has been made too, and the clauses leave it out one by one:
it may still move what others observe, and be followed.
`ContextInv` adds that what an attempt observed, of what its plan counted, nobody beside
it may write: by the plan for tasks of the wave, and by `DiscoveryApart` and `LiveJobsApart` for the
discoveries they chain. An attempt that was replaced while its patch was on the way is beside nobody's plan,
which is why `ContextIsKept` counts what attempts outside `cut` have changed (`shifted`). The parts
were checked on the instance of the run `scheduler` before they were proved.

### The workflow

*Writers.* The repair groups of `workflow.rs:1347` are the smallest sets of operations closed
under what their evidence names, the two ways; two of them that meet are one (`GroupsApart`),
so of two tasks of a batch neither may write what the other may. `ChainedOnce` is why the discovery
that follows a synthesis is alone with the requirements.

*Success.* `Followed` says for each point of the loop what is known of `head` and `analysis`
at it, as long as nobody else has committed and no task has since the analysis was pinned; `Halted` says
the same of the paths that leave the loop: what was handed back ends the run without a verdict, and a spent
budget excuses what was not looked for.

### Conformance

`ConformanceTypes` and `CallSound` say what a call knows of the record it was
derived from; `ReviewsRead` that every review is of regions its reviewer read and a record
its reviewer did not write, as long as none was `crossed` (section 5).

*Derivations.* `DerivationsAgree` compares two fixed points that the code reaches by iteration,
what spreads and what rests, over obligations that may rely on each other in cycles. Each is a
function of a number of rounds. `Fixpoints` proves what such proofs need: that the function
exists and is what its equation says (`RoundsExist`, `RoundsCompute`), that a property kept by
every round holds after each (`RoundsHold`), and that a growing sequence of
subsets of a finite set stands still by its cardinality (`RoundsSettle`). With that the result is a
fixed point, and the least, whatever obligations rely on: which is the hypothesis
`IsFiniteSet(Obligations)` is for.

### The difference of two specifications

A verdict that moved must have read something that changed (`SPEC_CHANGE_ANALYSIS.md:142`).
Section 5 has two edits for which that fails: a requirement restated, and an unproven verdict
blocked on another set. `VerdictsAreExplained` excludes these and no more, and is proved of any two
specifications over the same objects, however many transactions apart; the run has three at most.

1. Two accesses conflict in either order (`ConflictsAreMutual`), and wherever two conflict there is
   a dependency in each direction. So what a transaction's closure holds that lies on
   a cycle reaches all of the closure and is reached from it: the cyclic components of a
   closure are none, or the closure itself (`OneComponent`).
2. Hence a verdict, proven or not, reads every transaction of its closure
   (`ReadsItsClosure`): a proof names the closure; a failure has a dependency left open, in a
   component, which is the closure.
3. When neither side's verdict reads a changed declaration, each transaction in either closure is the same on
   both sides; so are the closures, their components and their dependencies (`ClosureUnchanged`).
4. The evidence of a dependency depends on one thing outside the two transactions: whether some
   transaction deletes from the object, for a version that is compared. Where a deleter
   came, the evidence it took away is a proof that names its absence (`EvidenceMoves`), the
   diff counts the deleter as read on both sides (`AbsenceMembers`), and it is a changed declaration
   (`DeleterIsChanged`).
5. So what is proven of one side is proven of the other from the same facts (`SerializabilityHolds`). An
   ordering adds its route, which is its transaction's, and the writers that the route cannot stand,
   each of which an unproven ordering names (`OrderingHolds`).

`Analysed` carries this to `ChangeSpec`: the difference is always that of the two sides' own
obligations, whichever way it was taken. That the reachable set the code computes in as many rounds as there are
nodes is closed rests on `Fixpoints` (`ReachableIsLeast`).

### The order of commitment

`OrderIsAsProven` says of the ordering prover what no run can, for any specification, any number
of executions, any isolation, any interleaving, dirty read and abort: executions of a transaction
that is called ordered commit, of one key, in the order of their positions.
The register of an ordering is the field that its route advances, on the instance that the
key names.

1. *Who may touch the register.* The closure is proven serializable, so every dependency between the
   route and a step that conflicts with it is constrained, both ways (`ConstrainedBothWays`). Nothing but the
   route's own kind of protocol step sets the field in the whole specification (`UncontrolledWriter`, and
   validation's one role for a field), and nothing deletes its instance. What is left are advances of the same
   cursor under the same rule, fences of the same field, and inserts and upserts that bring the
   instance into being. An advance and an upsert hold the instance themselves; an insert is of an isolated
   transaction (`InsertersAreIsolated`), and a fence too, or of one that has the instance already (`FencesAreHeld`).
2. *One at a time.* What a step acquires is held to the end, and locks that exclude each
   other are never held by two (`LocksAreExclusive`). So at most one execution has a pending write to
   the register, and whoever passes the route does so on the register's present value, even one
   that reads dirty (`RegisterIs`, `ViewAgrees`).
3. *It only grows.* A write to the register is no less than what it overwrites, since a register is 0
   until its instance is there; an abort leaves it where it was.
4. *Past the route.* An execution past the route has left its position there or, with a fence, found it there;
   it holds the instance until it commits, and no other is past the same register (`PastIs`, `OnePast`).
   All that have committed have positions no larger; of a cursor, smaller.

The invariant (`Orders`) is the conjunction of these with the shape of the state. Both halves of `KeepsRoute` are needed.
If an instance may be deleted, it comes back with its cursor at the start, and an older position
is accepted (section 5, `ResetModels`). A fence does not hold the instance
(`holds_protection`, `transaction.rs:258`): passed with a token
equal to the stored one it writes nothing, and between that and its commit another may raise the
field and commit. TLC finds `OrderedAsProven` violated with `Models <- FenceModels`, one
serializable transaction of a fence alone. Its serial order is still that of the tokens, so this is not
counted against the prover: it is the commit order, of which the property speaks, that differs.

### What stays with TLC

- *Liveness* (`SubmissionsAnswered`, `HeadIsAnalysed`, `PinnedWaitEnds`, `ShutsDown`, `RunEnds`) is beyond the
  prover.
- `ProvenIsSerializable` is false of arbitrary specifications (section 5: selectors that test what another
  writes, locks granted after a snapshot), and true of those the run enumerates. A theorem would have to say for which, and to
  find a serial order, in which each execution's replay is a fold over its steps and over those before it: induction
  over data.
- `OrderedAsProven` of routes that are not kept is false (above).
- `ChangesAreExplained` is false of arbitrary specifications too (section 5); what it says of proofs that
  were lost, won or moved is proved. That nothing a mutation falsifies is called held
  (`NoneHeldOnFalsified`) is not.
  `BasisSuffices` may hold of all, and is not proved: withdrawing locks moves the steps, so each
  evidence has to be found again at another place.
- `WorkOnce`, `OneContinuation`, `ResultsAgree`, `NoneStrandedByItsPast`, `JudgedByItsPaths`,
  `CompiledIsSketched`, `NoStaleChange`, and the five of `workspaces` speak of programs, paths and graphs
  that `ReplayRules`, `ProgramRules`, `SketchCompiler`, `SymbolGraph`, `ValueRules`, `ModelRules` and
  `DraftRules` compute with RECURSIVE operators, of which the prover can make nothing.

Induction as a schema over an arbitrary predicate is not at hand: the library's theorems of
that form take an operator as a parameter. Over a *set* of numbers it is: `LeastNumber` and
`EveryNumber` of `Fixpoints` follow from the well-foundedness of the naturals, and carry the proofs about
rounds, cycles and growing sets.

## 5. Where code and words differ

`predicate_update` ends in a trace that shows this one: the conflict index gives an
update, a delete or a read the fields it names and none for those its selector
tests (`transaction_conflicts.rs:580`). Two transactions that each update the rows in
which the other's field is 0 are called serializable, and together commit what no
serial order does. `transaction_serializability.rs:4` says that such an order exists.

The rest was met while modelling. Those of the first list are shown by a property
that the modules define and no run checks; put in place of the properties of the
run named, with the changes given, TLC finds it violated.

| Where | What | Property | Run and changes |
|---|---|---|---|
| `engine.rs:1667` | a task cancelled, failed or concluded while its patch is being judged is put back to Running, or becomes Committed (the end of a task is final by `engine.rs:1087`) | `EndedStaysEnded` | `engine_restart` |
| `engine.rs:1562` | the nonce map is keyed by task and nonce, and a session's token has moved on to its successor when it retries (`mcp.rs:328`) | `NonceOncePerToken` | `engine_sessions`, `Edits <- NoEdits`, `Patches <- MCFreePatches` |
| `store.rs:711` | the files are looked at once, before a commit is judged, and its writes replace unread what an editor has put there since; so do those of a recovery (`store.rs:879`). `PROJECT_STATE.md:61`: "The engine never writes over an edit in progress" | `NeverWritesOverAnEdit` | `store_atomic` |
| `store.rs:723` | the fingerprint that ends a commit is of the files as they are by then, their content is taken to be the commit's, and an edit made in between is never looked at. `PROJECT_STATE.md:57`: edits are adopted "before every commit, and before every MCP tool call" | `EveryEditIsFound` | `store_atomic` |
| `analysis.rs:210` | `enqueue` marks a revision Pending after the worker may have settled it (`analysis.rs:34`) | `TerminalIsFinal` | `analysis_hub` |
| `supervisor.rs:182` | `fail_task` takes a task that has become Committed since the supervisor looked, and its work is done again, which `supervisor.rs:50` keeps for tasks that came to no end | `ReplacedOnlyUnfinished` | `scheduler` |
| `scheduler.rs:746` | the caller of a caller may share a wave with the lowest callee, which is before its own callee's wave; `scheduler.rs:666` says that a caller lands in a later one than a callee it observes | `CallersComeLater` | `scheduler`, `Batches` one of three repairs, of a, b and c, `CallGraphs` one in which c calls b and b calls a |
| `workflow.rs:297` | a discovery that asks and commits nothing ends the run with its ask dispatched to nobody (`workflow.rs:337` calls an ask progress) | `AsksDispatched` | `design_run`, `MaxOutside = 0` |
| `review.rs:266` | a review is derived of one record and written if the record *named* is there, so it can land on one that came back and that its reviewer never read | `ConfirmedByAReader` | `conformance`, `MaxMoves = 0`, `MaxCalls = 4` |
| `mod.rs:4699` | a grouping that maps a schema no longer declared stops `validate` with a panic, and the analysis thread with it (`.expect("references already validated")`; `tests/validation.rs:420` maps a schema that is declared) | `EveryModelIsJudged` | `workspaces` |
| `commit.rs:1802` | a subscription moved to a topic that declares a shared transport keeps its own (the two are compared only when a runtime is written) | `TransportDeclaredOnce` | `workspaces` |
| `workspace.rs:326` | replacing a program drops a transaction requirement that a prompt's obligation was mapped to, and the obligation stays mapped ("silently drop it"); `workflow.rs:1066` looks only for the unmapped | `ObligationsAreKept` | `workspaces` |
| `graph_build.rs:446` | the runtime of an outbox has no node, hence no fingerprint: two tasks overwrite each other's (`engine.rs:1743`) | `OutboxRuntimesToo` | `workspaces` |
| `graph_build.rs:1427` | nothing links an operation to its service, the schemas of its outputs, its transactions' data models and its machines as subjects, nor a transition to the outbox it admits to: what a change of these breaks is not among what the graph calls impacted | `ImpactIsComplete` | `workspaces` |
| `transaction_conflicts.rs:1692` | a cursor whose instance is deleted and inserted anew lets an older position commit after a newer | `OrderedAsProven` | `transactions`, `Models <- ResetModels` |
| `transaction_conflicts.rs:1103` | a lock granted after a snapshot was taken is counted as covering a read, which sees the snapshot | `ProvenIsSerializable` | `predicate_update`, `Models <- SnapshotModels` |

Two edits of a design move what the change analysis says of an obligation and are explained by
nothing, which `diff.rs:18` calls an extraction defect; neither is in the instance of `transactions`, and TLC
finds `ChangesAreExplained` violated with them.

- *The position of an ordering requirement is changed.* The ordered obligation regresses; its
  grounds name the transaction, whose residual is without its requirements
  (`partition.rs:415`). Shown with a mutation that sets a position.
- *A deleter is added outside the closure* (`Baselines` the one specification below). A reader whose
  first guard compares the fields it read, and falls short, and whose second compares the version, is guarded
  against an upsert until some transaction deletes from the object. The gap then
  reported is the first one met (`transaction_conflicts.rs:1425`, `get_or_insert`), the state that does not
  cover, and the deleter is named nowhere: the obligation, unproven before for another
  reader's sake, is blocked on more facts and explained by none. With `MCTransactions` the
  specification is `Spec1(<<RC(<<Rd(d1, FV, "a"), Cas(d1, {Seen("a", f)}, {f}), Cas(d1, ByVersion,
  {f})>>), RC(<<Ups(d1, {f})>>), RC(<<Rd(At("doc", k2), F1, "a")>>), RC(<<Rd(d1, F1, "a"), Rd(d1, F1,
  "b")>>)>>, {})`.

The compiler of sketches does not keep all that is said of it (`sketch.rs:17`, `:50`,
`:2684`, `:3411`, and `tests/sketch.rs:1`, "Operation sketches compile into programs
the checker admits"). Each of these definitions of `MCPrograms` is one sketch; as the only
member of `Sketches`, with `Written` empty, it breaks `NoStaleChange` (`LockedTooLate`) or
`CompiledIsSketched` (the others):

- `FallsThrough`: an arm that uses an answer later is taken to end (`sketch.rs:3596`,
  `sketch.rs:3627`).
- `WritesWhenRejected`: a change in `on_rejected` meets the compiler's own expectation that
  none is there (`sketch.rs:3077`, `sketch.rs:2788`).
- `FoundEarlier`: a field of the result is found by name in an earlier transaction
  (`sketch.rs:2141`), whose reads are not at hand any more.
- `NamedInTwoArms`: one alias in two arms becomes one id used twice. So do nested
  acting calls without a name, and one transition in two places.
- `AnsweredElsewhere`: a group launched in one arm is answered after both.
- `LockedTooLate`: a record read, and found again under a lock, is changed as first
  read.
- `ReturnsTheAnswer`: a sketch of effects alone has its `returns` ignored
  (`sketch.rs:1900`), answers ok from the input in every arm, the error arms
  included, and refuses a `reject` there.

Beside these, of several refusals in one `otherwise` only the first is returned; two
finds of one record that are both changed reject each other; `already_ok` is honoured
only where the simple way is taken.

Others, without a property:

- A token revoked by the end of its task is inserted again by the roll of a commit
  under way (`auth.rs:60`, `auth.rs:64`), a consequence of the first of the table.
- With a session that reads while it submits, a symbol read between the gate's two
  locks of the read set satisfies read-before-reference without having been
  compared with the head (`engine.rs:1753`); `ImplementsSerialDesign` needs
  `Pipelined = FALSE` for that reason.
- A stop between persisting a commit and logging it leaves the task to be found
  Running, hence Invalidated, though its revision is there (`engine.rs:1816`); its
  receipt was never handed out.
- Under `HarmedSpec`: a failure to write `state.json` reports an error for a commit
  that is on disk (`store.rs:717`); a failing roll-back leaves half a commit
  (`store.rs:746`); deleting `local/` starts revisions anew.
- A stop in mid-create leaves a project that opens with a part of its workspace and
  refuses to be created (`store.rs:405`); readers without the lock load the files
  while a commit is being applied (`store.rs:485`).
- `ready` on a revision already coalesced away never returns; every caller bounds it
  with a timeout.
- The plan of a batch reads the state of the analysis once, the bundles of later
  attempts and follow-ups again, so a bundle can be deeper than its wave was planned
  for and be invalidated by a sibling (`scheduler.rs:301`; `PlannedContextHolds`
  leaves exactly this to the gate).
- Callers downstream of a call cycle fall back to submission order too
  (`scheduler.rs:717`); a policy of no attempts at all has no last attempt to
  report (`scheduler.rs:529`).
- An entry of the task log is two writes without a lock; `DependencyRequests`
  decides on a request it read before it took the lock again (`engine.rs:1033`).
- The gate claims not to drift from the whole-model validation (`mod.rs:494`), but
  lists errors of two passes it does not run: results bound to the wrong arm
  (`mod.rs:565`) and an abandon without a message input (`mod.rs:585`).
- The gate and the whole-model validation differ elsewhere too. The gate asks ids to be
  unique within a program, the validation in one namespace; it does not look at
  paths of values, nor that a request's target is a request; outbox messages and grouping schemas
  are not checked when a data model is put; a new interface is not held against
  the program that is there, and a deletion against those that refer to what goes. The
  other way, validation says nothing of an operation without inputs, which
  `skeleton_diagnostics` does (`commit.rs:266`).
- A patch's external references leave out only keys equal to what it writes (`patch.rs:278`), and
  its case for a whole operation is not reached (`engine.rs:1753`). A mapped prompt obligation is changed
  outside footprint and scope of the proposal that maps it. A deletion of an operation has the operation
  alone for a footprint.
- Callers and callees omit requests made by transitions; the declarations of a machine that
  its propagations name have no edges; a key a transition declares that is an output
  established earlier in the same body is said not to be available (`mod.rs:5195`, against `mod.rs:5180`).
  A draft's stage never leaves ReadyForAssembly (`recompute_stage`).
- Undeclared runtime symbols are named among a bundle's inputs "so a task is invalidated when
  one appears" (`engine.rs:2320`), and only keys with a node are recorded (`engine.rs:905`). A
  summary's interface hash is "identical" to the symbol's fingerprint but is taken without the
  sketch (`summary.rs`). A requirement report about one operation observes that operation alone,
  and its verdicts rest on the conflict closure.
- *System One* (`src/system_one/`): after its cool-down the circuit admits every ask, not one
  trial, and a late answer of an earlier ask closes or opens it; a huge `retry_after` panics
  (`Duration::from_secs_f64`); with recording on, shadow answers are never logged; two concurrent asks of one
  missing question both go out and the second answer overwrites; an answer that could not be
  written stays in memory, and two processes on one recording lose what the other wrote.

## 6. Not modelled

Operation summaries, candidate patches, the MCP surface, the
specification's data types, parser, visualisation, report and command line keep
no state and wait for nobody; rendering and prompts are text. Agents and their
processes are external: they may do anything their tools allow.

- *Verification*: retry drivers and guaranteed completion, lineage, widening of a
  proof's scope, the bodies of state-machine transitions, the coinductive flags of
  recursive calls.
- *Validation*: the fields of selectors, the order of locks, checks of redundant presence, the
  wording of errors.
- *Drafts and graph*: the export of a draft and the choices it leaves open, search, fields within an edge.
- *Basis and change analysis*: bases of idempotency, result replay and recoverability;
  declarations that are no transaction, object or requirement of one; explanations
  through relied-on obligations, impact and reliance, the structural delta, the
  realization's changes.
- *Conformance*: checkers of realizations, scan errors, orphans, the last refusal,
  the plan of work and the text of packets.
- *Workflow*: the artifacts and manifest it writes, and the review of an existing
  design (`src/harness/review.rs`).
- *Workspace manager, executors, realization, System One*: not begun, or pure functions of data.

`PROJECT.json` lists every component with its status.

## 7. Plan

Order is importance of the behaviour, and of what a test would not reach.

1. *Done.* Engine, store, hub, scheduler, the workflow's loop, conformance records: their
   runs, and theorems for the safety properties of each.
2. *Done.* The verifier's provers against the histories they speak of; the judgment of
   programs and the compiler of sketches; drafts, the gate and the whole-model validation; bases
   and the difference of two designs. With TLC.
3. *Done.* Theorems about `SpecChange`, which verdicts that moved are explained, for any two
   specifications over the same objects; and about the ordering prover, which orders are kept on any
   database that gives what is declared.
4. Theorems about `Workspaces`, once what its properties rest on is written without recursion.
5. `SystemOne`: retries, the breaker shared by the calls of a process, budget and the
   deterministic fallback.
6. `TaskLog`: appends, partial lines and replay, composed with the engine's
   `logged`, which takes it to be a map.
