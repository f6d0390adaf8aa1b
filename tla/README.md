# Free Studio Flow: a TLA+ development of its coordination

Free Studio Flow turns shot documents into plans and drives video production
through local and remote executors. What is hard to get right in it is not the
media but the *coordination*: durable records of which work was paid for, sent,
produced, accepted or withdrawn, kept in databases, JSON files, journals and
receipts, updated by several processes that may die at any moment, in front of
providers that bill for every submission and whose replies may be lost. This
directory models these records and the processes around them, checks the models
with TLC on small instances, and proves their main results with TLAPS for every
plan, limit and number of processes.

Contents: 1 inventory of the system; 2 modules; 3 runs, bounds, fairness;
4 proofs; 5 hazards; 6 what was found; 7 what is not modelled or not proved.

## 1. Inventory of the system

All paths are below `src/src/fsf/`.

| Component | State it keeps | Operations and interaction | What is hard | What makes it correct |
|---|---|---|---|---|
| **Indexed production store** `production/store.py` | one SQLite database: task rows, attempts with inline charge and outbox columns, repair rounds, money totals, forecast, flags, events, sweeps | `claim`, `mark_sending`, `renew_prepared`, `observe`, `settle`, `forecast`, `accept`, `reject`, `pause`, `revoke`, `invalidate`, `cancel_*`; every one a `BEGIN IMMEDIATE` transaction | any order of calls from several processes; late reports and bills; invalidation of accepted work; running totals | one open request per task; inputs accepted before work; totals equal the charges and stay in the limits |
| **Batch runner, cancel command** `production/store_runner.py` | program counters; the sweep rows in the store | loops over ready and active rows, submits, observes, verifies under `.parent-run`; the cancel command does not take that lock | state read before and used after other processes ran; crashes; lost replies; rows that block a batch | each request sent once; running jobs stay tracked; a confirmed stop is not accepted; a completed sweep is current |
| **Quality gate, publication** `production/segment_quality.py`, `publication.py` | start, result and intent events; published files | evaluates an artifact, stages it, accepts it | a crash between intent, file and transaction; an artifact that is replaced | what is accepted is what was evaluated; evaluations are bounded |
| **JSON workflow, ledger, runner** `production/workflow.py`, `ledger.py`, `runner.py` | two sealed JSON files and a progress file | the older form of the same protocol; each update replaces one file under its own lock | a crash between two files | the same promises as the store |
| **Store migration** `production/store_migration.py` | manifest, receipts, activation, retirement markers | turns quiescent JSON authorities into a store; recovery | a crash at each cutover step | never two active authorities |
| **Resource pool** `production/resource_pool.py` | tickets, claims, resident models, history | enqueue, admit, renew, release, cancel, evict | leases that expire without proof of a stop; partial measurements; fairness | memory is never promised twice; bounded bypassing |
| **Plan executor, handoff, recovery, review gate** `runtime/plan_executor.py`, `handoff.py`, `recovery.py`, `consistency_review.py` | execution journal, workorders, results, recovery state, reviews | runs a DAG, suspends at workorders and reviews, resumes by digests | a crash before the one journal write; stale reviews; late agents | nothing is reused or delivered under changed inputs |
| **Intake and plan compiler** `intake/*`, `runtime/plan.py`, `core/consistency.py` | none (documents in, jobs and plans out) | parse, resolve consistency tags, lay out steps, resolve contexts again before a step | names, default names and references that collide; edges between shots | the plan is ordered, reads what is made, writes apart; a context is true of the job |
| **Segments and v2 dispatch** `remote/segments.py`, `segment_driver.py`, `segment_delivery.py`, `v2_dispatch.py`, `budget.py` | plan records, request ledgers, an allocation | submit, observe, retry, reuse between plans, pause, cancel, recover, assemble | lost or late submissions; two plans over one segment | one job per segment; everything that runs was accounted for |
| **GPU schedule and its worker** `remote/gpu_schedule.py`, `gpu_batch.py`, `v2.py` | a receipt with claims, work folders, a journal, sealed archives | fills devices, settles ends, packs, stores, collects | a killed schedule whose processes live on; re-runs | devices never overcommitted; a collected batch is whole |
| **First dispatch protocol** `remote/dispatch.py`, `transports.py`, `reference.py`, `worker.py` | the parent's ledger, the worker's journal, one sealed result | submit, status, reconcile, collect on local, http, ssh, notebook | lost replies, uploads that arrive late, repeated actions | each command ran once; the accepted result is the sealed one |
| **Hosted models** `remote/model_api.py`, `onboarding.py` | a ledger per request, a gate per connection | run, poll, cancel, reconcile, recheck | a submission in doubt | never posted again; the connection is closed meanwhile |
| **Assembly and conformance** `assembly/fast_assembly.py`, `conformance/media.py` | film, subtitles, receipt | cut, join, mix, title, publish, measure, attest | rules about sound for mixed clips; dying between publication and attestation | an attested film is the planned one |
| **Executors** `executors/subprocess_safety.py`, `runtime/external_op.py` | a process tree; job records | run a guarded command; reuse finished jobs | trees that change while they are stopped; stale records | nothing is left behind; what is reused is what would be made |
| **Sequences, checkpoints, chunks** `production/video_sequence.py`, `sequence_checkpoints.py`, `artifacts.py` | a folder with receipts and frames, exported bundles, chunk stores | generate segment after segment, export, restore, split, carry, assemble | damage between two reads; two commands on a folder; interruption | a film is one chain; an assembled file is one version |
| Edit store, documents, media runtime, quality, speech, delivery, CLI, studio | files | pure functions, native tools, one compare-and-publish | little shared state | covered by unit tests |

How they interact: the batch runner and the operator's commands are separate
processes that share only the database. The runner calls the driver between two
transactions, never inside one; the driver calls the provider. The pool, the
remote ledgers, the segments' allocation and the store are independent
authorities; events and receipts refer from one to the other, no transaction
spans two of them. The plan executor consumes what the compiler produced and
calls executors, which use the guarded processes and the job records; the
assembly and its check are steps of a plan.

## 2. Modules

Modules that model code:

| Module | Models | Used by |
|---|---|---|
| `ProductionStore` | the store: one action per operation; a refused call (an exception, hence a rollback) is a disabled action | `StoreRunner`, `MCProductionStore` |
| `BudgetAuthority` | abstract: charges are reserved at their worst case and billed at most once; commitments are sums, there are no running totals | refined by `ProductionStore` and `JsonProduction` |
| `DependencyOrder` | abstract: tasks are idle, open or done; work starts on done inputs; an acceptance is withdrawn only with everything built on it | refined by `ProductionStore` |
| `Sums` | the sum of a function over a set, by the fold of the community modules | the modules with totals |
| `AcceptanceGate` | quality gate and publication, as operators of one transaction or file replacement each | `StoreRunner` |
| `StoreRunner` | the store with the batch, one cancel command, the operators and the provider | `MCStoreRunner` |
| `JsonProduction` | the two JSON files, the batch, the operators | `StoreMigration` |
| `StoreMigration` | the cutover to a store and its recovery beside a JSON batch | `MCStoreMigration` |
| `ResourcePool` | the pool's state file and history, the clock, the tasks and services on the host | `MCResourcePool`, `MCSpending` |
| `PlanExecutor` | one command over a plan with journal, handoff, reviews, recovery; agents, reviewers and editors beside it | `MCPlanExecutor`, `MCPlans` |
| `PlanCompiler` | intake, compilation and context resolution as operators | `MCPlanExecutor` |
| `RemoteDispatch` | the v2 dispatch on three kinds of transport, its allocation, the provider | `SegmentRun` |
| `SegmentRun` | plans rendered in segments over the dispatch, reuse, pause, cancel, recovery, assembly | `MCSegmentRun` |
| `GpuSchedule` | the ready queue over devices with its claims and processes | `GpuJob` |
| `GpuJob` | the worker's program around the schedule, the sealed archive, the object store, the collecting parent | `MCRemote` |
| `RemoteLane` | the first dispatch protocol: parent, four transports, worker | `MCRemote` |
| `ModelApi` | requests to a hosted model and the gate of their connection | `MCRemote` |
| `MediaAssembly` | a timeline's assembly, its measurement and attestation | `MCMachine` |
| `ProcessGuard` | one guarded call on POSIX and Windows with a tree that changes meanwhile | `MCMachine` |
| `JobResume` | `fsf run` with its checkpoint of job records | `MCMachine` |
| `FrameSequence` | the sequence of segments with its lock, receipts, export and restore over two disks | `MCMachine` |
| `ArtifactChunks` | a file split, carried and assembled in chunks | `MCMachine` |

`MCProductionStore`, `MCStoreRunner`, `MCResourcePool`, `MCStoreMigration`,
`MCSegmentRun` and `MCPlanExecutor` give small plans to one component; `MCSpending`,
`MCMachine`, `MCPlans` and `MCRemote` put components that share no state side by side, a
behaviour being one of them at work, so that one run answers for all of them. The store
is in three of them, each time with another plan. `SumLemmas`, `StoreRunnerProofs` (the
store and its processes), `PlanProofs`, `MachineProofs`, `PoolProofs`, `RemoteProofs`,
`SegmentProofs` and `JsonProofs` hold theorems.

### Conventions

A *digest* is the thing it is the digest of; a content is a number that counts
the contents there have been; 0 is an absent one. An operation that holds a lock
(or a transaction) from its first read to its last write is one step; where the
code writes two files, a process may die between them and the model has both
outcomes. A *process* has a program counter whose values are the points between
two transactions, reads, writes or calls. An operation that raises before it
writes has no step. Actions whose name says so (`TimePasses`, `Damage`, ...) are
the environment; each is bounded by a constant or a field named for it.

### The store

`taskStatus`, `epoch`, `request`, `accepted`, `remaining` are the columns of
table `tasks`. The primary key of a request is a digest of the task and its
epoch, hence unique; in the model the k-th attempt of task `t` is `<<t, k>>`, and
`request[t]` is the number of the latest. `attempt` holds the columns of table
`attempts` that decide anything: status, epoch, lease, invalidation, outbox,
charge, bill, repair round. `used`, `frames`, `costRevision` and `routeUsed` are
the running totals; `forecast` is the recorded forecast.

The guard of an action is the conjunction of the code's checks, in named parts:
`Claim` needs `Claimable`, `RepairAdmits`, `SlotFree` (the unique index
`generation_slot`), `WithinBudget` and `ForecastAdmits`. Evidence contents are not
modelled: `Accept` and `Reject` stand for a report that passes the checks.
`Affected` is the closure that `invalidate` collects with its queue, as the
least closed set. Left out: `bind_driver` and `link_allocation` (no other
operation depends on them), `backup`, `export`, `inspect`, `check` (read only).

### The batch runner and the gate

Between two steps of the batch any other process may run. `Scan` reads the next
row; `BatchClaims` or `ClaimRefused` follows; `Park`, `ComputeForecast`,
`RecordBound` are the ways around a refusal; `Send`, `Submit`, `Lost`,
`LostBill` the outbox and the submission; `ObserveProvider`, `Report`, `Bill`,
`Verify` the answer; with a gate `Assess`, `Evaluate`, `Decide`,
`PublishArtifact`, `AcceptPublished` stand between the answer and the
acceptance; `Tally`, `Capture`, `OpenSweep`, `SweepRow`, `SweepEnds` are the
verification sweep. `BatchStops` is a crash, a deadline or an error outside the
store, anywhere. `captured` says that the execution's revision has not moved
since the batch read it, which is all the sweep compares. The gate's variables
are events and files of the code: a count of started evaluations, the latest
result and the content it is about, the intent, the published content. The
provider is external: a submission may fail before or after it was received; an
observation of an unknown job says "unknown", with the disturbance "silent" any
may; a receipt may come late; a finished artifact may be replaced.

### The JSON production and its migration

`flow` and `book` are the two files, `saved` the progress file, each a record.
The batch's steps are its replacements of one of them and its calls; the money
of a request is in the ledger before it is sent, and the state in the workflow
after. The sweep looks at the stamp of one checked file per step (`Restamp`), before
it goes on and once more at its end; `run.asof` is a history of what was accepted and
replaced when the digest of the workflow was compared last. `Cases` pick the plan and
what may happen beside it. `StoreMigration`
adds the manifest's declaration, the locks, the targets with their receipts and
activation, and the retirement markers, which forbid each later write of a file.

### The resource pool

`pool` is the state file: tickets with their order and bypasses, claims,
resident services, two counters. `history` is the directory of history records.
`release` and `cancel_queued` write the history record first; with `saved`
FALSE the process dies before the state file. `Expired` is what every operation
but `enqueue` computes first. `Verdict` is one round of the loop over the
devices in `_fit`; `Contenders` and `Fair` are the fairness rule of `admit`. The
host is external: a granted task may start late, or never; it loads its model
service, which survives it; either may stop at any time, whatever its lease
says. `Inventories` are the true observations: any subset of the devices, with
the memory used by admitted work attributed or not. `Foreign`, the memory other
processes hold, is constant: the pool cannot answer for memory that is taken
after it looked.

### The plan executor and the compiler

`exec` is the command in memory with the step it is at; `journal`, `orders`, `answers`,
`reviews`, `recovery` are the files; `disk` and `origin` say which content each artifact
has and what it was made from. An entry of the journal records digests of inputs and
outputs as functions from files to contents. Every reason of the loop to block, fail,
reuse or execute a step is a disjunct, in the order of the code. A gate and the reading
of what it passed are separate steps (`AssemblyGate`, one `ReadClip` per shot,
`Assemble` or `EncodeFails`; for an output that may be reused, the digest and
`GatePasses`, then `Reuse`), and others may write between any two. One gate and one
digest are a step each, although they read several files: a content that is gone never
comes back, so what is read of one shot in turn (its review, then its file) might have
been read at once, and an outdated content in a digest matches nothing any more.
Verdicts of several shots that change while one gate reads them are not interleaved; the
property is about each shot by itself. The write of an output and its record in memory
are one step too. `exec.overtaken` is a history: the shots whose artifact or review
somebody else changed after the gate. An encoder that fails leaves no output here; what
it writes is `MediaAssembly`'s. `Modes` pick the steps and options (workorders, resume,
a run id, a recovery policy) and how often the command dies and files are edited.

`PlanCompiler` has no variables: intake turns blocks into a job with resolved contexts
or refuses (`Intake`, `IntakeRefused`); `PlanRefused` and `Compiled` are the checks and
the step layout of `plan.py`; `ContextFails` and `EffectivePrompt` are the resolution of
a context before a step runs. Its properties are assumptions of `MCPlanExecutor` that
TLC evaluates over all small documents, changed jobs, options and file contents: intake
and the compiler agree (`IntakeAssumption`), a change that would make a context untrue
is refused (`ChangeAssumption`), a plan is ordered, reads only what an earlier step
makes, has one writer per file and continues from final artifacts
(`PlanSoundAssumption`), and images given to a step are the declared ones
(`ImageAssumption`).

### Remote work

`RemoteDispatch` abstracts transports by what they can tell: "plain" never finds
a lost submission but reads a status by the request's name; "native" finds it;
"saved" is one notebook for all requests. A call holds `.v2-submit` and is one
step that may be cut short between two writes. `SegmentRun` runs one process per
plan over it (`RunStep`), with the plan's record, retries, reuse of another
plan's segment, and the operators' commands. `GpuSchedule` keeps the receipt, the
work folders and the processes apart: the receipt is what a re-run believes, the
processes what is true. `GpuJob` wraps it in the worker's journal, archive and
object store. `RemoteLane` has the parent's ledger (`intent`), the worker's
journal and sealed result, and a program counter on either side. `ModelApi` has a
ledger per request (absent, torn or kept), the connection's gate and a caller
per request.

### What one machine does

`MediaAssembly` follows a timeline from its segments to the attested film; the
contract is decided by the planner before any of it exists; each shot has sound of its
own or not, and a dub or not. `ProcessGuard` is one
call of `run_safe_subprocess` over a tree that spawns, ends, orphans and leaves
its group while it is stopped. `JobResume` is several runs over one folder
without a lock; a record says which executor made which file for which prompt.
`FrameSequence` names the frames of a segment by how manieth the generator made,
0 for damaged ones; a receipt is the pair of a segment's frames and those it
continues. `ArtifactChunks` has versions of a file, and chunks named by digest.

## 3. What the runs check

| Run | Instance | Properties |
|---|---|---|
| `runner_cancel` | two tasks, one of them a generation, past the forecast threshold; batch and cancel command die anywhere; silent provider, pauses, time | `SubmittedOnce`, `ConfirmedStaysCancelled`, `ForecastIsBound` |
| `runner_batch` | two segments of one shot with a quality gate; a batch that dies once, an invalidation, a replaced artifact; fair | `UsesStore`, `SweepIsCurrent`, `ProducedIsJudged`, `PublishedIsJudged`, `RunningIsTracked` |
| `runner_forecast_race` | as `runner_cancel` beside one invalidation | `ForecastIsBound` is **violated** (section 6) |
| `pool` (`MCSpending`) | a store with two tasks on two routes near the threshold, partial and late bills, expiry; four requests on two GPUs | `LedgerBalanced`, `Solvent`, `ImplementsBudget`, `ReservationsFit`, `TasksAreReserved`, `LapsedDeviceStaysClosed`, `OvertakingIsCounted` |
| `machine` (`MCMachine`) | a store with two interchangeable segments of one shot, 3 attempts, 2 rounds, an invalidation each, leases; films; process trees; job records; sequences; chunks | `TypeOK`, `RowsFollowRequests`, `LiveInCurrentRound`, `FilmIsAsPlanned`, `StoppedTreeIsGone`, `ReusedIsCurrent`, `FilmIsOneChain`, `AssembledIsOneVersion` |
| `media_require` | the instance of `machine` | `RequireFailsClosed` is **violated** (section 6) |
| `plan` (`MCPlans`) | five small plans in eight ways to run the command, compiler assumptions; a store with a chain of three tasks, pause, hold, revocation; fair | `CompletedIsCurrent`, `AskedOnce`, `DeliveredIsReviewed`, `RejectedIsReordered`, `InputsInStep`, `ImplementsOrder` |
| `plan_gate` | the plans of `plan` | `AssembledAsApproved` is **violated** (section 6) |
| `plan_replay` | two unrelated shots under a recovery policy | `NoBlindReplay` is **violated** (section 6) |
| `json` (`MCStoreMigration`) | five cases of a batch, with operators or a migration beside it | `RequestsInStep`, `LedgerImplementsBudget`, `SweptIsAccepted`, `OneAuthority` |
| `remote` (`MCRemote`) | segment plans on every transport; three GPU batches; bundles on four transports; profiles of a hosted model; fair | `OneLiveJob`, `SpendIsRecorded`, `LaunchedIsSettled`, `DevicesNotOvercommitted`, `CollectedIsWhole`, `AcceptedRanOnce`, `DoubtIsKept` |
| `segments_pause` | one plan that is paused while its job runs; fair | `InflightIsCheckpointed` is **violated** (section 6) |

What they show, property by property, is in the comment above each property and
in `PROJECT.json` under `runs`. Together the passing runs fire every action.

**Bounds and why they are enough.** Two tasks are enough for every interaction
within a shot (a claim looks at one other open attempt) and for one edge of the
dependency graph; the chain of three distinguishes the downstream closure from
the direct dependents. Two repair rounds show opening, waiting for and running
out of rounds; `machine` has the code's three attempts. One invalidation per
task lets a task be accepted, withdrawn and claimed again. The chain's budget pays
for three attempts: all three tasks are accepted and withdrawn, or a change upstream
makes one start again. In `pool` the budget of 5 with a reserve of 1 makes the threshold of 80 per cent, the budget, one route's
limit and the frame limit reachable in one run. `MaxEvaluations` is 1 in
`runner_batch` (the code has 3): a crash leaves one started evaluation without a
result, and the next exhausts the limit; the theorem has every limit.
`Explored` and `Disturbances` select optional steps so that each run asks its own
question; between the runs every one of them occurs.

In the pool, two requests share a service, one is exclusive, one names the same
service with another model and fills its device: a ticket, one that passes it,
and one that must not. The devices differ in memory, slots and foreign use.
`MaxNow` and `MaxLease` are 1: what was admitted at 0 lapses at 1, renewed or not,
and what is admitted at 1 stays. A renewal that outlives the first lease needs a longer
clock, with which the run does not end in time; the theorems have every clock. A film
has two shots, the least for which a rule about the whole and one about a segment can
differ: under each of the three rules, with and without music, each shot has sound of
its own or not and a dub or not.
Trees of three processes have a leader, a child and a grandchild or two
children. Two disks, two sequence commands, two segments, two chunks and two
versions are the least that can be mixed up.

A plan has one shot with its check and an assembly, a shot that continues from it, and
unrelated ones; two attempts separate the current from the outdated; the command is run
any number of times, dies once in most cases, and draws at most two run ids of its own
(`MaxRuns`). The JSON cases have what the store runs have, one at a time, since the two
files multiply states; a chain of two tasks has its files replaced while the sweep goes
over them. On the remote side each case has one or two segments, attempts and faults;
three jobs and two devices give a dependency, a job on two devices, a failing job, and
sharing by memory. Each bound is a constant in its `.cfg` or a field of its case.

**Symmetry** is used in `machine` and `media_require` for the two equal segments of the
store and the disks and commands of a sequence, and for the two migration targets of
`json`; none of these runs checks a liveness property.

**Deadlock** is not checked where the system may really stop: in `pool` every request
for a GPU comes to its end and the clock stops; in `machine` and `media_require` films
are done; in `plan`, `plan_gate` and `plan_replay` the bounded command has ended; in
`json` a finished plan stops, and a cutover that died between its two retirements while
the batch settled a charge is refused by recovery for ever; in `remote` all jobs end. It
is checked in all other runs.

**Fairness.** `FairRunnerSpec`: `WF(BatchStep)`, a timer or a person runs the batch
again and again and a running process makes progress, and `WF` of the provider's steps,
a job ends. Nothing is assumed of the cancel command or the operators.
`ProducedIsJudged` is conditional on `Blocked`: a batch returns at the first active row
that is unknown (`store_runner.py:185`) and raises at the first ready row that cannot be
claimed (138), so such a row stops the work behind it until an operator acts. A
technical verdict "unknown" (207) ends the batch as well; it is modelled with the silent
provider only, which this run leaves out. The property says that nothing else does,
crashes, invalidations and replaced artifacts included. `FairPlansSpec`: `WF(Command)`,
the plan's command is run again and again and a running one moves on; nothing is assumed
of agents and reviewers. `FairSegmentSpec` and `FairRemoteSpec`: each plan is run again
and again, and the provider ends its jobs. No fairness is assumed of crashes, operators,
lost replies or the clock. Crashes are bounded in these runs; unbounded ones would
defeat any progress.

## 4. What is proved

All theorems hold for every value of the constants that satisfies the named assumptions
of the module they are about (`PlanAssumption`, `StepsAssumption`,
`AuthorizationAssumption`, `RunnerAssumption`, `GateAssumption`, `PoolAssumption`,
`JobsAssumption`, `ChunkAssumption`, `ResumeAssumption`, `SequenceAssumption`,
`SegmentAssumption`, `MediaAssumption`, `JsonPlanAssumption`). These are ranges of
numbers, finiteness of the sets that are summed over, and facts the documents' schemas
enforce (a dependency and a shot stay within one execution, a tenth of the budget is
reserved for cleanup); acyclicity of dependencies is not needed. `SegmentAssumption`
says how requests are named: every attempt at a plan's segment is a request of its own,
two requests of a plan are for the same work exactly if they are for the same segment,
and a claim in the allocation is one attempt at one work (`budget.py` builds it from the
two). Two plans may share works. `MediaAssumption` says that a timeline has a shot and
one of three rules about sound; the assembly refuses others. `StepsAssumption` of
`PlanExecutor` has from the compiler that steps are numbered and that a check is of one
artifact and waits for the step that makes it (`plan.py:385, 573`). `RemoteLane`,
`ModelApi` and `GpuJob` take their case (transport, profile, batch) as a variable fixed
at the start, of which `LaneSpec`, `ApiSpec` and `GpuSpec` assume the type.

Each invariant theorem follows the same lines: the initial states satisfy a
strengthened invariant, every action preserves it (one step per action, and under
it one per conjunct it can disturb), and a temporal step combines the two.

**The store** (`StoreRunnerProofs`).
`TypeCorrect`: what is not a matter of shape is that no total, and no counter of
open parents, becomes negative, and that a claimed round is within its limit.
`RowsCorrect`, `RowsFollow`: `AcceptedIsCurrent` alone is not inductive, since an
observation of an old request would break it. `RowInv` adds that attempts are
numbered without gaps and earlier ones are closed (`AttemptsInOrder`), that the
row's status and epoch are those of its latest attempt (`LatestInStep`), and that
an unsent intent is open (`PreparedIsOpen`), which `MarkSending` needs.
`InputsKept`: the exact counter and the accepted inputs, beside `RowInv`; `Accept`
rests on "one more accepted parent for exactly the dependents", `Invalidate` on
`AffectedClosed`, that the collected set is closed. `RoundsCorrect`: only a claim
could open a round beside an open sibling, and `RepairAdmits` refuses it.
`SolventAlways`: a claim is guarded, a bill only lowers the totals.
`OrderImplemented`: with a task "done" while it is accepted, "open" while its
latest request is, else "idle", each action is a step of `DependencyOrder` or a
stutter.

**Sums** (`SumLemmas`). The fold of the community modules takes its elements in the
order CHOOSE picks, so nothing about it is a matter of rewriting. `SumTake` says
that a sum is any one of its elements plus the sum of the rest. It is proved by
induction over the subsets of the set: the theorem of the library that would give
it directly has an operator parameter, so the lemmas use `WFMin`, which has
none, on the set of sizes of counterexamples. `SumChangesAt`, `SumOfPart` and
the others follow from it.

**Money** (`StoreRunnerProofs`). `LedgerCorrect`: `LedgerBalanced` is inductive with
`TypeOK` and `RowInv`: a claim adds a new element to the funded set, a bill changes
the value of one, and a request that is claimed was not funded before because
attempts are numbered in order. `BudgetImplemented`: the store implements
`BudgetAuthority`; the running totals it checks its limits against are, by
`LedgerBalanced`, the sums the abstract budget speaks of.

**The batch and its neighbours** (`StoreRunnerProofs`).
`RunnerTyped` and `ProcessesUseStore` rest on `RunInv`, which adds to the store's
invariants what the batch knows at each program counter (`WorkInv`) and that a row
under way shows its request's status (`RowShows`). Every step of every process,
the batch's own UPDATEs of rows included, is then a step of the store or leaves it
alone, and all theorems about the store hold of the processes.
`SentOnce`, `ConfirmedStays`, `RunningTracked` rest on `JobInv`: what was sent has
left the outbox, a job that ended never runs again, each verdict rests on such
an end, and what the batch and the cancel command carry between two steps is
still true of the job. `PublishedJudged` (`GateInv`): until its verdict is in,
what the batch works on is not accepted. `SweptIsCurrent` (`SweepInv`): while the
execution's revision has not moved, the rows before the sweep's position are
accepted as they were seen. `ForecastBounds` (`BoundInv`): without an
invalidation no step of another process adds to what may still be claimed between
the reading and the recording of the forecast, and a claim takes its own worst
case out of it. The hypothesis cannot be dropped: `runner_forecast_race` shows
the counterexample.

**One machine** (`MachineProofs`). `AssembledWhole` (`ChunksInv`): a manifest is only
ever written for a version that was whole, and only carried and joined from there.
`ReusedCurrent` (`ResumeInv`): every record, also those of runs in progress, is an own
record: its file and bytes are those its executor makes of the job it names; what is on
disk is compared with it before it is reused. `FilmIsChained` (`SequenceInv`): damage
only ever turns frames into 0, so frames that are not damaged are those of their
receipt; only one command per folder is past the lock; its chain follows the receipts;
the draft it encoded is compared with the frames once more before it replaces the film.
`FilmIsPlanned` (`MediaInv`): at every stage the film consists of the plan's shots, each
fitted as the assembly decides (`IsCut`), and is heard through its first segment or the
music; a receipt that says so names a film that was measured whole. The planner's and
the assembly's rules about sound then agree by cases (`CutSounds`). Shots that lack a
sound their policy requires are left out: for them the claim is false (`media_require`).
What frozen runs below the reported half second amount to is part of the argument
(`ConformingIsWhole`): with another tolerance it would fail.

**The pool** (`PoolProofs`). `TasksKeepTheirPlace`, `PromisesFit` (`PoolInv`): steps
other than a grant only narrow the state file (`Narrows`: what is claimed and
resident afterwards was so before), and sums over fewer promises are not larger; a
grant adds exactly `Required`, which `HasRoom` shows to be free even if none of
what was promised before is in use yet. A renewal, an expiry and an interrupted
release keep the task's place. `LapsedStaysClosed` and `OvertakingCounted` are
action properties from the same invariant.

**Remote work** (`RemoteProofs`). `LaneRunsOnce` (`LaneInv`): an entry
of the worker's journal is written before its command starts and never taken
back; a sealed worker never works again, so there is one archive. `DoubtStaysKept`
(`ApiInv`): a request that was posted is never prepared again, one run at a time
holds the connection, and a run that leaves a request in doubt leaves the
connection paused. `DevicesFit` (`ScheduleInv`): a live process is exactly what
its claim in the receipt says, claims are made into new folders only, and the
promises of the receipt fit, with a dead schedule's processes still claimed.
`CollectedStaysWhole` (`GpuInv`): an archive, wherever it is, calls accepted only
what an attempt that passed produced, and what has passed stays so.

**Segments** (`SegmentProofs`). `SegmentsLiveOnce` and `SegmentsAreCharged` rest on
`SegmentInv`. Of the dispatch it says (`DispatchInv`) that a request the ledger
calls unsent has no job, that an end the ledger names is the job's own, that a job
has its request in the allocation, that no claim is there twice and that the
deadlines there fit. Of the plans it says (`AttemptsHold`, `VisitHolds`) that what is in
the allocation was made by a plan, that a plan makes its attempts one after the
other, each after the job of the one before has stopped, and that a run between
its intent and its acceptance works on the last attempt of an incomplete segment.
Two live jobs of one work then belong to one plan: the first attempt of either was
sent, both make the same claim, and a claim is in the allocation once. The
allocation alone would not do: later attempts make claims of their own. Every
operation of the dispatch is shown to keep `DispatchInv` and never to revive a
stopped job (`Spares`), whoever calls it; the steps of a run then change one
segment of one plan (`GroupChanges`). The charges grow only with an attempt, by no
more than the rest of the plan (`SpentBounded`, from `SumChangesAt`).

**The JSON pair and its cutover** (`JsonProofs`). The two files are replaced one after
the other, so no property of theirs is inductive alone: every point at which only one of
the two is new needs a fact of its own. `JsonInv` is the conjunction of them.
`TaskHolds`: an open task is of the plan and in its current epoch, and what may still be
claimed of it has an epoch left. `LedgerHolds`: money is held for claimed requests only,
and a reserved request was not sent. `RunHolds`: what the batch read still holds where
it acts on it; a shot whose round it ends has nothing open, the request at hand is the
latest of its task, one about to be sent was never sent, and a bill is one the provider
may write. `SweepHolds`: a verification that is not stale goes over a plan of which
everything is accepted, and a file that was looked at since the last comparison of the
digest had not been replaced before that comparison (`Confirmed`). From it follow
`FilesInStep` and `SweptIsAcceptedAlways`, which is about the instant of that
comparison: every file is looked at once more after it, so one that was replaced before
is found, whichever batch checked it. The property leaves open, as the code does
(`runner.py:232`), an operator's change and a replaced file after it. `LedgerIsBudget`:
the ledger implements `BudgetAuthority`, with the sums of `SumLemmas`.
`NeverTwoAuthorities` rests on `CutoverInv`: a store that is sealed is the one the
registry names, and what it imported is quiescent; a receipt is published for sealed
stores only; once a store is active both files are retired and as they were imported
(`TargetHolds`). That needs what the command knows between its steps (`CommandHolds`):
under the locks the files are what it declared, and its target is where it believes it
to be, also after a crash when recovery takes the command up. `WritersStop` is the lemma
between the two parts: every writer takes the lock and looks for the marker. Both
invariants were checked by TLC on the plans of `json` first.

**The plan executor** (`PlanProofs`). `CompletedIsCurrent` compares three things that
nothing updates together: the files, what each content was made from, and the
inputs some record names. `PlanInv` relates them. `Vouches`: what the journal, an
entry in memory, a workorder or an agent's report says of a content names the contents
it was made from, except where it names one that is past, that is, replaced or
removed and never on disk again. So inputs that are on disk now are the true ones,
and this is exactly what reuse and ingestion compare; it survives every crash
because it is a statement about records, whoever wrote them and when. `DoneStands`:
unless somebody else wrote a file, what is done in this pass is on disk and made from
what is on disk. A later write could break it only for a step that was visited
before one of its inputs; `PlaceHolds` says that what is done was visited and
that everything it covers is done, for which the order must not name a step twice
(`OrderIsDistinct`, an induction over the queue). `DeliveredIsReviewed` rests on
`GatedHolds`: from the gate to the delivery, a shot that nobody else touched is on disk
as its review approved it, and went so into the digest of the inputs or was read so.
For a reused output `Vouches` leads from that digest to what the output was made from.
Without the exception of touched shots the claim is false (`plan_gate`). An output made
from what was touched is not reused: `ReelHolds` says that its entry in the journal names
what was read or what is past. `AskedOnce` has two parts.
`OneOpenOrder` needs that a failed entry of the journal with an attempt was
answered by the agent (`FailuresAnswered`) and that a run keeps its id (`RunHolds`): only
then does the number move. `AttemptSubmittedOnce` needs that attempts beyond the counter
were never sent, and that the one about to be sent was counted just now
(`SentHolds`). `PlanInv` was checked by TLC first. The recursive functions of the model
(`TopoOrder`, `InListOrder`) are unfolded by induction over numbers (`IterationExists`),
which the prover can do for functions, not for operators.

**Only model-checked.**
- Liveness: `ProducedIsJudged`, `RejectedIsReordered`, `LaunchedIsSettled`, and the
  violated `InflightIsCheckpointed`; the prover has neither fairness nor ENABLED.
- `StoppedTreeIsGone`: `ProcessGuard` has RECURSIVE operators for the descendants
  of a process, and the prover has no induction over them.
- The assumptions about `PlanCompiler`: they are about recursive computations over
  documents, of which every small one is evaluated.

## 5. Hazards

`PROJECT.json` lists what can go wrong in this code at the line where it bites,
with the properties that would catch it.

## 6. What was found

1. **A forecast that is not a bound** (`runner_forecast_race`). `run_store_batch`
   computes the forecast with `remaining_forecast()` and records it in a later
   transaction (`store_runner.py:140-141`); `store-invalidate` does not take
   `.parent-run`. An invalidation in between reopens accepted work, and the
   outdated number is recorded as current, so "an explicit bound on all unaccepted
   attempts" (139) is not one. Essential work is then admitted on a wrong
   estimate; the hard limits hold regardless (`SolventAlways`).
2. **A waiting attempt is recorded as failed and replayed** (`plan_replay`). While
   the recovery controller is paused for one shot, `Recovery.before`
   (`recovery.py:93`) refuses every producer, also one that waits at its provider;
   the refusal overwrites its record with "failed", and `--resume-paused` submits
   its next attempt. `docs/FSF_LIVE_VERIFY.md:273-276` says that rerunning collects
   the same attempt and that unknown submissions are not replayed.
3. **A paused plan does not checkpoint** (`segments_pause`). `run` returns at
   `pause.request` (`segments.py:119`) before it observes an attempt that is already
   submitted; `docs/REMOTE_DATA_PLANE.md:282` says that a pause "allows in-flight work
   to finish and checkpoint".
4. **A gate that does not hold what it passes** (`plan_gate`). The assembly gate reads
   reviews and digests (`plan_executor.py:1850-1867`), the encoder opens the files later
   (1976-2000); a shot that is replaced in between is assembled unapproved.
   `README.md:388-389` of the repository says that the gate blocks "if the file has been
   modified or replaced between approval and assembly". The assembled output is not
   reused later, since its recorded inputs are older.
5. **"require" does not fail closed** (`media_require`). The docstring of
   `prepare_segment_video` (`fast_assembly.py:87`) says of the policy "require" that it
   "fails closed if segment and audio_path are both missing audio"; the code (137-147)
   adds a silent track, and the film is published.

Behaviour worth knowing, which no document promises to be otherwise:

- *Store*: a row that cannot be claimed, or a request the provider never received,
  stops every batch; `mark_sending` does not look at an intended cancellation.
- *Migration*: a batch that settles a charge after a cutover died between its two
  retirements makes recovery refuse for ever.
- *Segments*: an attempt whose intent was saved and never dispatched is only
  observed by later runs (`v2_dispatch.py:140` turns it into unknown).
- *First protocol*: `status` on a "prepared" local or ssh ledger turns it into
  "queued", which nothing submits; an action after the deadline makes even a
  verified dispatch "expired"; a torn directory makes every command raise.
- *Hosted models*: a submission in doubt that is cancelled and then polled without
  a job id ends as "failed".
- *GPU*: a crash between the work folder and the claim makes the next run raise
  `FileExistsError` there, for good; the close re-reads its marks.
- *Executors*: the normal end of a POSIX call leaves members of the group that
  have closed their pipes; records of kind "process" are never reusable.
- *Chunks*: a death between `os.replace` and `checkpoint.unlink`, after which the
  target is removed, leaves `CHECKPOINT_LOST` for ever.
- *Sequences*: `run_sequence` creates its folder before it has the lock, and the
  rename of a restore may replace that empty folder.
- *Compiler*: `plan.py:350` asks for a check after "studio.video.vfx", which no skill
  is called, so vfx is never checked; with `--post-sources` and remaster both checks
  of a shot write one report file (386), so a resume finds the first one changed and
  executes check and remaster again; with another executor tool than
  `studio.video.generate` no check of a shot is compiled; references to assets
  make no dependency on the asset's own steps.

## 7. What is not modelled, and what is left

Not modelled: documents, control sources, quality metrics, speech, delivery, media
rendering, schemas and the CLI are sequential code over data or calls of native
tools, whose outcome is nondeterministic in the models anyway. Signed transfers,
contents of archives, provider adapters of single vendors and the measurement of
memory and media are inputs. `remote_driver.py` and `remote_handoff.py` translate
between two ends that are modelled. `PROJECT.json` says of each component what part
of it is modelled. An unforeseen exception inside a step (`plan_executor.py:944-968`) is
not modelled: for a handoff step it records the failure under the highest attempt on disk,
answered or not, so that the next run orders another one, which `AskedOnce` leaves out.
The edit store compares the base of a revision and publishes it in one critical section.

Left: every safety invariant and action property that the passing runs check is proved but
`StoppedTreeIsGone`; it would need `ProcessGuard` without its RECURSIVE operators.
