# Formal verification of the MITIGATE AI platform

TLA+ specifications of the parts of the platform that decide what happens to a
request, a mission and its result, and of the stores and services around them.
TLC checks each specification on small instances; TLAPS proves, for every size,
the promises of the queue, of its cycle search, of the workers, of the execution of
missions, of the record of decisions, and of twenty-two services around them.

All paths below are relative to the repository (`agent/...`); modules of this
directory are named in `code`. `PROJECT.json` has, for each definition that
models code, the lines it stands for; for each property of a run, a mutant: a
plausible bug in one of those definitions under which TLC finds the property
violated; and the list of hazards the properties are for. The mutated forms stand
just before the definition they replace, and nothing else uses them.

## 1. The system

The platform takes natural-language requests, plans them into *missions*, queues
the missions, has a background worker execute them in disposable Git worktrees
through external coding agents, and merges the result into `main`, either
automatically when a review finds it harmless or after a human decision.

    clients --HTTP--> runtime API --> request flow: gate, limiter, planner, builder
                          |                            |
              start/stop  v                            v
                   runtime service          request queue adapter --> mission queue
                   and containers                      |                ^     |
                                              definition files          |     v claim
    operators (admin API): cancel, resume -------------------------------  worker(s)
                                                                              |
    reviewers: approve, reject --> manual review decisions <--- blocked --- controller
                                       |                                      |
                                       v                                      v
                         canonical checkout: main <-----merge----- runtime router,
                                       |  push/pull                worktrees, branches
                                       v                                      |
                         origin/main <-- deployment, other people             v
                                                          outcomes, reports, checkpoints,
                                                          usage ledger, budgets

Beside this path stand services with state of their own: the technology registry,
the project registry and memory, site operations, the supervisor of autonomous
development, the chat gateway, the mission runner with its repairs, the patch
engine, and the autonomous controller.

What is hard in all of them is the same: several threads and processes share
files; some of these are locked and some are not; many operations are a sequence
of writes any of which may fail or be the last before the process dies; and what
was read is acted on minutes later.

### Components, their state, and what makes them correct

| component | state | hard because | correct if |
|---|---|---|---|
| Mission queue (`runtime/mission_queue.py`, `autonomous_mission_queue.py`) | one JSON file: id -> record, `next_seq` | any process may call anything in any order; dependencies may name missions not yet queued; limits of any sign | a started mission's dependencies stay completed; the graph stays acyclic; attempts are counted exactly; completion is final |
| Background worker (`runtime/background_worker.py`) | a process: place in `run()`, the claimed record, flags | crashes between any two writes; a second worker; operators; exceptions nobody catches | nothing runs unattended; executions are accounted for; records never ahead of the queue; missions are settled and workers leave |
| Checkpoints, reports (`runtime/checkpoint_store.py`, `execution/execution_report_writer.py`, `runtime/production_execution_reporter.py`) | files written aside and renamed | readers take no lock; temporary files look like reports; executions are numbered again after a recovery | an answer is as recent as what was in place when it was asked for |
| Outcomes (`execution/execution_outcome_coordinator.py`) | executions in flight and done, in memory | an outcome is delivered again, by another thread or after an exception | an execution is processed once and its report never replaced |
| Request queue adapter (`runtime/production_request_queue_adapter.py`) | definition files next to the queue | two stores, no transaction; a worker that claims in the middle | a batch is queued as a whole with its definitions, or leaves only what was claimed, is needed by others, or could not be removed |
| Request flow (`orchestrator/*`, `runtime/production_*`) | ids seen, in memory; the limiter's window; the definitions | threads of the API look and then add; the API process dies | a request becomes one mission, and an accepted one can be followed for ever |
| Runtime service (`runtime/runtime_service.py`) | a container and flags | components start and stop outside the lock | the status is true of the components, none runs on in an old container |
| Runtime API (`api/runtime_private_api.py`, `runtime/production_runtime_api.py`) | a server, its thread, threads per request | stops and starts overlap requests and each other | a client is told what became of its call |
| Mission execution (`execution/runtime_router.py`, `workspace_manager.py`, `runtime_branch_publisher.py`, the mission controllers) | worktrees, branches, the checkout, failure evidence | failover after half a publication; pushes lost to others; resets over others' work | only what was vetted is published, a human is only asked what a review referred, leftovers are accounted for, missions settle |
| Manual review decisions (`runtime/manual_review_approval.py`, `maintenance/reconcile_manual_review_approvals.py`), deployment of main | decision records, history, checkout, origin, queue | four stores written one after the other, no lock between decisions | completed means published; settled means audited; a reviewer who insists succeeds |
| Provider limits (`providers/provider_rate_limiter.py`, `.._budget_config_store.py`, `.._budget_limit_evaluator.py`, `.._model_registry.py`, `.._usage_ledger.py`) | a window, configurations, models, usage | one lock object for all threads, reads without a lock, check and record far apart | no window overcommitted, no update lost, no budget overspent unexplained, nothing disabled is used, usage recorded once |
| Capability kernel (`resilience/capability_kernel.py`) | health of providers | calls that overlap an isolation | a broken provider stays isolated; native ones go first |
| Mission runner and repair (`ai/mission_runner.py`, `repair/*`) | one checkout | a killed or half-repaired run leaves files behind, some of which git ignores | what is pushed is what was validated |
| Supervisor (`autonomy/autonomous_development_supervisor.py`) | a run, its missions and approvals | decisions race the pipeline | what is merged was validated, and approved where it had to be |
| Site operations (`operations/site_operations_manager.py`) | registrations, tasks | two locks; a dispatch whose answer is lost; a project registered anew during a cycle | of one registration a task is submitted once, and never after its rejection |
| Technology watch (`technology/*`, `resilience/replacement_mission_bridge.py`, `runtime/assimilation_lifecycle_hook.py`) | a file every process rewrites from its memory | lost updates between processes | what was replaced had every known capability merged |
| Project registry, project memory (`projects/project_registry.py`, `memory/project_memory_manager.py`) | a file; records and handoffs | lost updates; handoffs made in steps, of lists that are filtered and cut | what a caller was told is kept by processes that take turns; a handoff shows what it should of what was recorded before it |
| Chat gateway (`api/ai_chat_gateway.py`) | conversations, images, contents shared by hash | nothing is locked; saves fail | an attached image can be read |
| Application container (`app/application.py`) | services in the order they were built | services that are brought, shared or refuse; `close()` without a lock | teardown in an order the dependents survive; nothing is left open, nor closed again by a later call |
| Patch engine (`git/patch_engine.py`) | files and copies of them | a failure in the middle; an editor; files that are not UTF-8 | a patch is applied as a whole or not at all |
| Autonomous controller (`ai/autonomous_controller.py`) | a mission's context over attempts | a second attempt starts on what the first left | what is committed was approved by the review, in that attempt and as committed |

Components that are left out are listed with their reasons in section 7, and with
their sources in `PROJECT.json`.

## 2. The modules

`MissionQueue` is at the same time the model of the queue and the abstract
specification the others are measured against.

| module | composes |
|---|---|
| `BackgroundWorker`, `RequestQueueAdapter`, `MissionExecution`, `ManualReviewApproval` | `MissionQueue`, as instance `Q` |
| `RequestFlow` | `RequestQueueAdapter`, and through it `MissionQueue` |
| `DependencyDfs` | compares its verdict with `MissionQueue!NoCycles` |
| `MissionQueueProofs`, `BackgroundWorkerProofs`, `MissionExecutionProofs`, `ManualReviewApprovalProofs` | extend the module they are named for |
| `PlatformProofs`, `PlatformServicesProofs` | extend `MCPlatform` |
| `RequestIntakeProofs` (cycle search, adapter, flow, budgets), `RequestServicesProofs` (the rest) | extend `MCRequestServices` |
| `MCPlatform`, `MCRequestServices` | choose a component and run it, see section 3 |
| `MCBackgroundWorker`, `MCRequestQueueAdapter`, `MCMissionExecution`, `MCManualReviewApproval`, `MCDevelopmentSupervisor`, `MCSiteOperations` | extend the module they are named for |

The other modules stand alone. In all of them one action is a stretch of code
between two accesses to state that others may use: a file, a field of a shared
object without a lock, a lock, an external program. `pc` (or `phase`, `stage`,
`doing`) is the place a thread or process is at. Variables marked *history* are
read by no guard. A call that raises without having changed anything is no step;
the guard of the action is its negation.

**The queue.** `missions` is the JSON mapping and `next_seq` its counter. Each
public method takes an exclusive `flock`, reloads, and replaces the file by
`os.replace` after `fsync`: one action each. `retry()` is never enabled
(`RetryNeverAllowed`, proved) and is represented by its guard `RetryAllowed`.
Timestamps, last error and title are left out: no guard reads them.

**The cycle search** (`DependencyDfs`). `stack` is the recursion, each frame with
the neighbours it has yet to try, `path` the names in the error message.

**The worker.** Places between any two accesses of `run()` to durable state:
`claimed`, `announced` (checkpoint 0 written), `executing` (1), `finished`,
`recorded` (2), `moved` (the queue call), `reporting`. `Die` may happen at each;
it also stands for an exception out of the controller, and `MoveRefused` is the
`ValueError` of the queue call, neither of which `run()` catches. A dead process
is restarted (`Restart=on-failure` in
`agent/deploy/systemd/mitigate-ai-worker.service`) and recovers every running
mission. `mode` is the command line.

**The adapter.** `phase` follows `enqueue_batch`: write every definition, enqueue
every mission, or dequeue in reverse order and unlink every definition written. Each
step of the rollback may fail too, and is passed over then, as in the code; a failing
write, dequeue or unlink leaves a file or a queue record behind (`torn`).

**The request flow.** Threads of the API go through gate (look for the id, then
add it), limiter, planner, builder, and the adapter; the file of definitions is
what `get_request_status` finds a request by. `limiting` says whether the
composition has a limiter with a limit: production wires `AllowRateLimiter` and
`AllowBudgetEvaluator`. The window is taken as never expiring; a refused request
uses its id up, as in the code.

**Mission execution.** Revisions are sequences of commits; the n-th branch of a
mission adds a commit to its base. `routing`, `running`, `publishing`, `judging`,
`reviewing`, `merging`, `pushing`, `undoing`... are the places of an executor.
`evidence` is the file the managed controller writes and a reviewer's approval is
admitted by. Faults (a crash, a failing publication, push, reset or removal, a
dirty checkout) are named and counted.

**Decisions.** `main` and `origin` are sequences of integrated commits, `unmerged`
a conflicting merge left in the checkout. `approve` passes validated, inspected,
merge, push, verify, decided, recorded, audited, and the queue; `reject` goes
from inspected to decided; `reconcile_one` accepts a commit or equal content that
is in main. Pushes may be lost to others, or time out after origin took them.

**Runtime service.** `flag` and `container` are fields read and written under the
lock; starting and stopping a component happens between, on the container a call
looked at. `captured` is what a `stop()` has found running and still has to stop
(`bw_to_stop`, `ac_to_stop`, `pa_to_stop`), which it does in the order `Order`.
**Runtime API.** Each `start()` makes a server and a thread; `serves` says which
server a thread took, which may be a later one; `Accept`, `RequireAuth`,
`ReadJsonBody`, the facade's call and `Answer` are steps of a handler.

**Outcomes and records.** `ExecutionOutcomes` has the coordinator, whose state is
in the memory of a process, and the writer, whose lock belongs to the process.
`ExecutionRecords` has the files: a temporary report ends in `.json` and is found
by whoever walks through the directory, a temporary checkpoint is not.

**Limits.** `ProviderRateLimiter`: writers take a lock of their process and then
the file's, `check_request` the first, other readers none; a configuration is a
capacity, a window and whether it is on, and `Changes` are the fields an update sets. `BudgetConfigStore`:
the lock object keeps one handle for all threads. `BudgetEvaluation`: check and
record as two steps; `budget` says what is limited (tokens or money) and the policy
for an unknown price, and what a request used is any of `Usages`. `ProviderModelRegistry`: change, copy, save, install.
`UsageLedger`: files created without the lock, under one temporary name.

**Routing** (`CapabilityRouting`). One action for each access to a provider's
health in `record_success`, `record_failure` and `isolate`. `left` is the set of
providers a call has yet to try, native ones first and then by `Rank`: the order
`providers_for` sorts by.

**Runner and repairs** (`MissionRunner`). Files are data: who wrote them, in which
round. `tree` is the checkout, `validated` what the last validation saw. `Ignored`
are the files `.gitignore` names (`*.sql`, `*.tmp`, `tmp/`, `vendor/`): `git status`
does not show them (`Clean` looks at `Seen`), `git add` refuses them, and neither
`reset --hard` nor `git clean -fd` removes them. `Recover` has an outcome for each of
its two commands failing. `Add` and `Commit` are apart because the index of a run that
fails between them is seen by the next.

**Supervisor.** Compare-and-set of the status under the run's lock is atomic, all
between is open; planner, executor, validation and Git answer anything.

**Site operations.** Two kinds of reentrant locks with their owners; events are
emitted under the manager's. Registrations are numbered: `_require_project` is an
action of its own (`RequireProject`) before each phase of a cycle, which goes on with
whatever is registered then. Tasks and their submissions belong to a registration.

**Technology.** One record: observed, evaluated, planned, replaced; each process
holds a copy it writes whole. Reports match a mission by artifact, review and
evidence (`Artifacts`, `Identified`, `HumanReviewed`, `Admissible`). A plan may leave
out capabilities, and one may be observed later: `Complete` refuses then (`IsNative`).

**Project registry and memory.** A record's id is the hash of its data, so that
recording again adds nothing; a snapshot and a handoff are several looks at the
store. Of a handoff's sections the model has the accepted decisions, the works (the
latest `MaxWorks` of them; the other lists are cut in the same way) and a policy; what
was cut as too large has no status and no policy any more. The registry is copied,
changed, written whole; `stale` are the processes another one wrote after.

**Chat.** Conversations and images are dictionaries written whole after each
change; the bytes of an image are a file named by their hash. The deletion looks at
the index of hashes (`FindUses`) and removes the file (`Unlink`) in two steps that
nothing keeps together, and uploads run in between.

**Container.** `Services` is the order of `build_application`, `Uses` what each is
constructed from. Each closer goes down the list by itself: `close()` has no lock.

**Patch engine.** What a file contains is the set of its lines, or of runs of lines
that are changed together. A file that is not UTF-8 is read as latin-1 and written as
UTF-8 (`Decoded`), which turns its `"latin"` lines into other ones; a file that is to be
made must not exist and its hunks may only add (`Creates`).
**Autonomous controller.** Ten stages; an engine answers or raises.

## 3. Runs

| run | instance | shows |
|---|---|---|
| `MCPlatform` | one of twelve components, see below | the promises of the queue and of eleven services beside it |
| `MCRequestServices` | one of twelve components, see below | the promises of what a request meets between the API and the queue |
| `MCWorkerOverlap` | 2 workers, 1 mission, limit 1, checkpoints one of which may not be saved, a reporter, 1 crash, 1 cancel or resume, 3 process starts | executions are accounted for; double handling has a recovery or an operator behind it; records are truthful |
| `MCWorkerLive` | 1 worker, 2 missions that may depend on each other, each command line (daemon, `--once`, `--max-idle-cycles 2`), stop requests, 1 crash, 1 intervention | nothing runs unattended; missions are settled and workers leave |
| `MCWorkerDouble` | 2 workers, 1 mission | *violated*: finding 1 |
| `MCWorkerExhausted` | 1 worker, 1 mission with attempts left | *violated*: finding 6 |
| `MCAdapterBlind` | 1 batch of two missions, 1 retry | *violated*: finding 2 |
| `MCMissionExecution` | 1 worker, 2 missions, one with a second provider and one that expects no changes; any one of a crash, a failing or foreign push, a failing publication, reset, deployment or removal, a retry, a resume | decisions hold, leftovers are accounted for, every mission settles |
| `MCApproval` | 2 deciders, every call, 2 missions one of which conflicts; a failing push, a dying call, and either a foreign push, or decisions that overlap (on the mission that merges), a rollback of a deployment and a panel call | completed means published until decisions overlap; settled means audited; nothing unpublished is left at rest; a reviewer who insists succeeds, or the checkout stays out of step |
| `MCApprovalUnpublished` | 2 approvals of 1 mission, 1 failing push | *violated*: finding 3 |
| `MCHighRiskMerge` | 1 request that may ask for a low risk | *violated*: finding 4 |
| `MCLockCycle` | 2 threads, 2 tasks, one needing an approval | *violated*: finding 5 |

### The two runs over many components

`MCPlatform` and `MCRequestServices` check components that do not interact. A
behaviour chooses one (`component`) in its initial state and is a behaviour of that
component only: `AnyInit` and `AnyNext` are disjunctions over the components, each
an `INSTANCE` of its module in which the variables are the slots `s1`, `s2`... in
the order of declaration; unused slots stay 0, and every property is conditional
on the component it is about. Nothing is lost: the states of the sum are the
states of the components side by side.

| component | instance | property |
|---|---|---|
| queue | 3 missions, so that chains and cycles of length three occur; 4 enqueues, so that an id comes back; limits -1 and 1 | `StartedDepsHold`, `DependencyGraphAcyclic`, `RetryBudget`, `HistoryKept` |
| service | 2 callers, 2 components of which 1 starts by itself, 2 builds | `ComponentsAttended` |
| runner | 3 missions two of which share a file, 4 files of which one is ignored, 2 repairs, 2 runs | `PushedIsWhatPassed` |
| supervisor | 2 callers, 2 missions of which one depends on the other, low and critical risk, automatic merge of low risk and deployment | `MergedWasCleared` |
| sites | 2 threads, 2 tasks of which one needs an approval, budget for one, 2 registrations | `SubmittedOnce` |
| technology | a worker and a tool, 2 capabilities, 1 version, 1 reason to replace it | `ReplacedIsNative` |
| memory | 2 threads, 3 decisions (one supersedes another and is oversized, one is not accepted), 2 works of which a handoff shows 1, 2 policies, 3 records, 2 handoffs or snapshots | `HandedOver` |
| projects | 2 processes, 2 projects, 3 changes, 1 failure, a clock that may go back | `ToldIsKept` |
| chat | 2 threads, 2 images of one content, 1 failure | `AttachedIsReadable` |
| container | 2 closers, services that are brought, shared or refuse, paths outside | `TornDownInOrder` |
| patching | 2 files that may not be UTF-8, 5 patches (a new file, one file twice, a rename and a removal, a new file with lines to remove, a path outside), 1 failure, edits | `WholeOrNothing` |
| controller | 2 attempts, a protected branch | `CommittedWasReviewed` |
| search | every graph of up to 4 missions, and of 3 that may depend on a fourth the queue lacks | `VerdictIsRight` |
| adapter | 2 calls, 4 missions, a batch of three with a chain in it, batches that depend on the other call's or repeat an id; a crash, a recovery | `BatchIsAtomic` |
| flow | 2 threads, 2 requests one of which is sent twice, 1 restart | `RequestsAreTracked` |
| limiter | 2 processes, 2 requests, capacity 1 and a window of 1, changed to off, and to on with a window of 2 | `NeverOvercommitted` |
| store | 2 threads of one process, 1 of another, 2 saves, 1 crash | `NoLostUpdate` |
| evaluation | 4 requests estimated below, at and above the limits, one of unknown price, that use nothing or 2; 2 days | `OverspentForAReason` |
| models | 2 threads, 2 models in one chain, 4 calls | `DisabledIsNotChosen` |
| outcomes | 2 threads of one process, 1 of another, 1 execution, 2 restarts and 1 | `OutcomesAreFinal` |
| routing | 2 calls, a native and an external provider, threshold 2 | `CircuitStaysOpen` |
| records | 2 workers, 1 reader, 2 attempts of a mission and 1 of another, 1 failure | `AnswersAreRecent` |
| ledger | 2 processes, 2 usages, 2 failures | `RecordedOnce` |
| api | 2 owners, 1 handler, 2 servers | `AnswersAreTrue` |

`CONSTRAINT Explored`: the limiter is not followed past the point where a reader
has overwritten a configured limit by a blank one, nor the model registry past two
changes that crossed, nor the budget store past two threads of one process that
entered its lock together; each property makes no promise after that, and the
module says so in its condition (`wiped`, `crossed`, `mixed`). The chat gateway is
not followed past the archiving or deletion of its conversation: an archived one
takes messages like an active one, a deleted one takes none. Site operations are
followed up to two observations in all and with a second registration that dispatches
by itself; a technology as long as its evaluations recommend it and no mission of its
is retried, which counts like a failure; the memory of a project up to three works or
policies, whose order matters, or two records of any kinds. These keep the run short and leave the races in; the
proofs know of no constraint.

`MCPlatform` uses symmetry over the queue's missions, the threads of the sites, the
memory and the gateway, and the capabilities, which nothing compares.

### Bounds

The bounds are the constants named `Max...`; they count calls of the environment,
crashes, starts, interventions and failures, never steps of the code. The races
need at most two of each; where a property speaks of an exception (an excuse such
as `raced`, `slipped`, `reopened`), it was dropped once to see TLC produce the case
it is for.

Deadlock is not checked: in every run the system may come to rest, with all
callers stopped, all workers gone or all missions settled.

### Findings

1. `run()` recovers *every* running mission when it starts
   (`background_worker.py:362`), so a second worker takes over what the first
   executes, and both execute it. `agent/missions/background_worker.md:107` says a
   second worker receives no mission while the first owns it. `OverlapExplained`
   and `ExecutionBudget` say how far the damage goes: it needs a process start,
   and each extra execution is paid for by one recovery.
2. The rollback of `enqueue_batch` unlinks the definition of a mission it could
   not dequeue because the worker runs it; retried, it is claimed without a
   definition, which the comment at `production_request_queue_adapter.py:279` rules
   out. `BatchIsAtomic` says what does hold: no mission of an accepted call is ever
   claimed like that.
3. `approve()` decides whether a commit is already merged by looking at the local
   main, which may hold a concurrent approval's merge that is not pushed yet. The
   mission is completed, the push fails, the merge is taken back.
   `CompletedIsPublished` holds until two decisions overlap or a deployment is
   rolled back.
4. Risk levels are compared as strings, so that a request that asks for `low`
   lowers a calculated `critical`, and what it changes is merged by itself
   (`autonomous_development_supervisor.py:984`; the comment above it says the
   opposite).
5. Site operations take the manager's lock and a project's in both orders
   (`site_operations_manager.py:1446` and `:1129`): two threads can wait for each
   other for ever, although
   `agent/missions/autonomous_site_operations_manager_core.md:96` asks for
   thread-safe methods.
6. A controller's `exhausted` leads to `fail()`, which leaves the mission retrying
   while the queue has attempts left for it; the checkpoint says failed.
   `agent/missions/background_worker.md:17` says "Mark exhausted failures failed."
   (`ExhaustedIsFailed`). `RecordsAreTruthful` says what holds of all other
   checkpoints, and names this exception.

### Other behaviour a maintainer should know of

Each of these is in a model; none is a finding because no document of the
repository, or none a run here could quote, says otherwise.

* **Worker.** Two workers can kill each other again and again: a refused transition ends a process whose restart
  recovers the other's mission. A checkpoint's execution id is used again by a
  recovered attempt, so `latest()` may show the earlier execution.
* **Adapter and flow.** A call that dies between its definitions and its enqueues
  leaves definitions behind. A refused request uses its id up.
  `mission_ids_for_request` is a substring match.
* **Decisions.** `reject()` of a mission whose approval died after its push cancels
  what is merged; `reconcile_one` overwrites a record before the queue refuses; a
  call that dies between merge and push leaves main ahead of origin and every later
  approval refused; two reviewers can undo each other's merges for ever. A rollback
  of a deployment that falls between the inspection of the checkout and the look
  whether the commit is merged may put a merge back that an earlier approval had
  undone: the second approval takes it for merged and completes the mission, and
  origin has never seen it. Even one decider at a time does not prevent that, which
  the proof of `CompletedIsPublished` brought to light and its `rollbacks = 0` says.
* **Execution.** A publication that fails after its branch was created fails over
  and leaves a second branch, after which an approval is refused as ambiguous.
  `base_revision` is the name `main`, which moves while a provider works. An
  automatic push that finds nothing to do, because an approval's undo took the
  merge away, completes the mission unpublished (`NothingLeftOver` excuses exactly
  that). Branch names have a resolution of one second and are matched by prefix. A
  crash leaves its worktree for ever.
* **Records and outcomes.** Temporary reports end in `.json`: a worker killed
  between write and rename leaves a report that counts, a half-written one makes
  the writer's `status()` raise from then on. The reader of a directory whose
  temporary file is renamed under it misses a report another reader was told of.
  Two executions of a mission in one second share an id and the second report is
  dropped. `get_request_status` prefers the oldest report of a mission,
  `find_by_mission_id` the newest. The writer's lock lets a second thread of its
  process in. A failed persistence is final; the real `store_report` and
  `record_usage` return no `ok`; a status writer that answers with no mapping
  leaves the execution in flight.
* **Limits.** A thread that times out on the limiter's file lock keeps the
  process's lock for ever. The budget store refuses concurrent calls of threads
  with a `RuntimeError`, and its shared handle lets one close another's. The
  ledger's files are created without a lock; if its event cannot be written a
  recorded usage raises, and the retry is a duplicate. An unreadable ledger admits.
  The evaluator's names of keys differ from the store's and the ledger's, and
  production wires stubs that allow everything.
* **Runtime.** A decision that arrives after the runtime stopped is answered 200
  `processed` (`runtime_private_api.py:814`). `start()` after `stop()` without
  `close()` does nothing although nothing serves, and the status says ok. A serving
  thread that is late may serve the server of a later start. `close()` before that
  thread began waits for ever in `shutdown()`. A response that is too long turns a
  202 into a 500. The facade has no component methods, so those endpoints fail.
* **Routing.** The failure of a call that began before a provider was isolated by
  hand takes it out of isolation; a native provider that is isolated for a moment
  counts as a missing capability.
* **Runner.** A deliverable that `.gitignore` names makes every run of its mission fail
  at `git add`, and stays in the checkout, where the tests of later missions see it
  although it is in no commit: `PushedIsWhatPassed` excepts exactly that. A killed run
  leaves a checkout that blocks later ones; `git clean -fd
  -- agent` removes other missions' definitions; two untracked definitions make
  every run refuse; a successful commit takes the definition onto the branch, so a
  retry finds no mission; half a repair leaves mixed rounds.
* **Supervisor.** A run that awaits its approval stores no missions, so its resume
  executes nothing and still merges and completes (line 637). Two `run()` calls both
  execute. An exception leaves the status stuck. Blocked missions do not stop the
  run, `stop_on_*` is never read, `reject()` blocks a completed run.
* **Site operations.** Tasks that need an approval are never eligible, so an
  approved one is never dispatched; a failed dispatch stays blocked; nothing sets
  completed; `active_equivalent_dispatch_keys` only grows. A project that is
  unregistered and registered again forgets its tasks and may submit one again; a cycle
  that is under way goes on with the new registration, or ends as failed.
* **Technology.** Production's dispatcher answers `unsupported_task_type` for what
  the queue stores. `PASSED` is set for every recommendation. The bridge normalises
  artifact paths, the reconciler demands them exact. A repeated plan for one reason
  fails at its first mission. An older evaluation reconciled later overwrites a
  newer one. Exceptions of the hook are swallowed.
* **Project memory and registry.** Recording an earlier policy again is a no-op, so
  the one between stays the latest. Oversized payloads collapse to one record, and an
  accepted decision among them is not shown as accepted any more. A
  handoff marked current may miss records made between its list and its stamp.
  `_creates_cycle` compares decision ids with record ids and finds nothing. In the
  registry a change of one process is lost to the next write of another, and a
  failed write is written with a later change. A project with outside paths can be
  created but never used.
* **Chat.** A lock file left by a crash keeps the gateway from ever loading. An
  unsaved deletion of one image lets the deletion of another remove the content
  both have; an upload of the same content that runs between the look and the
  removal of a deletion loses its bytes, even if it returned and is attached. A deleted conversation
  can be archived and written to. A plan that was queued and not saved is reported
  as an error.
* **Container.** Two `close()` that overlap may close every service twice
  (`application.py:411`); a controller that was brought is closed before the worker made for
  it; one that a failing build did not reach is never closed; `BackgroundWorker`
  has no `close()`; the stub registry accepts every project, the real one none.
* **Patch engine.** Two changes of one file overwrite each other; a deletion leaves
  an empty file; a rename writes under the old name; a file that appears meanwhile
  is overwritten, and removed by the rollback; copies stay. A file that is not UTF-8 is
  written as UTF-8, so that what is not ASCII in it changes, also where no hunk touches
  it; the comment at `patch_engine.py:424` (`to keep bytes mapping stable`) is true of
  the reading only.
* **Autonomous controller.** A validation that answers "failed" without raising is
  ignored; nothing rolls back between attempts; the real `RetryEngine` has no
  `should_retry`, so nothing is retried; `ValidationAdapter` reads `success` where
  the engine returns `status`.

## 4. Fairness

* `BackgroundWorker`: weak fairness of `Step(w)`. A live process runs on: the
  controller bounds every external execution by a timeout, and the service manager
  restarts one that died. No fairness on submissions, operators, stop requests or
  crashes, whose numbers are bounded; with the crash bound the assumption is that a
  process does not die at every attempt.
* `MissionExecution`: weak fairness of each executor's `Step`, which includes the
  restart after a crash, and of `PublishApproval`: every external execution has a
  timeout, the service manager restarts the worker, and an approval that started
  runs to its end. Operators, failures, pulls and foreign pushes are not fair.
* `ManualReviewApproval`: weak fairness of the deciders' steps together: a call that
  began runs on, and reviewers decide again while a mission is blocked (a reviewer who
  insists). Nothing else is fair, pulls neither: no unit runs
  `bootstrap/deploy_verified_main.sh`, and it refuses until a workflow of GitHub has
  moved the backup branch. `ApprovalConverges` is about behaviours in which no two
  calls overlap and nobody ever cancels, resumes, rejects or dies, and says that every
  mission that merges is completed then, unless the checkout stays out of step with
  origin for ever, as it does after a push that timed out and took effect, until
  somebody deploys.

Safety properties hold under the plain `Spec`.

## 5. Proofs

All proofs are checked by tlapm with Z3, Zenon and LS4. They hold for every value of
the constants under named assumptions, each of which TLC evaluates in a run:

* `QueueAssumption` (`Missions` is finite, priorities and limits are integers,
  `MaxSeq` a natural number; the finiteness is only used for `NeverCircularWait`),
  `DfsAssumption`, `WorkerAssumption` and `ExecutionAssumption`;
* in `MCPlatform`: `RunnerAssumption` (missions deliver files that exist, and main has none
  that git ignores),
  `SitesAssumption`, `RegistryAssumption` (clocks read natural numbers),
  `SupervisorAssumption` (the plan is of planned missions, risks are of the code's
  levels), `PatchAssumption` (a patch is a sequence of changes), `ServiceAssumption`
  (what starts by itself is a component), `MemoryAssumption` (a decision is neither a work
  nor a policy, nor a work a policy, and some decisions are accepted), `ChatAssumption`, `ContainerAssumption`;
* in `MCRequestServices`: `LimiterAssumption` (windows are positive and capacities
  natural numbers, of which a burst limit may be zero: what the limiter validates), `RoutingAssumption` (thresholds
  are positive, as the breaker demands), `RecordsAssumption`, `ModelsAssumption`,
  `OutcomesAssumption`, `LedgerAssumption`, `StoreAssumption`, `ApiAssumption`,
  and three of `RequestIntakeProofs`: `BatchAssumption` (two calls of `enqueue_batch`
  bring different ids, and in a batch dependencies go before their dependents; the
  adapter checks neither, but the ids are the builder's own and
  `plan_validator_mission_builder.py:395` orders a plan so), `FlowAssumption` (there
  are finitely many threads, and finitely many missions are planned, whose ids are
  points in time), `EvaluationAssumption` (estimates, usages and limits are
  natural numbers).
  `NothingIsLeftOver` has the hypothesis `OneWorker`: the worker is a single service
  (`agent/deploy/systemd/mitigate-ai-worker.service`, with the fixed id
  `production-worker`), as in the run. Without it the property is false, as TLC finds
  for two workers and two missions: after a crash the recovery hands a mission to the
  second worker while the first is still at it; both merge its newest branch, the push
  of one fails, and its reset takes away the commit that the other then pushes nothing
  of and reports as merged.

Most of the rest says that a value for nobody, or nothing, is nobody's. The values
`m1`, `m2`, `p`, `q` ... that the two `MC` modules give in their .cfg are constants
like any other to the proofs: `Missions`, `Threads`, `Patches`, `Chains` and so on
stand for every set.

| theorem | property | for any number of |
|---|---|---|
| `StartedDepsAlwaysHold`, `RetryBudgetHolds`, `GraphAlwaysAcyclic`, `HistoryAlwaysKept` | `StartedDepsHold`, `RetryBudget`, `DependencyGraphAcyclic`, `HistoryKept` | missions, priorities, limits |
| `RetryNeverAllowed`, `SeqAlwaysUnique`, `NeverCircularWait` | stated in `MissionQueue` | missions |
| `VerdictAlwaysRight` | `VerdictIsRight` | missions and dependencies |
| `OverlapAlwaysExplained`, `RunningAlwaysAttended`, `ExecutionBudgetHolds`, `RecordsAlwaysTruthful` | `OverlapExplained`, `RunningIsAttended`, `ExecutionBudget`, `RecordsAreTruthful` | workers, missions, crashes, operators |
| `DecisionsAlwaysHold` | `DecisionsHold` | missions, workers, faults, commits of others |
| `LeftoversAlwaysExplained` | `LeftoversExplained`, a part of the next | missions, workers, faults, commits of others |
| `NothingIsLeftOver` | `NothingLeftOver` | missions, faults, commits of others; one worker |
| `BatchesAreAtomic` | `BatchIsAtomic` | calls, missions, lengths of batches, crashes, recoveries |
| `RequestsStayTracked` | `RequestsAreTracked` | requests, threads, resends, restarts |
| `OverspendingHasReasons` | `OverspentForAReason` | requests, prices known or not, estimates, usages, days, limits |
| `SettledAlwaysAudited` | `SettledIsAudited` | missions, reviewers, reconcilers, faults |
| `CompletedAlwaysPublished` | `CompletedIsPublished` | missions, deciders, faults, commits of others, dying calls |
| `AtRestAlwaysPublished` | `AtRestPublished` | missions, deciders, faults, commits of others |
| `CommitsAreReviewed` | `CommittedWasReviewed` | attempts, branches |
| `TasksAreSubmittedOnce` | `SubmittedOnce` | threads, tasks, cycles, registrations, any budget |
| `ReplacementsAreNative` | `ReplacedIsNative` | processes, tools, capabilities, versions |
| `PushesArePassed` | `PushedIsWhatPassed` | missions, files (ignored or not), rounds of repair, runs |
| `ToldStaysInTheFile` | `ToldIsKept` | processes, projects, changes, failing writes |
| `MergesAreCleared` | `MergedWasCleared` | callers, plans, risks, attempts |
| `PatchesAreWhole` | `WholeOrNothing` | files, patches, editors, failures |
| `StatusIsTrue` | `ComponentsAttended` | callers, components, containers, orders of starting and stopping |
| `TeardownsAreOrdered` | `TornDownInOrder` | threads that close, configurations, overrides, services that refuse |
| `ImagesStayReadable` | `AttachedIsReadable` | conversations, messages, images, threads, failures |
| `HandoffsAreWhole` | `HandedOver` | threads, decisions, works, policies, handoffs |
| `WindowsAreNotOvercommitted` | `NeverOvercommitted` | threads, processes, requests, clock readings |
| `UpdatesAreNotLost` | `NoLostUpdate` | threads, processes, saves, crashes |
| `OutcomesAreSettledOnce` | `OutcomesAreFinal` | threads, processes, executions, restarts |
| `UsageIsRecordedOnce` | `RecordedOnce` | processes, usages, failures, deaths |
| `ClientsAreToldTheTruth` | `AnswersAreTrue` | owners, handlers, servers |
| `ReadersAreToldTheLatest` | `AnswersAreRecent` | workers, readers, attempts, seconds, failures |
| `DisabledStaysOut` | `DisabledIsNotChosen` | threads, models, chains, restarts |
| `IsolatedStaysOut` | `CircuitStaysOpen` | calls, providers, ranks, thresholds |

What a property excepts is in its comment and in the `about` of its theorem. Most
exceptions are lasting marks of a behaviour, after which the property promises less:
threads of one process that entered a lock together (`mixed`), handoffs or closers that
overlapped (`overlapped`), a stale process that wrote (`apart`), a renamed or withdrawn
temporary file (`slipped`, `withdrawn`), a call that met a stopped runtime (`halted`).
Where an exception is the defect itself, as with two closers, two threads of the budget
store, or a stale registry, the property says how far the damage is limited to it, and
section 3 has the behaviour in its list.

**MissionQueueProofs.** `NextCases` splits a step into enqueue, dequeue, recovery,
fail, and a move of one mission to another state from a known set of states;
`MoveFacts` and `FailFacts` say what the last two change. Most invariants are
inductive together with `QueueTypeOK`. `StartedDepsAlwaysHold`: dequeue is refused
while a dependent exists, and no step leaves `completed`. `RetryBudgetHolds` and
`RetryNeverAllowed`: a failed mission has used up its limit, the negation of the
guard of `retry()`. `SeqAlwaysUnique` is strengthened by "every key is below
`next_seq`". `GraphAlwaysAcyclic`: only enqueue adds edges and it checks;
`NoCyclesKept` says that a smaller graph stays acyclic. `NeverCircularWait` needs no
step: missions that all wait would be a set closed under "waits for", which
`NoCycles` excludes. `HistoryAlwaysKept` is an action property.

**BackgroundWorkerProofs.** A step is at most one operation of the queue, so that the
queue's own facts apply; the four invariants are strengthened:

* overlap: a mission somebody holds and nobody disowned is running, so that claim
  does not hand it out again (`OverlapInv`);
* attendance is inductive as it stands once the workers are typed;
* budget: `BudgetInv` adds that a mission waiting to be claimed has no execution
  under way, so that its claims are paid for already;
* records: what a worker carries to its next write is true (`CarriedIsTrue`), what is
  on the disk is about queued missions (`SavedIsTrue`), and the queue never goes back
  on what records rest on (`QueueAdvances`, `RecordsStayTrue`).

**MissionExecutionProofs.** `DecisionInv` says of every revision anywhere (main,
origin, both ends of an approval, the bases of branches, the base and head in every
executor's job) that its commits were accepted or are somebody else's (`AllSound`);
of every executor what its place says of its branch (`Fits`); and that evidence
asking for a human was written after a review that asked (`EvidenceOK`). That an
approval takes the commit the review asked about needs its refusal of several
branches: all tips of the mission are one revision, and two commits at the end of
one revision are one commit. The newest branch exists because a bounded set of
numbers has a largest element (`LargestExists`, from the well-foundedness of finite
subsets).

`NothingLeftOver` has an invariant for each of its parts.

* Leftovers (`LeftoversInv`): branches, together with the executors that may still
  create one, are no more than executions and failed publications; worktrees are no
  more than their users, crashes and failed removals. A step moves both accounts by
  what it does to its own executor (`LeftoversMove`, `CountOne`). Any finite set of
  workers.
* Completed is merged (`MergedInv`): a commit is its mission's newest and accepted by
  nobody until the review; from then to the merge it is in no revision that could
  become main (`Unmerged`, `Unbased`); and then it is in main or on origin until it is
  pushed, unless somebody else's reset took it out (`OnItsWay`). That an accepted
  commit is in no revision yet follows from `AllSound`. One worker.
* At rest in step (`SyncedInv`): what main has beyond origin is what an executor is
  about to push or take back, or exactly what an approval under way added to origin
  (`MainInHand`); branches start from what is on origin or is that addition
  (`BasesKnown`); and the revision a failing push goes back to is published, is part
  of that addition (`HeadCovered`), or belongs to an approval whose push has failed,
  and then the executor's own will not (`HeadLost`). That is where "both pushes
  failed" comes from as an excuse. One worker.

**ManualReviewApprovalProofs.** `LineWritten`: a call about to settle its mission has
its line in the history. Everything else a call does between its first check and the
queue is irrelevant to it, which `OtherSteps` says once. `Published` adds to
`CompletedIsPublished` what an approval may count on at each place (`OnItsWay`): past
the check of the checkout main has no commit that origin lacks, until the merge; who
compares with origin holds a revision with the mission's commit in it; who records is
right. That is until decisions overlap: `OneAtATime` says that only one call is under
way before. `Undone` is for `AtRestPublished`: what main has beyond origin is the merge of a
call that has yet to push it or to take it back, to a revision that is on origin.
Calls may merge on top of each other and undo in any order, because origin only grows
(`OriginGrows`) and so keeps what each of them goes back to.

### The components of `MCPlatform` and `MCRequestServices`

A behaviour is one of the component it was chosen for at its start, and `Selected`
says what a step of the sum is for that component: one of its steps, or nothing. So
each theorem is about `AnySpec`, the specification the runs check, and its proof
about the steps of one component. Each module states its inductive invariant just
before its property (TLC has checked each as an invariant of the component), and
each proof has one lemma for an action or a group of alike ones. What the invariants
add to the properties:

**PlatformProofs.**

* Controller (`Reviewed`): what each of the ten stages has done is what a later one
  may rely on, in this attempt and for this tree (`StagesDone`), so that a commit of
  an attempt that begins on the leftovers of another was reviewed as it is.
* Sites (`Dispatched`): a thread in a phase works on one registration; who dispatches
  holds its lock,
  and what it has left to dispatch stays a candidate (`DispatchesAlone`); what was
  submitted or rejected is no candidate again (`ClosedStaysClosed`).
* Technology (`ReplacedSoundly`): what the file, any process's copy or a
  reconciliation under way calls adopted was built by a merged mission. It holds of
  every copy, which is why processes that overwrite each other do no harm here.
* Runner (`PassedIsPushed`): until its commit a run has main under it and differs
  from it in its own deliverables only, and in what is ignored; what was validated is
  what the checkout, then the branch, contains.
* Registry (`Kept`): the copy of a process that nobody wrote after differs from the
  file only in what the process is about to write, and in what somebody could not write
  (`UpToDate`).
* Supervisor (`Cleared`): what a thread may count on at each of its places
  (`Founded`): past the planning no approval that was sought is open; who is about to
  merge has passed validation with a risk that merges by itself; a thread that had
  not yet got that far when the run was rejected or cancelled never does.
* Patch engine (`Recoverable`): what a preview says is what the file will be
  (`Previewed`), the files written are those of the changes so far
  (`WrittenInOrder`), and what was written can be taken back from the copies
  (`Reversible`).

**PlatformServicesProofs.**

* Service (`ServiceInv`): for a component that no two calls met at and that stopped
  when it was told to, `Faithful`: one call at most is between its check and its flag,
  and the container it works on is the present one or the component does not run in
  it; while the runtime is up and nobody attends to it, it is flagged exactly if it
  runs; and a `stop()` has captured every such component that runs. `TakesTurns`: one
  call builds, and one takes down.
* Container (`TakenDown`): before the first close all that is registered is open; who
  closes has left nothing behind that could be closed, and while it is alone what it
  has still to close is open; what is down went down after all that was made later.
  That the order of building respects the uses is `UsesAreBefore`.
* Chat (`Attached`): the memory is never behind its files in messages, an image is in
  one of memory and file only until it is told or where it was dropped, and the
  contents both refer to are there, but for images that raced; who is about to remove
  a content still finds no image with it, but for those that raced.
* Memory (`MemoryInv`): the log has each datum at the place of its first recording
  (`Logged`, `Sourced`, `InOrder`), so that the records up to a place contain all
  that was recorded before a handoff began; handoffs made one after the other are of
  more and more. A work that a handoff does not show has as many works after it in the
  store as are shown, all of which were recorded later for the first time.

**RequestIntakeProofs.**

* Search: `VerdictIsRight` speaks of the end of the search and is not inductive. `IInv`
  adds that the stack is a path of gray missions, each an edge of its predecessor; that
  every frame's tried and untried neighbours are its edges, the tried ones black or
  next on the stack; `DfsInvariant`: black missions are closed under their edges and
  acyclic, the gray ones are those on the stack; and `Trail`: the path the error
  message names leads along edges. An accepted queue is all black; a raised one has an
  edge from the end of the trail back into it.
* Adapter (`AdapterInv`): how far a call has come says which of its ids are queued,
  written and claimed (`SoFar`); every mission and file came with a call (`Owned`);
  what was claimed had its dependencies claimed before it (`ClaimsKnown`). A refused
  `dequeue` has a dependent in the queue, which is of another call, or is a later one
  of this batch that was kept as well, because it was claimed, or its own dequeue
  failed: `Adopted` is closed for that reason. With two
  missions in a batch the direct dependents had seemed enough; with three they are not
  (the last mission depends on the second and that on the first, somebody else on the
  second), which the proof showed and the run now has a batch for.
* Flow (`FlowInv`): a thread that is enqueueing has a mission of its own, as far as
  `enqueue_batch` has come (`Underway`); an accepted request's mission is nobody's any
  more, so that no rollback can take it (`Kept`); and the missions made of a request
  together with the threads about to make one are no more than the times it was let in
  (`Counted`).
* Budgets (`SpendingInv`): what is recorded, each at no more than its estimate, and what
  is admitted stay within the limits together (`WithinBudget`), since what a check read is
  the usage recorded, or more than the part of it that was estimated, unless something was
  recorded after it (`ReadRight`). A sum of weights is the number of coins in a set of
  coins (`TotalIsCoins`), so that adding one is a fact about cardinalities; the one induction that takes, over the finite sets of usages, is made
  as the choice of a smallest counterexample.

**RequestServicesProofs.**

* Limiter (`LimiterInv`): until a reader has replaced the file by a blank one, who
  writes has the file's lock and the file is what it read (`WritersAlone`), and the
  file counts everything admitted in the shortest window since the limit was configured,
  under no more than its largest capacity (`FileCounts`), however it was changed.
* Budget store (`StoreInv`): while no two threads of a process are inside together,
  one call at most is between lock and unlock, its handle is its own, and what it
  read is what the file still holds.
* Outcomes (`SettledOnce`): what is in flight is with one thread, or was leaked and
  is with none; what was counted in this life of the process is with a thread past
  the counting or in a result; who stores has the lock alone unless two threads of
  its process are inside.
* Ledger (`LedgerInv`): who loads, writes and moves has the lock, and the file about
  to be moved into place is the present one and one usage more.
* API (`ApiInv`): what is about to be made of a call is what became of it
  (`Accounted`), and a thread serves another server than its own only if that one
  was crossed (`OwnThreads`).
* Records (`RecordsInv`): nothing is dated in the future, what was found or told is
  in a whole file of either name, and what a call is to find was found or is still in
  its listing (`FoundInTime`).
* Models (`ModelsInv`): of a change that nothing crosses the memory is what is saved
  (`SavedAsChanged`), so that what is off is disabled in memory and on disk.
* Routing (`RoutingInv`): failures at the threshold mean isolated, reopened, or being
  recorded (`Counted`); a call about to make a provider well has found it not
  isolated since it was last (`StaysOut`); a call tries its providers or was not
  served by them (`Served`).

## 6. Model-checked only

* Liveness: `WorkComesToAnEnd`, `EveryMissionSettles` and
  `ApprovalConverges`. The provers handle neither fairness nor `ENABLED`.

## 7. Not modelled

* **Isolated and autonomous request adapters.** They migrate definitions of an older
  layout; the retry default they install is the constant `RetryLimit`.
* **Flow specifications, host recovery, legacy task queue and worker.** Self-contained
  and next in the plan. The legacy queue is not on the path of a request.
* **Retry budget, retry classification and their adapters.** Only their tests use
  them; production composes the queue without.
* **Admin API, MCP servers, web panels.** They hand calls on to operations that are
  modelled, and format what these return.
* **Installation, maintenance and restore scripts; WordPress theme.** Shell steps on
  one host, and content.
* **AI planner, prompts, model calls, text analysis** of the review and validation
  engines: an outcome chosen from what they can return.
* Of components that are modelled: task scopes and diagnostics of the consolidation
  controller, provider task policies and updates of the upstream; aggregation and
  queries of the ledger; discovery and scoring of technologies and the exemption of
  their evaluations from medium risk (`production_mission_controller.py:115`), which
  multiplies the states of `MissionExecution` without a decision of its own; listing
  and deletion of checkpoints, which nothing calls; clocks that step back between two
  reports; transport and checks of project deployments.

## 8. Plan

1. `FlowSpec`: validation and ordering of steps, checked against a reference
   definition; `HostRecovery`: what a reboot leaves and what is started again; the
   legacy queue with its life cycle.
2. Migration of definitions by the isolated adapters, with a crash in the middle.
3. A composition of `BackgroundWorker` with `MissionExecution`, so that checkpoints
   and failure evidence are compared.
