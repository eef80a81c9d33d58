# Windmill: a TLA+ model of its jobs, flows, schedules and triggers

Windmill runs scripts and flows as jobs. Its servers and workers share no memory
and exchange no messages about jobs: everything they know of each other is in
Postgres rows. A job is pushed by one process, claimed by another, completed by a
third one (or by two at once), restarted by a fourth. A flow has no process of its
own: whichever worker ends a step drives it on. A schedule has no clock of its own,
and a trigger belongs to the server whose ping is in its row. This directory models
those rows and the processes that act on them, checks the models with TLC on small
instances, and proves with TLAPS, for instances of any size, every safety property
that the passing runs check. Line numbers refer to the sources under `src/backend`.

Contents: [inventory](#1-inventory), [modules](#2-modules-and-their-correspondence-to-the-code),
[runs](#3-runs), [bounds](#4-bounds), [fairness](#5-fairness), [proofs](#6-proofs),
[findings](#7-findings), [what is not modelled](#8-what-is-not-modelled), [plan](#9-plan).

## 1. Inventory

| Component | State | Operations | Interaction | What is hard | What makes it correct |
|---|---|---|---|---|---|
| **Job queue** (`windmill-queue/src/jobs.rs`, pull queries in `windmill-common/src/worker.rs`) | `v2_job`, `v2_job_queue` (running, suspend, canceled_by, scheduled_for), `v2_job_runtime.ping`, `v2_job_completed` | `push`, `pull`, `add_completed_job`, `cancel_job`, `restart_job_if_perpetual` | rows only; every other component calls it | two completions at once, transactions rolled back and retried, cancel against pull | a job is in one place, is never lost, ends once |
| **Worker main loop** (`windmill-worker/src/worker.rs`, `handle_child.rs`) | the job it runs, its child process, the ping | pull, refuse, run, time out, ping, hand over | bounded channel to its result processor | death or pause at any point; canceled_by seen late | one executor per claim |
| **Result processor** (`result_processor.rs`) | the outcome it is processing | `process_completed_job`, fall back on `handle_job_error`, report to the parent flow | channel from the main loop; calls the flow engine | an error half-way through | each outcome is applied once or reported |
| **Zombie monitor** (`src/monitor.rs`) | `zombie_job_counter`, `parallel_monitor_lock` | `handle_zombie_jobs`, `handle_zombie_flows`, `force_complete_zombie_job`, `cancel_stale_job` | reads pings written by workers | a worker that is slow and not dead; its own death | every lost job or flow is found |
| **Flow engine: steps** (`worker_flow.rs`) | `flow_status` (step, modules, retry) | `handle_flow`, `push_next_flow_job`, `update_flow_status_after_job_completion` | runs in whichever worker completed a step | two transactions per transition; status read outside of them | steps in sequence and in order; success is earned; the flow ends |
| **Flow engine: parallel loops and branches** (`worker_flow.rs`) | iterator.index, suspend of the children, the locks | fan-out, report, release, join | children report concurrently | the count and what follows from it are separate statements | limit on parallelism; the join waits for all |
| **Flow engine: loops, branches, sub-flows** (`worker_flow.rs`) | one `flow_status` per level | `compute_next_flow_transform`, the report from level to level | the worker that ends a sub-flow reports it to the flow above | success, stop and "a handler has run" are handed up; empty modules push nothing | iterations in order; no failure lost or handled twice; nothing left out |
| **Suspend, approval, resume** (`worker_flow.rs`, `windmill-api/src/jobs.rs`) | `resume_job`, suspend, suspend_until | count the messages, park, resume, cancel, time out | API servers against the worker that parks | a message before, during or after the parking; a counter written from an old read | a step is passed only with its approvals; a disapproval stays one |
| **Workflow as code** (`wac_executor.rs`, `bun_executor.rs`, `result_processor.rs`) | the checkpoint, the parent's suspend counter | replay, dispatch, merge, approve, sleep | result processors of the children | the children end while others are still pushed; deaths half-way | one driver; no step repeated; the workflow ends |
| **Schedules** (`windmill-queue/src/schedule.rs`, `windmill-api-schedule`) | the schedule's row, its jobs in the queue | push the next tick, edit, enable, rename | completion of a run, `handle_flow`, API | rows read without a lock; failing pushes; the clock set back | an enabled schedule has a tick ahead |
| **Concurrency limits, debouncing** (`jobs.rs`) | counters and keys per limit | taken at pull, given back at completion | pull, complete | counters after a crash | no slot leaks |
| **Triggers** (`windmill-trigger/src/listener.rs`) | server_id and last_server_ping of a trigger row | fetch, claim, ping, reset, disable | servers compete through the row | a lease that expires or is edited while held | one listener, with the current configuration |
| **API server, executors, parsers, frontend, CLI** | request state, files | - | call the above | - | - |

The hazards, each at the line where it bites and with the properties that watch it,
are listed in `PROJECT.json`.

## 2. Modules and their correspondence to the code

```
JobLifecycle          what the queue promises of a job (abstract)
   ^ implemented by
JobQueue              rows, workers, result processors, servers, monitor
FlowSteps             one flow of N steps, several workers
FlowFanOut            one parallel loop or branch
NestedFlow            loops, branches, sub-flows in a tree
Approval              a flow whose steps wait for approvals
WorkflowAsCode        a script that dispatches its steps
Schedules             a schedule and its runs
TriggerLease          a trigger and its listeners
```

Each module `M` but JobLifecycle is extended by `MCM`, its instance for TLC, and by
`MProofs`, its theorems for TLAPS.

The modules below JobQueue in this list use a coarser job than JobQueue: what JobQueue shows about
one job (it is in one place, it is ended although its worker dies, its restart is
counted) is what they take for granted about the jobs of a flow, a workflow or a
schedule. Each has a `TypeOK`, which holds in its run (add it to the cfg's invariants
to see it); the runs list it only for JobQueue, where it bounds the restarts.

### JobQueue

State: `v2_job` (ids ever pushed), `queued`, `running`, `canceled`, `due` (columns of
`v2_job_queue`), `ping` (null, fresh, older than the timeout), `completed` (the
status in `v2_job_completed`), `counter` (`zombie_job_counter`), `exec` (a worker's
main loop), `chan` (its bounded channel), `proc` (the completion each process has on
its stack), `doomed` (the jobs a sweep has decided to fail). Time appears only as
`due` and as the age of a ping.

| Action | Code |
|---|---|
| `Push`, `InsertJob` | `push`: all rows of the job in one transaction |
| `BecomeDue`, `PingExpires` | the clock, as the queries compare it |
| `Pull` | the pull query: claim and ping in one statement |
| `RefuseJob`, `FinishJob`, `TimeoutJob`, `PingJob` | `handle_queued_job` returning an error, the child process ending, `handle_child`'s timeout, `update_job_poller` |
| `SendCompleted`, `ReceiveCompleted` | the channel between main loop and result processor |
| `InsertCompleted`, `Unblock`, `Commit`, `Abort` | `commit_completed_job`: the INSERT takes a snapshot and may wait for another transaction that has inserted the same id; `ON CONFLICT DO UPDATE` then goes on; DELETE and COMMIT; roll-back with the retries of `add_completed_job` |
| `RestartPerpetual` | `restart_job_if_perpetual`, a transaction after the commit |
| `CancelJob`, `SoftCancel` | `cancel_job`: reads the row, then either spawns a completing task or marks the row |
| `ZombieSweep`, `FailZombie` | `handle_zombie_jobs`: one statement, then `handle_job_error` and `force_complete_zombie_job` per job |
| `CrashWorker`, `CrashServer` | the process dies: its memory is lost, its transaction is rolled back |

Which of its callers a completion returns to (`AfterReturn`, `AfterError`) matters,
since they differ in what they do after an error and in whether they pass
`canceled_by` on.

### JobLifecycle

Four phases (none, queued, running, done) and a restart count per job. The
refinement mapping `PhaseOf` reads the phase off the rows: a completed row means
done, else `running`, else a queue row. It says that nothing the processes do makes a
job come back once it is done, that a claim is always one of a queued job, and that
every restart is counted and within the limit.

### FlowSteps

State: `row` (each job's place), `ping` and `canceled` of the flow, `step`,
`module`, `fail_count` (the parts of `flow_status` that control the flow), `stepOf`,
`proc` (threads, with the `old_status` each has read), `kills` (tasks spawned by a
forced cancel). A transition of a flow is `CompleteStep` (commit of the step's job,
which stamps the flow's ping), `ReadStatus` (old_status, outside of any transaction),
`UpdateStatus` (first transaction), `PushNext` (second transaction, resets the ping)
or `FinishFlow`. `ShouldContinue`, `IncStep`, `NextModule` and `NextFailCount` are
the decisions of `update_flow_status_after_job_completion` and
`push_next_flow_job`. `UpdateFails` and `PushFails` are their error paths. `Cancel`,
`KillJob`, `Crash`, `CrashServer`, `RestartStep`, `FailStep`, `PingExpires` and
`HandleZombieFlow` interleave with all of them.

### FlowFanOut

State: as FlowSteps for one parallel module, and `suspend` of each child, `index`
(iterator.index), `lock` (`parallel_monitor_lock`, with `last_ping`). `PushAll`
pushes the children, all but the first `Parallelism` suspended by `SuspendOf`;
`CompleteChild` stamps the flow's ping and the child's lock; `Report` counts in a
transaction; `Release` and `Unlock` are the two statements after its commit;
`DropLocks` is the last child's DELETE on another connection while its transaction is
open; `CommitLast` joins; `FinishFlow` ends the flow. `ReportAgain` is the recursion
of `update_flow_status_after_job_completion` after an error, `LateReport` a report
that arrives after the join. `RestartChild`, `ZombieChild`, `HandleZombieFlow` and
`HandleZombieLock` are the monitor.

### NestedFlow

State: `job` (the jobs of a run as they were pushed, each with its parent, the module's
index, the iteration or branch, and the attempt), `row`, `canceled`, `ping` and
`flow_status` per job, `worker` (what the one worker reports or goes on with), `kills`,
and two history variables for the properties: `history` (which module stopped its loop or
its flow, and how) and `broken` (the flows that could not go on). The flows are a constant: each module
has a kind, the flows inside it, skip_failures, continue_on_error, retry, skip_if and
its two stop predicates. Items, branches chosen and predicates are free, since they
are computed from results.

| Action | Code |
|---|---|
| `PullFlow`, `PullStep`, `FinishStep` | the pull query and the completion of a step |
| `UpdateStatus` | the first transaction of `update_flow_status_after_job_completion`: `StopEarly` and `StopAtEnd` (the predicates), `GoesOn` (next iteration or branch), `EndModule` (status, step, retry count), `ShouldContinue` |
| `Preprocess` | the statement after that transaction that gives the flow the preprocessor's result as arguments and queues it again |
| `UpdateFails` | the error of either, and the report made again as unrecoverable |
| `FinishFlow`, `ReportToParent` | completing the flow and `Rec`, the report to the flow above |
| `PushNext`, `PushEmpty`, `PushFails` | `push_next_flow_job` with `NextFlowTransform`; a module without items or modules, which becomes a success at once; an error of `handle_flow` |
| `Cancel`, `KillJob` | `cancel_job`: soft, or forced from the highest flow in the queue |
| `Crash`, `CrashServer`, `RestartStep`, `PingExpires`, `HandleZombieFlow` | deaths and the monitor |

One worker drives the tree: that two may be at one status is FlowSteps' subject. The
failure module and the preprocessor are plain scripts without a retry of their own; a retry policy is a
number of constant attempts.

### Approval

State: the flow's row (`row`, `canceled`, `suspend`, `suspend_until`, `ping`), its
status (`step`, `module`, `approvers`), `resume_job`, `request` (what each API request
has read), `holder` (where the worker is), and `verdict`, a history of how each wait
ended. `Resume`, `Park` and `Reject` are the three outcomes of the counting
transaction of `push_next_flow_job`; `PullSuspended` and `Timeout` the suspended pull
query. A request is `ReadByLink` (by the link of a step, possibly before the step
waits, or routed to a flow or a workflow as code) or `ReadByFlow`, and then `Write`:
insert the message and set the counter to `NewSuspend`, computed from what was read.

### WorkflowAsCode

State: the parent's row, its checkpoint (`completed`, `pending`), the children, the
worker threads, `resume_job` and the approval requests. The script is a sequence of
stages. `Load` and `At` replay it against the checkpoint (`prepare_checkpoint_for_resume`,
the client's `WorkflowCtx`), `Dispatch`, `PushChild`, `PushFails`, `Wait`, `Inline` and
`Finish` are the cases of `handle_wac_v2_output`, `EndChild`, `ReadIds` and `Report` the
completion of a child and `handle_wac_child_completion`.

### Schedules

State: the database's clock, the schedule's row, its jobs in the queue with where each
run is, `copy` (the row each run has read, without a lock), `api` (the open transaction
of an edit). `ReadSchedule`, `Check`, `SkipExisting`, `PushTick`, `DisableSchedule` and
`PushFails` are `try_schedule_next_job` and `push_scheduled_job` step by step, whether
called by a completion or by `handle_flow`. `RunAlone` and `StopOverlapping` are
no_flow_overlap. `SetEnabled`, `EditSchedule`, `Rename` with `CommitEdit` and
`AbortEdit` are the API. `ClockShift` sets the clock back.

`HandleFails` is an error of `handle_flow`, which `handle_job_error` reports as a failure
of the flow's first step with a nil job. What comes of it depends on the module:

- the flow fails, and its completion schedules (`jobs.rs:1138`);
- with a retry or a failure module `handle_flow` is called again, from its look at
  the schedule on. `way` says which of the two is pushed next: only the
  first step looks for other runs (`LooksAround`);
- with continue_on_error, `step` becomes 1 and the flow goes on with its second module
  (`worker_flow.rs:1183`). If the error came before the tick was pushed
  (`get_schedule_opt` at `worker_flow.rs:2488`), nobody pushes it any more. The history
  variable `lost` records it until the next edit.

`Reenter` is another call of `handle_flow` at step 0 (an iteration, or another attempt
at the step); it passes the schedule by when `fail_count` is above zero. `FinishFlow`
ends a flow: one whose failure module has failed is completed as if it had not begun.

### TriggerLease

State: `enabled`, `server_id`, `ping` and `version` of the trigger, `fetched` (what each
server has SELECTed), the tasks, the servers that run, and `lapses`, a history. `Fetch`
and `Claim` are the two statements of `listen_to_unlistened_events`; `Edit` and
`SetTriggerMode` are the API. `Stall` is 15 seconds without a successful ping of a task
that lives.

A task is two futures side by side, each with a place of its own:

- `st` is that of `loop_ping`. `Ping` and `PingFails` are its ping every five seconds
  together with the check of its result, `ResetPingForRestart` the statement after a
  failed one, `Stop` the end of the task that follows;
- `start` is that of the consumer. `Connect` is `get_consumer` being ready: the
  `loop_ping` beside it is dropped and a new one begins, so that a failed ping which the
  old one had just met is forgotten. The consumer begins with a ping of its own
  (`listener.rs:629`), `FirstPing`, `FirstPingErrs` or `FirstPingFails` with `FirstReset`, and
  consumes whatever that ping has found. `DisableWithError` and `ConsumerEnds` are its ends.

A task may thus reset the ping of the row and go on: the row is free to be claimed, by
its own server too, until `loop_ping`'s next ping, which succeeds if it was claimed by
its own server. `lapses` counts these cases (a failed ping that is passed over, a
stall, a `disable_with_error` by a task that has given its lease up), and the
properties are stated relative to it.

## 3. Runs

Runs that pass:

| Run | Properties | Shows |
|---|---|---|
| `job_queue_safety` | TypeOK, OnePlace, RunningHasPing, ClaimsAccounted, LifecycleSpec | A job that two workers, a cancelling server and a monitor fight for is never lost, never both finished and claimable, never running without a ping, and never executed more often than its restarts on record allow. JobQueue implements JobLifecycle. |
| `job_queue_liveness` | OneRunUnlessRestarted, EveryJobCompletes | A pushed job is completed, whichever worker or transaction fails. The jobs are two runs of a perpetual script: as long as the monitor has restarted none of them, one at most is in the queue or about to push the next one. |
| `flow_steps` | StepsInSequence, StepsInOrder, SuccessIsEarned, CancelStopsFlow, FlowCompletes | With retries, continue_on_error and a failure module, crashes and errors at any point, steps run one at a time and in order, a success is one, a cancel lets at most one more step start, and a flow that nobody cancels ends although its workers die between its transactions. |
| `fan_out_safety` | BoundedParallelism, JoinIsComplete | With crashes everywhere, parallelism is kept and the join waits for, and judges, every child. |
| `fan_out_liveness` | FlowCompletes | A child whose turn has come is released, or a lock or a ping is left that ends the flow; counting a child twice after an error does not leave the flow waiting. |
| `nested_flow` | OneAtATime, IterationsInOrder, NoFailureIsLost, NothingIsSkipped, HandledOnce, EveryJobEnds | In a tree of loops, branches and sub-flows at most one job can be worked on, an iteration follows the one before it, a success has lost no failure below it and left no module out, a failure is handled by one failure module, and every job ends although a worker dies or an error hits any transition. |
| `approval` | PassedIsApproved, DisapprovalIsFinal, ApprovedGoesOn, FlowEnds | Whatever concurrent requests make of the counter, a step is left behind only with its approvals or by continue_on_disapprove_timeout, a disapproval of a parked flow is final, and lost counts only delay. |
| `workflow_as_code` | CountsChildren, OneDriver, StepsOnce, ResultsAreReal, NoLostWakeup, WorkflowEnds | The parent's counter is the number of results it lacks, its script is run by one worker at a time, replaying repeats no step, results are those of real children, a workflow for which nothing is under way can be pulled (no worker has died, no approval or sleep is waited for), and the workflow ends. |
| `schedules` | NoSilentStop, NoOverlap, TickIsLater, QuietOnceDisabled, KeepsTicking | An enabled schedule always has a job that is or will push its next tick, unless continue_on_error has led a run past an error before its push (`lost`, section 7); runs that have come to their first step do not overlap when they must not, no instant is run twice in a row, and a disabled schedule falls silent. |
| `trigger_lease` | OneHolder, LeaseInv, IsListenedTo, OldConfigIsOwed | One task at a time keeps the lease, and each lapse on record lets in one more at the most; an enabled trigger is listened to in the end; a task that goes on with an old configuration took its lease between a SELECT and its UPDATE, or there was a lapse. |

The runs `perpetual_single` and `wac_second_approval` find a violation each: the code
disagrees with what a comment in it says (section 7).

Deadlock is not checked: the jobs, requests and edits are bounded and a system with no
work left stops. That it does not stop earlier is what EveryJobCompletes,
FlowCompletes, EveryJobEnds, FlowEnds, WorkflowEnds and KeepsTicking say.

Each property of a passing run has a mutant in its module (`Mutant of ...`), a
plausible slip in the definition it replaces, that makes the run fail.

## 4. Bounds

- *Jobs.* Jobs meet only in the workers' main loops and channels and in the monitor's
  list, so one job is enough for what is said of its rows. `job_queue_liveness` has two
  runs of a perpetual script and one worker. The worker's main loop and its result
  processor are two processes, so that a run the monitor has given back is pulled again
  while its first outcome is being completed. Two workers or a third run are out of reach
  with fairness; `perpetual_single` has both, and OneRunAtATime holds for any number.
- *Processes.* Two workers: a slow one and the one that takes over. One server, one
  monitor: their overlap with a worker's completion is what matters, and each is a
  completer like any other.
- *RestartLimit* 2 instead of 3: below, at, and above the limit are still three
  different cases of the comparisons in `handle_zombie_jobs`. *MaxRetries* 1 instead
  of 10, *ChannelSize* 1 instead of 10: a full channel and exhausted retries happen.
- *MaxFaults*, *MaxCrashes* bound crashes, roll-backs and errors: up to 2 or 3, so that
  the recovery from one fault meets another (1 in NestedFlow and Schedules, where the
  fault may come at any of many more points).
- *FlowSteps*: three modules, the second with continue_on_error, one retry each, and a
  failure module with one retry. `MaxJobs` 8 is the most that such a flow pushes
  (2 attempts of each of 4 modules), so the bound never cuts a behaviour short.
- *FlowFanOut*: three children with parallelism 2 or 1, so that a child is released by
  a report and the last report is not the first. Two threads: a report that overlaps
  with another child's run or report.
- *CrashPoints*, *DbErrors*, *StartErrors*, *LongWaits*, *SlowWorkers* choose the kinds
  of fault. `fan_out_liveness` has one fault (it also holds with two, at 1.5 million
  states) and leaves out the points where the code loses a flow (section 7).
  `fan_out_safety` has all crash points but no error after a commit. `flow_steps` has
  dead workers and not slow ones.
- *NestedFlow*: five flows, listed in `MCNestedFlow`, in which every kind of module
  occurs, at most three levels deep. Two items are enough for a first, a next and a
  last iteration. `MaxJobs` 8 ends the while loop, which the code does not bound;
  EveryJobEnds leaves out the runs that reach it. The invariants were also checked on
  other flows: while loops and branchall under failure modules, nested retries,
  continue_on_error around sub-flows.
- *Approval*: a step that waits for two messages and one that waits for one, three
  messages, two requests at the same time, one death.
- *WorkflowAsCode*: a sleep, two parallel tasks, an inline step and an approval; two
  threads, two deaths or one failing push. *Orderly* leaves out a death together with
  a failing push, where children of the first dispatch are unknown to the second. An
  approval is only sent once the script has come to wait for one (`LinkIsOut`), and fourteen days are not
  over while a child is still under way (`Quiet`).
- *Schedules*: two expressions that fall out of step, three instants before the
  horizon, so that a run pushes a tick that is run in turn and pushes another one; seven
  jobs in the queue, one edit, one fault, one setting back of the clock. The theorems
  hold for any number of each. *Regular* leaves out an edit together with the setting back (section 7).
- *TriggerLease*: two servers, two tasks (of one server or of two), two edits, and one
  fault, which is a consumer that ends, a ping that errs, a crash or a stall. A failed ping that is passed
  over needs no fault, only an edit.
- `RESTART_ZOMBIE_JOBS` is on in every run; the theorems hold with it off too.

## 5. Fairness

Weak fairness throughout; none on crashes, roll-backs, cancels, timeouts, edits,
approvals, or on the ping of a live worker.

- A worker's loop and its result processor keep running: they are tokio tasks that
  loop until the process ends, and a process that ends is restarted by its supervisor
  (`CrashWorker` leaves an idle worker; `Crash` in the other modules frees the thread).
- A job's process ends: every job has a timeout, enforced by `handle_child`.
- Of a ping it is assumed only that it grows old when no thread is left to write it.
- The monitor sweeps again and again (`monitor_db` runs in a loop of every server) and
  the tasks it spawns run.
- A transaction that an API request has begun ends (`Write`, `WriteApproval`,
  `CommitEdit`); nobody has to make a request.
- A deadline passes: `suspend_until` of a parked flow or workflow and the clock of a
  schedule. Of the 14 days of a waiting child in FlowFanOut nothing is assumed.
- Every server polls for triggers, and a task pings, connects or finds out that it has
  lost the lease.

## 6. Proofs

`JobQueueProofs` proves, from `ConstantsAssumption` alone (perpetual ids are job ids,
`NoJob` is not one, the limits are naturals, `RestartLimit` and `ChannelSize` not 0,
monitors are processes of their own)
and for any sets of jobs, workers, servers and monitors:

- `TypeCorrect`: `Spec => []TypeOK`. Its content is in `counter \in [Job -> 0 .. RestartLimit]`
  (the three comparisons of the sweep fit together) and
  `running \subseteq queued`, `canceled \subseteq queued` (no statement leaves a flag
  on a row that is gone);
- `NoJobLost`: `Spec => []OnePlace`;
- `ZombiesVisible`: `Spec => []RunningHasPing`.

The inductive invariant is `IInv == TypeOK /\ OnePlace /\ RunningHasPing /\ WorkIsKnown`.
OnePlace is not inductive by itself: `Commit` writes a completed row for whatever job
the process has in hand, so one must know that it was pushed. `WorkIsKnown` says so of
every place an id can be held in memory: `proc`, `exec` and each entry of `chan`. There
is a lemma per action, with a step per conjunct that the action can disturb.

On top of it:

- `ImplementsLifecycle`: `Spec => LifecycleSpec`. Under `IInv`, `InsertJob` maps to
  Enqueue, `Pull` to Claim, `ZombieSweep` to Restart of the released set, `Commit` to
  Finish the first time and to a stutter when it overwrites a result; every other action
  leaves the mapped rows alone.
- `ExecutionsAccounted`: `Spec => []ClaimsAccounted`. `ClaimsInv` adds that the workers
  of a job are finitely many, since they are counted, and that an idle worker has none.
- `OneRunAtATime`: `Spec => []OneRunUnlessRestarted`, with any number of monitors. While
  `zombie_job_counter` has no entry for a run of the script (`Quiet`), one run at most is
  in the queue or about to push the next one. The property is not inductive: a
  completion that is past its INSERT goes on to push the next run although a cancel has
  taken the row from it. `SingleRun` counts such completions as runs, `OneAttempt` says
  that one attempt of a job is handed from the main loop to the channel and on to the
  processor, never copied, and `MonitorInv` that whatever a monitor fails, or is about to
  fail, has its entry in the counter. Since an entry is never taken away (`CounterGrows`),
  `PerpetualInv == MonitorInv /\ (Quiet => OneAttempt /\ SingleRun)` is inductive. What
  happens once a run was restarted is what `perpetual_single` shows.

`TriggerLeaseProofs` proves, from `TriggerLeaseAssumption` and for any sets of servers
and tasks and any number of edits, errors and crashes:

- `TypeCorrect`: in particular, a task only lives on a server that runs;
- `LeaseIsKept`: `Spec => []LeaseInv`;
- `LeaseIsExclusive`: `Spec => []OneHolder`: no more tasks hold the trigger than one plus
  the lapses on record; without a lapse never two.

OneHolder is not inductive: a task that has lost the row but not yet left may reset the
ping, and so let a third one in. LeaseInv counts as engaged whoever may still ping or
reset the ping, adds the resets that a passed-over ping still has to make and one for a
ping that is not fresh (a `Claim` may come), and says that the sum is at most one more
than the lapses: `Claim` turns an open ping into an engaged task, a reset turns an
engaged or resetting task into an open ping, and only a lapse adds to the sum.

`FlowStepsProofs`, for any number of modules, retries, threads and faults: `OneStepAtATime`
(StepsInSequence), `CancelledFlowStops` (CancelStopsFlow), `PushedInOrder`
(StepsInOrder) and `SuccessOnlyWhenEarned` (SuccessIsEarned), all under `~SlowWorkers`:
a live worker whose ping expires is taken for dead and both it and its successor push
a step (section 7). `TokenInv` is the core: the flow is in its own row before it starts,
in the row of one step, or in the memory of one thread, never in two of them, and what
that thread has read of flow_status outside of a transaction is still what
flow_status says. A flow goes back to the queue only while its first module is waiting
and no step is pushed (`StartsOnce`), which is what the monitor's query must
ensure. `OrderInv` then relates the pushed jobs to `step`, `module` and `fail_count`;
`CancelInv` counts the push that a cancel may still meet.

`FlowFanOutProofs`, for any number of children, any parallelism, threads and deaths:
`JoinCountsAll` (JoinIsComplete) under `~DbErrors` and `ParallelismIsKept`
(BoundedParallelism) under `~DbErrors` and `~LongWaits`. A statement that fails after the
commit of a report makes the report again and counts a child twice; a child whose
fourteen days pass starts before its turn. `JoinInv` says that a child is held by one
thread and that `index` never exceeds the number of children that are completed and no
longer held; at Iterations this leaves none. `ReachInv` says that children up to
`Parallelism + index` are started and that the counted ones are among them, unless all
that is left is being cancelled.

`FlowIsNotForgotten` proves the safety part of FlowCompletes (NeverForgotten): a
flow in the queue has a thread at it, a child that can be pulled or restarted, a task that
cancels it, or a ping or a lock for which the monitor cancels it. Here errors that count a child
twice (`DbErrors`) and the fourteen days (`LongWaits`) are allowed. It is assumed that
(`Watched`) no thread dies at "last" or "advance", the server's tasks do not
die, no child fails before its first step and no user cancels. Without any one of these TLC finds a flow that
nobody looks after (section 7; for the server's tasks from `MaxFaults = 2`; a flow that a
user has cancelled is left out of the monitor's query). The inductive invariant is
`WatchInv`:

- `PushIsWatched`: until the children are pushed, the flow is queued or has a ping;
- `LocksWatch`: with several children, each has its lock until it is completed, and the
  lock is stamped until the report has ended; `PingWatches`: a single child has no lock,
  and its report is watched by the flow's ping;
- `AllAccounted`: children whose report is committed and no longer watched, together with the
  children whose place has come and that nobody is about to release, are no more than
  `index`. A thread that dies in the release leaves its own lock to be found and a child
  passed over, so that the sum stays. If nothing were left to watch, every child up to
  `Parallelism + index` would be one of them, more than `index` allows.

`NestedFlowProofs`, for any flows within each other and any number of jobs, items and
faults: `TypeCorrect`, `OneThreadOfControl` (OneAtATime), `IterationsFollow`
(IterationsInOrder), `NoFailureLost` (NoFailureIsLost), `NothingSkipped`
(NothingIsSkipped), `FailuresHandledOnce` (HandledOnce) and `FailureModuleOnce`.

- `TokenInv`: one job of the tree can be taken up, or one worker is at it. It rests on
  what the monitor may put back: a flow returns to "queued" only while it has not
  started, its children are then only runs of the preprocessor, its ping is null while
  one of them is in the queue, and it is not stale under the worker.
- `ChildInv`: at most one live job below each flow, and the worker is not at a flow
  with a live job. `IterInv`: the live job, the one that is reported and the one before
  the next push are those of the iteration, count and attempt that flow_status points
  at. `OrderInv` adds to IterationsInOrder that only children have an index above zero.
- `LossInv`: nothing below a flow is open but the live or reported job, the attempt to
  be retried, or what the preprocessor or the failure module will decide. NoFailureIsLost
  speaks of flows that have succeeded; LossInv says it of every point on the way.
- `SkipInv`, for NothingSkipped: every module before `step` is through (it was run, is
  empty, or was gone on after), in a flow that is in the queue, that the worker is at and
  that has succeeded; `StopKnown` and `ReportKnown` say that a worker which ends a flow
  before its last module does so for a stop that `history` has. A stop in a branch is one
  of the flow around it, at any depth: `Stopped` is a recursive function over the tree of
  jobs. That such a function satisfies its equation (`BelowFix`) follows from the least
  set that is closed under it, and what an induction over the tree would give from a
  least counterexample (`FromLater`, with `WFMin`): a child has a greater number than its
  flow. Neither needs the library's induction theorems with an operator as parameter.
- `PathInv`, for the two theorems on failure modules: whatever is in the queue, and the
  flow the worker is at, are on the way from the root to the job pushed last. Hence "the
  last child of this flow" is "the last job of the tree" at the moments that matter.
- `HandlerInv`: the failure module is run once and nothing is pushed after it
  (`OneHandler`), since no job is past its flow's status (`StepsBelow`). `FailureModuleOnce` states this part, and needs
  no assumption on faults: deaths and errors do not run a failure module twice.
- `WorkerHandled`, for FailuresHandledOnce: at each point of a report, what
  has_triggered_error_handler (`worker.triggered`) claims is so of the job pushed last.
  The code carries this flag from level to level as an argument, and a branch's failure
  module silences that of the flow around it by this flag alone.
- NoFailureLost, NothingSkipped, FailureModuleOnce and FailuresHandledOnce assume
  `NoEmptyHandlers`: a flow without modules has not both a preprocessor and a failure
  module. Without it NoFailureIsLost fails (section 7). HandledOnce itself only speaks of
  behaviours in which no worker has died and no transition has failed (`faults = 0`).

`ApprovalProofs`, for any number of modules, messages, requests and deaths: `TypeCorrect`,
`StepsAreApproved` (PassedIsApproved) and the action property `DisapprovedFlowFails`
(DisapprovalIsFinal). The counter does not occur in the invariant except for its type:
what lets a step pass is the set of rows counted in the worker's transaction, so a
counter written from an old read can only delay. `PushIsSettled` carries the verdict from
the count to the push. `Refused(i)` is closed under every step: a parked and disapproved
flow can only be taken up to be rejected, or be cancelled.

`SchedulesProofs`, for any expressions, horizon and number of jobs, edits and faults:
`TypeCorrect`, `ScheduleGoesOn` (NoSilentStop), `RunsDoNotOverlap` (NoOverlap) and the
action properties `TicksGoForward` (TickIsLater) and `DisabledIsQuiet`
(QuietOnceDisabled). A queued tick is followed by another only if the copy of the row
that its run reads lets it: `Responsible` says so of each point of
`push_scheduled_job`, `TickAhead` that an enabled schedule has a responsible job as long
as the clock is not set back, and `LatestIsAhead` that without edits it is the one with
the latest instant, so that setting the clock back does no harm. NoSilentStop excepts
both together (`Regular`), and the runs that `lost` records. An error of `handle_flow`
otherwise leaves the run responsible (it is completed with scheduling, or handled again)
or comes after it has done its part, which is what `HandleFailsRows` and
`ResponsibleStays` show. RunsDoNotOverlap speaks of the runs that have come to their
first step (`way = "first"`): at most one of them is past its look at the others.

`WorkflowAsCodeProofs`, for any script and any number of threads, deaths and failing
pushes: `StoredResultsAreReal` (ResultsAreReal), from `ResultInv`: an id belongs to one
step, is new when it is pushed, and a child is run and reported by one thread. For
scripts without tasks after an approval (`NoTasksAfterApproval`: a late message would
lower the count of the later dispatch, section 7): `ChildrenAreCounted` (CountsChildren),
`DrivenByOne` (OneDriver), `StepsAreNotRepeated` (StepsOnce) and `WakeUpsArrive`
(NoLostWakeup). `OrderlyInv` says that row, checkpoint and children under way belong to
the same dispatch (`FamilyInv`), that suspend is the number of results it lacks
(`CountInv`), that one worker drives (`DriverInv`), that a step has a child more
only for a worker or a push that was lost (`TriesInv`), and that each missing result has
someone under way to deliver it (`WakeInv`).

The proofs of the last six modules share a layout: one lemma per action that states what the action
writes, then one lemma per conjunct of the invariant with a step per action. Each
inductive invariant was checked by TLC on the instance of its run, and those of
NestedFlow also on other flows, before it was proved. `FlowSteps`, `FlowFanOut` and
`NestedFlow` keep their bounds as CONSTANTS (`MaxJobs`, `MaxFaults`, ...) that may be any
natural number.

Only model-checked:

- liveness (EveryJobCompletes, FlowCompletes, EveryJobEnds, FlowEnds, ApprovedGoesOn,
  WorkflowEnds, KeepsTicking, IsListenedTo, OldConfigIsOwed), which needs fairness and is
  outside what the prover handles. FlowIsNotForgotten is what FlowCompletes needs of each
  state; that threads and monitor then act is the fairness of the run.

## 7. Findings

Two runs have the expectation "violation".

- `perpetual_single`: "There can be only one perpetual script run per 10 seconds window",
  says the comment at `jobs.rs:570`. The monitor, which every deployment runs, gives a
  running row back to the queue when its ping is too old, although its worker may only
  be slow. When that worker and the next one complete the run at the same time, the
  second INSERT waits for the first and goes on by ON CONFLICT DO UPDATE (`jobs.rs:958`),
  and both call `restart_job_if_perpetual` (`jobs.rs:1338`): from there on the script has
  two chains of runs. The limits are those of the code and no process fails.
  OneRunUnlessRestarted is what remains true.
- `wac_second_approval`: the second `waitForApproval()` of a workflow is told the answer
  of the first one, since `prepare_checkpoint_for_resume` reads the oldest `resume_job`
  row of the job without its resume_id (`wac_executor.rs:147`; the comment at
  `bun_executor.rs:2922` says each gets a unique record).

Other behaviours met while modelling. The ones with a change of constants can be seen
by making it in the named cfg; the others are excepted by the named definition, or are
visible in the definition itself.

*Queue.*
- Of two completions that overlap, the second overwrites the result of the first
  instead of getting AlreadyCompleted (`jobs.rs:958`, `990`).
- A cancelled run of a perpetual script that a worker pulls and refuses is completed
  without `canceled_by`, and restarted (`worker.rs:3342`, `jobs.rs:1338`).

*Flows.*
- `SlowWorkers = TRUE` in `FlowSteps.cfg` violates StepsInSequence: a worker slower than
  the transition timeout in its first `handle_flow` and the one that takes over both
  push the first step (`monitor.rs:3435`).
- A cancelled flow, or one with suspend above zero, that loses its worker between two
  steps is left out of the monitor's query (`monitor.rs:3384`, `3387`).
- `DbErrors = TRUE` in `FlowFanOutSafety.cfg` violates JoinIsComplete (with
  `Iterations = 2`, `Skipped = {}`) or BoundedParallelism (with `Parallelism = 1`): an error after the
  commit of a report makes the report again and counts the child twice
  (`worker_flow.rs:206`).
- Adding "advance" or "last" to the `CrashPoints` of `FlowFanOutLiveness.cfg` violates
  FlowCompletes: between the join and the completion of the flow neither a ping nor a
  lock tells of it (`worker_flow.rs:820`). So does `StartErrors = TRUE`, and the death of
  the server between deleting a lock and cancelling the flow (`monitor.rs:3641`).

*Nested flows* (IsExcused, IsThrough and HandledOnce name them).
- A sub-flow that ends by an error of its own chaining, or by a cancel of itself alone,
  is reported to the flow above with the success it had so far, which may be TRUE
  (`worker_flow.rs:1930`, `1969`). One whose failure module has recovered is a success in
  its row and reported as a failure (`success && !is_failure_step`).
- A while loop goes on after a failed iteration whatever skip_failures says
  (`worker_flow.rs:1040`); what keeps it from starting the next one is should_continue_flow
  alone. With a retry, or with a failure module that was not run inside the iteration, it
  therefore goes on for ever, and no attempt is counted: fail_count is only raised when
  the module's status is Failure (`worker_flow.rs:3242`).
- A worker that dies between the transaction that ends the preprocessor and the statement
  that stores its result leaves a flow at step 0 that the monitor takes for one that
  "hasn't started yet" (`monitor.rs:3408`), so that its steps run with the arguments from
  before (`worker_flow.rs:1509`). NothingIsSkipped excepts it.
- An error of the first `handle_flow` is reported as a failure of the step the flow is at
  (`worker.rs:1427`). When that is a first module with continue_on_error, the flow goes on
  with the second one and the first has never been run. IsThrough excepts it.
- A branch that has run its failure module makes the flow around it end without its own.
  When something deeper in that branch could not go on (an error of the chaining), the
  outer failure module is run as well, at any depth (`CutShort` in FailsAnew).
- stop_after_if with an error message on a module with a retry is retried, and on one
  with continue_on_error goes on with the next step, instead of running the failure
  module (`worker_flow.rs:1589`).
- fail_count is not reset when a step is passed by continue_on_error after its retries
  (`worker_flow.rs:1351`), so that the next step has fewer attempts.
- stop_after_if of a loop without items stops the whole flow, not the loop
  (`worker_flow.rs:1087` asks for a module in progress).
- A flow without modules that has a preprocessor and a failure module: when the failure
  module fails too, its step is 0, which for a flow of length 0 is "not a failure step"
  (`worker_flow.rs:507`), so that the flow is pushed again, has no modules to run and ends
  as a success. NoEmptyHandlers leaves such flows out of the proof; the run has none.
- continue_on_error on the last step fails the flow without its failure module.
- A loop that has failed and whose stop_after_all_iters_if stops as skipped ends the flow
  as skipped.

*Approvals.*
- Concurrent requests write a counter from what they have read (`windmill-api/src/jobs.rs:3104`,
  `3126`): the flow then waits for its deadline, and is resumed there by the rows
  (ApprovedGoesOn).
- A request by flow that finds the counter above zero and the step no longer waiting (it
  was resumed by its deadline) is taken for one of a workflow as code
  (`windmill-api/src/jobs.rs:3273`).

*Workflow as code.* A second message for an approval that arrives when the workflow has
gone on to dispatch children lowers their counter (`windmill-api/src/jobs.rs:3008`), so
that CountsChildren does not hold of a script with tasks after an approval; the script
of the run has its approval at the end.

*Schedules.*
- An error of the first `handle_flow` before its push (`worker_flow.rs:2488`) in a flow
  whose first module has continue_on_error stops the schedule silently: `step` is
  incremented, so that neither `handle_flow` (`worker_flow.rs:2484`) nor the completion
  (`jobs.rs:1145`) schedules. The comment at `jobs.rs:1134` means the completion to make
  up for a first `handle_flow` that failed, and `tests/schedule_push.rs:990` says that
  the schedule is never left enabled without a next tick. NoSilentStop and KeepsTicking
  except it by `lost`; without this exception the run `schedules` finds it.
- A run whose first `handle_flow` has failed pushes its failure module without looking for
  other runs, and is completed, if the failure module fails too, with another look at
  the schedule (`worker_flow.rs:2752`, `jobs.rs:1138`).
- An edit after the clock was set back may stop the schedule silently: the run whose
  instant is ahead again is taken for the next tick (Regular).
- A run that has read the row before the schedule was disabled pushes one last tick;
  two processes may push a tick each, since already_exists is asked for before the lock
  (`schedule.rs:186`).
- With no_flow_overlap, a run whose first step is a loop looks for other runs at each
  iteration, and may stop the run that came first (`worker_flow.rs:2752`).

*Triggers.*
- The ping with which a consumer begins may fail, since the trigger was edited; it then
  resets `last_server_ping`, its result is not looked at (`listener.rs:629`) and the task
  consumes on. If its own server claims the trigger before `loop_ping`'s next ping, that
  ping succeeds: two tasks of a server hold the lease, one of them with the old
  configuration. The same comes of a failed ping that `loop_ping` has met just when
  `get_consumer` is ready (`listener.rs:612`), and of a stall. OneHolder, LeaseInv and
  OldConfigIsOwed count all of these in `lapses`.
- A server that has fetched the trigger before an edit and claims it afterwards listens
  with the old configuration until the next edit (`listener.rs:663`; the comment at
  `windmill-common/src/triggers.rs:12` says the edit forces the new one to be picked up).
  OldConfigIsOwed excepts these leases, and no others, by `task[t].old`.
- disable_with_error disables the trigger whoever holds the lease (a lapse as well, when
  the task had given it up).

## 8. What is not modelled

- In JobQueue: same_worker jobs and their channel, dedicated and agent (HTTP) workers,
  the drain at shutdown, tags and priorities (they restrict which worker pulls a job,
  not what happens to it), flow columns of the rows.
- In the flow modules: sleep, caching, mocked steps, restarted flows,
  same_worker flows, squashed loops, retry_if and back-off. The report of an error that
  fails again is left out.
- In Approval: who may approve (groups, self-approval, user_auth_required), the form and
  hide_cancel: they refuse requests and change no row. Steps always succeed.
- In WorkflowAsCode: retry options of a step, nested workflows, cancelling.
- In Schedules: the attempts that HandleFails makes are not counted, and a second error is
  treated like the first one although the code then ends the flow: the model allows more.
  Left out are paused_until, dynamic_skip, retries of scheduled scripts, error and
  recovery handlers; deleting a schedule is a switch off.
- In TriggerLease: capture listeners (the same code on another table), what a consumer
  does with its messages, and the further pings of the websocket consumer. A statement
  of a future that is dropped takes effect before the task goes on, or not at all. A
  reset that fails is ignored by the code; the next listener then waits for `Expire`.
- Concurrency limits and debouncing: the updates of the counters are in the enterprise
  sources, which are not in this repository.
- API CRUD, executors, parsers, frontend, CLI, clients: I/O or stateless code, and by
  far the most of the 227 000 lines (request handlers around single statements, generated
  query builders, process start-up for each language). They keep no state of their own
  that a model could say more about than their text does, which is why the map covers a
  small share of the repository although it covers its concurrent core. A job's
  execution is one step that succeeds, fails, times out or is killed.

## 9. Plan

Next modules and operations: same_worker jobs and the drain at shutdown in JobQueue; restarted
flows in NestedFlow; dedicated workers.

Next theorems: HandledOnce when workers die (a report that is made again has lost
has_triggered_error_handler); for FlowSteps, that a flow between two steps has a ping the
monitor will find, which is the safety part of its FlowCompletes.
