----------------------------- MODULE FlowSteps -----------------------------
(***************************************************************************)
(* The state transitions of one flow: each step is a job of its own, and   *)
(* the worker that completes it updates flow_status in a first transaction *)
(* and pushes the next step (or completes the flow) in a second one.       *)
(* Between them the flow has no job in the queue and lives only in the     *)
(* memory of that worker; handle_zombie_flows finds a flow left there by   *)
(* its ping.                                                               *)
(*                                                                         *)
(* Modelled: a flow of N plain steps with retries, continue_on_error and a *)
(* failure module.  How a step's job is claimed, restarted or failed is    *)
(* JobQueue's; its row is here one atomic state.                           *)
(***************************************************************************)
EXTENDS Naturals, FiniteSets

CONSTANTS
    N,               \* number of modules, indexed from 0 as in the code
    Attempts,        \* retry attempts of each module and of the failure module
    HasFailureModule,
    ContinueOnError, \* the modules with continue_on_error
    Proc,            \* threads of workers or of a server, one job each
    MaxJobs,         \* bound: jobs pushed by the flow
    MaxFaults,       \* bound: crashes, missed pings and errors of a transition
    SlowWorkers,     \* whether a ping may expire although its worker is alive
    UserCancels      \* whether users cancel the flow

ASSUME FlowAssumption ==
    /\ N \in Nat \ {0}
    /\ Attempts \in Nat
    /\ HasFailureModule \in BOOLEAN
    /\ ContinueOnError \subseteq 0 .. (N - 1)
    /\ MaxJobs \in Nat \ {0}
    /\ MaxFaults \in Nat
    /\ SlowWorkers \in BOOLEAN
    /\ UserCancels \in BOOLEAN

Flow == 0            \* the id of the flow's own job; its steps' jobs follow
StepJob == 1 .. MaxJobs
Job == {Flow} \cup StepJob

Status == {"success", "failure", "canceled"}
Row == {"none", "queued", "running"} \cup Status
Module == {"WaitingForPriorSteps", "WaitingForExecutor", "Success", "Failure"}

VARIABLES
    row,          \* each job's place: in the queue, or its status once completed
    canceled,     \* jobs whose queue row has canceled_by set
    ping,         \* v2_job_runtime.ping of the flow
    stepOf,       \* the module each job was pushed for; N is the failure module
    step,         \* flow_status.step
    module,       \* flow_status.modules, with failure_module at index N
    fail_count,   \* flow_status.retry.fail_count
    proc,         \* what each thread is doing
    kills,        \* jobs that a forced cancel has spawned a task to complete
    faults,       \* crashes, missed pings and errors so far
    jobsAtCancel  \* history: how many jobs there were when the flow was cancelled

flow_status == <<step, module, fail_count>>
vars == <<row, canceled, ping, stepOf, step, module, fail_count, proc, kills,
          faults, jobsAtCancel>>

InQueue(j) == row[j] \in {"queued", "running"}
Pushed == {j \in StepJob : row[j] # "none"}

\* Step::from_i32_and_len: an index past the modules is the failure module.
Idx(s) == IF s >= N THEN N ELSE s

(***************************************************************************)
(* A thread: "run" executes a step, "complete" has its outcome, "read" and *)
(* "update" are update_flow_status_after_job_completion before and after   *)
(* it has read old_status, "push" is the handle_flow that follows, "start" *)
(* that of a flow just pulled, "finish" is add_completed_job of the flow.  *)
(* step, mod and fails are the flow_status the thread has read.            *)
(***************************************************************************)
Idle == [pc |-> "idle", job |-> Flow, status |-> "success",
         step |-> 0, mod |-> "WaitingForPriorSteps", fails |-> 0,
         unrecoverable |-> FALSE]
Thread == [pc : {"idle", "run", "complete", "read", "update", "start", "push", "finish"},
           job : Job, status : Status, step : Nat, mod : Module, fails : Nat,
           unrecoverable : BOOLEAN]

TypeOK ==
    /\ row \in [Job -> Row]
    /\ canceled \subseteq Job
    /\ ping \in {"null", "fresh", "stale"}
    /\ stepOf \in [StepJob -> 0 .. N]
    /\ step \in Nat
    /\ module \in [0 .. N -> Module]
    /\ fail_count \in 0 .. Attempts
    /\ proc \in [Proc -> Thread]
    /\ kills \subseteq Job
    /\ faults \in 0 .. MaxFaults
    /\ jobsAtCancel \in 0 .. MaxJobs

Init ==
    /\ row = [j \in Job |-> IF j = Flow THEN "queued" ELSE "none"]
    /\ canceled = {}
    /\ ping = "null"
    /\ stepOf = [j \in StepJob |-> 0]
    /\ step = 0
    /\ module = [i \in 0 .. N |-> "WaitingForPriorSteps"]
    /\ fail_count = 0
    /\ proc = [p \in Proc |-> Idle]
    /\ kills = {}
    /\ faults = 0
    /\ jobsAtCancel = MaxJobs

\* Threads that hold the flow between two of its jobs.
InTransition ==
    \E p \in Proc : proc[p].pc \in {"read", "update", "start", "push", "finish"}
-----------------------------------------------------------------------------
(* Running the flow and its steps.                                         *)

\* A worker pulls the flow itself and calls handle_flow.
PullFlow(p) ==
    /\ proc[p].pc = "idle"
    /\ row[Flow] = "queued"
    /\ row' = [row EXCEPT ![Flow] = "running"]
    /\ ping' = "fresh"
    /\ proc' = [proc EXCEPT ![p] =
                   [Idle EXCEPT !.pc = "start", !.step = step,
                                !.mod = module[Idx(step)], !.fails = fail_count]]
    /\ UNCHANGED <<canceled, stepOf, flow_status, kills, faults, jobsAtCancel>>

\* A worker pulls a step; one pulled with canceled_by set is failed at once.
PullStep(p, j) ==
    /\ proc[p].pc = "idle"
    /\ row[j] = "queued"
    /\ row' = [row EXCEPT ![j] = "running"]
    /\ proc' = [proc EXCEPT ![p] =
                   IF j \in canceled
                     THEN [Idle EXCEPT !.pc = "complete", !.job = j, !.status = "failure"]
                     ELSE [Idle EXCEPT !.pc = "run", !.job = j]]
    /\ UNCHANGED <<canceled, ping, stepOf, flow_status, kills, faults, jobsAtCancel>>

\* The step ends by itself, or is killed because its row says canceled.
FinishStep(p, s) ==
    /\ proc[p].pc = "run"
    /\ s = "canceled" => proc[p].job \in canceled
    /\ proc' = [proc EXCEPT ![p] = [@ EXCEPT !.pc = "complete", !.status = s]]
    /\ UNCHANGED <<row, canceled, ping, stepOf, flow_status, kills, faults, jobsAtCancel>>

\* commit_completed_job of a step stamps the flow's ping in the same transaction.
PingParent ==
    ping' = IF InQueue(Flow) /\ Flow \notin canceled THEN "fresh" ELSE ping

\* add_completed_job of a step, then the report to the flow.  When the job was
\* already completed, handle_job_error only logs that and reports a failure.
CompleteStep(p) ==
    LET t == proc[p] IN
    /\ t.pc = "complete"
    /\ IF InQueue(t.job)
         THEN /\ row' = [row EXCEPT ![t.job] = t.status]
              /\ canceled' = canceled \ {t.job}
              /\ PingParent
              /\ proc' = [proc EXCEPT ![p] = [t EXCEPT !.pc = "read"]]
         ELSE /\ proc' = [proc EXCEPT ![p] = [t EXCEPT !.pc = "read", !.status = "failure"]]
              /\ UNCHANGED <<row, canceled, ping>>
    /\ UNCHANGED <<stepOf, flow_status, kills, faults, jobsAtCancel>>
-----------------------------------------------------------------------------
(* update_flow_status_after_job_completion.                                *)

\* old_status is read outside the transaction.  It went with the flow's queue
\* row, if the flow is completed; the report then changes nothing.
ReadStatus(p) ==
    /\ proc[p].pc = "read"
    /\ proc' = [proc EXCEPT ![p] =
                   IF InQueue(Flow)
                     THEN [@ EXCEPT !.pc = "update", !.step = step,
                                    !.mod = module[Idx(step)], !.fails = fail_count]
                     ELSE Idle]
    /\ UNCHANGED <<row, canceled, ping, stepOf, flow_status, kills, faults, jobsAtCancel>>

\* evaluate_retry, with a retry policy of Attempts constant attempts.
MayRetry(fails) == fails < Attempts

\* Mutant of IncStep: a failed module is passed without continue_on_error.
IncStepAnyway(t) == t.status = "success" \/ ~MayRetry(t.fails)

\* Whether the transaction moves step past the module it reports on.
IncStep(t) ==
    \/ t.status = "success"
    \/ Idx(t.step) \in ContinueOnError /\ ~MayRetry(t.fails)

\* Mutant of ShouldContinue: the flow's canceled_by is not looked at.
ShouldContinueIfCanceled(t) ==
    LET isLastStep == IF IncStep(t) THEN t.step + 1 >= N ELSE t.step >= N IN
    CASE t.status = "success" -> ~isLastStep
      [] OTHER ->
           /\ ~t.unrecoverable
           /\ IF Idx(t.step) \in ContinueOnError THEN ~isLastStep
              ELSE MayRetry(t.fails) \/ (t.step < N /\ HasFailureModule)

\* Mutant of ShouldContinue: the last step is reached one step early.
ShouldContinueShort(t) ==
    LET isLastStep == IF IncStep(t) THEN t.step + 2 >= N ELSE t.step >= N IN
    /\ Flow \notin canceled
    /\ CASE t.status = "success" -> ~isLastStep
         [] OTHER ->
              /\ ~t.unrecoverable
              /\ IF Idx(t.step) \in ContinueOnError THEN ~isLastStep
                 ELSE MayRetry(t.fails) \/ (t.step < N /\ HasFailureModule)

\* should_continue_flow.
ShouldContinue(t) ==
    LET isLastStep == IF IncStep(t) THEN t.step + 1 >= N ELSE t.step >= N IN
    /\ Flow \notin canceled
    /\ CASE t.status = "success" -> ~isLastStep
         [] OTHER ->
              /\ ~t.unrecoverable
              /\ IF Idx(t.step) \in ContinueOnError THEN ~isLastStep
                 ELSE MayRetry(t.fails) \/ (t.step < N /\ HasFailureModule)

NewModule(t) == IF t.status = "success" THEN "Success" ELSE "Failure"

\* The outcome of a flow that does not continue.  A failure module makes the
\* flow a success only if its result says recover.
FlowOutcome(t, recover) ==
    IF Flow \in canceled THEN "canceled"
    ELSE IF t.status = "success" /\ (t.step < N \/ recover) THEN "success"
    ELSE "failure"

\* The transaction.  It writes what old_status made of the report, on the
\* module old_status.step points at, whichever job is reported.
UpdateStatus(p) ==
    LET t == proc[p] IN
    /\ t.pc = "update"
    /\ IF InQueue(Flow)
         THEN /\ module' = [module EXCEPT ![Idx(t.step)] = NewModule(t)]
              /\ step' = IF IncStep(t) THEN t.step + 1 ELSE step
              /\ fail_count' = IF t.status = "success" /\ t.fails > 0 THEN 0 ELSE fail_count
              /\ IF ShouldContinue(t)
                   THEN proc' = [proc EXCEPT ![p] =
                                   [t EXCEPT !.pc = "push", !.step = step',
                                             !.mod = module'[Idx(step')],
                                             !.fails = fail_count']]
                   ELSE \E recover \in BOOLEAN :
                           proc' = [proc EXCEPT ![p] =
                                      [t EXCEPT !.pc = "finish",
                                                !.status = FlowOutcome(t, recover)]]
         ELSE /\ proc' = [proc EXCEPT ![p] = Idle]
              /\ UNCHANGED flow_status
    /\ UNCHANGED <<row, canceled, ping, stepOf, kills, faults, jobsAtCancel>>

\* The transaction is rolled back: the report is made again, as a failure that
\* nothing recovers.  An error of that one is not modelled.
UpdateFails(p) ==
    /\ proc[p].pc = "update" /\ ~proc[p].unrecoverable /\ faults < MaxFaults
    /\ proc' = [proc EXCEPT ![p] =
                   [@ EXCEPT !.pc = "read", !.status = "failure", !.unrecoverable = TRUE]]
    /\ faults' = faults + 1
    /\ UNCHANGED <<row, canceled, ping, stepOf, flow_status, kills, jobsAtCancel>>
-----------------------------------------------------------------------------
(* handle_flow and push_next_flow_job.                                     *)

\* The module to run next: a failed one is retried, or gives way to the failure
\* module.
NextModule(t) ==
    IF t.mod = "Failure" /\ ~MayRetry(t.fails) /\ Idx(t.step) \notin ContinueOnError
      THEN N ELSE Idx(t.step)

NextFailCount(t) ==
    CASE t.mod = "Failure" /\ MayRetry(t.fails) -> t.fails + 1
      [] t.mod = "Failure" /\ ~MayRetry(t.fails) /\ NextModule(t) = N /\ Attempts > 0 -> 0
      [] OTHER -> fail_count

\* One transaction pushes the job, points flow_status at it and resets the
\* ping.  It does not look at the flow's row: for a flow that is completed in
\* the meantime only the push has an effect.
PushJob(t, i, j) ==
    /\ row' = [row EXCEPT ![j] = "queued"]
    /\ stepOf' = [stepOf EXCEPT ![j] = i]
    /\ IF InQueue(Flow)
         THEN /\ module' = [module EXCEPT ![i] = "WaitingForExecutor"]
              /\ step' = i
              /\ fail_count' = NextFailCount(t)
              /\ ping' = "null"
         ELSE UNCHANGED <<flow_status, ping>>

\* A module that is already a success is reported again through the channel,
\* as a success of the flow and not of a job.
PushNext(p) ==
    LET t == proc[p]  j == Cardinality(Pushed) + 1 IN
    /\ t.pc \in {"start", "push"}
    /\ IF t.mod = "Success"
         THEN /\ proc' = [proc EXCEPT ![p] =
                             [t EXCEPT !.pc = "read", !.job = Flow, !.status = "success"]]
              /\ UNCHANGED <<row, stepOf, flow_status, ping>>
         ELSE /\ j \in StepJob
              /\ PushJob(t, NextModule(t), j)
              /\ proc' = [proc EXCEPT ![p] = Idle]
    /\ UNCHANGED <<canceled, kills, faults, jobsAtCancel>>

\* handle_flow returns an error.  For a flow just pulled handle_job_error reports
\* a failure of its current module; otherwise the flow is completed.
PushFails(p) ==
    /\ proc[p].pc \in {"start", "push"} /\ faults < MaxFaults
    /\ proc' = [proc EXCEPT ![p] =
                   [@ EXCEPT !.pc = IF proc[p].pc = "start" THEN "read" ELSE "finish",
                             !.job = Flow, !.status = "failure"]]
    /\ faults' = faults + 1
    /\ UNCHANGED <<row, canceled, ping, stepOf, flow_status, kills, jobsAtCancel>>

\* add_completed_job of the flow; an error of it is an error of the report, which
\* finds no flow any more.
FinishFlow(p) ==
    /\ proc[p].pc = "finish"
    /\ row' = IF InQueue(Flow) THEN [row EXCEPT ![Flow] = proc[p].status] ELSE row
    /\ canceled' = canceled \ {Flow}
    /\ ping' = IF InQueue(Flow) THEN "null" ELSE ping
    /\ proc' = [proc EXCEPT ![p] = Idle]
    /\ UNCHANGED <<stepOf, flow_status, kills, faults, jobsAtCancel>>
-----------------------------------------------------------------------------
(* Cancelling.                                                             *)

\* cancel_job: a forced cancel spawns a task for each job of the tree; another
\* marks the rows of the tree, except that a flow that does not run is completed
\* by a task as well.
Cancel(force) ==
    /\ UserCancels
    /\ InQueue(Flow) /\ Flow \notin canceled /\ kills = {}
    /\ LET tree == {j \in Job : InQueue(j)}
           tasks == IF force THEN tree ELSE {Flow} \cap {j \in tree : row[j] = "queued"} IN
       /\ kills' = tasks
       /\ canceled' = canceled \cup (tree \ tasks)
       /\ jobsAtCancel' = IF Flow \in tasks THEN jobsAtCancel ELSE Cardinality(Pushed)
    /\ UNCHANGED <<row, ping, stepOf, flow_status, proc, faults>>

\* One spawned task: add_completed_job_error, without a report to the flow.
KillJob(j) ==
    /\ j \in kills
    /\ kills' = kills \ {j}
    /\ row' = IF InQueue(j) THEN [row EXCEPT ![j] = "canceled"] ELSE row
    /\ canceled' = canceled \ {j}
    /\ IF ~InQueue(j) THEN UNCHANGED ping
       ELSE IF j = Flow THEN ping' = "null" ELSE PingParent
    /\ UNCHANGED <<stepOf, flow_status, proc, faults, jobsAtCancel>>
-----------------------------------------------------------------------------
(* Failures and the monitor.                                               *)

\* A worker dies: what it was doing is lost.
Crash(p) ==
    /\ proc[p].pc # "idle" /\ faults < MaxFaults
    /\ proc' = [proc EXCEPT ![p] = Idle]
    /\ faults' = faults + 1
    /\ UNCHANGED <<row, canceled, ping, stepOf, flow_status, kills, jobsAtCancel>>

\* The server dies with the tasks it has spawned.
CrashServer ==
    /\ kills # {} /\ faults < MaxFaults
    /\ kills' = {}
    /\ faults' = faults + 1
    /\ UNCHANGED <<row, canceled, ping, stepOf, flow_status, proc, jobsAtCancel>>

Executing(j) == \E p \in Proc : proc[p].pc \in {"run", "complete"} /\ proc[p].job = j

\* handle_zombie_jobs takes a running step whose ping is old.  The worker is
\* dead, or was only slow, which is counted as a fault.
Zombie(j) ==
    /\ row[j] = "running"
    /\ Executing(j) => SlowWorkers /\ faults < MaxFaults
    /\ faults' = IF Executing(j) THEN faults + 1 ELSE faults

\* It gives the job back to the queue ...
RestartStep(j) ==
    /\ Zombie(j)
    /\ row' = [row EXCEPT ![j] = "queued"]
    /\ UNCHANGED <<canceled, ping, stepOf, flow_status, proc, kills, jobsAtCancel>>

\* ... or fails it, as any other thread that completes a step.
FailStep(p, j) ==
    /\ proc[p].pc = "idle"
    /\ Zombie(j)
    /\ proc' = [proc EXCEPT ![p] =
                   [Idle EXCEPT !.pc = "complete", !.job = j, !.status = "failure"]]
    /\ UNCHANGED <<row, canceled, ping, stepOf, flow_status, kills, jobsAtCancel>>

\* FLOW_ZOMBIE_TRANSITION_TIMEOUT passes.
PingExpires ==
    /\ ping = "fresh"
    /\ InTransition => SlowWorkers /\ faults < MaxFaults
    /\ faults' = IF InTransition THEN faults + 1 ELSE faults
    /\ ping' = "stale"
    /\ UNCHANGED <<row, canceled, stepOf, flow_status, proc, kills, jobsAtCancel>>

\* Mutant of IsZombieFlow: a flow is a zombie only before its first step.
IsZombieFlowUnstarted ==
    /\ row[Flow] = "running" /\ ping = "stale" /\ Flow \notin canceled
    /\ module[0] = "WaitingForPriorSteps"

\* Mutant of IsZombieFlow: the age of the ping is not looked at.
IsZombieFlowAnyPing == row[Flow] = "running" /\ ping # "null" /\ Flow \notin canceled

\* The query of handle_zombie_flows.
IsZombieFlow == row[Flow] = "running" /\ ping = "stale" /\ Flow \notin canceled

\* A zombie flow that has not started is restarted, another one is cancelled.
HandleZombieFlow ==
    /\ IsZombieFlow /\ kills = {}
    /\ IF module[0] = "WaitingForPriorSteps"
         THEN /\ row' = [row EXCEPT ![Flow] = "queued"]
              /\ UNCHANGED kills
         ELSE /\ kills' = {j \in Job : InQueue(j)}
              /\ UNCHANGED row
    /\ UNCHANGED <<canceled, ping, stepOf, flow_status, proc, faults, jobsAtCancel>>
-----------------------------------------------------------------------------
ThreadStep(p) ==
    \/ PullFlow(p) \/ \E j \in StepJob : PullStep(p, j)
    \/ \E s \in Status : FinishStep(p, s)
    \/ CompleteStep(p) \/ ReadStatus(p) \/ UpdateStatus(p)
    \/ PushNext(p) \/ FinishFlow(p)

Next ==
    \/ \E p \in Proc : ThreadStep(p) \/ UpdateFails(p) \/ PushFails(p) \/ Crash(p)
    \/ \E p \in Proc, j \in StepJob : FailStep(p, j)
    \/ \E j \in StepJob : RestartStep(j)
    \/ \E force \in BOOLEAN : Cancel(force)
    \/ \E j \in Job : KillJob(j)
    \/ CrashServer \/ PingExpires \/ HandleZombieFlow

Spec == Init /\ [][Next]_vars

(***************************************************************************)
(* Threads keep running, the monitor keeps sweeping, spawned tasks run.    *)
(***************************************************************************)
Fairness ==
    /\ \A p \in Proc : WF_vars(ThreadStep(p))
    /\ \A j \in StepJob : WF_vars(~Executing(j) /\ RestartStep(j))
    /\ \A j \in Job : WF_vars(KillJob(j))
    /\ WF_vars(~InTransition /\ PingExpires)
    /\ WF_vars(HandleZombieFlow)

FairSpec == Spec /\ Fairness
-----------------------------------------------------------------------------
(* Properties.                                                             *)

(***************************************************************************)
(* The steps of a flow run in sequence: no two of them are in the queue at *)
(* a time.                                                                 *)
(***************************************************************************)
StepsInSequence == Cardinality({j \in StepJob : InQueue(j)}) <= 1

(***************************************************************************)
(* A flow that succeeds has run every one of its modules to a success, but *)
(* those it may go on without, or its failure module has recovered it.     *)
(***************************************************************************)
Succeeded(i) == \E j \in Pushed : stepOf[j] = i /\ row[j] = "success"

SuccessIsEarned ==
    row[Flow] = "success" =>
        \/ Succeeded(N)
        \/ \A i \in (0 .. N - 1) \ ContinueOnError : Succeeded(i)

(***************************************************************************)
(* A step's job is pushed only when every earlier module has succeeded or  *)
(* may be gone on without; the failure module's, once a module failed; and *)
(* no module is attempted more often than its retry policy says.           *)
(***************************************************************************)
StepsInOrder ==
    \A j \in Pushed :
        /\ stepOf[j] < N => \A i \in (0 .. stepOf[j] - 1) \ ContinueOnError : Succeeded(i)
        /\ stepOf[j] = N => \E i \in 0 .. N - 1 : module[i] = "Failure"
        /\ Cardinality({k \in Pushed : stepOf[k] = stepOf[j]}) <= 1 + Attempts

(***************************************************************************)
(* Once users have cancelled a running flow, at most the one step that a   *)
(* worker was about to push is still started.                              *)
(***************************************************************************)
CancelStopsFlow == Cardinality(Pushed) <= jobsAtCancel + 1

(***************************************************************************)
(* A flow left between two steps by a worker that died is found and ended: *)
(* a flow is completed eventually.  The exception is one that was          *)
(* cancelled and met a fault, which handle_zombie_flows passes over.       *)
(***************************************************************************)
FlowCompletes == <>(row[Flow] \in Status \/ (Flow \in canceled /\ faults > 0))
=============================================================================
