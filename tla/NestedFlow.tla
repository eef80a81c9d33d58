----------------------------- MODULE NestedFlow -----------------------------
(***************************************************************************)
(* Flows within flows: sub-flows, branches, and loops that are not         *)
(* parallel.  Each iteration, branch and sub-flow is a job of its own with *)
(* a flow_status of its own, and its end is a report to the flow above it, *)
(* made by the worker that has ended it.                                   *)
(*                                                                         *)
(* One worker drives the tree.  Two of them at one status are FlowSteps'   *)
(* subject, parallel loops FlowFanOut's, and how a step's own job is       *)
(* claimed, restarted and given up JobQueue's.                             *)
(***************************************************************************)
EXTENDS Integers, Sequences

CONSTANTS
    Flows,        \* the flow values by name, those of iterations and branches too
    Roots,        \* the flows that are run
    MaxItems,     \* bound: items of a for loop
    MaxJobs,      \* bound: jobs of a run
    MaxFaults,    \* bound: deaths of processes and errors
    UserCancels   \* whether users cancel

Kinds == {"script", "flow", "branchone", "branchall", "forloopflow", "whileloopflow"}
Loops == {"forloopflow", "whileloopflow"}
\* stop_after_if: not set, or a clean stop, a stop as skipped, a stop as an error.
Stops == {"none", "stop", "skip", "error"}

\* What a module holds: the flow of a sub-flow step, of each branch, of the body of
\* a loop ("script" for a body that is run without a flow of its own), and the
\* iterations or branches whose failure is skipped.
Module == [kind : Kinds, inner : Seq(DOMAIN Flows \cup {"script"}), skip : SUBSET Nat,
           continue_on_error : BOOLEAN, retry : Nat, skip_if : BOOLEAN,
           stop_after_if : Stops, stop_after_all_iters_if : Stops]

\* payload_from_modules: branches and iterations have the failure module of the flow
\* that they are written in.
Inherits(n, m) ==
    m.kind \notin {"script", "flow"} =>
        \A i \in DOMAIN m.inner :
           IF m.inner[i] = "script"
             THEN m.kind \in Loops /\ ~Flows[n].failure_module
             ELSE Flows[m.inner[i]].failure_module = Flows[n].failure_module

FlowValue == [modules : Seq(Module), failure_module : BOOLEAN, preprocessor : BOOLEAN]

\* A sub-flow step and a loop have one flow inside.
ASSUME NestedFlowAssumption ==
    /\ Flows \in [DOMAIN Flows -> FlowValue]
    /\ \A n \in DOMAIN Flows : \A i \in DOMAIN Flows[n].modules :
          LET m == Flows[n].modules[i] IN
          /\ Inherits(n, m)
          /\ m.kind \in {"flow"} \cup Loops => Len(m.inner) = 1
    /\ {"script", "identity"} \cap DOMAIN Flows = {}
    /\ Roots \subseteq DOMAIN Flows
    /\ {MaxItems, MaxFaults} \subseteq Nat /\ MaxJobs \in Nat \ {0}
    /\ UserCancels \in BOOLEAN

VARIABLES
    job,          \* the jobs pushed so far, as they were pushed
    row,          \* where each of them is
    canceled,     \* rows with canceled_by
    ping,         \* v2_job_runtime.ping of the flows
    flow_status,  \* flow_status of the flows
    worker,       \* what the worker is doing
    kills,        \* tasks spawned by a forced cancel
    history,      \* history: predicates that held, empty modules, preprocessing
    broken,       \* history: flows ended by an error of handle_flow
    faults        \* deaths and errors so far

vars == <<job, row, canceled, ping, flow_status, worker, kills, history, broken, faults>>

Root == 1
PreprocessorStep == -1   \* step of a flow whose preprocessor is not done
Job == 1 .. MaxJobs
Pushed == DOMAIN job
Ended == {"success", "skipped", "failure", "canceled"}
InQueue(j) == row[j] \in {"queued", "running"}
\* A step's own job: the script, or an identity job when skip_if holds.
IsStep(name) == name \in {"script", "identity"}
IsFlow(j) == ~IsStep(job[j].flow)

\* A job, with its place in the flow above it: the module's index (the number of
\* modules for the failure module), the iteration or branch, and the attempt.
JobOf(name, p, step, iter, len, attempt) ==
    [flow |-> name, parent |-> p, step |-> step, iter |-> iter, len |-> len,
     attempt |-> attempt]

\* step, modules[step] with its iterator or branchall, and retry.fail_count.  Only the
\* flow that is run may have a preprocessor.
NewStatus(preprocessor) ==
    [step |-> IF preprocessor THEN PreprocessorStep ELSE 0,
     module |-> "WaitingForPriorSteps", index |-> 0, len |-> 0, fail_count |-> 0]

\* What the worker reports, or goes on with: the flow it is about, the job that
\* ended, its success, stop_early_override, has_triggered_error_handler,
\* unrecoverable, and whether it was the failure module.
Idle == [pc |-> "idle", flow |-> 0, job |-> 0, success |-> TRUE, stop |-> "none",
         triggered |-> FALSE, unrecoverable |-> FALSE, handler |-> FALSE]

JobRecord ==
    [flow : DOMAIN Flows \cup {"script", "identity"}, parent : Nat,
     step : Nat \cup {PreprocessorStep}, iter : Nat, len : Nat, attempt : Nat]

FlowStatus ==
    [step : Nat \cup {PreprocessorStep},
     module : {"WaitingForPriorSteps", "WaitingForExecutor", "InProgress", "Success",
               "Failure"},
     index : Nat, len : Nat, fail_count : Nat]

WorkerState ==
    [pc : {"idle", "run", "update", "start", "push", "finish", "preprocessed"},
     flow : 0 .. MaxJobs, job : 0 .. MaxJobs, success : BOOLEAN, stop : Stops,
     triggered : BOOLEAN, unrecoverable : BOOLEAN, handler : BOOLEAN]

TypeOK ==
    /\ job \in Seq(JobRecord) /\ Len(job) \in Job
    /\ \A j \in Pushed : /\ job[j].parent \in 0 .. j - 1
                         /\ job[j].parent # 0 => IsFlow(job[j].parent)
                         /\ job[j].parent = 0 => IsFlow(j)
    /\ row \in [Job -> {"none", "queued", "running"} \cup Ended]
    /\ canceled \subseteq Pushed
    /\ ping \in [Job -> {"null", "fresh", "stale"}]
    /\ flow_status \in [Job -> FlowStatus]
    /\ \A f \in Pushed :
          flow_status[f].len > 0 => flow_status[f].index < flow_status[f].len
    /\ worker \in WorkerState
    /\ kills \subseteq Pushed
    /\ broken \subseteq Pushed
    /\ faults \in 0 .. MaxFaults

Init ==
    /\ job \in {<<JobOf(n, 0, 0, 0, 0, 0)>> : n \in Roots}
    /\ row = [j \in Job |-> IF j = Root THEN "queued" ELSE "none"]
    /\ canceled = {}
    /\ ping = [j \in Job |-> "null"]
    /\ flow_status = [j \in Job |-> NewStatus(j = Root /\ Flows[job[j].flow].preprocessor)]
    /\ worker = Idle
    /\ kills = {}
    /\ history = {}
    /\ broken = {}
    /\ faults = 0
-----------------------------------------------------------------------------
(* What a flow's status points at.                                         *)

Value(f) == Flows[job[f].flow]
Size(f) == Len(Value(f).modules)
Plain == [kind |-> "script", inner |-> <<>>, skip |-> {}, continue_on_error |-> FALSE,
          retry |-> 0, skip_if |-> FALSE, stop_after_if |-> "none",
          stop_after_all_iters_if |-> "none"]

\* A module of a flow by its index; preprocessor and failure module are plain scripts.
ModuleAt(f, i) == IF 0 <= i /\ i < Size(f) THEN Value(f).modules[i + 1] ELSE Plain
Current(f) == ModuleAt(f, flow_status[f].step)
\* "0 length flows are not failure steps".
IsFailureStep(f) == Size(f) > 0 /\ flow_status[f].step >= Size(f)
IsPreprocessorStep(f) == flow_status[f].step = PreprocessorStep
InProgress(f) == flow_status[f].module = "InProgress"
Looping(f) == InProgress(f) /\ Current(f).kind \in Loops
Branching(f) == InProgress(f) /\ Current(f).kind = "branchall"

\* evaluate_retry, with a policy of so many constant attempts.
MayRetry(f) == flow_status[f].fail_count < Current(f).retry

\* skip_failures of the loop, skip_failure of the branch.
SkipFailure(f) ==
    (Looping(f) \/ Branching(f)) /\ flow_status[f].index \in Current(f).skip
-----------------------------------------------------------------------------
(* Pulling jobs and running steps.                                         *)

\* Mutant of Complete: the flow above is not stamped.
CompleteUnstamped(j, s) ==
    /\ row' = [row EXCEPT ![j] = s]
    /\ canceled' = canceled \ {j}
    /\ ping' = [ping EXCEPT ![j] = "null"]

\* commit_completed_job: the job leaves the queue and stamps the ping of the flow
\* above it.
Complete(j, s) ==
    LET p == job[j].parent IN
    /\ row' = [row EXCEPT ![j] = s]
    /\ canceled' = canceled \ {j}
    /\ ping' = [k \in Job |-> IF k = j THEN "null"
                              ELSE IF k = p /\ InQueue(p) /\ p \notin canceled THEN "fresh"
                              ELSE ping[k]]

\* handle_job_error for a flow that was pulled: a sub-flow is completed and reported to
\* the flow above it, a root is reported to itself.
HandleJobError(f, s) ==
    LET p == job[f].parent IN
    /\ worker' = [Idle EXCEPT !.pc = "update", !.flow = IF p = 0 THEN f ELSE p,
                              !.job = IF p = 0 THEN 0 ELSE f, !.success = FALSE]
    /\ IF p # 0 /\ InQueue(f) THEN Complete(f, s)
       ELSE /\ row' = [row EXCEPT ![f] = IF InQueue(f) THEN "running" ELSE row[f]]
            /\ ping' = [ping EXCEPT ![f] = IF row[f] = "queued" THEN "fresh" ELSE ping[f]]
            /\ UNCHANGED canceled

\* A flow is pulled and handled; one that was cancelled is refused.
PullFlow(f) ==
    /\ worker.pc = "idle" /\ IsFlow(f) /\ row[f] = "queued"
    /\ IF f \in canceled
         THEN HandleJobError(f, "canceled")
         ELSE /\ row' = [row EXCEPT ![f] = "running"]
              /\ ping' = [ping EXCEPT ![f] = "fresh"]
              /\ worker' = [Idle EXCEPT !.pc = "start", !.flow = f]
              /\ UNCHANGED canceled
    /\ UNCHANGED <<job, flow_status, kills, history, broken, faults>>

PullStep(j) ==
    /\ worker.pc = "idle" /\ ~IsFlow(j) /\ row[j] = "queued"
    /\ row' = [row EXCEPT ![j] = "running"]
    /\ worker' = [Idle EXCEPT !.pc = "run", !.flow = job[j].parent, !.job = j]
    /\ UNCHANGED <<job, canceled, ping, flow_status, kills, history, broken, faults>>

\* The step ends, and its completion is reported to its flow.  One that a forced
\* cancel has completed meanwhile is reported as a failure.
FinishStep(s) ==
    /\ worker.pc = "run"
    /\ s = "canceled" => worker.job \in canceled
    /\ IF InQueue(worker.job)
         THEN /\ Complete(worker.job, s)
              /\ worker' = [worker EXCEPT !.pc = "update", !.success = (s = "success")]
         ELSE /\ worker' = [worker EXCEPT !.pc = "update", !.success = FALSE]
              /\ UNCHANGED <<row, canceled, ping>>
    /\ UNCHANGED <<job, flow_status, kills, history, broken, faults>>
-----------------------------------------------------------------------------
(* update_flow_status_after_job_completion.                                *)

\* stop_early_override is passed over by a sub-flow step.
Overridden(t) == t.stop # "none" /\ Current(t.flow).kind # "flow"

IsIdentityJob(t) == t.job # 0 /\ job[t.job].flow = "identity"

\* What stop_early and the kind of stop may be, the expression being free.
StopEarly(t) ==
    IF Overridden(t) THEN {t.stop}
    ELSE {"none"} \cup IF t.success /\ ~Branching(t.flow) /\ ~IsIdentityJob(t)
                         THEN {Current(t.flow).stop_after_if} ELSE {}

\* Mutants of GoesOn: one item too few, and going on after a failure.
GoesOnShort(t, stop) ==
    LET st == flow_status[t.flow] IN
    /\ stop = "none" /\ (Looping(t.flow) \/ Branching(t.flow))
    /\ (t.success \/ SkipFailure(t.flow)) /\ st.index + 2 < st.len
GoesOnAnyway(t, stop) ==
    LET st == flow_status[t.flow] IN
    /\ stop = "none" /\ (Looping(t.flow) \/ Branching(t.flow))
    /\ st.index + 1 < st.len

\* The loop or the branches go on with the next one.
GoesOn(t, stop) ==
    LET st == flow_status[t.flow]
        more == st.index + 1 < st.len /\ (t.success \/ SkipFailure(t.flow)) IN
    /\ stop = "none"
    /\ \/ Looping(t.flow) /\ (Current(t.flow).kind = "whileloopflow" \/ more)
       \/ Branching(t.flow) /\ more

\* The module is at its end: a stop inside a loop only ends the loop, and
\* stop_after_all_iters_if is evaluated.  It stops with an error if it cannot be.
StopAtEnd(t, stop) ==
    LET s == IF Looping(t.flow) THEN "none" ELSE stop
        all == Current(t.flow).stop_after_all_iters_if IN
    {s} \cup IF all # "none" /\ (Looping(t.flow) \/ (Branching(t.flow) /\ s = "none"))
               THEN {all, "error"} ELSE {}

\* Mutant of Succeeds: skip_failures is not asked for.
SucceedsAnyway(t, stop) ==
    (t.success \/ Looping(t.flow) \/ Branching(t.flow)) /\ stop # "error"

Succeeds(t, stop) == (t.success \/ SkipFailure(t.flow)) /\ stop # "error"

ContinueOnError(t) == ~Overridden(t) /\ Current(t.flow).continue_on_error

IncStep(t, stop) == Succeeds(t, stop) \/ (ContinueOnError(t) /\ ~MayRetry(t.flow))

\* Mutant of Triggered: the flow above does not know of the failure module that was run.
TriggeredNever(t) == FALSE

\* has_triggered_error_handler is forgotten at a sub-flow step.
Triggered(t) == t.triggered /\ Current(t.flow).kind # "flow"

\* should_continue_flow, for the success of the report or of the module.
ShouldContinue(t, success, stop, inc) ==
    LET f == t.flow
        step == flow_status[f].step + (IF inc THEN 1 ELSE 0)
        isLastStep == step >= Size(f) IN
    CASE stop # "none" -> stop = "error" /\ Value(f).failure_module
      [] stop = "none" /\ f \in canceled -> FALSE
      [] stop = "none" /\ f \notin canceled /\ success -> ~isLastStep
      [] OTHER ->
           /\ ~t.unrecoverable
           /\ IF SkipFailure(f) \/ ContinueOnError(t) THEN ~isLastStep
              ELSE \/ MayRetry(f)
                   \/ ~IsFailureStep(f) /\ ~Triggered(t) /\ Value(f).failure_module

\* The worker goes on with handle_flow or with completing the flow.
GoOn(t, success, stop, inc) ==
    worker' = [t EXCEPT !.pc = IF ShouldContinue(t, success, stop, inc)
                                 THEN "push" ELSE "finish",
                        !.success = success, !.stop = stop,
                        !.triggered = Triggered(t), !.handler = IsFailureStep(t.flow)]

\* The status of the module that has ended, and the step.
EndModule(t, stop) ==
    LET st == flow_status[t.flow] IN
    flow_status' = [flow_status EXCEPT ![t.flow] =
        [step |-> IF IncStep(t, stop) THEN st.step + 1 ELSE st.step,
         module |-> IF IncStep(t, stop) THEN "WaitingForPriorSteps" ELSE "Failure",
         index |-> 0, len |-> 0,
         fail_count |-> IF Succeeds(t, stop) THEN 0 ELSE st.fail_count]]

\* A report about a flow that has left the queue is an error, and nothing else.
UpdateStatus ==
    LET t == worker  f == t.flow IN
    /\ t.pc = "update"
    /\ IF ~InQueue(f)
         THEN worker' = Idle /\ UNCHANGED <<flow_status, history>>
         ELSE \E stop \in StopEarly(t) :
           \/ /\ GoesOn(t, stop)
              /\ GoOn(t, t.success, "none", FALSE)
              /\ UNCHANGED <<flow_status, history>>
           \/ /\ ~GoesOn(t, stop)
              /\ \E s \in StopAtEnd(t, stop) :
                   /\ EndModule(t, s)
                   /\ IF IsPreprocessorStep(f) /\ Succeeds(t, s)
                        THEN worker' = [t EXCEPT !.pc = "preprocessed"]
                        ELSE GoOn(t, Succeeds(t, s), s, IncStep(t, s))
                   /\ history' = history
                        \cup (IF stop = "none" \/ Overridden(t) \/ ~Looping(f) THEN {}
                              ELSE {<<f, flow_status[f].step, "loop">>})
                        \cup (IF s = "none" \/ (Overridden(t) /\ s = stop /\ ~Looping(f)) THEN {}
                              ELSE {<<f, flow_status[f].step, s>>})
    /\ UNCHANGED <<job, row, canceled, ping, kills, broken, faults>>

\* After that transaction, the result of the preprocessor becomes the flow's arguments
\* and the flow is queued again.
Preprocess ==
    LET f == worker.flow IN
    /\ worker.pc = "preprocessed"
    /\ row' = IF InQueue(f) THEN [row EXCEPT ![f] = "queued"] ELSE row
    /\ history' = history \cup {<<f, PreprocessorStep, "preprocessed">>}
    /\ worker' = Idle
    /\ UNCHANGED <<job, canceled, ping, flow_status, kills, broken, faults>>

\* The transaction, or what follows it, fails: the report is made again as an unrecoverable failure (and
\* does not fail twice).
UpdateFails ==
    /\ worker.pc \in {"update", "preprocessed"} /\ faults < MaxFaults
    /\ worker.success \/ ~worker.unrecoverable
    /\ worker' = [worker EXCEPT !.pc = "update", !.success = FALSE, !.unrecoverable = TRUE]
    /\ faults' = faults + 1
    /\ UNCHANGED <<job, row, canceled, ping, flow_status, kills, history, broken>>

\* The report to the flow above, if there is one.  That a predicate has stopped the
\* flow with an error is only told by its failure.
ReportToParent(t) ==
    IF job[t.flow].parent = 0 THEN Idle
    ELSE [Idle EXCEPT !.pc = "update", !.flow = job[t.flow].parent, !.job = t.flow,
                      !.success = t.success /\ ~t.handler,
                      !.stop = IF t.stop = "error" THEN "stop" ELSE t.stop,
                      !.triggered = t.triggered \/ t.handler]

\* The flow is completed.  A failure module only makes it a success if its result
\* says recover.  If someone else has completed it, the report ends there.
FinishFlow(recover) ==
    LET t == worker IN
    /\ t.pc = "finish"
    /\ recover => t.handler
    /\ IF InQueue(t.flow)
         THEN /\ Complete(t.flow,
                   CASE t.flow \in canceled -> "canceled"
                     [] t.flow \notin canceled /\ t.stop = "skip" -> "skipped"
                     [] OTHER -> IF t.success /\ (t.handler => recover)
                                   THEN "success" ELSE "failure")
              /\ worker' = ReportToParent(t)
         ELSE worker' = Idle /\ UNCHANGED <<row, canceled, ping>>
    /\ UNCHANGED <<job, flow_status, kills, history, broken, faults>>
-----------------------------------------------------------------------------
(* handle_flow and push_next_flow_job.                                     *)

Retries(f) == flow_status[f].module = "Failure" /\ MayRetry(f)

\* After a failure that is not retried, the failure module.
RunsHandler(f) == flow_status[f].module = "Failure" /\ ~MayRetry(f)

\* Nothing is left to push: "missing failure module".
HandlerIsMissing(f) == RunsHandler(f) /\ ~Value(f).failure_module

\* A flow without modules, once its preprocessor is done.
HasNoModules(f) == Size(f) = 0 /\ ~IsPreprocessorStep(f)

NextOf(name, module, index, len) ==
    [flow |-> name, module |-> module, index |-> index, len |-> len]
EmptyInnerFlows == NextOf("none", "Success", 0, 0)

\* payload_from_modules gives nothing for a body without modules.
InnerFlow(name, index, len) ==
    IF ~IsStep(name) /\ Flows[name].modules = <<>> THEN EmptyInnerFlows
    ELSE NextOf(name, "InProgress", index, len)

\* The index of the iteration or branch to come.
NextIndex(f) == IF InProgress(f) THEN flow_status[f].index + 1 ELSE 0

\* Which branch of a branchone is computed from results, so it is free.
NextBranch(f, m) ==
    IF m.kind = "branchone" THEN {InnerFlow(m.inner[i], 0, 0) : i \in DOMAIN m.inner}
    ELSE IF m.inner = <<>> THEN {EmptyInnerFlows}
    ELSE {NextOf(m.inner[NextIndex(f) + 1], "InProgress", NextIndex(f), Len(m.inner))}

\* next_forloop_status: the items are computed when the loop is started.
ItemCounts(f) == IF InProgress(f) THEN {flow_status[f].len} ELSE 0 .. MaxItems

NextIteration(f, m) ==
    IF m.kind = "whileloopflow" THEN {InnerFlow(m.inner[1], NextIndex(f), 0)}
    ELSE {IF n = 0 THEN EmptyInnerFlows ELSE InnerFlow(m.inner[1], NextIndex(f), n) :
            n \in ItemCounts(f)}

\* compute_next_flow_transform: what may be pushed next, skip_if being free.
NextFlowTransform(f) ==
    LET m == IF RunsHandler(f) THEN Plain ELSE Current(f) IN
    (IF m.skip_if THEN {NextOf("identity", "WaitingForExecutor", 0, 0)} ELSE {}) \cup
    CASE m.kind = "script" -> {NextOf("script", "WaitingForExecutor", 0, 0)}
      [] m.kind = "flow" -> {NextOf(m.inner[1], "WaitingForExecutor", 0, 0)}
      [] m.kind \in {"branchone", "branchall"} -> NextBranch(f, m)
      [] m.kind \in Loops -> NextIteration(f, m)

\* A flow without modules, or whose module has become a success, is reported to itself
\* by UpdateFlow.
UpdateFlow(f) ==
    worker' = [Idle EXCEPT !.pc = "update", !.flow = f, !.unrecoverable = TRUE]

SetModule(f, n, step, fail_count) ==
    flow_status' = IF InQueue(f)
      THEN [flow_status EXCEPT ![f] = [step |-> step, module |-> n.module,
                                       index |-> n.index, len |-> n.len,
                                       fail_count |-> fail_count]]
      ELSE flow_status

PushEmpty ==
    LET f == worker.flow  st == flow_status[f] IN
    /\ worker.pc \in {"start", "push"}
    /\ \/ HasNoModules(f) /\ UNCHANGED <<flow_status, history>>
       \/ /\ InQueue(f) /\ ~HasNoModules(f) /\ EmptyInnerFlows \in NextFlowTransform(f)
          /\ SetModule(f, EmptyInnerFlows, st.step,
                       st.fail_count + IF Retries(f) THEN 1 ELSE 0)
          /\ history' = history \cup {<<f, st.step, "empty">>}
    /\ UpdateFlow(f)
    /\ UNCHANGED <<job, row, canceled, ping, kills, broken, faults>>

\* The transaction: the job, the module's status and the ping of the flow.
PushNext ==
    LET f == worker.flow
        st == flow_status[f]
        step == IF RunsHandler(f) THEN Size(f) ELSE st.step
        fail_count == st.fail_count + IF Retries(f) THEN 1 ELSE 0 IN
    /\ worker.pc \in {"start", "push"} /\ ~HasNoModules(f) /\ ~HandlerIsMissing(f)
    /\ Len(job) < MaxJobs
    /\ \E n \in NextFlowTransform(f) \ {EmptyInnerFlows} :
          /\ job' = Append(job, JobOf(n.flow, f, step, n.index, n.len, fail_count))
          /\ SetModule(f, n, step, fail_count)
    /\ row' = [row EXCEPT ![Len(job) + 1] = "queued"]
    /\ ping' = [ping EXCEPT ![f] = "null"]
    /\ worker' = Idle
    /\ UNCHANGED <<canceled, kills, history, broken, faults>>

\* An error: a flow that was just pulled is left to handle_job_error; one that was to
\* go on is completed, and reported with the success it had so far.  An empty module
\* of a flow that has left the queue is such an error, and so is a failed preprocessor
\* without a failure module that a restarted flow finds.
PushFails ==
    LET f == worker.flow IN
    /\ worker.pc \in {"start", "push"}
    /\ \/ faults < MaxFaults /\ faults' = faults + 1
       \/ /\ \/ HandlerIsMissing(f)
             \/ ~InQueue(f) /\ ~HasNoModules(f) /\ EmptyInnerFlows \in NextFlowTransform(f)
          /\ UNCHANGED faults
    /\ \/ /\ worker.pc = "start"
          /\ HandleJobError(f, "failure")
          /\ UNCHANGED broken
       \/ /\ worker.pc = "push"
          /\ IF InQueue(f) THEN Complete(f, "failure")
             ELSE UNCHANGED <<row, canceled, ping>>
          /\ broken' = broken \cup {f}
          /\ worker' = ReportToParent(worker)
    /\ UNCHANGED <<job, flow_status, kills, history>>
-----------------------------------------------------------------------------
(* Cancelling, deaths of processes, and the monitor.                       *)

\* cancel_job starts from the highest flow that is still in the queue.
Highest(j) ==
    LET up[k \in Pushed] == IF job[k].parent = 0 \/ ~InQueue(job[k].parent) THEN k
                            ELSE up[job[k].parent]
    IN  up[j]

\* The job and those below it, as far as each is in the queue.
Tree(j) ==
    LET below[k \in Pushed] == \/ k = j
                               \/ k > j /\ InQueue(k) /\ below[job[k].parent]
    IN  {k \in Pushed : k >= j /\ below[k]}

ForceCancel(j) == kills' = kills \cup Tree(Highest(j)) /\ UNCHANGED canceled

\* A root that is not running is completed by a task, everything else marked.
SoftCancel(j) ==
    LET now == IF job[j].parent = 0 /\ row[j] = "queued" THEN {j} ELSE {} IN
    kills' = kills \cup now /\ canceled' = canceled \cup (Tree(j) \ now)

\* A user cancels (once in a run).
Cancel(j) ==
    /\ UserCancels /\ InQueue(j)
    /\ canceled = {} /\ kills = {} /\ \A k \in Pushed : row[k] # "canceled"
    /\ ForceCancel(j) \/ SoftCancel(j)
    /\ UNCHANGED <<job, row, ping, flow_status, worker, history, broken, faults>>

KillJob(j) ==
    /\ j \in kills
    /\ kills' = kills \ {j}
    /\ IF InQueue(j) THEN Complete(j, "canceled") ELSE UNCHANGED <<row, canceled, ping>>
    /\ UNCHANGED <<job, flow_status, worker, history, broken, faults>>

\* The worker dies, and another one takes its place.
Crash ==
    /\ worker # Idle /\ faults < MaxFaults
    /\ worker' = Idle
    /\ faults' = faults + 1
    /\ UNCHANGED <<job, row, canceled, ping, flow_status, kills, history, broken>>

CrashServer ==
    /\ kills # {} /\ faults < MaxFaults
    /\ kills' = {}
    /\ faults' = faults + 1
    /\ UNCHANGED <<job, row, canceled, ping, flow_status, worker, history, broken>>

\* handle_zombie_jobs restarts a step whose worker is gone (JobQueue has the rest).
RestartStep(j) ==
    /\ ~IsFlow(j) /\ row[j] = "running"
    /\ worker.pc # "run" \/ worker.job # j
    /\ row' = [row EXCEPT ![j] = "queued"]
    /\ UNCHANGED <<job, canceled, ping, flow_status, worker, kills, history, broken, faults>>

\* FLOW_ZOMBIE_TRANSITION_TIMEOUT, which is longer than a transition takes.
PingExpires(f) ==
    /\ row[f] = "running" /\ ping[f] = "fresh"
    /\ worker.pc = "idle" \/ worker.flow # f
    /\ ping' = [ping EXCEPT ![f] = "stale"]
    /\ UNCHANGED <<job, row, canceled, flow_status, worker, kills, history, broken, faults>>

\* Mutant of IsZombieFlow: the ping is not looked at.
IsZombieFlowAnyPing(f) == IsFlow(f) /\ row[f] = "running" /\ f \notin canceled

IsZombieFlow(f) ==
    IsFlow(f) /\ row[f] = "running" /\ ping[f] = "stale" /\ f \notin canceled

\* A flow that has not started is pulled again, any other one is cancelled.
HandleZombieFlow(f) ==
    /\ IsZombieFlow(f)
    /\ IF Size(f) > 0 /\ (\/ IsPreprocessorStep(f)
                           \/ /\ flow_status[f].step = 0
                              /\ flow_status[f].module = "WaitingForPriorSteps")
         THEN row' = [row EXCEPT ![f] = "queued"] /\ UNCHANGED <<canceled, kills>>
         ELSE ForceCancel(f) /\ f \notin kills /\ UNCHANGED row
    /\ UNCHANGED <<job, ping, flow_status, worker, history, broken, faults>>

WorkerStep ==
    \/ \E j \in Pushed : PullFlow(j) \/ PullStep(j)
    \/ \E s \in Ended \ {"skipped"} : FinishStep(s)
    \/ UpdateStatus
    \/ Preprocess
    \/ \E recover \in BOOLEAN : FinishFlow(recover)
    \/ PushEmpty
    \/ PushNext
    \/ PushFails

MonitorStep ==
    \E j \in Pushed : \/ KillJob(j)
                       \/ RestartStep(j)
                       \/ PingExpires(j)
                       \/ HandleZombieFlow(j)

Next ==
    \/ WorkerStep
    \/ MonitorStep
    \/ UpdateFails
    \/ \E j \in Pushed : Cancel(j)
    \/ Crash
    \/ CrashServer

Spec == Init /\ [][Next]_vars

\* The worker loop, the tasks of a cancel and the monitor go on.
FairSpec == Spec /\ WF_vars(WorkerStep) /\ WF_vars(MonitorStep)
-----------------------------------------------------------------------------
(* Properties.                                                             *)

Children(f) == {j \in Pushed : job[j].parent = f}
ChildrenAt(f, i) == {j \in Children(f) : job[j].step = i}
ModuleOf(j) == ModuleAt(job[j].parent, job[j].step)
\* Branches and iterations: the flow is written in the one above it.
IsInline(j) == IsFlow(j) /\ job[j].parent # 0 /\ ModuleOf(j).kind # "flow"

\* What is true of some flows, and passes on from some jobs to the flows above them.
FromBelow(base, passing) ==
    LET up[f \in Pushed] == f \in base \/ \E c \in Children(f) \cap passing : up[c]
    IN  {f \in Pushed : up[f]}

InlineJobs == {c \in Pushed : IsInline(c)}
Branches == {c \in InlineJobs : ModuleOf(c).kind \notin Loops}
StopsNoted(stops) == {h[1] : h \in {k \in history : k[3] \in stops}}

\* The flow has ended before its last step because a predicate said so, its own or
\* one of a branch.
Stopped == FromBelow(StopsNoted(Stops \ {"none"}), Branches)

\* The same for a loop.
IsBroken(f, i) == \/ <<f, i, "loop">> \in history
                  \/ \E c \in ChildrenAt(f, i) : c \in Stopped

IsEmpty(f, i) == <<f, i, "empty">> \in history

\* The job's failure is allowed for: it is skipped, continued after, tried again (a loop
\* perhaps without an item; the preprocessor after a death), or the failure module has
\* recovered from it.  A while loop
\* that is retried, or whose flow handles failures, goes on instead.  Cancelled jobs and
\* flows that could not go on are reported with the success they had.
IsExcused(c) ==
    LET f == job[c].parent  m == ModuleOf(c) IN
    \/ m.continue_on_error \/ (m.kind \in Loops \cup {"branchall"} /\ job[c].iter \in m.skip)
    \/ \E d \in ChildrenAt(f, job[c].step) : job[d].attempt > job[c].attempt
    \/ IsEmpty(f, job[c].step)
    \/ \E d \in ChildrenAt(f, Size(f)) : row[d] = "success"
    \/ /\ job[c].step = PreprocessorStep
       /\ \E d \in ChildrenAt(f, PreprocessorStep) : row[d] = "success"
    \/ m.kind = "whileloopflow" /\ (m.retry > 0 \/ Value(f).failure_module)
    \/ c \in broken \/ row[c] = "canceled"

Went(c) == row[c] \in {"success", "skipped"} \/ IsExcused(c)

\* The tree has one thread of control: at no time can two workers find something to do
\* in it, whatever dies, is restarted or cancelled.
OneAtATime ==
    \A j, k \in Pushed :
        LET busy(i) == row[i] = "queued" \/ (row[i] = "running" /\ ~IsFlow(i)) IN
        busy(j) /\ busy(k) => j = k

\* An iteration or branch only starts after the one before it, in the same attempt,
\* and after a failure only where failures are skipped.
IterationsInOrder ==
    \A j \in Pushed : job[j].iter > 0 =>
        \E c \in ChildrenAt(job[j].parent, job[j].step) :
            /\ job[c].iter = job[j].iter - 1 /\ job[c].attempt = job[j].attempt
            /\ job[c].len = job[j].len
            /\ row[c] \in Ended /\ Went(c)

\* A flow that ends as a success has lost no failure of a step, an iteration, a branch
\* or a sub-flow.
NoFailureIsLost ==
    \A f \in Pushed : IsFlow(f) /\ row[f] = "success" => \A c \in Children(f) : Went(c)

\* A flow with its failure module is reported as failed even if that has recovered.
ReportsFailure(c) == \/ row[c] \in {"failure", "canceled"}
                     \/ IsFlow(c) /\ Size(c) > 0 /\ ChildrenAt(c, Size(c)) # {}

\* The module has been gone through: every branch, every item, or until a predicate
\* has ended the loop.
IsThrough(f, i) ==
    LET m == ModuleAt(f, i)
        cs == ChildrenAt(f, i)
        failed == /\ m.continue_on_error
                  /\ (\E c \in cs : ReportsFailure(c)) \/ (f = Root /\ i = 0 /\ faults > 0) IN
    \/ IsEmpty(f, i) \/ failed \/ \E c \in cs : job[c].flow = "identity"
    \/ CASE m.kind \in {"script", "flow", "branchone"} -> cs # {}
         [] m.kind = "branchall" -> \A b \in 1 .. Len(m.inner) :
                                      \E c \in cs : job[c].iter = b - 1
         [] m.kind = "forloopflow" -> \/ IsBroken(f, i)
                                      \/ \E c \in cs : job[c].iter = job[c].len - 1
         [] m.kind = "whileloopflow" -> IsBroken(f, i)

\* A flow that ends as a success, without a predicate that stops it and without its
\* failure module, has gone through all its modules, and its preprocessor has given it
\* its arguments (if no worker has died: a flow that has not come to its first step is
\* simply restarted).
NothingIsSkipped ==
    \A f \in Pushed :
        IsFlow(f) /\ row[f] = "success" /\ f \notin Stopped /\ ChildrenAt(f, Size(f)) = {} =>
            /\ \A i \in 0 .. Size(f) - 1 : IsThrough(f, i)
            /\ f = Root /\ Value(f).preprocessor =>
                  <<f, PreprocessorStep, "preprocessed">> \in history \/ faults > 0

\* A run of a failure module; the flows that a job is in, through branches and iterations.
IsHandler(h) ==
    LET p == job[h].parent IN p # 0 /\ Size(p) > 0 /\ job[h].step = Size(p)
Within(j) == FromBelow({job[j].parent}, InlineJobs)

\* The last failure is handled by the failure module of the flow, or by that of the branch
\* or iteration where it happened.
IsHandled(f) ==
    \E h \in Pushed : IsHandler(h) /\ f \in Within(h) /\ \A c \in Children(f) : c <= h

\* No failure of its steps, or none that is to be handled: the flow was stopped without an
\* error, or it, or a branch of it, could not go on.
EndedEarly == FromBelow(StopsNoted({"stop", "skip"}) \cup broken, Branches)

\* A flow that could not go on, or that has a branch or iteration that could not.
CutShort == FromBelow(broken, InlineJobs)

\* What else the failure module may be run for, after a branch or iteration that has
\* handled its failure: a predicate that makes an error of the module, or of one that
\* came to be empty since, or something within the branch that could not go on.
FailsAnew(f, c) ==
    \/ ModuleOf(c).stop_after_if = "error" \/ ModuleOf(c).stop_after_all_iters_if # "none"
    \/ \E i \in job[c].step + 1 .. Size(f) - 1 : IsEmpty(f, i)
    \/ c \in CutShort

\* A failure of the steps is handled, and once: the failure module is run if nothing has
\* handled the failure, a single time, and not right after that of a branch or iteration.
\* (A last step that is continued after has none.)
HandledOnce ==
    faults = 0 => \A f \in Pushed : IsFlow(f) /\ Value(f).failure_module /\ Size(f) > 0 =>
        LET handlers == ChildrenAt(f, Size(f)) IN
        /\ row[f] = "failure" /\ ~ModuleAt(f, Size(f) - 1).continue_on_error =>
              IsHandled(f) \/ f \in EndedEarly
        /\ \A g, h \in handlers : g = h
        /\ \A h \in handlers, c \in Children(f) \cap InlineJobs :
              IsHandler(h - 1) /\ c \in Within(h - 1) => FailsAnew(f, c)

\* Every job of the tree ends.
AllEnded == \A j \in Pushed : row[j] \in Ended

\* Every job of the tree ends, although a worker or server dies or a step of the engine
\* fails (excepted, as in FlowSteps: a death during the last transition of a cancelled
\* flow).
EveryJobEnds == <>(AllEnded \/ (faults > 0 /\ canceled # {}) \/ Len(job) = MaxJobs)
=============================================================================
