------------------------------ MODULE Approval ------------------------------
(***************************************************************************)
(* A flow whose steps wait for approvals.  After a step with a suspend     *)
(* setting the worker counts the resume_job rows and goes on, fails the    *)
(* flow, or parks it: the counter suspend and the deadline suspend_until   *)
(* of its queue row then say when a worker may take it up again.  The API  *)
(* servers insert the rows and lower the counter by what they have read of *)
(* it before.                                                              *)
(*                                                                         *)
(* The steps' own jobs always succeed here; how a step fails, is retried   *)
(* or restarted is FlowSteps' and JobQueue's.                              *)
(***************************************************************************)
EXTENDS Naturals, FiniteSets

CONSTANTS
    N,             \* number of modules, indexed from 0 as in the code
    Required,      \* suspend.required_events of each module, 0 for none
    Continue,      \* the modules with continue_on_disapprove_timeout
    ResumeId,      \* the resume ids of the messages
    Request,       \* requests that API servers handle at the same time
    MaxMessages,   \* bound: requests that are started
    MaxCrashes,    \* bound: workers that die
    UserCancels    \* whether users cancel the flow

ASSUME ApprovalAssumption ==
    /\ N \in Nat \ {0}
    /\ Required \in [0 .. (N - 1) -> Nat]
    /\ Continue \subseteq 0 .. (N - 1)
    /\ ResumeId # {}
    /\ MaxMessages \in Nat
    /\ MaxCrashes \in Nat
    /\ UserCancels \in BOOLEAN

StepIdx == 0 .. (N - 1)
Flow == N              \* the flow's own job id; a step's job has the step's index
Job == StepIdx \cup {Flow}

Ended == {"success", "failure", "canceled"}
Route == {"step", "flow", "wac"}
Message == [job : Job, id : ResumeId, approved : BOOLEAN]

VARIABLES
    row,            \* the flow: "queued", "running", or its status once completed
    canceled,       \* canceled_by of the flow's row
    suspend,        \* v2_job_queue.suspend
    suspend_until,  \* "null", "future" or "past"
    ping,           \* v2_job_runtime.ping of the flow
    step,           \* flow_status.step
    module,         \* flow_status.modules[step]
    approvers,      \* flow_status.modules[i].approvers, as the messages counted
    verdict,        \* history: how the wait after each module ended
    resume_job,     \* the rows of resume_job
    request,        \* what each API request has read
    started,        \* requests started so far
    holder,         \* where the worker that holds the flow between two jobs is
    crashes         \* workers that died so far

flowRow == <<row, canceled, suspend, suspend_until, ping>>
flowStatus == <<step, module, approvers, verdict>>
vars == <<flowRow, flowStatus, resume_job, request, started, holder, crashes>>

Idle == [pc |-> "idle", job |-> Flow, id |-> CHOOSE i \in ResumeId : TRUE,
         approved |-> TRUE, route |-> "flow", suspend |-> 0, waiting |-> FALSE]

TypeOK ==
    /\ row \in {"queued", "running"} \cup Ended
    /\ canceled \in BOOLEAN
    /\ suspend \in Nat
    /\ suspend_until \in {"null", "future", "past"}
    /\ ping \in {"null", "fresh", "stale"}
    /\ step \in StepIdx
    /\ module \in {"WaitingForPriorSteps", "WaitingForEvents", "WaitingForExecutor"}
    /\ approvers \in [StepIdx -> SUBSET Message]
    /\ verdict \in [StepIdx -> {"none", "approved", "continued"}]
    /\ resume_job \subseteq Message
    /\ request \in [Request -> [pc : {"idle", "write"}, job : Job, id : ResumeId,
                                approved : BOOLEAN, route : Route,
                                suspend : Nat, waiting : BOOLEAN]]
    /\ started \in 0 .. MaxMessages
    /\ holder \in {"none", "check", "push", "reject"}
    /\ crashes \in 0 .. MaxCrashes

Init ==
    /\ row = "queued" /\ canceled = FALSE
    /\ suspend = 0 /\ suspend_until = "null" /\ ping = "null"
    /\ step = 0 /\ module = "WaitingForPriorSteps"
    /\ approvers = [i \in StepIdx |-> {}]
    /\ verdict = [i \in StepIdx |-> "none"]
    /\ resume_job = {}
    /\ request = [r \in Request |-> Idle]
    /\ started = 0
    /\ holder = "none"
    /\ crashes = 0

InQueue == row \in {"queued", "running"}
-----------------------------------------------------------------------------
(* The worker: pulling the flow, and the transition between two steps.     *)

\* The first pull of the flow.
PullFlow ==
    /\ row = "queued"
    /\ row' = "running" /\ ping' = "fresh" /\ holder' = "check"
    /\ UNCHANGED <<canceled, suspend, suspend_until, flowStatus, resume_job,
                   request, started, crashes>>

\* Mutant of Resumable: a parked flow is only taken up when its counter is zero.
ResumableByCountOnly == suspend_until # "null" /\ suspend = 0

\* make_suspended_pull_query.
Resumable == suspend_until # "null" /\ (suspend = 0 \/ suspend_until = "past")

\* A parked flow is pulled: suspend_until is reset, suspend is not.  A cancelled
\* one is refused by handle_queued_job.
PullSuspended ==
    /\ row = "running" /\ Resumable
    /\ suspend_until' = "null" /\ ping' = "fresh"
    /\ holder' = IF canceled THEN "reject" ELSE "check"
    /\ UNCHANGED <<row, canceled, suspend, flowStatus, resume_job, request,
                   started, crashes>>

\* The deadline passes.
Timeout ==
    /\ suspend_until = "future"
    /\ suspend_until' = "past"
    /\ UNCHANGED <<row, canceled, suspend, ping, flowStatus, resume_job, request,
                   started, holder, crashes>>

\* needs_resume: the previous module has a suspend setting.
NeedsResume == step > 0 /\ Required[step - 1] > 0

\* Mutant of Messages: the messages of every step are counted.
MessagesOfFlow(i) == resume_job

\* The rows that count for module i: its own and those of the flow.
Messages(i) == {m \in resume_job : m.job \in {i, Flow}}

Disapproved(i) == \E m \in Messages(i) : ~m.approved

\* Mutant of CanBeResumed: a disapproval counts as a message.
CanBeResumedByAny(i) == Cardinality(Messages(i)) >= Required[i]

CanBeResumed(i) == ~Disapproved(i) /\ Cardinality(Messages(i)) >= Required[i]

\* Mutant of MayPark: a flow is parked again when it is taken up too early.
MayParkAgain(i) == ~Disapproved(i)

\* Whether the flow may still be parked, which is done once per step.
MayPark(i) == module = "WaitingForPriorSteps" /\ ~Disapproved(i)

\* The transaction that counts.  There are enough messages, or the step goes on
\* in spite of the disapproval or of the time-out.
Resume ==
    LET i == step - 1 IN
    /\ InQueue /\ holder = "check" /\ NeedsResume
    /\ \/ /\ CanBeResumed(i)
          /\ verdict' = [verdict EXCEPT ![i] = "approved"]
       \/ /\ ~CanBeResumed(i) /\ ~MayPark(i) /\ i \in Continue
          /\ verdict' = [verdict EXCEPT ![i] = "continued"]
    /\ approvers' = [approvers EXCEPT ![i] = Messages(i)]
    /\ holder' = "push"
    /\ UNCHANGED <<flowRow, step, module, resume_job, request, started, crashes>>

\* Not enough messages yet: the flow waits for those that are missing.
Park ==
    LET i == step - 1 IN
    /\ InQueue /\ holder = "check" /\ NeedsResume
    /\ ~CanBeResumed(i) /\ MayPark(i)
    /\ suspend' = Required[i] - Cardinality(Messages(i))
    /\ suspend_until' = "future"
    /\ module' = "WaitingForEvents"
    /\ ping' = "null"
    /\ holder' = "none"
    /\ UNCHANGED <<row, canceled, step, approvers, verdict, resume_job, request,
                   started, crashes>>

\* Disapproved or timed out: an unrecoverable failure is sent to the processor.
Reject ==
    LET i == step - 1 IN
    /\ InQueue /\ holder = "check" /\ NeedsResume
    /\ ~CanBeResumed(i) /\ ~MayPark(i) /\ i \notin Continue
    /\ holder' = "reject"
    /\ UNCHANGED <<flowRow, flowStatus, resume_job, request, started, crashes>>

\* The transaction that pushes the step's job.
PushStep ==
    /\ InQueue
    /\ \/ holder = "check" /\ ~NeedsResume
       \/ holder = "push"
    /\ module' = "WaitingForExecutor"
    /\ ping' = "null"
    /\ holder' = "none"
    /\ UNCHANGED <<row, canceled, suspend, suspend_until, step, approvers, verdict,
                   resume_job, request, started, crashes>>

\* The flow leaves the queue; the foreign key takes its resume_job rows along.
EndFlow(s) ==
    /\ row' = s
    /\ canceled' = FALSE
    /\ suspend' = 0 /\ suspend_until' = "null" /\ ping' = "null"
    /\ resume_job' = {}

\* The step's job succeeds and update_flow_status_after_job_completion moves on
\* or ends the flow.
StepDone ==
    /\ row = "running" /\ module = "WaitingForExecutor" /\ holder = "none"
    /\ IF canceled \/ step = N - 1
         THEN /\ EndFlow(IF canceled THEN "canceled" ELSE "success")
              /\ UNCHANGED <<step, module, holder>>
         ELSE /\ step' = step + 1
              /\ module' = "WaitingForPriorSteps"
              /\ ping' = "fresh"
              /\ holder' = "check"
              /\ UNCHANGED <<row, canceled, suspend, suspend_until, resume_job>>
    /\ UNCHANGED <<approvers, verdict, request, started, crashes>>

\* The processor ends the flow that was rejected.
FailFlow ==
    /\ InQueue /\ holder = "reject"
    /\ EndFlow(IF canceled THEN "canceled" ELSE "failure")
    /\ holder' = "none"
    /\ UNCHANGED <<flowStatus, request, started, crashes>>

\* The flow was completed under the worker: the lock finds no row, and a push or
\* a report no longer touches the flow (see FlowSteps).
LetGo ==
    /\ holder # "none" /\ ~InQueue
    /\ holder' = "none"
    /\ UNCHANGED <<flowRow, flowStatus, resume_job, request, started, crashes>>

\* The worker dies between two jobs of the flow.
Crash ==
    /\ holder # "none" /\ crashes < MaxCrashes
    /\ holder' = "none"
    /\ crashes' = crashes + 1
    /\ UNCHANGED <<flowRow, flowStatus, resume_job, request, started>>
-----------------------------------------------------------------------------
(* The API servers.  A request reads the flow's row and writes later: the  *)
(* lock that get_flow_info_for_resume asks for is taken on a connection of *)
(* its own and gone when the query returns, and get_suspended_flow_info    *)
(* asks for none.                                                          *)

Pushed(j) == j = Flow \/ j < step \/ (j = step /\ module = "WaitingForExecutor")
WaitsFor(j) == module = "WaitingForEvents" /\ step - 1 = j

Read(r, j, id, approved, route) ==
    /\ request[r].pc = "idle" /\ started < MaxMessages
    /\ InQueue
    /\ request' = [request EXCEPT ![r] =
                     [pc |-> "write", job |-> j, id |-> id, approved |-> approved,
                      route |-> route, suspend |-> suspend, waiting |-> WaitsFor(j)]]
    /\ started' = started + 1
    /\ UNCHANGED <<flowRow, flowStatus, resume_job, holder, crashes>>

\* resume_suspended_job and cancel_suspended_job, by a link that names a step's
\* job, or the flow's for an approval in advance.
ReadByLink(r, j, id, approved) ==
    /\ Pushed(j)
    /\ ~\E m \in resume_job : m.job = j /\ m.id = id
    /\ Read(r, j, id, approved, IF j = Flow THEN "flow" ELSE "step")

\* resume_suspended and resume_suspended_flow_as_owner: get_suspended_flow_info
\* finds the step that waits, and takes any other job with suspend > 0 for a
\* workflow as code.
ReadByFlow(r, id, approved) ==
    IF module = "WaitingForEvents"
      THEN Read(r, step - 1, id, approved, "step")
      ELSE suspend > 0 /\ Read(r, Flow, id, approved, "wac")

\* resume_immediately_if_relevant, resume_immediately_for_flow_level, and the
\* decrement for a workflow as code.
NewSuspend(q) ==
    IF ~q.approved THEN 0
    ELSE IF q.suspend = 0 THEN suspend
    ELSE IF q.route = "wac" THEN (IF suspend > 0 THEN suspend - 1 ELSE 0)
    ELSE IF q.route = "flow" \/ q.waiting THEN q.suspend - 1
    ELSE suspend

\* The transaction inserts the row, unless its key is taken, and sets suspend.
\* The foreign key refuses the row when the flow has left the queue.
Write(r) ==
    LET q == request[r]
        taken == \E m \in resume_job : m.job = q.job /\ m.id = q.id IN
    /\ q.pc = "write"
    /\ request' = [request EXCEPT ![r] = Idle]
    /\ IF InQueue /\ ~taken
         THEN /\ resume_job' = resume_job \cup
                   {[job |-> q.job, id |-> q.id, approved |-> q.approved]}
              /\ suspend' = NewSuspend(q)
         ELSE UNCHANGED <<resume_job, suspend>>
    /\ UNCHANGED <<row, canceled, suspend_until, ping, flowStatus, started, holder,
                   crashes>>

\* cancel_job: the row of a running flow is marked, unless the cancel is forced.
Cancel(force) ==
    /\ UserCancels /\ InQueue /\ ~canceled
    /\ IF force \/ row = "queued"
         THEN EndFlow("canceled")
         ELSE /\ canceled' = TRUE /\ suspend' = 0
              /\ UNCHANGED <<row, suspend_until, ping, resume_job>>
    /\ UNCHANGED <<flowStatus, request, started, holder, crashes>>
-----------------------------------------------------------------------------
(* The monitor.                                                            *)

\* FLOW_ZOMBIE_TRANSITION_TIMEOUT passes; a worker that lives is in time.
PingExpires ==
    /\ ping = "fresh" /\ holder = "none"
    /\ ping' = "stale"
    /\ UNCHANGED <<row, canceled, suspend, suspend_until, flowStatus, resume_job,
                   request, started, holder, crashes>>

\* handle_zombie_flows restarts a flow that has not started and cancels another.
HandleZombieFlow ==
    /\ row = "running" /\ suspend = 0 /\ suspend_until = "null"
    /\ ping = "stale" /\ ~canceled
    /\ IF step = 0 /\ module = "WaitingForPriorSteps"
         THEN /\ row' = "queued"
              /\ UNCHANGED <<canceled, suspend, suspend_until, ping, resume_job>>
         ELSE EndFlow("canceled")
    /\ UNCHANGED <<flowStatus, request, started, holder, crashes>>
-----------------------------------------------------------------------------
WorkerStep ==
    PullFlow \/ PullSuspended \/ Resume \/ Park \/ Reject \/ PushStep \/ StepDone
    \/ FailFlow \/ LetGo

Next ==
    \/ WorkerStep \/ Crash \/ Timeout
    \/ \E r \in Request, id \in ResumeId, approved \in BOOLEAN :
          \/ \E j \in Job : ReadByLink(r, j, id, approved)
          \/ ReadByFlow(r, id, approved)
    \/ \E r \in Request : Write(r)
    \/ \E force \in BOOLEAN : Cancel(force)
    \/ PingExpires \/ HandleZombieFlow

Spec == Init /\ [][Next]_vars

\* Workers, clocks, the monitor and the servers' transactions go on; nobody has
\* to approve or to cancel, and no worker has to die.
FairSpec ==
    /\ Spec
    /\ WF_vars(WorkerStep) /\ WF_vars(Timeout)
    /\ \A r \in Request : WF_vars(Write(r))
    /\ WF_vars(PingExpires) /\ WF_vars(HandleZombieFlow)
-----------------------------------------------------------------------------
(* Properties.                                                             *)

\* A module was left behind: the job of the next one was pushed.
Passed(i) == step > i + 1 \/ (step = i + 1 /\ module = "WaitingForExecutor")

\* A step that waits for approvals (Suspend.required_events) is only left behind
\* with that many messages addressed to it or to the flow, none of them a
\* disapproval, or by its own continue_on_disapprove_timeout: whatever the
\* counter said, which concurrent requests may put wrong.
PassedIsApproved ==
    \A i \in StepIdx : Passed(i) /\ Required[i] > 0 =>
        \/ /\ verdict[i] = "approved"
           /\ Cardinality(approvers[i]) >= Required[i]
           /\ \A m \in approvers[i] : m.approved /\ m.job \in {i, Flow}
        \/ verdict[i] = "continued" /\ i \in Continue

Parked(i) == row = "running" /\ suspend_until # "null" /\ step - 1 = i

\* A disapproval that reaches a parked flow is final: whatever messages follow,
\* which worker takes the flow up and who dies, the flow does not succeed.
DisapprovalIsFinal ==
    \A i \in StepIdx \ Continue :
        [](Parked(i) /\ Disapproved(i) => [](row # "success"))

\* A message whose count is lost (resume_immediately_if_relevant writes what it
\* has read before) delays the flow and never refuses it: a parked step with all
\* of its approvals goes on, at the latest when its deadline passes, unless it
\* is disapproved after all, cancelled, or its worker dies.
ApprovedGoesOn ==
    \A i \in StepIdx :
        (Parked(i) /\ CanBeResumed(i) /\ ~canceled) ~>
            (verdict[i] = "approved" \/ Disapproved(i) \/ canceled \/ row = "canceled" \/ crashes > 0)

\* A flow that no worker dies with is ended: no wait is without a deadline.
FlowEnds == <>(row \in Ended \/ crashes > 0)
=============================================================================
