----------------------------- MODULE FlowFanOut -----------------------------
(***************************************************************************)
(* A parallel for-loop or branch-all of a flow.  push_next_flow_job pushes *)
(* one sub-flow per iteration in one transaction, all but the first        *)
(* Parallelism of them suspended.  Each child that completes reports to    *)
(* the flow from the worker that completed it: it counts itself in the     *)
(* iterator's index and, if it is not the last one, releases the child     *)
(* that waits for that count; the last one joins the children and takes    *)
(* the flow on.  A row of parallel_monitor_lock per child tells            *)
(* handle_zombie_flows of a report that was never finished.                *)
(*                                                                         *)
(* Modelled: a flow whose only module is the parallel one.  What a child   *)
(* does inside is FlowSteps'; here a child is one execution.               *)
(***************************************************************************)
EXTENDS Naturals, FiniteSets

CONSTANTS
    Iterations,   \* number of iterations or branches
    Parallelism,  \* the parallelism of the loop; Iterations when it has none
    Skipped,      \* children whose failure is skipped (skip_failures, skip_failure)
    Proc,         \* threads of workers, one job each
    CrashPoints,  \* where a thread may die: a set of pcs; "server" for the monitor's tasks
    DbErrors,     \* whether a statement after the commit of a report may fail
    StartErrors,  \* whether a child may fail before its first step
    LongWaits,    \* whether suspend_until, 14 days, may pass
    UserCancels,  \* whether users cancel the flow
    MaxFaults     \* bound: crashes and errors in a behaviour

ASSUME FanOutAssumption ==
    /\ Iterations \in Nat \ {0}
    /\ Parallelism \in 1 .. Iterations
    /\ Skipped \subseteq 1 .. Iterations
    /\ DbErrors \in BOOLEAN
    /\ StartErrors \in BOOLEAN
    /\ LongWaits \in BOOLEAN
    /\ UserCancels \in BOOLEAN
    /\ MaxFaults \in Nat

Flow == 0
Child == 1 .. Iterations
Job == {Flow} \cup Child
Status == {"success", "failure", "canceled"}

VARIABLES
    row,      \* each job's place: in the queue, or its status once completed
    canceled, \* jobs whose queue row has canceled_by set
    suspend,  \* v2_job_queue.suspend of the children
    ping,     \* v2_job_runtime.ping of the flow
    module,   \* type of the flow_status module
    index,    \* iterator.index (branchall.branch): reports counted
    lock,     \* parallel_monitor_lock: no row, or last_ping of each child's row
    proc,     \* what each thread is doing
    kills,    \* jobs that a forced cancel has spawned a task to complete
    faults    \* crashes and errors so far

vars == <<row, canceled, suspend, ping, module, index, lock, proc, kills, faults>>

InQueue(j) == row[j] \in {"queued", "suspended", "running"}

(***************************************************************************)
(* A thread: "push" is handle_flow of the flow, "run" executes a child,    *)
(* "complete" has its outcome, "report" is about to update the flow, "last" *)
(* has counted the last child in a transaction still open, "release" and   *)
(* "unlock" follow the transaction of another child, "advance" holds the   *)
(* flow after the join.  done says that the child ended as a flow does     *)
(* (flow_is_done) and not by an error before its first step.               *)
(***************************************************************************)
Idle == [pc |-> "idle", child |-> Flow, status |-> "success", done |-> FALSE, n |-> 0]
Thread == [pc : {"idle", "push", "run", "complete", "report", "last", "release",
                 "unlock", "advance"},
           child : Job, status : Status, done : BOOLEAN, n : 0 .. Iterations]

TypeOK ==
    /\ row \in [Job -> {"none", "queued", "suspended", "running"} \cup Status]
    /\ canceled \subseteq Job
    /\ suspend \in [Child -> 0 .. Iterations]
    /\ ping \in {"null", "fresh", "stale"}
    /\ module \in {"WaitingForPriorSteps", "InProgress", "Success", "Failure"}
    /\ index \in 0 .. Iterations
    /\ lock \in [Child -> {"none", "null", "fresh", "stale"}]
    /\ proc \in [Proc -> Thread]
    /\ kills \subseteq Job
    /\ faults \in 0 .. MaxFaults

Init ==
    /\ row = [j \in Job |-> IF j = Flow THEN "queued" ELSE "none"]
    /\ canceled = {}
    /\ suspend = [c \in Child |-> 0]
    /\ ping = "null"
    /\ module = "WaitingForPriorSteps"
    /\ index = 0
    /\ lock = [c \in Child |-> "none"]
    /\ proc = [p \in Proc |-> Idle]
    /\ kills = {}
    /\ faults = 0
-----------------------------------------------------------------------------
(* Fan-out.                                                                *)

PullFlow(p) ==
    /\ proc[p].pc = "idle"
    /\ row[Flow] = "queued"
    /\ row' = [row EXCEPT ![Flow] = "running"]
    /\ ping' = "fresh"
    /\ proc' = [proc EXCEPT ![p] = [Idle EXCEPT !.pc = "push"]]
    /\ UNCHANGED <<canceled, suspend, module, index, lock, kills, faults>>

\* Mutant of SuspendOf: one child more than Parallelism is let go.
SuspendOfShort(i) == IF i > Parallelism THEN i - Parallelism ELSE 0

\* How many reports iteration i (from 0) waits for.
SuspendOf(i) == IF i >= Parallelism THEN i - Parallelism + 1 ELSE 0

\* One transaction pushes the children with their locks and resets the ping.
\* There are no locks when there is only one child.  For a flow that is completed
\* in the meantime only the pushes have an effect.
PushAll(p) ==
    /\ proc[p].pc = "push"
    /\ proc' = [proc EXCEPT ![p] = Idle]
    /\ suspend' = [c \in Child |-> SuspendOf(c - 1)]
    /\ row' = [j \in Job |-> IF j = Flow THEN row[j]
                             ELSE IF SuspendOf(j - 1) # 0 THEN "suspended"
                             ELSE "queued"]
    /\ lock' = [c \in Child |-> IF Iterations > 1 THEN "null" ELSE "none"]
    /\ IF InQueue(Flow) THEN module' = "InProgress" /\ ping' = "null"
       ELSE UNCHANGED <<module, ping>>
    /\ UNCHANGED <<canceled, index, kills, faults>>

\* handle_flow returns an error: handle_job_error reports a failure of the module,
\* which ends the flow.
PushFails(p) ==
    /\ proc[p].pc = "push" /\ InQueue(Flow) /\ faults < MaxFaults
    /\ module' = "Failure"
    /\ proc' = [proc EXCEPT ![p] =
                   [Idle EXCEPT !.pc = "advance",
                                !.status = IF Flow \in canceled THEN "canceled" ELSE "failure"]]
    /\ faults' = faults + 1
    /\ UNCHANGED <<row, canceled, suspend, ping, index, lock, kills>>
-----------------------------------------------------------------------------
(* A child's execution.                                                    *)

Claim(p, c) ==
    /\ proc[p].pc = "idle"
    /\ row' = [row EXCEPT ![c] = "running"]
    /\ proc' = [proc EXCEPT ![p] =
                   IF c \in canceled
                     THEN [Idle EXCEPT !.pc = "complete", !.child = c, !.status = "failure"]
                     ELSE [Idle EXCEPT !.pc = "run", !.child = c]]
    /\ UNCHANGED <<canceled, suspend, ping, module, index, lock, kills, faults>>

\* The pull query, and the one for suspended jobs.  A child pulled with
\* canceled_by set is failed at once.
PullChild(p, c) ==
    /\ row[c] = "queued" \/ (row[c] = "suspended" /\ suspend[c] = 0)
    /\ Claim(p, c)

\* The query for suspended jobs also takes those whose suspend_until has passed.
PullExpired(p, c) ==
    /\ LongWaits
    /\ row[c] = "suspended" /\ suspend[c] > 0
    /\ Claim(p, c)

\* handle_flow of the child returns an error before its first step.
FailToStart(p) ==
    /\ StartErrors
    /\ proc[p].pc = "run"
    /\ proc' = [proc EXCEPT ![p] = [@ EXCEPT !.pc = "complete", !.status = "failure"]]
    /\ UNCHANGED <<row, canceled, suspend, ping, module, index, lock, kills, faults>>

\* The child's last step has ended; canceled when the child's row says so.
FinishChild(p, s) ==
    /\ proc[p].pc = "run"
    /\ s = "canceled" <=> proc[p].child \in canceled
    /\ proc' = [proc EXCEPT ![p] = [@ EXCEPT !.pc = "complete", !.status = s, !.done = TRUE]]
    /\ UNCHANGED <<row, canceled, suspend, ping, module, index, lock, kills, faults>>

\* commit_completed_job of a child stamps the ping of a flow not cancelled ...
PingParent ==
    ping' = IF InQueue(Flow) /\ Flow \notin canceled THEN "fresh" ELSE ping

\* Mutant of StampLock: last_ping stays NULL.
StampLockNever(c, done) == UNCHANGED lock

\* ... and, when the child is a flow that is done, last_ping of its lock.
StampLock(c, done) ==
    lock' = IF done /\ lock[c] # "none" THEN [lock EXCEPT ![c] = "fresh"] ELSE lock

\* add_completed_job of the child.  When a forced cancel was first, a flow that
\* is done stops here; handle_job_error logs it and reports.
CompleteChild(p) ==
    LET t == proc[p] IN
    /\ t.pc = "complete"
    /\ IF InQueue(t.child)
         THEN /\ row' = [row EXCEPT ![t.child] = t.status]
              /\ canceled' = canceled \ {t.child}
              /\ PingParent
              /\ StampLock(t.child, t.done)
              /\ proc' = [proc EXCEPT ![p] = [t EXCEPT !.pc = "report"]]
         ELSE /\ proc' = [proc EXCEPT ![p] = IF t.done THEN Idle ELSE [t EXCEPT !.pc = "report"]]
              /\ UNCHANGED <<row, canceled, ping, lock>>
    /\ UNCHANGED <<suspend, module, index, kills, faults>>
-----------------------------------------------------------------------------
(* Fan-in: update_flow_status_after_job_completion of a parallel module.   *)

\* Mutant of IsLast: the join is one child early.
IsLastEarly(n) == n + 1 >= Iterations

IsLast(n) == n = Iterations

\* A report waits for the transaction of a last child, which keeps the flow's rows
\* locked until CommitLast.
Reporting(p) == proc[p].pc = "report" /\ \A q \in Proc : proc[q].pc # "last"

\* The transaction counts the child and resets the flow's ping.  It is committed
\* at once unless the child is the last one.
Report(p) ==
    LET t == proc[p]  n == index + 1 IN
    /\ Reporting(p)
    /\ InQueue(Flow) => module = "InProgress"
    /\ IF ~InQueue(Flow)
         THEN /\ proc' = [proc EXCEPT ![p] = Idle]
              /\ UNCHANGED <<index, ping>>
         ELSE IF IsLast(n)
         THEN /\ proc' = [proc EXCEPT ![p] = [t EXCEPT !.pc = "last", !.n = n]]
              /\ UNCHANGED <<index, ping>>
         ELSE /\ index' = n
              /\ ping' = "null"
              /\ proc' = [proc EXCEPT ![p] = [t EXCEPT !.pc = "release", !.n = n]]
    /\ UNCHANGED <<row, canceled, suspend, module, lock, kills, faults>>

\* After the commit, the child that waits for this count may be pulled.
Release(p) ==
    /\ proc[p].pc = "release"
    /\ suspend' = [c \in Child |->
                      IF suspend[c] = proc[p].n /\ row[c] = "suspended" THEN 0 ELSE suspend[c]]
    /\ proc' = [proc EXCEPT ![p].pc = "unlock"]
    /\ UNCHANGED <<row, canceled, ping, module, index, lock, kills, faults>>

Unlock(p) ==
    /\ proc[p].pc = "unlock"
    /\ lock' = [lock EXCEPT ![proc[p].child] = "none"]
    /\ proc' = [proc EXCEPT ![p] = Idle]
    /\ UNCHANGED <<row, canceled, suspend, ping, module, index, kills, faults>>

\* One of these two statements fails.  update_flow_status_after_job_completion then
\* makes the whole report again, as a failure, although the count is committed.
ReportAgain(p) ==
    /\ DbErrors
    /\ proc[p].pc \in {"release", "unlock"} /\ faults < MaxFaults
    /\ proc' = [proc EXCEPT ![p] = [@ EXCEPT !.pc = "report", !.status = "failure"]]
    /\ faults' = faults + 1
    /\ UNCHANGED <<row, canceled, suspend, ping, module, index, lock, kills>>

\* A report after the join is one of an ordinary step: of the same module if the
\* join was a failure, otherwise of the failure module, whose success counts only
\* if its result says recover.
LateReport(p) ==
    LET t == proc[p] IN
    /\ Reporting(p)
    /\ InQueue(Flow) /\ module \in {"Success", "Failure"}
    /\ module' = IF t.status = "success" THEN "Success" ELSE module
    /\ \E recover \in BOOLEAN :
          proc' = [proc EXCEPT ![p] =
                      [t EXCEPT !.pc = "advance",
                                !.status = IF Flow \in canceled THEN "canceled"
                                           ELSE IF t.status = "success" /\ (module = "Failure" \/ recover)
                                             THEN "success" ELSE "failure"]]
    /\ UNCHANGED <<row, canceled, suspend, ping, index, lock, kills, faults>>

\* The last child deletes all the locks on a connection of its own, before its
\* transaction is committed.
DropLocks(p) ==
    /\ proc[p].pc = "last"
    /\ lock # [c \in Child |-> "none"]
    /\ lock' = [c \in Child |-> "none"]
    /\ UNCHANGED <<row, canceled, suspend, ping, module, index, proc, kills, faults>>

\* Every completed child whose failure is not skipped is a success.
JoinSucceeds == \A c \in Child \ Skipped : row[c] \in Status => row[c] = "success"

\* The rest of its transaction: the status of the module, the flow read again.
CommitLast(p) ==
    LET t == proc[p] IN
    /\ t.pc = "last"
    /\ lock = [c \in Child |-> "none"]
    /\ index' = t.n
    /\ ping' = "null"
    /\ module' = IF JoinSucceeds THEN "Success" ELSE "Failure"
    /\ proc' = [proc EXCEPT ![p] =
                   [t EXCEPT !.pc = "advance",
                             !.status = IF Flow \in canceled THEN "canceled"
                                        ELSE IF JoinSucceeds THEN "success" ELSE "failure"]]
    /\ UNCHANGED <<row, canceled, suspend, lock, kills, faults>>

\* add_completed_job of the flow.
FinishFlow(p) ==
    /\ proc[p].pc = "advance"
    /\ row' = IF InQueue(Flow) THEN [row EXCEPT ![Flow] = proc[p].status] ELSE row
    /\ canceled' = canceled \ {Flow}
    /\ ping' = "null"
    /\ proc' = [proc EXCEPT ![p] = Idle]
    /\ UNCHANGED <<suspend, module, index, lock, kills, faults>>
-----------------------------------------------------------------------------
(* Cancelling.                                                             *)

\* cancel_job with force: a task for each job of the tree.
KillTree == kills' = {j \in Job : InQueue(j)}

\* A user's cancel.  Without force it marks the rows of the tree, which may then
\* be pulled at once; only a flow that does not run is completed by a task.
Cancel(force) ==
    /\ UserCancels
    /\ InQueue(Flow) /\ Flow \notin canceled /\ kills = {}
    /\ IF force
         THEN KillTree /\ UNCHANGED <<canceled, suspend>>
         ELSE LET tree == {j \in Job : InQueue(j)}
                  task == IF row[Flow] = "queued" THEN {Flow} ELSE {} IN
              /\ kills' = task
              /\ canceled' = canceled \cup (tree \ task)
              /\ suspend' = [c \in Child |-> IF c \in tree THEN 0 ELSE suspend[c]]
    /\ UNCHANGED <<row, ping, module, index, lock, proc, faults>>

\* add_completed_job_error, without a report.  Deleting the flow's row waits for
\* the transaction of a last child.
KillJob(j) ==
    /\ j \in kills
    /\ j = Flow => \A p \in Proc : proc[p].pc # "last"
    /\ kills' = kills \ {j}
    /\ row' = IF InQueue(j) THEN [row EXCEPT ![j] = "canceled"] ELSE row
    /\ canceled' = canceled \ {j}
    /\ IF ~InQueue(j) THEN UNCHANGED ping
       ELSE IF j = Flow THEN ping' = "null" ELSE PingParent
    /\ UNCHANGED <<suspend, module, index, lock, proc, faults>>
-----------------------------------------------------------------------------
(* Failures and the monitor.                                               *)

Crash(p) ==
    /\ proc[p].pc \in CrashPoints /\ faults < MaxFaults
    /\ proc' = [proc EXCEPT ![p] = Idle]
    /\ faults' = faults + 1
    /\ UNCHANGED <<row, canceled, suspend, ping, module, index, lock, kills>>

CrashServer ==
    /\ "server" \in CrashPoints /\ kills # {} /\ faults < MaxFaults
    /\ kills' = {}
    /\ faults' = faults + 1
    /\ UNCHANGED <<row, canceled, suspend, ping, module, index, lock, proc>>

\* The threads that a ping of the flow, or the lock of a child, is waiting for.
FlowHeld == \E p \in Proc : proc[p].pc \in {"push", "report", "last", "advance"}
ChildHeld(c) == \E p \in Proc : proc[p].pc # "idle" /\ proc[p].child = c

\* A child left by a dead worker: the monitor gives its job back to the queue,
\* or finds it between two steps and cancels the tree, from the root down.
RestartChild(c) ==
    /\ row[c] = "running" /\ ~ChildHeld(c)
    /\ row' = [row EXCEPT ![c] = "queued"]
    /\ UNCHANGED <<canceled, suspend, ping, module, index, lock, proc, kills, faults>>

ZombieChild(c) ==
    /\ row[c] = "running" /\ ~ChildHeld(c) /\ c \notin canceled /\ kills = {}
    /\ KillTree
    /\ UNCHANGED <<row, canceled, suspend, ping, module, index, lock, proc, faults>>

\* FLOW_ZOMBIE_TRANSITION_TIMEOUT passes; only the dead take that long.
PingExpires ==
    /\ ping = "fresh" /\ ~FlowHeld
    /\ ping' = "stale"
    /\ UNCHANGED <<row, canceled, suspend, module, index, lock, proc, kills, faults>>

LockExpires(c) ==
    /\ lock[c] = "fresh" /\ ~ChildHeld(c)
    /\ lock' = [lock EXCEPT ![c] = "stale"]
    /\ UNCHANGED <<row, canceled, suspend, ping, module, index, proc, kills, faults>>

\* handle_zombie_flows: flows with an old ping ...
HandleZombieFlow ==
    /\ row[Flow] = "running" /\ ping = "stale" /\ Flow \notin canceled /\ kills = {}
    /\ IF module = "WaitingForPriorSteps"
         THEN row' = [row EXCEPT ![Flow] = "queued"] /\ UNCHANGED kills
         ELSE KillTree /\ UNCHANGED row
    /\ UNCHANGED <<canceled, suspend, ping, module, index, lock, proc, faults>>

\* ... and locks with an old last_ping, which are deleted first.
HandleZombieLock(c) ==
    /\ lock[c] = "stale" /\ kills = {}
    /\ lock' = [lock EXCEPT ![c] = "none"]
    /\ IF row[Flow] = "running" /\ Flow \notin canceled THEN KillTree ELSE UNCHANGED kills
    /\ UNCHANGED <<row, canceled, suspend, ping, module, index, proc, faults>>
-----------------------------------------------------------------------------
ThreadStep(p) ==
    \/ PullFlow(p) \/ PushAll(p) \/ \E c \in Child : PullChild(p, c)
    \/ FailToStart(p) \/ \E s \in Status : FinishChild(p, s)
    \/ CompleteChild(p) \/ Report(p) \/ LateReport(p) \/ Release(p) \/ Unlock(p)
    \/ DropLocks(p) \/ CommitLast(p) \/ FinishFlow(p)

Next ==
    \/ \E p \in Proc : ThreadStep(p) \/ PushFails(p) \/ ReportAgain(p) \/ Crash(p)
    \/ \E p \in Proc, c \in Child : PullExpired(p, c)
    \/ \E force \in BOOLEAN : Cancel(force)
    \/ \E j \in Job : KillJob(j)
    \/ \E c \in Child : RestartChild(c) \/ ZombieChild(c) \/ LockExpires(c) \/ HandleZombieLock(c)
    \/ CrashServer \/ PingExpires \/ HandleZombieFlow

Spec == Init /\ [][Next]_vars

(***************************************************************************)
(* Threads keep running, the monitor keeps sweeping, spawned tasks run.    *)
(* Nothing is assumed of suspend_until, which is 14 days away.             *)
(***************************************************************************)
Fairness ==
    /\ \A p \in Proc : WF_vars(ThreadStep(p))
    /\ \A j \in Job : WF_vars(KillJob(j))
    /\ \A c \in Child :
          WF_vars(RestartChild(c)) /\ WF_vars(LockExpires(c)) /\ WF_vars(HandleZombieLock(c))
    /\ WF_vars(PingExpires) /\ WF_vars(HandleZombieFlow)

FairSpec == Spec /\ Fairness
-----------------------------------------------------------------------------
(* Properties.                                                             *)

(***************************************************************************)
(* At most Parallelism children are started and not completed, whatever    *)
(* the order of their reports and releases, and although workers die       *)
(* (parallelism of a for-loop; a child being cancelled does not count).    *)
(***************************************************************************)
BoundedParallelism ==
    LET started == {c \in Child \ canceled :
                       \/ row[c] \in {"queued", "running"}
                       \/ row[c] = "suspended" /\ suspend[c] = 0}
    IN Cardinality(started) <= Parallelism

(***************************************************************************)
(* The flow is joined only when every child is completed, and as a success *)
(* only when every child that counts was a success (the count that the     *)
(* reports keep in flow_status agrees with v2_job_completed).              *)
(***************************************************************************)
JoinIsComplete ==
    /\ module \in {"Success", "Failure"} => \A c \in Child : ~InQueue(c)
    /\ row[Flow] = "success" => \A c \in Child \ Skipped : row[c] = "success"

(***************************************************************************)
(* The flow is completed eventually: every child that waits is released or *)
(* the flow is cancelled, although a worker dies during a child, or        *)
(* between completing it and the end of its report.                        *)
(***************************************************************************)
FlowCompletes == <>(row[Flow] \in Status)
=============================================================================
