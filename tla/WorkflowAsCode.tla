--------------------------- MODULE WorkflowAsCode ---------------------------
(***************************************************************************)
(* A workflow as code: a script that is run again from its start each time *)
(* it can go on.  Each run finds the results of earlier steps in the       *)
(* checkpoint, stops at the first stage that has none, saves what it waits *)
(* for and leaves its row in the queue, running and suspended: on the      *)
(* count of the child jobs it dispatches, on an approval, or on a clock.   *)
(* The result processor of each child adds its result to the checkpoint    *)
(* and lowers the count; at zero the row may be pulled again.              *)
(*                                                                         *)
(* Modelled: the script as a sequence of stages, each a set of tasks that  *)
(* run in parallel, an inline step, an approval or a sleep.  A job's claim *)
(* and its restarts are JobQueue's.                                        *)
(***************************************************************************)
EXTENDS Naturals, Sequences, FiniteSets

CONSTANTS
    NStages,      \* number of stages, indexed from 0
    Kind,         \* of each stage: "tasks", "inline", "approval" or "sleep"
    Width,        \* the number of steps of each stage, 1 unless it is "tasks"
    Proc,         \* threads of workers, each with one job
    Request,      \* approval requests that API servers handle at the same time
    MaxChildren,  \* bound: child jobs
    MaxMessages,  \* bound: approval requests started
    MaxCrashes,   \* bound: workers that die
    MaxPushErrors \* bound: pushes of a child that fail

ASSUME WorkflowAssumption ==
    /\ NStages \in Nat \ {0}
    /\ Kind \in [0 .. (NStages - 1) -> {"tasks", "inline", "approval", "sleep"}]
    /\ Width \in [0 .. (NStages - 1) -> Nat \ {0}]
    /\ MaxChildren \in Nat
    /\ MaxMessages \in Nat
    /\ MaxCrashes \in Nat
    /\ MaxPushErrors \in Nat

Stage == 0 .. (NStages - 1)
Key == UNION {{i} \X (1 .. Width[i]) : i \in Stage}
KeysOf(i) == {k \in Key : k[1] = i}
Child == 1 .. MaxChildren
NoChild == 0

Ended == {"success", "failure"}
Result == {"none", "ok", "error", "approved", "refused"}

VARIABLES
    row,         \* the parent: "queued", "running", or its status
    suspend,     \* its counter in v2_job_queue
    until,       \* suspend_until: "null", "future" or "past"
    completed,   \* _checkpoint.completed_steps
    pending,     \* _checkpoint.pending_steps: its mode, keys and job_ids
    child,       \* each child job's place
    childKey,    \* the step a child was pushed for
    proc,        \* what each worker thread does
    resume_job,  \* the rows of resume_job, in the order of created_at
    request,     \* what each approval request has read
    messages,    \* requests started so far
    crashes,     \* workers that died so far
    pushErrors   \* pushes that failed so far

parent == <<row, suspend, until>>
checkpoint == <<completed, pending>>
children == <<child, childKey>>
approvals == <<resume_job, request, messages>>
faults == <<crashes, pushErrors>>
vars == <<parent, checkpoint, children, proc, approvals, faults>>

NoIds == [k \in Key |-> NoChild]
NoPending == [mode |-> "none", keys |-> {}, ids |-> NoIds]
Nothing == [k \in Key |-> "none"]
Idle == [pc |-> "idle", done |-> Nothing, child |-> NoChild, ids |-> NoIds,
         result |-> "ok", todo |-> {}]
NoRequest == [pc |-> "idle", approved |-> TRUE, suspend |-> 0, for |-> {}]

ChildState == {"none", "queued", "canceled", "running", "ok", "error"}
TypeOK ==
    /\ row \in {"queued", "running"} \cup Ended
    /\ suspend \in Nat
    /\ until \in {"null", "future", "past"}
    /\ completed \in [Key -> Result]
    /\ pending \in [mode : {"none", "tasks", "approval", "sleep"},
                    keys : SUBSET Key, ids : [Key -> Child \cup {NoChild}]]
    /\ child \in [Child -> ChildState]
    /\ childKey \in [Child -> Key]
    /\ proc \in [Proc -> [pc : {"idle", "pulled", "replay", "push", "fail", "run",
                                "read", "report"},
                          done : [Key -> Result], child : Child \cup {NoChild},
                          ids : [Key -> Child \cup {NoChild}],
                          result : {"ok", "error"}, todo : SUBSET Key]]
    /\ resume_job \in Seq([approved : BOOLEAN, for : SUBSET Key])
    /\ request \in [Request -> [pc : {"idle", "write"}, approved : BOOLEAN,
                                suspend : Nat, for : SUBSET Key]]
    /\ messages \in 0 .. MaxMessages
    /\ crashes \in 0 .. MaxCrashes
    /\ pushErrors \in 0 .. MaxPushErrors

Init ==
    /\ row = "queued" /\ suspend = 0 /\ until = "null"
    /\ completed = Nothing /\ pending = NoPending
    /\ child = [c \in Child |-> "none"]
    /\ childKey = [c \in Child |-> CHOOSE k \in Key : TRUE]
    /\ proc = [p \in Proc |-> Idle]
    /\ resume_job = <<>>
    /\ request = [r \in Request |-> NoRequest]
    /\ messages = 0
    /\ crashes = 0 /\ pushErrors = 0

InQueue == row \in {"queued", "running"}

\* Ids that are in use, pushed or not, and fresh ones for a set of steps.
Used == {c \in Child : \/ child[c] # "none"
                       \/ \E k \in Key : pending.ids[k] = c \/ \E p \in Proc : proc[p].ids[k] = c}
LastId == CHOOSE c \in Used \cup {NoChild} : \A d \in Used : d <= c
NewIds(keys) ==
    [k \in Key |-> IF k \in keys THEN LastId + Cardinality({l \in keys : l[2] <= k[2]})
                                 ELSE NoChild]

\* The first stage without a result for all of its steps, NStages if none.
Reached(done) ==
    LET open == {i \in Stage : \E k \in KeysOf(i) : done[k] = "none"} IN
    IF open = {} THEN NStages ELSE CHOOSE i \in open : \A j \in open : i <= j
-----------------------------------------------------------------------------
(* Running the script.                                                     *)

\* Mutant of Resumable: the deadline is not looked at.
ResumableByCount == until # "null" /\ suspend = 0

\* make_suspended_pull_query.
Resumable == until # "null" /\ (suspend = 0 \/ until = "past")

PullParent(p) ==
    /\ proc[p].pc = "idle"
    /\ row = "queued" \/ (row = "running" /\ Resumable)
    /\ row' = "running" /\ until' = "null"
    /\ proc' = [proc EXCEPT ![p] = [Idle EXCEPT !.pc = "pulled"]]
    /\ UNCHANGED <<suspend, checkpoint, children, approvals, faults>>

\* The answer to an approval: the oldest row, and refused when there is none.
Answer ==
    IF resume_job # <<>> /\ resume_job[1].approved THEN "approved" ELSE "refused"

\* load_checkpoint and prepare_checkpoint_for_resume, which saves the outcome of
\* an approval or of a sleep.
Load(p) ==
    LET outcome == IF pending.mode = "approval" THEN Answer ELSE "ok" IN
    /\ proc[p].pc = "pulled"
    /\ IF pending.mode \in {"approval", "sleep"}
         THEN /\ completed' = [k \in Key |-> IF k \in pending.keys THEN outcome ELSE completed[k]]
              /\ pending' = NoPending
         ELSE UNCHANGED checkpoint
    /\ proc' = [proc EXCEPT ![p] = [@ EXCEPT !.pc = "replay", !.done = completed']]
    /\ UNCHANGED <<parent, children, approvals, faults>>

At(p, kind) ==
    /\ proc[p].pc = "replay"
    /\ Reached(proc[p].done) < NStages
    /\ Kind[Reached(proc[p].done)] = kind

\* The steps that this run of the script has to wait for.
Missing(p) == {k \in KeysOf(Reached(proc[p].done)) : proc[p].done[k] = "none"}

\* Mutant of SuspendCount: the step that is pushed last is not counted.
SuspendCountShort(keys) == Cardinality(keys) - 1

\* Mutant of SuspendCount: one more than there are children.
SuspendCountExtra(keys) == Cardinality(keys) + 1

SuspendCount(keys) == Cardinality(keys)

\* Dispatch, first transaction: ids for the children, the checkpoint and the
\* parent's suspension, before any child is visible.
Dispatch(p) ==
    LET keys == Missing(p) IN
    /\ At(p, "tasks")
    /\ LastId + Cardinality(keys) <= MaxChildren
    /\ pending' = [mode |-> "tasks", keys |-> keys, ids |-> NewIds(keys)]
    /\ proc' = [proc EXCEPT ![p] =
                  [@ EXCEPT !.pc = "push", !.ids = NewIds(keys), !.todo = keys]]
    /\ suspend' = IF InQueue THEN SuspendCount(keys) ELSE suspend
    /\ until' = IF InQueue THEN "future" ELSE until
    /\ UNCHANGED <<row, completed, children, approvals, faults>>

\* Each child is then pushed in a transaction of its own; the run ends with
\* WacSuspended after the last one.
PushChild(p) ==
    /\ proc[p].pc = "push"
    /\ LET k == CHOOSE x \in proc[p].todo : \A y \in proc[p].todo : x[2] <= y[2]
           c == proc[p].ids[k]
           left == proc[p].todo \ {k} IN
       /\ child' = [child EXCEPT ![c] = "queued"]
       /\ childKey' = [childKey EXCEPT ![c] = k]
       /\ proc' = [proc EXCEPT ![p] = IF left = {} THEN Idle ELSE [@ EXCEPT !.todo = left]]
    /\ UNCHANGED <<parent, checkpoint, approvals, faults>>

\* A push fails: the children pushed so far are cancelled, pending_steps is
\* cleared and the parent is no longer suspended.
PushFails(p) ==
    LET pushed == {proc[p].ids[k] : k \in pending.keys \ proc[p].todo} IN
    /\ proc[p].pc = "push" /\ pushErrors < MaxPushErrors
    /\ child' = [c \in Child |-> IF c \in pushed /\ child[c] = "queued" THEN "canceled" ELSE child[c]]
    /\ pending' = NoPending
    /\ suspend' = 0 /\ until' = "null"
    /\ proc' = [proc EXCEPT ![p] = [Idle EXCEPT !.pc = "fail"]]
    /\ pushErrors' = pushErrors + 1
    /\ UNCHANGED <<row, completed, childKey, approvals, crashes>>

\* An approval or a sleep: one transaction saves the checkpoint and suspends.
Wait(p) ==
    /\ At(p, "approval") \/ At(p, "sleep")
    /\ pending' = [mode |-> Kind[Reached(proc[p].done)], keys |-> Missing(p), ids |-> NoIds]
    /\ suspend' = IF InQueue THEN 1 ELSE suspend
    /\ until' = IF InQueue THEN "future" ELSE until
    /\ proc' = [proc EXCEPT ![p] = Idle]
    /\ UNCHANGED <<row, completed, children, approvals, faults>>

\* An inline step: its result is saved, by the API while the script goes on, or
\* together with running = false.
Inline(p, fast) ==
    LET save(f) == [k \in Key |-> IF k \in Missing(p) THEN "ok" ELSE f[k]] IN
    /\ At(p, "inline")
    /\ completed' = save(completed)
    /\ IF fast THEN /\ proc' = [proc EXCEPT ![p].done = save(proc[p].done)]
                    /\ UNCHANGED row
       ELSE /\ proc' = [proc EXCEPT ![p] = Idle]
            /\ row' = IF InQueue THEN "queued" ELSE row
    /\ UNCHANGED <<suspend, until, pending, children, approvals, faults>>

\* The parent leaves the queue, and its checkpoint and resume rows with it, if
\* nobody else has completed it.
End(s) ==
    IF InQueue THEN row' = s /\ suspend' = 0 /\ until' = "null" /\ pending' = NoPending
               ELSE UNCHANGED <<parent, pending>>

\* The script ends, with an error if it does not catch that of a step.
Finish(p) ==
    /\ \/ /\ proc[p].pc = "replay" /\ Reached(proc[p].done) = NStages
          /\ End("success")
       \/ /\ proc[p].pc = "replay" /\ \E k \in Key : proc[p].done[k] = "error"
          /\ End("failure")
       \/ proc[p].pc = "fail" /\ End("failure")
    /\ proc' = [proc EXCEPT ![p] = Idle]
    /\ UNCHANGED <<completed, children, approvals, faults>>
-----------------------------------------------------------------------------
(* Child jobs.                                                             *)

\* A child that was cancelled is refused, which is an error.
PullChild(p, c) ==
    /\ proc[p].pc = "idle"
    /\ child[c] \in {"queued", "canceled"}
    /\ child' = [child EXCEPT ![c] = "running"]
    /\ proc' = [proc EXCEPT ![p] =
                  [Idle EXCEPT !.pc = "run", !.child = c,
                               !.result = IF child[c] = "canceled" THEN "error" ELSE "ok"]]
    /\ UNCHANGED <<parent, checkpoint, childKey, approvals, faults>>

\* commit_completed_job returns the parent's job_ids, NULL without pending_steps.
\* After a failure they are read again, in a query of its own.
EndChild(p, result) ==
    /\ proc[p].pc = "run"
    /\ proc[p].result = "error" => result = "error"
    /\ child' = [child EXCEPT ![proc[p].child] = result]
    /\ proc' = [proc EXCEPT ![p] =
                  IF result = "error" THEN [@ EXCEPT !.pc = "read", !.result = "error"]
                  ELSE IF pending.mode = "none" THEN Idle
                  ELSE [@ EXCEPT !.pc = "report", !.ids = pending.ids]]
    /\ UNCHANGED <<parent, checkpoint, childKey, approvals, faults>>

ReadIds(p) ==
    /\ proc[p].pc = "read"
    /\ proc' = [proc EXCEPT ![p] =
                  IF pending.mode = "none" THEN Idle
                  ELSE [@ EXCEPT !.pc = "report", !.ids = pending.ids]]
    /\ UNCHANGED <<parent, checkpoint, children, approvals, faults>>

\* GREATEST(suspend - 1, 0).
Decrement == IF suspend > 0 THEN suspend - 1 ELSE 0

\* Mutant of MergeStep: a failed step is stored like any other.
MergeStepPlain(k, result) == [completed EXCEPT ![k] = "ok"]

\* Mutant of MergeStep: a failed step is not stored.
MergeStepIfOk(k, result) == IF result = "ok" THEN [completed EXCEPT ![k] = result] ELSE completed

MergeStep(k, result) == [completed EXCEPT ![k] = result]

\* handle_wac_child_completion: one transaction merges the result, decrements and
\* clears pending_steps at zero.  Without a key for the child the counter is only
\* decremented, or the parent failed.
Report(p) ==
    LET t == proc[p]
        keys == {k \in Key : t.ids[k] = t.child} IN
    /\ t.pc = "report"
    /\ IF ~InQueue THEN UNCHANGED <<parent, checkpoint>>
       ELSE IF keys # {}
         THEN /\ \E k \in keys : completed' = MergeStep(k, t.result)
              /\ suspend' = Decrement
              /\ pending' = IF Decrement = 0 THEN NoPending ELSE pending
              /\ UNCHANGED <<row, until>>
       ELSE IF t.result = "ok"
         THEN suspend' = Decrement /\ UNCHANGED <<row, until, checkpoint>>
       ELSE End("failure") /\ UNCHANGED completed
    /\ proc' = [proc EXCEPT ![p] = Idle]
    /\ UNCHANGED <<children, approvals, faults>>
-----------------------------------------------------------------------------
(* Approvals.                                                              *)

\* The script obtains the links in a step before it waits for an approval.
LinkIsOut ==
    \/ pending.mode = "approval"
    \/ \E k \in Key : Kind[k[1]] = "approval" /\ completed[k] # "none"

\* resume_suspended_job and its variants read the row's suspend ...
ReadApproval(r, approved) ==
    /\ request[r].pc = "idle" /\ messages < MaxMessages
    /\ InQueue /\ LinkIsOut
    /\ request' = [request EXCEPT ![r] =
                     [pc |-> "write", approved |-> approved, suspend |-> suspend,
                      for |-> IF pending.mode = "approval" THEN pending.keys ELSE {}]]
    /\ messages' = messages + 1
    /\ UNCHANGED <<parent, checkpoint, children, proc, resume_job, faults>>

\* ... and insert the message and lower suspend in a transaction that follows.
WriteApproval(r) ==
    LET q == request[r] IN
    /\ q.pc = "write"
    /\ request' = [request EXCEPT ![r] = NoRequest]
    /\ IF InQueue
         THEN /\ resume_job' = Append(resume_job, [approved |-> q.approved, for |-> q.for])
              /\ suspend' = IF ~q.approved THEN 0
                            ELSE IF q.suspend > 0 THEN Decrement ELSE suspend
         ELSE UNCHANGED <<resume_job, suspend>>
    /\ UNCHANGED <<row, until, checkpoint, children, proc, messages, faults>>
-----------------------------------------------------------------------------
(* Failures, the monitor and the clock.                                    *)

Crash(p) ==
    /\ proc[p].pc # "idle" /\ crashes < MaxCrashes
    /\ proc' = [proc EXCEPT ![p] = Idle]
    /\ crashes' = crashes + 1
    /\ UNCHANGED <<parent, checkpoint, children, approvals, pushErrors>>

Driving(p) == proc[p].pc \in {"pulled", "replay", "push", "fail"}

\* Mutant of IsZombie: a suspended row is a zombie too.
IsZombieSuspendedToo == row = "running" /\ ~\E p \in Proc : Driving(p)

\* handle_zombie_jobs passes over a row with suspend_until.
IsZombie == row = "running" /\ until = "null" /\ ~\E p \in Proc : Driving(p)

RestartParent ==
    /\ IsZombie
    /\ row' = "queued"
    /\ UNCHANGED <<suspend, until, checkpoint, children, proc, approvals, faults>>

RestartChild(c) ==
    /\ child[c] = "running"
    /\ ~\E p \in Proc : proc[p].pc = "run" /\ proc[p].child = c
    /\ child' = [child EXCEPT ![c] = "queued"]
    /\ UNCHANGED <<parent, checkpoint, childKey, proc, approvals, faults>>

\* Nobody works for the parent.
Quiet ==
    /\ \A p \in Proc : proc[p].pc = "idle"
    /\ \A c \in Child : child[c] \notin {"queued", "canceled", "running"}

\* The deadline passes: that of an approval or a sleep at any time, the fourteen
\* days of a dispatch only after all that is under way has come to its end.
Deadline ==
    /\ until = "future"
    /\ pending.mode \in {"approval", "sleep"} \/ Quiet
    /\ until' = "past"
    /\ UNCHANGED <<row, suspend, checkpoint, children, proc, approvals, faults>>
-----------------------------------------------------------------------------
ThreadStep(p) ==
    \/ PullParent(p) \/ Load(p) \/ Dispatch(p) \/ PushChild(p) \/ Wait(p)
    \/ \E fast \in BOOLEAN : Inline(p, fast)
    \/ Finish(p)
    \/ \E c \in Child : PullChild(p, c)
    \/ \E result \in {"ok", "error"} : EndChild(p, result)
    \/ ReadIds(p) \/ Report(p)

Next ==
    \/ \E p \in Proc : ThreadStep(p) \/ PushFails(p) \/ Crash(p)
    \/ \E r \in Request : WriteApproval(r) \/ \E approved \in BOOLEAN : ReadApproval(r, approved)
    \/ RestartParent \/ \E c \in Child : RestartChild(c)
    \/ Deadline

Spec == Init /\ [][Next]_vars

\* Workers, the monitor, the servers' transactions and clocks go on.
FairSpec ==
    /\ Spec
    /\ \A p \in Proc : WF_vars(ThreadStep(p))
    /\ \A r \in Request : WF_vars(WriteApproval(r))
    /\ WF_vars(RestartParent) /\ \A c \in Child : WF_vars(RestartChild(c))
    /\ WF_vars(Deadline)
-----------------------------------------------------------------------------
(* Properties.                                                             *)

\* A worker that dies after its dispatch has failed leaves a parent that is run
\* again, and children that the next dispatch does not know.  Everything below
\* is about runs in which the two do not come together.
Orderly == crashes = 0 \/ pushErrors = 0

\* The parent waits for exactly the children whose results are not in its
\* checkpoint: handle_wac_child_completion changes the two together, whichever
\* children report at once and whoever dies between a commit and its report.
CountsChildren ==
    Orderly /\ pending.mode = "tasks" /\ until # "null" =>
        suspend = Cardinality({k \in pending.keys : completed[k] = "none"})

\* The parent's script is run by one worker at a time: no child wakes it while
\* the worker that dispatches is still pushing the others.
OneDriver == Orderly => \A p, q \in Proc : Driving(p) /\ Driving(q) => p = q

\* Every dispatch of a step beyond the first is the doing of a worker that died
\* or of a push that failed: replaying the script repeats no step.
StepsOnce ==
    Orderly => \A k \in Key :
        Cardinality({c \in Child : child[c] # "none" /\ childKey[c] = k}) <= 1 + crashes + pushErrors

\* A result in the checkpoint is that of a child that ended with it, and a
\* workflow that succeeds has one for each of its steps.
ResultsAreReal ==
    /\ \A k \in Key : Kind[k[1]] = "tasks" /\ completed[k] # "none" =>
          \E c \in Child : childKey[c] = k /\ child[c] = completed[k]
    /\ row = "success" => \A k \in Key : completed[k] # "none"

\* No wake-up is lost: unless a worker dies, a parent for whom nothing is under way
\* can be pulled, if it does not wait for an approval or a clock; the fourteen
\* days are never waited for.
NoLostWakeup ==
    crashes = 0 /\ row = "running" /\ pending.mode \notin {"approval", "sleep"} /\ Quiet => Resumable

\* The workflow ends, although workers die between a child's commit and its
\* report or half-way through a dispatch.
WorkflowEnds == <>(row \in Ended \/ ~Orderly)
-----------------------------------------------------------------------------
\* The documentation of waitForApproval: the workflow waits for an approval and
\* is told how that one was answered.
ApprovalIsItsOwn ==
    \A k \in Key : Kind[k[1]] = "approval" /\ completed[k] = "approved" =>
        \E n \in 1 .. Len(resume_job) : resume_job[n].approved /\ k \in resume_job[n].for
=============================================================================
