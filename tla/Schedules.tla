----------------------------- MODULE Schedules -----------------------------
(***************************************************************************)
(* A schedule has no clock of its own: each of its runs pushes the next    *)
(* tick, a job of the queue with a scheduled_for in the future.  A script  *)
(* pushes it in the transaction that completes it, a flow when             *)
(* handle_flow first takes it up, and a flow that fails before that in the *)
(* transaction that completes it.  The API replaces the queued ticks when  *)
(* the schedule is edited, switched on or off, or its runnable is renamed. *)
(* The row of the schedule is read without a lock, so that what a run does *)
(* may rest on an old copy of it.                                          *)
(*                                                                         *)
(* One schedule; pauses, skip handlers and error handlers are left out, a  *)
(* deletion is a switch off.                                               *)
(***************************************************************************)
EXTENDS Naturals, FiniteSets, FiniteSetsExt

CONSTANTS
    Cron,          \* the cron expressions, as the sets of their instants
    Path,          \* the paths the runnable may have
    MaxTime,       \* bound: the last instant of the clock
    Slot,          \* bound: jobs of the schedule in the queue at one time
    MaxShifts,     \* bound: times the database's clock goes back
    MaxEdits,      \* bound: requests of users
    MaxFaults,     \* bound: transactions that fail and workers that die
    MaxReentries   \* bound: iterations or attempts of a flow's first step

ASSUME SchedulesAssumption ==
    /\ {MaxTime, MaxShifts, MaxEdits, MaxFaults, MaxReentries} \subseteq Nat
    /\ Cron # {} /\ Cron \subseteq SUBSET Nat
    /\ \A c \in Cron : \E t \in c : t > MaxTime + 1
    /\ Path # {}
    /\ Slot # {} /\ Slot \subseteq Nat

VARIABLES
    now,        \* now() of the database
    isFlow,     \* schedule.is_flow
    noOverlap,  \* schedule.no_flow_overlap
    row,        \* the other columns of the schedule's row
    job,        \* the schedule's jobs in v2_job_queue
    copy,       \* what try_schedule_next_job knows: the row it was given, next
    api,        \* the transaction of the API that holds the schedule's row
    spent,      \* how much of each bound is used
    lost        \* history: a run has passed by its first step and the next tick

vars == <<now, isFlow, noOverlap, row, job, copy, api, spent, lost>>

Instant == UNION Cron
Row == [enabled : BOOLEAN, error : BOOLEAN, cron : Cron, script_path : Path]
Bound == [shifts : 0 .. MaxShifts, edits : 0 .. MaxEdits, faults : 0 .. MaxFaults,
          reentries : 0 .. MaxReentries]

\* Where a run is.  "complete": it executes, or has failed, and what is left is
\* commit_completed_job.  "pushed": handle_flow is done with the schedule.
\* "alone": no other run was found.  "steps": it has pushed a step.
Pc == {"idle", "start", "complete", "read", "checked", "pushed", "alone", "steps", "dead"}

\* What a flow pushes next: its first step, its failure module, or a step beyond
\* the first one, which an error has made it pass by.
Way == {"first", "handler", "on"}

NoJob == [st |-> "none", pc |-> "idle", at |-> 0, path |-> CHOOSE p \in Path : TRUE,
          canceled |-> FALSE, entered |-> FALSE, ending |-> FALSE, saw |-> TRUE,
          way |-> "first"]
NoCopy == [row |-> CHOOSE r \in Row : TRUE, next |-> 0, exists |-> FALSE]
NoApi == [open |-> FALSE, row |-> CHOOSE r \in Row : TRUE, cleared |-> {}, next |-> 0,
          push |-> FALSE]

TypeOK ==
    /\ now \in 0 .. MaxTime
    /\ isFlow \in BOOLEAN /\ noOverlap \in BOOLEAN
    /\ row \in Row
    /\ job \in [Slot -> [st : {"none", "queued", "running"}, pc : Pc,
                         at : {0} \cup Instant, path : Path, canceled : BOOLEAN,
                         entered : BOOLEAN, ending : BOOLEAN, saw : BOOLEAN,
                         way : Way]]
    /\ copy \in [Slot -> [row : Row, next : {0} \cup Instant, exists : BOOLEAN]]
    /\ api \in [open : BOOLEAN, row : Row, cleared : SUBSET Slot, next : {0} \cup Instant,
                push : BOOLEAN]
    /\ spent \in Bound
    /\ lost \in BOOLEAN

\* ScheduleType::find_next.
FindNext(cron, t) == Min({x \in cron : x > t})

\* A mutant of NowCutoff: the clock is trusted.
NowUnchecked(at) == now

\* push_scheduled_job with an instant that the clock has not passed: one second
\* later than that instant.
NowCutoff(at) == IF at >= now THEN at + 1 ELSE now

\* A mutant of AlreadyExists: the instant is not compared.
AlreadyExistsAny(path, next, gone) ==
    \E j \in Slot \ gone : job[j].st # "none" /\ job[j].path = path

\* already_exists, as a transaction sees it that has deleted the rows of gone.
AlreadyExists(path, next, gone) ==
    \E j \in Slot \ gone : job[j].st # "none" /\ job[j].path = path /\ job[j].at = next

Queued(path, at) == [NoJob EXCEPT !.st = "queued", !.path = path, !.at = at]

\* The bound Slot: a job is inserted where there is room, gone being the rows that
\* the same transaction deletes.
Free(gone) == {j \in Slot : j \in gone \/ job[j].st = "none"}

Init ==
    /\ now = 0
    /\ isFlow \in BOOLEAN
    /\ noOverlap \in IF isFlow THEN BOOLEAN ELSE {FALSE}
    /\ row \in [enabled : {TRUE}, error : {FALSE}, cron : Cron, script_path : {NoJob.path}]
    /\ job = [j \in Slot |-> IF j = Min(Slot)
                                 THEN Queued(row.script_path, FindNext(row.cron, 0))
                                 ELSE NoJob]
    /\ copy = [j \in Slot |-> NoCopy]
    /\ api = NoApi
    /\ spent = [shifts |-> 0, edits |-> 0, faults |-> 0, reentries |-> 0]
    /\ lost = FALSE
-----------------------------------------------------------------------------
(* The worker.                                                             *)

At(j, pc) == job[j].st = "running" /\ job[j].pc = pc
GoTo(j, pc) == job' = [job EXCEPT ![j].pc = pc]

\* A worker pulls a tick that is due.  The row of a tick that the API is about
\* to delete is locked, and skipped.
Pull(j) ==
    /\ job[j].st = "queued" /\ job[j].at <= now /\ j \notin api.cleared
    /\ job' = [job EXCEPT ![j].st = "running", ![j].saw = row.enabled,
                          ![j].pc = IF isFlow THEN "start" ELSE "complete"]
    /\ UNCHANGED <<now, isFlow, noOverlap, lost, row, copy, api, spent>>

\* get_schedule_opt, in the completing transaction or before handle_flow's.
ReadSchedule(j) ==
    /\ At(j, "start") \/ At(j, "complete")
    /\ job' = [job EXCEPT ![j].pc = "read", ![j].ending = job[j].pc = "complete"]
    /\ copy' = [copy EXCEPT ![j] = [NoCopy EXCEPT !.row = row]]
    /\ UNCHANGED <<now, isFlow, noOverlap, lost, row, api, spent>>

\* A mutant of MaySchedule: a disabled schedule goes on.
MayScheduleDisabled(j) == copy[j].row.script_path = job[j].path

\* try_schedule_next_job goes on with an enabled schedule of the job's path.
MaySchedule(j) == copy[j].row.enabled /\ copy[j].row.script_path = job[j].path

\* The jobs once the handler of j is through: a completed job leaves the queue
\* and a flow goes on.
Through(j) ==
    [job EXCEPT ![j] = IF @.ending THEN NoJob ELSE [@ EXCEPT !.pc = "pushed"]]

\* A script's copy is no longer used; a flow's may not be, either.
Forget(j) == copy' = [copy EXCEPT ![j] = NoCopy]

SkipPush(j) ==
    /\ At(j, "read") /\ ~MaySchedule(j)
    /\ job' = Through(j) /\ Forget(j)
    /\ UNCHANGED <<now, isFlow, noOverlap, lost, row, api, spent>>

\* push_scheduled_job computes the next instant and looks for its job.
Check(j) ==
    /\ At(j, "read") /\ MaySchedule(j)
    /\ LET next == FindNext(copy[j].row.cron, NowCutoff(job[j].at)) IN
          copy' = [copy EXCEPT
              ![j].next = next,
              ![j].exists = AlreadyExists(job[j].path, next,
                                          IF job[j].ending THEN {j} ELSE {})]
    /\ GoTo(j, "checked")
    /\ UNCHANGED <<now, isFlow, noOverlap, lost, row, api, spent>>

SkipExisting(j) ==
    /\ At(j, "checked") /\ copy[j].exists
    /\ job' = Through(j) /\ Forget(j)
    /\ UNCHANGED <<now, isFlow, noOverlap, lost, row, api, spent>>

\* The push, which writes schedule.error and so waits for the API's lock.
PushTick(j) ==
    /\ At(j, "checked") /\ ~copy[j].exists /\ ~api.open /\ Free({}) # {}
    /\ row' = [row EXCEPT !.error = FALSE]
    /\ job' = [Through(j) EXCEPT ![Min(Free({}))] = Queued(job[j].path, copy[j].next)]
    /\ Forget(j)
    /\ UNCHANGED <<now, isFlow, noOverlap, lost, api, spent>>

Fails == spent.faults < MaxFaults /\ spent' = [spent EXCEPT !.faults = @ + 1]

\* The push fails for good (QuotaExceeded, NotFound), or a flow has used up its
\* retries: the schedule is disabled with the error and the run goes on.
DisableSchedule(j) ==
    /\ At(j, "checked") /\ ~copy[j].exists /\ ~api.open /\ Fails
    /\ row' = [row EXCEPT !.enabled = FALSE, !.error = TRUE]
    /\ job' = Through(j) /\ Forget(j)
    /\ UNCHANGED <<now, isFlow, noOverlap, lost, api>>

\* The push fails and everything is rolled back.  A completion is tried again
\* from its start; handle_flow tries the push again with the row it has.
PushFails(j) ==
    /\ At(j, "checked") /\ Fails
    /\ GoTo(j, IF job[j].ending THEN "complete" ELSE "read")
    /\ UNCHANGED <<now, isFlow, noOverlap, lost, row, copy, api>>

Handling(j) == At(j, "start") \/ At(j, "pushed") \/ At(j, "alone")

\* A mutant of HandleFails: the completion of a flow never schedules.
HandleFailsSilently(j) ==
    /\ isFlow /\ Handling(j) /\ Fails
    /\ job' = [job EXCEPT ![j] = NoJob]
    /\ UNCHANGED <<now, isFlow, noOverlap, lost, row, copy, api>>

\* handle_flow returns an error.  If the first step has not been pushed yet, the
\* error counts as that step's, with a nil job: the flow fails, and its completion
\* schedules the next tick; or handle_flow is called again, for another attempt at
\* the step or for the failure module; or the step goes on in spite of errors and
\* the flow leaves it behind, as well as what was to be scheduled there.
HandleFails(j) ==
    /\ isFlow /\ Handling(j) /\ Fails
    /\ \/ /\ job[j].entered
          /\ job' = [job EXCEPT ![j] = NoJob]
          /\ UNCHANGED lost
       \/ /\ ~job[j].entered
          /\ GoTo(j, "complete")
          /\ UNCHANGED lost
       \/ /\ ~job[j].entered
          /\ \E way \in {"first", "handler"} :
                job' = [job EXCEPT ![j].pc = "start", ![j].way = way]
          /\ UNCHANGED lost
       \/ /\ ~job[j].entered
          /\ job' = [job EXCEPT ![j].pc = "steps", ![j].entered = TRUE, ![j].way = "on"]
          /\ lost' = (lost \/ At(j, "start"))
    /\ UNCHANGED <<now, isFlow, noOverlap, row, copy, api>>

\* A mutant of Overlapping: only the runs count that have pushed a step.
OverlappingSteps(j) ==
    \E k \in Slot \ {j} : At(k, "steps") /\ job[k].path = job[j].path

Overlapping(j) ==
    \E k \in Slot \ {j} :
        job[k].st = "running" /\ ~job[k].canceled /\ job[k].path = job[j].path

\* push_next_flow_job looks at no_flow_overlap for the first step only.
LooksAround(j) == noOverlap /\ job[j].way = "first"

\* There is another one: the run is over.
StopOverlapping(j) ==
    /\ At(j, "pushed") /\ LooksAround(j) /\ Overlapping(j)
    /\ job' = [job EXCEPT ![j] = NoJob]
    /\ UNCHANGED <<now, isFlow, noOverlap, lost, row, copy, api, spent>>

RunAlone(j) ==
    /\ At(j, "pushed") /\ LooksAround(j) /\ ~Overlapping(j)
    /\ GoTo(j, "alone")
    /\ UNCHANGED <<now, isFlow, noOverlap, lost, row, copy, api, spent>>

\* A failure module leaves the first step as it is, failed with a nil job.
PushStep(j) ==
    /\ IF LooksAround(j) THEN At(j, "alone") ELSE At(j, "pushed")
    /\ job' = [job EXCEPT ![j].pc = "steps", ![j].entered = job[j].way = "first"]
    /\ UNCHANGED <<now, isFlow, noOverlap, lost, row, copy, api, spent>>

\* An iteration of a loop at step 0 is done, or the step is tried once more, and
\* handle_flow is called again.  It leaves the schedule alone when an attempt was
\* counted before (retry.fail_count).
Reenter(j) ==
    /\ At(j, "steps") /\ job[j].way # "on" /\ spent.reentries < MaxReentries
    /\ GoTo(j, "start") \/ GoTo(j, "pushed")
    /\ spent' = [spent EXCEPT !.reentries = @ + 1]
    /\ UNCHANGED <<now, isFlow, noOverlap, lost, row, copy, api>>

\* A flow that has entered its steps ends without scheduling anything.  One whose
\* failure module has recovered does so too, and one whose failure module fails is
\* completed as if it had never begun.
FinishFlow(j) ==
    /\ At(j, "steps")
    /\ \/ job' = [job EXCEPT ![j] = NoJob]
       \/ job[j].way = "handler" /\ GoTo(j, "complete")
    /\ UNCHANGED <<now, isFlow, noOverlap, lost, row, copy, api, spent>>

\* A worker dies, or gives the job up once its retries are used up and the
\* schedule cannot be disabled either (SchedulePushZombieError), or a server
\* dies that was cancelling a tick.  FlowSteps has the deaths during a later
\* transition.
Crash(j) ==
    /\ job[j].st = "running" /\ job[j].pc \notin {"steps", "dead"} /\ ~job[j].entered
    /\ Fails
    /\ IF job[j].canceled
         THEN job' = [job EXCEPT ![j] = Queued(@.path, @.at)]
         ELSE GoTo(j, "dead")
    /\ Forget(j)
    /\ UNCHANGED <<now, isFlow, noOverlap, lost, row, api>>
-----------------------------------------------------------------------------
(* The monitor.                                                            *)

\* handle_zombie_jobs and handle_zombie_flows put the job back ...
RestartZombie(j) ==
    /\ At(j, "dead")
    /\ job' = [job EXCEPT ![j].st = "queued", ![j].pc = "idle"]
    /\ UNCHANGED <<now, isFlow, noOverlap, lost, row, copy, api, spent>>

\* ... or fail it: too many restarts, or a flow of a single worker.
FailZombie(j) ==
    /\ At(j, "dead")
    /\ GoTo(j, "complete")
    /\ UNCHANGED <<now, isFlow, noOverlap, lost, row, copy, api, spent>>
-----------------------------------------------------------------------------
(* The API.                                                                *)

\* cancel_job refuses a tick of the future; a task of the server completes one
\* that is due and not running.
Cancel(j) ==
    /\ job[j].st = "queued" /\ job[j].at <= now /\ j \notin api.cleared
    /\ spent.edits < MaxEdits /\ spent' = [spent EXCEPT !.edits = @ + 1]
    /\ job' = [job EXCEPT ![j].st = "running", ![j].pc = "complete",
                          ![j].canceled = TRUE, ![j].saw = row.enabled]
    /\ UNCHANGED <<now, isFlow, noOverlap, lost, row, copy, api>>

\* clear_schedule: the queued ticks, whatever their path.
ClearSchedule == {j \in Slot : job[j].st = "queued"}

\* set_enabled, edit_schedule and the deployment of a renamed runnable: UPDATE
\* schedule, clear_schedule and, if the schedule is enabled, push_scheduled_job.
Edit(new) ==
    /\ ~api.open
    /\ spent.edits < MaxEdits /\ spent' = [spent EXCEPT !.edits = @ + 1]
    /\ LET next == FindNext(new.cron, now) IN
          api' = [open |-> TRUE, row |-> new, cleared |-> ClearSchedule, next |-> next,
                  push |-> /\ new.enabled
                           /\ ~AlreadyExists(new.script_path, next, ClearSchedule)]
    /\ UNCHANGED <<now, isFlow, noOverlap, lost, row, job, copy>>

SetEnabled(enabled) == Edit([row EXCEPT !.enabled = enabled])
EditSchedule(cron) == Edit([row EXCEPT !.cron = cron])
Rename(path) == Edit([row EXCEPT !.script_path = path])

\* The jobs once the API's transaction is committed, with a history of which
\* runs may have seen the schedule enabled.
Committed ==
    LET left == [j \in Slot |->
                    IF j \in api.cleared THEN NoJob
                    ELSE [job[j] EXCEPT !.saw = @ \/ api.row.enabled]]
    IN IF api.push
         THEN [left EXCEPT ![Min(Free(api.cleared))] = Queued(api.row.script_path, api.next)]
         ELSE left

CommitEdit ==
    /\ api.open /\ (api.push => Free(api.cleared) # {})
    /\ row' = [api.row EXCEPT !.error = @ /\ ~api.push]
    /\ job' = Committed
    /\ api' = NoApi
    /\ lost' = FALSE
    /\ UNCHANGED <<now, isFlow, noOverlap, copy, spent>>

\* push_scheduled_job fails and with it the request.
AbortEdit ==
    /\ api.open /\ api.push /\ Fails
    /\ api' = NoApi
    /\ UNCHANGED <<now, isFlow, noOverlap, lost, row, job, copy>>
-----------------------------------------------------------------------------
(* The clock.                                                              *)

Tick ==
    /\ now < MaxTime
    /\ now' = now + 1
    /\ UNCHANGED <<isFlow, noOverlap, lost, row, job, copy, api, spent>>

\* The clock of the database is set back.
ClockShift ==
    /\ now > 0 /\ spent.shifts < MaxShifts
    /\ now' = now - 1
    /\ spent' = [spent EXCEPT !.shifts = @ + 1]
    /\ UNCHANGED <<isFlow, noOverlap, lost, row, job, copy, api>>
-----------------------------------------------------------------------------
HandleStep(j) ==
    \/ ReadSchedule(j) \/ SkipPush(j) \/ Check(j) \/ SkipExisting(j) \/ PushTick(j)
    \/ StopOverlapping(j) \/ RunAlone(j) \/ PushStep(j) \/ FinishFlow(j)

Next ==
    \/ \E j \in Slot :
          \/ Pull(j) \/ HandleStep(j) \/ DisableSchedule(j) \/ PushFails(j)
          \/ HandleFails(j) \/ Reenter(j) \/ Crash(j) \/ RestartZombie(j)
          \/ FailZombie(j) \/ Cancel(j)
    \/ \E enabled \in BOOLEAN : SetEnabled(enabled)
    \/ \E cron \in Cron : EditSchedule(cron)
    \/ \E path \in Path : Rename(path)
    \/ CommitEdit \/ AbortEdit \/ Tick \/ ClockShift

Spec == Init /\ [][Next]_vars

\* Workers, the monitor, the servers' transactions and the clock go on.
FairSpec ==
    /\ Spec
    /\ \A j \in Slot :
          /\ WF_vars(Pull(j)) /\ WF_vars(HandleStep(j))
          /\ WF_vars(RestartZombie(j) \/ FailZombie(j))
    /\ WF_vars(CommitEdit) /\ WF_vars(Tick)
-----------------------------------------------------------------------------
(* Properties.                                                             *)

\* A job that is still to schedule the next tick.
HasTickAhead(j) ==
    \/ job[j].st = "queued"
    \/ job[j].st = "running" /\ ~job[j].entered
       /\ job[j].pc \notin {"pushed", "alone", "steps"}

\* An edit after the clock was set back is an exception: push_scheduled_job has
\* no cutoff there, and takes a run for the next tick whose instant is ahead of
\* the clock again.
Regular == spent.shifts = 0 \/ spent.edits = 0

\* "It's never the case that we commit with the schedule still enabled and no
\* next tick" (tests/schedule_push.rs): an enabled schedule has a job of its
\* path in the queue that is or will push its next tick, whatever was edited,
\* cancelled, restarted or failed meanwhile and however old the rows are that
\* the runs have read.  The one thing that stops it is on record in lost: an
\* error of the first handle_flow that its first step went on in spite of.
NoSilentStop ==
    row.enabled /\ Regular /\ ~lost =>
        \E j \in Slot : job[j].path = row.script_path /\ HasTickAhead(j)

\* With no_flow_overlap two runs never execute their steps at the same time: each
\* is marked as running before it looks for the others.  A run is excepted that an
\* error has led to its failure module or past its first step without a look.
NoOverlap ==
    noOverlap => \A j, k \in Slot :
        /\ At(j, "steps") /\ job[j].way = "first"
        /\ At(k, "steps") /\ job[k].way = "first"
        /\ job[j].path = job[k].path
        => j = k

\* The tick that a run pushes is later than the run's own instant, even when the
\* database's clock was set back meanwhile: no instant is run twice in a row.
TickIsLater == [][\A j \in Slot : PushTick(j) => copy[j].next > job[j].at]_vars

\* A run that was pulled after its schedule was disabled pushes nothing unless
\* the schedule is enabled again: only runs in flight may add a last tick.
QuietOnceDisabled == [][\A j \in Slot : PushTick(j) => job[j].saw]_vars

\* A schedule that stays enabled reaches every horizon, with the exceptions of
\* NoSilentStop: no run of it is left behind in the queue, and its next tick is
\* always on its way.
KeepsTicking ==
    <>[](row.enabled /\ Regular /\ ~lost => \E j \in Slot :
            job[j].st = "queued" /\ job[j].at > MaxTime /\ job[j].path = row.script_path)
=============================================================================
