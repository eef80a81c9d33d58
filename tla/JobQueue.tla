------------------------------ MODULE JobQueue ------------------------------
(***************************************************************************)
(* The life of a job in Windmill's Postgres queue: it is pushed, claimed   *)
(* by a worker, executed, and moved from v2_job_queue to v2_job_completed. *)
(* Four kinds of process act on the same rows:                             *)
(*   - a worker's main loop pulls and runs jobs and pings them;            *)
(*   - the worker's background processor completes the jobs it is sent;    *)
(*   - an API server cancels jobs, itself completing those not running;    *)
(*   - a monitor restarts or fails jobs whose ping is too old.             *)
(* Any of them may die, and any completing transaction may be rolled back. *)
(*                                                                         *)
(* Modelled: plain (non-flow) jobs without same_worker or suspend.         *)
(***************************************************************************)
EXTENDS Naturals, Sequences, FiniteSets

CONSTANTS
    Job,               \* job ids
    Perpetual,         \* the ids used for runs of one restart_unless_cancelled script
    Worker,            \* worker processes
    Api,               \* API servers, with the cancel task each may have spawned
    Monitor,           \* server processes running the monitor loop
    NoJob,             \* no job
    Timeouts,          \* whether a job's process may outlive its timeout
    RestartZombieJobs, \* the RESTART_ZOMBIE_JOBS setting
    RestartLimit,      \* RESTART_LIMIT, 3 in the code
    MaxRetries,        \* how often add_completed_job retries, 10 in the code
    ChannelSize,       \* capacity of a worker's job_completed channel, 10 in the code
    MaxFaults          \* bound: crashes and rolled-back transactions in a behaviour

ASSUME ConstantsAssumption ==
    /\ Perpetual \subseteq Job
    /\ NoJob \notin Job
    /\ Monitor \cap (Worker \cup {<<"bg", w>> : w \in Worker} \cup Api) = {}
    /\ Timeouts \in BOOLEAN
    /\ RestartZombieJobs \in BOOLEAN
    /\ RestartLimit \in Nat \ {0}
    /\ MaxRetries \in Nat
    /\ ChannelSize \in Nat \ {0}
    /\ MaxFaults \in Nat

\* The background processor of worker w is a process of its own.
BgOf(w) == <<"bg", w>>
Bg == {BgOf(w) : w \in Worker}
Completer == Worker \cup Bg \cup Api \cup Monitor

Status == {"success", "failure", "canceled"}

VARIABLES
    v2_job,    \* the ids ever pushed
    queued,    \* the ids with a row in v2_job_queue
    running,   \* ... whose row has running = true
    canceled,  \* ... whose row has canceled_by set
    due,       \* ... whose row has scheduled_for <= now()
    ping,      \* v2_job_runtime.ping: null, recent, or older than the timeout
    completed, \* v2_job_completed.status, "none" when there is no row
    counter,   \* zombie_job_counter.counter
    exec,      \* what each worker's main loop is doing
    chan,      \* outcomes sent to each worker's background processor
    proc,      \* the completion each process has under way
    doomed,    \* jobs the monitor has decided to fail in its current sweep
    faults     \* crashes and roll-backs so far

rows == <<v2_job, queued, running, canceled, due, ping, completed, counter>>
vars == <<v2_job, queued, running, canceled, due, ping, completed, counter,
          exec, chan, proc, doomed, faults>>

Outcome == [job : Job, status : Status]

(***************************************************************************)
(* A worker's main loop: "running" is in handle_queued_job, "sawCancel" is *)
(* there with a row pulled with canceled_by set, "finished" has a result   *)
(* and waits for room in the channel.                                      *)
(***************************************************************************)
IdleExec == [mode |-> "idle", job |-> NoJob, status |-> "success"]
Exec == [mode : {"idle", "sawCancel", "running", "finished"},
         job : Job \cup {NoJob}, status : Status]
Finished(j, s) == [mode |-> "finished", job |-> j, status |-> s]

(***************************************************************************)
(* A completion under way.  call is the function on the stack:             *)
(*   "complete"  process_completed_job                                     *)
(*   "error"     handle_job_error, or cancel_single_job's spawned task     *)
(*   "force"     force_complete_zombie_job                                 *)
(* pc is where its transaction stands: "begin" before the INSERT, "blocked" *)
(* in the INSERT behind another transaction that inserted the same id,     *)
(* "inserted" before the DELETE and the commit, "restart" after the commit *)
(* of a perpetual script's run; "soft" is the UPDATE of a soft cancel.     *)
(***************************************************************************)
IdleProc == [pc |-> "idle", job |-> NoJob, status |-> "success",
             call |-> "error", tries |-> 0]
Proc == [pc : {"idle", "begin", "blocked", "inserted", "restart", "soft"},
         job : Job \cup {NoJob}, status : Status,
         call : {"complete", "error", "force"}, tries : 0 .. MaxRetries]

\* About to make the attempt after n failed ones to complete j with status s.
Attempt(j, s, call, n) ==
    [pc |-> "begin", job |-> j, status |-> s, call |-> call, tries |-> n]
Call(j, s, call) == Attempt(j, s, call, 0)

TypeOK ==
    /\ v2_job \subseteq Job
    /\ queued \subseteq Job
    /\ running \subseteq queued
    /\ canceled \subseteq queued
    /\ due \subseteq queued
    /\ ping \in [Job -> {"null", "fresh", "stale"}]
    /\ completed \in [Job -> Status \cup {"none"}]
    /\ counter \in [Job -> 0 .. RestartLimit]
    /\ exec \in [Worker -> Exec]
    /\ chan \in [Worker -> Seq(Outcome)]
    /\ proc \in [Completer -> Proc]
    /\ doomed \in [Monitor -> SUBSET Job]
    /\ faults \in 0 .. MaxFaults

Init ==
    /\ v2_job = {} /\ queued = {} /\ running = {} /\ canceled = {} /\ due = {}
    /\ ping = [j \in Job |-> "null"]
    /\ completed = [j \in Job |-> "none"]
    /\ counter = [j \in Job |-> 0]
    /\ exec = [w \in Worker |-> IdleExec]
    /\ chan = [w \in Worker |-> <<>>]
    /\ proc = [c \in Completer |-> IdleProc]
    /\ doomed = [m \in Monitor |-> {}]
    /\ faults = 0
-----------------------------------------------------------------------------
(* Pushing a job.                                                          *)

\* push: the rows of a new job appear in one transaction; scheduled_for may be
\* in the future.
InsertJob(j, isDue) ==
    /\ v2_job' = v2_job \cup {j}
    /\ queued' = queued \cup {j}
    /\ due' = IF isDue THEN due \cup {j} ELSE due
    /\ UNCHANGED <<running, canceled, ping, completed, counter>>

\* A client runs a job.  The perpetual script is started by hand only once; its
\* later runs are pushed by RestartPerpetual.
Push(j, isDue) ==
    /\ j \notin v2_job
    /\ j \in Perpetual => v2_job \cap Perpetual = {}
    /\ InsertJob(j, isDue)
    /\ UNCHANGED <<exec, chan, proc, doomed, faults>>

\* Time reaches scheduled_for.
BecomeDue(j) ==
    /\ j \in queued \ due
    /\ due' = due \cup {j}
    /\ UNCHANGED <<v2_job, queued, running, canceled, ping, completed, counter,
                   exec, chan, proc, doomed, faults>>
-----------------------------------------------------------------------------
(* A worker's main loop.                                                   *)

\* Mutant of Pull: the peek query without "running = false".
PullRunningToo(w, j) ==
    /\ exec[w].mode = "idle" /\ proc[w].pc = "idle"
    /\ j \in due
    /\ running' = running \cup {j}
    /\ ping' = [ping EXCEPT ![j] = "fresh"]
    /\ exec' = [exec EXCEPT ![w] = [mode |-> "running", job |-> j, status |-> "success"]]
    /\ UNCHANGED <<v2_job, queued, canceled, due, completed, counter,
                   chan, proc, doomed, faults>>

\* The pull query claims one row and stamps its ping in one statement.
Pull(w, j) ==
    /\ exec[w].mode = "idle" /\ proc[w].pc = "idle"
    /\ j \in due \ running
    /\ running' = running \cup {j}
    /\ ping' = [ping EXCEPT ![j] = "fresh"]
    /\ exec' = [exec EXCEPT ![w] =
                   [mode |-> IF j \in canceled THEN "sawCancel" ELSE "running",
                    job |-> j, status |-> "success"]]
    /\ UNCHANGED <<v2_job, queued, canceled, due, completed, counter,
                   chan, proc, doomed, faults>>

\* handle_queued_job returns Err for a job pulled with canceled_by set, and may
\* do so for another one that it cannot start; the main loop then fails the job
\* itself through handle_all_job_kind_error, which passes canceled_by: None.
RefuseJob(w) ==
    /\ exec[w].mode \in {"running", "sawCancel"}
    /\ proc' = [proc EXCEPT ![w] = Call(exec[w].job, "failure", "error")]
    /\ exec' = [exec EXCEPT ![w] = IdleExec]
    /\ UNCHANGED <<rows, chan, doomed, faults>>

\* The job's process exits by itself.
FinishJob(w, s) ==
    /\ exec[w].mode = "running"
    /\ s \in {"success", "failure"}
    /\ exec' = [exec EXCEPT ![w] = Finished(exec[w].job, s)]
    /\ UNCHANGED <<rows, chan, proc, doomed, faults>>

\* The job outlives its timeout: handle_child writes canceled_by on the row and
\* kills the process; the result is an ordinary execution error.
TimeoutJob(w) ==
    /\ Timeouts
    /\ exec[w].mode = "running"
    /\ canceled' = IF exec[w].job \in queued THEN canceled \cup {exec[w].job} ELSE canceled
    /\ exec' = [exec EXCEPT ![w] = Finished(exec[w].job, "failure")]
    /\ UNCHANGED <<v2_job, queued, running, due, ping, completed, counter,
                   chan, proc, doomed, faults>>

\* update_job_poller: the ping is written by job id, whichever worker the row
\* now belongs to.  A row that is gone kills the process and nothing is sent;
\* canceled_by kills it and makes the outcome "canceled".
PingJob(w) ==
    LET j == exec[w].job IN
    /\ exec[w].mode = "running"
    /\ \/ /\ j \notin queued
          /\ exec' = [exec EXCEPT ![w] = IdleExec]
          /\ ping' = ping
       \/ /\ j \in queued
          /\ ping' = [ping EXCEPT ![j] = "fresh"]
          /\ exec' = IF j \in canceled
                       THEN [exec EXCEPT ![w] = Finished(j, "canceled")]
                       ELSE exec
    /\ UNCHANGED <<v2_job, queued, running, canceled, due, completed, counter,
                   chan, proc, doomed, faults>>

\* send_job_completed waits for room in the bounded channel.
SendCompleted(w) ==
    /\ exec[w].mode = "finished"
    /\ Len(chan[w]) < ChannelSize
    /\ chan' = [chan EXCEPT ![w] =
                   Append(@, [job |-> exec[w].job, status |-> exec[w].status])]
    /\ exec' = [exec EXCEPT ![w] = IdleExec]
    /\ UNCHANGED <<rows, proc, doomed, faults>>

\* No ping for ZOMBIE_JOB_TIMEOUT: the worker is dead, paused or cut off.
PingExpires(j) ==
    /\ ping[j] = "fresh"
    /\ ping' = [ping EXCEPT ![j] = "stale"]
    /\ UNCHANGED <<v2_job, queued, running, canceled, due, completed, counter,
                   exec, chan, proc, doomed, faults>>
-----------------------------------------------------------------------------
(* Completing a job: commit_completed_job and its callers.                 *)

\* The background processor takes the next outcome.
ReceiveCompleted(w) ==
    /\ chan[w] # <<>> /\ proc[BgOf(w)].pc = "idle"
    /\ proc' = [proc EXCEPT ![BgOf(w)] =
                   Call(Head(chan[w]).job, Head(chan[w]).status, "complete")]
    /\ chan' = [chan EXCEPT ![w] = Tail(@)]
    /\ UNCHANGED <<rows, exec, doomed, faults>>

\* What a process does once the call on its stack has returned Ok ...
AfterReturn(c) ==
    IF c \in Monitor /\ proc[c].call = "error"
      THEN Call(proc[c].job, proc[c].status, "force")
      ELSE IdleProc

\* ... or Err: handle_receive_completed_job falls back on handle_job_error,
\* which keeps canceled_by; the others only log the error.
AfterError(c) ==
    IF proc[c].call = "complete"
      THEN Call(proc[c].job,
                IF proc[c].status = "canceled" THEN "canceled" ELSE "failure", "error")
      ELSE AfterReturn(c)

\* The transactions that hold an uncommitted v2_job_completed row for j.
Holders(j) == {c \in Completer : proc[c].pc = "inserted" /\ proc[c].job = j}

\* INSERT INTO v2_job_completed ... SELECT FROM v2_job_queue, at READ COMMITTED.
\* No queue row in the statement's snapshot: AlreadyCompleted, never retried.
\* Otherwise it waits for a transaction that has inserted the same id.
InsertCompleted(c) ==
    LET p == proc[c] IN
    /\ p.pc = "begin"
    /\ proc' = [proc EXCEPT ![c] =
                   IF p.job \notin queued THEN AfterError(c)
                   ELSE IF Holders(p.job) # {} THEN [p EXCEPT !.pc = "blocked"]
                   ELSE [p EXCEPT !.pc = "inserted"]]
    /\ UNCHANGED <<rows, exec, chan, doomed, faults>>

\* The other transaction has ended.  ON CONFLICT (id) DO UPDATE proceeds on the
\* snapshot already taken, whether the other one committed or not.
Unblock(c) ==
    /\ proc[c].pc = "blocked"
    /\ Holders(proc[c].job) = {}
    /\ proc' = [proc EXCEPT ![c].pc = "inserted"]
    /\ UNCHANGED <<rows, exec, chan, doomed, faults>>

\* restart_job_if_perpetual looks at its canceled_by argument, not at the row.
\* force_complete_zombie_job does not call it.
MustRestart(p) == p.call # "force" /\ p.status # "canceled" /\ p.job \in Perpetual

\* Mutant of Commit: the row is not deleted in the same transaction.
CommitBeforeDelete(c) ==
    LET p == proc[c] IN
    /\ p.pc = "inserted"
    /\ completed' = [completed EXCEPT ![p.job] = p.status]
    /\ proc' = [proc EXCEPT ![c] = AfterReturn(c)]
    /\ UNCHANGED <<v2_job, queued, running, canceled, due, ping, counter,
                   exec, chan, doomed, faults>>

\* delete_job, which cascades to v2_job_runtime, and the commit.
Commit(c) ==
    LET p == proc[c] IN
    /\ p.pc = "inserted"
    /\ completed' = [completed EXCEPT ![p.job] = p.status]
    /\ queued' = queued \ {p.job}
    /\ running' = running \ {p.job}
    /\ canceled' = canceled \ {p.job}
    /\ due' = due \ {p.job}
    /\ ping' = [ping EXCEPT ![p.job] = "null"]
    /\ proc' = [proc EXCEPT ![c] =
                   IF MustRestart(p) THEN [p EXCEPT !.pc = "restart"] ELSE AfterReturn(c)]
    /\ UNCHANGED <<v2_job, counter, exec, chan, doomed, faults>>

\* The transaction is rolled back: retried while attempts remain, and given up
\* when none does or the error is one that is not retried.
\* force_complete_zombie_job never retries.
Abort(c) ==
    LET p == proc[c] IN
    /\ p.pc \in {"inserted", "blocked"}
    /\ faults < MaxFaults
    /\ faults' = faults + 1
    /\ \/ /\ p.call # "force" /\ p.tries < MaxRetries
          /\ proc' = [proc EXCEPT ![c] = Attempt(p.job, p.status, p.call, p.tries + 1)]
       \/ proc' = [proc EXCEPT ![c] = AfterError(c)]
    /\ UNCHANGED <<rows, exec, chan, doomed>>

\* restart_job_if_perpetual_inner, in a transaction of its own after the commit.
\* Perpetual bounds how many runs there are.
RestartPerpetual(c, isDue) ==
    /\ proc[c].pc = "restart"
    /\ proc' = [proc EXCEPT ![c] = AfterReturn(c)]
    /\ IF Perpetual \subseteq v2_job
         THEN UNCHANGED rows
         ELSE \E j \in Perpetual \ v2_job : InsertJob(j, isDue)
    /\ UNCHANGED <<exec, chan, doomed, faults>>
-----------------------------------------------------------------------------
(* Cancelling a job.                                                       *)

\* cancel_job reads the row.  A forced cancel, or one of a job that was not
\* running when it was read, spawns a task that completes the job as canceled.
\* The monitor's cancel_stale_job is a forced cancel.
CancelJob(a, j, force) ==
    /\ proc[a].pc = "idle"
    /\ j \in queued
    /\ proc' = [proc EXCEPT ![a] =
                   IF force \/ j \notin running THEN Call(j, "canceled", "error")
                   ELSE [Call(j, "canceled", "error") EXCEPT !.pc = "soft"]]
    /\ UNCHANGED <<rows, exec, chan, doomed, faults>>

\* Otherwise it marks the row, if it is still there.
SoftCancel(a) ==
    /\ proc[a].pc = "soft"
    /\ canceled' = canceled \cup ({proc[a].job} \cap queued)
    /\ due' = due \cup ({proc[a].job} \cap queued)
    /\ proc' = [proc EXCEPT ![a] = IdleProc]
    /\ UNCHANGED <<v2_job, queued, running, ping, completed, counter,
                   exec, chan, doomed, faults>>
-----------------------------------------------------------------------------
(* The monitor.                                                            *)

\* Mutant of Zombies: "counter < limit" where the query has "counter <= limit".
ZombiesBelowLimit == {j \in running : ping[j] = "stale" /\ counter[j] < RestartLimit}

\* to_update: running jobs whose ping is too old.
Zombies == {j \in running : ping[j] = "stale" /\ counter[j] <= RestartLimit}

\* Mutant of Released: "counter <= limit" where the query has "counter < limit".
ReleasedAtLimit == IF RestartZombieJobs THEN Zombies ELSE {}

\* The rows the sweep gives back to the queue ...
Released == IF RestartZombieJobs THEN {j \in Zombies : counter[j] < RestartLimit} ELSE {}

\* ... and the jobs it goes on to fail: restart is (counter + 1) < RESTART_LIMIT, so
\* that a row released for the last time is also failed.
LimitReached ==
    IF RestartZombieJobs THEN {j \in Zombies : ~(counter[j] + 1 < RestartLimit)} ELSE Zombies

\* Mutant of ZombieSweep: update_ping joined with to_update, not zombie_jobs.
ZombieSweepClearsAllPings(m) ==
    /\ doomed[m] = {} /\ proc[m].pc = "idle"
    /\ Zombies # {}
    /\ running' = running \ Released
    /\ ping' = [j \in Job |-> IF j \in Zombies THEN "null" ELSE ping[j]]
    /\ counter' = [j \in Job |-> IF j \in Released THEN counter[j] + 1 ELSE counter[j]]
    /\ doomed' = [doomed EXCEPT ![m] = LimitReached]
    /\ UNCHANGED <<v2_job, queued, canceled, due, completed, exec, chan, proc, faults>>

\* Mutant of ZombieSweep: the restart is not counted.
ZombieSweepUncounted(m) ==
    /\ doomed[m] = {} /\ proc[m].pc = "idle"
    /\ Zombies # {}
    /\ running' = running \ Released
    /\ ping' = [j \in Job |-> IF j \in Released THEN "null" ELSE ping[j]]
    /\ doomed' = [doomed EXCEPT ![m] = LimitReached]
    /\ UNCHANGED <<v2_job, queued, canceled, due, completed, counter, exec, chan, proc, faults>>

\* handle_zombie_jobs: one statement over all the zombie rows.
ZombieSweep(m) ==
    /\ doomed[m] = {} /\ proc[m].pc = "idle"
    /\ Zombies # {}
    /\ running' = running \ Released
    /\ ping' = [j \in Job |-> IF j \in Released THEN "null" ELSE ping[j]]
    /\ counter' = [j \in Job |-> IF j \in Released THEN counter[j] + 1 ELSE counter[j]]
    /\ doomed' = [doomed EXCEPT ![m] = LimitReached]
    /\ UNCHANGED <<v2_job, queued, canceled, due, completed, exec, chan, proc, faults>>

\* ... followed by handle_job_error, then force_complete_zombie_job, on each job
\* of the list that get_queued_job_v2 still finds.
FailZombie(m, j) ==
    /\ proc[m].pc = "idle"
    /\ j \in doomed[m]
    /\ doomed' = [doomed EXCEPT ![m] = @ \ {j}]
    /\ proc' = IF j \in queued
                 THEN [proc EXCEPT ![m] = Call(j, "failure", "error")] ELSE proc
    /\ UNCHANGED <<rows, exec, chan, faults>>
-----------------------------------------------------------------------------
(* Crashes: what the process held in memory is lost, its transaction is    *)
(* rolled back, and a new process takes its place.                         *)

CrashWorker(w) ==
    /\ faults < MaxFaults
    /\ faults' = faults + 1
    /\ exec' = [exec EXCEPT ![w] = IdleExec]
    /\ chan' = [chan EXCEPT ![w] = <<>>]
    /\ proc' = [c \in Completer |-> IF c \in {w, BgOf(w)} THEN IdleProc ELSE proc[c]]
    /\ UNCHANGED <<rows, doomed>>

CrashServer(s) ==
    /\ faults < MaxFaults
    /\ faults' = faults + 1
    /\ proc' = [proc EXCEPT ![s] = IdleProc]
    /\ doomed' = [m \in Monitor |-> IF m = s THEN {} ELSE doomed[m]]
    /\ UNCHANGED <<rows, exec, chan>>
-----------------------------------------------------------------------------
CompleterStep(c) ==
    \/ InsertCompleted(c) \/ Unblock(c) \/ Commit(c) \/ Abort(c)
    \/ \E isDue \in BOOLEAN : RestartPerpetual(c, isDue)

WorkerStep(w) ==
    \/ \E j \in Job : Pull(w, j)
    \/ RefuseJob(w) \/ TimeoutJob(w) \/ PingJob(w)
    \/ \E s \in Status : FinishJob(w, s)
    \/ SendCompleted(w) \/ ReceiveCompleted(w) \/ CrashWorker(w)

ApiStep(a) ==
    \/ \E j \in Job, force \in BOOLEAN : CancelJob(a, j, force)
    \/ SoftCancel(a)

MonitorStep(m) ==
    \/ ZombieSweep(m)
    \/ \E j \in Job : FailZombie(m, j)

Next ==
    \/ \E j \in Job, isDue \in BOOLEAN : Push(j, isDue)
    \/ \E j \in Job : BecomeDue(j) \/ PingExpires(j)
    \/ \E w \in Worker : WorkerStep(w)
    \/ \E c \in Completer : CompleterStep(c)
    \/ \E a \in Api : ApiStep(a)
    \/ \E m \in Monitor : MonitorStep(m)
    \/ \E s \in Api \cup Monitor : CrashServer(s)

Spec == Init /\ [][Next]_vars

(***************************************************************************)
(* Every process keeps taking its steps; a job's process ends (it has a    *)
(* timeout); the ping of a job that no worker runs grows old.              *)
(***************************************************************************)
Orphaned(j) == \A w \in Worker : exec[w].job # j

Fairness ==
    /\ \A j \in Job : WF_vars(BecomeDue(j)) /\ WF_vars(Orphaned(j) /\ PingExpires(j))
    /\ \A w \in Worker :
          /\ WF_vars(\E j \in Job : Pull(w, j))
          /\ WF_vars(RefuseJob(w) \/ \E s \in Status : FinishJob(w, s))
          /\ WF_vars(SendCompleted(w)) /\ WF_vars(ReceiveCompleted(w))
    /\ \A c \in Completer :
          WF_vars(InsertCompleted(c) \/ Unblock(c) \/ Commit(c)
                    \/ \E isDue \in BOOLEAN : RestartPerpetual(c, isDue))
    /\ \A a \in Api : WF_vars(SoftCancel(a))
    /\ \A m \in Monitor :
          WF_vars(ZombieSweep(m)) /\ WF_vars(\E j \in Job : FailZombie(m, j))

FairSpec == Spec /\ Fairness
-----------------------------------------------------------------------------
(* Properties.                                                             *)

(***************************************************************************)
(* A job that was pushed is in exactly one of v2_job_queue and             *)
(* v2_job_completed: whatever completes it, crashes or is rolled back, it  *)
(* is neither lost nor both finished and claimable (the INSERT and the     *)
(* DELETE of commit_completed_job are one transaction).                    *)
(***************************************************************************)
OnePlace ==
    \A j \in Job :
        /\ j \in queued \cup {i \in Job : completed[i] # "none"} <=> j \in v2_job
        /\ ~(j \in queued /\ completed[j] # "none")

(***************************************************************************)
(* A running row has a ping.  handle_zombie_jobs compares ping with now(), *)
(* which is never true of NULL: a running row without a ping would be      *)
(* invisible to the monitor and to every worker, for ever.                 *)
(***************************************************************************)
RunningHasPing == \A j \in running : ping[j] # "null"

(***************************************************************************)
(* A job has at most one executing worker, plus one for each zombie        *)
(* restart on record in zombie_job_counter (the workers that were thought  *)
(* dead).  A row the monitor gave back has one attempt fewer in progress.  *)
(***************************************************************************)
Executors(j) == {w \in Worker : exec[w].job = j}

ClaimsAccounted ==
    \A j \in Job :
        Cardinality(Executors(j)) <= counter[j] + (IF j \in queued \ running THEN 0 ELSE 1)

(***************************************************************************)
(* Every job that is pushed is completed, although workers, servers and    *)
(* transactions fail: a lost attempt is found by its ping, restarted at    *)
(* most RestartLimit times and then failed by the monitor.                 *)
(***************************************************************************)
EveryJobCompletes == \A j \in Job : (j \in v2_job) ~> (completed[j] # "none")

(***************************************************************************)
(* The queue implements JobLifecycle: one enqueue, one claim at a time,    *)
(* restarts on record and within RESTART_LIMIT, and done is final.         *)
(***************************************************************************)
PhaseOf(j) ==
    IF completed[j] # "none" THEN "done"
    ELSE IF j \in running THEN "running"
    ELSE IF j \in queued THEN "queued"
    ELSE "none"

Lifecycle == INSTANCE JobLifecycle
    WITH Limit <- RestartLimit, phase <- [j \in Job |-> PhaseOf(j)], restarts <- counter
LifecycleSpec == Lifecycle!Spec

(***************************************************************************)
(* At most one run of a perpetual script may start now, as the comment     *)
(* of cancel_persistent_script_jobs says.  The monitor breaks it: a run it *)
(* takes for a zombie may be completed, and restarted, by its slow worker  *)
(* and by the one that pulls it again, at the same time.                   *)
(***************************************************************************)
OnePerpetualRun == Cardinality(due \cap Perpetual) <= 1

(***************************************************************************)
(* Nothing but a restart on record does: while zombie_job_counter has no   *)
(* entry for a run of the script, one run at most is in the queue or has   *)
(* been completed and is about to push the next one, whatever is refused,  *)
(* cancelled, timed out, rolled back or dies.                              *)
(***************************************************************************)
OneRunUnlessRestarted ==
    RestartZombieJobs /\ (\A p \in Perpetual : counter[p] = 0) =>
        Cardinality(queued \cap Perpetual)
            + Cardinality({c \in Completer : proc[c].pc = "restart"}) <= 1
=============================================================================
