--------------------------- MODULE JobQueueProofs ---------------------------
(* Theorems about JobQueue, for any number of jobs, workers and servers.   *)
EXTENDS JobQueue, FiniteSetTheorems, TLAPS

(***************************************************************************)
(* Whatever a process is working on is a job that was pushed.  OnePlace    *)
(* alone is not inductive: a commit of an id that was never pushed would   *)
(* create a result without a job.                                          *)
(***************************************************************************)
WorkIsKnown ==
    /\ \A c \in Completer : proc[c].pc # "idle" => proc[c].job \in v2_job
    /\ \A w \in Worker : exec[w].mode # "idle" => exec[w].job \in v2_job
    /\ \A w \in Worker : \A i \in 1 .. Len(chan[w]) : chan[w][i].job \in v2_job

IInv == TypeOK /\ OnePlace /\ RunningHasPing /\ WorkIsKnown

(* The invariant holds of the empty queue. *)
LEMMA InitIInv == Init => IInv
  BY ConstantsAssumption DEF Init, IInv, TypeOK, OnePlace, RunningHasPing, WorkIsKnown,
     IdleExec, IdleProc, Exec, Proc, Status, Outcome

(* What a process turns to after a call is a well-formed completion of the *)
(* same job, or nothing.                                                   *)
LEMMA AfterType ==
  ASSUME TypeOK, NEW c \in Completer, proc[c].pc # "idle"
  PROVE  /\ AfterReturn(c) \in Proc /\ AfterError(c) \in Proc
         /\ AfterReturn(c).pc # "idle" => AfterReturn(c).job = proc[c].job
         /\ AfterError(c).pc # "idle" => AfterError(c).job = proc[c].job
  BY ConstantsAssumption DEF TypeOK, AfterReturn, AfterError, Call, Attempt, Proc, IdleProc, Status

(* A new id is put in the queue only. *)
LEMMA PushIInv ==
  ASSUME IInv, NEW j \in Job, NEW isDue \in BOOLEAN, Push(j, isDue)
  PROVE  IInv'
<1>1. TypeOK'
  BY DEF IInv, TypeOK, Push, InsertJob
<1>2. OnePlace'
  BY DEF IInv, TypeOK, OnePlace, Push, InsertJob
<1>3. RunningHasPing' /\ WorkIsKnown'
  BY DEF IInv, RunningHasPing, WorkIsKnown, Push, InsertJob
<1> QED BY <1>1, <1>2, <1>3 DEF IInv

(* The passing of scheduled_for touches no other column. *)
LEMMA BecomeDueIInv ==
  ASSUME IInv, NEW j \in Job, BecomeDue(j)
  PROVE  IInv'
<1>1. TypeOK' BY DEF IInv, TypeOK, BecomeDue
<1>2. OnePlace' BY DEF IInv, OnePlace, BecomeDue
<1>3. RunningHasPing' /\ WorkIsKnown'
  BY DEF IInv, RunningHasPing, WorkIsKnown, BecomeDue
<1> QED BY <1>1, <1>2, <1>3 DEF IInv

(* A ping that grows old is still a ping. *)
LEMMA PingExpiresIInv ==
  ASSUME IInv, NEW j \in Job, PingExpires(j)
  PROVE  IInv'
<1>1. TypeOK' BY DEF IInv, TypeOK, PingExpires
<1>2. OnePlace' BY DEF IInv, OnePlace, PingExpires
<1>3. RunningHasPing' BY DEF IInv, TypeOK, RunningHasPing, PingExpires
<1>4. WorkIsKnown' BY DEF IInv, WorkIsKnown, PingExpires
<1> QED BY <1>1, <1>2, <1>3, <1>4 DEF IInv

(* A claim stamps the ping of the row it sets running. *)
LEMMA PullIInv ==
  ASSUME IInv, NEW w \in Worker, NEW j \in Job, Pull(w, j)
  PROVE  IInv'
<1>1. TypeOK' BY DEF IInv, TypeOK, Pull, Exec, Status
<1>2. OnePlace' BY DEF IInv, OnePlace, Pull
<1>3. RunningHasPing' BY DEF IInv, TypeOK, RunningHasPing, Pull
<1>4. WorkIsKnown'
  <2>1. j \in v2_job BY DEF IInv, TypeOK, OnePlace, Pull
  <2> QED BY <2>1 DEF IInv, TypeOK, WorkIsKnown, Pull
<1> QED BY <1>1, <1>2, <1>3, <1>4 DEF IInv

(* A refused job is handed over to its completion. *)
LEMMA RefuseJobIInv ==
  ASSUME IInv, NEW w \in Worker, RefuseJob(w)
  PROVE  IInv'
<1>1. /\ exec[w].job \in v2_job /\ exec[w].job \in Job
      /\ w \in Completer
  BY DEF IInv, TypeOK, WorkIsKnown, RefuseJob, Completer
<1>2. TypeOK'
  BY <1>1, ConstantsAssumption DEF IInv, TypeOK, RefuseJob, rows, Call, Attempt, Exec, Proc, Status, IdleExec
<1>3. OnePlace' /\ RunningHasPing'
  BY DEF IInv, OnePlace, RunningHasPing, RefuseJob, rows
<1>4. WorkIsKnown'
  BY <1>1 DEF IInv, TypeOK, WorkIsKnown, RefuseJob, rows, Call, Attempt, IdleExec
<1> QED BY <1>2, <1>3, <1>4 DEF IInv

(* A result is one of the job the worker was running. *)
LEMMA FinishJobIInv ==
  ASSUME IInv, NEW w \in Worker, NEW s \in Status, FinishJob(w, s)
  PROVE  IInv'
<1>1. TypeOK' BY DEF IInv, TypeOK, FinishJob, rows, Exec, Finished, Status
<1>2. OnePlace' /\ RunningHasPing'
  BY DEF IInv, OnePlace, RunningHasPing, FinishJob, rows
<1>3. WorkIsKnown'
  BY DEF IInv, TypeOK, WorkIsKnown, FinishJob, rows, Exec, Finished
<1> QED BY <1>1, <1>2, <1>3 DEF IInv

(* A timeout marks a row only if it is there. *)
LEMMA TimeoutJobIInv ==
  ASSUME IInv, NEW w \in Worker, TimeoutJob(w)
  PROVE  IInv'
<1>1. TypeOK' BY DEF IInv, TypeOK, TimeoutJob, Exec, Finished, Status
<1>2. OnePlace' /\ RunningHasPing'
  BY DEF IInv, OnePlace, RunningHasPing, TimeoutJob
<1>3. WorkIsKnown'
  BY DEF IInv, TypeOK, WorkIsKnown, TimeoutJob, Exec, Finished
<1> QED BY <1>1, <1>2, <1>3 DEF IInv

(* The poller leaves the worker with the same job or none. *)
LEMMA PingJobIInv ==
  ASSUME IInv, NEW w \in Worker, PingJob(w)
  PROVE  IInv'
<1> DEFINE j == exec[w].job
<1>1. j \in v2_job /\ j \in Job /\ exec[w] \in Exec
  BY DEF IInv, TypeOK, WorkIsKnown, PingJob
<1>2. IdleExec \in Exec /\ Finished(j, "canceled") \in Exec
  BY <1>1 DEF IdleExec, Exec, Finished, Status
<1>3. PICK e \in Exec : /\ e.mode # "idle" => e.job = j
                        /\ exec' = [exec EXCEPT ![w] = e]
  <2>1. CASE j \notin queued
    BY <2>1, <1>2 DEF PingJob, IdleExec
  <2>2. CASE j \in queued /\ j \in canceled
    BY <2>2, <1>2 DEF PingJob, Finished
  <2>3. CASE j \in queued /\ j \notin canceled
    <3>1. exec' = [exec EXCEPT ![w] = exec[w]] BY <2>3 DEF PingJob, IInv, TypeOK
    <3> QED BY <3>1, <1>1
  <2> QED BY <2>1, <2>2, <2>3
<1>4. ping' \in [Job -> {"null", "fresh", "stale"}]
  BY <1>1 DEF IInv, TypeOK, PingJob
<1>5. TypeOK' BY <1>3, <1>4 DEF IInv, TypeOK, PingJob
<1>6. OnePlace' BY DEF IInv, OnePlace, PingJob
<1>7. RunningHasPing' BY <1>1 DEF IInv, TypeOK, RunningHasPing, PingJob
<1>8. WorkIsKnown' BY <1>1, <1>3 DEF IInv, TypeOK, WorkIsKnown, PingJob
<1> QED BY <1>5, <1>6, <1>7, <1>8 DEF IInv

(* What is sent to the channel is the worker's job. *)
LEMMA SendCompletedIInv ==
  ASSUME IInv, NEW w \in Worker, SendCompleted(w)
  PROVE  IInv'
<1> DEFINE o == [job |-> exec[w].job, status |-> exec[w].status]
<1>1. /\ exec[w].job \in v2_job
      /\ o \in Outcome
      /\ chan[w] \in Seq(Outcome)
  BY DEF IInv, TypeOK, WorkIsKnown, SendCompleted, Exec, Outcome
<1>2. /\ chan' = [chan EXCEPT ![w] = Append(chan[w], o)]
      /\ exec' = [exec EXCEPT ![w] = IdleExec]
      /\ UNCHANGED <<rows, proc, doomed, faults>>
  BY DEF SendCompleted
<1>3. TypeOK'
  BY <1>1, <1>2 DEF IInv, TypeOK, rows, Exec, Status, IdleExec
<1>4. OnePlace' /\ RunningHasPing'
  BY <1>2 DEF IInv, OnePlace, RunningHasPing, rows
<1>5. WorkIsKnown'
  <2>1. \A i \in 1 .. Len(Append(chan[w], o)) : Append(chan[w], o)[i].job \in v2_job
    BY <1>1 DEF IInv, WorkIsKnown
  <2>2. \A u \in Worker : \A i \in 1 .. Len(chan'[u]) : chan'[u][i].job \in v2_job
    BY <2>1, <1>2 DEF IInv, TypeOK, WorkIsKnown
  <2> QED BY <2>2, <1>2 DEF IInv, TypeOK, WorkIsKnown, rows, IdleExec
<1> QED BY <1>3, <1>4, <1>5 DEF IInv

(* The background processor takes up a job of the channel. *)
LEMMA ReceiveCompletedIInv ==
  ASSUME IInv, NEW w \in Worker, ReceiveCompleted(w)
  PROVE  IInv'
<1> DEFINE o == Head(chan[w])
<1>1. /\ o \in Outcome /\ o.job \in v2_job
      /\ chan[w] \in Seq(Outcome) /\ chan[w] # <<>>
      /\ Tail(chan[w]) \in Seq(Outcome)
      /\ BgOf(w) \in Completer
  BY DEF IInv, TypeOK, WorkIsKnown, ReceiveCompleted, Completer, Bg
<1>2. /\ chan' = [chan EXCEPT ![w] = Tail(chan[w])]
      /\ proc' = [proc EXCEPT ![BgOf(w)] = Call(o.job, o.status, "complete")]
      /\ UNCHANGED <<rows, exec, doomed, faults>>
  BY DEF ReceiveCompleted
<1>3. Call(o.job, o.status, "complete") \in Proc
  BY <1>1, ConstantsAssumption DEF Call, Attempt, Proc, Outcome
<1>4. TypeOK' BY <1>1, <1>2, <1>3 DEF IInv, TypeOK, rows
<1>5. OnePlace' /\ RunningHasPing'
  BY <1>2 DEF IInv, OnePlace, RunningHasPing, rows
<1>6. WorkIsKnown'
  <2>1. \A i \in 1 .. Len(Tail(chan[w])) : Tail(chan[w])[i].job \in v2_job
    BY <1>1 DEF IInv, WorkIsKnown
  <2>2. \A u \in Worker : \A i \in 1 .. Len(chan'[u]) : chan'[u][i].job \in v2_job
    BY <2>1, <1>2 DEF IInv, TypeOK, WorkIsKnown
  <2>3. \A c \in Completer : proc'[c].pc # "idle" => proc'[c].job \in v2_job
    BY <1>1, <1>2 DEF IInv, TypeOK, WorkIsKnown, Call, Attempt
  <2> QED BY <2>2, <2>3, <1>2 DEF IInv, WorkIsKnown, rows
<1> QED BY <1>4, <1>5, <1>6 DEF IInv

(* The INSERT changes no committed row. *)
LEMMA InsertCompletedIInv ==
  ASSUME IInv, NEW c \in Completer, InsertCompleted(c)
  PROVE  IInv'
<1>1. /\ proc[c].job \in v2_job /\ proc[c] \in Proc
      /\ AfterError(c) \in Proc
      /\ AfterError(c).pc # "idle" => AfterError(c).job = proc[c].job
  BY AfterType DEF IInv, TypeOK, WorkIsKnown, InsertCompleted
<1>2. TypeOK' BY <1>1 DEF IInv, TypeOK, InsertCompleted, rows, Proc
<1>3. OnePlace' /\ RunningHasPing'
  BY DEF IInv, OnePlace, RunningHasPing, InsertCompleted, rows
<1>4. WorkIsKnown'
  BY <1>1 DEF IInv, TypeOK, WorkIsKnown, InsertCompleted, rows, Proc
<1> QED BY <1>2, <1>3, <1>4 DEF IInv

(* Nor does the end of its waiting. *)
LEMMA UnblockIInv ==
  ASSUME IInv, NEW c \in Completer, Unblock(c)
  PROVE  IInv'
<1>1. TypeOK' BY ZenonT(30) DEF IInv, TypeOK, Unblock, rows, Proc
<1>2. OnePlace' /\ RunningHasPing'
  BY DEF IInv, OnePlace, RunningHasPing, Unblock, rows
<1>3. WorkIsKnown' BY DEF IInv, TypeOK, WorkIsKnown, Unblock, rows, Proc
<1> QED BY <1>1, <1>2, <1>3 DEF IInv

(* A commit moves the job from the queue to the completed ones; the second commit of a job finds it moved. *)
LEMMA CommitIInv ==
  ASSUME IInv, NEW c \in Completer, Commit(c)
  PROVE  IInv'
<1>1. /\ proc[c].job \in v2_job /\ proc[c].job \in Job /\ proc[c] \in Proc
      /\ proc[c].status \in Status
      /\ AfterReturn(c) \in Proc
      /\ AfterReturn(c).pc # "idle" => AfterReturn(c).job = proc[c].job
  BY AfterType DEF IInv, TypeOK, WorkIsKnown, Commit, Proc
<1>2. TypeOK' BY <1>1 DEF IInv, TypeOK, Commit, Proc
<1>3. OnePlace' BY <1>1 DEF IInv, TypeOK, OnePlace, Commit, Status
<1>4. RunningHasPing' BY <1>1 DEF IInv, TypeOK, RunningHasPing, Commit
<1>5. WorkIsKnown' BY <1>1 DEF IInv, TypeOK, WorkIsKnown, Commit, Proc
<1> QED BY <1>2, <1>3, <1>4, <1>5 DEF IInv

(* A roll-back leaves the rows as they were. *)
LEMMA AbortIInv ==
  ASSUME IInv, NEW c \in Completer, Abort(c)
  PROVE  IInv'
<1>1. /\ proc[c].job \in v2_job /\ proc[c] \in Proc
      /\ AfterError(c) \in Proc
      /\ AfterError(c).pc # "idle" => AfterError(c).job = proc[c].job
  BY AfterType DEF IInv, TypeOK, WorkIsKnown, Abort
<1> DEFINE p == proc[c]
           again == Attempt(p.job, p.status, p.call, p.tries + 1)
<1>2. proc[c].tries < MaxRetries => again \in Proc /\ again.job = proc[c].job
  BY <1>1, ConstantsAssumption DEF Proc, Attempt
<1>3. \/ proc[c].tries < MaxRetries /\ proc' = [proc EXCEPT ![c] = again]
      \/ proc' = [proc EXCEPT ![c] = AfterError(c)]
  BY DEF Abort
<1>4. PICK q \in Proc : /\ q.pc # "idle" => q.job = proc[c].job
                        /\ proc' = [proc EXCEPT ![c] = q]
  BY <1>1, <1>2, <1>3
<1>5. TypeOK' BY <1>4, ConstantsAssumption DEF IInv, TypeOK, Abort, rows
<1>6. OnePlace' /\ RunningHasPing'
  BY DEF IInv, OnePlace, RunningHasPing, Abort, rows
<1>7. WorkIsKnown' BY <1>1, <1>4 DEF IInv, TypeOK, WorkIsKnown, Abort, rows
<1> QED BY <1>5, <1>6, <1>7 DEF IInv

(* The next run of a perpetual script has a new id. *)
LEMMA RestartPerpetualIInv ==
  ASSUME IInv, NEW c \in Completer, NEW isDue \in BOOLEAN, RestartPerpetual(c, isDue)
  PROVE  IInv'
<1>1. /\ proc[c].job \in v2_job
      /\ AfterReturn(c) \in Proc
      /\ AfterReturn(c).pc # "idle" => AfterReturn(c).job = proc[c].job
  BY AfterType DEF IInv, TypeOK, WorkIsKnown, RestartPerpetual
<1>2. CASE UNCHANGED rows
  <2>1. TypeOK' BY <1>1, <1>2 DEF IInv, TypeOK, RestartPerpetual, rows
  <2>2. OnePlace' /\ RunningHasPing' BY <1>2 DEF IInv, OnePlace, RunningHasPing, rows
  <2>3. WorkIsKnown' BY <1>1, <1>2 DEF IInv, TypeOK, WorkIsKnown, RestartPerpetual, rows
  <2> QED BY <2>1, <2>2, <2>3 DEF IInv
<1>3. CASE \E j \in Perpetual \ v2_job : InsertJob(j, isDue)
  <2> PICK j \in Perpetual \ v2_job : InsertJob(j, isDue) BY <1>3
  <2>0. j \in Job BY ConstantsAssumption
  <2>1. TypeOK' BY <1>1, <2>0 DEF IInv, TypeOK, RestartPerpetual, InsertJob
  <2>2. OnePlace' BY <2>0 DEF IInv, TypeOK, OnePlace, InsertJob
  <2>3. RunningHasPing' BY DEF IInv, RunningHasPing, InsertJob
  <2>4. WorkIsKnown'
    BY <1>1 DEF IInv, TypeOK, WorkIsKnown, RestartPerpetual, InsertJob
  <2> QED BY <2>1, <2>2, <2>3, <2>4 DEF IInv
<1> QED BY <1>2, <1>3 DEF RestartPerpetual

(* A cancel takes up a job that is in the queue. *)
LEMMA CancelJobIInv ==
  ASSUME IInv, NEW a \in Api, NEW j \in Job, NEW force \in BOOLEAN, CancelJob(a, j, force)
  PROVE  IInv'
<1>1. a \in Completer /\ j \in v2_job
  BY DEF IInv, OnePlace, CancelJob, Completer
<1>2. Call(j, "canceled", "error") \in Proc /\ Call(j, "canceled", "error").job = j
  BY ConstantsAssumption DEF Call, Attempt, Proc, Status
<1>3. /\ [Call(j, "canceled", "error") EXCEPT !.pc = "soft"] \in Proc
      /\ [Call(j, "canceled", "error") EXCEPT !.pc = "soft"].job = j
  BY <1>2 DEF Proc
<1>4. PICK q \in Proc : q.job = j /\ proc' = [proc EXCEPT ![a] = q]
  BY <1>2, <1>3 DEF CancelJob
<1>5. TypeOK' BY <1>1, <1>4 DEF IInv, TypeOK, CancelJob, rows
<1>6. OnePlace' /\ RunningHasPing'
  BY DEF IInv, OnePlace, RunningHasPing, CancelJob, rows
<1>7. WorkIsKnown' BY <1>1, <1>4 DEF IInv, TypeOK, WorkIsKnown, CancelJob, rows
<1> QED BY <1>5, <1>6, <1>7 DEF IInv

(* A soft cancel marks a row only if it is there. *)
LEMMA SoftCancelIInv ==
  ASSUME IInv, NEW a \in Api, SoftCancel(a)
  PROVE  IInv'
<1>1. a \in Completer BY DEF Completer
<1>2. TypeOK'
  BY <1>1, ConstantsAssumption DEF IInv, TypeOK, SoftCancel, IdleProc, Proc, Status
<1>3. OnePlace' /\ RunningHasPing'
  BY DEF IInv, OnePlace, RunningHasPing, SoftCancel
<1>4. WorkIsKnown' BY <1>1 DEF IInv, TypeOK, WorkIsKnown, SoftCancel, IdleProc
<1> QED BY <1>2, <1>3, <1>4 DEF IInv

(* A sweep takes the ping from exactly the rows it sets not running, and counts none beyond RestartLimit. *)
LEMMA ZombieSweepIInv ==
  ASSUME IInv, NEW m \in Monitor, ZombieSweep(m)
  PROVE  IInv'
<1>1. /\ Released \subseteq running /\ LimitReached \subseteq Job
      /\ \A j \in Released : counter[j] < RestartLimit
  BY DEF IInv, TypeOK, Released, LimitReached, Zombies
<1>2. TypeOK' BY <1>1, ConstantsAssumption DEF IInv, TypeOK, ZombieSweep
<1>3. OnePlace' BY DEF IInv, OnePlace, ZombieSweep
<1>4. RunningHasPing' BY <1>1 DEF IInv, TypeOK, RunningHasPing, ZombieSweep
<1>5. WorkIsKnown' BY DEF IInv, WorkIsKnown, ZombieSweep
<1> QED BY <1>2, <1>3, <1>4, <1>5 DEF IInv

(* The monitor takes up a job that is in the queue. *)
LEMMA FailZombieIInv ==
  ASSUME IInv, NEW m \in Monitor, NEW j \in Job, FailZombie(m, j)
  PROVE  IInv'
<1>1. m \in Completer /\ (j \in queued => j \in v2_job)
  BY DEF IInv, OnePlace, Completer
<1>2. TypeOK'
  BY <1>1, ConstantsAssumption DEF IInv, TypeOK, FailZombie, rows, Call, Attempt, Proc, Status
<1>3. OnePlace' /\ RunningHasPing'
  BY DEF IInv, OnePlace, RunningHasPing, FailZombie, rows
<1>4. WorkIsKnown' BY <1>1 DEF IInv, TypeOK, WorkIsKnown, FailZombie, rows, Call, Attempt
<1> QED BY <1>2, <1>3, <1>4 DEF IInv

(* A worker that dies leaves the rows as they were. *)
LEMMA CrashWorkerIInv ==
  ASSUME IInv, NEW w \in Worker, CrashWorker(w)
  PROVE  IInv'
<1>1. w \in Completer /\ BgOf(w) \in Completer BY DEF Completer, Bg
<1>2. IdleProc \in Proc /\ IdleExec \in Exec /\ <<>> \in Seq(Outcome)
  BY ConstantsAssumption DEF IdleProc, Proc, IdleExec, Exec, Status
<1>3. TypeOK'
  <2>1. proc' \in [Completer -> Proc]
    BY <1>1, <1>2 DEF IInv, TypeOK, CrashWorker
  <2>2. exec' \in [Worker -> Exec] /\ chan' \in [Worker -> Seq(Outcome)]
    BY <1>2 DEF IInv, TypeOK, CrashWorker
  <2> QED BY <2>1, <2>2, ConstantsAssumption DEF IInv, TypeOK, CrashWorker, rows
<1>4. OnePlace' /\ RunningHasPing'
  BY DEF IInv, OnePlace, RunningHasPing, CrashWorker, rows
<1>5. WorkIsKnown'
  BY <1>1 DEF IInv, TypeOK, WorkIsKnown, CrashWorker, rows, IdleProc, IdleExec
<1> QED BY <1>3, <1>4, <1>5 DEF IInv

(* So does a server. *)
LEMMA CrashServerIInv ==
  ASSUME IInv, NEW s \in Api \cup Monitor, CrashServer(s)
  PROVE  IInv'
<1>1. s \in Completer BY DEF Completer
<1>2. IdleProc \in Proc BY ConstantsAssumption DEF IdleProc, Proc, Status
<1>3. TypeOK'
  BY <1>1, <1>2, ConstantsAssumption DEF IInv, TypeOK, CrashServer, rows
<1>4. OnePlace' /\ RunningHasPing'
  BY DEF IInv, OnePlace, RunningHasPing, CrashServer, rows
<1>5. WorkIsKnown' BY <1>1 DEF IInv, TypeOK, WorkIsKnown, CrashServer, rows, IdleProc
<1> QED BY <1>3, <1>4, <1>5 DEF IInv

(* Every step preserves the invariant: one lemma per action. *)
LEMMA NextIInv == IInv /\ [Next]_vars => IInv'
<1> SUFFICES ASSUME IInv, [Next]_vars PROVE IInv'
  OBVIOUS
<1>1. CASE \E j \in Job, isDue \in BOOLEAN : Push(j, isDue)
  BY <1>1, PushIInv
<1>2. CASE \E j \in Job : BecomeDue(j) \/ PingExpires(j)
  BY <1>2, BecomeDueIInv, PingExpiresIInv
<1>3. CASE \E w \in Worker : WorkerStep(w)
  BY <1>3, PullIInv, RefuseJobIInv, TimeoutJobIInv, PingJobIInv, FinishJobIInv,
     SendCompletedIInv, ReceiveCompletedIInv, CrashWorkerIInv DEF WorkerStep
<1>4. CASE \E c \in Completer : CompleterStep(c)
  BY <1>4, InsertCompletedIInv, UnblockIInv, CommitIInv, AbortIInv, RestartPerpetualIInv
     DEF CompleterStep
<1>5. CASE \E a \in Api : ApiStep(a)
  BY <1>5, CancelJobIInv, SoftCancelIInv DEF ApiStep
<1>6. CASE \E m \in Monitor : MonitorStep(m)
  BY <1>6, ZombieSweepIInv, FailZombieIInv DEF MonitorStep
<1>7. CASE \E s \in Api \cup Monitor : CrashServer(s)
  BY <1>7, CrashServerIInv
<1>8. CASE UNCHANGED vars
  BY <1>8 DEF vars, IInv, TypeOK, OnePlace, RunningHasPing, WorkIsKnown
<1> QED BY <1>1, <1>2, <1>3, <1>4, <1>5, <1>6, <1>7, <1>8 DEF Next

(* The inductive invariant holds in every reachable state of the queue. *)
THEOREM IInvInvariant == Spec => []IInv
<1>1. Init => IInv BY InitIInv
<1>2. IInv /\ [Next]_vars => IInv' BY NextIInv
<1> QED BY <1>1, <1>2, PTL DEF Spec

(* Every variable keeps the type its table or process gives it; in         *)
(* particular handle_zombie_jobs never counts past RESTART_LIMIT.          *)
THEOREM TypeCorrect == Spec => []TypeOK
<1>1. IInv => TypeOK BY DEF IInv
<1> QED BY <1>1, IInvInvariant, PTL

(* commit_completed_job and force_complete_zombie_job lose no job and      *)
(* leave none both completed and claimable.                                *)
THEOREM NoJobLost == Spec => []OnePlace
<1>1. IInv => OnePlace BY DEF IInv
<1> QED BY <1>1, IInvInvariant, PTL

(* The zombie query can see every running job.                             *)
THEOREM ZombiesVisible == Spec => []RunningHasPing
<1>1. IInv => RunningHasPing BY DEF IInv
<1> QED BY <1>1, IInvInvariant, PTL
-----------------------------------------------------------------------------
(* Claims.  ClaimsAccounted is inductive once the sets it counts are known *)
(* to be finite; it rests on WorkIsKnown, since a job that is pushed must  *)
(* not be at a worker already.                                             *)

\* The attempts of a job that may be under way without a restart on record.
Claims(j) == counter[j] + (IF j \in queued \ running THEN 0 ELSE 1)

ClaimsInv ==
    /\ \A w \in Worker : exec[w].mode = "idle" => exec[w].job = NoJob
    /\ \A j \in Job : IsFiniteSet(Executors(j)) /\ Cardinality(Executors(j)) <= Claims(j)

(* A worker that takes up no job keeps the one it has or is free. *)
NoPull ==
    \A w \in Worker :
        \/ exec'[w] = exec[w]
        \/ exec'[w] = IdleExec
        \/ exec'[w].job = exec[w].job /\ exec'[w].mode # "idle"

(* A step that takes up no job, and after which no job has fewer claims    *)
(* unless nobody executes it, keeps the account.                           *)
LEMMA NoNewExecutor ==
  ASSUME IInv, IInv', ClaimsInv, NoPull,
         \A j \in Job : Executors(j) = {} \/ Claims(j)' >= Claims(j)
  PROVE  ClaimsInv'
<1>1. \A w \in Worker : exec'[w].mode = "idle" => exec'[w].job = NoJob
  BY DEF ClaimsInv, NoPull, IdleExec
<1>2. ASSUME NEW j \in Job
      PROVE  IsFiniteSet(Executors(j)') /\ Cardinality(Executors(j)') <= Claims(j)'
  <2>1. Executors(j)' \subseteq Executors(j)
    BY ConstantsAssumption DEF NoPull, Executors, IdleExec
  <2>2. /\ IsFiniteSet(Executors(j)')
        /\ Cardinality(Executors(j)') <= Cardinality(Executors(j))
    BY <2>1, FS_Subset DEF ClaimsInv
  <2>3. Cardinality(Executors(j)') \in Nat /\ Cardinality(Executors(j)) \in Nat
    BY <2>2, FS_CardinalityType DEF ClaimsInv
  <2>4. Claims(j) \in Nat /\ Claims(j)' \in Nat
    BY ConstantsAssumption DEF IInv, TypeOK, Claims
  <2>5. CASE Executors(j) = {}
    BY <2>1, <2>2, <2>4, <2>5, FS_EmptySet
  <2>6. CASE Claims(j)' >= Claims(j)
    BY <2>2, <2>3, <2>4, <2>6 DEF ClaimsInv
  <2> QED BY <2>5, <2>6
<1> QED BY <1>1, <1>2 DEF ClaimsInv

(* So does one that touches no queue row and no restart. *)
LEMMA SameClaims ==
  ASSUME IInv, IInv', ClaimsInv, NoPull, UNCHANGED <<queued, running, counter>>
  PROVE  ClaimsInv'
<1>1. \A j \in Job : Claims(j)' = Claims(j) /\ Claims(j) \in Nat
  BY ConstantsAssumption DEF IInv, TypeOK, Claims
<1> QED BY <1>1, NoNewExecutor

(* A job that enters the queue is at no worker. *)
LEMMA InsertClaims ==
  ASSUME IInv, IInv', ClaimsInv, NEW i \in Job, NEW isDue \in BOOLEAN,
         i \notin v2_job, InsertJob(i, isDue), UNCHANGED exec
  PROVE  ClaimsInv'
<1>1. Executors(i) = {}
  BY ConstantsAssumption DEF IInv, WorkIsKnown, ClaimsInv, Executors
<1>2. \A j \in Job \ {i} : Claims(j)' = Claims(j) /\ Claims(j) \in Nat
  BY ConstantsAssumption DEF IInv, TypeOK, InsertJob, Claims
<1> QED BY <1>1, <1>2, NoNewExecutor DEF NoPull

(* A pull takes a row that nobody has claimed since its last restart. *)
LEMMA PullClaims ==
  ASSUME IInv, IInv', ClaimsInv, NEW w \in Worker, NEW i \in Job, Pull(w, i)
  PROVE  ClaimsInv'
<1>1. \A v \in Worker : exec'[v].mode = "idle" => exec'[v].job = NoJob
  BY DEF ClaimsInv, Pull, IInv, TypeOK
<1>2. ASSUME NEW j \in Job
      PROVE  IsFiniteSet(Executors(j)') /\ Cardinality(Executors(j)') <= Claims(j)'
  <2>1. Cardinality(Executors(j)) \in Nat /\ Claims(j) \in Nat /\ Claims(j)' \in Nat
    BY FS_CardinalityType, ConstantsAssumption DEF ClaimsInv, IInv, TypeOK, Claims
  <2>2. CASE j = i
    <3>1. Executors(j)' = Executors(j) \cup {w}
      BY <2>2 DEF Pull, Executors, IInv, TypeOK
    <3>2. /\ IsFiniteSet(Executors(j)')
          /\ Cardinality(Executors(j)') <= Cardinality(Executors(j)) + 1
      <4>1. IsFiniteSet(Executors(j))
        BY DEF ClaimsInv
      <4>2. /\ IsFiniteSet(Executors(j) \cup {w})
            /\ Cardinality(Executors(j) \cup {w}) =
                 IF w \in Executors(j) THEN Cardinality(Executors(j))
                                       ELSE Cardinality(Executors(j)) + 1
        BY <4>1, FS_AddElement
      <4> QED BY <2>1, <3>1, <4>2
    <3>3. Claims(j)' = Claims(j) + 1
      BY <2>2, ConstantsAssumption DEF Pull, Claims, IInv, TypeOK
    <3>4. Cardinality(Executors(j)') \in Nat
      BY <3>2, FS_CardinalityType
    <3> QED BY <2>1, <3>2, <3>3, <3>4 DEF ClaimsInv
  <2>3. CASE j # i
    <3>1. Executors(j)' \subseteq Executors(j)
      BY <2>3 DEF Pull, Executors, IInv, TypeOK
    <3>2. /\ IsFiniteSet(Executors(j)')
          /\ Cardinality(Executors(j)') <= Cardinality(Executors(j))
      BY <3>1, FS_Subset DEF ClaimsInv
    <3>3. Claims(j)' = Claims(j)
      BY <2>3, ConstantsAssumption DEF Pull, Claims, IInv, TypeOK
    <3>4. Cardinality(Executors(j)') \in Nat
      BY <3>2, FS_CardinalityType
    <3> QED BY <2>1, <3>2, <3>3, <3>4 DEF ClaimsInv
  <2> QED BY <2>2, <2>3
<1> QED BY <1>1, <1>2 DEF ClaimsInv

(* The sweep counts every restart, and a commit only gives up a row. *)
LEMMA RowClaims ==
  ASSUME IInv, IInv', ClaimsInv,
         \/ \E m \in Monitor : ZombieSweep(m)
         \/ \E c \in Completer : Commit(c)
  PROVE  ClaimsInv'
<1>1. NoPull
  BY DEF NoPull, ZombieSweep, Commit
<1>2. \A j \in Job : Claims(j)' >= Claims(j)
  BY ConstantsAssumption DEF IInv, TypeOK, Claims, ZombieSweep, Zombies, Released, Commit
<1> QED BY <1>1, <1>2, NoNewExecutor

(* Every step keeps the account. *)
LEMMA NextClaims == IInv /\ IInv' /\ ClaimsInv /\ [Next]_vars => ClaimsInv'
<1> SUFFICES ASSUME IInv, IInv', ClaimsInv, [Next]_vars PROVE ClaimsInv'
  OBVIOUS
<1>1. ASSUME NEW j \in Job, NEW isDue \in BOOLEAN, Push(j, isDue) PROVE ClaimsInv'
  BY <1>1, InsertClaims DEF Push
<1>2. ASSUME NEW j \in Job, BecomeDue(j) \/ PingExpires(j) PROVE ClaimsInv'
  BY <1>2, SameClaims DEF BecomeDue, PingExpires, NoPull
<1>3. ASSUME NEW w \in Worker, WorkerStep(w) PROVE ClaimsInv'
  <2>1. CASE \E j \in Job : Pull(w, j)
    BY <2>1, PullClaims
  <2>2. CASE RefuseJob(w) \/ TimeoutJob(w) \/ (\E s \in Status : FinishJob(w, s))
             \/ SendCompleted(w) \/ ReceiveCompleted(w) \/ CrashWorker(w)
    <3>1. NoPull
      BY <2>2 DEF RefuseJob, TimeoutJob, FinishJob, SendCompleted, ReceiveCompleted,
                  CrashWorker, NoPull, Finished, IInv, TypeOK
    <3>2. UNCHANGED <<queued, running, counter>>
      BY <2>2 DEF RefuseJob, TimeoutJob, FinishJob, SendCompleted, ReceiveCompleted,
                  CrashWorker, rows
    <3> QED BY <3>1, <3>2, SameClaims
  <2>3. CASE PingJob(w)
    BY <2>3, SameClaims DEF PingJob, NoPull, Finished, IInv, TypeOK
  <2> QED BY <1>3, <2>1, <2>2, <2>3 DEF WorkerStep
<1>4. ASSUME NEW c \in Completer, CompleterStep(c) PROVE ClaimsInv'
  <2>1. CASE Commit(c)
    BY <2>1, RowClaims
  <2>2. ASSUME NEW isDue \in BOOLEAN, RestartPerpetual(c, isDue) PROVE ClaimsInv'
    <3>1. CASE Perpetual \subseteq v2_job
      BY <2>2, <3>1, SameClaims DEF RestartPerpetual, rows, NoPull
    <3>2. CASE ~(Perpetual \subseteq v2_job)
      BY <2>2, <3>2, InsertClaims, ConstantsAssumption DEF RestartPerpetual
    <3> QED BY <3>1, <3>2
  <2>3. CASE InsertCompleted(c) \/ Unblock(c) \/ Abort(c)
    BY <2>3, SameClaims DEF InsertCompleted, Unblock, Abort, rows, NoPull
  <2> QED BY <1>4, <2>1, <2>2, <2>3 DEF CompleterStep
<1>5. ASSUME NEW a \in Api, ApiStep(a) PROVE ClaimsInv'
  BY <1>5, SameClaims DEF ApiStep, CancelJob, SoftCancel, rows, NoPull
<1>6. ASSUME NEW m \in Monitor, MonitorStep(m) PROVE ClaimsInv'
  BY <1>6, RowClaims, SameClaims DEF MonitorStep, FailZombie, rows, NoPull
<1>7. ASSUME NEW s \in Api \cup Monitor, CrashServer(s) PROVE ClaimsInv'
  BY <1>7, SameClaims DEF CrashServer, rows, NoPull
<1>8. CASE UNCHANGED vars
  BY <1>8, SameClaims DEF vars, NoPull
<1> QED BY <1>1, <1>2, <1>3, <1>4, <1>5, <1>6, <1>7, <1>8 DEF Next

(* A job has no more executing workers than zombie_job_counter and its own *)
(* row account for, however many workers pull, are thought dead, come back *)
(* or die: a second execution is always one the monitor has decided on.    *)
THEOREM ExecutionsAccounted == Spec => []ClaimsAccounted
<1>1. Init => ClaimsInv
  <2> SUFFICES ASSUME Init PROVE ClaimsInv
    OBVIOUS
  <2>1. \A j \in Job : Executors(j) = {} /\ Claims(j) \in Nat
    BY ConstantsAssumption DEF Init, Executors, IdleExec, Claims
  <2>2. \A j \in Job : IsFiniteSet(Executors(j)) /\ Cardinality(Executors(j)) = 0
    BY <2>1, FS_EmptySet
  <2> QED BY <2>1, <2>2 DEF Init, ClaimsInv, IdleExec
<1>2. ClaimsInv => ClaimsAccounted
  BY DEF ClaimsInv, ClaimsAccounted, Claims
<1> QED BY <1>1, <1>2, NextClaims, IInvInvariant, PTL DEF Spec
-----------------------------------------------------------------------------
(* Perpetual scripts.  A run that the monitor has not restarted is pulled  *)
(* once, so that one attempt of it is handed from the main loop to the     *)
(* channel and from there to the processor, and only that attempt can push *)
(* a next run: a cancel's completion carries canceled_by, and a job the    *)
(* monitor fails has been restarted before or is restarted by the sweep    *)
(* that dooms it.  The queue alone is not enough: a completion that is     *)
(* past its INSERT goes on to restart although a cancel has taken the row  *)
(* from it (ON CONFLICT DO UPDATE).                                        *)

\* The monitor has restarted no run of the script.
Quiet == RestartZombieJobs /\ \A p \in Perpetual : counter[p] = 0

\* What the monitor fails or is about to fail is on record in zombie_job_counter.
MonitorInv ==
    RestartZombieJobs => \A m \in Monitor :
        /\ \A j \in doomed[m] : counter[j] > 0
        /\ proc[m].pc # "idle" => counter[proc[m].job] > 0

\* A run of the script in a worker's main loop.
Busy(w) == exec[w].mode # "idle" /\ exec[w].job \in Perpetual

\* The completion of one, other than a cancelled one.
Working(c) ==
    proc[c].pc # "idle" /\ proc[c].status # "canceled" /\ proc[c].job \in Perpetual

\* The jobs in a worker's channel.
Sent(w) == {chan[w][i].job : i \in 1 .. Len(chan[w])}

\* A run of the script is at one place of one worker only, and its row is claimed or gone.
OneAttempt ==
    /\ \A v \in Worker : Busy(v) =>
          /\ exec[v].job \notin queued \ running
          /\ \A w \in Worker : Busy(w) /\ exec[w].job = exec[v].job => w = v
          /\ \A w \in Worker : exec[v].job \notin Sent(w)
          /\ \A c \in Completer : Working(c) => proc[c].job # exec[v].job
    /\ \A v \in Worker : \A i \in 1 .. Len(chan[v]) : chan[v][i].job \in Perpetual =>
          /\ chan[v][i].job \notin queued \ running
          /\ \A w \in Worker : \A k \in 1 .. Len(chan[w]) :
                chan[v][i].job = chan[w][k].job => v = w /\ i = k
          /\ \A c \in Completer : Working(c) => proc[c].job # chan[v][i].job
    /\ \A c \in Completer : Working(c) =>
          /\ proc[c].job \notin queued \ running
          /\ \A d \in Completer : Working(d) /\ proc[d].job = proc[c].job => d = c

\* A completion that is past its INSERT: nothing keeps it from pushing a next run.
Restarting(c) == Working(c) /\ proc[c].pc \in {"blocked", "inserted", "restart"}

\* A run that is in the queue, or whose completion may still push the next one.
Alive(j) ==
    \/ j \in queued
    \/ \E c \in Completer : Restarting(c) /\ proc[c].job = j

SingleRun ==
    /\ \A c \in Completer : proc[c].pc = "restart" =>
          Working(c) /\ proc[c].job \in Perpetual \ queued
    /\ \A i, j \in Perpetual : Alive(i) /\ Alive(j) => i = j

PerpetualInv == MonitorInv /\ (Quiet => OneAttempt /\ SingleRun)

(* What a step does to the attempts.  It hands no job to a worker, ...     *)
ExecKeeps ==
    \A w \in Worker : Busy(w)' => Busy(w) /\ exec'[w].job = exec[w].job

(* ... sends none, ...                                                     *)
ChanKeeps == \A w \in Worker : chan'[w] = chan[w] \/ chan'[w] = <<>>

(* ... takes none up for completion, ...                                   *)
ProcKeeps ==
    \A c \in Completer : Working(c)' => Working(c) /\ proc'[c].job = proc[c].job

(* ... and gives no row back to the queue.                                 *)
RowsKeep ==
    \A j \in v2_job \cap Perpetual : j \in queued' \ running' => j \in queued \ running

(* What is at a worker was pushed. *)
LEMMA SentIsKnown ==
  ASSUME IInv
  PROVE  /\ \A w \in Worker : exec[w].mode # "idle" => exec[w].job \in v2_job
         /\ \A w \in Worker : \A i \in 1 .. Len(chan[w]) : chan[w][i].job \in v2_job
         /\ \A c \in Completer : Working(c) => proc[c].job \in v2_job
  BY DEF IInv, WorkIsKnown, Working

(* A step that moves no attempt keeps them single. *)
LEMMA KeepsAttempt ==
  ASSUME IInv, OneAttempt, ExecKeeps, ChanKeeps, ProcKeeps, RowsKeep
  PROVE  OneAttempt'
<1>1. \A w \in Worker : \A i \in 1 .. Len(chan'[w]) :
          i \in 1 .. Len(chan[w]) /\ chan'[w][i] = chan[w][i]
  BY DEF ChanKeeps
<1>2. \A w \in Worker : Sent(w)' \subseteq Sent(w)
  BY <1>1 DEF Sent
<1>3. ASSUME NEW v \in Worker, Busy(v)'
      PROVE  /\ exec'[v].job \notin queued' \ running'
             /\ \A w \in Worker : Busy(w)' /\ exec'[w].job = exec'[v].job => w = v
             /\ \A w \in Worker : exec'[v].job \notin Sent(w)'
             /\ \A c \in Completer : Working(c)' => proc'[c].job # exec'[v].job
  <2>1. Busy(v) /\ exec'[v].job = exec[v].job /\ exec[v].job \in v2_job \cap Perpetual
    BY <1>3, SentIsKnown DEF ExecKeeps, Busy
  <2> QED BY <1>2, <2>1 DEF OneAttempt, ExecKeeps, ProcKeeps, RowsKeep
<1>4. ASSUME NEW v \in Worker, NEW i \in 1 .. Len(chan'[v]), chan'[v][i].job \in Perpetual
      PROVE  /\ chan'[v][i].job \notin queued' \ running'
             /\ \A w \in Worker : \A k \in 1 .. Len(chan'[w]) :
                   chan'[v][i].job = chan'[w][k].job => v = w /\ i = k
             /\ \A c \in Completer : Working(c)' => proc'[c].job # chan'[v][i].job
  <2>1. /\ i \in 1 .. Len(chan[v]) /\ chan'[v][i] = chan[v][i]
        /\ chan[v][i].job \in v2_job \cap Perpetual
    BY <1>1, <1>4, SentIsKnown
  <2>2. chan'[v][i].job \notin queued' \ running'
    BY <2>1 DEF OneAttempt, RowsKeep
  <2>3. \A w \in Worker : \A k \in 1 .. Len(chan'[w]) :
            chan'[v][i].job = chan'[w][k].job => v = w /\ i = k
    BY <1>1, <2>1 DEF OneAttempt
  <2>4. \A c \in Completer : Working(c)' => proc'[c].job # chan'[v][i].job
    BY <2>1 DEF OneAttempt, ProcKeeps
  <2> QED BY <2>2, <2>3, <2>4
<1>5. ASSUME NEW c \in Completer, Working(c)'
      PROVE  /\ proc'[c].job \notin queued' \ running'
             /\ \A d \in Completer : Working(d)' /\ proc'[d].job = proc'[c].job => d = c
  <2>1. Working(c) /\ proc'[c].job = proc[c].job /\ proc[c].job \in v2_job \cap Perpetual
    BY <1>5, SentIsKnown DEF ProcKeeps, Working
  <2> QED BY <2>1 DEF OneAttempt, ProcKeeps, RowsKeep
<1> QED BY <1>3, <1>4, <1>5 DEF OneAttempt

(* A pull claims a row that is at no worker. *)
LEMMA PullAttempt ==
  ASSUME IInv, OneAttempt, NEW u \in Worker, NEW j \in Job, Pull(u, j)
  PROVE  OneAttempt'
<1>0. ASSUME j \notin Perpetual PROVE OneAttempt'
  BY <1>0, KeepsAttempt
     DEF Pull, IInv, TypeOK, ExecKeeps, ChanKeeps, ProcKeeps, RowsKeep, Busy, Working
<1> SUFFICES ASSUME j \in Perpetual PROVE OneAttempt'
  BY <1>0
<1>1. /\ j \in queued \ running
      /\ \A w \in Worker : Busy(w) => exec[w].job # j
      /\ \A w \in Worker : \A i \in 1 .. Len(chan[w]) : chan[w][i].job # j
      /\ \A c \in Completer : Working(c) => proc[c].job # j
  BY DEF OneAttempt, Pull, IInv, TypeOK
<1>2. /\ exec'[u].job = j
      /\ \A w \in Worker \ {u} : exec'[w] = exec[w] /\ (Busy(w)' <=> Busy(w))
      /\ \A c \in Completer : proc'[c] = proc[c] /\ (Working(c)' <=> Working(c))
      /\ chan' = chan /\ queued' = queued /\ running' = running \cup {j}
      /\ \A w \in Worker : Sent(w)' = Sent(w)
  BY DEF Pull, IInv, TypeOK, Busy, Working, Sent
<1>3. \A w \in Worker : j \notin Sent(w)
  BY <1>1 DEF Sent
<1>4. ASSUME NEW v \in Worker, Busy(v)'
      PROVE  /\ exec'[v].job \notin queued' \ running'
             /\ \A w \in Worker : Busy(w)' /\ exec'[w].job = exec'[v].job => w = v
             /\ \A w \in Worker : exec'[v].job \notin Sent(w)'
             /\ \A c \in Completer : Working(c)' => proc'[c].job # exec'[v].job
  <2>1. CASE v = u
    BY <1>1, <1>2, <1>3, <2>1
  <2>2. CASE v # u
    BY <1>1, <1>2, <1>4, <2>2 DEF OneAttempt
  <2> QED BY <2>1, <2>2
<1>5. ASSUME NEW v \in Worker, NEW i \in 1 .. Len(chan'[v]), chan'[v][i].job \in Perpetual
      PROVE  /\ chan'[v][i].job \notin queued' \ running'
             /\ \A w \in Worker : \A k \in 1 .. Len(chan'[w]) :
                   chan'[v][i].job = chan'[w][k].job => v = w /\ i = k
             /\ \A c \in Completer : Working(c)' => proc'[c].job # chan'[v][i].job
  BY <1>2, <1>5 DEF OneAttempt
<1>6. ASSUME NEW c \in Completer, Working(c)'
      PROVE  /\ proc'[c].job \notin queued' \ running'
             /\ \A d \in Completer : Working(d)' /\ proc'[d].job = proc'[c].job => d = c
  BY <1>2, <1>6 DEF OneAttempt
<1> QED BY <1>4, <1>5, <1>6 DEF OneAttempt

(* A refused job passes from the main loop to its completion. *)
LEMMA RefuseAttempt ==
  ASSUME IInv, OneAttempt, NEW u \in Worker, RefuseJob(u)
  PROVE  OneAttempt'
<1>0. ASSUME exec[u].job \notin Perpetual PROVE OneAttempt'
  <2>1. ExecKeeps /\ ChanKeeps /\ RowsKeep
    BY DEF RefuseJob, IInv, TypeOK, ExecKeeps, ChanKeeps, RowsKeep, Busy, IdleExec, rows
  <2>2. ProcKeeps
    BY <1>0 DEF RefuseJob, IInv, TypeOK, ProcKeeps, Working, Call, Attempt
  <2> QED BY <2>1, <2>2, KeepsAttempt
<1> SUFFICES ASSUME exec[u].job \in Perpetual PROVE OneAttempt'
  BY <1>0
<1>1. /\ u \in Completer /\ Busy(u) /\ ~Busy(u)'
      /\ \A w \in Worker \ {u} : exec'[w] = exec[w] /\ (Busy(w)' <=> Busy(w))
      /\ proc'[u].job = exec[u].job
      /\ \A c \in Completer \ {u} : proc'[c] = proc[c] /\ (Working(c)' <=> Working(c))
      /\ chan' = chan /\ queued' = queued /\ running' = running
      /\ \A w \in Worker : Sent(w)' = Sent(w)
  BY DEF RefuseJob, IInv, TypeOK, Busy, Working, Sent, Completer, Call, Attempt, IdleExec, rows
<1>2. \A w \in Worker : \A i \in 1 .. Len(chan[w]) : chan[w][i].job # exec[u].job
  BY <1>1 DEF OneAttempt, Sent
<1>3. ASSUME NEW v \in Worker, Busy(v)'
      PROVE  /\ exec'[v].job \notin queued' \ running'
             /\ \A w \in Worker : Busy(w)' /\ exec'[w].job = exec'[v].job => w = v
             /\ \A w \in Worker : exec'[v].job \notin Sent(w)'
             /\ \A c \in Completer : Working(c)' => proc'[c].job # exec'[v].job
  <2>1. v # u /\ exec'[v] = exec[v]
    BY <1>1, <1>3
  <2> QED BY <1>1, <1>3, <2>1 DEF OneAttempt
<1>4. ASSUME NEW v \in Worker, NEW i \in 1 .. Len(chan'[v]), chan'[v][i].job \in Perpetual
      PROVE  /\ chan'[v][i].job \notin queued' \ running'
             /\ \A w \in Worker : \A k \in 1 .. Len(chan'[w]) :
                   chan'[v][i].job = chan'[w][k].job => v = w /\ i = k
             /\ \A c \in Completer : Working(c)' => proc'[c].job # chan'[v][i].job
  BY <1>1, <1>2, <1>4 DEF OneAttempt
<1>5. ASSUME NEW c \in Completer, Working(c)'
      PROVE  /\ proc'[c].job \notin queued' \ running'
             /\ \A d \in Completer : Working(d)' /\ proc'[d].job = proc'[c].job => d = c
  BY <1>1, <1>5 DEF OneAttempt
<1> QED BY <1>3, <1>4, <1>5 DEF OneAttempt

(* A result passes from the main loop to the channel. *)
LEMMA SendAttempt ==
  ASSUME IInv, OneAttempt, NEW u \in Worker, SendCompleted(u)
  PROVE  OneAttempt'
<1> DEFINE o == [job |-> exec[u].job, status |-> exec[u].status]
           n == Len(chan[u])
<1>1. /\ exec[u].mode # "idle" /\ ~Busy(u)'
      /\ \A w \in Worker \ {u} :
            exec'[w] = exec[w] /\ (Busy(w)' <=> Busy(w)) /\ chan'[w] = chan[w] /\ Sent(w)' = Sent(w)
      /\ \A c \in Completer : proc'[c] = proc[c] /\ (Working(c)' <=> Working(c))
      /\ chan'[u] = Append(chan[u], o)
      /\ queued' = queued /\ running' = running
  BY DEF SendCompleted, IInv, TypeOK, Busy, Working, Sent, IdleExec, rows
<1>2. n \in Nat /\ chan[u] \in Seq(Outcome) /\ o \in Outcome
  <2>1. chan[u] \in Seq(Outcome) /\ exec[u] \in Exec /\ exec[u].job \in Job
    BY <1>1 DEF IInv, TypeOK, WorkIsKnown
  <2>2. o \in Outcome
    BY <2>1 DEF Outcome, Exec
  <2> QED BY <2>1, <2>2
<1>3. /\ Len(chan'[u]) = n + 1
      /\ chan'[u][n + 1].job = exec[u].job
      /\ \A i \in 1 .. n : chan'[u][i] = chan[u][i]
  BY <1>1, <1>2
<1>4. Sent(u)' \subseteq Sent(u) \cup {exec[u].job}
  <2>1. \A i \in 1 .. Len(chan'[u]) : i = n + 1 \/ i \in 1 .. n
    BY <1>2, <1>3
  <2> QED BY <1>3, <2>1 DEF Sent
<1>5. exec[u].job \in Perpetual =>
         Busy(u) /\ \A w \in Worker : \A i \in 1 .. Len(chan[w]) : chan[w][i].job # exec[u].job
  BY <1>1 DEF OneAttempt, Sent, Busy
<1>6. \A w \in Worker : \A i \in 1 .. Len(chan'[w]) :
         \/ i \in 1 .. Len(chan[w]) /\ chan'[w][i] = chan[w][i]
         \/ w = u /\ i = n + 1 /\ chan'[w][i].job = exec[u].job
  BY <1>1, <1>2, <1>3
<1>7. ASSUME NEW v \in Worker, Busy(v)'
      PROVE  /\ exec'[v].job \notin queued' \ running'
             /\ \A w \in Worker : Busy(w)' /\ exec'[w].job = exec'[v].job => w = v
             /\ \A w \in Worker : exec'[v].job \notin Sent(w)'
             /\ \A c \in Completer : Working(c)' => proc'[c].job # exec'[v].job
  <2>1. v # u /\ exec'[v] = exec[v]
    BY <1>1, <1>7
  <2>2. exec[v].job # exec[u].job
    BY <1>1, <1>5, <1>7, <2>1 DEF OneAttempt, Busy
  <2>3. \A w \in Worker : exec'[v].job \notin Sent(w)'
    BY <1>1, <1>4, <1>7, <2>1, <2>2 DEF OneAttempt
  <2> QED BY <1>1, <1>7, <2>1, <2>3 DEF OneAttempt
<1>8. ASSUME NEW v \in Worker, NEW i \in 1 .. Len(chan'[v]), chan'[v][i].job \in Perpetual
      PROVE  /\ chan'[v][i].job \notin queued' \ running'
             /\ \A w \in Worker : \A k \in 1 .. Len(chan'[w]) :
                   chan'[v][i].job = chan'[w][k].job => v = w /\ i = k
             /\ \A c \in Completer : Working(c)' => proc'[c].job # chan'[v][i].job
  <2>1. \A w \in Worker : \A k \in 1 .. Len(chan'[w]) :
           chan'[v][i].job = chan'[w][k].job => v = w /\ i = k
    <3> HIDE DEF o, n
    <3> SUFFICES ASSUME NEW w \in Worker, NEW k \in 1 .. Len(chan'[w]),
                        chan'[v][i].job = chan'[w][k].job
                 PROVE  v = w /\ i = k
      OBVIOUS
    <3>1. CASE i \in 1 .. Len(chan[v]) /\ chan'[v][i] = chan[v][i]
      <4>1. chan'[w][k].job # exec[u].job
        BY <1>5, <1>8, <3>1
      <4>2. k \in 1 .. Len(chan[w]) /\ chan'[w][k] = chan[w][k]
        BY <1>6, <4>1
      <4> QED BY <1>8, <3>1, <4>2 DEF OneAttempt
    <3>2. CASE v = u /\ i = n + 1 /\ chan'[v][i].job = exec[u].job
      <4>1. ~(k \in 1 .. Len(chan[w]) /\ chan'[w][k] = chan[w][k])
        BY <1>5, <1>8, <3>2
      <4> QED BY <1>6, <3>2, <4>1
    <3> QED BY <1>6, <3>1, <3>2
  <2>2. chan'[v][i].job \notin queued' \ running'
    <3> HIDE DEF o, n
    <3>1. CASE i \in 1 .. Len(chan[v]) /\ chan'[v][i] = chan[v][i]
      BY <1>1, <1>8, <3>1 DEF OneAttempt
    <3>2. CASE chan'[v][i].job = exec[u].job
      BY <1>1, <1>5, <1>8, <3>2 DEF OneAttempt
    <3> QED BY <1>6, <3>1, <3>2
  <2>3. \A c \in Completer : Working(c)' => proc'[c].job # chan'[v][i].job
    <3> HIDE DEF o, n
    <3>1. CASE i \in 1 .. Len(chan[v]) /\ chan'[v][i] = chan[v][i]
      BY <1>1, <1>8, <3>1 DEF OneAttempt
    <3>2. CASE chan'[v][i].job = exec[u].job
      BY <1>1, <1>5, <1>8, <3>2 DEF OneAttempt
    <3> QED BY <1>6, <3>1, <3>2
  <2> QED BY <2>1, <2>2, <2>3
<1>9. ASSUME NEW c \in Completer, Working(c)'
      PROVE  /\ proc'[c].job \notin queued' \ running'
             /\ \A d \in Completer : Working(d)' /\ proc'[d].job = proc'[c].job => d = c
  BY <1>1, <1>9 DEF OneAttempt
<1> QED BY <1>7, <1>8, <1>9 DEF OneAttempt

(* And from the channel to the background processor. *)
LEMMA ReceiveAttempt ==
  ASSUME IInv, OneAttempt, NEW u \in Worker, ReceiveCompleted(u)
  PROVE  OneAttempt'
<1> DEFINE b == BgOf(u)
           n == Len(chan[u])
<1>1. /\ b \in Completer /\ chan[u] # <<>> /\ chan[u] \in Seq(Outcome)
      /\ chan'[u] = Tail(chan[u])
      /\ proc'[b].job = Head(chan[u]).job
      /\ \A w \in Worker \ {u} : chan'[w] = chan[w] /\ Sent(w)' = Sent(w)
      /\ \A c \in Completer \ {b} : proc'[c] = proc[c] /\ (Working(c)' <=> Working(c))
      /\ exec' = exec /\ (\A w \in Worker : Busy(w)' <=> Busy(w))
      /\ queued' = queued /\ running' = running
  BY DEF ReceiveCompleted, IInv, TypeOK, Busy, Working, Sent, Completer, Bg, Call, Attempt, rows
<1>2. /\ n \in Nat \ {0} /\ 1 \in 1 .. n
      /\ Head(chan[u]) = chan[u][1]
      /\ Len(chan'[u]) = n - 1
      /\ \A i \in 1 .. n - 1 : i + 1 \in 1 .. n /\ chan'[u][i] = chan[u][i + 1]
  BY <1>1
<1> DEFINE h == chan[u][1].job
<1>3. \A w \in Worker : Sent(w)' \subseteq Sent(w)
  <2>1. Sent(u)' \subseteq Sent(u)
    <3> SUFFICES ASSUME NEW i \in 1 .. Len(chan'[u])
                 PROVE  chan'[u][i].job \in Sent(u)
      BY DEF Sent
    <3>1. i + 1 \in 1 .. Len(chan[u]) /\ chan'[u][i] = chan[u][i + 1]
      BY <1>2
    <3> QED BY <3>1 DEF Sent
  <2> QED BY <1>1, <2>1
<1>4. ASSUME NEW w \in Worker, NEW i \in 1 .. Len(chan'[w])
      PROVE  \E k \in 1 .. Len(chan[w]) :
                /\ chan'[w][i] = chan[w][k]
                /\ k = IF w = u THEN i + 1 ELSE i
  BY <1>1, <1>2
<1>5. h \in Sent(u) /\ proc'[b].job = h
  BY <1>1, <1>2 DEF Sent
<1>6. ASSUME NEW v \in Worker, Busy(v)'
      PROVE  /\ exec'[v].job \notin queued' \ running'
             /\ \A w \in Worker : Busy(w)' /\ exec'[w].job = exec'[v].job => w = v
             /\ \A w \in Worker : exec'[v].job \notin Sent(w)'
             /\ \A c \in Completer : Working(c)' => proc'[c].job # exec'[v].job
  <2> HIDE DEF h, b, n
  <2>1. exec'[v] = exec[v] /\ exec[v].job # h
    BY <1>1, <1>5, <1>6 DEF OneAttempt
  <2> QED BY <1>1, <1>3, <1>5, <1>6, <2>1 DEF OneAttempt
<1>7. ASSUME NEW v \in Worker, NEW i \in 1 .. Len(chan'[v]), chan'[v][i].job \in Perpetual
      PROVE  /\ chan'[v][i].job \notin queued' \ running'
             /\ \A w \in Worker : \A k \in 1 .. Len(chan'[w]) :
                   chan'[v][i].job = chan'[w][k].job => v = w /\ i = k
             /\ \A c \in Completer : Working(c)' => proc'[c].job # chan'[v][i].job
  <2>1. PICK k \in 1 .. Len(chan[v]) :
               /\ chan'[v][i] = chan[v][k]
               /\ k = IF v = u THEN i + 1 ELSE i
    BY <1>4
  <2>2. v = u => k # 1
    BY <1>2, <2>1
  <2>3. chan[v][k].job # h
    BY <1>2, <1>7, <2>1, <2>2 DEF OneAttempt
  <2>4. chan'[v][i].job \notin queued' \ running'
    BY <1>1, <1>7, <2>1 DEF OneAttempt
  <2>5. \A c \in Completer : Working(c)' => proc'[c].job # chan'[v][i].job
    <3> HIDE DEF h, b, n
    <3> QED BY <1>1, <1>5, <1>7, <2>1, <2>3 DEF OneAttempt
  <2>6. ASSUME NEW w \in Worker, NEW l \in 1 .. Len(chan'[w]),
               chan'[v][i].job = chan'[w][l].job
        PROVE  v = w /\ i = l
    <3>1. PICK q \in 1 .. Len(chan[w]) :
                 /\ chan'[w][l] = chan[w][q]
                 /\ q = IF w = u THEN l + 1 ELSE l
      BY <1>4
    <3>2. v = w /\ k = q
      BY <1>7, <2>1, <2>6, <3>1 DEF OneAttempt
    <3>3. Len(chan'[v]) \in Nat
      BY <1>1, <1>2 DEF IInv, TypeOK
    <3> QED BY <2>1, <3>1, <3>2, <3>3
  <2> QED BY <2>4, <2>5, <2>6
<1>8. ASSUME NEW c \in Completer, Working(c)'
      PROVE  /\ proc'[c].job \notin queued' \ running'
             /\ \A d \in Completer : Working(d)' /\ proc'[d].job = proc'[c].job => d = c
  <2>1. h \in Perpetual =>
           h \notin queued \ running /\ \A d \in Completer : Working(d) => proc[d].job # h
    BY <1>2 DEF OneAttempt
  <2>2. Working(b)' => h \in Perpetual
    BY <1>5 DEF Working
  <2> HIDE DEF h, b, n
  <2> QED BY <1>1, <1>5, <1>8, <2>1, <2>2 DEF OneAttempt
<1> QED BY <1>6, <1>7, <1>8 DEF OneAttempt

(* While no run was restarted the monitor completes none. *)
LEMMA MonitorIsElsewhere ==
  ASSUME IInv, MonitorInv, Quiet, NEW m \in Monitor, proc[m].pc # "idle"
  PROVE  proc[m].job \notin Perpetual
  BY DEF MonitorInv, Quiet

(* After a commit or an error nobody but a monitor takes up a job anew;    *)
(* handle_job_error keeps canceled_by.                                     *)
LEMMA AfterKeeps ==
  ASSUME IInv, MonitorInv, Quiet, NEW c \in Completer, proc[c].pc # "idle"
  PROVE  /\ AfterReturn(c).pc \in {"idle", "begin"}
         /\ AfterReturn(c).pc = "begin" => AfterReturn(c).job \notin Perpetual
         /\ AfterError(c).pc \in {"idle", "begin"}
         /\ AfterError(c).pc = "begin" =>
              /\ AfterError(c).job = proc[c].job
              /\ AfterError(c).status = "canceled" <=> proc[c].status = "canceled"
  BY MonitorIsElsewhere DEF AfterReturn, AfterError, Call, Attempt, IdleProc

(* A completer that goes on with its job or drops it, while the others     *)
(* keep theirs.                                                            *)
LEMMA OneProcKeeps ==
  ASSUME IInv, NEW c \in Completer, NEW q,
         proc' = [proc EXCEPT ![c] = q],
         \/ q.pc = "idle" \/ q.status = "canceled" \/ q.job \notin Perpetual
         \/ Working(c) /\ q.job = proc[c].job
  PROVE  ProcKeeps
  BY DEF IInv, TypeOK, ProcKeeps, Working

(* The steps of a completion take up no job. *)
LEMMA CompleterAttempt ==
  ASSUME IInv, MonitorInv, Quiet, OneAttempt, NEW c \in Completer, CompleterStep(c)
  PROVE  OneAttempt'
<1>1. UNCHANGED <<exec, chan>>
  BY DEF CompleterStep, InsertCompleted, Unblock, Commit, Abort, RestartPerpetual
<1>2. ExecKeeps /\ ChanKeeps
  BY <1>1 DEF Busy, ExecKeeps, ChanKeeps
<1>3. RowsKeep
  <2>1. CASE InsertCompleted(c) \/ Unblock(c) \/ Abort(c)
    BY <2>1 DEF InsertCompleted, Unblock, Abort, rows, RowsKeep
  <2>2. CASE Commit(c)
    BY <2>2 DEF Commit, RowsKeep
  <2>3. ASSUME NEW isDue \in BOOLEAN, RestartPerpetual(c, isDue)
        PROVE  RowsKeep
    BY <2>3 DEF RestartPerpetual, InsertJob, rows, RowsKeep
  <2> QED BY <2>1, <2>2, <2>3 DEF CompleterStep
<1>4. proc[c].pc # "idle"
  BY DEF CompleterStep, InsertCompleted, Unblock, Commit, Abort, RestartPerpetual
<1>5. /\ AfterReturn(c).pc = "idle" \/ AfterReturn(c).job \notin Perpetual
      /\ \/ AfterError(c).pc = "idle" \/ AfterError(c).status = "canceled"
         \/ AfterError(c).job \notin Perpetual
         \/ (Working(c) /\ AfterError(c).job = proc[c].job)
  BY <1>4, AfterKeeps DEF Working
<1>6. proc[c] \in Proc
  BY DEF IInv, TypeOK
<1>7. ProcKeeps
  <2>1. CASE InsertCompleted(c)
    <3>1. \A x \in {"blocked", "inserted"} :
             /\ [proc[c] EXCEPT !.pc = x].job = proc[c].job
             /\ [proc[c] EXCEPT !.pc = x].status = proc[c].status
      BY <1>6 DEF Proc
    <3>2. \E q : /\ proc' = [proc EXCEPT ![c] = q]
                 /\ \/ q = AfterError(c)
                    \/ \E x \in {"blocked", "inserted"} : q = [proc[c] EXCEPT !.pc = x]
      BY <2>1 DEF InsertCompleted
    <3>3. PICK q : /\ proc' = [proc EXCEPT ![c] = q]
                   /\ \/ q = AfterError(c)
                      \/ q.job = proc[c].job /\ q.status = proc[c].status
      BY <3>1, <3>2
    <3> QED BY <1>4, <1>5, <3>3, OneProcKeeps DEF Working
  <2>2. CASE Unblock(c)
    BY <1>6, <2>2 DEF Unblock, ProcKeeps, Working, IInv, TypeOK, Proc
  <2>3. CASE Commit(c)
    <3>1. /\ [proc[c] EXCEPT !.pc = "restart"].job = proc[c].job
          /\ [proc[c] EXCEPT !.pc = "restart"].status = proc[c].status
      BY <1>6 DEF Proc
    <3>2. \E q : /\ proc' = [proc EXCEPT ![c] = q]
                 /\ q = AfterReturn(c) \/ q = [proc[c] EXCEPT !.pc = "restart"]
      BY <2>3 DEF Commit
    <3> QED BY <1>4, <1>5, <3>1, <3>2, OneProcKeeps, ZenonT(30) DEF Working
  <2>4. CASE Abort(c)
    <3>1. \E q : /\ proc' = [proc EXCEPT ![c] = q]
                 /\ \/ q = AfterError(c)
                    \/ q.job = proc[c].job /\ q.status = proc[c].status
      <4>1. \A n : LET q == Attempt(proc[c].job, proc[c].status, proc[c].call, n)
                   IN  q.job = proc[c].job /\ q.status = proc[c].status
        BY DEF Attempt
      <4> QED BY <2>4, <4>1 DEF Abort
    <3> QED BY <1>4, <1>5, <3>1, OneProcKeeps DEF Working
  <2>5. ASSUME NEW isDue \in BOOLEAN, RestartPerpetual(c, isDue)
        PROVE  ProcKeeps
    BY <1>5, <2>5, OneProcKeeps DEF RestartPerpetual
  <2> QED BY <2>1, <2>2, <2>3, <2>4, <2>5 DEF CompleterStep
<1> QED BY <1>2, <1>3, <1>7, KeepsAttempt

(* Restarts stay on record. *)
LEMMA CounterGrows ==
  ASSUME IInv, [Next]_vars
  PROVE  \A j \in Job : counter[j] \in Nat /\ counter'[j] \in Nat /\ counter[j] <= counter'[j]
<1>1. \A j \in Job : counter[j] \in Nat
  BY ConstantsAssumption DEF IInv, TypeOK
<1>2. ASSUME NEW m \in Monitor, ZombieSweep(m)
      PROVE  \A j \in Job : counter'[j] \in Nat /\ counter[j] <= counter'[j]
  BY <1>1, <1>2 DEF ZombieSweep
<1>3. CASE UNCHANGED counter
  BY <1>1, <1>3
<1>4. UNCHANGED counter \/ \E m \in Monitor : ZombieSweep(m)
  BY DEF Next, vars, rows, Push, InsertJob, BecomeDue, PingExpires, WorkerStep, Pull, RefuseJob,
         TimeoutJob, PingJob, FinishJob, SendCompleted, ReceiveCompleted, CrashWorker,
         CompleterStep, InsertCompleted, Unblock, Commit, Abort, RestartPerpetual,
         ApiStep, CancelJob, SoftCancel, MonitorStep, FailZombie, CrashServer
<1> QED BY <1>1, <1>2, <1>3, <1>4

(* A monitor turns to no job but one it has doomed. *)
MonitorKeeps ==
    \A m \in Monitor :
        /\ doomed'[m] \subseteq doomed[m]
        /\ proc'[m].pc # "idle" =>
              \/ proc[m].pc # "idle" /\ proc'[m].job = proc[m].job
              \/ proc'[m].job \in doomed[m]

(* Such a step leaves its jobs on record. *)
LEMMA KeepsMonitor ==
  ASSUME IInv, MonitorInv, [Next]_vars, MonitorKeeps
  PROVE  MonitorInv'
<1>1. \A m \in Monitor : proc[m].pc # "idle" => proc[m].job \in Job
  BY DEF IInv, TypeOK, WorkIsKnown, Completer
<1>2. \A m \in Monitor : doomed[m] \subseteq Job
  BY DEF IInv, TypeOK
<1>3. \A j \in Job : counter[j] > 0 => counter'[j] > 0
  BY CounterGrows
<1> SUFFICES ASSUME RestartZombieJobs, NEW m \in Monitor
             PROVE  /\ \A j \in doomed'[m] : counter'[j] > 0
                    /\ proc'[m].pc # "idle" => counter'[proc'[m].job] > 0
  BY DEF MonitorInv
<1>4. \A j \in doomed'[m] : counter'[j] > 0
  BY <1>2, <1>3 DEF MonitorInv, MonitorKeeps
<1>5. ASSUME proc'[m].pc # "idle" PROVE counter'[proc'[m].job] > 0
  BY <1>1, <1>2, <1>3, <1>5 DEF MonitorInv, MonitorKeeps
<1> QED BY <1>4, <1>5

(* The sweep records a restart of every job it dooms that had none. *)
LEMMA SweepMonitor ==
  ASSUME IInv, MonitorInv, NEW m \in Monitor, ZombieSweep(m)
  PROVE  MonitorInv'
<1> SUFFICES ASSUME RestartZombieJobs, NEW k \in Monitor
             PROVE  /\ \A j \in doomed'[k] : counter'[j] > 0
                    /\ proc'[k].pc # "idle" => counter'[proc'[k].job] > 0
  BY DEF MonitorInv
<1>1. \A j \in Job : counter[j] \in 0 .. RestartLimit /\ counter'[j] \in Nat
  BY ConstantsAssumption DEF IInv, TypeOK, ZombieSweep
<1>2. \A j \in Job : counter[j] > 0 => counter'[j] > 0
  BY <1>1, ConstantsAssumption DEF ZombieSweep
<1>3. \A j \in LimitReached : j \in Job /\ counter'[j] > 0
  <2> SUFFICES ASSUME NEW j \in LimitReached PROVE j \in Job /\ counter'[j] > 0
    OBVIOUS
  <2>1. j \in Zombies /\ j \in Job /\ ~(counter[j] + 1 < RestartLimit)
    BY DEF LimitReached, Zombies, IInv, TypeOK
  <2>2. CASE counter[j] < RestartLimit
    BY <1>1, <2>1, <2>2 DEF Released, ZombieSweep
  <2>3. CASE ~(counter[j] < RestartLimit)
    BY <1>1, <1>2, <2>1, <2>3, ConstantsAssumption
  <2> QED BY <2>1, <2>2, <2>3
<1>4. doomed'[k] \subseteq doomed[k] \cup LimitReached /\ doomed[k] \subseteq Job
  BY DEF ZombieSweep, IInv, TypeOK
<1>5. \A j \in doomed'[k] : counter'[j] > 0
  BY <1>2, <1>3, <1>4 DEF MonitorInv
<1>6. proc' = proc /\ (proc[k].pc # "idle" => proc[k].job \in Job)
  BY DEF ZombieSweep, IInv, TypeOK, WorkIsKnown, Completer
<1>7. proc'[k].pc # "idle" => counter'[proc'[k].job] > 0
  BY <1>2, <1>6 DEF MonitorInv
<1> QED BY <1>5, <1>7

(* Every step keeps the monitor's jobs on record. *)
LEMMA NextMonitor ==
  ASSUME IInv, MonitorInv, [Next]_vars
  PROVE  MonitorInv'
<1>1. ASSUME NEW m \in Monitor, ZombieSweep(m) PROVE MonitorInv'
  BY <1>1, SweepMonitor
<1>2. ASSUME NEW c \in Completer, CompleterStep(c) PROVE MonitorInv'
  <2>1. /\ proc[c].pc # "idle" /\ doomed' = doomed
        /\ \A d \in Completer \ {c} : proc'[d] = proc[d]
    BY <1>2 DEF CompleterStep, InsertCompleted, Unblock, Commit, Abort, RestartPerpetual,
                IInv, TypeOK
  <2>2. proc'[c].pc # "idle" => proc'[c].job = proc[c].job
    <3>1. proc[c] \in Proc /\ proc \in [Completer -> Proc]
      BY DEF IInv, TypeOK
    <3>2. \A x : [proc[c] EXCEPT !.pc = x].job = proc[c].job
      BY <3>1 DEF Proc
    <3>3. \A n : Attempt(proc[c].job, proc[c].status, proc[c].call, n).job = proc[c].job
      BY DEF Attempt
    <3>4. /\ AfterReturn(c).pc # "idle" => AfterReturn(c).job = proc[c].job
          /\ AfterError(c).pc # "idle" => AfterError(c).job = proc[c].job
      BY <2>1, AfterType DEF IInv
    <3>5. \/ \E x : proc'[c] = [proc[c] EXCEPT !.pc = x]
          \/ \E n : proc'[c] = Attempt(proc[c].job, proc[c].status, proc[c].call, n)
          \/ proc'[c] = AfterReturn(c)
          \/ proc'[c] = AfterError(c)
      <4>1. CASE InsertCompleted(c)
        BY <3>1, <4>1 DEF InsertCompleted
      <4>2. CASE Unblock(c)
        BY <3>1, <4>2 DEF Unblock
      <4>3. CASE Commit(c)
        BY <3>1, <4>3 DEF Commit
      <4>4. CASE Abort(c)
        BY <3>1, <4>4 DEF Abort
      <4>5. ASSUME NEW isDue \in BOOLEAN, RestartPerpetual(c, isDue)
            PROVE  proc'[c] = AfterReturn(c)
        BY <3>1, <4>5 DEF RestartPerpetual
      <4> QED BY <1>2, <4>1, <4>2, <4>3, <4>4, <4>5 DEF CompleterStep
    <3> QED BY <3>2, <3>3, <3>4, <3>5
  <2>3. MonitorKeeps
    BY <2>1, <2>2 DEF MonitorKeeps, Completer
  <2> QED BY <2>3, KeepsMonitor
<1>3. ASSUME NEW m \in Monitor, NEW j \in Job, FailZombie(m, j) PROVE MonitorInv'
  <2>1. MonitorKeeps
    BY <1>3 DEF FailZombie, MonitorKeeps, IInv, TypeOK, Completer, Call, Attempt
  <2> QED BY <2>1, KeepsMonitor
<1>4. ASSUME NEW s \in Api \cup Monitor, CrashServer(s) PROVE MonitorInv'
  <2>1. MonitorKeeps
    BY <1>4 DEF CrashServer, MonitorKeeps, IInv, TypeOK, Completer, IdleProc
  <2> QED BY <2>1, KeepsMonitor
<1>5. ASSUME NEW w \in Worker, WorkerStep(w) PROVE MonitorInv'
  <2>1. \A m \in Monitor : m # w /\ m # BgOf(w)
    BY ConstantsAssumption DEF BgOf
  <2>2. doomed' = doomed /\ \A m \in Monitor : proc'[m] = proc[m]
    BY <1>5, <2>1 DEF WorkerStep, Pull, RefuseJob, TimeoutJob, PingJob, FinishJob, SendCompleted,
                      ReceiveCompleted, CrashWorker, rows, IInv, TypeOK, Completer
  <2>3. MonitorKeeps
    BY <2>2 DEF MonitorKeeps
  <2> QED BY <2>3, KeepsMonitor
<1>6. ASSUME NEW a \in Api, ApiStep(a) PROVE MonitorInv'
  <2>1. \A m \in Monitor : m # a
    BY ConstantsAssumption
  <2>2. doomed' = doomed /\ \A m \in Monitor : proc'[m] = proc[m]
    BY <1>6, <2>1 DEF ApiStep, CancelJob, SoftCancel, rows, IInv, TypeOK, Completer
  <2>3. MonitorKeeps
    BY <2>2 DEF MonitorKeeps
  <2> QED BY <2>3, KeepsMonitor
<1>7. CASE UNCHANGED <<doomed, proc>>
  <2>1. MonitorKeeps
    BY <1>7 DEF MonitorKeeps
  <2> QED BY <2>1, KeepsMonitor
<1>8. ASSUME NEW j \in Job, (\E isDue \in BOOLEAN : Push(j, isDue)) \/ BecomeDue(j) \/ PingExpires(j)
      PROVE  UNCHANGED <<doomed, proc>>
  BY <1>8 DEF Push, BecomeDue, PingExpires
<1>9. UNCHANGED vars => UNCHANGED <<doomed, proc>>
  BY DEF vars
<1> QED BY <1>1, <1>2, <1>3, <1>4, <1>5, <1>6, <1>7, <1>8, <1>9 DEF Next, MonitorStep

(* Every step keeps a run's attempt at one place. *)
LEMMA NextAttempt ==
  ASSUME IInv, MonitorInv, Quiet, Quiet', OneAttempt, [Next]_vars
  PROVE  OneAttempt'
<1>1. ASSUME NEW j \in Job, NEW isDue \in BOOLEAN, Push(j, isDue) PROVE OneAttempt'
  BY <1>1, KeepsAttempt DEF Push, InsertJob, Busy, ExecKeeps, ChanKeeps, ProcKeeps, RowsKeep, Working
<1>2. ASSUME NEW j \in Job, BecomeDue(j) \/ PingExpires(j) PROVE OneAttempt'
  BY <1>2, KeepsAttempt
     DEF BecomeDue, PingExpires, Busy, ExecKeeps, ChanKeeps, ProcKeeps, RowsKeep, Working
<1>3. ASSUME NEW w \in Worker, WorkerStep(w) PROVE OneAttempt'
  <2>1. CASE (\E s \in Status : FinishJob(w, s)) \/ TimeoutJob(w) \/ PingJob(w)
    <3>1. ExecKeeps
      <4>1. exec[w].mode # "idle" /\ exec \in [Worker -> Exec]
        BY <2>1 DEF FinishJob, TimeoutJob, PingJob, IInv, TypeOK
      <4>2. \/ exec' = exec
            \/ exec' = [exec EXCEPT ![w] = IdleExec]
            \/ \E s \in Status : exec' = [exec EXCEPT ![w] = Finished(exec[w].job, s)]
        BY <2>1 DEF FinishJob, TimeoutJob, PingJob, Status
      <4>3. IdleExec.mode = "idle" /\ \A s \in Status : Finished(exec[w].job, s).job = exec[w].job
        BY DEF IdleExec, Finished
      <4> QED BY <4>1, <4>2, <4>3 DEF ExecKeeps, Busy
    <3>2. ChanKeeps /\ ProcKeeps /\ RowsKeep
      BY <2>1 DEF FinishJob, TimeoutJob, PingJob, rows, ChanKeeps, ProcKeeps, RowsKeep, Working
    <3> QED BY <3>1, <3>2, KeepsAttempt
  <2>2. CASE CrashWorker(w)
    <3>1. ExecKeeps /\ ChanKeeps /\ RowsKeep
      BY <2>2 DEF CrashWorker, Busy, ExecKeeps, ChanKeeps, RowsKeep, rows, IdleExec, IInv, TypeOK
    <3>2. ProcKeeps
      BY <2>2 DEF CrashWorker, ProcKeeps, Working, IdleProc
    <3> QED BY <3>1, <3>2, KeepsAttempt
  <2> QED BY <1>3, <2>1, <2>2, PullAttempt, RefuseAttempt, SendAttempt, ReceiveAttempt
      DEF WorkerStep
<1>4. ASSUME NEW c \in Completer, CompleterStep(c) PROVE OneAttempt'
  BY <1>4, CompleterAttempt
<1>5. ASSUME NEW a \in Api, ApiStep(a) PROVE OneAttempt'
  <2>1. ExecKeeps /\ ChanKeeps /\ RowsKeep
    BY <1>5 DEF ApiStep, CancelJob, SoftCancel, Busy, ExecKeeps, ChanKeeps, RowsKeep, rows
  <2>2. a \in Completer
    BY DEF Completer
  <2>3. \E q : /\ proc' = [proc EXCEPT ![a] = q]
               /\ q.pc = "idle" \/ q.status = "canceled"
    <3>1. ASSUME NEW j \in Job, NEW force \in BOOLEAN, CancelJob(a, j, force)
          PROVE  \E q : proc' = [proc EXCEPT ![a] = q] /\ q.status = "canceled"
      <4>1. /\ Call(j, "canceled", "error").status = "canceled"
            /\ [Call(j, "canceled", "error") EXCEPT !.pc = "soft"].status = "canceled"
        BY DEF Call, Attempt
      <4> QED BY <3>1, <4>1 DEF CancelJob
    <3>2. ASSUME SoftCancel(a)
          PROVE  \E q : proc' = [proc EXCEPT ![a] = q] /\ q.pc = "idle"
      <4>1. proc' = [proc EXCEPT ![a] = IdleProc] /\ IdleProc.pc = "idle"
        BY <3>2 DEF SoftCancel, IdleProc
      <4> QED BY <4>1
    <3> QED BY <1>5, <3>1, <3>2 DEF ApiStep
  <2> QED BY <2>1, <2>2, <2>3, OneProcKeeps, KeepsAttempt
<1>6. ASSUME NEW s \in Api \cup Monitor, CrashServer(s) PROVE OneAttempt'
  <2>1. ExecKeeps /\ ChanKeeps /\ RowsKeep
    BY <1>6 DEF CrashServer, Busy, ExecKeeps, ChanKeeps, RowsKeep, rows
  <2>2. s \in Completer /\ IdleProc.pc = "idle"
    BY DEF Completer, IdleProc
  <2>3. ProcKeeps
    BY <1>6, <2>2, OneProcKeeps DEF CrashServer
  <2> QED BY <2>1, <2>3, KeepsAttempt
<1>7. CASE UNCHANGED vars
  BY <1>7, KeepsAttempt DEF vars, Busy, ExecKeeps, ChanKeeps, ProcKeeps, RowsKeep, Working
<1>8. ASSUME NEW m \in Monitor, ZombieSweep(m) PROVE OneAttempt'
  <2>1. Released \cap Perpetual = {}
    <3> SUFFICES ASSUME NEW p \in Perpetual, p \in Released PROVE FALSE
      OBVIOUS
    <3>1. p \in Job /\ counter[p] = 0 /\ counter'[p] = 0
      BY ConstantsAssumption DEF Quiet
    <3> QED BY <1>8, <3>1 DEF ZombieSweep
  <2>2. RowsKeep
    BY <1>8, <2>1 DEF ZombieSweep, RowsKeep
  <2> QED BY <1>8, <2>2, KeepsAttempt DEF ZombieSweep, Busy, ExecKeeps, ChanKeeps, ProcKeeps, Working
<1>9. ASSUME NEW m \in Monitor, NEW j \in Job, FailZombie(m, j) PROVE OneAttempt'
  <2>1. j \notin Perpetual
    BY <1>9 DEF FailZombie, MonitorInv, Quiet
  <2>2. ProcKeeps
    BY <1>9, <2>1 DEF FailZombie, ProcKeeps, Working, Call, Attempt, IInv, TypeOK, Completer
  <2> QED BY <1>9, <2>2, KeepsAttempt DEF FailZombie, rows, Busy, ExecKeeps, ChanKeeps, RowsKeep
<1> QED BY <1>1, <1>2, <1>3, <1>4, <1>5, <1>6, <1>7, <1>8, <1>9 DEF Next, MonitorStep

(* A step that revives no run, commits none for restart and queues only    *)
(* what was queued keeps the run single.                                   *)
RunKeeps ==
    /\ queued' \cap v2_job \subseteq queued
    /\ \A c \in Completer : proc'[c].pc = "restart" => proc'[c] = proc[c]
    /\ \A j \in Perpetual : Alive(j)' => Alive(j)

(* Such a step preserves SingleRun. *)
LEMMA KeepsRun ==
  ASSUME IInv, SingleRun, RunKeeps
  PROVE  SingleRun'
<1>1. ASSUME NEW c \in Completer, proc'[c].pc = "restart"
      PROVE  Working(c)' /\ proc'[c].job \in Perpetual \ queued'
  <2>1. proc'[c] = proc[c] /\ Working(c) /\ proc[c].job \in Perpetual \ queued
    BY <1>1 DEF RunKeeps, SingleRun
  <2>2. proc[c].job \in v2_job
    BY <2>1, SentIsKnown
  <2> QED BY <2>1, <2>2 DEF RunKeeps, Working
<1>2. \A i, j \in Perpetual : Alive(i)' /\ Alive(j)' => i = j
  BY DEF RunKeeps, SingleRun
<1> QED BY <1>1, <1>2 DEF SingleRun

(* While no row is added, a run is revived only by a completion that       *)
(* passes its INSERT without a row.                                        *)
LEMMA NoRevival ==
  ASSUME queued' \subseteq queued, NEW j,
         \A c \in Completer : Restarting(c)' =>
             \/ Restarting(c) /\ proc'[c].job = proc[c].job
             \/ proc'[c].job \in queued,
         Alive(j)'
  PROVE  Alive(j)
  BY DEF Alive

(* A step that leaves the rows and at most drops completions is one. *)
LEMMA QuietRun ==
  ASSUME IInv, SingleRun, queued' = queued,
         \A c \in Completer : proc'[c] = proc[c]
                               \/ proc'[c].pc \in {"idle", "begin", "soft"}
  PROVE  SingleRun'
<1>1. \A j \in Perpetual : Alive(j)' => Alive(j)
  BY NoRevival DEF Restarting, Working
<1>2. RunKeeps
  BY <1>1 DEF RunKeeps
<1> QED BY <1>2, KeepsRun

(* The first run is the only one. *)
LEMMA PushRun ==
  ASSUME IInv, SingleRun, NEW j \in Job, NEW isDue \in BOOLEAN, Push(j, isDue)
  PROVE  SingleRun'
<1>1. /\ j \notin v2_job /\ queued' = queued \cup {j} /\ proc' = proc
      /\ j \in Perpetual => v2_job \cap Perpetual = {}
  BY DEF Push, InsertJob
<1>2. \A i \in Job : Alive(i) => i \in v2_job
  BY SentIsKnown DEF Alive, Restarting, IInv, OnePlace
<1>3. \A i \in Job : Alive(i)' => Alive(i) \/ i = j
  BY <1>1 DEF Alive, Restarting, Working
<1>4. \A c \in Completer : proc[c].pc = "restart" => proc[c].job \in v2_job
  BY DEF IInv, WorkIsKnown
<1>5. \A c \in Completer : proc'[c].pc = "restart" =>
          Working(c)' /\ proc'[c].job \in Perpetual \ queued'
  BY <1>1, <1>4 DEF SingleRun, Working
<1>6. \A i, k \in Perpetual : Alive(i)' /\ Alive(k)' => i = k
  <2>1. CASE j \in Perpetual
    BY <1>1, <1>2, <1>3, <2>1, ConstantsAssumption
  <2>2. CASE j \notin Perpetual
    BY <1>3, <2>2, ConstantsAssumption DEF SingleRun
  <2> QED BY <2>1, <2>2
<1> QED BY <1>5, <1>6 DEF SingleRun

(* A commit turns the run in the queue into one about to be restarted. *)
LEMMA CommitRun ==
  ASSUME IInv, MonitorInv, Quiet, SingleRun, NEW c \in Completer, Commit(c)
  PROVE  SingleRun'
<1>1. /\ proc[c].pc = "inserted" /\ proc[c] \in Proc
      /\ queued' = queued \ {proc[c].job}
      /\ \A d \in Completer \ {c} : proc'[d] = proc[d]
      /\ AfterReturn(c).pc \in {"idle", "begin"}
  BY AfterKeeps DEF Commit, IInv, TypeOK
<1>2. \/ proc'[c] = AfterReturn(c)
      \/ MustRestart(proc[c]) /\ proc'[c] = [proc[c] EXCEPT !.pc = "restart"]
  BY <1>1 DEF Commit, IInv, TypeOK
<1>3. \/ proc'[c].pc \in {"idle", "begin"}
      \/ /\ proc'[c].pc = "restart" /\ proc'[c].job = proc[c].job
         /\ proc'[c].status = proc[c].status /\ proc[c].status # "canceled"
         /\ proc[c].job \in Perpetual
  BY <1>1, <1>2 DEF MustRestart, IdleProc, Proc
<1>4. \A j \in Perpetual : Alive(j)' => Alive(j)
  BY <1>1, <1>3, NoRevival DEF Restarting, Working
<1>5. \A d \in Completer : proc'[d].pc = "restart" =>
          Working(d)' /\ proc'[d].job \in Perpetual \ queued'
  BY <1>1, <1>3 DEF SingleRun, Working
<1> QED BY <1>4, <1>5 DEF SingleRun

(* The next run takes the place of the one that was completed. *)
LEMMA RestartRun ==
  ASSUME IInv, MonitorInv, Quiet, OneAttempt, SingleRun, NEW c \in Completer,
         NEW isDue \in BOOLEAN, RestartPerpetual(c, isDue)
  PROVE  SingleRun'
<1>1. /\ proc[c].pc = "restart" /\ proc'[c].pc \in {"idle", "begin"}
      /\ \A d \in Completer \ {c} : proc'[d] = proc[d]
  BY AfterKeeps DEF RestartPerpetual, IInv, TypeOK
<1>2. CASE Perpetual \subseteq v2_job
  BY <1>1, <1>2, QuietRun DEF RestartPerpetual, rows
<1>3. CASE ~(Perpetual \subseteq v2_job)
  <2>1. PICK k \in Perpetual \ v2_job : InsertJob(k, isDue)
    BY <1>3 DEF RestartPerpetual
  <2>2. queued' = queued \cup {k}
    BY <2>1 DEF InsertJob
  <2>3. Working(c) /\ proc[c].job \in Perpetual \ queued /\ Alive(proc[c].job)
    BY <1>1 DEF SingleRun, Alive, Restarting
  <2>4. \A i \in Perpetual : Alive(i) => i = proc[c].job
    BY <2>3 DEF SingleRun
  <2>5. \A d \in Completer \ {c} : Working(d) => proc[d].job # proc[c].job
    BY <2>3 DEF OneAttempt
  <2>6. ASSUME NEW i \in Perpetual, Alive(i)'
        PROVE  i = k
    <3>1. CASE i \in queued'
      <4>1. i \in queued => i = proc[c].job
        BY <2>4 DEF Alive
      <4> QED BY <2>2, <2>3, <3>1, <4>1
    <3>2. CASE \E d \in Completer : Restarting(d)' /\ proc'[d].job = i
      <4>1. PICK d \in Completer : Restarting(d)' /\ proc'[d].job = i
        BY <3>2
      <4>2. d # c /\ proc'[d] = proc[d] /\ Restarting(d) /\ proc[d].job = i
        BY <1>1, <4>1 DEF Restarting, Working
      <4>3. i = proc[c].job
        BY <2>4, <4>2 DEF Alive
      <4> QED BY <2>5, <4>2, <4>3 DEF Restarting
    <3> QED BY <2>6, <3>1, <3>2 DEF Alive
  <2>7. ASSUME NEW d \in Completer, proc'[d].pc = "restart"
        PROVE  Working(d)' /\ proc'[d].job \in Perpetual \ queued'
    <3>1. d # c /\ proc'[d] = proc[d]
      BY <1>1, <2>7
    <3>2. Working(d) /\ proc[d].job \in Perpetual \ queued /\ proc[d].job \in v2_job
      BY <2>7, <3>1 DEF SingleRun, IInv, WorkIsKnown
    <3> QED BY <2>1, <2>2, <3>1, <3>2 DEF Working
  <2> QED BY <2>6, <2>7 DEF SingleRun
<1> QED BY <1>2, <1>3

(* Every step keeps at most one run. *)
LEMMA NextRun ==
  ASSUME IInv, MonitorInv, Quiet, OneAttempt, SingleRun, [Next]_vars
  PROVE  SingleRun'
<1>1. ASSUME NEW j \in Job, NEW isDue \in BOOLEAN, Push(j, isDue) PROVE SingleRun'
  BY <1>1, PushRun
<1>2. ASSUME NEW j \in Job, BecomeDue(j) \/ PingExpires(j) PROVE SingleRun'
  BY <1>2, QuietRun DEF BecomeDue, PingExpires
<1>3. ASSUME NEW w \in Worker, WorkerStep(w) PROVE SingleRun'
  <2>1. queued' = queued
    BY <1>3 DEF WorkerStep, Pull, RefuseJob, TimeoutJob, PingJob, FinishJob, SendCompleted,
                ReceiveCompleted, CrashWorker, rows
  <2>2. \A c \in Completer : proc'[c] = proc[c] \/ proc'[c].pc \in {"idle", "begin", "soft"}
    BY <1>3 DEF WorkerStep, Pull, RefuseJob, TimeoutJob, PingJob, FinishJob, SendCompleted,
                ReceiveCompleted, CrashWorker, Call, Attempt, IdleProc, IInv, TypeOK
  <2> QED BY <2>1, <2>2, QuietRun
<1>4. ASSUME NEW c \in Completer, CompleterStep(c) PROVE SingleRun'
  <2>1. ASSUME InsertCompleted(c) PROVE SingleRun'
    <3>1. /\ proc[c].pc = "begin" /\ proc[c] \in Proc /\ queued' = queued
          /\ \A d \in Completer \ {c} : proc'[d] = proc[d]
          /\ AfterError(c).pc \in {"idle", "begin"}
      BY <2>1, AfterKeeps DEF InsertCompleted, IInv, TypeOK, rows
    <3>2. \/ proc'[c].pc \in {"idle", "begin"}
          \/ proc'[c].pc \in {"blocked", "inserted"} /\ proc'[c].job \in queued
      BY <2>1, <3>1 DEF InsertCompleted, IInv, TypeOK, Proc
    <3>3. \A j \in Perpetual : Alive(j)' => Alive(j)
      BY <3>1, <3>2, NoRevival DEF Restarting, Working
    <3>4. RunKeeps
      BY <3>1, <3>2, <3>3 DEF RunKeeps
    <3> QED BY <3>4, KeepsRun
  <2>2. ASSUME Unblock(c) PROVE SingleRun'
    <3>1. /\ proc[c].pc = "blocked" /\ proc[c] \in Proc /\ queued' = queued
          /\ \A d \in Completer \ {c} : proc'[d] = proc[d]
          /\ proc'[c] = [proc[c] EXCEPT !.pc = "inserted"]
      BY <2>2 DEF Unblock, IInv, TypeOK, rows
    <3>2. /\ proc'[c].pc = "inserted" /\ proc'[c].job = proc[c].job
          /\ proc'[c].status = proc[c].status
      BY <3>1 DEF Proc
    <3>3. \A j \in Perpetual : Alive(j)' => Alive(j)
      BY <3>1, <3>2, NoRevival DEF Restarting, Working
    <3>4. RunKeeps
      BY <3>1, <3>2, <3>3 DEF RunKeeps
    <3> QED BY <3>4, KeepsRun
  <2>3. ASSUME Abort(c) PROVE SingleRun'
    <3>1. AfterError(c).pc \in {"idle", "begin"} /\ queued' = queued
      BY <2>3, AfterKeeps DEF Abort, rows
    <3>2. \A d \in Completer : proc'[d] = proc[d] \/ proc'[d].pc \in {"idle", "begin", "soft"}
      BY <2>3, <3>1 DEF Abort, Attempt, IInv, TypeOK
    <3> QED BY <3>1, <3>2, QuietRun
  <2> QED BY <1>4, <2>1, <2>2, <2>3, CommitRun, RestartRun DEF CompleterStep
<1>5. ASSUME NEW a \in Api, ApiStep(a) PROVE SingleRun'
  <2>1. queued' = queued
    BY <1>5 DEF ApiStep, CancelJob, SoftCancel, rows
  <2>2. \A c \in Completer : proc'[c] = proc[c] \/ proc'[c].pc \in {"idle", "begin", "soft"}
    <3>1. CASE SoftCancel(a)
      BY <3>1 DEF SoftCancel, IdleProc, IInv, TypeOK
    <3>2. ASSUME NEW j \in Job, NEW force \in BOOLEAN, CancelJob(a, j, force)
          PROVE  \A c \in Completer : proc'[c] = proc[c] \/ proc'[c].pc \in {"idle", "begin", "soft"}
      <4>1. /\ Call(j, "canceled", "error").pc = "begin"
            /\ [Call(j, "canceled", "error") EXCEPT !.pc = "soft"].pc = "soft"
        BY DEF Call, Attempt
      <4> QED BY <3>2, <4>1 DEF CancelJob, IInv, TypeOK
    <3> QED BY <1>5, <3>1, <3>2 DEF ApiStep
  <2> QED BY <2>1, <2>2, QuietRun
<1>6. ASSUME NEW s \in Api \cup Monitor, CrashServer(s) PROVE SingleRun'
  BY <1>6, QuietRun DEF CrashServer, rows, IdleProc, IInv, TypeOK
<1>7. CASE UNCHANGED vars
  BY <1>7, QuietRun DEF vars
<1>8. ASSUME NEW m \in Monitor, MonitorStep(m) PROVE SingleRun'
  <2>1. queued' = queued
    BY <1>8 DEF MonitorStep, ZombieSweep, FailZombie, rows
  <2>2. \A c \in Completer : proc'[c] = proc[c] \/ proc'[c].pc \in {"idle", "begin", "soft"}
    BY <1>8 DEF MonitorStep, ZombieSweep, FailZombie, Call, Attempt, IInv, TypeOK
  <2> QED BY <2>1, <2>2, QuietRun
<1> QED BY <1>1, <1>2, <1>3, <1>4, <1>5, <1>6, <1>7, <1>8 DEF Next

(* The size of a set without two different members. *)
LEMMA AtMostOne ==
  ASSUME NEW S, \A x, y \in S : x = y
  PROVE  Cardinality(S) \in {0, 1} /\ (S = {} => Cardinality(S) = 0)
<1>1. CASE S = {}
  BY <1>1, FS_EmptySet
<1>2. CASE S # {}
  <2>1. PICK x \in S : TRUE
    BY <1>2
  <2>2. S = {x}
    BY <2>1
  <2> QED BY <2>2, FS_Singleton
<1> QED BY <1>1, <1>2

(* PerpetualInv holds in every reachable state. *)
THEOREM PerpetualInvariant == Spec => []PerpetualInv
<1>1. Init => PerpetualInv
  BY DEF Init, PerpetualInv, MonitorInv, OneAttempt, SingleRun, Alive, Restarting, Busy, Working,
         IdleExec, IdleProc, Completer
<1>2. IInv /\ PerpetualInv /\ [Next]_vars => PerpetualInv'
  <2> SUFFICES ASSUME IInv, PerpetualInv, [Next]_vars PROVE PerpetualInv'
    OBVIOUS
  <2>1. MonitorInv'
    BY NextMonitor DEF PerpetualInv
  <2>2. ASSUME Quiet' PROVE OneAttempt' /\ SingleRun'
    <3>1. Quiet
      BY <2>2, CounterGrows, ConstantsAssumption DEF Quiet
    <3> QED BY <2>2, <3>1, NextAttempt, NextRun DEF PerpetualInv
  <2> QED BY <2>1, <2>2 DEF PerpetualInv
<1> QED BY <1>1, <1>2, IInvInvariant, PTL DEF Spec

(* While the monitor has restarted no run of a perpetual script, one run   *)
(* at most is in the queue or about to push the next one, whatever is      *)
(* cancelled, refused, timed out, rolled back or dies: two runs at a time  *)
(* are always the outcome of a restart in zombie_job_counter.              *)
THEOREM OneRunAtATime == Spec => []OneRunUnlessRestarted
<1>1. PerpetualInv => OneRunUnlessRestarted
  <2> DEFINE Q == queued \cap Perpetual
             R == {c \in Completer : proc[c].pc = "restart"}
  <2> SUFFICES ASSUME PerpetualInv, Quiet
               PROVE  Cardinality(Q) + Cardinality(R) <= 1
    BY DEF OneRunUnlessRestarted, Quiet
  <2>1. OneAttempt /\ SingleRun
    BY DEF PerpetualInv
  <2>2. \A i, j \in Q : i = j
    BY <2>1 DEF SingleRun, Alive
  <2>3. \A c \in R : Working(c) /\ proc[c].job \in Perpetual \ queued /\ Alive(proc[c].job)
    BY <2>1 DEF SingleRun, Alive, Restarting
  <2>4. \A c, d \in R : c = d
    <3> SUFFICES ASSUME NEW c \in R, NEW d \in R PROVE c = d
      OBVIOUS
    <3>1. proc[c].job = proc[d].job
      BY <2>1, <2>3 DEF SingleRun
    <3> QED BY <2>1, <2>3, <3>1 DEF OneAttempt
  <2>5. Q = {} \/ R = {}
    <3> SUFFICES ASSUME NEW i \in Q, NEW c \in R PROVE FALSE
      OBVIOUS
    <3>1. i = proc[c].job
      BY <2>1, <2>3 DEF SingleRun, Alive
    <3> QED BY <2>3, <3>1
  <2>6. Cardinality(Q) \in {0, 1} /\ (Q = {} => Cardinality(Q) = 0)
    BY <2>2, AtMostOne
  <2>7. Cardinality(R) \in {0, 1} /\ (R = {} => Cardinality(R) = 0)
    BY <2>4, AtMostOne
  <2> QED BY <2>5, <2>6, <2>7
<1> QED BY <1>1, PerpetualInvariant, PTL
-----------------------------------------------------------------------------
(* JobQueue implements JobLifecycle: the phase of a job is read off its    *)
(* rows, and every step of the queue is a step of the life cycle or        *)
(* changes no phase.                                                       *)

\* What the refinement mapping looks at.
phases == <<queued, running, completed, counter>>

(* Steps that leave those rows alone are stuttering steps. *)
LEMMA Stutters ==
  ASSUME UNCHANGED phases
  PROVE  UNCHANGED Lifecycle!vars
  BY DEF phases, PhaseOf, Lifecycle!vars

(* The empty queue is an initial state of the life cycle. *)
LEMMA InitRefines == Init => Lifecycle!Init
  BY DEF Init, Lifecycle!Init, PhaseOf

(* The rows of a new job, pushed by a client or by a restart, enqueue it. *)
LEMMA InsertRefines ==
  ASSUME IInv, NEW j \in Job, NEW isDue \in BOOLEAN, j \notin v2_job, InsertJob(j, isDue)
  PROVE  Lifecycle!Enqueue(j)
<1>1. j \notin queued /\ j \notin running /\ completed[j] = "none"
  BY DEF IInv, TypeOK, OnePlace
<1>2. PhaseOf(j) = "none"
  BY <1>1 DEF PhaseOf
<1>3. \A i \in Job : PhaseOf(i)' = IF i = j THEN "queued" ELSE PhaseOf(i)
  BY <1>1 DEF InsertJob, PhaseOf
<1> QED BY <1>2, <1>3 DEF Lifecycle!Enqueue, InsertJob

(* A pull claims a queued job. *)
LEMMA PullRefines ==
  ASSUME IInv, NEW w \in Worker, NEW j \in Job, Pull(w, j)
  PROVE  Lifecycle!Claim(j)
<1>1. j \in queued /\ j \notin running /\ completed[j] = "none"
  BY DEF IInv, TypeOK, OnePlace, Pull
<1>2. PhaseOf(j) = "queued"
  BY <1>1 DEF PhaseOf
<1>3. \A i \in Job : PhaseOf(i)' = IF i = j THEN "running" ELSE PhaseOf(i)
  BY <1>1 DEF Pull, PhaseOf
<1> QED BY <1>2, <1>3 DEF Lifecycle!Claim, Pull

(* A commit finishes the job, or changes the result of a finished one. *)
LEMMA CommitRefines ==
  ASSUME IInv, NEW c \in Completer, Commit(c)
  PROVE  Lifecycle!Finish(proc[c].job) \/ UNCHANGED Lifecycle!vars
<1> DEFINE j == proc[c].job
<1>1. j \in v2_job /\ j \in Job /\ proc[c].status \in Status
  BY DEF IInv, TypeOK, WorkIsKnown, Commit, Proc
<1>2. \A i \in Job : PhaseOf(i)' = IF i = j THEN "done" ELSE PhaseOf(i)
  BY <1>1 DEF Commit, PhaseOf, Status, IInv, TypeOK
<1>3. CASE j \in queued
  <2>1. PhaseOf(j) \in {"queued", "running"}
    BY <1>1, <1>3 DEF IInv, OnePlace, PhaseOf
  <2> QED BY <2>1, <1>1, <1>2 DEF Lifecycle!Finish, Commit
<1>4. CASE j \notin queued
  <2>1. PhaseOf(j) = "done"
    BY <1>1, <1>4 DEF IInv, OnePlace, PhaseOf
  <2> QED BY <2>1, <1>1, <1>2 DEF Lifecycle!vars, Commit
<1> QED BY <1>3, <1>4

(* A sweep takes back the rows it releases, all in one step. *)
LEMMA SweepRefines ==
  ASSUME IInv, NEW m \in Monitor, ZombieSweep(m)
  PROVE  Lifecycle!Restart(Released)
<1>1. /\ Released \subseteq Job /\ Released \subseteq running /\ Released \subseteq queued
      /\ \A j \in Released : counter[j] < RestartLimit
  BY DEF Released, Zombies, IInv, TypeOK
<1>2. \A j \in Released : PhaseOf(j) = "running"
  BY <1>1 DEF PhaseOf, IInv, OnePlace
<1>3. \A j \in Job : PhaseOf(j)' = IF j \in Released THEN "queued" ELSE PhaseOf(j)
  BY <1>1 DEF PhaseOf, IInv, OnePlace, ZombieSweep
<1> QED BY <1>1, <1>2, <1>3 DEF Lifecycle!Restart, ZombieSweep

(* Every step of the queue is one of the life cycle. *)
LEMMA NextRefines == IInv /\ [Next]_vars => [Lifecycle!Next]_Lifecycle!vars
<1> SUFFICES ASSUME IInv, [Next]_vars
             PROVE  Lifecycle!Next \/ UNCHANGED Lifecycle!vars
  OBVIOUS
<1>1. ASSUME NEW j \in Job, NEW isDue \in BOOLEAN, Push(j, isDue)
      PROVE  Lifecycle!Next
  BY <1>1, InsertRefines DEF Push, Lifecycle!Next
<1>2. ASSUME NEW w \in Worker, WorkerStep(w)
      PROVE  Lifecycle!Next \/ UNCHANGED Lifecycle!vars
  <2>1. ASSUME NEW j \in Job, Pull(w, j) PROVE Lifecycle!Next
    BY <2>1, PullRefines DEF Lifecycle!Next
  <2>2. CASE \/ RefuseJob(w) \/ TimeoutJob(w) \/ PingJob(w) \/ \E s \in Status : FinishJob(w, s)
             \/ SendCompleted(w) \/ ReceiveCompleted(w) \/ CrashWorker(w)
    <3>1. UNCHANGED phases
      BY <2>2 DEF RefuseJob, TimeoutJob, PingJob, FinishJob, SendCompleted,
         ReceiveCompleted, CrashWorker, rows, phases
    <3> QED BY <3>1, Stutters
  <2> QED BY <1>2, <2>1, <2>2 DEF WorkerStep
<1>3. ASSUME NEW c \in Completer, CompleterStep(c)
      PROVE  Lifecycle!Next \/ UNCHANGED Lifecycle!vars
  <2>1. CASE Commit(c)
    <3>1. proc[c].job \in Job
      BY <2>1 DEF IInv, TypeOK, WorkIsKnown, Commit
    <3> QED BY <2>1, <3>1, CommitRefines DEF Lifecycle!Next
  <2>2. CASE InsertCompleted(c) \/ Unblock(c) \/ Abort(c)
    <3>1. UNCHANGED phases
      BY <2>2 DEF InsertCompleted, Unblock, Abort, rows, phases
    <3> QED BY <3>1, Stutters
  <2>3. ASSUME NEW isDue \in BOOLEAN, RestartPerpetual(c, isDue)
        PROVE  Lifecycle!Next \/ UNCHANGED Lifecycle!vars
    <3>1. CASE Perpetual \subseteq v2_job
      <4>1. UNCHANGED phases BY <2>3, <3>1 DEF RestartPerpetual, rows, phases
      <4> QED BY <4>1, Stutters
    <3>2. CASE ~(Perpetual \subseteq v2_job)
      <4>1. PICK j \in Perpetual \ v2_job : InsertJob(j, isDue)
        BY <2>3, <3>2 DEF RestartPerpetual
      <4>2. j \in Job /\ j \notin v2_job BY ConstantsAssumption
      <4> QED BY <4>1, <4>2, InsertRefines DEF Lifecycle!Next
    <3> QED BY <3>1, <3>2
  <2> QED BY <1>3, <2>1, <2>2, <2>3 DEF CompleterStep
<1>4. ASSUME NEW m \in Monitor, MonitorStep(m)
      PROVE  Lifecycle!Next \/ UNCHANGED Lifecycle!vars
  <2>1. CASE ZombieSweep(m)
    <3>1. Released \in SUBSET Job BY DEF Released, Zombies, IInv, TypeOK
    <3> QED BY <2>1, <3>1, SweepRefines DEF Lifecycle!Next
  <2>2. ASSUME NEW j \in Job, FailZombie(m, j) PROVE UNCHANGED Lifecycle!vars
    <3>1. UNCHANGED phases BY <2>2 DEF FailZombie, rows, phases
    <3> QED BY <3>1, Stutters
  <2> QED BY <1>4, <2>1, <2>2 DEF MonitorStep
<1>5. ASSUME \/ \E j \in Job : BecomeDue(j) \/ PingExpires(j)
             \/ \E a \in Api : ApiStep(a)
             \/ \E s \in Api \cup Monitor : CrashServer(s)
             \/ UNCHANGED vars
      PROVE  UNCHANGED Lifecycle!vars
  <2>1. UNCHANGED phases
    BY <1>5 DEF BecomeDue, PingExpires, ApiStep, CancelJob, SoftCancel, CrashServer,
       rows, vars, phases
  <2> QED BY <2>1, Stutters
<1> QED BY <1>1, <1>2, <1>3, <1>4, <1>5 DEF Next

(***************************************************************************)
(* The queue implements the life cycle: a job is enqueued once, claimed by *)
(* one pull at a time, restarted at most RestartLimit times, each restart  *)
(* counted in zombie_job_counter, and never returns once it is completed.  *)
(***************************************************************************)
THEOREM ImplementsLifecycle == Spec => LifecycleSpec
<1>1. Spec => []IInv BY IInvInvariant
<1> QED BY <1>1, InitRefines, NextRefines, PTL DEF Spec, LifecycleSpec, Lifecycle!Spec
=============================================================================
