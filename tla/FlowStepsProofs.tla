--------------------------- MODULE FlowStepsProofs ---------------------------
(***************************************************************************)
(* Proofs about FlowSteps, for any number of modules, retries and threads, *)
(* when no ping expires of a worker that is alive.  At the heart of them   *)
(* is a token: a flow is in one place at a time, in its own row before it  *)
(* starts, in the row of one step, or in the memory of one thread.  What   *)
(* that thread has read of flow_status is then what flow_status says.      *)
(***************************************************************************)
EXTENDS FlowSteps, FiniteSetTheorems, TLAPS
-----------------------------------------------------------------------------
(* The token.                                                              *)

Active(p) == proc[p].pc # "idle"
Executes(p) == proc[p].pc \in {"run", "complete"}
Moves(p) == proc[p].pc \in {"read", "update", "start", "push", "finish"}

OneToken ==
    /\ \A p, q \in Proc : Active(p) /\ Active(q) => p = q
    /\ \A j, k \in StepJob : InQueue(j) /\ InQueue(k) => j = k
    /\ \A p \in Proc, j \in StepJob : Active(p) /\ InQueue(j) =>
          Executes(p) /\ proc[p].job = j /\ row[j] = "running"
    /\ row[Flow] = "queued" =>
          (\A p \in Proc : ~Active(p)) /\ (\A j \in StepJob : ~InQueue(j))

\* A thread that executes has a step, completed perhaps by a forced cancel.
HasStep ==
    \A p \in Proc : Executes(p) => proc[p].job \in StepJob /\ proc[p].job \in Pushed

Unstarted == module[0] = "WaitingForPriorSteps"

\* A flow is restarted only before its first step.
StartsOnce ==
    /\ row[Flow] = "queued" => Unstarted
    /\ Unstarted => step = 0
    /\ Unstarted /\ InQueue(Flow) =>
          Pushed = {} /\ (ping = "stale" => \A p \in Proc : ~Moves(p))

\* What a thread has read of flow_status.
ReadIsFresh ==
    \A p \in Proc : proc[p].pc \in {"update", "start", "push"} =>
        /\ proc[p].step = step
        /\ proc[p].mod = module[Idx(step)]
        /\ proc[p].fails = fail_count

TokenInv == TypeOK /\ OneToken /\ HasStep /\ StartsOnce /\ ReadIsFresh
-----------------------------------------------------------------------------
(* A cancelled flow.                                                       *)

MayPush == \E p \in Proc : proc[p].pc \in {"start", "push"}

CancelInv ==
    /\ Flow \in canceled => row[Flow] = "running"
    /\ jobsAtCancel # MaxJobs =>
          /\ Flow \in canceled \/ ~InQueue(Flow)
          /\ Cardinality(Pushed) <= jobsAtCancel + (IF MayPush THEN 0 ELSE 1)
-----------------------------------------------------------------------------
(* The order of the steps.                                                 *)

Live == InQueue(Flow) \/ MayPush
Tries(i) == {k \in Pushed : stepOf[k] = i}
Passed(i) == Succeeded(i) \/ i \in ContinueOnError
Earned == Succeeded(N) \/ \A i \in (0 .. N - 1) \ ContinueOnError : Succeeded(i)

JobsInARow == \A j \in Pushed : j <= Cardinality(Pushed)

\* flow_status and the jobs that were pushed.
StatusInOrder ==
    /\ step \in 0 .. N + 1
    /\ \A i \in 0 .. N - 1 : i > step => module[i] = "WaitingForPriorSteps"
    /\ step < N => \A i \in 0 .. N - 1 : i < step => Passed(i)
    /\ Live =>
        /\ \A i \in 0 .. N - 1 :
              i > step \/ (i = step /\ module[i] = "WaitingForPriorSteps") => Tries(i) = {}
        /\ step < N => Tries(N) = {}
        /\ \A i \in 0 .. N : i = step => Cardinality(Tries(i)) <= 1 + fail_count

\* The step in the queue, or whose report is under way, is flow_status.step.
ReportsOnStep ==
    /\ \A j \in StepJob : InQueue(j) /\ InQueue(Flow) => stepOf[j] = step
    /\ \A p \in Proc : Executes(p) /\ InQueue(Flow) => stepOf[proc[p].job] = step
    /\ \A p \in Proc : proc[p].pc \in {"read", "update"} =>
          /\ proc[p].job = Flow => Unstarted /\ proc[p].status # "success"
          /\ proc[p].job # Flow =>
                /\ proc[p].job \in Pushed
                /\ InQueue(Flow) => stepOf[proc[p].job] = step
                /\ proc[p].status = "success" => row[proc[p].job] = "success"

\* A module that is about to be pushed has not run, or has failed; it is retried
\* then, or gives way to the failure module.
Due ==
    /\ step <= N
    /\ \/ step < N /\ module[step] = "WaitingForPriorSteps"
       \/ /\ module[step] = "Failure"
          /\ MayRetry(fail_count) \/ (step < N /\ step \notin ContinueOnError)
    /\ step = N => Tries(N) # {}

PushIsDue ==
    \A p \in Proc :
        /\ proc[p].pc = "start" => Unstarted
        /\ proc[p].pc = "push" => Due
        /\ proc[p].pc = "finish" /\ proc[p].status = "success" => Earned

\* What the pushed jobs say.
JobsInOrder ==
    /\ \A j \in Pushed : stepOf[j] < N => \A i \in 0 .. N - 1 : i < stepOf[j] => Passed(i)
    /\ Tries(N) # {} => \E i \in 0 .. N - 1 : module[i] = "Failure"
    /\ \A i \in 0 .. N : Cardinality(Tries(i)) <= 1 + Attempts
    /\ row[Flow] = "success" => Earned

OrderInv == JobsInARow /\ StatusInOrder /\ ReportsOnStep /\ PushIsDue /\ JobsInOrder
-----------------------------------------------------------------------------
(* Jobs, modules and the records of threads.                               *)

\* What the constants are.
LEMMA StepFacts ==
    /\ N \in Nat /\ N >= 1 /\ Attempts \in Nat /\ MaxJobs \in Nat /\ MaxFaults \in Nat
    /\ Flow \in Job /\ Flow \notin StepJob
    /\ \A j \in StepJob : j \in Job /\ j \in Nat /\ j # Flow /\ j >= 1 /\ j <= MaxJobs
    /\ \A j \in Job : j = Flow \/ j \in StepJob
    /\ \A s \in Nat : Idx(s) \in 0 .. N /\ (s <= N => Idx(s) = s) /\ (s >= N => Idx(s) = N)
    /\ 0 \in 0 .. N /\ N \in 0 .. N /\ Idx(0) = 0
BY FlowAssumption DEF Job, StepJob, Flow, Idx

\* Sets of steps are counted as sets are.
LEMMA StepSets ==
    \A S \in SUBSET StepJob :
        /\ IsFiniteSet(S) /\ Cardinality(S) \in Nat /\ Cardinality(S) <= MaxJobs
        /\ \A c : c \notin S => Cardinality(S \cup {c}) = Cardinality(S) + 1
        /\ \A T \in SUBSET S : Cardinality(T) <= Cardinality(S)
<1>1. IsFiniteSet(StepJob) /\ Cardinality(StepJob) = MaxJobs
  BY FS_Interval, FlowAssumption DEF StepJob
<1>2. SUFFICES ASSUME NEW S \in SUBSET StepJob
               PROVE  /\ IsFiniteSet(S) /\ Cardinality(S) \in Nat
                      /\ Cardinality(S) <= MaxJobs
                      /\ \A c : c \notin S => Cardinality(S \cup {c}) = Cardinality(S) + 1
                      /\ \A T \in SUBSET S : Cardinality(T) <= Cardinality(S)
  OBVIOUS
<1>3. IsFiniteSet(S) /\ Cardinality(S) <= MaxJobs
  BY <1>1, FS_Subset
<1>4. Cardinality(S) \in Nat
  BY <1>3, FS_CardinalityType
<1>5. \A c : c \notin S => Cardinality(S \cup {c}) = Cardinality(S) + 1
  BY <1>3, FS_AddElement
<1>6. \A T \in SUBSET S : Cardinality(T) <= Cardinality(S)
  BY <1>3, FS_Subset
<1> QED
  BY <1>3, <1>4, <1>5, <1>6

Pcs == {"idle", "run", "complete", "read", "update", "start", "push", "finish"}

\* The fields of a thread, and of one that starts afresh.
LEMMA ThreadFields ==
    /\ \A t \in Thread : t.pc \in Pcs /\ t.job \in Job /\ t.status \in Status /\ t.step \in Nat
                         /\ t.mod \in Module /\ t.fails \in Nat
    /\ Idle \in Thread /\ Idle.pc = "idle" /\ Idle.job = Flow /\ Idle.status = "success"
BY StepFacts DEF Thread, Idle, Status, Module, Pcs

\* A thread p of which t is made, the others as they were.
Becomes(p, t) ==
    /\ proc'[p] = t /\ t \in Thread
    /\ proc' \in [Proc -> Thread]
    /\ \A q \in Proc \ {p} : proc'[q] = proc[q]

\* An assignment to one thread is such a change.
LEMMA ThreadBecomes ==
    ASSUME TypeOK, NEW p \in Proc, NEW t \in Thread, proc' = [proc EXCEPT ![p] = t]
    PROVE  Becomes(p, t)
BY DEF TypeOK, Becomes

\* The row of j is set to s, the others are as they were.
Sets(j, s) == row'[j] = s /\ \A k \in Job \ {j} : row'[k] = row[k]

\* An assignment to one row is such a change.
LEMMA RowSets ==
    ASSUME TypeOK, NEW j \in Job, NEW s, row' = [row EXCEPT ![j] = s]
    PROVE  Sets(j, s)
BY DEF TypeOK, Sets

status == <<stepOf, step, module, fail_count>>

\* What each step of a thread makes of its record, of the rows and of flow_status.
LEMMA PullFlowEffect ==
    ASSUME TypeOK, NEW p \in Proc, PullFlow(p)
    PROVE  /\ proc[p].pc = "idle" /\ row[Flow] = "queued" /\ Sets(Flow, "running")
           /\ ping' = "fresh" /\ UNCHANGED <<status, canceled, jobsAtCancel>>
           /\ Becomes(p, proc'[p])
           /\ proc'[p].pc = "start" /\ proc'[p].job = Flow /\ proc'[p].step = step
           /\ proc'[p].mod = module[Idx(step)] /\ proc'[p].fails = fail_count
<1> DEFINE t == [Idle EXCEPT !.pc = "start", !.step = step,
                             !.mod = module[Idx(step)], !.fails = fail_count]
<1>1. module[Idx(step)] \in Module /\ fail_count \in Nat /\ step \in Nat
  BY StepFacts DEF TypeOK
<1>2. t \in Thread
  BY <1>1, StepFacts DEF Thread, Idle, Status
<1>3. t.pc = "start" /\ t.job = Flow /\ t.step = step /\ t.mod = module[Idx(step)]
      /\ t.fails = fail_count
  BY DEF Idle
<1>4. proc' = [proc EXCEPT ![p] = t]
  BY DEF PullFlow
<1>5. Becomes(p, t)
  BY <1>2, <1>4, ThreadBecomes
<1>6. Sets(Flow, "running")
  BY StepFacts, RowSets DEF PullFlow
<1> QED
  BY <1>3, <1>5, <1>6 DEF Becomes, PullFlow, status, flow_status

\* A step is taken up, from the queue or by the monitor from a worker that died.
LEMMA TakeStepEffect ==
    ASSUME ~SlowWorkers, TypeOK, NEW p \in Proc, NEW j \in StepJob,
           PullStep(p, j) \/ FailStep(p, j)
    PROVE  /\ proc[p].pc = "idle" /\ Sets(j, "running")
           /\ row[j] = "queued" \/ (row[j] = "running" /\ ~Executing(j))
           /\ UNCHANGED <<status, ping, canceled, jobsAtCancel>>
           /\ Becomes(p, proc'[p])
           /\ proc'[p].pc \in {"run", "complete"} /\ proc'[p].job = j
<1> DEFINE t == [Idle EXCEPT !.pc = "complete", !.job = j, !.status = "failure"]
           u == [Idle EXCEPT !.pc = "run", !.job = j]
<1>1. t \in Thread /\ u \in Thread
  BY StepFacts DEF Thread, Idle, Status, Module
<1>2. t.pc = "complete" /\ t.job = j /\ u.pc = "run" /\ u.job = j
  BY DEF Idle
<1>3. proc' = [proc EXCEPT ![p] = t] \/ proc' = [proc EXCEPT ![p] = u]
  BY DEF PullStep, FailStep
<1>4. Becomes(p, t) \/ Becomes(p, u)
  BY <1>1, <1>3, ThreadBecomes
<1>5. row[j] = "queued" \/ (row[j] = "running" /\ ~Executing(j))
  BY DEF PullStep, FailStep, Zombie
<1>6. Sets(j, "running")
  <2>1. CASE PullStep(p, j)
    BY <2>1, StepFacts, RowSets DEF PullStep
  <2>2. CASE FailStep(p, j)
    BY <2>2 DEF FailStep, Zombie, Sets
  <2> QED
    BY <2>1, <2>2
<1>7. proc[p].pc = "idle" /\ UNCHANGED <<status, ping, canceled, jobsAtCancel>>
  BY DEF PullStep, FailStep, status, flow_status
<1> QED
  BY <1>2, <1>4, <1>5, <1>6, <1>7 DEF Becomes

\* The step of a worker ends.
LEMMA FinishStepEffect ==
    ASSUME TypeOK, NEW p \in Proc, NEW s \in Status, FinishStep(p, s)
    PROVE  /\ proc[p].pc = "run" /\ UNCHANGED <<status, row, ping, canceled, jobsAtCancel>>
           /\ Becomes(p, proc'[p])
           /\ proc'[p].pc = "complete" /\ proc'[p].job = proc[p].job
<1> DEFINE t == [proc[p] EXCEPT !.pc = "complete", !.status = s]
<1>1. proc[p] \in Thread
  BY DEF TypeOK
<1>2. t \in Thread /\ t.pc = "complete" /\ t.job = proc[p].job
  BY <1>1 DEF Thread
<1>3. proc' = [proc EXCEPT ![p] = t]
  BY DEF FinishStep
<1>4. Becomes(p, t)
  BY <1>2, <1>3, ThreadBecomes
<1> QED
  BY <1>2, <1>4 DEF Becomes, FinishStep, status, flow_status

\* add_completed_job of a step, by its worker or by the monitor.
LEMMA CompleteStepEffect ==
    ASSUME TypeOK, HasStep, NEW p \in Proc, CompleteStep(p)
    PROVE  /\ proc[p].pc = "complete" /\ proc[p].job \in StepJob
           /\ InQueue(proc[p].job) => Sets(proc[p].job, proc[p].status)
           /\ ~InQueue(proc[p].job) => UNCHANGED row
           /\ proc[p].status \in Status
           /\ canceled' \in {canceled, canceled \ {proc[p].job}}
           /\ ping' \in {ping, "fresh"} /\ UNCHANGED <<status, jobsAtCancel>>
           /\ Becomes(p, proc'[p])
           /\ proc'[p].pc = "read" /\ proc'[p].job = proc[p].job
           /\ proc'[p].status = IF InQueue(proc[p].job) THEN proc[p].status ELSE "failure"
<1> DEFINE t == [proc[p] EXCEPT !.pc = "read"]
           u == [proc[p] EXCEPT !.pc = "read", !.status = "failure"]
<1>1. proc[p] \in Thread /\ proc[p].status \in Status
  BY ThreadFields DEF TypeOK
<1>2. t \in Thread /\ t.pc = "read" /\ t.job = proc[p].job /\ t.status = proc[p].status
  BY <1>1 DEF Thread
<1>3. u \in Thread /\ u.pc = "read" /\ u.job = proc[p].job /\ u.status = "failure"
  BY <1>1 DEF Thread, Status
<1>4. proc[p].pc = "complete" /\ proc[p].job \in StepJob
  BY DEF CompleteStep, HasStep, Executes
<1>5. /\ canceled' \in {canceled, canceled \ {proc[p].job}}
      /\ ping' \in {ping, "fresh"} /\ UNCHANGED <<status, jobsAtCancel>>
  BY DEF CompleteStep, PingParent, status, flow_status
<1>6. CASE InQueue(proc[p].job)
  <2>1. proc' = [proc EXCEPT ![p] = t]
    BY <1>6 DEF CompleteStep
  <2>2. Becomes(p, t)
    BY <1>2, <2>1, ThreadBecomes
  <2>3. Sets(proc[p].job, proc[p].status)
    BY <1>6, <1>4, StepFacts, RowSets DEF CompleteStep
  <2> QED
    BY <1>1, <1>2, <1>6, <1>4, <1>5, <2>2, <2>3 DEF Becomes
<1>7. CASE ~InQueue(proc[p].job)
  <2>1. proc' = [proc EXCEPT ![p] = u]
    BY <1>7 DEF CompleteStep
  <2>2. Becomes(p, u)
    BY <1>3, <2>1, ThreadBecomes
  <2>3. UNCHANGED row
    BY <1>7 DEF CompleteStep
  <2> QED
    BY <1>1, <1>3, <1>7, <1>4, <1>5, <2>2, <2>3 DEF Becomes
<1> QED
  BY <1>6, <1>7

\* old_status is read, or the report ends for want of a flow.
LEMMA ReadStatusEffect ==
    ASSUME TypeOK, NEW p \in Proc, ReadStatus(p)
    PROVE  /\ proc[p].pc = "read" /\ UNCHANGED <<status, row, ping, canceled, jobsAtCancel>>
           /\ Becomes(p, proc'[p])
           /\ ~InQueue(Flow) => proc'[p].pc = "idle"
           /\ InQueue(Flow) =>
                /\ proc'[p].pc = "update" /\ proc'[p].job = proc[p].job
                /\ proc'[p].status = proc[p].status /\ proc'[p].step = step
                /\ proc'[p].mod = module[Idx(step)] /\ proc'[p].fails = fail_count
<1> DEFINE t == [proc[p] EXCEPT !.pc = "update", !.step = step,
                                !.mod = module[Idx(step)], !.fails = fail_count]
<1>1. proc[p] \in Thread /\ module[Idx(step)] \in Module /\ fail_count \in Nat /\ step \in Nat
  BY StepFacts DEF TypeOK
<1>2. t \in Thread /\ t.pc = "update" /\ t.job = proc[p].job /\ t.status = proc[p].status
      /\ t.step = step /\ t.mod = module[Idx(step)] /\ t.fails = fail_count
  BY <1>1 DEF Thread
<1>3. CASE InQueue(Flow)
  <2>1. proc' = [proc EXCEPT ![p] = t]
    BY <1>3 DEF ReadStatus
  <2>2. Becomes(p, t)
    BY <1>2, <2>1, ThreadBecomes
  <2> QED
    BY <1>2, <1>3, <2>2 DEF Becomes, ReadStatus, status, flow_status
<1>4. CASE ~InQueue(Flow)
  <2>1. proc' = [proc EXCEPT ![p] = Idle]
    BY <1>4 DEF ReadStatus
  <2>2. Becomes(p, Idle)
    BY <2>1, ThreadBecomes, ThreadFields
  <2> QED
    BY <1>4, <2>2, ThreadFields DEF Becomes, ReadStatus, status, flow_status
<1> QED
  BY <1>3, <1>4

\* Steps after which a thread is idle.
LEMMA IdleThread ==
    ASSUME TypeOK, NEW p \in Proc, proc' = [proc EXCEPT ![p] = Idle]
    PROVE  Becomes(p, proc'[p]) /\ proc'[p].pc = "idle"
<1>1. Becomes(p, Idle)
  BY ThreadBecomes, ThreadFields
<1> QED
  BY <1>1, ThreadFields DEF Becomes

\* The transaction on a flow that is in the queue: it moves on, or is to be finished.
LEMMA UpdateStatusEffect ==
    ASSUME TypeOK, NEW p \in Proc, UpdateStatus(p), InQueue(Flow)
    PROVE  /\ proc[p].pc = "update" /\ UNCHANGED <<stepOf, row, ping, canceled, jobsAtCancel>>
           /\ module' = [module EXCEPT ![Idx(proc[p].step)] = NewModule(proc[p])]
           /\ step' = IF IncStep(proc[p]) THEN proc[p].step + 1 ELSE step
           /\ Becomes(p, proc'[p])
           /\ step' \in Nat /\ module' \in [0 .. N -> Module] /\ fail_count' \in {0, fail_count}
           /\ ShouldContinue(proc[p]) =>
                /\ proc'[p].pc = "push" /\ proc'[p].step = step'
                /\ proc'[p].mod = module'[Idx(step')] /\ proc'[p].fails = fail_count'
           /\ ~ShouldContinue(proc[p]) =>
                /\ proc'[p].pc = "finish"
                /\ \E recover \in BOOLEAN : proc'[p].status = FlowOutcome(proc[p], recover)
<1>1. proc[p] \in Thread /\ proc[p].status \in Status /\ proc[p].step \in Nat
  BY ThreadFields DEF TypeOK
<1>2. step' \in Nat /\ module' \in [0 .. N -> Module] /\ fail_count' \in {0, fail_count}
  <2>1. step' \in Nat /\ fail_count' \in {0, fail_count}
    <3>1. step' = IF IncStep(proc[p]) THEN proc[p].step + 1 ELSE step
      BY DEF UpdateStatus
    <3>2. fail_count' \in {0, fail_count}
      BY DEF UpdateStatus
    <3> QED
      BY <1>1, <3>1, <3>2 DEF TypeOK
  <2>2. module' = [module EXCEPT ![Idx(proc[p].step)] = NewModule(proc[p])]
    BY DEF UpdateStatus
  <2>3. NewModule(proc[p]) \in Module
    BY DEF NewModule, Module
  <2> QED
    BY <2>1, <2>2, <2>3 DEF TypeOK
<1>3. /\ proc[p].pc = "update" /\ UNCHANGED <<stepOf, row, ping, canceled, jobsAtCancel>>
      /\ module' = [module EXCEPT ![Idx(proc[p].step)] = NewModule(proc[p])]
      /\ step' = IF IncStep(proc[p]) THEN proc[p].step + 1 ELSE step
  BY DEF UpdateStatus
<1>4. CASE ShouldContinue(proc[p])
  <2> DEFINE t == [proc[p] EXCEPT !.pc = "push", !.step = step',
                                  !.mod = module'[Idx(step')], !.fails = fail_count']
  <2>1. module'[Idx(step')] \in Module /\ fail_count' \in Nat
    BY <1>2, StepFacts DEF TypeOK
  <2>2. t \in Thread /\ t.pc = "push" /\ t.step = step' /\ t.mod = module'[Idx(step')]
        /\ t.fails = fail_count'
    BY <1>1, <1>2, <2>1 DEF Thread
  <2>3. proc' = [proc EXCEPT ![p] = t]
    BY <1>4 DEF UpdateStatus
  <2>4. Becomes(p, t)
    BY <2>2, <2>3, ThreadBecomes
  <2> QED
    BY <1>2, <1>4, <1>3, <2>2, <2>4 DEF Becomes
<1>5. CASE ~ShouldContinue(proc[p])
  <2>1. PICK recover \in BOOLEAN :
           proc' = [proc EXCEPT ![p] =
                      [proc[p] EXCEPT !.pc = "finish",
                                      !.status = FlowOutcome(proc[p], recover)]]
    BY <1>5 DEF UpdateStatus
  <2> DEFINE t == [proc[p] EXCEPT !.pc = "finish", !.status = FlowOutcome(proc[p], recover)]
  <2>2. FlowOutcome(proc[p], recover) \in Status
    BY DEF FlowOutcome, Status
  <2>3. t \in Thread /\ t.pc = "finish" /\ t.status = FlowOutcome(proc[p], recover)
    BY <1>1, <2>2 DEF Thread
  <2>4. Becomes(p, t)
    BY <2>1, <2>3, ThreadBecomes
  <2> QED
    BY <1>2, <1>5, <1>3, <2>3, <2>4 DEF Becomes
<1> QED
  BY <1>4, <1>5

\* The transaction finds no flow any more.
LEMMA UpdateDroppedEffect ==
    ASSUME TypeOK, NEW p \in Proc, UpdateStatus(p), ~InQueue(Flow)
    PROVE  /\ proc[p].pc = "update" /\ UNCHANGED <<status, row, ping, canceled, jobsAtCancel>>
           /\ Becomes(p, proc'[p]) /\ proc'[p].pc = "idle"
BY IdleThread DEF UpdateStatus, status, flow_status

\* The transaction is rolled back and the report made again, as a failure.
LEMMA UpdateFailsEffect ==
    ASSUME TypeOK, NEW p \in Proc, UpdateFails(p)
    PROVE  /\ proc[p].pc = "update" /\ UNCHANGED <<status, row, ping, canceled, jobsAtCancel>>
           /\ Becomes(p, proc'[p])
           /\ proc'[p].pc = "read" /\ proc'[p].job = proc[p].job /\ proc'[p].status = "failure"
<1> DEFINE t == [proc[p] EXCEPT !.pc = "read", !.status = "failure", !.unrecoverable = TRUE]
<1>1. proc[p] \in Thread
  BY DEF TypeOK
<1>2. t \in Thread /\ t.pc = "read" /\ t.job = proc[p].job /\ t.status = "failure"
  BY <1>1 DEF Thread, Status
<1>3. proc' = [proc EXCEPT ![p] = t]
  BY DEF UpdateFails
<1>4. Becomes(p, t)
  BY <1>2, <1>3, ThreadBecomes
<1> QED
  BY <1>2, <1>4 DEF Becomes, UpdateFails, status, flow_status

\* handle_flow returns an error: a failure of the module, or of the flow.
LEMMA PushFailsEffect ==
    ASSUME TypeOK, NEW p \in Proc, PushFails(p)
    PROVE  /\ UNCHANGED <<status, row, ping, canceled, jobsAtCancel>>
           /\ Becomes(p, proc'[p])
           /\ proc[p].pc \in {"start", "push"}
           /\ proc[p].pc = "start" => proc'[p].pc = "read"
           /\ proc[p].pc = "push" => proc'[p].pc = "finish"
           /\ proc'[p].job = Flow /\ proc'[p].status = "failure"
<1> DEFINE t(x) == [proc[p] EXCEPT !.pc = x, !.job = Flow, !.status = "failure"]
<1>1. proc[p] \in Thread
  BY DEF TypeOK
<1>2. ASSUME NEW x \in {"read", "finish"}
      PROVE  t(x) \in Thread /\ t(x).pc = x /\ t(x).job = Flow /\ t(x).status = "failure"
  BY <1>1, <1>2, StepFacts DEF Thread, Status
<1>3. /\ proc[p].pc = "start" => proc' = [proc EXCEPT ![p] = t("read")]
      /\ proc[p].pc = "push" => proc' = [proc EXCEPT ![p] = t("finish")]
  <2>1. proc' = [proc EXCEPT ![p] =
                   [proc[p] EXCEPT !.pc = IF proc[p].pc = "start" THEN "read" ELSE "finish",
                                   !.job = Flow, !.status = "failure"]]
    BY DEF PushFails
  <2>2. CASE proc[p].pc = "start"
    BY <2>1, <2>2
  <2>3. CASE proc[p].pc = "push"
    BY <2>1, <2>3
  <2> QED
    BY <2>2, <2>3 DEF PushFails
<1>4. /\ proc[p].pc = "start" => Becomes(p, t("read"))
      /\ proc[p].pc = "push" => Becomes(p, t("finish"))
  BY <1>2, <1>3, ThreadBecomes
<1> QED
  BY <1>2, <1>4 DEF Becomes, PushFails, status, flow_status

\* A worker dies.
LEMMA CrashEffect ==
    ASSUME TypeOK, NEW p \in Proc, Crash(p)
    PROVE  /\ proc[p].pc # "idle" /\ UNCHANGED <<status, row, ping, canceled, jobsAtCancel>>
           /\ Becomes(p, proc'[p]) /\ proc'[p].pc = "idle"
BY IdleThread DEF Crash, status, flow_status

\* add_completed_job of the flow, if nobody else has completed it.
LEMMA FinishFlowEffect ==
    ASSUME TypeOK, NEW p \in Proc, FinishFlow(p)
    PROVE  /\ proc[p].pc = "finish"
           /\ InQueue(Flow) => Sets(Flow, proc[p].status) /\ ping' = "null"
           /\ ~InQueue(Flow) => UNCHANGED <<row, ping>>
           /\ proc[p].status \in Status
           /\ canceled' = canceled \ {Flow}
           /\ UNCHANGED <<status, jobsAtCancel>>
           /\ Becomes(p, proc'[p]) /\ proc'[p].pc = "idle"
<1>1. Becomes(p, proc'[p]) /\ proc'[p].pc = "idle"
  BY IdleThread DEF FinishFlow
<1>2. InQueue(Flow) => Sets(Flow, proc[p].status)
  BY StepFacts, RowSets DEF FinishFlow
<1>3. proc[p].status \in Status
  BY ThreadFields DEF TypeOK
<1> QED
  BY <1>1, <1>2, <1>3 DEF FinishFlow, status, flow_status

\* Steps of users, of the monitor and of clocks.
LEMMA RestartStepEffect ==
    ASSUME ~SlowWorkers, TypeOK, NEW j \in StepJob, RestartStep(j)
    PROVE  /\ row[j] = "running" /\ ~Executing(j) /\ Sets(j, "queued")
           /\ UNCHANGED <<status, proc, ping, canceled, jobsAtCancel>>
BY StepFacts, RowSets DEF RestartStep, Zombie, status, flow_status

\* A spawned task cancels one job of the tree.
LEMMA KillJobEffect ==
    ASSUME TypeOK, NEW j \in Job, KillJob(j)
    PROVE  /\ InQueue(j) => Sets(j, "canceled")
           /\ ~InQueue(j) => UNCHANGED row
           /\ canceled' = canceled \ {j} /\ UNCHANGED <<status, proc, jobsAtCancel>>
           /\ ping' \in {ping, "null", "fresh"}
BY RowSets DEF KillJob, PingParent, status, flow_status

\* cancel_job marks a running flow, or leaves it to a task.
LEMMA CancelEffect ==
    ASSUME TypeOK, NEW force \in BOOLEAN, Cancel(force)
    PROVE  /\ UNCHANGED <<status, row, proc, ping>>
           /\ InQueue(Flow) /\ Flow \notin canceled
           /\ Flow \in canceled' => row[Flow] # "queued"
           /\ \/ Flow \in canceled' /\ jobsAtCancel' = Cardinality(Pushed)
              \/ Flow \notin canceled' /\ UNCHANGED jobsAtCancel
<1> DEFINE tree == {j \in Job : InQueue(j)}
           tasks == IF force THEN tree ELSE {Flow} \cap {j \in tree : row[j] = "queued"}
<1>1. InQueue(Flow) /\ Flow \in tree /\ Flow \notin canceled
  BY StepFacts DEF Cancel
<1>2. canceled' = canceled \cup (tree \ tasks)
      /\ jobsAtCancel' = IF Flow \in tasks THEN jobsAtCancel ELSE Cardinality(Pushed)
  BY DEF Cancel
<1>3. Flow \in canceled' <=> Flow \notin tasks
  BY <1>1, <1>2
<1>4. row[Flow] = "queued" => Flow \in tasks
  BY <1>1
<1>5. UNCHANGED <<status, row, proc, ping>>
  BY DEF Cancel, status, flow_status
<1> QED
  BY <1>1, <1>2, <1>3, <1>4, <1>5

\* The tasks of a server that dies change nothing.
LEMMA CrashServerEffect ==
    ASSUME CrashServer
    PROVE  UNCHANGED <<status, row, proc, ping, canceled, jobsAtCancel>>
BY DEF CrashServer, status, flow_status

\* A ping expires only when no thread holds the flow.
LEMMA PingExpiresEffect ==
    ASSUME ~SlowWorkers, PingExpires
    PROVE  /\ UNCHANGED <<status, row, proc, canceled, jobsAtCancel>>
           /\ \A p \in Proc : ~Moves(p)
BY DEF PingExpires, InTransition, Moves, status, flow_status

\* handle_zombie_flows gives back a flow that has not started; another one it cancels.
LEMMA HandleZombieFlowEffect ==
    ASSUME TypeOK, HandleZombieFlow
    PROVE  /\ UNCHANGED <<status, proc, ping, canceled, jobsAtCancel>>
           /\ row[Flow] = "running" /\ ping = "stale" /\ Flow \notin canceled
           /\ Unstarted => Sets(Flow, "queued")
           /\ ~Unstarted => UNCHANGED row
BY StepFacts, RowSets DEF HandleZombieFlow, IsZombieFlow, Unstarted, status, flow_status

\* A step of the environment that leaves everything as it is.
LEMMA StutterEffect ==
    ASSUME UNCHANGED vars
    PROVE  UNCHANGED <<status, row, proc, ping, canceled, jobsAtCancel>>
BY DEF vars, status

\* The module that is pushed, and what the push does.
LEMMA PushNextEffect ==
    ASSUME TypeOK, NEW p \in Proc, PushNext(p)
    PROVE  /\ proc[p].pc \in {"start", "push"}
           /\ Becomes(p, proc'[p])
           /\ UNCHANGED <<canceled, kills, faults, jobsAtCancel>>
           /\ proc[p].mod = "Success" =>
                /\ proc'[p].pc = "read" /\ proc'[p].job = Flow /\ proc'[p].status = "success"
                /\ UNCHANGED <<status, row, ping>>
           /\ proc[p].mod # "Success" =>
                /\ proc'[p].pc = "idle"
                /\ Cardinality(Pushed) + 1 \in StepJob
                /\ NextModule(proc[p]) \in 0 .. N
                /\ row' = [row EXCEPT ![Cardinality(Pushed) + 1] = "queued"]
                /\ Sets(Cardinality(Pushed) + 1, "queued")
                /\ stepOf' = [stepOf EXCEPT ![Cardinality(Pushed) + 1] = NextModule(proc[p])]
                /\ InQueue(Flow) =>
                     /\ module' = [module EXCEPT ![NextModule(proc[p])] = "WaitingForExecutor"]
                     /\ step' = NextModule(proc[p])
                     /\ fail_count' = NextFailCount(proc[p])
                     /\ ping' = "null"
                /\ ~InQueue(Flow) => UNCHANGED <<step, module, fail_count, ping>>
<1>1. proc[p] \in Thread /\ proc[p].step \in Nat
  BY ThreadFields DEF TypeOK
<1>2. CASE proc[p].mod = "Success"
  <2> DEFINE t == [proc[p] EXCEPT !.pc = "read", !.job = Flow, !.status = "success"]
  <2>1. t \in Thread /\ t.pc = "read" /\ t.job = Flow /\ t.status = "success"
    BY <1>1, StepFacts DEF Thread, Status
  <2>2. proc' = [proc EXCEPT ![p] = t]
    BY <1>2 DEF PushNext
  <2>3. Becomes(p, t)
    BY <2>1, <2>2, ThreadBecomes
  <2>4. UNCHANGED <<status, row, ping>>
    BY <1>2 DEF PushNext, flow_status, status
  <2> QED
    BY <1>2, <2>1, <2>3, <2>4 DEF Becomes, PushNext
<1>3. CASE proc[p].mod # "Success"
  <2>1. proc' = [proc EXCEPT ![p] = Idle] /\ Cardinality(Pushed) + 1 \in StepJob
        /\ PushJob(proc[p], NextModule(proc[p]), Cardinality(Pushed) + 1)
    BY <1>3 DEF PushNext
  <2>2. NextModule(proc[p]) \in 0 .. N
    BY <1>1, StepFacts DEF NextModule
  <2>3. Becomes(p, proc'[p]) /\ proc'[p].pc = "idle"
    BY <2>1, IdleThread
  <2>4. Sets(Cardinality(Pushed) + 1, "queued")
    BY <2>1, StepFacts, RowSets DEF PushJob
  <2> QED
    BY <1>3, <2>1, <2>2, <2>3, <2>4 DEF PushJob, PushNext, flow_status
<1> QED
  BY <1>2, <1>3

\* Type correctness.
LEMMA TypeStep ==
    ASSUME ~SlowWorkers, TokenInv, [Next]_vars
    PROVE  TypeOK'
<1> USE DEF TokenInv
<1>1. ASSUME NEW p \in Proc, PullFlow(p) PROVE TypeOK'
  BY <1>1, StepFacts, PullFlowEffect DEF PullFlow, TypeOK, Row, Status, flow_status,
     Becomes, Sets, status
<1>2. ASSUME NEW p \in Proc, NEW j \in StepJob, PullStep(p, j) PROVE TypeOK'
  BY <1>2, StepFacts, TakeStepEffect DEF PullStep, TypeOK, Row, Status, flow_status,
     Becomes, Sets, status
<1>3. ASSUME NEW p \in Proc, NEW s \in Status, FinishStep(p, s) PROVE TypeOK'
  BY <1>3, StepFacts, FinishStepEffect DEF FinishStep, TypeOK, Row, Status,
     flow_status, Becomes, status
<1>4. ASSUME NEW p \in Proc, CompleteStep(p) PROVE TypeOK'
  BY <1>4, StepFacts, CompleteStepEffect, ThreadFields DEF CompleteStep, PingParent,
     InQueue, TypeOK, Row, Becomes, flow_status
<1>5. ASSUME NEW p \in Proc, ReadStatus(p) PROVE TypeOK'
  BY <1>5, StepFacts, ReadStatusEffect DEF ReadStatus, TypeOK, Row, Status,
     flow_status, Becomes, status
<1>6. ASSUME NEW p \in Proc, UpdateStatus(p) PROVE TypeOK'
  <2>1. CASE InQueue(Flow)
    <3>1. step' \in Nat /\ module' \in [0 .. N -> Module] /\ proc' \in [Proc -> Thread]
      BY <1>6, <2>1, UpdateStatusEffect DEF Becomes
    <3>2. fail_count' \in {0, fail_count}
      BY <1>6, <2>1, UpdateStatusEffect
    <3>3. fail_count' \in 0 .. Attempts
      BY <3>2, StepFacts DEF TypeOK
    <3> QED
      BY <1>6, <3>1, <3>3 DEF UpdateStatus, TypeOK
  <2>2. CASE ~InQueue(Flow)
    BY <1>6, <2>2, UpdateDroppedEffect DEF UpdateStatus, Becomes, status, TypeOK
  <2> QED
    BY <2>1, <2>2
<1>7. ASSUME NEW p \in Proc, PushNext(p) PROVE TypeOK'
  <2>1. proc' \in [Proc -> Thread] /\ UNCHANGED <<canceled, kills, faults, jobsAtCancel>>
    BY <1>7, PushNextEffect DEF Becomes
  <2>2. CASE proc[p].mod = "Success"
    BY <1>7, <2>1, <2>2, PushNextEffect DEF TypeOK, status
  <2>3. CASE proc[p].mod # "Success"
    <3>1. row' \in [Job -> Row] /\ stepOf' \in [StepJob -> 0 .. N]
      BY <1>7, <2>3, PushNextEffect, StepFacts, ZenonT(30) DEF TypeOK, Row
    <3>2. step' \in Nat /\ module' \in [0 .. N -> Module] /\ ping' \in {"null", "fresh", "stale"}
      <4>1. CASE InQueue(Flow)
        <5>1. /\ NextModule(proc[p]) \in Nat /\ step' = NextModule(proc[p]) /\ ping' = "null"
              /\ module' = [module EXCEPT ![NextModule(proc[p])] = "WaitingForExecutor"]
          BY <1>7, <2>3, <4>1, PushNextEffect, StepFacts
        <5>2. module' \in [0 .. N -> Module]
          BY <5>1 DEF TypeOK, Module
        <5> QED
          BY <5>1, <5>2
      <4>2. CASE ~InQueue(Flow)
        BY <1>7, <2>3, <4>2, PushNextEffect DEF TypeOK
      <4> QED
        BY <4>1, <4>2
    <3>3. fail_count' \in 0 .. Attempts
      <4>1. proc[p].fails \in Nat
        BY ThreadFields DEF TypeOK
      <4>2. NextFailCount(proc[p]) \in 0 .. Attempts
        BY <4>1, StepFacts DEF NextFailCount, MayRetry, TypeOK
      <4> QED
        BY <1>7, <2>3, <4>2, PushNextEffect DEF TypeOK, status
    <3> QED
      BY <2>1, <3>1, <3>2, <3>3 DEF TypeOK
  <2> QED
    BY <2>2, <2>3
<1>8. ASSUME NEW p \in Proc, FinishFlow(p) PROVE TypeOK'
  BY <1>8, StepFacts, FinishFlowEffect, ThreadFields DEF FinishFlow, InQueue,
     TypeOK, Row, Becomes, flow_status
<1>9. ASSUME NEW p \in Proc, UpdateFails(p) PROVE TypeOK'
  <2>1. proc' \in [Proc -> Thread]
    BY <1>9, UpdateFailsEffect DEF UpdateFails, Becomes
  <2>2. faults' \in 0 .. MaxFaults
    BY <1>9, StepFacts DEF UpdateFails, TypeOK
  <2> QED
    BY <1>9, <2>1, <2>2 DEF UpdateFails, TypeOK, flow_status
<1>10. ASSUME NEW p \in Proc, PushFails(p) PROVE TypeOK'
  <2>1. proc' \in [Proc -> Thread]
    BY <1>10, PushFailsEffect DEF PushFails, Becomes
  <2>2. faults' \in 0 .. MaxFaults
    BY <1>10, StepFacts DEF PushFails, TypeOK
  <2> QED
    BY <1>10, <2>1, <2>2 DEF PushFails, TypeOK, flow_status
<1>11. ASSUME NEW p \in Proc, Crash(p) PROVE TypeOK'
  <2>1. proc' \in [Proc -> Thread]
    BY <1>11, CrashEffect DEF Crash, Becomes
  <2>2. faults' \in 0 .. MaxFaults
    BY <1>11, StepFacts DEF Crash, TypeOK
  <2> QED
    BY <1>11, <2>1, <2>2 DEF Crash, TypeOK, flow_status
<1>12. ASSUME NEW p \in Proc, NEW j \in StepJob, FailStep(p, j) PROVE TypeOK'
  BY <1>12, StepFacts, TakeStepEffect DEF FailStep, Zombie, TypeOK, Row, Status,
     flow_status, Becomes, Sets, status
<1>13. ASSUME NEW j \in StepJob, RestartStep(j) PROVE TypeOK'
  BY <1>13, StepFacts, RestartStepEffect DEF RestartStep, Zombie, TypeOK, Row,
     Status, flow_status, Sets, status
<1>14. ASSUME NEW force \in BOOLEAN, Cancel(force) PROVE TypeOK'
  <2>1. Pushed \in SUBSET StepJob
    BY DEF Pushed
  <2>2. Cardinality(Pushed) \in 0 .. MaxJobs
    BY <2>1, StepSets, StepFacts
  <2> QED
    BY <1>14, <2>2 DEF Cancel, TypeOK, flow_status
<1>15. ASSUME NEW j \in Job, KillJob(j) PROVE TypeOK'
  BY <1>15, StepFacts, KillJobEffect DEF KillJob, PingParent, InQueue, TypeOK, Row,
     Status, flow_status, Sets, status
<1>16. ASSUME CrashServer PROVE TypeOK'
  BY <1>16, StepFacts, CrashServerEffect DEF CrashServer, TypeOK, Row, Status,
     flow_status, status
<1>17. ASSUME PingExpires PROVE TypeOK'
  BY <1>17, StepFacts, PingExpiresEffect DEF PingExpires, TypeOK, Row, Status,
     flow_status, status
<1>18. ASSUME HandleZombieFlow PROVE TypeOK'
  BY <1>18, StepFacts, HandleZombieFlowEffect DEF HandleZombieFlow, IsZombieFlow,
     TypeOK, Row, Status, flow_status, Sets, status
<1>19. ASSUME UNCHANGED vars PROVE TypeOK'
  BY <1>19, StepFacts, StutterEffect DEF vars, TypeOK, Row, Status, flow_status,
     status
<1> QED
  BY <1>1, <1>2, <1>3, <1>4, <1>5, <1>6, <1>7, <1>8, <1>9, <1>10, <1>11, <1>12,
     <1>13, <1>14, <1>15, <1>16, <1>17, <1>18, <1>19 DEF Next, ThreadStep

\* The flow stays in one place.
LEMMA OneTokenStep ==
    ASSUME ~SlowWorkers, TokenInv, [Next]_vars
    PROVE  OneToken'
<1> USE DEF TokenInv
<1>1. ASSUME NEW p \in Proc, PullFlow(p) PROVE OneToken'
  BY <1>1, StepFacts, PullFlowEffect DEF OneToken, Active, Executes, InQueue,
     Status, Becomes, Sets, status
<1>2. ASSUME NEW p \in Proc, NEW j \in StepJob, PullStep(p, j) PROVE OneToken'
  <2>1. row[j] = "queued" /\ \A q \in Proc : ~Active(q)
    BY <1>2 DEF PullStep, OneToken, InQueue
  <2>2. \A q \in Proc \ {p} : ~Active(q)'
    BY <1>2, <2>1, TakeStepEffect DEF Active, Becomes
  <2>3. Executes(p)' /\ proc'[p].job = j /\ row'[j] = "running"
    BY <1>2, TakeStepEffect DEF Executes, Sets
  <2>4. \A k \in StepJob : InQueue(k)' => InQueue(k) /\ k = j
    BY <1>2, <2>1, TakeStepEffect, StepFacts DEF Sets, InQueue, OneToken
  <2>5. row'[Flow] = row[Flow] /\ row[Flow] # "queued"
    BY <1>2, <2>1, TakeStepEffect, StepFacts DEF Sets, InQueue, OneToken
  <2> QED
    BY <2>1, <2>2, <2>3, <2>4, <2>5 DEF OneToken
<1>3. ASSUME NEW p \in Proc, NEW s \in Status, FinishStep(p, s) PROVE OneToken'
  BY <1>3, StepFacts, FinishStepEffect DEF OneToken, Active, Executes, InQueue,
     Status, Becomes, status
<1>4. ASSUME NEW p \in Proc, CompleteStep(p) PROVE OneToken'
  BY <1>4, StepFacts, CompleteStepEffect DEF OneToken, Active, Executes, InQueue,
     Status, Becomes, Sets, status
<1>5. ASSUME NEW p \in Proc, ReadStatus(p) PROVE OneToken'
  BY <1>5, StepFacts, ReadStatusEffect DEF OneToken, Active, Executes, InQueue,
     Status, Becomes, status
<1>6. ASSUME NEW p \in Proc, UpdateStatus(p) PROVE OneToken'
  <2>1. CASE InQueue(Flow)
    BY <1>6, <2>1, UpdateStatusEffect, StepFacts DEF OneToken, Active, Executes,
       InQueue, Status, Becomes, status
  <2>2. CASE ~InQueue(Flow)
    BY <1>6, <2>2, UpdateDroppedEffect, StepFacts DEF OneToken, Active, Executes,
       InQueue, Status, Becomes, status
  <2> QED
    BY <2>1, <2>2
<1>7. ASSUME NEW p \in Proc, PushNext(p) PROVE OneToken'
  BY <1>7, StepFacts, PushNextEffect DEF OneToken, Active, Executes, InQueue,
     Status, Becomes, Sets, status
<1>8. ASSUME NEW p \in Proc, FinishFlow(p) PROVE OneToken'
  BY <1>8, StepFacts, FinishFlowEffect DEF OneToken, Active, Executes, InQueue,
     Status, Becomes, Sets, status
<1>9. ASSUME NEW p \in Proc, UpdateFails(p) PROVE OneToken'
  BY <1>9, StepFacts, UpdateFailsEffect DEF OneToken, Active, Executes, InQueue,
     Status, Becomes, status
<1>10. ASSUME NEW p \in Proc, PushFails(p) PROVE OneToken'
  BY <1>10, StepFacts, PushFailsEffect DEF OneToken, Active, Executes, InQueue,
     Status, Becomes, status
<1>11. ASSUME NEW p \in Proc, Crash(p) PROVE OneToken'
  BY <1>11, StepFacts, CrashEffect DEF OneToken, Active, Executes, InQueue, Status,
     Becomes, status
<1>12. ASSUME NEW p \in Proc, NEW j \in StepJob, FailStep(p, j) PROVE OneToken'
  BY <1>12, StepFacts, TakeStepEffect DEF OneToken, Active, Executes, InQueue,
     Status, Becomes, Sets, status, Executing
<1>13. ASSUME NEW j \in StepJob, RestartStep(j) PROVE OneToken'
  BY <1>13, StepFacts, RestartStepEffect DEF OneToken, Active, Executes, InQueue,
     Status, Sets, status, Executing
<1>14. ASSUME NEW force \in BOOLEAN, Cancel(force) PROVE OneToken'
  BY <1>14, StepFacts, CancelEffect DEF OneToken, Active, Executes, InQueue, Status,
     status
<1>15. ASSUME NEW j \in Job, KillJob(j) PROVE OneToken'
  BY <1>15, StepFacts, KillJobEffect DEF OneToken, Active, Executes, InQueue,
     Status, Sets, status
<1>16. ASSUME CrashServer PROVE OneToken'
  BY <1>16, StepFacts, CrashServerEffect DEF OneToken, Active, Executes, InQueue,
     Status, status
<1>17. ASSUME PingExpires PROVE OneToken'
  BY <1>17, StepFacts, PingExpiresEffect DEF OneToken, Active, Executes, InQueue,
     Status, status
<1>18. ASSUME HandleZombieFlow PROVE OneToken'
  <2>1. CASE Unstarted
    <3>1. \A j \in StepJob : row[j] = "none"
      BY <1>18, <2>1, HandleZombieFlowEffect DEF StartsOnce, Pushed, InQueue
    <3>2. \A p \in Proc : ~Moves(p) /\ ~Executes(p)
      BY <1>18, <2>1, <3>1, HandleZombieFlowEffect DEF StartsOnce, HasStep, InQueue, Pushed
    <3>3. \A p \in Proc : ~Active(p)
      BY <3>2, ThreadFields DEF Moves, Executes, Active, Pcs, TypeOK
    <3>4. \A j \in StepJob : ~InQueue(j)'
      BY <1>18, <2>1, <3>1, HandleZombieFlowEffect, StepFacts DEF Sets, InQueue
    <3> QED
      BY <1>18, <3>3, <3>4, HandleZombieFlowEffect DEF OneToken, Active
  <2>2. CASE ~Unstarted
    BY <1>18, <2>2, HandleZombieFlowEffect DEF OneToken, Active, Executes, InQueue
  <2> QED
    BY <2>1, <2>2
<1>19. ASSUME UNCHANGED vars PROVE OneToken'
  BY <1>19, StepFacts, StutterEffect DEF OneToken, Active, Executes, InQueue,
     Status, status
<1> QED
  BY <1>1, <1>2, <1>3, <1>4, <1>5, <1>6, <1>7, <1>8, <1>9, <1>10, <1>11, <1>12,
     <1>13, <1>14, <1>15, <1>16, <1>17, <1>18, <1>19 DEF Next, ThreadStep

\* Threads execute steps that were pushed.
LEMMA HasStepStep ==
    ASSUME ~SlowWorkers, TokenInv, [Next]_vars
    PROVE  HasStep'
<1> USE DEF TokenInv
<1>1. ASSUME NEW p \in Proc, PullFlow(p) PROVE HasStep'
  BY <1>1, StepFacts, PullFlowEffect DEF HasStep, Executes, Pushed, InQueue, Status,
     Becomes, Sets, status
<1>2. ASSUME NEW p \in Proc, NEW j \in StepJob, PullStep(p, j) PROVE HasStep'
  BY <1>2, StepFacts, TakeStepEffect DEF HasStep, Executes, Pushed, InQueue, Status,
     Becomes, Sets, status
<1>3. ASSUME NEW p \in Proc, NEW s \in Status, FinishStep(p, s) PROVE HasStep'
  BY <1>3, StepFacts, FinishStepEffect DEF HasStep, Executes, Pushed, InQueue,
     Status, Becomes, status
<1>4. ASSUME NEW p \in Proc, CompleteStep(p) PROVE HasStep'
  BY <1>4, StepFacts, CompleteStepEffect DEF HasStep, Executes, Pushed, InQueue,
     Status, Becomes, Sets, status
<1>5. ASSUME NEW p \in Proc, ReadStatus(p) PROVE HasStep'
  BY <1>5, StepFacts, ReadStatusEffect DEF HasStep, Executes, Pushed, InQueue,
     Status, Becomes, status
<1>6. ASSUME NEW p \in Proc, UpdateStatus(p) PROVE HasStep'
  <2>1. CASE InQueue(Flow)
    BY <1>6, <2>1, UpdateStatusEffect, StepFacts DEF HasStep, Executes, Pushed,
       InQueue, Status, Becomes, status
  <2>2. CASE ~InQueue(Flow)
    BY <1>6, <2>2, UpdateDroppedEffect, StepFacts DEF HasStep, Executes, Pushed,
       InQueue, Status, Becomes, status
  <2> QED
    BY <2>1, <2>2
<1>7. ASSUME NEW p \in Proc, PushNext(p) PROVE HasStep'
  BY <1>7, StepFacts, PushNextEffect, ZenonT(30) DEF HasStep, Executes, Pushed, InQueue, Status,
     Becomes, Sets, status
<1>8. ASSUME NEW p \in Proc, FinishFlow(p) PROVE HasStep'
  BY <1>8, StepFacts, FinishFlowEffect DEF HasStep, Executes, Pushed, InQueue,
     Status, Becomes, Sets, status
<1>9. ASSUME NEW p \in Proc, UpdateFails(p) PROVE HasStep'
  BY <1>9, StepFacts, UpdateFailsEffect DEF HasStep, Executes, Pushed, InQueue,
     Status, Becomes, status
<1>10. ASSUME NEW p \in Proc, PushFails(p) PROVE HasStep'
  BY <1>10, StepFacts, PushFailsEffect DEF HasStep, Executes, Pushed, InQueue,
     Status, Becomes, status
<1>11. ASSUME NEW p \in Proc, Crash(p) PROVE HasStep'
  BY <1>11, StepFacts, CrashEffect DEF HasStep, Executes, Pushed, InQueue, Status,
     Becomes, status
<1>12. ASSUME NEW p \in Proc, NEW j \in StepJob, FailStep(p, j) PROVE HasStep'
  BY <1>12, StepFacts, TakeStepEffect DEF HasStep, Executes, Pushed, InQueue,
     Status, Becomes, Sets, status
<1>13. ASSUME NEW j \in StepJob, RestartStep(j) PROVE HasStep'
  BY <1>13, StepFacts, RestartStepEffect DEF HasStep, Executes, Pushed, InQueue,
     Status, Sets, status
<1>14. ASSUME NEW force \in BOOLEAN, Cancel(force) PROVE HasStep'
  BY <1>14, StepFacts, CancelEffect DEF HasStep, Executes, Pushed, InQueue, Status,
     status
<1>15. ASSUME NEW j \in Job, KillJob(j) PROVE HasStep'
  BY <1>15, StepFacts, KillJobEffect DEF HasStep, Executes, Pushed, InQueue, Status,
     Sets, status
<1>16. ASSUME CrashServer PROVE HasStep'
  BY <1>16, StepFacts, CrashServerEffect DEF HasStep, Executes, Pushed, InQueue,
     Status, status
<1>17. ASSUME PingExpires PROVE HasStep'
  BY <1>17, StepFacts, PingExpiresEffect DEF HasStep, Executes, Pushed, InQueue,
     Status, status
<1>18. ASSUME HandleZombieFlow PROVE HasStep'
  BY <1>18, StepFacts, HandleZombieFlowEffect DEF HasStep, Executes, Pushed,
     InQueue, Status, Sets, status
<1>19. ASSUME UNCHANGED vars PROVE HasStep'
  BY <1>19, StepFacts, StutterEffect DEF HasStep, Executes, Pushed, InQueue, Status,
     status
<1> QED
  BY <1>1, <1>2, <1>3, <1>4, <1>5, <1>6, <1>7, <1>8, <1>9, <1>10, <1>11, <1>12,
     <1>13, <1>14, <1>15, <1>16, <1>17, <1>18, <1>19 DEF Next, ThreadStep

\* Nobody else changes what a thread has read.
LEMMA ReadIsFreshStep ==
    ASSUME ~SlowWorkers, TokenInv, [Next]_vars
    PROVE  ReadIsFresh'
<1> USE DEF TokenInv
<1>1. ASSUME NEW p \in Proc, PullFlow(p) PROVE ReadIsFresh'
  BY <1>1, StepFacts, PullFlowEffect DEF ReadIsFresh, OneToken, Active, Becomes,
     Sets, status
<1>2. ASSUME NEW p \in Proc, NEW j \in StepJob, PullStep(p, j) PROVE ReadIsFresh'
  BY <1>2, StepFacts, TakeStepEffect DEF ReadIsFresh, OneToken, Active, Becomes,
     Sets, status
<1>3. ASSUME NEW p \in Proc, NEW s \in Status, FinishStep(p, s) PROVE ReadIsFresh'
  BY <1>3, StepFacts, FinishStepEffect DEF ReadIsFresh, OneToken, Active, Becomes,
     status
<1>4. ASSUME NEW p \in Proc, CompleteStep(p) PROVE ReadIsFresh'
  BY <1>4, StepFacts, CompleteStepEffect DEF ReadIsFresh, OneToken, Active, Becomes,
     Sets, status
<1>5. ASSUME NEW p \in Proc, ReadStatus(p) PROVE ReadIsFresh'
  BY <1>5, StepFacts, ReadStatusEffect DEF ReadIsFresh, OneToken, Active, Becomes,
     status
<1>6. ASSUME NEW p \in Proc, UpdateStatus(p) PROVE ReadIsFresh'
  <2>1. CASE InQueue(Flow)
    BY <1>6, <2>1, UpdateStatusEffect, StepFacts DEF ReadIsFresh, OneToken, Active,
       Becomes, status
  <2>2. CASE ~InQueue(Flow)
    BY <1>6, <2>2, UpdateDroppedEffect, StepFacts DEF ReadIsFresh, OneToken, Active,
       Becomes, status
  <2> QED
    BY <2>1, <2>2
<1>7. ASSUME NEW p \in Proc, PushNext(p) PROVE ReadIsFresh'
  BY <1>7, StepFacts, PushNextEffect DEF ReadIsFresh, OneToken, Active, Becomes,
     Sets, status
<1>8. ASSUME NEW p \in Proc, FinishFlow(p) PROVE ReadIsFresh'
  BY <1>8, StepFacts, FinishFlowEffect DEF ReadIsFresh, OneToken, Active, Becomes,
     Sets, status
<1>9. ASSUME NEW p \in Proc, UpdateFails(p) PROVE ReadIsFresh'
  BY <1>9, StepFacts, UpdateFailsEffect DEF ReadIsFresh, OneToken, Active, Becomes,
     status
<1>10. ASSUME NEW p \in Proc, PushFails(p) PROVE ReadIsFresh'
  BY <1>10, StepFacts, PushFailsEffect DEF ReadIsFresh, OneToken, Active, Becomes,
     status
<1>11. ASSUME NEW p \in Proc, Crash(p) PROVE ReadIsFresh'
  BY <1>11, StepFacts, CrashEffect DEF ReadIsFresh, OneToken, Active, Becomes,
     status
<1>12. ASSUME NEW p \in Proc, NEW j \in StepJob, FailStep(p, j) PROVE ReadIsFresh'
  BY <1>12, StepFacts, TakeStepEffect DEF ReadIsFresh, OneToken, Active, Becomes,
     Sets, status
<1>13. ASSUME NEW j \in StepJob, RestartStep(j) PROVE ReadIsFresh'
  BY <1>13, StepFacts, RestartStepEffect DEF ReadIsFresh, OneToken, Active, Sets,
     status
<1>14. ASSUME NEW force \in BOOLEAN, Cancel(force) PROVE ReadIsFresh'
  BY <1>14, StepFacts, CancelEffect DEF ReadIsFresh, OneToken, Active, status
<1>15. ASSUME NEW j \in Job, KillJob(j) PROVE ReadIsFresh'
  BY <1>15, StepFacts, KillJobEffect DEF ReadIsFresh, OneToken, Active, Sets, status
<1>16. ASSUME CrashServer PROVE ReadIsFresh'
  BY <1>16, StepFacts, CrashServerEffect DEF ReadIsFresh, OneToken, Active, status
<1>17. ASSUME PingExpires PROVE ReadIsFresh'
  BY <1>17, StepFacts, PingExpiresEffect DEF ReadIsFresh, OneToken, Active, status
<1>18. ASSUME HandleZombieFlow PROVE ReadIsFresh'
  BY <1>18, StepFacts, HandleZombieFlowEffect DEF ReadIsFresh, OneToken, Active,
     Sets, status
<1>19. ASSUME UNCHANGED vars PROVE ReadIsFresh'
  BY <1>19, StepFacts, StutterEffect DEF ReadIsFresh, OneToken, Active, status
<1> QED
  BY <1>1, <1>2, <1>3, <1>4, <1>5, <1>6, <1>7, <1>8, <1>9, <1>10, <1>11, <1>12,
     <1>13, <1>14, <1>15, <1>16, <1>17, <1>18, <1>19 DEF Next, ThreadStep

\* The flow starts once.
LEMMA StartsOnceStep ==
    ASSUME ~SlowWorkers, TokenInv, [Next]_vars
    PROVE  StartsOnce'
<1> USE DEF TokenInv
<1>1. ASSUME NEW p \in Proc, PullFlow(p) PROVE StartsOnce'
  BY <1>1, StepFacts, PullFlowEffect DEF StartsOnce, Unstarted, InQueue, Pushed,
     Moves, Status, Becomes, Sets, status
<1>2. ASSUME NEW p \in Proc, NEW j \in StepJob, PullStep(p, j) PROVE StartsOnce'
  BY <1>2, StepFacts, TakeStepEffect DEF StartsOnce, Unstarted, InQueue, Pushed,
     Moves, Status, Becomes, Sets, status
<1>3. ASSUME NEW p \in Proc, NEW s \in Status, FinishStep(p, s) PROVE StartsOnce'
  BY <1>3, StepFacts, FinishStepEffect DEF StartsOnce, Unstarted, InQueue, Pushed,
     Moves, Status, Becomes, status
<1>4. ASSUME NEW p \in Proc, CompleteStep(p) PROVE StartsOnce'
  <2>1. Unstarted => ~InQueue(Flow)
    BY <1>4, CompleteStepEffect DEF HasStep, Executes, StartsOnce
  <2>2. row'[Flow] = row[Flow] /\ UNCHANGED status
    BY <1>4, CompleteStepEffect, StepFacts DEF Sets
  <2> QED
    BY <2>1, <2>2 DEF StartsOnce, Unstarted, InQueue, status
<1>5. ASSUME NEW p \in Proc, ReadStatus(p) PROVE StartsOnce'
  BY <1>5, StepFacts, ReadStatusEffect DEF StartsOnce, Unstarted, InQueue, Pushed,
     Moves, Status, Becomes, status
<1>6. ASSUME NEW p \in Proc, UpdateStatus(p) PROVE StartsOnce'
  <2>1. CASE InQueue(Flow)
    <3>1. proc[p].step = step /\ row[Flow] # "queued" /\ UNCHANGED row /\ module[0] \in Module
      BY <1>6, <2>1, UpdateStatusEffect, StepFacts DEF ReadIsFresh, OneToken, Active, TypeOK
    <3>2. module' = [module EXCEPT ![Idx(step)] = NewModule(proc[p])]
      BY <1>6, <2>1, <3>1, UpdateStatusEffect
    <3>3. Unstarted => Idx(step) = 0
      BY StepFacts DEF StartsOnce
    <3>4. ~Unstarted'
      BY <3>2, <3>3, StepFacts DEF Unstarted, NewModule, TypeOK
    <3> QED
      BY <3>1, <3>4 DEF StartsOnce
  <2>2. CASE ~InQueue(Flow)
    BY <1>6, <2>2, UpdateDroppedEffect DEF StartsOnce, Unstarted, InQueue, status
  <2> QED
    BY <2>1, <2>2
<1>7. ASSUME NEW p \in Proc, PushNext(p) PROVE StartsOnce'
  <2>1. row[Flow] # "queued" /\ proc[p].step = step /\ proc[p].mod = module[Idx(step)]
    BY <1>7, PushNextEffect DEF OneToken, Active, ReadIsFresh
  <2>2. CASE proc[p].mod = "Success"
    <3>1. ~Unstarted
      BY <2>1, <2>2, StepFacts DEF Unstarted, StartsOnce
    <3> QED
      BY <1>7, <2>1, <2>2, <3>1, PushNextEffect DEF StartsOnce, Unstarted, status
  <2>3. CASE proc[p].mod # "Success" /\ InQueue(Flow)
    <3>1. row'[Flow] = row[Flow]
      BY <1>7, <2>3, PushNextEffect, StepFacts DEF Sets
    <3>2. Unstarted => NextModule(proc[p]) = 0
      BY <2>1, StepFacts DEF Unstarted, StartsOnce, NextModule
    <3>3. module' = [module EXCEPT ![NextModule(proc[p])] = "WaitingForExecutor"]
      BY <1>7, <2>3, PushNextEffect
    <3>4. ~Unstarted'
      BY <3>2, <3>3, StepFacts DEF Unstarted, TypeOK
    <3> QED
      BY <2>1, <3>1, <3>4 DEF StartsOnce
  <2>4. CASE proc[p].mod # "Success" /\ ~InQueue(Flow)
    BY <1>7, <2>1, <2>4, PushNextEffect, StepFacts DEF StartsOnce, Unstarted, InQueue, Sets
  <2> QED
    BY <2>2, <2>3, <2>4
<1>8. ASSUME NEW p \in Proc, FinishFlow(p) PROVE StartsOnce'
  BY <1>8, StepFacts, FinishFlowEffect DEF StartsOnce, Unstarted, InQueue, Pushed,
     Moves, Status, Becomes, Sets, status
<1>9. ASSUME NEW p \in Proc, UpdateFails(p) PROVE StartsOnce'
  BY <1>9, StepFacts, UpdateFailsEffect DEF StartsOnce, Unstarted, InQueue, Pushed,
     Moves, Status, Becomes, status
<1>10. ASSUME NEW p \in Proc, PushFails(p) PROVE StartsOnce'
  BY <1>10, StepFacts, PushFailsEffect DEF StartsOnce, Unstarted, InQueue, Pushed,
     Moves, Status, Becomes, status
<1>11. ASSUME NEW p \in Proc, Crash(p) PROVE StartsOnce'
  BY <1>11, StepFacts, CrashEffect DEF StartsOnce, Unstarted, InQueue, Pushed,
     Moves, Status, Becomes, status
<1>12. ASSUME NEW p \in Proc, NEW j \in StepJob, FailStep(p, j) PROVE StartsOnce'
  BY <1>12, StepFacts, TakeStepEffect DEF StartsOnce, Unstarted, InQueue, Pushed,
     Moves, Status, Becomes, Sets, status
<1>13. ASSUME NEW j \in StepJob, RestartStep(j) PROVE StartsOnce'
  BY <1>13, StepFacts, RestartStepEffect DEF StartsOnce, Unstarted, InQueue, Pushed,
     Moves, Status, Sets, status
<1>14. ASSUME NEW force \in BOOLEAN, Cancel(force) PROVE StartsOnce'
  BY <1>14, StepFacts, CancelEffect, ZenonT(30) DEF StartsOnce, Unstarted, InQueue, Pushed,
     Moves, Status, status
<1>15. ASSUME NEW j \in Job, KillJob(j) PROVE StartsOnce'
  BY <1>15, StepFacts, KillJobEffect DEF StartsOnce, Unstarted, InQueue, Pushed,
     Moves, Status, Sets, status
<1>16. ASSUME CrashServer PROVE StartsOnce'
  BY <1>16, StepFacts, CrashServerEffect DEF StartsOnce, Unstarted, InQueue, Pushed,
     Moves, Status, status
<1>17. ASSUME PingExpires PROVE StartsOnce'
  BY <1>17, StepFacts, PingExpiresEffect DEF StartsOnce, Unstarted, InQueue, Pushed,
     Moves, Status, status
<1>18. ASSUME HandleZombieFlow PROVE StartsOnce'
  BY <1>18, StepFacts, HandleZombieFlowEffect DEF StartsOnce, Unstarted, InQueue,
     Pushed, Moves, Status, Sets, status
<1>19. ASSUME UNCHANGED vars PROVE StartsOnce'
  BY <1>19, StepFacts, StutterEffect DEF StartsOnce, Unstarted, InQueue, Pushed,
     Moves, Status, status
<1> QED
  BY <1>1, <1>2, <1>3, <1>4, <1>5, <1>6, <1>7, <1>8, <1>9, <1>10, <1>11, <1>12,
     <1>13, <1>14, <1>15, <1>16, <1>17, <1>18, <1>19 DEF Next, ThreadStep

(***************************************************************************)
(* The flow is in one place at a time: its own row, the row of one step,   *)
(* or the memory of one thread, whose copy of flow_status is then up to    *)
(* date. Completing a step hands the token from the row to the thread that *)
(* reports it, push_next_flow_job hands it to the next row, and a crash,   *)
(* or handle_zombie_flows, never makes a second one.                       *)
(***************************************************************************)
THEOREM TokenInvariant ==
    ASSUME ~SlowWorkers
    PROVE  Spec => []TokenInv
<1>1. Init => TokenInv
  <2> SUFFICES ASSUME Init PROVE TokenInv
    OBVIOUS
  <2>1. TypeOK
    <3>1. row \in [Job -> Row] /\ stepOf \in [StepJob -> 0 .. N]
      BY StepFacts DEF Init, Row
    <3>2. proc \in [Proc -> Thread]
      BY ThreadFields DEF Init
    <3>3. module \in [0 .. N -> Module]
      BY DEF Init, Module
    <3> QED
      BY <3>1, <3>2, <3>3, StepFacts DEF Init, TypeOK
  <2>2. \A p \in Proc : proc[p].pc = "idle"
    BY ThreadFields DEF Init
  <2>3. \A j \in StepJob : row[j] = "none"
    BY StepFacts DEF Init
  <2>4. OneToken /\ HasStep
    BY <2>2, <2>3 DEF OneToken, HasStep, Active, Executes, InQueue
  <2>5. StartsOnce /\ ReadIsFresh
    BY <2>2, <2>3, StepFacts DEF Init, StartsOnce, ReadIsFresh, Unstarted, Pushed, Moves
  <2> QED
    BY <2>1, <2>4, <2>5 DEF TokenInv
<1>2. TokenInv /\ [Next]_vars => TokenInv'
  BY TypeStep, OneTokenStep, HasStepStep, StartsOnceStep, ReadIsFreshStep DEF TokenInv
<1> QED
  BY <1>1, <1>2, PTL DEF Spec

(***************************************************************************)
(* No two steps of a flow are in the queue at once, for any number of      *)
(* modules, retries, workers, crashes and cancels: push_next_flow_job runs *)
(* only in the thread that has completed the step before.                  *)
(***************************************************************************)
THEOREM OneStepAtATime ==
    ASSUME ~SlowWorkers
    PROVE  Spec => []StepsInSequence
<1>1. TokenInv => StepsInSequence
  <2> SUFFICES ASSUME TokenInv PROVE StepsInSequence
    OBVIOUS
  <2> DEFINE S == {j \in StepJob : InQueue(j)}
  <2>1. CASE S = {}
    BY <2>1, FS_EmptySet DEF StepsInSequence
  <2>2. CASE S # {}
    <3>1. PICK j \in StepJob : S = {j}
      BY <2>2 DEF TokenInv, OneToken
    <3> QED
      BY <3>1, FS_Singleton DEF StepsInSequence
  <2> QED
    BY <2>1, <2>2
<1> QED
  BY <1>1, TokenInvariant, PTL

-----------------------------------------------------------------------------
(* A cancelled flow.                                                       *)

\* Only a push adds a job.
LEMMA PushedStep ==
    ASSUME ~SlowWorkers, TokenInv, [Next]_vars
    PROVE  \/ Pushed' = Pushed
           \/ \E p \in Proc : /\ PushNext(p) /\ proc[p].mod # "Success"
                              /\ Pushed' = Pushed \cup {Cardinality(Pushed) + 1}
<1> DEFINE G == \/ Pushed' = Pushed
                \/ \E p \in Proc : /\ PushNext(p) /\ proc[p].mod # "Success"
                                   /\ Pushed' = Pushed \cup {Cardinality(Pushed) + 1}
<1> USE DEF TokenInv
<1>1. ASSUME NEW p \in Proc, PushNext(p) PROVE G
  <2>1. CASE proc[p].mod = "Success"
    BY <1>1, <2>1, PushNextEffect DEF Pushed
  <2>2. CASE proc[p].mod # "Success"
    <3>1. Cardinality(Pushed) + 1 \in StepJob /\ Sets(Cardinality(Pushed) + 1, "queued")
      BY <1>1, <2>2, PushNextEffect
    <3>2. Pushed' = Pushed \cup {Cardinality(Pushed) + 1}
      BY <3>1, StepFacts DEF Sets, Pushed
    <3> QED
      BY <1>1, <2>2, <3>2
  <2> QED
    BY <2>1, <2>2
<1>2. ASSUME NEW p \in Proc, NEW j \in StepJob, PullStep(p, j) \/ FailStep(p, j) PROVE G
  BY <1>2, TakeStepEffect, StepFacts DEF Sets, Pushed
<1>3. ASSUME NEW p \in Proc, CompleteStep(p) PROVE G
  BY <1>3, CompleteStepEffect, StepFacts DEF Sets, Pushed, HasStep, Executes, Status
<1>4. ASSUME NEW p \in Proc, UpdateStatus(p) PROVE G
  BY <1>4 DEF UpdateStatus, Pushed
<1>5. ASSUME NEW p \in Proc, PullFlow(p) PROVE G
  BY <1>5, PullFlowEffect, StepFacts DEF Sets, Pushed
<1>6. ASSUME NEW p \in Proc, FinishFlow(p) PROVE G
  BY <1>6, FinishFlowEffect, StepFacts DEF Sets, Pushed
<1>7. ASSUME NEW j \in StepJob, RestartStep(j) PROVE G
  BY <1>7, RestartStepEffect, StepFacts DEF Sets, Pushed
<1>8. ASSUME NEW j \in Job, KillJob(j) PROVE G
  BY <1>8, KillJobEffect, StepFacts DEF Sets, Pushed, InQueue
<1>9. ASSUME HandleZombieFlow PROVE G
  BY <1>9, HandleZombieFlowEffect, StepFacts DEF Sets, Pushed
<1>10. ASSUME \/ \E p \in Proc : \/ ReadStatus(p) \/ UpdateFails(p) \/ PushFails(p) \/ Crash(p)
                                 \/ \E s \in Status : FinishStep(p, s)
              \/ \E force \in BOOLEAN : Cancel(force)
              \/ CrashServer \/ PingExpires \/ UNCHANGED vars
       PROVE  G
  BY <1>10 DEF ReadStatus, UpdateFails, PushFails, Crash, FinishStep, Cancel, CrashServer,
               PingExpires, vars, Pushed
<1> QED
  BY <1>1, <1>2, <1>3, <1>4, <1>5, <1>6, <1>7, <1>8, <1>9, <1>10 DEF Next, ThreadStep

\* A thread comes to push only for a flow in the queue that is not cancelled.
LEMMA MayPushStep ==
    ASSUME ~SlowWorkers, TokenInv, CancelInv, [Next]_vars
    PROVE  MayPush' => MayPush \/ (InQueue(Flow) /\ Flow \notin canceled)
<1> USE DEF TokenInv
<1>1. ASSUME NEW p \in Proc, PullFlow(p)
      PROVE  MayPush' => MayPush \/ (InQueue(Flow) /\ Flow \notin canceled)
  BY <1>1, StepFacts, PullFlowEffect DEF MayPush, Becomes, Sets, status, InQueue,
     CancelInv
<1>2. ASSUME NEW p \in Proc, NEW j \in StepJob, PullStep(p, j)
      PROVE  MayPush' => MayPush \/ (InQueue(Flow) /\ Flow \notin canceled)
  BY <1>2, StepFacts, TakeStepEffect DEF MayPush, Becomes, Sets, status
<1>3. ASSUME NEW p \in Proc, NEW s \in Status, FinishStep(p, s)
      PROVE  MayPush' => MayPush \/ (InQueue(Flow) /\ Flow \notin canceled)
  BY <1>3, StepFacts, FinishStepEffect DEF MayPush, Becomes, status
<1>4. ASSUME NEW p \in Proc, CompleteStep(p)
      PROVE  MayPush' => MayPush \/ (InQueue(Flow) /\ Flow \notin canceled)
  BY <1>4, StepFacts, CompleteStepEffect DEF MayPush, Becomes, Sets, status
<1>5. ASSUME NEW p \in Proc, ReadStatus(p)
      PROVE  MayPush' => MayPush \/ (InQueue(Flow) /\ Flow \notin canceled)
  BY <1>5, StepFacts, ReadStatusEffect DEF MayPush, Becomes, status
<1>6. ASSUME NEW p \in Proc, UpdateStatus(p)
      PROVE  MayPush' => MayPush \/ (InQueue(Flow) /\ Flow \notin canceled)
  <2>1. CASE InQueue(Flow)
    BY <1>6, <2>1, UpdateStatusEffect DEF Becomes, MayPush, ShouldContinue
  <2>2. CASE ~InQueue(Flow)
    BY <1>6, <2>2, UpdateDroppedEffect DEF Becomes, MayPush
  <2> QED
    BY <2>1, <2>2
<1>7. ASSUME NEW p \in Proc, PushNext(p)
      PROVE  MayPush' => MayPush \/ (InQueue(Flow) /\ Flow \notin canceled)
  BY <1>7, StepFacts, PushNextEffect DEF MayPush, Becomes, Sets, status
<1>8. ASSUME NEW p \in Proc, FinishFlow(p)
      PROVE  MayPush' => MayPush \/ (InQueue(Flow) /\ Flow \notin canceled)
  BY <1>8, StepFacts, FinishFlowEffect DEF MayPush, Becomes, Sets, status
<1>9. ASSUME NEW p \in Proc, UpdateFails(p)
      PROVE  MayPush' => MayPush \/ (InQueue(Flow) /\ Flow \notin canceled)
  BY <1>9, StepFacts, UpdateFailsEffect DEF MayPush, Becomes, status
<1>10. ASSUME NEW p \in Proc, PushFails(p)
       PROVE  MayPush' => MayPush \/ (InQueue(Flow) /\ Flow \notin canceled)
  BY <1>10, StepFacts, PushFailsEffect DEF MayPush, Becomes, status
<1>11. ASSUME NEW p \in Proc, Crash(p)
       PROVE  MayPush' => MayPush \/ (InQueue(Flow) /\ Flow \notin canceled)
  BY <1>11, StepFacts, CrashEffect DEF MayPush, Becomes, status
<1>12. ASSUME NEW p \in Proc, NEW j \in StepJob, FailStep(p, j)
       PROVE  MayPush' => MayPush \/ (InQueue(Flow) /\ Flow \notin canceled)
  BY <1>12, StepFacts, TakeStepEffect DEF MayPush, Becomes, Sets, status
<1>13. ASSUME NEW j \in StepJob, RestartStep(j)
       PROVE  MayPush' => MayPush \/ (InQueue(Flow) /\ Flow \notin canceled)
  BY <1>13, StepFacts, RestartStepEffect DEF MayPush, Sets, status
<1>14. ASSUME NEW force \in BOOLEAN, Cancel(force)
       PROVE  MayPush' => MayPush \/ (InQueue(Flow) /\ Flow \notin canceled)
  BY <1>14, StepFacts, CancelEffect DEF MayPush, status
<1>15. ASSUME NEW j \in Job, KillJob(j)
       PROVE  MayPush' => MayPush \/ (InQueue(Flow) /\ Flow \notin canceled)
  BY <1>15, StepFacts, KillJobEffect DEF MayPush, Sets, status
<1>16. ASSUME CrashServer
       PROVE  MayPush' => MayPush \/ (InQueue(Flow) /\ Flow \notin canceled)
  BY <1>16, StepFacts, CrashServerEffect DEF MayPush, status
<1>17. ASSUME PingExpires
       PROVE  MayPush' => MayPush \/ (InQueue(Flow) /\ Flow \notin canceled)
  BY <1>17, StepFacts, PingExpiresEffect DEF MayPush, status
<1>18. ASSUME HandleZombieFlow
       PROVE  MayPush' => MayPush \/ (InQueue(Flow) /\ Flow \notin canceled)
  BY <1>18, StepFacts, HandleZombieFlowEffect DEF MayPush, Sets, status
<1>19. ASSUME UNCHANGED vars
       PROVE  MayPush' => MayPush \/ (InQueue(Flow) /\ Flow \notin canceled)
  BY <1>19, StepFacts, StutterEffect DEF MayPush, status
<1> QED
  BY <1>1, <1>2, <1>3, <1>4, <1>5, <1>6, <1>7, <1>8, <1>9, <1>10, <1>11, <1>12,
     <1>13, <1>14, <1>15, <1>16, <1>17, <1>18, <1>19 DEF Next, ThreadStep

\* A cancelled flow stays cancelled until it is completed.
LEMMA CancelMarkStep ==
    ASSUME ~SlowWorkers, TokenInv, CancelInv, [Next]_vars
    PROVE  Flow \in canceled' => row'[Flow] = "running"
<1> USE DEF TokenInv
<1>1. ASSUME NEW p \in Proc, PullFlow(p)
      PROVE  Flow \in canceled' => row'[Flow] = "running"
  BY <1>1, StepFacts, PullFlowEffect DEF CancelInv, InQueue, Becomes, Sets, status
<1>2. ASSUME NEW p \in Proc, NEW j \in StepJob, PullStep(p, j)
      PROVE  Flow \in canceled' => row'[Flow] = "running"
  BY <1>2, StepFacts, TakeStepEffect DEF CancelInv, InQueue, Becomes, Sets, status
<1>3. ASSUME NEW p \in Proc, NEW s \in Status, FinishStep(p, s)
      PROVE  Flow \in canceled' => row'[Flow] = "running"
  BY <1>3, StepFacts, FinishStepEffect DEF CancelInv, InQueue, Becomes, status
<1>4. ASSUME NEW p \in Proc, CompleteStep(p)
      PROVE  Flow \in canceled' => row'[Flow] = "running"
  BY <1>4, StepFacts, CompleteStepEffect DEF CancelInv, InQueue, Becomes, Sets,
     status
<1>5. ASSUME NEW p \in Proc, ReadStatus(p)
      PROVE  Flow \in canceled' => row'[Flow] = "running"
  BY <1>5, StepFacts, ReadStatusEffect DEF CancelInv, InQueue, Becomes, status
<1>6. ASSUME NEW p \in Proc, UpdateStatus(p)
      PROVE  Flow \in canceled' => row'[Flow] = "running"
  <2>1. CASE InQueue(Flow)
    BY <1>6, <2>1, UpdateStatusEffect, StepFacts DEF CancelInv, InQueue, Becomes,
       status
  <2>2. CASE ~InQueue(Flow)
    BY <1>6, <2>2, UpdateDroppedEffect, StepFacts DEF CancelInv, InQueue, Becomes,
       status
  <2> QED
    BY <2>1, <2>2
<1>7. ASSUME NEW p \in Proc, PushNext(p)
      PROVE  Flow \in canceled' => row'[Flow] = "running"
  BY <1>7, StepFacts, PushNextEffect DEF CancelInv, InQueue, Becomes, Sets, status
<1>8. ASSUME NEW p \in Proc, FinishFlow(p)
      PROVE  Flow \in canceled' => row'[Flow] = "running"
  BY <1>8, StepFacts, FinishFlowEffect DEF CancelInv, InQueue, Becomes, Sets, status
<1>9. ASSUME NEW p \in Proc, UpdateFails(p)
      PROVE  Flow \in canceled' => row'[Flow] = "running"
  BY <1>9, StepFacts, UpdateFailsEffect DEF CancelInv, InQueue, Becomes, status
<1>10. ASSUME NEW p \in Proc, PushFails(p)
       PROVE  Flow \in canceled' => row'[Flow] = "running"
  BY <1>10, StepFacts, PushFailsEffect DEF CancelInv, InQueue, Becomes, status
<1>11. ASSUME NEW p \in Proc, Crash(p)
       PROVE  Flow \in canceled' => row'[Flow] = "running"
  BY <1>11, StepFacts, CrashEffect DEF CancelInv, InQueue, Becomes, status
<1>12. ASSUME NEW p \in Proc, NEW j \in StepJob, FailStep(p, j)
       PROVE  Flow \in canceled' => row'[Flow] = "running"
  BY <1>12, StepFacts, TakeStepEffect DEF CancelInv, InQueue, Becomes, Sets, status
<1>13. ASSUME NEW j \in StepJob, RestartStep(j)
       PROVE  Flow \in canceled' => row'[Flow] = "running"
  BY <1>13, StepFacts, RestartStepEffect DEF CancelInv, InQueue, Sets, status
<1>14. ASSUME NEW force \in BOOLEAN, Cancel(force)
       PROVE  Flow \in canceled' => row'[Flow] = "running"
  BY <1>14, StepFacts, CancelEffect DEF CancelInv, InQueue, status
<1>15. ASSUME NEW j \in Job, KillJob(j)
       PROVE  Flow \in canceled' => row'[Flow] = "running"
  BY <1>15, StepFacts, KillJobEffect DEF CancelInv, InQueue, Sets, status
<1>16. ASSUME CrashServer PROVE Flow \in canceled' => row'[Flow] = "running"
  BY <1>16, StepFacts, CrashServerEffect DEF CancelInv, InQueue, status
<1>17. ASSUME PingExpires PROVE Flow \in canceled' => row'[Flow] = "running"
  BY <1>17, StepFacts, PingExpiresEffect DEF CancelInv, InQueue, status
<1>18. ASSUME HandleZombieFlow PROVE Flow \in canceled' => row'[Flow] = "running"
  BY <1>18, StepFacts, HandleZombieFlowEffect DEF CancelInv, InQueue, Sets, status
<1>19. ASSUME UNCHANGED vars PROVE Flow \in canceled' => row'[Flow] = "running"
  BY <1>19, StepFacts, StutterEffect DEF CancelInv, InQueue, status
<1> QED
  BY <1>1, <1>2, <1>3, <1>4, <1>5, <1>6, <1>7, <1>8, <1>9, <1>10, <1>11, <1>12,
     <1>13, <1>14, <1>15, <1>16, <1>17, <1>18, <1>19 DEF Next, ThreadStep

\* ... and its jobs are counted once.
LEMMA CancelStaysStep ==
    ASSUME ~SlowWorkers, TokenInv, CancelInv, [Next]_vars
    PROVE  \/ jobsAtCancel' = MaxJobs
           \/ Flow \in canceled' \/ ~InQueue(Flow)'
<1> USE DEF TokenInv
<1>1. ASSUME NEW p \in Proc, PullFlow(p)
      PROVE  \/ jobsAtCancel' = MaxJobs
             \/ Flow \in canceled' \/ ~InQueue(Flow)'
  BY <1>1, StepFacts, PullFlowEffect DEF CancelInv, InQueue, Status, Becomes, Sets,
     status
<1>2. ASSUME NEW p \in Proc, NEW j \in StepJob, PullStep(p, j)
      PROVE  \/ jobsAtCancel' = MaxJobs
             \/ Flow \in canceled' \/ ~InQueue(Flow)'
  BY <1>2, StepFacts, TakeStepEffect DEF CancelInv, InQueue, Status, Becomes, Sets,
     status
<1>3. ASSUME NEW p \in Proc, NEW s \in Status, FinishStep(p, s)
      PROVE  \/ jobsAtCancel' = MaxJobs
             \/ Flow \in canceled' \/ ~InQueue(Flow)'
  BY <1>3, StepFacts, FinishStepEffect DEF CancelInv, InQueue, Status, Becomes,
     status
<1>4. ASSUME NEW p \in Proc, CompleteStep(p)
      PROVE  \/ jobsAtCancel' = MaxJobs
             \/ Flow \in canceled' \/ ~InQueue(Flow)'
  BY <1>4, StepFacts, CompleteStepEffect DEF CancelInv, InQueue, Status, Becomes,
     Sets, status
<1>5. ASSUME NEW p \in Proc, ReadStatus(p)
      PROVE  \/ jobsAtCancel' = MaxJobs
             \/ Flow \in canceled' \/ ~InQueue(Flow)'
  BY <1>5, StepFacts, ReadStatusEffect DEF CancelInv, InQueue, Status, Becomes,
     status
<1>6. ASSUME NEW p \in Proc, UpdateStatus(p)
      PROVE  \/ jobsAtCancel' = MaxJobs
             \/ Flow \in canceled' \/ ~InQueue(Flow)'
  <2>1. CASE InQueue(Flow)
    BY <1>6, <2>1, UpdateStatusEffect, StepFacts DEF CancelInv, InQueue, Status,
       Becomes, status
  <2>2. CASE ~InQueue(Flow)
    BY <1>6, <2>2, UpdateDroppedEffect, StepFacts DEF CancelInv, InQueue, Status,
       Becomes, status
  <2> QED
    BY <2>1, <2>2
<1>7. ASSUME NEW p \in Proc, PushNext(p)
      PROVE  \/ jobsAtCancel' = MaxJobs
             \/ Flow \in canceled' \/ ~InQueue(Flow)'
  BY <1>7, StepFacts, PushNextEffect DEF CancelInv, InQueue, Status, Becomes, Sets,
     status
<1>8. ASSUME NEW p \in Proc, FinishFlow(p)
      PROVE  \/ jobsAtCancel' = MaxJobs
             \/ Flow \in canceled' \/ ~InQueue(Flow)'
  BY <1>8, StepFacts, FinishFlowEffect DEF CancelInv, InQueue, Status, Becomes,
     Sets, status
<1>9. ASSUME NEW p \in Proc, UpdateFails(p)
      PROVE  \/ jobsAtCancel' = MaxJobs
             \/ Flow \in canceled' \/ ~InQueue(Flow)'
  BY <1>9, StepFacts, UpdateFailsEffect DEF CancelInv, InQueue, Status, Becomes,
     status
<1>10. ASSUME NEW p \in Proc, PushFails(p)
       PROVE  \/ jobsAtCancel' = MaxJobs
              \/ Flow \in canceled' \/ ~InQueue(Flow)'
  BY <1>10, StepFacts, PushFailsEffect DEF CancelInv, InQueue, Status, Becomes,
     status
<1>11. ASSUME NEW p \in Proc, Crash(p)
       PROVE  \/ jobsAtCancel' = MaxJobs
              \/ Flow \in canceled' \/ ~InQueue(Flow)'
  BY <1>11, StepFacts, CrashEffect DEF CancelInv, InQueue, Status, Becomes, status
<1>12. ASSUME NEW p \in Proc, NEW j \in StepJob, FailStep(p, j)
       PROVE  \/ jobsAtCancel' = MaxJobs
              \/ Flow \in canceled' \/ ~InQueue(Flow)'
  BY <1>12, StepFacts, TakeStepEffect DEF CancelInv, InQueue, Status, Becomes, Sets,
     status
<1>13. ASSUME NEW j \in StepJob, RestartStep(j)
       PROVE  \/ jobsAtCancel' = MaxJobs
              \/ Flow \in canceled' \/ ~InQueue(Flow)'
  BY <1>13, StepFacts, RestartStepEffect DEF CancelInv, InQueue, Status, Sets,
     status
<1>14. ASSUME NEW force \in BOOLEAN, Cancel(force)
       PROVE  \/ jobsAtCancel' = MaxJobs
              \/ Flow \in canceled' \/ ~InQueue(Flow)'
  BY <1>14, StepFacts, CancelEffect DEF CancelInv, InQueue, Status, status, TypeOK
<1>15. ASSUME NEW j \in Job, KillJob(j)
       PROVE  \/ jobsAtCancel' = MaxJobs
              \/ Flow \in canceled' \/ ~InQueue(Flow)'
  BY <1>15, StepFacts, KillJobEffect DEF CancelInv, InQueue, Status, Sets, status
<1>16. ASSUME CrashServer
       PROVE  \/ jobsAtCancel' = MaxJobs
              \/ Flow \in canceled' \/ ~InQueue(Flow)'
  BY <1>16, StepFacts, CrashServerEffect DEF CancelInv, InQueue, Status, status
<1>17. ASSUME PingExpires
       PROVE  \/ jobsAtCancel' = MaxJobs
              \/ Flow \in canceled' \/ ~InQueue(Flow)'
  BY <1>17, StepFacts, PingExpiresEffect DEF CancelInv, InQueue, Status, status
<1>18. ASSUME HandleZombieFlow
       PROVE  \/ jobsAtCancel' = MaxJobs
              \/ Flow \in canceled' \/ ~InQueue(Flow)'
  BY <1>18, StepFacts, HandleZombieFlowEffect DEF CancelInv, InQueue, Status, Sets,
     status
<1>19. ASSUME UNCHANGED vars
       PROVE  \/ jobsAtCancel' = MaxJobs
              \/ Flow \in canceled' \/ ~InQueue(Flow)'
  BY <1>19, StepFacts, StutterEffect DEF CancelInv, InQueue, Status, status
<1> QED
  BY <1>1, <1>2, <1>3, <1>4, <1>5, <1>6, <1>7, <1>8, <1>9, <1>10, <1>11, <1>12,
     <1>13, <1>14, <1>15, <1>16, <1>17, <1>18, <1>19 DEF Next, ThreadStep

\* Once the flow is marked, only a thread already past should_continue_flow pushes.
LEMMA CancelCountStep ==
    ASSUME ~SlowWorkers, TokenInv, TokenInv', CancelInv, [Next]_vars
    PROVE  jobsAtCancel' # MaxJobs =>
              Cardinality(Pushed') <= jobsAtCancel' + (IF MayPush' THEN 0 ELSE 1)
<1> SUFFICES ASSUME jobsAtCancel' # MaxJobs
             PROVE  Cardinality(Pushed') <= jobsAtCancel' + (IF MayPush' THEN 0 ELSE 1)
  OBVIOUS
<1>1. /\ Pushed \in SUBSET StepJob /\ Pushed' \in SUBSET StepJob
      /\ jobsAtCancel \in Nat /\ jobsAtCancel' \in Nat
  BY StepFacts DEF TokenInv, TypeOK, Pushed
<1>2. Cardinality(Pushed) \in Nat /\ Cardinality(Pushed') \in Nat
  BY <1>1, StepSets
<1>3. CASE \E force \in BOOLEAN : Cancel(force)
  <2>1. PICK force \in BOOLEAN : Cancel(force)
    BY <1>3
  <2>2. Pushed' = Pushed /\ jobsAtCancel' \in {jobsAtCancel, Cardinality(Pushed)}
    BY <2>1, CancelEffect DEF TokenInv, Pushed
  <2>3. jobsAtCancel = MaxJobs
    BY <2>1, CancelEffect DEF TokenInv, CancelInv
  <2> QED
    BY <1>1, <1>2, <2>2, <2>3
<1>4. CASE ~\E force \in BOOLEAN : Cancel(force)
  <2>1. jobsAtCancel' = jobsAtCancel
    BY <1>4 DEF Next, ThreadStep, PullFlow, PullStep, FinishStep, CompleteStep, ReadStatus,
       UpdateStatus, PushNext, FinishFlow, UpdateFails, PushFails, Crash, FailStep,
       RestartStep, KillJob, CrashServer, PingExpires, HandleZombieFlow, vars
  <2>2. /\ Flow \in canceled \/ ~InQueue(Flow)
        /\ Cardinality(Pushed) <= jobsAtCancel + (IF MayPush THEN 0 ELSE 1)
    BY <2>1 DEF CancelInv
  <2>3. MayPush' => MayPush
    BY <2>2, MayPushStep
  <2>4. CASE Pushed' = Pushed
    BY <1>1, <1>2, <2>1, <2>2, <2>3, <2>4
  <2>5. ASSUME NEW p \in Proc, PushNext(p), proc[p].mod # "Success",
               Pushed' = Pushed \cup {Cardinality(Pushed) + 1}
        PROVE  Cardinality(Pushed') <= jobsAtCancel' + (IF MayPush' THEN 0 ELSE 1)
    <3>1. MayPush
      BY <2>5, PushNextEffect DEF TokenInv, MayPush
    <3>2. ~MayPush'
      BY <2>5, PushNextEffect DEF TokenInv, OneToken, Active, MayPush, Becomes
    <3>3. Cardinality(Pushed') <= Cardinality(Pushed) + 1
      <4>1. CASE Cardinality(Pushed) + 1 \in Pushed
        BY <1>2, <2>5, <4>1
      <4>2. CASE Cardinality(Pushed) + 1 \notin Pushed
        BY <1>1, <1>2, <2>5, <4>2, StepSets
      <4> QED
        BY <4>1, <4>2
    <3> QED
      BY <1>1, <1>2, <2>1, <2>2, <3>1, <3>2, <3>3
  <2> QED
    BY <2>4, <2>5, PushedStep
<1> QED
  BY <1>3, <1>4

(***************************************************************************)
(* The mark of cancel_job stays until the flow is completed, and counts at *)
(* most one push: that of a thread that was past should_continue_flow.     *)
(***************************************************************************)
THEOREM CancelInvariant ==
    ASSUME ~SlowWorkers
    PROVE  Spec => []CancelInv
<1>1. Init => CancelInv
  BY DEF Init, CancelInv
<1>2. TokenInv /\ TokenInv' /\ CancelInv /\ [Next]_vars => CancelInv'
  BY CancelMarkStep, CancelStaysStep, CancelCountStep DEF CancelInv
<1>3. Spec => []TokenInv
  BY TokenInvariant
<1> QED
  BY <1>1, <1>2, <1>3, PTL DEF Spec

(***************************************************************************)
(* After cancel_job has marked a running flow, at most the one step that a *)
(* worker was about to push is still started.                              *)
(***************************************************************************)
THEOREM CancelledFlowStops ==
    ASSUME ~SlowWorkers
    PROVE  Spec => []CancelStopsFlow
<1>1. TokenInv /\ CancelInv => CancelStopsFlow
  <2> SUFFICES ASSUME TokenInv, CancelInv PROVE CancelStopsFlow
    OBVIOUS
  <2>1. Pushed \in SUBSET StepJob /\ jobsAtCancel \in Nat
    BY StepFacts DEF TokenInv, TypeOK, Pushed
  <2>2. Cardinality(Pushed) \in Nat /\ Cardinality(Pushed) <= MaxJobs
    BY <2>1, StepSets
  <2> QED
    BY <2>1, <2>2, StepFacts DEF CancelInv, CancelStopsFlow
<1> QED
  BY <1>1, TokenInvariant, CancelInvariant, PTL

-----------------------------------------------------------------------------
(* The order of the steps.                                                 *)

\* The next job to be pushed has no row.
LEMMA NextJobIsNew ==
    ASSUME TokenInv, OrderInv
    PROVE  /\ Pushed \in SUBSET StepJob /\ Cardinality(Pushed) \in Nat
           /\ Cardinality(Pushed) + 1 \notin Pushed
           /\ Cardinality(Pushed \cup {Cardinality(Pushed) + 1}) = Cardinality(Pushed) + 1
<1>1. Pushed \in SUBSET StepJob
  BY DEF Pushed
<1>2. Cardinality(Pushed) \in Nat
  BY <1>1, StepSets
<1>3. Cardinality(Pushed) + 1 \notin Pushed
  BY <1>2 DEF OrderInv, JobsInARow
<1> QED
  BY <1>1, <1>2, <1>3, StepSets

\* A completed job is never written again.
LEMMA DoneStaysStep ==
    ASSUME ~SlowWorkers, TokenInv, CancelInv, OrderInv, [Next]_vars
    PROVE  \A x \in Pushed : (row[x] \in Status => row'[x] = row[x]) /\ stepOf'[x] = stepOf[x]
<1> USE DEF TokenInv, OrderInv
<1>1. ASSUME NEW p \in Proc, PullFlow(p)
      PROVE  \A x \in Pushed : (row[x] \in Status => row'[x] = row[x]) /\ stepOf'[x] = stepOf[x]
  BY <1>1, StepFacts, PullFlowEffect DEF Pushed, InQueue, Status, Becomes, Sets,
     status
<1>2. ASSUME NEW p \in Proc, NEW j \in StepJob, PullStep(p, j)
      PROVE  \A x \in Pushed : (row[x] \in Status => row'[x] = row[x]) /\ stepOf'[x] = stepOf[x]
  BY <1>2, StepFacts, TakeStepEffect DEF Pushed, InQueue, Status, Becomes, Sets,
     status
<1>3. ASSUME NEW p \in Proc, NEW s \in Status, FinishStep(p, s)
      PROVE  \A x \in Pushed : (row[x] \in Status => row'[x] = row[x]) /\ stepOf'[x] = stepOf[x]
  BY <1>3, StepFacts, FinishStepEffect DEF Pushed, InQueue, Status, Becomes, status
<1>4. ASSUME NEW p \in Proc, CompleteStep(p)
      PROVE  \A x \in Pushed : (row[x] \in Status => row'[x] = row[x]) /\ stepOf'[x] = stepOf[x]
  BY <1>4, StepFacts, CompleteStepEffect DEF Pushed, InQueue, Status, Becomes, Sets,
     status
<1>5. ASSUME NEW p \in Proc, ReadStatus(p)
      PROVE  \A x \in Pushed : (row[x] \in Status => row'[x] = row[x]) /\ stepOf'[x] = stepOf[x]
  BY <1>5, StepFacts, ReadStatusEffect DEF Pushed, InQueue, Status, Becomes, status
<1>6. ASSUME NEW p \in Proc, UpdateStatus(p)
      PROVE  \A x \in Pushed : (row[x] \in Status => row'[x] = row[x]) /\ stepOf'[x] = stepOf[x]
  <2>1. CASE InQueue(Flow)
    BY <1>6, <2>1, UpdateStatusEffect, StepFacts DEF Pushed, InQueue, Status,
       Becomes, status
  <2>2. CASE ~InQueue(Flow)
    BY <1>6, <2>2, UpdateDroppedEffect, StepFacts DEF Pushed, InQueue, Status,
       Becomes, status
  <2> QED
    BY <2>1, <2>2
<1>7. ASSUME NEW p \in Proc, PushNext(p)
      PROVE  \A x \in Pushed : (row[x] \in Status => row'[x] = row[x]) /\ stepOf'[x] = stepOf[x]
  <2>1. CASE proc[p].mod = "Success"
    BY <1>7, <2>1, PushNextEffect DEF status
  <2>2. CASE proc[p].mod # "Success"
    BY <1>7, <2>2, PushNextEffect, NextJobIsNew, StepFacts DEF Sets, TypeOK, Pushed
  <2> QED
    BY <2>1, <2>2
<1>8. ASSUME NEW p \in Proc, FinishFlow(p)
      PROVE  \A x \in Pushed : (row[x] \in Status => row'[x] = row[x]) /\ stepOf'[x] = stepOf[x]
  BY <1>8, StepFacts, FinishFlowEffect DEF Pushed, InQueue, Status, Becomes, Sets,
     status
<1>9. ASSUME NEW p \in Proc, UpdateFails(p)
      PROVE  \A x \in Pushed : (row[x] \in Status => row'[x] = row[x]) /\ stepOf'[x] = stepOf[x]
  BY <1>9, StepFacts, UpdateFailsEffect DEF Pushed, InQueue, Status, Becomes, status
<1>10. ASSUME NEW p \in Proc, PushFails(p)
       PROVE  \A x \in Pushed : (row[x] \in Status => row'[x] = row[x]) /\ stepOf'[x] = stepOf[x]
  BY <1>10, StepFacts, PushFailsEffect DEF Pushed, InQueue, Status, Becomes, status
<1>11. ASSUME NEW p \in Proc, Crash(p)
       PROVE  \A x \in Pushed : (row[x] \in Status => row'[x] = row[x]) /\ stepOf'[x] = stepOf[x]
  BY <1>11, StepFacts, CrashEffect DEF Pushed, InQueue, Status, Becomes, status
<1>12. ASSUME NEW p \in Proc, NEW j \in StepJob, FailStep(p, j)
       PROVE  \A x \in Pushed : (row[x] \in Status => row'[x] = row[x]) /\ stepOf'[x] = stepOf[x]
  BY <1>12, StepFacts, TakeStepEffect DEF Pushed, InQueue, Status, Becomes, Sets,
     status
<1>13. ASSUME NEW j \in StepJob, RestartStep(j)
       PROVE  \A x \in Pushed : (row[x] \in Status => row'[x] = row[x]) /\ stepOf'[x] = stepOf[x]
  BY <1>13, StepFacts, RestartStepEffect DEF Pushed, InQueue, Status, Sets, status
<1>14. ASSUME NEW force \in BOOLEAN, Cancel(force)
       PROVE  \A x \in Pushed : (row[x] \in Status => row'[x] = row[x]) /\ stepOf'[x] = stepOf[x]
  BY <1>14, StepFacts, CancelEffect DEF Pushed, InQueue, Status, status
<1>15. ASSUME NEW j \in Job, KillJob(j)
       PROVE  \A x \in Pushed : (row[x] \in Status => row'[x] = row[x]) /\ stepOf'[x] = stepOf[x]
  BY <1>15, StepFacts, KillJobEffect DEF Pushed, InQueue, Status, Sets, status
<1>16. ASSUME CrashServer
       PROVE  \A x \in Pushed : (row[x] \in Status => row'[x] = row[x]) /\ stepOf'[x] = stepOf[x]
  BY <1>16, StepFacts, CrashServerEffect DEF Pushed, InQueue, Status, status
<1>17. ASSUME PingExpires
       PROVE  \A x \in Pushed : (row[x] \in Status => row'[x] = row[x]) /\ stepOf'[x] = stepOf[x]
  BY <1>17, StepFacts, PingExpiresEffect DEF Pushed, InQueue, Status, status
<1>18. ASSUME HandleZombieFlow
       PROVE  \A x \in Pushed : (row[x] \in Status => row'[x] = row[x]) /\ stepOf'[x] = stepOf[x]
  BY <1>18, StepFacts, HandleZombieFlowEffect DEF Pushed, InQueue, Status, Sets,
     status
<1>19. ASSUME UNCHANGED vars
       PROVE  \A x \in Pushed : (row[x] \in Status => row'[x] = row[x]) /\ stepOf'[x] = stepOf[x]
  BY <1>19, StepFacts, StutterEffect DEF Pushed, InQueue, Status, status
<1> QED
  BY <1>1, <1>2, <1>3, <1>4, <1>5, <1>6, <1>7, <1>8, <1>9, <1>10, <1>11, <1>12,
     <1>13, <1>14, <1>15, <1>16, <1>17, <1>18, <1>19 DEF Next, ThreadStep

\* A flow that has left the queue does not come back.
LEMMA FlowStaysDoneStep ==
    ASSUME ~SlowWorkers, TokenInv, CancelInv, OrderInv, [Next]_vars
    PROVE  InQueue(Flow)' => InQueue(Flow)
<1> USE DEF TokenInv, OrderInv
<1>1. ASSUME NEW p \in Proc, PullFlow(p) PROVE InQueue(Flow)' => InQueue(Flow)
  BY <1>1, StepFacts, PullFlowEffect DEF InQueue, Status, Becomes, Sets, status
<1>2. ASSUME NEW p \in Proc, NEW j \in StepJob, PullStep(p, j)
      PROVE  InQueue(Flow)' => InQueue(Flow)
  BY <1>2, StepFacts, TakeStepEffect DEF InQueue, Status, Becomes, Sets, status
<1>3. ASSUME NEW p \in Proc, NEW s \in Status, FinishStep(p, s)
      PROVE  InQueue(Flow)' => InQueue(Flow)
  BY <1>3, StepFacts, FinishStepEffect DEF InQueue, Status, Becomes, status
<1>4. ASSUME NEW p \in Proc, CompleteStep(p) PROVE InQueue(Flow)' => InQueue(Flow)
  BY <1>4, StepFacts, CompleteStepEffect DEF InQueue, Status, Becomes, Sets, status
<1>5. ASSUME NEW p \in Proc, ReadStatus(p) PROVE InQueue(Flow)' => InQueue(Flow)
  BY <1>5, StepFacts, ReadStatusEffect DEF InQueue, Status, Becomes, status
<1>6. ASSUME NEW p \in Proc, UpdateStatus(p) PROVE InQueue(Flow)' => InQueue(Flow)
  <2>1. CASE InQueue(Flow)
    BY <1>6, <2>1, UpdateStatusEffect, StepFacts DEF InQueue, Status, Becomes,
       status
  <2>2. CASE ~InQueue(Flow)
    BY <1>6, <2>2, UpdateDroppedEffect, StepFacts DEF InQueue, Status, Becomes,
       status
  <2> QED
    BY <2>1, <2>2
<1>7. ASSUME NEW p \in Proc, PushNext(p) PROVE InQueue(Flow)' => InQueue(Flow)
  BY <1>7, StepFacts, PushNextEffect DEF InQueue, Status, Becomes, Sets, status
<1>8. ASSUME NEW p \in Proc, FinishFlow(p) PROVE InQueue(Flow)' => InQueue(Flow)
  BY <1>8, StepFacts, FinishFlowEffect DEF InQueue, Status, Becomes, Sets, status
<1>9. ASSUME NEW p \in Proc, UpdateFails(p) PROVE InQueue(Flow)' => InQueue(Flow)
  BY <1>9, StepFacts, UpdateFailsEffect DEF InQueue, Status, Becomes, status
<1>10. ASSUME NEW p \in Proc, PushFails(p) PROVE InQueue(Flow)' => InQueue(Flow)
  BY <1>10, StepFacts, PushFailsEffect DEF InQueue, Status, Becomes, status
<1>11. ASSUME NEW p \in Proc, Crash(p) PROVE InQueue(Flow)' => InQueue(Flow)
  BY <1>11, StepFacts, CrashEffect DEF InQueue, Status, Becomes, status
<1>12. ASSUME NEW p \in Proc, NEW j \in StepJob, FailStep(p, j)
       PROVE  InQueue(Flow)' => InQueue(Flow)
  BY <1>12, StepFacts, TakeStepEffect DEF InQueue, Status, Becomes, Sets, status
<1>13. ASSUME NEW j \in StepJob, RestartStep(j) PROVE InQueue(Flow)' => InQueue(Flow)
  BY <1>13, StepFacts, RestartStepEffect DEF InQueue, Status, Sets, status
<1>14. ASSUME NEW force \in BOOLEAN, Cancel(force) PROVE InQueue(Flow)' => InQueue(Flow)
  BY <1>14, StepFacts, CancelEffect DEF InQueue, Status, status
<1>15. ASSUME NEW j \in Job, KillJob(j) PROVE InQueue(Flow)' => InQueue(Flow)
  BY <1>15, StepFacts, KillJobEffect DEF InQueue, Status, Sets, status
<1>16. ASSUME CrashServer PROVE InQueue(Flow)' => InQueue(Flow)
  BY <1>16, StepFacts, CrashServerEffect DEF InQueue, Status, status
<1>17. ASSUME PingExpires PROVE InQueue(Flow)' => InQueue(Flow)
  BY <1>17, StepFacts, PingExpiresEffect DEF InQueue, Status, status
<1>18. ASSUME HandleZombieFlow PROVE InQueue(Flow)' => InQueue(Flow)
  BY <1>18, StepFacts, HandleZombieFlowEffect DEF InQueue, Status, Sets, status
<1>19. ASSUME UNCHANGED vars PROVE InQueue(Flow)' => InQueue(Flow)
  BY <1>19, StepFacts, StutterEffect DEF InQueue, Status, status
<1> QED
  BY <1>1, <1>2, <1>3, <1>4, <1>5, <1>6, <1>7, <1>8, <1>9, <1>10, <1>11, <1>12,
     <1>13, <1>14, <1>15, <1>16, <1>17, <1>18, <1>19 DEF Next, ThreadStep

\* What has succeeded, and been earned by it, stays; a flow that is over stays over.
LEMMA GoodStays ==
    ASSUME ~SlowWorkers, TokenInv, CancelInv, OrderInv, [Next]_vars
    PROVE  /\ \A i \in 0 .. N : (Succeeded(i) => Succeeded(i)') /\ (Passed(i) => Passed(i)')
           /\ Earned => Earned'
           /\ Live' => Live
           /\ Pushed \subseteq Pushed'
<1>1. Pushed \subseteq Pushed'
  BY PushedStep
<1>2. \A i \in 0 .. N : Succeeded(i) => Succeeded(i)'
  <2> SUFFICES ASSUME NEW i \in 0 .. N, Succeeded(i) PROVE Succeeded(i)'
    OBVIOUS
  <2>1. PICK j \in Pushed : stepOf[j] = i /\ row[j] = "success"
    BY DEF Succeeded
  <2>2. j \in Pushed' /\ stepOf'[j] = i /\ row'[j] = "success"
    BY <1>1, <2>1, DoneStaysStep DEF Status
  <2> QED
    BY <2>2 DEF Succeeded
<1>3. \A i \in 0 .. N : Passed(i) => Passed(i)'
  BY <1>2 DEF Passed
<1>4. Earned => Earned'
  <2>1. \A i \in 0 .. N - 1 : i \in 0 .. N
    BY StepFacts
  <2> QED
    BY <1>2, <2>1, StepFacts DEF Earned
<1>5. Live' => Live
  BY MayPushStep, FlowStaysDoneStep DEF Live
<1> QED
  BY <1>1, <1>2, <1>3, <1>4, <1>5

\* The steps that change flow_status or push a job.
Updates == \E p \in Proc : UpdateStatus(p) /\ InQueue(Flow)
Pushes == \E p \in Proc : PushNext(p) /\ proc[p].mod # "Success"

\* All the others leave flow_status alone.
LEMMA QuietStep ==
    ASSUME ~SlowWorkers, TokenInv, CancelInv, OrderInv, [Next]_vars
    PROVE  UNCHANGED status \/ Updates \/ Pushes
<1> USE DEF TokenInv, OrderInv
<1>1. ASSUME NEW p \in Proc, PullFlow(p) PROVE UNCHANGED status \/ Updates \/ Pushes
  BY <1>1, StepFacts, PullFlowEffect DEF Becomes, Sets, status
<1>2. ASSUME NEW p \in Proc, NEW j \in StepJob, PullStep(p, j)
      PROVE  UNCHANGED status \/ Updates \/ Pushes
  BY <1>2, StepFacts, TakeStepEffect DEF Becomes, Sets, status
<1>3. ASSUME NEW p \in Proc, NEW s \in Status, FinishStep(p, s)
      PROVE  UNCHANGED status \/ Updates \/ Pushes
  BY <1>3, StepFacts, FinishStepEffect DEF Becomes, status
<1>4. ASSUME NEW p \in Proc, CompleteStep(p) PROVE UNCHANGED status \/ Updates \/ Pushes
  BY <1>4, StepFacts, CompleteStepEffect DEF Becomes, Sets, status
<1>5. ASSUME NEW p \in Proc, ReadStatus(p) PROVE UNCHANGED status \/ Updates \/ Pushes
  BY <1>5, StepFacts, ReadStatusEffect DEF Becomes, status
<1>6. ASSUME NEW p \in Proc, UpdateStatus(p) PROVE UNCHANGED status \/ Updates \/ Pushes
  BY <1>6, UpdateDroppedEffect DEF Updates
<1>7. ASSUME NEW p \in Proc, PushNext(p) PROVE UNCHANGED status \/ Updates \/ Pushes
  BY <1>7, PushNextEffect DEF Pushes
<1>8. ASSUME NEW p \in Proc, FinishFlow(p) PROVE UNCHANGED status \/ Updates \/ Pushes
  BY <1>8, StepFacts, FinishFlowEffect DEF Becomes, Sets, status
<1>9. ASSUME NEW p \in Proc, UpdateFails(p) PROVE UNCHANGED status \/ Updates \/ Pushes
  BY <1>9, StepFacts, UpdateFailsEffect DEF Becomes, status
<1>10. ASSUME NEW p \in Proc, PushFails(p) PROVE UNCHANGED status \/ Updates \/ Pushes
  BY <1>10, StepFacts, PushFailsEffect DEF Becomes, status
<1>11. ASSUME NEW p \in Proc, Crash(p) PROVE UNCHANGED status \/ Updates \/ Pushes
  BY <1>11, StepFacts, CrashEffect DEF Becomes, status
<1>12. ASSUME NEW p \in Proc, NEW j \in StepJob, FailStep(p, j)
       PROVE  UNCHANGED status \/ Updates \/ Pushes
  BY <1>12, StepFacts, TakeStepEffect DEF Becomes, Sets, status
<1>13. ASSUME NEW j \in StepJob, RestartStep(j)
       PROVE  UNCHANGED status \/ Updates \/ Pushes
  BY <1>13, StepFacts, RestartStepEffect DEF Sets, status
<1>14. ASSUME NEW force \in BOOLEAN, Cancel(force)
       PROVE  UNCHANGED status \/ Updates \/ Pushes
  BY <1>14, StepFacts, CancelEffect DEF status
<1>15. ASSUME NEW j \in Job, KillJob(j) PROVE UNCHANGED status \/ Updates \/ Pushes
  BY <1>15, StepFacts, KillJobEffect DEF Sets, status
<1>16. ASSUME CrashServer PROVE UNCHANGED status \/ Updates \/ Pushes
  BY <1>16, StepFacts, CrashServerEffect DEF status
<1>17. ASSUME PingExpires PROVE UNCHANGED status \/ Updates \/ Pushes
  BY <1>17, StepFacts, PingExpiresEffect DEF status
<1>18. ASSUME HandleZombieFlow PROVE UNCHANGED status \/ Updates \/ Pushes
  BY <1>18, StepFacts, HandleZombieFlowEffect DEF Sets, status
<1>19. ASSUME UNCHANGED vars PROVE UNCHANGED status \/ Updates \/ Pushes
  BY <1>19, StepFacts, StutterEffect DEF status
<1> QED
  BY <1>1, <1>2, <1>3, <1>4, <1>5, <1>6, <1>7, <1>8, <1>9, <1>10, <1>11, <1>12,
     <1>13, <1>14, <1>15, <1>16, <1>17, <1>18, <1>19 DEF Next, ThreadStep


\* The jobs stay in a row.
LEMMA JobsInARowStep ==
    ASSUME ~SlowWorkers, TokenInv, CancelInv, OrderInv, [Next]_vars
    PROVE  JobsInARow'
<1>1. CASE Pushed' = Pushed
  BY <1>1 DEF OrderInv, JobsInARow
<1>2. CASE Pushed' = Pushed \cup {Cardinality(Pushed) + 1}
  <2>1. /\ Cardinality(Pushed') = Cardinality(Pushed) + 1
        /\ Cardinality(Pushed) \in Nat /\ \A j \in Pushed : j \in Nat
    BY <1>2, NextJobIsNew, StepFacts
  <2> QED
    BY <1>2, <2>1 DEF OrderInv, JobsInARow
<1> QED
  BY <1>1, <1>2, PushedStep

\* What flow_status and the jobs say of the order, when nothing is reported or pushed.
LEMMA QuietOrder ==
    ASSUME ~SlowWorkers, TokenInv, CancelInv, OrderInv, [Next]_vars,
           UNCHANGED status, Pushed' = Pushed
    PROVE  /\ StatusInOrder'
           /\ \A j \in Pushed' :
                stepOf'[j] < N => \A i \in 0 .. N - 1 : i < stepOf'[j] => Passed(i)'
           /\ (Tries(N) # {})' => \E i \in 0 .. N - 1 : module'[i] = "Failure"
           /\ \A i \in 0 .. N : Cardinality(Tries(i))' <= 1 + Attempts
<1>1. /\ stepOf' = stepOf /\ step' = step /\ module' = module /\ fail_count' = fail_count
  BY DEF status
<1>2. \A i \in 0 .. N : Tries(i)' = Tries(i)
  BY <1>1 DEF Tries
<1>3. Live' => Live
  BY GoodStays
<1>4. \A i \in 0 .. N - 1 : Passed(i) => Passed(i)'
  BY GoodStays, StepFacts
<1>5. \A i \in 0 .. N - 1 : i \in 0 .. N
  BY StepFacts
<1>6. StatusInOrder'
  BY <1>1, <1>2, <1>3, <1>4, <1>5, StepFacts DEF OrderInv, StatusInOrder
<1> QED
  BY <1>1, <1>2, <1>4, <1>5, <1>6, StepFacts DEF OrderInv, JobsInOrder

\* A report that is not a success leaves step on the module, unless the flow goes on
\* without it; a report of a success is that of the step's job.
LEMMA ReportFacts ==
    ASSUME TokenInv, OrderInv, NEW p \in Proc, proc[p].pc = "update", InQueue(Flow)
    PROVE  /\ step \in 0 .. N /\ proc[p].step = step /\ Idx(step) = step
           /\ proc[p].fails = fail_count
           /\ proc[p].status = "success" => Succeeded(step)
           /\ step = N => Tries(N) # {}
<1>1. /\ proc[p].step = step /\ proc[p].fails = fail_count
      /\ proc[p].job \in Job /\ step \in Nat
  BY ThreadFields DEF TokenInv, ReadIsFresh, TypeOK
<1>2. CASE proc[p].job = Flow
  <2>1. step = 0 /\ proc[p].status # "success"
    BY <1>2 DEF TokenInv, StartsOnce, OrderInv, ReportsOnStep
  <2> QED
    BY <1>1, <2>1, StepFacts
<1>3. CASE proc[p].job # Flow
  <2>1. /\ proc[p].job \in Pushed /\ stepOf[proc[p].job] = step
        /\ proc[p].status = "success" => row[proc[p].job] = "success"
    BY <1>3 DEF OrderInv, ReportsOnStep
  <2>2. step \in 0 .. N
    BY <2>1 DEF TokenInv, TypeOK, Pushed
  <2>3. proc[p].status = "success" => Succeeded(step)
    BY <2>1 DEF Succeeded
  <2>4. step = N => Tries(N) # {}
    BY <2>1 DEF Tries
  <2> QED
    BY <1>1, <2>2, <2>3, <2>4, StepFacts
<1> QED
  BY <1>2, <1>3

\* The transaction that reports on a step.
LEMMA UpdateOrder ==
    ASSUME ~SlowWorkers, TokenInv, CancelInv, OrderInv, [Next]_vars,
           NEW p \in Proc, UpdateStatus(p), InQueue(Flow)
    PROVE  /\ StatusInOrder'
           /\ \A j \in Pushed' :
                stepOf'[j] < N => \A i \in 0 .. N - 1 : i < stepOf'[j] => Passed(i)'
           /\ (Tries(N) # {})' => \E i \in 0 .. N - 1 : module'[i] = "Failure"
           /\ \A i \in 0 .. N : Cardinality(Tries(i))' <= 1 + Attempts
           /\ proc'[p].pc = "push" => Due'
           /\ proc'[p].pc = "finish" /\ proc'[p].status = "success" => Earned'
<1> DEFINE t == proc[p]
<1>1. t.pc = "update" /\ stepOf' = stepOf /\ row' = row
  BY UpdateStatusEffect DEF TokenInv
<1>2. /\ step \in 0 .. N /\ t.step = step /\ Idx(step) = step /\ t.fails = fail_count
      /\ t.status = "success" => Succeeded(step)
      /\ step = N => Tries(N) # {}
  BY <1>1, ReportFacts
<1>3. /\ module' = [module EXCEPT ![step] = NewModule(t)]
      /\ step' = IF IncStep(t) THEN step + 1 ELSE step
      /\ module \in [0 .. N -> Module] /\ module' \in [0 .. N -> Module]
      /\ fail_count \in 0 .. Attempts /\ fail_count' \in {0, fail_count}
      /\ t.status # "success" => fail_count' = fail_count
  <2>1. t.status # "success" => fail_count' = fail_count
    BY DEF UpdateStatus
  <2> QED
    BY <1>2, <2>1, UpdateStatusEffect DEF TokenInv, TypeOK
<1>4. /\ Pushed' = Pushed
      /\ \A i \in 0 .. N : Tries(i)' = Tries(i)
  BY <1>1 DEF Pushed, Tries
<1>5. Live /\ \A i \in 0 .. N - 1 : Passed(i) => Passed(i)'
  BY GoodStays, StepFacts DEF Live
<1>6. /\ IncStep(t) /\ step < N => Passed(step)
      /\ IncStep(t) /\ step = N => t.status = "success"
      /\ ~IncStep(t) => t.status # "success"
  BY <1>2, StepFacts, FlowAssumption DEF IncStep, Passed
<1>7. /\ \A i \in 0 .. N - 1 : i \in 0 .. N
      /\ \A i \in 0 .. N : i # step => module'[i] = module[i]
      /\ module'[step] = NewModule(t)
  BY <1>2, <1>3, StepFacts
<1> HIDE DEF t
<1>8. StatusInOrder'
  <2>1. step' \in 0 .. N + 1
    BY <1>2, <1>3, StepFacts
  <2>2. \A i \in 0 .. N - 1 : i > step' => module'[i] = "WaitingForPriorSteps"
    BY <1>2, <1>3, <1>7, StepFacts DEF OrderInv, StatusInOrder
  <2>3. step' < N => \A i \in 0 .. N - 1 : i < step' => Passed(i)'
    <3> SUFFICES ASSUME step' < N, NEW i \in 0 .. N - 1, i < step' PROVE Passed(i)'
      OBVIOUS
    <3>1. CASE i < step
      BY <3>1, <1>2, <1>3, <1>5, StepFacts DEF OrderInv, StatusInOrder
    <3>2. CASE i >= step
      <4>1. i = step /\ IncStep(t) /\ step < N
        BY <3>2, <1>2, <1>3, StepFacts
      <4> QED
        BY <4>1, <1>5, <1>6
    <3> QED
      BY <3>1, <3>2, <1>2, StepFacts
  <2>4. \A i \in 0 .. N - 1 :
           i > step' \/ (i = step' /\ module'[i] = "WaitingForPriorSteps") => Tries(i)' = {}
    <3> SUFFICES ASSUME NEW i \in 0 .. N - 1,
                        i > step' \/ (i = step' /\ module'[i] = "WaitingForPriorSteps")
                 PROVE  Tries(i) = {}
      BY <1>4, <1>7
    <3>1. i > step
      BY <1>2, <1>3, <1>7, StepFacts DEF NewModule
    <3> QED
      BY <1>5, <3>1 DEF OrderInv, StatusInOrder
  <2>5. step' < N => Tries(N)' = {}
    BY <1>2, <1>3, <1>4, <1>5, StepFacts DEF OrderInv, StatusInOrder
  <2>6. \A i \in 0 .. N : i = step' => Cardinality(Tries(i))' <= 1 + fail_count'
    <3> SUFFICES ASSUME NEW i \in 0 .. N, i = step'
                 PROVE  Cardinality(Tries(i)) <= 1 + fail_count'
      BY <1>4
    <3>1. CASE IncStep(t)
      <4>1. i = step + 1
        BY <1>3, <3>1
      <4>2. Tries(i) = {}
        BY <1>2, <1>5, <4>1, StepFacts DEF OrderInv, StatusInOrder
      <4>3. Cardinality(Tries(i)) = 0
        BY <4>2, FS_EmptySet
      <4>4. fail_count' \in Nat
        BY <1>3, StepFacts
      <4>5. \A x \in Nat : 0 <= 1 + x
        OBVIOUS
      <4> QED
        BY <4>3, <4>4, <4>5, Zenon
    <3>2. CASE ~IncStep(t)
      BY <1>3, <1>5, <1>6, <3>2 DEF OrderInv, StatusInOrder
    <3> QED
      BY <3>1, <3>2
  <2> QED
    BY <2>1, <2>2, <2>3, <2>4, <2>5, <2>6 DEF StatusInOrder
<1>9. (Tries(N) # {})' => \E i \in 0 .. N - 1 : module'[i] = "Failure"
  <2> SUFFICES ASSUME Tries(N) # {} PROVE \E i \in 0 .. N - 1 : module'[i] = "Failure"
    BY <1>4, StepFacts
  <2>1. step = N
    BY <1>2, <1>5, StepFacts DEF OrderInv, StatusInOrder
  <2>2. PICK i \in 0 .. N - 1 : module[i] = "Failure"
    BY DEF OrderInv, JobsInOrder
  <2>3. i \in 0 .. N /\ i # step
    BY <2>1, StepFacts
  <2> QED
    BY <1>7, <2>2, <2>3
<1>10. ASSUME ShouldContinue(t) PROVE Due'
  <2>1. \/ step' = step + 1 /\ step' < N
        \/ /\ step' = step /\ t.status # "success"
           /\ MayRetry(fail_count) \/ (step < N /\ step \notin ContinueOnError)
           /\ step \in ContinueOnError => step < N
    BY <1>2, <1>3, <1>6, <1>10, StepFacts DEF ShouldContinue, IncStep
  <2>2. CASE step' = step + 1 /\ step' < N
    <3>1. step + 1 \in 0 .. N /\ step + 1 \in 0 .. N - 1 /\ step + 1 # step /\ step + 1 > step
      BY <1>2, <2>2, StepFacts
    <3>2. module'[step'] = "WaitingForPriorSteps"
      BY <1>7, <2>2, <3>1 DEF OrderInv, StatusInOrder
    <3> QED
      BY <2>2, <3>1, <3>2, StepFacts DEF Due
  <2>3. CASE /\ step' = step /\ t.status # "success"
             /\ MayRetry(fail_count) \/ (step < N /\ step \notin ContinueOnError)
    <3>1. module'[step'] = "Failure" /\ fail_count' = fail_count /\ step' <= N
      BY <1>2, <1>3, <1>7, <2>3, StepFacts DEF NewModule
    <3>2. step' = N => (Tries(N) # {})'
      BY <1>2, <1>4, <2>3, StepFacts
    <3> QED
      BY <2>3, <3>1, <3>2 DEF Due, MayRetry
  <2> QED
    BY <2>1, <2>2, <2>3
<1>11. ASSUME ~ShouldContinue(t), NEW recover \in BOOLEAN, FlowOutcome(t, recover) = "success"
       PROVE  Earned'
  <2>1. Flow \notin canceled /\ t.status = "success"
    BY <1>11 DEF FlowOutcome
  <2>2. step + 1 >= N /\ Succeeded(step)
    BY <1>2, <1>11, <2>1 DEF ShouldContinue, IncStep
  <2>3. CASE step = N
    BY <2>2, <2>3, GoodStays DEF Earned
  <2>4. CASE step < N
    <3>1. \A i \in 0 .. N - 1 : i < step \/ i = step
      BY <1>2, <2>2, <2>4, StepFacts
    <3>2. \A i \in (0 .. N - 1) \ ContinueOnError : Succeeded(i)
      BY <2>2, <2>4, <3>1 DEF OrderInv, StatusInOrder, Passed
    <3> QED
      BY <3>2, GoodStays DEF Earned
  <2> QED
    BY <1>2, <2>3, <2>4, StepFacts
<1>12. /\ ShouldContinue(t) => proc'[p].pc = "push"
       /\ ~ShouldContinue(t) =>
            /\ proc'[p].pc = "finish"
            /\ \E recover \in BOOLEAN : proc'[p].status = FlowOutcome(t, recover)
  BY UpdateStatusEffect DEF TokenInv, t
<1> QED
  BY <1>1, <1>4, <1>5, <1>7, <1>8, <1>9, <1>10, <1>11, <1>12, StepFacts DEF OrderInv, JobsInOrder

\* A thread that pushes does so for a module that is due.
LEMMA DueWhenPushing ==
    ASSUME TokenInv, OrderInv, NEW p \in Proc, proc[p].pc \in {"start", "push"}
    PROVE  /\ Due /\ Live /\ step \in 0 .. N /\ Idx(step) = step
           /\ proc[p].step = step /\ proc[p].mod = module[step] /\ proc[p].fails = fail_count
           /\ proc[p].mod # "Success"
<1>1. Due
  <2>1. CASE proc[p].pc = "start"
    BY <2>1, StepFacts DEF TokenInv, StartsOnce, Unstarted, OrderInv, PushIsDue, Due
  <2>2. CASE proc[p].pc = "push"
    BY <2>2 DEF OrderInv, PushIsDue
  <2> QED
    BY <2>1, <2>2
<1>2. Live
  BY DEF Live, MayPush
<1>3. step \in 0 .. N /\ Idx(step) = step
  BY <1>1, StepFacts DEF Due, TokenInv, TypeOK
<1>4. proc[p].step = step /\ proc[p].mod = module[step] /\ proc[p].fails = fail_count
  BY <1>3 DEF TokenInv, ReadIsFresh
<1> QED
  BY <1>1, <1>2, <1>3, <1>4 DEF Due

\* The push of a job.
LEMMA PushOrder ==
    ASSUME ~SlowWorkers, TokenInv, TokenInv', CancelInv, OrderInv, [Next]_vars,
           NEW p \in Proc, PushNext(p)
    PROVE  /\ StatusInOrder'
           /\ \A j \in Pushed' :
                stepOf'[j] < N => \A i \in 0 .. N - 1 : i < stepOf'[j] => Passed(i)'
           /\ (Tries(N) # {})' => \E i \in 0 .. N - 1 : module'[i] = "Failure"
           /\ \A i \in 0 .. N : Cardinality(Tries(i))' <= 1 + Attempts
<1> DEFINE c == Cardinality(Pushed) + 1
           m == NextModule(proc[p])
           n == IF module[step] = "Failure" /\ MayRetry(fail_count) THEN fail_count + 1 ELSE 0
<1>1. /\ Due /\ Live /\ step \in 0 .. N /\ Idx(step) = step
      /\ proc[p].step = step /\ proc[p].mod = module[step] /\ proc[p].fails = fail_count
      /\ proc[p].mod # "Success"
  BY DueWhenPushing, PushNextEffect DEF TokenInv
<1>2. /\ c \in StepJob /\ m \in 0 .. N /\ Sets(c, "queued")
      /\ stepOf' = [stepOf EXCEPT ![c] = m]
      /\ InQueue(Flow) => /\ module' = [module EXCEPT ![m] = "WaitingForExecutor"]
                          /\ step' = m /\ fail_count' = NextFailCount(proc[p])
      /\ ~InQueue(Flow) => UNCHANGED <<step, module, fail_count>>
  BY <1>1, PushNextEffect DEF TokenInv
<1>3. fail_count \in 0 .. Attempts /\ fail_count' \in 0 .. Attempts /\ Attempts \in Nat
  BY StepFacts DEF TokenInv, TypeOK
<1>4. \/ m = step /\ step < N /\ module[step] = "WaitingForPriorSteps"
      \/ m = step /\ module[step] = "Failure" /\ MayRetry(fail_count)
      \/ m = N /\ step < N /\ module[step] = "Failure" /\ ~MayRetry(fail_count)
  BY <1>1, StepFacts DEF Due, NextModule
<1>5. n \in 0 .. Attempts /\ (InQueue(Flow) => n <= fail_count')
  <2>1. n \in 0 .. Attempts
    BY <1>3 DEF MayRetry
  <2>2. ASSUME module[step] = "Failure", MayRetry(fail_count)
        PROVE  NextFailCount(proc[p]) = n
    <3>1. proc[p].mod = "Failure" /\ MayRetry(proc[p].fails)
      BY <1>1, <2>2
    <3>2. NextFailCount(proc[p]) = proc[p].fails + 1
      BY <3>1 DEF NextFailCount
    <3> QED
      BY <1>1, <2>2, <3>2
  <2> QED
    BY <1>2, <1>3, <2>1, <2>2
<1>6. c \notin Pushed /\ Pushed' = Pushed \cup {c}
  <2>1. c \notin Pushed
    BY NextJobIsNew
  <2> QED
    BY <1>2, <2>1, StepFacts DEF Pushed, Sets
<1>7. /\ \A i \in 0 .. N : i # m => Tries(i)' = Tries(i)
      /\ Tries(m) \in SUBSET StepJob /\ c \notin Tries(m)
      /\ \A i \in 0 .. N : i = m => Tries(i)' = Tries(i) \cup {c}
  <2>1. \A j \in Pushed : stepOf'[j] = stepOf[j] /\ j # c
    BY <1>2, <1>6 DEF TokenInv, TypeOK, Pushed
  <2>2. stepOf'[c] = m
    BY <1>2 DEF TokenInv, TypeOK
  <2>3. Tries(m) \in SUBSET StepJob /\ c \notin Tries(m)
    BY <1>6 DEF Tries, Pushed
  <2> HIDE DEF c, m
  <2> QED
    BY <1>6, <2>1, <2>2, <2>3 DEF Tries
<1> HIDE DEF c, m, n
<1>8. Cardinality(Tries(m)) <= n
  <2>1. Cardinality(Tries(m)) \in Nat
    BY <1>7, StepSets
  <2>2. CASE m = step /\ module[step] = "Failure" /\ MayRetry(fail_count)
    BY <1>1, <1>3, <2>1, <2>2 DEF n, OrderInv, StatusInOrder
  <2>3. CASE ~(module[step] = "Failure" /\ MayRetry(fail_count))
    <3>1. Tries(m) = {}
      BY <1>1, <1>4, <2>3, StepFacts DEF OrderInv, StatusInOrder
    <3>2. Cardinality(Tries(m)) = 0
      BY <3>1, FS_EmptySet
    <3> QED
      BY <1>5, <3>2
  <2> QED
    BY <1>4, <2>2, <2>3
<1>9. \A i \in 0 .. N : i = m => Cardinality(Tries(i))' <= 1 + n
  <2>1. Cardinality(Tries(m)) \in Nat /\ Cardinality(Tries(m) \cup {c}) = Cardinality(Tries(m)) + 1
    BY <1>7, StepSets
  <2> QED
    BY <1>5, <1>7, <1>8, <2>1
<1>10. \A i \in 0 .. N : Cardinality(Tries(i))' <= 1 + Attempts
  <2>1. \A i \in 0 .. N : i # m => Cardinality(Tries(i))' <= 1 + Attempts
    BY <1>7 DEF OrderInv, JobsInOrder
  <2>2. ASSUME NEW i \in 0 .. N, i = m PROVE Cardinality(Tries(i))' <= 1 + Attempts
    <3>1. Tries(i)' \in SUBSET StepJob
      BY DEF Tries, Pushed
    <3>2. Cardinality(Tries(i))' \in Nat
      BY <3>1, StepSets
    <3> QED
      BY <1>3, <1>5, <1>9, <2>2, <3>2
  <2> QED
    BY <2>1, <2>2
<1>11. \A i \in 0 .. N - 1 : i \in 0 .. N /\ (Passed(i) => Passed(i)')
  BY GoodStays, StepFacts
<1>12. \A j \in Pushed' : stepOf'[j] < N => \A i \in 0 .. N - 1 : i < stepOf'[j] => Passed(i)'
  <2>1. \A j \in Pushed : stepOf'[j] = stepOf[j]
    BY DoneStaysStep
  <2>2. \A j \in Pushed : stepOf'[j] < N => \A i \in 0 .. N - 1 : i < stepOf'[j] => Passed(i)'
    BY <1>11, <2>1 DEF OrderInv, JobsInOrder
  <2>3. stepOf'[c] = m
    BY <1>2 DEF TokenInv, TypeOK
  <2>4. m < N => m = step
    BY <1>4, StepFacts
  <2>5. m < N => \A i \in 0 .. N - 1 : i < m => Passed(i)'
    BY <1>11, <2>4 DEF OrderInv, StatusInOrder
  <2> QED
    BY <1>6, <2>2, <2>3, <2>5
<1>13. (Tries(N) # {})' => \E i \in 0 .. N - 1 : module'[i] = "Failure"
  <2> SUFFICES ASSUME (Tries(N) # {})' PROVE \E i \in 0 .. N - 1 : module'[i] = "Failure"
    OBVIOUS
  <2>1. m = N
    BY <1>1, <1>4, <1>7, StepFacts DEF OrderInv, StatusInOrder
  <2>2. \A i \in 0 .. N - 1 : module'[i] = module[i]
    <3>1. module' = module \/ module' = [module EXCEPT ![N] = "WaitingForExecutor"]
      BY <1>2, <2>1
    <3> QED
      BY <3>1, StepFacts DEF TokenInv, TypeOK
  <2>3. CASE step = N
    BY <1>1, <2>2, <2>3 DEF Due, OrderInv, JobsInOrder
  <2>4. CASE step # N
    <3>1. step \in 0 .. N - 1 /\ module[step] = "Failure"
      BY <1>1, <1>4, <2>1, <2>4, StepFacts
    <3> QED
      BY <2>2, <3>1
  <2> QED
    BY <2>3, <2>4
<1>14. StatusInOrder'
  <2>1. CASE InQueue(Flow)
    <3>1. step' = m /\ m >= step /\ (m < N => m = step)
      BY <1>1, <1>2, <1>4, <2>1, StepFacts
    <3>2. /\ \A i \in 0 .. N : i # m => module'[i] = module[i]
          /\ module'[m] = "WaitingForExecutor"
      BY <1>2, <2>1 DEF TokenInv, TypeOK
    <3>3. \A i \in 0 .. N - 1 : i > step' => module'[i] = "WaitingForPriorSteps"
      BY <1>1, <1>2, <1>11, <3>1, <3>2, StepFacts DEF OrderInv, StatusInOrder
    <3>4. step' < N => \A i \in 0 .. N - 1 : i < step' => Passed(i)'
      BY <1>11, <3>1 DEF OrderInv, StatusInOrder
    <3>5. \A i \in 0 .. N - 1 :
             i > step' \/ (i = step' /\ module'[i] = "WaitingForPriorSteps") => Tries(i)' = {}
      <4> SUFFICES ASSUME NEW i \in 0 .. N - 1,
                          i > step' \/ (i = step' /\ module'[i] = "WaitingForPriorSteps")
                   PROVE  Tries(i)' = {}
        OBVIOUS
      <4>1. i > m
        BY <3>1, <3>2
      <4>2. i > step /\ i # m
        BY <1>1, <1>2, <3>1, <4>1, StepFacts
      <4>3. Tries(i) = {}
        BY <1>1, <4>2 DEF OrderInv, StatusInOrder
      <4> QED
        BY <1>7, <1>11, <4>2, <4>3
    <3>6. step' < N => Tries(N)' = {}
      BY <1>1, <1>7, <3>1, StepFacts DEF OrderInv, StatusInOrder
    <3>7. \A i \in 0 .. N : i = step' => Cardinality(Tries(i))' <= 1 + fail_count'
      <4> SUFFICES ASSUME NEW i \in 0 .. N, i = m
                   PROVE  Cardinality(Tries(i))' <= 1 + fail_count'
        BY <3>1
      <4>1. Tries(i)' \in SUBSET StepJob
        BY DEF Tries, Pushed
      <4>2. Cardinality(Tries(i))' \in Nat
        BY <4>1, StepSets
      <4> QED
        BY <1>3, <1>5, <1>9, <2>1, <4>2
    <3>8. step' \in 0 .. N + 1
      BY <1>2, <3>1, StepFacts
    <3> QED
      BY <3>3, <3>4, <3>5, <3>6, <3>7, <3>8 DEF StatusInOrder
  <2>2. CASE ~InQueue(Flow)
    <3>1. ~InQueue(Flow)'
      BY <2>2, FlowStaysDoneStep
    <3>2. ~MayPush'
      BY <1>1, PushNextEffect DEF TokenInv, OneToken, Active, MayPush, Becomes
    <3>3. ~Live'
      BY <3>1, <3>2 DEF Live
    <3>4. step' = step /\ module' = module
      BY <1>2, <2>2
    <3> QED
      BY <1>11, <3>3, <3>4 DEF OrderInv, StatusInOrder
  <2> QED
    BY <2>1, <2>2
<1> QED
  BY <1>10, <1>12, <1>13, <1>14

\* Reports stay those of the current step.
LEMMA ReportsOnStepStep ==
    ASSUME ~SlowWorkers, TokenInv, TokenInv', CancelInv, OrderInv, [Next]_vars
    PROVE  ReportsOnStep'
<1> USE DEF TokenInv, OrderInv
<1>1. ASSUME NEW p \in Proc, PullFlow(p) PROVE ReportsOnStep'
  BY <1>1, StepFacts, PullFlowEffect DEF ReportsOnStep, Unstarted, InQueue,
     OneToken, Active, Executes, HasStep, Pushed, Status, Becomes, Sets, status
<1>2. ASSUME NEW p \in Proc, NEW j \in StepJob, PullStep(p, j) PROVE ReportsOnStep'
  BY <1>2, StepFacts, TakeStepEffect DEF ReportsOnStep, Unstarted, InQueue,
     OneToken, Active, Executes, HasStep, Pushed, Status, Becomes, Sets, status
<1>3. ASSUME NEW p \in Proc, NEW s \in Status, FinishStep(p, s) PROVE ReportsOnStep'
  BY <1>3, StepFacts, FinishStepEffect DEF ReportsOnStep, Unstarted, InQueue,
     OneToken, Active, Executes, HasStep, Pushed, Status, Becomes, status
<1>4. ASSUME NEW p \in Proc, CompleteStep(p) PROVE ReportsOnStep'
  BY <1>4, StepFacts, CompleteStepEffect DEF ReportsOnStep, Unstarted, InQueue,
     OneToken, Active, Executes, HasStep, Pushed, Status, Becomes, Sets, status
<1>5. ASSUME NEW p \in Proc, ReadStatus(p) PROVE ReportsOnStep'
  BY <1>5, StepFacts, ReadStatusEffect DEF ReportsOnStep, Unstarted, InQueue,
     OneToken, Active, Executes, HasStep, Pushed, Status, Becomes, status
<1>6. ASSUME NEW p \in Proc, UpdateStatus(p) PROVE ReportsOnStep'
  <2>1. CASE InQueue(Flow)
    <3>1. proc'[p].pc \in {"push", "finish"} /\ row' = row /\ proc[p].pc = "update"
      BY <1>6, <2>1, UpdateStatusEffect
    <3>2. \A q \in Proc : proc'[q].pc \notin {"run", "complete", "read", "update"}
      BY <1>6, <2>1, <3>1, UpdateStatusEffect DEF Becomes, OneToken, Active
    <3>3. \A j \in StepJob : ~InQueue(j)'
      BY <3>1 DEF OneToken, Active, Executes, InQueue
    <3> QED
      BY <3>2, <3>3 DEF ReportsOnStep, Executes
  <2>2. CASE ~InQueue(Flow)
    BY <1>6, <2>2, UpdateDroppedEffect DEF Becomes, status, ReportsOnStep, InQueue, Pushed,
       OneToken, Active, Executes
  <2> QED
    BY <2>1, <2>2
<1>7. ASSUME NEW p \in Proc, PushNext(p) PROVE ReportsOnStep'
  <2>1. /\ proc[p].mod # "Success" /\ proc[p].pc \in {"start", "push"}
    BY <1>7, PushNextEffect, DueWhenPushing
  <2>2. \A q \in Proc : proc'[q].pc = "idle"
    BY <1>7, <2>1, PushNextEffect DEF Becomes, OneToken, Active
  <2>3. ASSUME NEW j \in StepJob, InQueue(j)', InQueue(Flow)' PROVE stepOf'[j] = step'
    <3>1. ~InQueue(j)
      BY <2>1 DEF OneToken, Active, Executes
    <3>2. j = Cardinality(Pushed) + 1
      BY <1>7, <2>1, <2>3, <3>1, PushNextEffect, StepFacts DEF Sets, InQueue
    <3>3. InQueue(Flow)
      BY <2>3, FlowStaysDoneStep
    <3> QED
      BY <1>7, <2>1, <3>2, <3>3, PushNextEffect DEF TypeOK
  <2> QED
    BY <2>2, <2>3 DEF ReportsOnStep, Executes
<1>8. ASSUME NEW p \in Proc, FinishFlow(p) PROVE ReportsOnStep'
  BY <1>8, StepFacts, FinishFlowEffect DEF ReportsOnStep, Unstarted, InQueue,
     OneToken, Active, Executes, HasStep, Pushed, Status, Becomes, Sets, status
<1>9. ASSUME NEW p \in Proc, UpdateFails(p) PROVE ReportsOnStep'
  BY <1>9, StepFacts, UpdateFailsEffect DEF ReportsOnStep, Unstarted, InQueue,
     OneToken, Active, Executes, HasStep, Pushed, Status, Becomes, status
<1>10. ASSUME NEW p \in Proc, PushFails(p) PROVE ReportsOnStep'
  BY <1>10, StepFacts, PushFailsEffect DEF ReportsOnStep, Unstarted, InQueue,
     OneToken, Active, Executes, HasStep, Pushed, Status, Becomes, status, PushIsDue
<1>11. ASSUME NEW p \in Proc, Crash(p) PROVE ReportsOnStep'
  BY <1>11, StepFacts, CrashEffect DEF ReportsOnStep, Unstarted, InQueue, OneToken,
     Active, Executes, HasStep, Pushed, Status, Becomes, status
<1>12. ASSUME NEW p \in Proc, NEW j \in StepJob, FailStep(p, j) PROVE ReportsOnStep'
  BY <1>12, StepFacts, TakeStepEffect DEF ReportsOnStep, Unstarted, InQueue,
     OneToken, Active, Executes, HasStep, Pushed, Status, Becomes, Sets, status
<1>13. ASSUME NEW j \in StepJob, RestartStep(j) PROVE ReportsOnStep'
  BY <1>13, StepFacts, RestartStepEffect DEF ReportsOnStep, Unstarted, InQueue,
     OneToken, Active, Executes, HasStep, Pushed, Status, Sets, status
<1>14. ASSUME NEW force \in BOOLEAN, Cancel(force) PROVE ReportsOnStep'
  <2>1. UNCHANGED <<status, row, proc>>
    BY <1>14, CancelEffect
  <2> QED
    BY <2>1 DEF status, ReportsOnStep, Unstarted, InQueue, Executes, Pushed
<1>15. ASSUME NEW j \in Job, KillJob(j) PROVE ReportsOnStep'
  BY <1>15, StepFacts, KillJobEffect DEF ReportsOnStep, Unstarted, InQueue,
     OneToken, Active, Executes, HasStep, Pushed, Status, Sets, status
<1>16. ASSUME CrashServer PROVE ReportsOnStep'
  BY <1>16, StepFacts, CrashServerEffect DEF ReportsOnStep, Unstarted, InQueue,
     OneToken, Active, Executes, HasStep, Pushed, Status, status
<1>17. ASSUME PingExpires PROVE ReportsOnStep'
  BY <1>17, StepFacts, PingExpiresEffect DEF ReportsOnStep, Unstarted, InQueue,
     OneToken, Active, Executes, HasStep, Pushed, Status, status
<1>18. ASSUME HandleZombieFlow PROVE ReportsOnStep'
  BY <1>18, StepFacts, HandleZombieFlowEffect DEF ReportsOnStep, Unstarted, InQueue,
     OneToken, Active, Executes, HasStep, Pushed, Status, Sets, status
<1>19. ASSUME UNCHANGED vars PROVE ReportsOnStep'
  BY <1>19, StepFacts, StutterEffect DEF ReportsOnStep, Unstarted, InQueue,
     OneToken, Active, Executes, HasStep, Pushed, Status, status
<1> QED
  BY <1>1, <1>2, <1>3, <1>4, <1>5, <1>6, <1>7, <1>8, <1>9, <1>10, <1>11, <1>12,
     <1>13, <1>14, <1>15, <1>16, <1>17, <1>18, <1>19 DEF Next, ThreadStep

\* A module that is due stays so until it is pushed.
LEMMA DueStays ==
    ASSUME TokenInv, OrderInv, UNCHANGED status, Pushed' = Pushed, Due
    PROVE  Due'
<1>1. Tries(N)' = Tries(N)
  BY DEF Tries, status
<1>2. step' = step /\ module' = module /\ fail_count' = fail_count
  BY DEF status
<1> QED
  BY <1>1, <1>2 DEF Due

\* Which threads come to start, to push and to finish by the other steps.
LEMMA QuietThreads ==
    ASSUME ~SlowWorkers, TokenInv, CancelInv, OrderInv, [Next]_vars
    PROVE  \/ Updates \/ (\E x \in Proc : PushNext(x))
           \/ \A x \in Proc :
                 /\ proc'[x].pc = "start" => Unstarted
                 /\ proc'[x].pc = "push" => proc[x].pc = "push"
                 /\ proc'[x].pc = "finish" =>
                      proc'[x].status = "failure" \/ (proc[x].pc = "finish" /\ proc'[x] = proc[x])
<1> USE DEF TokenInv, OrderInv
<1>1. ASSUME NEW p \in Proc, PullFlow(p)
      PROVE  \/ Updates \/ (\E x \in Proc : PushNext(x))
             \/ \A x \in Proc :
                   /\ proc'[x].pc = "start" => Unstarted
                   /\ proc'[x].pc = "push" => proc[x].pc = "push"
                   /\ proc'[x].pc = "finish" =>
                        proc'[x].status = "failure" \/ (proc[x].pc = "finish" /\ proc'[x] = proc[x])
  BY <1>1, StepFacts, PullFlowEffect DEF PushIsDue, Becomes, Sets, status,
     StartsOnce
<1>2. ASSUME NEW p \in Proc, NEW j \in StepJob, PullStep(p, j)
      PROVE  \/ Updates \/ (\E x \in Proc : PushNext(x))
             \/ \A x \in Proc :
                   /\ proc'[x].pc = "start" => Unstarted
                   /\ proc'[x].pc = "push" => proc[x].pc = "push"
                   /\ proc'[x].pc = "finish" =>
                        proc'[x].status = "failure" \/ (proc[x].pc = "finish" /\ proc'[x] = proc[x])
  BY <1>2, StepFacts, TakeStepEffect DEF PushIsDue, Becomes, Sets, status
<1>3. ASSUME NEW p \in Proc, NEW s \in Status, FinishStep(p, s)
      PROVE  \/ Updates \/ (\E x \in Proc : PushNext(x))
             \/ \A x \in Proc :
                   /\ proc'[x].pc = "start" => Unstarted
                   /\ proc'[x].pc = "push" => proc[x].pc = "push"
                   /\ proc'[x].pc = "finish" =>
                        proc'[x].status = "failure" \/ (proc[x].pc = "finish" /\ proc'[x] = proc[x])
  BY <1>3, StepFacts, FinishStepEffect DEF PushIsDue, Becomes, status
<1>4. ASSUME NEW p \in Proc, CompleteStep(p)
      PROVE  \/ Updates \/ (\E x \in Proc : PushNext(x))
             \/ \A x \in Proc :
                   /\ proc'[x].pc = "start" => Unstarted
                   /\ proc'[x].pc = "push" => proc[x].pc = "push"
                   /\ proc'[x].pc = "finish" =>
                        proc'[x].status = "failure" \/ (proc[x].pc = "finish" /\ proc'[x] = proc[x])
  BY <1>4, StepFacts, CompleteStepEffect DEF PushIsDue, Becomes, Sets, status
<1>5. ASSUME NEW p \in Proc, ReadStatus(p)
      PROVE  \/ Updates \/ (\E x \in Proc : PushNext(x))
             \/ \A x \in Proc :
                   /\ proc'[x].pc = "start" => Unstarted
                   /\ proc'[x].pc = "push" => proc[x].pc = "push"
                   /\ proc'[x].pc = "finish" =>
                        proc'[x].status = "failure" \/ (proc[x].pc = "finish" /\ proc'[x] = proc[x])
  BY <1>5, StepFacts, ReadStatusEffect DEF PushIsDue, Becomes, status
<1>6. ASSUME NEW p \in Proc, UpdateStatus(p)
      PROVE  \/ Updates \/ (\E x \in Proc : PushNext(x))
             \/ \A x \in Proc :
                   /\ proc'[x].pc = "start" => Unstarted
                   /\ proc'[x].pc = "push" => proc[x].pc = "push"
                   /\ proc'[x].pc = "finish" =>
                        proc'[x].status = "failure" \/ (proc[x].pc = "finish" /\ proc'[x] = proc[x])
  <2>1. CASE InQueue(Flow)
    BY <1>6, <2>1 DEF Updates
  <2>2. CASE ~InQueue(Flow)
    BY <1>6, <2>2, UpdateDroppedEffect DEF PushIsDue, Becomes
  <2> QED
    BY <2>1, <2>2
<1>7. ASSUME NEW p \in Proc, PushNext(p)
      PROVE  \/ Updates \/ (\E x \in Proc : PushNext(x))
             \/ \A x \in Proc :
                   /\ proc'[x].pc = "start" => Unstarted
                   /\ proc'[x].pc = "push" => proc[x].pc = "push"
                   /\ proc'[x].pc = "finish" =>
                        proc'[x].status = "failure" \/ (proc[x].pc = "finish" /\ proc'[x] = proc[x])
  BY <1>7
<1>8. ASSUME NEW p \in Proc, FinishFlow(p)
      PROVE  \/ Updates \/ (\E x \in Proc : PushNext(x))
             \/ \A x \in Proc :
                   /\ proc'[x].pc = "start" => Unstarted
                   /\ proc'[x].pc = "push" => proc[x].pc = "push"
                   /\ proc'[x].pc = "finish" =>
                        proc'[x].status = "failure" \/ (proc[x].pc = "finish" /\ proc'[x] = proc[x])
  BY <1>8, StepFacts, FinishFlowEffect DEF PushIsDue, Becomes, Sets, status
<1>9. ASSUME NEW p \in Proc, UpdateFails(p)
      PROVE  \/ Updates \/ (\E x \in Proc : PushNext(x))
             \/ \A x \in Proc :
                   /\ proc'[x].pc = "start" => Unstarted
                   /\ proc'[x].pc = "push" => proc[x].pc = "push"
                   /\ proc'[x].pc = "finish" =>
                        proc'[x].status = "failure" \/ (proc[x].pc = "finish" /\ proc'[x] = proc[x])
  BY <1>9, StepFacts, UpdateFailsEffect DEF PushIsDue, Becomes, status
<1>10. ASSUME NEW p \in Proc, PushFails(p)
       PROVE  \/ Updates \/ (\E x \in Proc : PushNext(x))
              \/ \A x \in Proc :
                    /\ proc'[x].pc = "start" => Unstarted
                    /\ proc'[x].pc = "push" => proc[x].pc = "push"
                    /\ proc'[x].pc = "finish" =>
                         proc'[x].status = "failure" \/ (proc[x].pc = "finish" /\ proc'[x] = proc[x])
  BY <1>10, StepFacts, PushFailsEffect DEF PushIsDue, Becomes, status
<1>11. ASSUME NEW p \in Proc, Crash(p)
       PROVE  \/ Updates \/ (\E x \in Proc : PushNext(x))
              \/ \A x \in Proc :
                    /\ proc'[x].pc = "start" => Unstarted
                    /\ proc'[x].pc = "push" => proc[x].pc = "push"
                    /\ proc'[x].pc = "finish" =>
                         proc'[x].status = "failure" \/ (proc[x].pc = "finish" /\ proc'[x] = proc[x])
  BY <1>11, StepFacts, CrashEffect DEF PushIsDue, Becomes, status
<1>12. ASSUME NEW p \in Proc, NEW j \in StepJob, FailStep(p, j)
       PROVE  \/ Updates \/ (\E x \in Proc : PushNext(x))
              \/ \A x \in Proc :
                    /\ proc'[x].pc = "start" => Unstarted
                    /\ proc'[x].pc = "push" => proc[x].pc = "push"
                    /\ proc'[x].pc = "finish" =>
                         proc'[x].status = "failure" \/ (proc[x].pc = "finish" /\ proc'[x] = proc[x])
  BY <1>12, StepFacts, TakeStepEffect DEF PushIsDue, Becomes, Sets, status
<1>13. ASSUME NEW j \in StepJob, RestartStep(j)
       PROVE  \/ Updates \/ (\E x \in Proc : PushNext(x))
              \/ \A x \in Proc :
                    /\ proc'[x].pc = "start" => Unstarted
                    /\ proc'[x].pc = "push" => proc[x].pc = "push"
                    /\ proc'[x].pc = "finish" =>
                         proc'[x].status = "failure" \/ (proc[x].pc = "finish" /\ proc'[x] = proc[x])
  BY <1>13, StepFacts, RestartStepEffect DEF PushIsDue, Sets, status
<1>14. ASSUME NEW force \in BOOLEAN, Cancel(force)
       PROVE  \/ Updates \/ (\E x \in Proc : PushNext(x))
              \/ \A x \in Proc :
                    /\ proc'[x].pc = "start" => Unstarted
                    /\ proc'[x].pc = "push" => proc[x].pc = "push"
                    /\ proc'[x].pc = "finish" =>
                         proc'[x].status = "failure" \/ (proc[x].pc = "finish" /\ proc'[x] = proc[x])
  BY <1>14, StepFacts, CancelEffect DEF PushIsDue, status
<1>15. ASSUME NEW j \in Job, KillJob(j)
       PROVE  \/ Updates \/ (\E x \in Proc : PushNext(x))
              \/ \A x \in Proc :
                    /\ proc'[x].pc = "start" => Unstarted
                    /\ proc'[x].pc = "push" => proc[x].pc = "push"
                    /\ proc'[x].pc = "finish" =>
                         proc'[x].status = "failure" \/ (proc[x].pc = "finish" /\ proc'[x] = proc[x])
  BY <1>15, StepFacts, KillJobEffect DEF PushIsDue, Sets, status
<1>16. ASSUME CrashServer
       PROVE  \/ Updates \/ (\E x \in Proc : PushNext(x))
              \/ \A x \in Proc :
                    /\ proc'[x].pc = "start" => Unstarted
                    /\ proc'[x].pc = "push" => proc[x].pc = "push"
                    /\ proc'[x].pc = "finish" =>
                         proc'[x].status = "failure" \/ (proc[x].pc = "finish" /\ proc'[x] = proc[x])
  BY <1>16, StepFacts, CrashServerEffect DEF PushIsDue, status
<1>17. ASSUME PingExpires
       PROVE  \/ Updates \/ (\E x \in Proc : PushNext(x))
              \/ \A x \in Proc :
                    /\ proc'[x].pc = "start" => Unstarted
                    /\ proc'[x].pc = "push" => proc[x].pc = "push"
                    /\ proc'[x].pc = "finish" =>
                         proc'[x].status = "failure" \/ (proc[x].pc = "finish" /\ proc'[x] = proc[x])
  BY <1>17, StepFacts, PingExpiresEffect DEF PushIsDue, status
<1>18. ASSUME HandleZombieFlow
       PROVE  \/ Updates \/ (\E x \in Proc : PushNext(x))
              \/ \A x \in Proc :
                    /\ proc'[x].pc = "start" => Unstarted
                    /\ proc'[x].pc = "push" => proc[x].pc = "push"
                    /\ proc'[x].pc = "finish" =>
                         proc'[x].status = "failure" \/ (proc[x].pc = "finish" /\ proc'[x] = proc[x])
  BY <1>18, StepFacts, HandleZombieFlowEffect DEF PushIsDue, Sets, status
<1>19. ASSUME UNCHANGED vars
       PROVE  \/ Updates \/ (\E x \in Proc : PushNext(x))
              \/ \A x \in Proc :
                    /\ proc'[x].pc = "start" => Unstarted
                    /\ proc'[x].pc = "push" => proc[x].pc = "push"
                    /\ proc'[x].pc = "finish" =>
                         proc'[x].status = "failure" \/ (proc[x].pc = "finish" /\ proc'[x] = proc[x])
  BY <1>19, StepFacts, StutterEffect DEF PushIsDue, status
<1> QED
  BY <1>1, <1>2, <1>3, <1>4, <1>5, <1>6, <1>7, <1>8, <1>9, <1>10, <1>11, <1>12,
     <1>13, <1>14, <1>15, <1>16, <1>17, <1>18, <1>19 DEF Next, ThreadStep

\* What threads are about to push is due, what they finish with success is earned.
LEMMA PushIsDueStep ==
    ASSUME ~SlowWorkers, TokenInv, TokenInv', CancelInv, OrderInv, [Next]_vars
    PROVE  PushIsDue'
<1> USE DEF TokenInv, OrderInv
<1>1. ASSUME NEW p \in Proc, UpdateStatus(p), InQueue(Flow) PROVE PushIsDue'
  <2>1. proc'[p].pc \in {"push", "finish"}
    BY <1>1, UpdateStatusEffect
  <2>2. \A q \in Proc : q # p => proc'[q].pc = "idle"
    BY <1>1, UpdateStatusEffect DEF Becomes, OneToken, Active
  <2>3. /\ proc'[p].pc = "push" => Due'
        /\ proc'[p].pc = "finish" /\ proc'[p].status = "success" => Earned'
    BY <1>1, UpdateOrder
  <2> QED
    BY <2>1, <2>2, <2>3 DEF PushIsDue
<1>2. ASSUME NEW p \in Proc, PushNext(p) PROVE PushIsDue'
  <2>1. /\ proc[p].mod # "Success" /\ proc[p].pc \in {"start", "push"}
    BY <1>2, PushNextEffect, DueWhenPushing
  <2>2. \A q \in Proc : proc'[q].pc = "idle"
    BY <1>2, <2>1, PushNextEffect DEF Becomes, OneToken, Active
  <2> QED
    BY <2>2 DEF PushIsDue
<1>3. ASSUME ~Updates, ~\E p \in Proc : PushNext(p) PROVE PushIsDue'
  <2>1. UNCHANGED status /\ Pushed' = Pushed
    BY <1>3, QuietStep, PushedStep DEF Pushes
  <2>2. (Unstarted => Unstarted') /\ (Due => Due') /\ (Earned => Earned')
    BY <2>1, DueStays, GoodStays DEF Unstarted, status
  <2>3. \A p \in Proc :
           /\ proc'[p].pc = "start" => Unstarted
           /\ proc'[p].pc = "push" => proc[p].pc = "push"
           /\ proc'[p].pc = "finish" =>
                proc'[p].status = "failure" \/ (proc[p].pc = "finish" /\ proc'[p] = proc[p])
    BY <1>3, QuietThreads
  <2> QED
    BY <2>2, <2>3 DEF PushIsDue
<1> QED
  BY <1>1, <1>2, <1>3 DEF Updates

\* A flow becomes a success only by a thread that has earned it.
LEMMA FlowSuccessStep ==
    ASSUME ~SlowWorkers, TokenInv, CancelInv, OrderInv, [Next]_vars
    PROVE  row'[Flow] = "success" => row[Flow] = "success" \/ Earned
<1> USE DEF TokenInv, OrderInv
<1>1. ASSUME NEW p \in Proc, PullFlow(p)
      PROVE  row'[Flow] = "success" => row[Flow] = "success" \/ Earned
  BY <1>1, StepFacts, PullFlowEffect DEF PushIsDue, Becomes, Sets, status
<1>2. ASSUME NEW p \in Proc, NEW j \in StepJob, PullStep(p, j)
      PROVE  row'[Flow] = "success" => row[Flow] = "success" \/ Earned
  BY <1>2, StepFacts, TakeStepEffect DEF PushIsDue, Becomes, Sets, status
<1>3. ASSUME NEW p \in Proc, NEW s \in Status, FinishStep(p, s)
      PROVE  row'[Flow] = "success" => row[Flow] = "success" \/ Earned
  BY <1>3, StepFacts, FinishStepEffect DEF PushIsDue, Becomes, status
<1>4. ASSUME NEW p \in Proc, CompleteStep(p)
      PROVE  row'[Flow] = "success" => row[Flow] = "success" \/ Earned
  BY <1>4, StepFacts, CompleteStepEffect DEF PushIsDue, Becomes, Sets, status
<1>5. ASSUME NEW p \in Proc, ReadStatus(p)
      PROVE  row'[Flow] = "success" => row[Flow] = "success" \/ Earned
  BY <1>5, StepFacts, ReadStatusEffect DEF PushIsDue, Becomes, status
<1>6. ASSUME NEW p \in Proc, UpdateStatus(p)
      PROVE  row'[Flow] = "success" => row[Flow] = "success" \/ Earned
  <2>1. CASE InQueue(Flow)
    BY <1>6, <2>1, UpdateStatusEffect, StepFacts DEF PushIsDue, Becomes, status
  <2>2. CASE ~InQueue(Flow)
    BY <1>6, <2>2, UpdateDroppedEffect, StepFacts DEF PushIsDue, Becomes, status
  <2> QED
    BY <2>1, <2>2
<1>7. ASSUME NEW p \in Proc, PushNext(p)
      PROVE  row'[Flow] = "success" => row[Flow] = "success" \/ Earned
  BY <1>7, StepFacts, PushNextEffect DEF PushIsDue, Becomes, Sets, status
<1>8. ASSUME NEW p \in Proc, FinishFlow(p)
      PROVE  row'[Flow] = "success" => row[Flow] = "success" \/ Earned
  BY <1>8, StepFacts, FinishFlowEffect DEF PushIsDue, Becomes, Sets, status
<1>9. ASSUME NEW p \in Proc, UpdateFails(p)
      PROVE  row'[Flow] = "success" => row[Flow] = "success" \/ Earned
  BY <1>9, StepFacts, UpdateFailsEffect DEF PushIsDue, Becomes, status
<1>10. ASSUME NEW p \in Proc, PushFails(p)
       PROVE  row'[Flow] = "success" => row[Flow] = "success" \/ Earned
  BY <1>10, StepFacts, PushFailsEffect DEF PushIsDue, Becomes, status
<1>11. ASSUME NEW p \in Proc, Crash(p)
       PROVE  row'[Flow] = "success" => row[Flow] = "success" \/ Earned
  BY <1>11, StepFacts, CrashEffect DEF PushIsDue, Becomes, status
<1>12. ASSUME NEW p \in Proc, NEW j \in StepJob, FailStep(p, j)
       PROVE  row'[Flow] = "success" => row[Flow] = "success" \/ Earned
  BY <1>12, StepFacts, TakeStepEffect DEF PushIsDue, Becomes, Sets, status
<1>13. ASSUME NEW j \in StepJob, RestartStep(j)
       PROVE  row'[Flow] = "success" => row[Flow] = "success" \/ Earned
  BY <1>13, StepFacts, RestartStepEffect DEF PushIsDue, Sets, status
<1>14. ASSUME NEW force \in BOOLEAN, Cancel(force)
       PROVE  row'[Flow] = "success" => row[Flow] = "success" \/ Earned
  BY <1>14, StepFacts, CancelEffect DEF PushIsDue, status
<1>15. ASSUME NEW j \in Job, KillJob(j)
       PROVE  row'[Flow] = "success" => row[Flow] = "success" \/ Earned
  BY <1>15, StepFacts, KillJobEffect DEF PushIsDue, Sets, status
<1>16. ASSUME CrashServer
       PROVE  row'[Flow] = "success" => row[Flow] = "success" \/ Earned
  BY <1>16, StepFacts, CrashServerEffect DEF PushIsDue, status
<1>17. ASSUME PingExpires
       PROVE  row'[Flow] = "success" => row[Flow] = "success" \/ Earned
  BY <1>17, StepFacts, PingExpiresEffect DEF PushIsDue, status
<1>18. ASSUME HandleZombieFlow
       PROVE  row'[Flow] = "success" => row[Flow] = "success" \/ Earned
  BY <1>18, StepFacts, HandleZombieFlowEffect DEF PushIsDue, Sets, status
<1>19. ASSUME UNCHANGED vars
       PROVE  row'[Flow] = "success" => row[Flow] = "success" \/ Earned
  BY <1>19, StepFacts, StutterEffect DEF PushIsDue, status
<1> QED
  BY <1>1, <1>2, <1>3, <1>4, <1>5, <1>6, <1>7, <1>8, <1>9, <1>10, <1>11, <1>12,
     <1>13, <1>14, <1>15, <1>16, <1>17, <1>18, <1>19 DEF Next, ThreadStep

(***************************************************************************)
(* flow_status.step, the modules and the jobs that were pushed agree on    *)
(* how far the flow is.  The report that is under way is that of the job   *)
(* of flow_status.step, which makes UpdateStatus right to write what       *)
(* old_status says although it never looks at the job it reports on.       *)
(***************************************************************************)
THEOREM OrderInvariant ==
    ASSUME ~SlowWorkers
    PROVE  Spec => []OrderInv
<1>1. Init => OrderInv
  <2> SUFFICES ASSUME Init PROVE OrderInv
    OBVIOUS
  <2>1. Pushed = {}
    BY StepFacts DEF Init, Pushed
  <2>2. \A p \in Proc : proc[p].pc = "idle"
    BY ThreadFields DEF Init
  <2>3. \A i \in 0 .. N : Tries(i) = {} /\ Cardinality(Tries(i)) = 0
    BY <2>1, FS_EmptySet DEF Tries
  <2>4. /\ step = 0 /\ fail_count = 0 /\ row[Flow] = "queued"
        /\ \A i \in 0 .. N : module[i] = "WaitingForPriorSteps"
    BY StepFacts DEF Init
  <2>5. JobsInARow /\ ReportsOnStep /\ PushIsDue
    <3>1. \A j \in StepJob : ~InQueue(j)
      BY StepFacts DEF Init, InQueue
    <3> QED
      BY <2>1, <2>2, <3>1 DEF JobsInARow, ReportsOnStep, PushIsDue, Executes
  <2>6. StatusInOrder
    BY <2>3, <2>4, StepFacts DEF StatusInOrder
  <2>7. JobsInOrder
    BY <2>1, <2>3, <2>4, StepFacts DEF JobsInOrder
  <2> QED
    BY <2>5, <2>6, <2>7 DEF OrderInv
<1>2. ASSUME TokenInv, TokenInv', CancelInv, OrderInv, [Next]_vars PROVE OrderInv'
  <2> DEFINE G == /\ StatusInOrder'
                  /\ \A j \in Pushed' :
                       stepOf'[j] < N => \A i \in 0 .. N - 1 : i < stepOf'[j] => Passed(i)'
                  /\ (Tries(N) # {})' => \E i \in 0 .. N - 1 : module'[i] = "Failure"
                  /\ \A i \in 0 .. N : Cardinality(Tries(i))' <= 1 + Attempts
  <2>1. ASSUME Updates PROVE G
    <3>1. PICK p \in Proc : UpdateStatus(p) /\ InQueue(Flow)
      BY <2>1 DEF Updates
    <3> QED
      BY <1>2, <3>1, UpdateOrder
  <2>2. ASSUME Pushes PROVE G
    <3>1. PICK p \in Proc : PushNext(p)
      BY <2>2 DEF Pushes
    <3> QED
      BY <1>2, <3>1, PushOrder
  <2>3. ASSUME ~Updates, ~Pushes PROVE G
    <3>1. UNCHANGED status /\ Pushed' = Pushed
      BY <1>2, <2>3, QuietStep, PushedStep DEF Pushes
    <3> QED
      BY <1>2, <3>1, QuietOrder
  <2>4. G
    BY <2>1, <2>2, <2>3
  <2>5. row'[Flow] = "success" => Earned'
    BY <1>2, FlowSuccessStep, GoodStays DEF OrderInv, JobsInOrder
  <2>6. JobsInARow' /\ ReportsOnStep' /\ PushIsDue'
    BY <1>2, JobsInARowStep, ReportsOnStepStep, PushIsDueStep
  <2>7. JobsInOrder'
    BY <2>4, <2>5 DEF JobsInOrder
  <2> QED
    BY <2>4, <2>6, <2>7 DEF OrderInv
<1>3. Spec => []TokenInv
  BY TokenInvariant
<1>4. Spec => []CancelInv
  BY CancelInvariant
<1> QED
  BY <1>1, <1>2, <1>3, <1>4, PTL DEF Spec

(***************************************************************************)
(* A flow that update_flow_status_after_job_completion completes as a      *)
(* success has a successful job for every module it may not go on without, *)
(* or for its failure module.                                              *)
(***************************************************************************)
THEOREM SuccessOnlyWhenEarned ==
    ASSUME ~SlowWorkers
    PROVE  Spec => []SuccessIsEarned
<1>1. OrderInv => SuccessIsEarned
  BY DEF OrderInv, JobsInOrder, Earned, SuccessIsEarned
<1> QED
  BY <1>1, OrderInvariant, PTL

(***************************************************************************)
(* push_next_flow_job pushes a module only after all those before it, the  *)
(* failure module only after a failure, and none more often than its retry *)
(* policy allows, whatever crashes, errors and cancels come between.       *)
(***************************************************************************)
THEOREM PushedInOrder ==
    ASSUME ~SlowWorkers
    PROVE  Spec => []StepsInOrder
<1>1. TokenInv /\ OrderInv => StepsInOrder
  <2> SUFFICES ASSUME TokenInv, OrderInv, NEW j \in Pushed
               PROVE  /\ stepOf[j] < N =>
                           \A i \in (0 .. stepOf[j] - 1) \ ContinueOnError : Succeeded(i)
                      /\ stepOf[j] = N => \E i \in 0 .. N - 1 : module[i] = "Failure"
                      /\ Cardinality({k \in Pushed : stepOf[k] = stepOf[j]}) <= 1 + Attempts
    BY DEF StepsInOrder
  <2>1. stepOf[j] \in 0 .. N
    BY DEF TokenInv, TypeOK, Pushed
  <2>2. stepOf[j] < N => \A i \in (0 .. stepOf[j] - 1) \ ContinueOnError : Succeeded(i)
    <3> SUFFICES ASSUME stepOf[j] < N, NEW i \in (0 .. stepOf[j] - 1) \ ContinueOnError
                 PROVE  Succeeded(i)
      OBVIOUS
    <3>1. i \in 0 .. N - 1 /\ i < stepOf[j]
      BY <2>1, StepFacts
    <3>2. Passed(i)
      BY <3>1 DEF OrderInv, JobsInOrder
    <3> QED
      BY <3>2 DEF Passed
  <2>3. stepOf[j] = N => \E i \in 0 .. N - 1 : module[i] = "Failure"
    <3>1. stepOf[j] = N => Tries(N) # {}
      BY DEF Tries
    <3> QED
      BY <3>1 DEF OrderInv, JobsInOrder
  <2>4. Cardinality(Tries(stepOf[j])) <= 1 + Attempts
    BY <2>1 DEF OrderInv, JobsInOrder
  <2> QED
    BY <2>2, <2>3, <2>4 DEF Tries
<1> QED
  BY <1>1, TokenInvariant, OrderInvariant, PTL
==============================================================================
