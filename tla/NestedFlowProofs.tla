-------------------------- MODULE NestedFlowProofs --------------------------
(* Theorems about NestedFlow, for any flows and any number of jobs, items  *)
(* and faults.                                                             *)
EXTENDS NestedFlow, WellFoundedInduction, TLAPS

\* The worker is at the flow, or at a job of it.
At(f) == worker.pc # "idle" /\ worker.flow = f

\* The worker is at a flow, with a job of that flow if it has one.
WorkerInv ==
    /\ worker.pc # "idle" => /\ worker.flow \in Pushed /\ IsFlow(worker.flow)
                             /\ worker.job # 0 => /\ worker.job \in Pushed
                                                  /\ job[worker.job].parent = worker.flow
    /\ worker.pc = "run" => worker.job # 0 /\ ~IsFlow(worker.job)

\* The statuses agree with the modules that they point at: the branches and the items
\* of a loop are counted, and one is in progress only while the flow is past its start.
RangeInv ==
    /\ \A j \in Job \ Pushed : row[j] = "none" /\ flow_status[j] = NewStatus(FALSE)
    /\ \A j \in Pushed : row[j] # "none"
    /\ \A f \in Pushed : IsFlow(f) /\ Branching(f) => flow_status[f].len = Len(Current(f).inner)
    /\ \A f \in Pushed :
          IsFlow(f) /\ InProgress(f) /\ Current(f).kind = "whileloopflow" => flow_status[f].len = 0
    /\ \A f \in Pushed : IsFlow(f) /\ (row[f] = "queued" \/ IsPreprocessorStep(f)) => ~InProgress(f)
    /\ worker.pc \in {"start", "preprocessed"} => ~InProgress(worker.flow)
    /\ worker.pc = "push" /\ InProgress(worker.flow)
          => /\ Current(worker.flow).kind \in Loops \cup {"branchall"}
             /\ Current(worker.flow).kind # "whileloopflow"
                => flow_status[worker.flow].index + 1 < flow_status[worker.flow].len

\* What the monitor takes for a flow that has not started, and queues again.
NotStarted(f) ==
    /\ Size(f) > 0
    /\ \/ IsPreprocessorStep(f)
       \/ flow_status[f].step = 0 /\ flow_status[f].module = "WaitingForPriorSteps"

\* Some worker can find something to do about the job.
Busy(j) == row[j] = "queued" \/ (row[j] = "running" /\ ~IsFlow(j))

\* The monitor will queue the flow again: it has not started, and its worker is gone.
Lost(f) == IsFlow(f) /\ row[f] = "running" /\ NotStarted(f) /\ ping[f] # "null" /\ ~At(f)

\* The thread of control is here, or the monitor will put it here.
Holds(j) == Busy(j) \/ Lost(j)

\* There is one thread of control at most, and while the worker is at a flow it is there.
OneHolder == \A j, k \in Pushed : Holds(j) /\ Holds(k) => j = k

WorkerHolds ==
    worker.pc # "idle" => \A j \in Pushed : Holds(j) => worker.pc = "run" /\ worker.job = j

\* Until a flow has started, its jobs are runs of its preprocessor, and while one of
\* them is in the queue the flow has no ping.
FirstChildren ==
    \A c \in Pushed :
        LET p == job[c].parent IN
        p # 0 /\ InQueue(p) /\ NotStarted(p) =>
            /\ job[c].step = PreprocessorStep /\ ~IsFlow(c)
            /\ InQueue(c) => ping[p] = "null"

\* A transition is shorter than FLOW_ZOMBIE_TRANSITION_TIMEOUT.
NotStale ==
    worker.pc # "idle" /\ NotStarted(worker.flow) /\ row[worker.flow] = "running" =>
        ping[worker.flow] # "stale" \/ worker.flow \in canceled

\* One thread of control.
TokenInv == OneHolder /\ WorkerHolds /\ FirstChildren /\ NotStale

\* The job is in the queue, or the worker has not reported its end yet.
Live(c) == \/ InQueue(c)
           \/ worker.pc \in {"start", "push", "finish", "preprocessed"} /\ worker.flow = c
           \/ worker.pc = "run" /\ worker.job = c

\* A flow has one live job at most, and while it has one the worker is not at the flow.
OneLive ==
    \A c, d \in Pushed :
        job[c].parent # 0 /\ job[c].parent = job[d].parent /\ Live(c) /\ Live(d) => c = d

LiveWaited ==
    \A c \in Pushed : LET p == job[c].parent IN
        p # 0 /\ Live(c) => row[p] # "queued" /\ (At(p) => worker.pc = "run" /\ worker.job = c)

\* One live job below each flow.
ChildInv == OneLive /\ LiveWaited

\* The job is the one that the flow's status points at.
Matches(c, f) ==
    /\ job[c].parent = f /\ job[c].step = flow_status[f].step
    /\ job[c].iter = flow_status[f].index /\ job[c].len = flow_status[f].len
    /\ job[c].attempt = flow_status[f].fail_count

\* The live job, the one that is reported, and the one before the next iteration are the
\* one that the flow's status points at.
LiveMatches ==
    \A c \in Pushed : LET p == job[c].parent IN
        p # 0 /\ Live(c) /\ InQueue(p) => Matches(c, p)

ReportMatches ==
    worker.pc = "update" /\ InQueue(worker.flow) /\ InProgress(worker.flow) =>
        /\ worker.job # 0 /\ Matches(worker.job, worker.flow) /\ row[worker.job] \in Ended
        /\ worker.success => row[worker.job] # "failure" \/ worker.job \in broken

PushMatches ==
    worker.pc = "push" /\ InProgress(worker.flow) =>
        \E c \in Pushed : Matches(c, worker.flow) /\ row[c] \in Ended /\ Went(c)

\* One iteration at a time.
IterInv == LiveMatches /\ ReportMatches /\ PushMatches
-----------------------------------------------------------------------------
(* The shape of flows, and what the actions write.                         *)

(* The jobs are numbered from 1. *)
LEMMA JobFacts ==
  ASSUME TypeOK, NEW j \in Pushed
  PROVE  /\ j \in Job /\ j \in Nat \ {0}
         /\ Pushed = 1 .. Len(job) /\ Pushed \subseteq Job
         /\ job[j] \in JobRecord
         /\ job[j].parent \in Nat /\ job[j].parent < j
         /\ job[j].parent # 0 => job[j].parent \in Pushed /\ IsFlow(job[j].parent)
         /\ job[j].parent = 0 => IsFlow(j)
         /\ flow_status[j] \in FlowStatus
         /\ row[j] \in {"none", "queued", "running"} \cup Ended
  BY NestedFlowAssumption, SMTT(30) DEF TypeOK, Pushed, Job

(* A job's number and its parent's are in the worker's range. *)
LEMMA JobRange ==
  ASSUME TypeOK, NEW j \in Pushed
  PROVE  j \in Job /\ j \in 0 .. MaxJobs /\ job[j].parent \in 0 .. MaxJobs /\ 0 \in 0 .. MaxJobs
  BY JobFacts, NestedFlowAssumption DEF Job

(* A flow's modules are modules, whatever index is asked for. *)
LEMMA ModuleFacts ==
  ASSUME TypeOK, NEW f \in Pushed, IsFlow(f)
  PROVE  /\ Value(f) \in FlowValue /\ Size(f) \in Nat
         /\ \A i \in Int : /\ ModuleAt(f, i) \in Module
                           /\ ModuleAt(f, i).kind \in {"flow"} \cup Loops
                                 => Len(ModuleAt(f, i).inner) = 1
         /\ Current(f) \in Module
         /\ Current(f).kind \in {"flow"} \cup Loops => Len(Current(f).inner) = 1
<1>1. job[f].flow \in DOMAIN Flows
  BY JobFacts DEF JobRecord, IsFlow, IsStep
<1>2. Value(f) \in FlowValue
  BY <1>1, NestedFlowAssumption DEF Value
<1>3. Value(f).modules \in Seq(Module) /\ Size(f) \in Nat
  BY <1>2 DEF FlowValue, Size
<1>4. Plain \in Module /\ Plain.kind = "script"
  BY DEF Plain, Module, Kinds, Stops
<1>5. ASSUME NEW i \in Int
      PROVE  /\ ModuleAt(f, i) \in Module
             /\ ModuleAt(f, i).kind \in {"flow"} \cup Loops => Len(ModuleAt(f, i).inner) = 1
  <2>1. CASE 0 <= i /\ i < Size(f)
    <3>1. i + 1 \in 1 .. Len(Value(f).modules)
      BY <1>3, <2>1 DEF Size
    <3>2. i + 1 \in DOMAIN Flows[job[f].flow].modules
      BY <1>3, <3>1 DEF Value
    <3>3. Value(f).modules[i + 1] \in Module
      BY <1>3, <3>1
    <3>4. ModuleAt(f, i) = Flows[job[f].flow].modules[i + 1]
      BY <2>1 DEF ModuleAt, Value
    <3> QED BY <1>1, <3>2, <3>3, <3>4, NestedFlowAssumption DEF Value
  <2>2. CASE ~(0 <= i /\ i < Size(f))
    BY <1>4, <2>2 DEF ModuleAt, Loops
  <2> QED BY <2>1, <2>2
<1>6. flow_status[f].step \in Int
  BY JobFacts DEF FlowStatus, PreprocessorStep
<1>7. Current(f) = ModuleAt(f, flow_status[f].step)
  BY DEF Current
<1> QED BY <1>2, <1>3, <1>5, <1>6, <1>7

(* commit_completed_job ends one job and stamps at most the flow above. *)
LEMMA CompleteEffect ==
  ASSUME TypeOK, NEW j \in Pushed, NEW s \in Ended, Complete(j, s)
  PROVE  /\ row' \in [Job -> {"none", "queued", "running"} \cup Ended]
         /\ ping' \in [Job -> {"null", "fresh", "stale"}]
         /\ canceled' \subseteq Pushed
         /\ row'[j] = s /\ \A k \in Job \ {j} : row'[k] = row[k]
         /\ canceled' = canceled \ {j}
         /\ ping'[j] = "null"
         /\ \A k \in Job \ {j} :
               ping'[k] = IF k = job[j].parent /\ InQueue(k) /\ k \notin canceled
                            THEN "fresh" ELSE ping[k]
  BY JobFacts DEF TypeOK, Complete

\* What every proof starts from.
Base == TypeOK /\ WorkerInv /\ RangeInv

\* The variables that most actions leave alone.
Rest == <<job, kills, history, broken>>

(* A flow that is pulled is started, or refused because it was cancelled. *)
LEMMA PullFlowEffect ==
  ASSUME Base, NEW f \in Pushed, PullFlow(f)
  PROVE  /\ worker.pc = "idle" /\ IsFlow(f) /\ row[f] = "queued"
         /\ UNCHANGED <<Rest, flow_status, faults>>
         /\ worker' \in WorkerState
         /\ \/ /\ row' = [row EXCEPT ![f] = "running"] /\ ping' = [ping EXCEPT ![f] = "fresh"]
               /\ canceled' = canceled
               /\ worker'.flow = f /\ worker'.job = 0
               /\ \/ worker'.pc = "start"
                  \/ worker'.pc = "update" /\ ~worker'.success /\ f \in canceled
            \/ /\ job[f].parent # 0 /\ Complete(f, "canceled")
               /\ worker'.pc = "update" /\ worker'.flow = job[f].parent
               /\ worker'.job = f /\ ~worker'.success
<1>1. f \in Job /\ f \in 0 .. MaxJobs /\ job[f].parent \in 0 .. MaxJobs /\ 0 \in 0 .. MaxJobs
  BY JobRange DEF Base
<1>2. worker.pc = "idle" /\ IsFlow(f) /\ row[f] = "queued" /\ InQueue(f)
      /\ UNCHANGED <<Rest, flow_status, faults>>
  BY DEF PullFlow, InQueue, Rest
<1>3. CASE f \notin canceled
  BY <1>1, <1>2, <1>3 DEF PullFlow, Idle, WorkerState, Stops
<1>4. CASE f \in canceled /\ job[f].parent = 0
  BY <1>1, <1>2, <1>4 DEF PullFlow, HandleJobError, Idle, WorkerState, Stops
<1>5. CASE f \in canceled /\ job[f].parent # 0
  BY <1>1, <1>2, <1>5 DEF PullFlow, HandleJobError, Idle, WorkerState, Stops
<1> QED BY <1>3, <1>4, <1>5

(* A step that is pulled is run. *)
LEMMA PullStepEffect ==
  ASSUME Base, NEW j \in Pushed, PullStep(j)
  PROVE  /\ worker.pc = "idle" /\ ~IsFlow(j) /\ row[j] = "queued" /\ job[j].parent # 0
         /\ UNCHANGED <<Rest, flow_status, faults, canceled, ping>>
         /\ worker' \in WorkerState
         /\ row' = [row EXCEPT ![j] = "running"]
         /\ worker'.pc = "run" /\ worker'.flow = job[j].parent /\ worker'.job = j
  BY JobRange, JobFacts DEF Base, PullStep, Rest, Idle, WorkerState, Stops

(* The end of a step is reported to its flow. *)
LEMMA FinishStepEffect ==
  ASSUME Base, NEW s \in Ended \ {"skipped"}, FinishStep(s)
  PROVE  /\ worker.pc = "run" /\ worker.job \in Pushed /\ ~IsFlow(worker.job)
         /\ job[worker.job].parent = worker.flow /\ worker.flow \in Pushed
         /\ UNCHANGED <<Rest, flow_status, faults>>
         /\ worker' \in WorkerState
         /\ worker'.pc = "update" /\ worker'.flow = worker.flow /\ worker'.job = worker.job
         /\ \/ /\ InQueue(worker.job) /\ Complete(worker.job, s)
               /\ worker'.success = (s = "success")
            \/ /\ ~InQueue(worker.job) /\ ~worker'.success
               /\ UNCHANGED <<row, canceled, ping>>
<1>1. worker.pc = "run" /\ worker \in WorkerState /\ UNCHANGED <<Rest, flow_status, faults>>
  BY DEF FinishStep, Base, TypeOK, Rest
<1>2. /\ worker.job \in Pushed /\ ~IsFlow(worker.job)
      /\ job[worker.job].parent = worker.flow /\ worker.flow \in Pushed
  BY <1>1 DEF Base, WorkerInv
<1>3. CASE InQueue(worker.job)
  BY <1>1, <1>2, <1>3 DEF FinishStep, WorkerState
<1>4. CASE ~InQueue(worker.job)
  BY <1>1, <1>2, <1>4 DEF FinishStep, WorkerState
<1> QED BY <1>3, <1>4

(* The worker goes on at the flow it has reported to. *)
LEMMA GoOnEffect ==
  ASSUME TypeOK, NEW t \in WorkerState, NEW success \in BOOLEAN, NEW stop \in Stops,
         NEW inc \in BOOLEAN, GoOn(t, success, stop, inc)
  PROVE  /\ worker' \in WorkerState
         /\ worker'.flow = t.flow /\ worker'.job = t.job /\ worker'.success = success
         /\ worker'.unrecoverable = t.unrecoverable /\ worker'.stop = stop
         /\ worker'.handler = IsFailureStep(t.flow)
         /\ \/ worker'.pc = "push" /\ ShouldContinue(t, success, stop, inc)
            \/ worker'.pc = "finish" /\ ~ShouldContinue(t, success, stop, inc)
<1>1. Triggered(t) \in BOOLEAN /\ IsFailureStep(t.flow) \in BOOLEAN
  BY DEF Triggered, IsFailureStep, WorkerState
<1> QED BY <1>1 DEF GoOn, WorkerState

(* The kinds of stop are kinds of stop. *)
LEMMA StopTypes ==
  ASSUME TypeOK, NEW t \in WorkerState, t.flow \in Pushed, IsFlow(t.flow)
  PROVE  /\ StopEarly(t) \subseteq Stops
         /\ \A stop \in Stops : StopAtEnd(t, stop) \subseteq Stops
         /\ \A stop \in Stops : Succeeds(t, stop) \in BOOLEAN /\ IncStep(t, stop) \in BOOLEAN
<1>1. Current(t.flow) \in Module
  BY ModuleFacts
<1>2. StopEarly(t) \subseteq Stops
  BY <1>1 DEF StopEarly, WorkerState, Module, Stops
<1>3. \A stop \in Stops : StopAtEnd(t, stop) \subseteq Stops
  BY <1>1 DEF StopAtEnd, Module, Stops
<1>4. \A stop \in Stops : Succeeds(t, stop) \in BOOLEAN /\ IncStep(t, stop) \in BOOLEAN
  BY <1>1 DEF Succeeds, IncStep, ContinueOnError, WorkerState, Module
<1> QED BY <1>2, <1>3, <1>4

(* A report ends there, goes on with the next iteration, or ends the module. *)
LEMMA UpdateStatusEffect ==
  ASSUME Base, UpdateStatus
  PROVE  /\ worker.pc = "update" /\ worker \in WorkerState
         /\ worker.flow \in Pushed /\ IsFlow(worker.flow)
         /\ UNCHANGED <<job, row, canceled, ping, kills, broken, faults>>
         /\ history \subseteq history'
         /\ worker' \in WorkerState
         /\ \/ /\ ~InQueue(worker.flow) /\ worker' = Idle /\ UNCHANGED <<flow_status, history>>
            \/ /\ InQueue(worker.flow) /\ UNCHANGED <<flow_status, history>>
               /\ worker'.flow = worker.flow /\ worker'.job = worker.job
               /\ worker'.success = worker.success
               /\ \E stop \in StopEarly(worker) : GoesOn(worker, stop)
               /\ \/ worker'.pc = "finish"
                  \/ /\ worker'.pc = "push"
                     /\ ShouldContinue(worker, worker.success, "none", FALSE)
            \/ /\ InQueue(worker.flow)
               /\ worker'.flow = worker.flow /\ worker'.job = worker.job
               /\ \E stop \in Stops :
                    /\ EndModule(worker, stop)
                    /\ \/ /\ IsPreprocessorStep(worker.flow) /\ Succeeds(worker, stop)
                          /\ worker'.pc = "preprocessed"
                       \/ /\ ~(IsPreprocessorStep(worker.flow) /\ Succeeds(worker, stop))
                          /\ worker'.pc \in {"push", "finish"}
                          /\ worker'.success = Succeeds(worker, stop)
                          /\ worker'.handler = IsFailureStep(worker.flow)
                          /\ worker'.pc = "push" =>
                                ShouldContinue(worker, Succeeds(worker, stop), stop,
                                               IncStep(worker, stop))
<1>1. /\ worker.pc = "update" /\ worker \in WorkerState
      /\ UNCHANGED <<job, row, canceled, ping, kills, broken, faults>>
  BY DEF UpdateStatus, Base, TypeOK
<1>2. worker.flow \in Pushed /\ IsFlow(worker.flow)
  BY <1>1 DEF Base, WorkerInv
<1>3. /\ StopEarly(worker) \subseteq Stops
      /\ \A stop \in Stops : StopAtEnd(worker, stop) \subseteq Stops
      /\ \A stop \in Stops : Succeeds(worker, stop) \in BOOLEAN /\ IncStep(worker, stop) \in BOOLEAN
  BY <1>1, <1>2, StopTypes DEF Base
<1>4. CASE ~InQueue(worker.flow)
  <2>1. worker' = Idle /\ UNCHANGED <<flow_status, history>>
    BY <1>4 DEF UpdateStatus
  <2>2. Idle \in WorkerState
    BY NestedFlowAssumption DEF Idle, WorkerState, Stops
  <2> QED BY <1>1, <1>2, <1>4, <2>1, <2>2
<1>5. CASE InQueue(worker.flow)
  <2>1. PICK stop \in StopEarly(worker) :
          \/ /\ GoesOn(worker, stop)
             /\ GoOn(worker, worker.success, "none", FALSE)
             /\ UNCHANGED <<flow_status, history>>
          \/ /\ history \subseteq history'
             /\ \E s \in StopAtEnd(worker, stop) :
                  /\ EndModule(worker, s)
                  /\ IF IsPreprocessorStep(worker.flow) /\ Succeeds(worker, s)
                       THEN worker' = [worker EXCEPT !.pc = "preprocessed"]
                       ELSE GoOn(worker, Succeeds(worker, s), s, IncStep(worker, s))
    BY <1>5 DEF UpdateStatus
  <2>2. CASE /\ GoesOn(worker, stop)
             /\ GoOn(worker, worker.success, "none", FALSE)
             /\ UNCHANGED <<flow_status, history>>
    <3>1. worker.success \in BOOLEAN /\ "none" \in Stops
      BY <1>1 DEF WorkerState, Stops
    <3>2. /\ worker' \in WorkerState
          /\ worker'.flow = worker.flow /\ worker'.job = worker.job
          /\ worker'.success = worker.success
          /\ \/ worker'.pc = "push" /\ ShouldContinue(worker, worker.success, "none", FALSE)
             \/ worker'.pc = "finish"
      BY <1>1, <2>2, <3>1, GoOnEffect DEF Base
    <3> QED BY <1>1, <1>2, <1>5, <2>2, <3>2
  <2>3. CASE /\ history \subseteq history'
             /\ \E s \in StopAtEnd(worker, stop) :
                  /\ EndModule(worker, s)
                  /\ IF IsPreprocessorStep(worker.flow) /\ Succeeds(worker, s)
                       THEN worker' = [worker EXCEPT !.pc = "preprocessed"]
                       ELSE GoOn(worker, Succeeds(worker, s), s, IncStep(worker, s))
    <3>1. PICK s \in StopAtEnd(worker, stop) :
                  /\ EndModule(worker, s)
                  /\ IF IsPreprocessorStep(worker.flow) /\ Succeeds(worker, s)
                       THEN worker' = [worker EXCEPT !.pc = "preprocessed"]
                       ELSE GoOn(worker, Succeeds(worker, s), s, IncStep(worker, s))
      BY <2>3
    <3>2. s \in Stops
      BY <1>3
    <3>3. CASE IsPreprocessorStep(worker.flow) /\ Succeeds(worker, s)
      <4>1. worker' = [worker EXCEPT !.pc = "preprocessed"]
        BY <3>1, <3>3
      <4>2. /\ worker' \in WorkerState /\ worker'.pc = "preprocessed"
            /\ worker'.flow = worker.flow /\ worker'.job = worker.job
        BY <1>1, <4>1 DEF WorkerState
      <4> QED BY <1>1, <1>2, <1>5, <2>3, <3>1, <3>2, <3>3, <4>2
    <3>4. CASE ~(IsPreprocessorStep(worker.flow) /\ Succeeds(worker, s))
      <4>1. GoOn(worker, Succeeds(worker, s), s, IncStep(worker, s))
        BY <3>1, <3>4
      <4>2. /\ worker' \in WorkerState
            /\ worker'.flow = worker.flow /\ worker'.job = worker.job
            /\ worker'.success = Succeeds(worker, s)
            /\ worker'.handler = IsFailureStep(worker.flow)
            /\ \/ /\ worker'.pc = "push"
                  /\ ShouldContinue(worker, Succeeds(worker, s), s, IncStep(worker, s))
               \/ worker'.pc = "finish"
        BY <1>1, <1>3, <3>2, <4>1, GoOnEffect DEF Base
      <4> QED BY <1>1, <1>2, <1>5, <2>3, <3>1, <3>2, <3>4, <4>2
    <3> QED BY <3>3, <3>4
  <2> QED BY <2>1, <2>2, <2>3
<1> QED BY <1>4, <1>5

\* The flow f is reported to the flow above it, if there is one.
ReportsTo(f) ==
    \/ job[f].parent = 0 /\ worker' = Idle
    \/ /\ job[f].parent # 0 /\ worker'.pc = "update"
       /\ worker'.flow = job[f].parent /\ worker'.job = f

(* What a flow that has ended reports to the flow above it. *)
LEMMA ReportEffect ==
  ASSUME TypeOK, worker.flow \in Pushed, worker' = ReportToParent(worker)
  PROVE  /\ worker' \in WorkerState /\ ReportsTo(worker.flow)
         /\ job[worker.flow].parent # 0 =>
               worker'.success = (worker.success /\ ~worker.handler)
<1>1. /\ worker.flow \in 0 .. MaxJobs /\ job[worker.flow].parent \in 0 .. MaxJobs
      /\ 0 \in 0 .. MaxJobs
  BY JobRange
<1>2. worker \in WorkerState
  BY DEF TypeOK
<1>3. CASE job[worker.flow].parent = 0
  BY <1>1, <1>3 DEF ReportToParent, ReportsTo, Idle, WorkerState, Stops
<1>4. CASE job[worker.flow].parent # 0
  <2>1. worker' = [Idle EXCEPT !.pc = "update", !.flow = job[worker.flow].parent,
                      !.job = worker.flow,
                      !.success = worker.success /\ ~worker.handler,
                      !.stop = IF worker.stop = "error" THEN "stop" ELSE worker.stop,
                      !.triggered = worker.triggered \/ worker.handler]
    BY <1>4 DEF ReportToParent
  <2>2. /\ worker'.pc = "update" /\ worker'.flow = job[worker.flow].parent
        /\ worker'.job = worker.flow
        /\ worker'.success = (worker.success /\ ~worker.handler)
    BY <2>1 DEF Idle
  <2>3. worker' \in WorkerState
    BY <1>1, <1>2, <2>1 DEF Idle, WorkerState, Stops
  <2> QED BY <1>4, <2>2, <2>3 DEF ReportsTo
<1> QED BY <1>3, <1>4

(* A flow that is finished is completed and reported, unless it has left the queue. *)
LEMMA FinishFlowEffect ==
  ASSUME Base, NEW recover \in BOOLEAN, FinishFlow(recover)
  PROVE  /\ worker.pc = "finish" /\ worker.flow \in Pushed /\ IsFlow(worker.flow)
         /\ UNCHANGED <<Rest, flow_status, faults>>
         /\ worker' \in WorkerState
         /\ \/ /\ InQueue(worker.flow) /\ ReportsTo(worker.flow)
               /\ \E s \in Ended :
                    /\ Complete(worker.flow, s)
                    /\ s = "success" =>
                          worker.success /\ (worker.handler => recover) /\ worker.flow \notin canceled
                    /\ job[worker.flow].parent # 0 => (worker'.success => s # "failure")
            \/ /\ ~InQueue(worker.flow) /\ worker' = Idle
               /\ UNCHANGED <<row, canceled, ping>>
<1>1. /\ worker.pc = "finish" /\ UNCHANGED <<Rest, flow_status, faults>>
      /\ worker \in WorkerState
  BY DEF FinishFlow, Rest, Base, TypeOK
<1>2. worker.flow \in Pushed /\ IsFlow(worker.flow)
  BY <1>1 DEF Base, WorkerInv
<1>3. CASE InQueue(worker.flow)
  <2> DEFINE s == CASE worker.flow \in canceled -> "canceled"
                    [] worker.flow \notin canceled /\ worker.stop = "skip" -> "skipped"
                    [] OTHER -> IF worker.success /\ (worker.handler => recover)
                                  THEN "success" ELSE "failure"
  <2>1. Complete(worker.flow, s) /\ worker' = ReportToParent(worker)
    BY <1>3 DEF FinishFlow
  <2>2. /\ worker' \in WorkerState /\ ReportsTo(worker.flow)
        /\ job[worker.flow].parent # 0 =>
              worker'.success = (worker.success /\ ~worker.handler)
    BY <1>2, <2>1, ReportEffect DEF Base
  <2>3. /\ s \in Ended
        /\ s = "success" =>
              worker.success /\ (worker.handler => recover) /\ worker.flow \notin canceled
        /\ worker.success /\ ~worker.handler => s # "failure"
    BY DEF Ended
  <2> HIDE DEF s
  <2> QED BY <1>1, <1>2, <1>3, <2>1, <2>2, <2>3
<1>4. CASE ~InQueue(worker.flow)
  <2>1. worker' = Idle /\ UNCHANGED <<row, canceled, ping>>
    BY <1>4 DEF FinishFlow
  <2>2. Idle \in WorkerState
    BY NestedFlowAssumption DEF Idle, WorkerState, Stops
  <2> QED BY <1>1, <1>2, <1>4, <2>1, <2>2
<1> QED BY <1>3, <1>4

(* An error of handle_flow ends the flow; one just pulled without a flow above it is reported to itself. *)
LEMMA PushFailsEffect ==
  ASSUME Base, PushFails
  PROVE  /\ worker.pc \in {"start", "push"} /\ worker.flow \in Pushed /\ IsFlow(worker.flow)
         /\ UNCHANGED <<job, flow_status, kills, history>>
         /\ worker' \in WorkerState
         /\ faults' \in 0 .. MaxFaults /\ faults <= faults'
         /\ broken \subseteq broken' /\ broken' \subseteq Pushed
         /\ \/ /\ worker.pc = "start" /\ job[worker.flow].parent = 0
               /\ row' = [row EXCEPT ![worker.flow] =
                              IF InQueue(worker.flow) THEN "running" ELSE row[worker.flow]]
               /\ ping' = [ping EXCEPT ![worker.flow] =
                              IF row[worker.flow] = "queued" THEN "fresh" ELSE ping[worker.flow]]
               /\ canceled' = canceled
               /\ worker'.pc = "update" /\ worker'.flow = worker.flow /\ worker'.job = 0
               /\ ~worker'.success
            \/ /\ ReportsTo(worker.flow)
               /\ \/ InQueue(worker.flow) /\ Complete(worker.flow, "failure")
                  \/ ~InQueue(worker.flow) /\ UNCHANGED <<row, canceled, ping>>
               /\ job[worker.flow].parent # 0 => ~worker'.success \/ worker.flow \in broken'
<1>1. /\ worker.pc \in {"start", "push"} /\ UNCHANGED <<job, flow_status, kills, history>>
      /\ worker \in WorkerState /\ faults \in 0 .. MaxFaults /\ broken \subseteq Pushed
  BY DEF PushFails, Base, TypeOK
<1>2. worker.flow \in Pushed /\ IsFlow(worker.flow)
  BY <1>1 DEF Base, WorkerInv
<1>3. faults' \in 0 .. MaxFaults /\ faults <= faults'
  BY <1>1, NestedFlowAssumption DEF PushFails
<1>4. /\ worker.flow \in 0 .. MaxJobs /\ job[worker.flow].parent \in 0 .. MaxJobs
      /\ 0 \in 0 .. MaxJobs
  BY <1>2, JobRange DEF Base
<1>5. CASE worker.pc = "start"
  <2>1. HandleJobError(worker.flow, "failure") /\ broken' = broken
    BY <1>5 DEF PushFails
  <2>2. CASE job[worker.flow].parent = 0
    <3>1. /\ worker' = [Idle EXCEPT !.pc = "update", !.flow = worker.flow, !.job = 0,
                                    !.success = FALSE]
          /\ row' = [row EXCEPT ![worker.flow] =
                              IF InQueue(worker.flow) THEN "running" ELSE row[worker.flow]]
          /\ ping' = [ping EXCEPT ![worker.flow] =
                              IF row[worker.flow] = "queued" THEN "fresh" ELSE ping[worker.flow]]
          /\ canceled' = canceled
      BY <2>1, <2>2 DEF HandleJobError
    <3>2. /\ worker' \in WorkerState /\ worker'.pc = "update" /\ worker'.flow = worker.flow
          /\ worker'.job = 0 /\ ~worker'.success
      BY <1>4, <3>1 DEF Idle, WorkerState, Stops
    <3> QED BY <1>1, <1>2, <1>3, <1>5, <2>1, <2>2, <3>1, <3>2
  <2>3. CASE job[worker.flow].parent # 0
    <3>1. /\ worker' = [Idle EXCEPT !.pc = "update", !.flow = job[worker.flow].parent,
                                    !.job = worker.flow, !.success = FALSE]
      BY <2>1, <2>3 DEF HandleJobError
    <3>2. /\ worker' \in WorkerState /\ worker'.pc = "update"
          /\ worker'.flow = job[worker.flow].parent
          /\ worker'.job = worker.flow /\ ~worker'.success
      BY <1>4, <3>1 DEF Idle, WorkerState, Stops
    <3>3. \/ InQueue(worker.flow) /\ Complete(worker.flow, "failure")
          \/ ~InQueue(worker.flow) /\ UNCHANGED <<row, canceled, ping>>
      <4>1. CASE InQueue(worker.flow)
        BY <2>1, <2>3, <4>1 DEF HandleJobError
      <4>2. CASE ~InQueue(worker.flow)
        BY <2>1, <2>3, <4>2 DEF HandleJobError, InQueue, Base, TypeOK
      <4> QED BY <4>1, <4>2
    <3> QED BY <1>1, <1>2, <1>3, <2>1, <2>3, <3>2, <3>3 DEF ReportsTo
  <2> QED BY <2>2, <2>3
<1>6. CASE worker.pc = "push"
  BY <1>1, <1>2, <1>3, <1>6, ReportEffect DEF PushFails, Base
<1> QED BY <1>1, <1>5, <1>6

(* What may be pushed next: nothing in progress in a preprocessor or failure module, and the next index of the same length in a loop or branchall that goes on. *)
LEMMA NextFacts ==
  ASSUME Base, NEW f \in Pushed, IsFlow(f), f = worker.flow, worker.pc \in {"start", "push"},
         NEW n \in NextFlowTransform(f), n # EmptyInnerFlows
  PROVE  /\ n.flow \in DOMAIN Flows \cup {"script", "identity"}
         /\ n.index \in Nat /\ n.len \in Nat /\ (n.len > 0 => n.index < n.len)
         /\ n.module \in {"WaitingForExecutor", "InProgress"}
         /\ n.module = "WaitingForExecutor" => n.index = 0 /\ n.len = 0
         /\ n.module = "InProgress" =>
               /\ ~RunsHandler(f) /\ ~IsPreprocessorStep(f)
               /\ Current(f).kind = "branchall" => n.len = Len(Current(f).inner)
               /\ Current(f).kind = "whileloopflow" => n.len = 0
               /\ Current(f).kind \in Loops \cup {"branchone", "branchall"}
         /\ n.index > 0 => /\ InProgress(f) /\ worker.pc = "push"
                           /\ n.index = flow_status[f].index + 1 /\ n.len = flow_status[f].len
         /\ IsPreprocessorStep(f) => n.flow = "script" /\ n.module = "WaitingForExecutor"
<1> DEFINE m == IF RunsHandler(f) THEN Plain ELSE Current(f)
<1>1. /\ Current(f) \in Module
      /\ Current(f).kind \in {"flow"} \cup Loops => Len(Current(f).inner) = 1
  BY ModuleFacts DEF Base
<1>2. Plain.kind = "script" /\ Plain.inner = <<>> /\ Plain \in Module /\ ~Plain.skip_if
  BY DEF Plain, Module, Kinds, Stops
<1>3. m \in Module /\ (m.kind \in {"flow"} \cup Loops => Len(m.inner) = 1)
  BY <1>1, <1>2 DEF Loops
<1>4. flow_status[f] \in FlowStatus
  BY JobFacts DEF Base
<1>5. IsPreprocessorStep(f) => m = Plain
  BY DEF IsPreprocessorStep, PreprocessorStep, Current, ModuleAt
<1>6. m.inner \in Seq(DOMAIN Flows \cup {"script"}) /\ m.kind \in Kinds
  BY <1>3 DEF Module
<1>7. InProgress(f) => ~RunsHandler(f) /\ m = Current(f) /\ worker.pc = "push"
  BY DEF InProgress, RunsHandler, Base, RangeInv
<1>8. InProgress(f) => /\ m.kind \in Loops \cup {"branchall"}
                       /\ m.kind # "whileloopflow" => flow_status[f].index + 1 < flow_status[f].len
                       /\ m.kind = "whileloopflow" => flow_status[f].len = 0
                       /\ m.kind = "branchall" => flow_status[f].len = Len(m.inner)
  BY <1>7 DEF Base, RangeInv, Branching
<1>9. /\ NextIndex(f) \in Nat /\ (~InProgress(f) => NextIndex(f) = 0)
      /\ InProgress(f) => NextIndex(f) = flow_status[f].index + 1
  BY <1>4 DEF NextIndex, FlowStatus
<1>10. n \in (IF m.skip_if THEN {NextOf("identity", "WaitingForExecutor", 0, 0)} ELSE {}) \cup
             CASE m.kind = "script" -> {NextOf("script", "WaitingForExecutor", 0, 0)}
               [] m.kind = "flow" -> {NextOf(m.inner[1], "WaitingForExecutor", 0, 0)}
               [] m.kind \in {"branchone", "branchall"} -> NextBranch(f, m)
               [] m.kind \in Loops -> NextIteration(f, m)
  BY DEF NextFlowTransform
<1> HIDE DEF m
<1>11. \/ m.skip_if /\ n = NextOf("identity", "WaitingForExecutor", 0, 0)
       \/ m.kind = "script" /\ n = NextOf("script", "WaitingForExecutor", 0, 0)
       \/ m.kind = "flow" /\ n = NextOf(m.inner[1], "WaitingForExecutor", 0, 0)
       \/ m.kind \in {"branchone", "branchall"} /\ n \in NextBranch(f, m)
       \/ m.kind \in Loops /\ n \in NextIteration(f, m)
  BY <1>6, <1>10 DEF Kinds, Loops
<1>12. m.kind # "script" => m = Current(f) /\ ~RunsHandler(f) /\ ~IsPreprocessorStep(f)
  BY <1>2, <1>5 DEF m
<1>13. CASE m.skip_if /\ n = NextOf("identity", "WaitingForExecutor", 0, 0)
  BY <1>2, <1>5, <1>13 DEF NextOf
<1>14. CASE m.kind = "script" /\ n = NextOf("script", "WaitingForExecutor", 0, 0)
  BY <1>14 DEF NextOf
<1>15. CASE m.kind = "flow" /\ n = NextOf(m.inner[1], "WaitingForExecutor", 0, 0)
  BY <1>3, <1>6, <1>12, <1>15 DEF NextOf
<1>16. CASE m.kind = "branchone" /\ n \in NextBranch(f, m)
  BY <1>6, <1>12, <1>16 DEF NextBranch, InnerFlow, NextOf, Loops
<1>17. CASE m.kind = "branchall" /\ n \in NextBranch(f, m)
  <2>1. m.inner # <<>> /\ n = NextOf(m.inner[NextIndex(f) + 1], "InProgress", NextIndex(f), Len(m.inner))
    BY <1>17 DEF NextBranch
  <2>2. Len(m.inner) \in Nat /\ Len(m.inner) > 0
    BY <1>6, <2>1
  <2>3. NextIndex(f) < Len(m.inner)
    BY <1>4, <1>8, <1>9, <1>17, <2>2 DEF FlowStatus
  <2>4. m.inner[NextIndex(f) + 1] \in DOMAIN Flows \cup {"script"}
    BY <1>6, <1>9, <2>2, <2>3
  <2>5. /\ n.flow \in DOMAIN Flows \cup {"script"} /\ n.module = "InProgress"
        /\ n.index = NextIndex(f) /\ n.len = Len(m.inner)
    BY <2>1, <2>4 DEF NextOf
  <2>6. n.index > 0 => /\ InProgress(f) /\ worker.pc = "push"
                       /\ n.index = flow_status[f].index + 1 /\ n.len = flow_status[f].len
    BY <1>7, <1>8, <1>9, <1>17, <2>5
  <2> QED BY <1>9, <1>12, <1>17, <2>2, <2>3, <2>5, <2>6 DEF Loops
<1>18. CASE m.kind = "whileloopflow" /\ n \in NextIteration(f, m)
  <2>1. n = InnerFlow(m.inner[1], NextIndex(f), 0)
    BY <1>18 DEF NextIteration
  <2>2. n = NextOf(m.inner[1], "InProgress", NextIndex(f), 0)
    BY <2>1 DEF InnerFlow
  <2>3. m.inner[1] \in DOMAIN Flows \cup {"script"}
    BY <1>3, <1>6, <1>18 DEF Loops
  <2>4. /\ n.flow \in DOMAIN Flows \cup {"script"} /\ n.module = "InProgress"
        /\ n.index = NextIndex(f) /\ n.len = 0
    BY <2>2, <2>3 DEF NextOf
  <2>5. n.index > 0 => /\ InProgress(f) /\ worker.pc = "push"
                       /\ n.index = flow_status[f].index + 1 /\ n.len = flow_status[f].len
    BY <1>7, <1>8, <1>9, <1>18, <2>4
  <2> QED BY <1>9, <1>12, <1>18, <2>4, <2>5 DEF Loops
<1>19. CASE m.kind = "forloopflow" /\ n \in NextIteration(f, m)
  <2>1. PICK k \in ItemCounts(f) :
          n = IF k = 0 THEN EmptyInnerFlows ELSE InnerFlow(m.inner[1], NextIndex(f), k)
    BY <1>19 DEF NextIteration
  <2>2. k # 0 /\ n = NextOf(m.inner[1], "InProgress", NextIndex(f), k)
    BY <2>1 DEF InnerFlow
  <2>3. m.inner[1] \in DOMAIN Flows \cup {"script"}
    BY <1>3, <1>6, <1>19 DEF Loops
  <2>4. MaxItems \in Nat
    BY NestedFlowAssumption
  <2>5. k \in Nat /\ (InProgress(f) => k = flow_status[f].len)
    BY <1>4, <2>4 DEF ItemCounts, FlowStatus
  <2>6. /\ n.flow \in DOMAIN Flows \cup {"script"} /\ n.module = "InProgress"
        /\ n.index = NextIndex(f) /\ n.len = k
    BY <2>2, <2>3 DEF NextOf
  <2>7. NextIndex(f) < k
    BY <1>4, <1>8, <1>9, <1>19, <2>2, <2>5 DEF FlowStatus
  <2>8. n.index > 0 => /\ InProgress(f) /\ worker.pc = "push"
                       /\ n.index = flow_status[f].index + 1 /\ n.len = flow_status[f].len
    BY <1>7, <1>9, <2>5, <2>6
  <2> QED BY <1>9, <1>12, <1>19, <2>5, <2>6, <2>7, <2>8 DEF Loops
<1> QED BY <1>11, <1>13, <1>14, <1>15, <1>16, <1>17, <1>18, <1>19 DEF Loops

\* The module that is pushed next, and its attempt.
PushedStep(f) == IF RunsHandler(f) THEN Size(f) ELSE flow_status[f].step
Attempt(f) == flow_status[f].fail_count + IF Retries(f) THEN 1 ELSE 0

(* A push adds one job below the flow, points the flow's status at it, and takes the flow's ping away. *)
LEMMA PushNextEffect ==
  ASSUME Base, PushNext
  PROVE  LET f == worker.flow  q == Len(job) + 1 IN
         /\ worker.pc \in {"start", "push"} /\ f \in Pushed /\ IsFlow(f)
         /\ ~HasNoModules(f) /\ ~HandlerIsMissing(f)
         /\ UNCHANGED <<canceled, kills, history, broken, faults>> /\ worker' = Idle
         /\ row' = [row EXCEPT ![q] = "queued"] /\ ping' = [ping EXCEPT ![f] = "null"]
         /\ q \in Job /\ q \notin Pushed /\ Pushed' = Pushed \cup {q} /\ Len(job') = q
         /\ \A j \in Pushed : job'[j] = job[j] /\ j < q
         /\ PushedStep(f) \in Nat \cup {PreprocessorStep} /\ Attempt(f) \in Nat
         /\ \E n \in NextFlowTransform(f) \ {EmptyInnerFlows} :
               /\ job'[q] = JobOf(n.flow, f, PushedStep(f), n.index, n.len, Attempt(f))
               /\ job'[q] \in JobRecord /\ job' \in Seq(JobRecord)
               /\ SetModule(f, n, PushedStep(f), Attempt(f))
<1> DEFINE f == worker.flow  q == Len(job) + 1
<1>1. /\ worker.pc \in {"start", "push"} /\ ~HasNoModules(f) /\ ~HandlerIsMissing(f)
      /\ Len(job) < MaxJobs
      /\ UNCHANGED <<canceled, kills, history, broken, faults>> /\ worker' = Idle
      /\ row' = [row EXCEPT ![q] = "queued"] /\ ping' = [ping EXCEPT ![f] = "null"]
  BY DEF PushNext
<1>2. f \in Pushed /\ IsFlow(f)
  BY <1>1 DEF Base, WorkerInv
<1>3. /\ job \in Seq(JobRecord) /\ Pushed = 1 .. Len(job) /\ Len(job) \in Nat
  BY <1>2, JobFacts DEF Base, TypeOK
<1>4. MaxJobs \in Nat
  BY NestedFlowAssumption
<1>5. q \in Job /\ q \in Nat /\ q \notin Pushed /\ \A j \in Pushed : j < q
  BY <1>1, <1>3, <1>4 DEF Job
<1>6. Size(f) \in Nat /\ flow_status[f] \in FlowStatus
  BY <1>2, ModuleFacts, JobFacts DEF Base
<1>7. PushedStep(f) \in Nat \cup {PreprocessorStep} /\ Attempt(f) \in Nat
  BY <1>6 DEF PushedStep, Attempt, FlowStatus
<1>8. PICK n \in NextFlowTransform(f) \ {EmptyInnerFlows} :
        /\ job' = Append(job, JobOf(n.flow, f, PushedStep(f), n.index, n.len, Attempt(f)))
        /\ SetModule(f, n, PushedStep(f), Attempt(f))
  BY DEF PushNext, PushedStep, Attempt
<1>9. n.flow \in DOMAIN Flows \cup {"script", "identity"} /\ n.index \in Nat /\ n.len \in Nat
  BY <1>1, <1>2, NextFacts
<1> DEFINE r == JobOf(n.flow, f, PushedStep(f), n.index, n.len, Attempt(f))
<1>10. f \in Nat
  BY <1>2, <1>3
<1>11. r \in JobRecord
  BY <1>7, <1>9, <1>10 DEF JobOf, JobRecord
<1> HIDE DEF r
<1>12. job' = Append(job, r)
  BY <1>8 DEF r
<1>13. job' \in Seq(JobRecord) /\ Len(job') = q /\ job'[q] = r /\ \A j \in 1 .. Len(job) : job'[j] = job[j]
  BY <1>3, <1>11, <1>12
<1>14. Pushed' = 1 .. q
  BY <1>13 DEF Pushed
<1>15. Pushed' = Pushed \cup {q}
  BY <1>3, <1>14
<1>16. \A j \in Pushed : job'[j] = job[j] /\ j < q
  BY <1>3, <1>5, <1>13
<1> HIDE DEF q, f
<1>17. \E k \in NextFlowTransform(f) \ {EmptyInnerFlows} :
               /\ job'[q] = JobOf(k.flow, f, PushedStep(f), k.index, k.len, Attempt(f))
               /\ job'[q] \in JobRecord /\ job' \in Seq(JobRecord)
               /\ SetModule(f, k, PushedStep(f), Attempt(f))
  <2> WITNESS n \in NextFlowTransform(f) \ {EmptyInnerFlows}
  <2> QED BY <1>8, <1>11, <1>13 DEF r
<1> QED BY <1>1, <1>2, <1>5, <1>7, <1>13, <1>15, <1>16, <1>17 DEF f, q

(* A module with nothing to push is a success, and its flow is reported to itself. *)
LEMMA PushEmptyEffect ==
  ASSUME Base, PushEmpty
  PROVE  LET f == worker.flow IN
         /\ worker.pc \in {"start", "push"} /\ f \in Pushed /\ IsFlow(f)
         /\ UNCHANGED <<job, row, canceled, ping, kills, broken, faults>>
         /\ history \subseteq history'
         /\ worker' \in WorkerState /\ worker'.pc = "update" /\ worker'.flow = f
         /\ worker'.job = 0 /\ worker'.success /\ worker'.stop = "none"
         /\ \/ HasNoModules(f) /\ UNCHANGED <<flow_status, history>>
            \/ /\ InQueue(f) /\ ~HasNoModules(f) /\ EmptyInnerFlows \in NextFlowTransform(f)
               /\ Attempt(f) \in Nat
               /\ flow_status' = [flow_status EXCEPT ![f] =
                     [step |-> flow_status[f].step, module |-> "Success", index |-> 0,
                      len |-> 0, fail_count |-> Attempt(f)]]
               /\ history' = history \cup {<<f, flow_status[f].step, "empty">>}
<1> DEFINE f == worker.flow
<1>1. /\ worker.pc \in {"start", "push"}
      /\ UNCHANGED <<job, row, canceled, ping, kills, broken, faults>>
      /\ worker' = [Idle EXCEPT !.pc = "update", !.flow = f, !.unrecoverable = TRUE]
  BY DEF PushEmpty, UpdateFlow
<1>2. f \in Pushed /\ IsFlow(f)
  BY <1>1 DEF Base, WorkerInv
<1>3. f \in 0 .. MaxJobs /\ 0 \in 0 .. MaxJobs
  BY <1>2, JobRange DEF Base
<1>4. /\ worker' \in WorkerState /\ worker'.pc = "update" /\ worker'.flow = f
      /\ worker'.job = 0 /\ worker'.success /\ worker'.stop = "none"
  BY <1>1, <1>3 DEF Idle, WorkerState, Stops
<1>5. flow_status[f] \in FlowStatus
  BY <1>2, JobFacts DEF Base
<1>6. Attempt(f) \in Nat
  BY <1>5 DEF Attempt, FlowStatus
<1>7. \/ HasNoModules(f) /\ UNCHANGED <<flow_status, history>>
      \/ /\ InQueue(f) /\ ~HasNoModules(f) /\ EmptyInnerFlows \in NextFlowTransform(f)
         /\ SetModule(f, EmptyInnerFlows, flow_status[f].step, Attempt(f))
         /\ history' = history \cup {<<f, flow_status[f].step, "empty">>}
  BY DEF PushEmpty, Attempt
<1>8. InQueue(f) /\ SetModule(f, EmptyInnerFlows, flow_status[f].step, Attempt(f)) =>
         flow_status' = [flow_status EXCEPT ![f] =
                     [step |-> flow_status[f].step, module |-> "Success", index |-> 0,
                      len |-> 0, fail_count |-> Attempt(f)]]
  BY DEF SetModule, EmptyInnerFlows, NextOf
<1> HIDE DEF f
<1>9. history \subseteq history'
  BY <1>7
<1> QED BY <1>1, <1>2, <1>4, <1>6, <1>7, <1>8, <1>9 DEF f
-----------------------------------------------------------------------------
(* Type correctness.                                                       *)

(* TypeOK after a step that pushes no job. *)
LEMMA TypeKeeps ==
  ASSUME TypeOK, job' = job,
         row' \in [Job -> {"none", "queued", "running"} \cup Ended],
         canceled' \subseteq Pushed,
         ping' \in [Job -> {"null", "fresh", "stale"}],
         flow_status' \in [Job -> FlowStatus],
         \A f \in Pushed : flow_status'[f].len > 0 => flow_status'[f].index < flow_status'[f].len,
         worker' \in WorkerState,
         kills' \subseteq Pushed, broken' \subseteq Pushed, faults' \in 0 .. MaxFaults
  PROVE  TypeOK'
  BY DEF Pushed, IsFlow, TypeOK

(* The same, where the statuses do not change either. *)
LEMMA TypeKeepsStatus ==
  ASSUME TypeOK, job' = job, flow_status' = flow_status,
         row' \in [Job -> {"none", "queued", "running"} \cup Ended],
         canceled' \subseteq Pushed,
         ping' \in [Job -> {"null", "fresh", "stale"}],
         worker' \in WorkerState,
         kills' \subseteq Pushed, broken' \subseteq Pushed, faults' \in 0 .. MaxFaults
  PROVE  TypeOK'
  BY TypeKeeps DEF TypeOK

(* A job's tree is made of jobs. *)
LEMMA TreeType == \A j : Tree(j) \subseteq Pushed
  BY DEF Tree

(* Every step keeps the types. *)
LEMMA TypeStep ==
  ASSUME Base, [Next]_vars
  PROVE  TypeOK'
<1>0. /\ TypeOK
      /\ row \in [Job -> {"none", "queued", "running"} \cup Ended]
      /\ canceled \subseteq Pushed
      /\ ping \in [Job -> {"null", "fresh", "stale"}]
      /\ flow_status \in [Job -> FlowStatus]
      /\ \A f \in Pushed : flow_status[f].len > 0 => flow_status[f].index < flow_status[f].len
      /\ worker \in WorkerState
      /\ kills \subseteq Pushed /\ broken \subseteq Pushed /\ faults \in 0 .. MaxFaults
  BY DEF Base, TypeOK
<1>a. Idle \in WorkerState
  BY NestedFlowAssumption DEF Idle, WorkerState, Stops
<1>b. \A j \in Pushed : j \in Job
  BY <1>0, JobFacts
<1>c. faults < MaxFaults => faults + 1 \in 0 .. MaxFaults
  BY <1>0, NestedFlowAssumption
<1>1. ASSUME NEW f \in Pushed, PullFlow(f) PROVE TypeOK'
  <2>1. /\ UNCHANGED <<Rest, flow_status, faults>> /\ worker' \in WorkerState
        /\ \/ /\ row' = [row EXCEPT ![f] = "running"] /\ ping' = [ping EXCEPT ![f] = "fresh"]
              /\ canceled' = canceled
           \/ Complete(f, "canceled")
    BY <1>1, PullFlowEffect
  <2>2. /\ row' \in [Job -> {"none", "queued", "running"} \cup Ended]
        /\ ping' \in [Job -> {"null", "fresh", "stale"}] /\ canceled' \subseteq Pushed
    <3>1. CASE Complete(f, "canceled")
      BY <1>0, <3>1, CompleteEffect DEF Ended
    <3>2. CASE /\ row' = [row EXCEPT ![f] = "running"] /\ ping' = [ping EXCEPT ![f] = "fresh"]
               /\ canceled' = canceled
      BY <1>0, <3>2
    <3> QED BY <2>1, <3>1, <3>2
  <2>3. UNCHANGED <<job, flow_status, kills, broken, faults>>
    BY <2>1 DEF Rest
  <2> QED BY <1>0, <2>1, <2>2, <2>3, TypeKeepsStatus
<1>2. ASSUME NEW j \in Pushed, PullStep(j) PROVE TypeOK'
  BY <1>0, <1>2, PullStepEffect, TypeKeepsStatus DEF Rest
<1>3. ASSUME NEW s \in Ended \ {"skipped"}, FinishStep(s) PROVE TypeOK'
  BY <1>0, <1>3, FinishStepEffect, CompleteEffect, TypeKeepsStatus DEF Rest
<1>4. ASSUME UpdateStatus PROVE TypeOK'
  <2>1. /\ worker.flow \in Pushed /\ worker' \in WorkerState /\ IsFlow(worker.flow)
        /\ UNCHANGED <<job, row, canceled, ping, kills, broken, faults>>
        /\ \/ flow_status' = flow_status
           \/ \E stop \in Stops : EndModule(worker, stop)
    BY <1>4, UpdateStatusEffect
  <2>2. CASE flow_status' = flow_status
    BY <1>0, <2>1, <2>2, TypeKeepsStatus
  <2>3. CASE \E stop \in Stops : EndModule(worker, stop)
    <3>1. PICK stop \in Stops : EndModule(worker, stop)
      BY <2>3
    <3>2. flow_status[worker.flow] \in FlowStatus
      BY <1>0, <2>1, JobFacts
    <3> DEFINE r == [step |-> IF IncStep(worker, stop) THEN flow_status[worker.flow].step + 1
                              ELSE flow_status[worker.flow].step,
                     module |-> IF IncStep(worker, stop) THEN "WaitingForPriorSteps" ELSE "Failure",
                     index |-> 0, len |-> 0,
                     fail_count |-> IF Succeeds(worker, stop) THEN 0
                                    ELSE flow_status[worker.flow].fail_count]
    <3>3. flow_status' = [flow_status EXCEPT ![worker.flow] = r]
      BY <3>1 DEF EndModule
    <3>4. r \in FlowStatus /\ r.len = 0
      BY <3>2 DEF FlowStatus, PreprocessorStep
    <3> HIDE DEF r
    <3>5. /\ flow_status' \in [Job -> FlowStatus]
          /\ \A f \in Pushed : flow_status'[f].len > 0 => flow_status'[f].index < flow_status'[f].len
      BY <1>0, <1>b, <2>1, <3>3, <3>4
    <3> QED BY <1>0, <2>1, <3>5, TypeKeeps
  <2> QED BY <2>1, <2>2, <2>3
<1>5. ASSUME Preprocess PROVE TypeOK'
  BY <1>0, <1>5, <1>a, TypeKeepsStatus DEF Preprocess
<1>6. ASSUME UpdateFails PROVE TypeOK'
  BY <1>0, <1>6, <1>c, TypeKeepsStatus DEF UpdateFails, WorkerState
<1>7. ASSUME NEW recover \in BOOLEAN, FinishFlow(recover) PROVE TypeOK'
  BY <1>0, <1>7, FinishFlowEffect, CompleteEffect, TypeKeepsStatus DEF Rest
<1>8. ASSUME PushEmpty PROVE TypeOK'
  <2>1. /\ worker.flow \in Pushed
        /\ UNCHANGED <<job, row, canceled, ping, kills, broken, faults>>
        /\ worker' \in WorkerState
        /\ \/ flow_status' = flow_status
           \/ /\ Attempt(worker.flow) \in Nat
              /\ flow_status' = [flow_status EXCEPT ![worker.flow] =
                     [step |-> flow_status[worker.flow].step, module |-> "Success", index |-> 0,
                      len |-> 0, fail_count |-> Attempt(worker.flow)]]
    BY <1>8, PushEmptyEffect
  <2>2. CASE flow_status' = flow_status
    BY <1>0, <2>1, <2>2, TypeKeepsStatus
  <2>3. CASE /\ Attempt(worker.flow) \in Nat
             /\ flow_status' = [flow_status EXCEPT ![worker.flow] =
                     [step |-> flow_status[worker.flow].step, module |-> "Success", index |-> 0,
                      len |-> 0, fail_count |-> Attempt(worker.flow)]]
    <3> DEFINE r == [step |-> flow_status[worker.flow].step, module |-> "Success", index |-> 0,
                     len |-> 0, fail_count |-> Attempt(worker.flow)]
    <3>1. flow_status[worker.flow] \in FlowStatus
      BY <1>0, <2>1, JobFacts
    <3>2. r \in FlowStatus /\ r.len = 0
      BY <2>3, <3>1 DEF FlowStatus
    <3>3. flow_status' = [flow_status EXCEPT ![worker.flow] = r]
      BY <2>3
    <3> HIDE DEF r
    <3>4. /\ flow_status' \in [Job -> FlowStatus]
          /\ \A f \in Pushed : flow_status'[f].len > 0 => flow_status'[f].index < flow_status'[f].len
      BY <1>0, <1>b, <2>1, <3>2, <3>3
    <3> QED BY <1>0, <2>1, <3>4, TypeKeeps
  <2> QED BY <2>1, <2>2, <2>3
<1>9. ASSUME PushNext PROVE TypeOK'
  <2> DEFINE f == worker.flow  q == Len(job) + 1
  <2>1. /\ worker.pc \in {"start", "push"} /\ f \in Pushed /\ IsFlow(f)
        /\ UNCHANGED <<canceled, kills, history, broken, faults>> /\ worker' = Idle
        /\ row' = [row EXCEPT ![q] = "queued"] /\ ping' = [ping EXCEPT ![f] = "null"]
        /\ q \in Job /\ q \notin Pushed /\ Pushed' = Pushed \cup {q} /\ Len(job') = q
        /\ \A j \in Pushed : job'[j] = job[j] /\ j < q
        /\ PushedStep(f) \in Nat \cup {PreprocessorStep} /\ Attempt(f) \in Nat
    BY <1>9, PushNextEffect
  <2>2. PICK n \in NextFlowTransform(f) \ {EmptyInnerFlows} :
               /\ job'[q] = JobOf(n.flow, f, PushedStep(f), n.index, n.len, Attempt(f))
               /\ job'[q] \in JobRecord /\ job' \in Seq(JobRecord)
               /\ SetModule(f, n, PushedStep(f), Attempt(f))
    BY <1>9, PushNextEffect
  <2>3. /\ n.index \in Nat /\ n.len \in Nat /\ (n.len > 0 => n.index < n.len)
        /\ n.module \in {"WaitingForExecutor", "InProgress"}
    BY <2>1, <2>2, NextFacts
  <2> DEFINE r == [step |-> PushedStep(f), module |-> n.module, index |-> n.index,
                   len |-> n.len, fail_count |-> Attempt(f)]
  <2>4. r \in FlowStatus /\ (r.len > 0 => r.index < r.len)
    BY <2>1, <2>3 DEF FlowStatus
  <2>5. flow_status' = [flow_status EXCEPT ![f] = r] \/ flow_status' = flow_status
    BY <2>2 DEF SetModule
  <2>6. flow_status[q] = NewStatus(FALSE) /\ NewStatus(FALSE).len = 0
    BY <2>1 DEF Base, RangeInv, NewStatus
  <2>7. job'[q].parent = f /\ f \in Nat /\ f # 0
    BY <1>0, <2>1, <2>2, JobFacts DEF JobOf
  <2> HIDE DEF r, f, q
  <2>8. /\ flow_status' \in [Job -> FlowStatus]
        /\ \A k \in Pushed' : flow_status'[k].len > 0 => flow_status'[k].index < flow_status'[k].len
    <3>1. flow_status' \in [Job -> FlowStatus]
      BY <1>0, <2>4, <2>5
    <3>2. \A k \in Pushed : flow_status'[k].len > 0 => flow_status'[k].index < flow_status'[k].len
      BY <1>0, <1>b, <2>1, <2>4, <2>5
    <3>3. flow_status'[q].len = 0
      BY <1>0, <2>1, <2>5, <2>6
    <3> QED BY <2>1, <3>1, <3>2, <3>3
  <2>9. /\ row' \in [Job -> {"none", "queued", "running"} \cup Ended]
        /\ ping' \in [Job -> {"null", "fresh", "stale"}]
    BY <1>0, <2>1
  <2>10. \A j \in Pushed : IsFlow(j)' = IsFlow(j)
    BY <2>1 DEF IsFlow
  <2>11. ASSUME NEW j \in Pushed'
         PROVE  /\ job'[j].parent \in 0 .. j - 1
                /\ job'[j].parent # 0 => IsFlow(job[j].parent)'
                /\ job'[j].parent = 0 => IsFlow(j)'
    <3>1. CASE j \in Pushed
      <4>1. /\ job[j].parent \in Nat /\ job[j].parent < j /\ j \in Nat
            /\ job[j].parent # 0 => job[j].parent \in Pushed /\ IsFlow(job[j].parent)
            /\ job[j].parent = 0 => IsFlow(j)
        BY <1>0, <3>1, JobFacts
      <4>2. PICK p : p = job[j].parent
        OBVIOUS
      <4>3. job'[j].parent = p
        BY <2>1, <3>1, <4>2
      <4>4. p \in 0 .. j - 1
        BY <4>1, <4>2
      <4>5. p # 0 => IsFlow(p)'
        BY <2>10, <4>1, <4>2
      <4> QED BY <2>10, <3>1, <4>1, <4>2, <4>3, <4>4, <4>5 DEF IsFlow
    <3>2. CASE j = q
      <4>1. PICK p : p = f
        OBVIOUS
      <4>2. IsFlow(p)' /\ job'[j].parent = p /\ p # 0
        BY <2>1, <2>7, <2>10, <3>2, <4>1
      <4>3. p \in 0 .. j - 1
        BY <2>1, <2>7, <3>2, <4>1 DEF Job
      <4> QED BY <4>2, <4>3 DEF IsFlow
    <3> QED BY <2>1, <3>1, <3>2
  <2>12. Len(job') \in Job /\ job' \in Seq(JobRecord)
    BY <2>1, <2>2
  <2>13. canceled' \subseteq Pushed' /\ kills' \subseteq Pushed' /\ broken' \subseteq Pushed'
         /\ faults' \in 0 .. MaxFaults /\ worker' \in WorkerState
    BY <1>0, <1>a, <2>1
  <2> QED BY <2>8, <2>9, <2>11, <2>12, <2>13 DEF TypeOK, IsFlow
<1>10. ASSUME PushFails PROVE TypeOK'
  BY <1>0, <1>b, <1>10, PushFailsEffect, CompleteEffect, TypeKeepsStatus DEF Ended
<1>11. ASSUME NEW j \in Pushed, Cancel(j) PROVE TypeOK'
  BY <1>0, <1>11, TreeType, TypeKeepsStatus DEF Cancel, ForceCancel, SoftCancel
<1>12. ASSUME NEW j \in Pushed, KillJob(j) PROVE TypeOK'
  BY <1>0, <1>12, CompleteEffect, TypeKeepsStatus DEF KillJob, Ended
<1>13. ASSUME NEW j \in Pushed, RestartStep(j) PROVE TypeOK'
  BY <1>0, <1>13, TypeKeepsStatus DEF RestartStep
<1>14. ASSUME NEW f \in Pushed, PingExpires(f) PROVE TypeOK'
  BY <1>0, <1>14, TypeKeepsStatus DEF PingExpires
<1>15. ASSUME NEW f \in Pushed, HandleZombieFlow(f) PROVE TypeOK'
  BY <1>0, <1>15, TreeType, TypeKeepsStatus DEF HandleZombieFlow, ForceCancel
<1>16. ASSUME Crash PROVE TypeOK'
  BY <1>0, <1>a, <1>c, <1>16, TypeKeepsStatus DEF Crash
<1>17. ASSUME CrashServer PROVE TypeOK'
  BY <1>0, <1>c, <1>17, TypeKeepsStatus DEF CrashServer
<1>18. ASSUME UNCHANGED vars PROVE TypeOK'
  BY <1>0, <1>18, TypeKeepsStatus DEF vars
<1> QED BY <1>1, <1>2, <1>3, <1>4, <1>5, <1>6, <1>7, <1>8, <1>9, <1>10, <1>11, <1>12, <1>13,
           <1>14, <1>15, <1>16, <1>17, <1>18 DEF Next, WorkerStep, MonitorStep

(* A job that is there already stays the same flow, and with its status the same module. *)
LEMMA SameFlow ==
  ASSUME NEW f, job'[f] = job[f]
  PROVE  /\ IsFlow(f)' = IsFlow(f) /\ Value(f)' = Value(f) /\ Size(f)' = Size(f)
         /\ \A i : ModuleAt(f, i)' = ModuleAt(f, i)
         /\ flow_status'[f] = flow_status[f] =>
               /\ Current(f)' = Current(f) /\ InProgress(f)' = InProgress(f)
               /\ Looping(f)' = Looping(f) /\ Branching(f)' = Branching(f)
               /\ IsPreprocessorStep(f)' = IsPreprocessorStep(f)
               /\ NotStarted(f)' = NotStarted(f)
<1>1. Value(f)' = Value(f) /\ IsFlow(f)' = IsFlow(f)
  BY DEF Value, IsFlow
<1>2. Size(f)' = Size(f)
  BY <1>1 DEF Size
<1>3. \A i : ModuleAt(f, i)' = ModuleAt(f, i)
  BY <1>1, <1>2 DEF ModuleAt
<1>4. ASSUME flow_status'[f] = flow_status[f]
      PROVE  /\ Current(f)' = Current(f) /\ InProgress(f)' = InProgress(f)
             /\ IsPreprocessorStep(f)' = IsPreprocessorStep(f)
  BY <1>3, <1>4 DEF Current, InProgress, IsPreprocessorStep
<1>5. ASSUME flow_status'[f] = flow_status[f]
      PROVE  /\ Looping(f)' = Looping(f) /\ Branching(f)' = Branching(f)
             /\ NotStarted(f)' = NotStarted(f)
  BY <1>2, <1>4, <1>5 DEF Looping, Branching, NotStarted
<1> QED BY <1>1, <1>2, <1>3, <1>4, <1>5

(* The worker is at a flow, with a job of it if it has one. *)
LEMMA WorkerKeeps ==
  ASSUME job' = job,
         \/ worker'.pc = "idle"
         \/ /\ worker'.pc \notin {"idle", "run"} /\ worker'.flow \in Pushed /\ IsFlow(worker'.flow)
            /\ \/ worker'.job = 0
               \/ worker'.job \in Pushed /\ job[worker'.job].parent = worker'.flow
  PROVE  WorkerInv'
  BY DEF WorkerInv, Pushed, IsFlow

(* RangeInv after a step that changes no status. *)
LEMMA RangeKeeps ==
  ASSUME Base, job' = job, flow_status' = flow_status,
         \A j \in Job \ Pushed : row'[j] = row[j],
         \A j \in Pushed : row'[j] # "none",
         \A f \in Pushed : IsFlow(f) /\ row'[f] = "queued" => row[f] = "queued" \/ ~InProgress(f),
         worker'.pc \in {"start", "preprocessed"} => ~InProgress(worker'.flow),
         \/ worker'.pc # "push"
         \/ worker' = worker
         \/ /\ Current(worker'.flow).kind \in Loops \cup {"branchall"}
            /\ Current(worker'.flow).kind # "whileloopflow"
                 => flow_status[worker'.flow].index + 1 < flow_status[worker'.flow].len
  PROVE  RangeInv'
<1>1. Pushed' = Pushed
  BY DEF Pushed
<1>2. \A f : /\ IsFlow(f)' = IsFlow(f) /\ Current(f)' = Current(f)
             /\ InProgress(f)' = InProgress(f) /\ Branching(f)' = Branching(f)
             /\ IsPreprocessorStep(f)' = IsPreprocessorStep(f)
  BY SameFlow
<1>3. \A j \in Job \ Pushed' : row'[j] = "none" /\ flow_status'[j] = NewStatus(FALSE)
  BY <1>1 DEF Base, RangeInv
<1>4. \A f \in Pushed' : IsFlow(f)' /\ Branching(f)' => flow_status'[f].len = Len(Current(f)'.inner)
  BY <1>1, <1>2 DEF Base, RangeInv
<1>5. \A f \in Pushed' : IsFlow(f)' /\ InProgress(f)' /\ Current(f)'.kind = "whileloopflow"
                            => flow_status'[f].len = 0
  BY <1>1, <1>2 DEF Base, RangeInv
<1>6. \A f \in Pushed' : IsFlow(f)' /\ (row'[f] = "queued" \/ IsPreprocessorStep(f)') => ~InProgress(f)'
  BY <1>1, <1>2 DEF Base, RangeInv
<1>7. PICK w : w = worker'.flow
  OBVIOUS
<1>8. worker'.pc \in {"start", "preprocessed"} => ~InProgress(w)'
  BY <1>2, <1>7
<1>9. worker'.pc = "push" /\ InProgress(w)'
        => /\ Current(w)'.kind \in Loops \cup {"branchall"}
           /\ Current(w)'.kind # "whileloopflow"
                => flow_status'[w].index + 1 < flow_status'[w].len
  BY <1>2, <1>7 DEF Base, RangeInv
<1>10. \A j \in Pushed' : row'[j] # "none"
  BY <1>1
<1> QED BY <1>3, <1>4, <1>5, <1>6, <1>7, <1>8, <1>9, <1>10 DEF RangeInv, InProgress, Current, ModuleAt, Size, Value

(* RangeInv after a step that ends a flow's module. *)
LEMMA RangeEnds ==
  ASSUME Base, job' = job, row' = row, NEW f \in Pushed, IsFlow(f), NEW r,
         flow_status' = [flow_status EXCEPT ![f] = r], r.module # "InProgress",
         worker'.flow = f
  PROVE  RangeInv'
<1>1. Pushed' = Pushed /\ f \in Job /\ flow_status \in [Job -> FlowStatus]
      /\ \A j \in Pushed : j \in Job
  BY JobFacts DEF Pushed, Base, TypeOK
<1>2. flow_status'[f] = r /\ \A k \in Job \ {f} : flow_status'[k] = flow_status[k]
  BY <1>1
<1>3. ~InProgress(f)' /\ ~Branching(f)'
  BY <1>2 DEF InProgress, Branching
<1>4. \A k \in Job \ {f} :
        /\ IsFlow(k)' = IsFlow(k) /\ Current(k)' = Current(k)
        /\ InProgress(k)' = InProgress(k) /\ Branching(k)' = Branching(k)
        /\ IsPreprocessorStep(k)' = IsPreprocessorStep(k)
  BY <1>2, SameFlow
<1>5. \A j \in Job \ Pushed' : row'[j] = "none" /\ flow_status'[j] = NewStatus(FALSE)
  BY <1>1, <1>2 DEF Base, RangeInv
<1>6. \A k \in Pushed' : IsFlow(k)' /\ Branching(k)' => flow_status'[k].len = Len(Current(k)'.inner)
  BY <1>1, <1>2, <1>3, <1>4 DEF Base, RangeInv
<1>7. \A k \in Pushed' : IsFlow(k)' /\ InProgress(k)' /\ Current(k)'.kind = "whileloopflow"
                            => flow_status'[k].len = 0
  BY <1>1, <1>2, <1>3, <1>4 DEF Base, RangeInv
<1>8. \A k \in Pushed' : IsFlow(k)' /\ (row'[k] = "queued" \/ IsPreprocessorStep(k)') => ~InProgress(k)'
  BY <1>1, <1>3, <1>4 DEF Base, RangeInv
<1>9. ~InProgress(worker.flow)'
  BY <1>3 DEF InProgress
<1>10. \A j \in Pushed' : row'[j] # "none"
  BY <1>1 DEF Base, RangeInv
<1> QED BY <1>5, <1>6, <1>7, <1>8, <1>9, <1>10 DEF RangeInv

(* A flow that the worker is at is not in the queue for another one. *)
LEMMA NotQueued ==
  ASSUME Base, TokenInv, worker.pc # "idle"
  PROVE  row[worker.flow] # "queued"
<1>1. worker.flow \in Pushed /\ IsFlow(worker.flow)
  BY DEF Base, WorkerInv
<1>2. SUFFICES ASSUME row[worker.flow] = "queued" PROVE FALSE
  OBVIOUS
<1>3. Holds(worker.flow)
  BY <1>2 DEF Holds, Busy
<1>4. worker.pc = "run" /\ worker.job = worker.flow
  BY <1>1, <1>3 DEF TokenInv, WorkerHolds
<1> QED BY <1>1, <1>4 DEF Base, WorkerInv

(* Every step keeps the worker at a flow, and the statuses in range. *)
LEMMA BaseStep ==
  ASSUME Base, TokenInv, [Next]_vars
  PROVE  Base'
<1>t. TypeOK'
  BY TypeStep
<1>0. /\ TypeOK /\ WorkerInv /\ RangeInv
      /\ row \in [Job -> {"none", "queued", "running"} \cup Ended]
      /\ \A j \in Pushed : j \in Job /\ row[j] # "none"
      /\ "none" \notin Ended /\ Idle.pc = "idle" /\ "queued" \notin Ended
  BY JobFacts DEF Base, TypeOK, RangeInv, Ended, Idle
<1>f. \A f \in Pushed : job[f].parent # 0 => job[f].parent \in Pushed /\ IsFlow(job[f].parent)
  BY <1>0, JobFacts
<1>c. ASSUME NEW j \in Pushed, NEW s \in Ended, Complete(j, s)
      PROVE  /\ \A k \in Job \ Pushed : row'[k] = row[k]
             /\ \A k \in Pushed : row'[k] # "none"
             /\ \A f \in Pushed : IsFlow(f) /\ row'[f] = "queued" => row[f] = "queued" \/ ~InProgress(f)
  BY <1>0, <1>c, CompleteEffect
<1>e. "failure" \in Ended /\ "canceled" \in Ended
  BY DEF Ended
<1>1. ASSUME NEW f \in Pushed, PullFlow(f) PROVE WorkerInv' /\ RangeInv'
  <2>1. /\ IsFlow(f) /\ row[f] = "queued" /\ job' = job /\ flow_status' = flow_status
        /\ \/ /\ row' = [row EXCEPT ![f] = "running"] /\ worker'.flow = f /\ worker'.job = 0
              /\ worker'.pc \in {"start", "update"}
           \/ /\ job[f].parent # 0 /\ Complete(f, "canceled")
              /\ worker'.pc = "update" /\ worker'.flow = job[f].parent /\ worker'.job = f
    BY <1>1, PullFlowEffect DEF Rest
  <2>2. WorkerInv'
    BY <1>1, <1>f, <2>1, WorkerKeeps
  <2>3. /\ \A k \in Job \ Pushed : row'[k] = row[k]
        /\ \A k \in Pushed : row'[k] # "none"
        /\ \A k \in Pushed : IsFlow(k) /\ row'[k] = "queued" => row[k] = "queued" \/ ~InProgress(k)
    BY <1>0, <1>c, <1>e, <2>1
  <2>4. worker'.pc # "push" /\ worker'.pc # "preprocessed"
        /\ (worker'.pc = "start" => ~InProgress(worker'.flow))
    BY <1>0, <2>1 DEF RangeInv
  <2> QED BY <2>1, <2>2, <2>3, <2>4, RangeKeeps
<1>2. ASSUME NEW j \in Pushed, PullStep(j) PROVE WorkerInv' /\ RangeInv'
  <2>1. /\ ~IsFlow(j) /\ job[j].parent # 0 /\ job' = job /\ flow_status' = flow_status
        /\ row' = [row EXCEPT ![j] = "running"]
        /\ worker'.pc = "run" /\ worker'.flow = job[j].parent /\ worker'.job = j
    BY <1>2, PullStepEffect DEF Rest
  <2>2. j # 0 /\ job[j].parent \in Pushed /\ IsFlow(job[j].parent)
    BY <1>0, <1>f, <2>1, JobFacts
  <2>3. WorkerInv'
    BY <2>1, <2>2 DEF WorkerInv, Pushed, IsFlow
  <2>4. /\ \A k \in Job \ Pushed : row'[k] = row[k]
        /\ \A k \in Pushed : row'[k] # "none"
        /\ \A k \in Pushed : IsFlow(k) /\ row'[k] = "queued" => row[k] = "queued" \/ ~InProgress(k)
    BY <1>0, <2>1
  <2> QED BY <2>1, <2>3, <2>4, RangeKeeps
<1>3. ASSUME NEW s \in Ended \ {"skipped"}, FinishStep(s) PROVE WorkerInv' /\ RangeInv'
  <2>1. /\ worker.pc = "run" /\ worker.job \in Pushed
        /\ job[worker.job].parent = worker.flow /\ worker.flow \in Pushed
        /\ job' = job /\ flow_status' = flow_status
        /\ worker'.pc = "update" /\ worker'.flow = worker.flow /\ worker'.job = worker.job
        /\ Complete(worker.job, s) \/ row' = row
    BY <1>3, FinishStepEffect DEF Rest
  <2>2. IsFlow(worker.flow)
    BY <1>0, <2>1 DEF WorkerInv
  <2>3. WorkerInv'
    BY <2>1, <2>2, WorkerKeeps
  <2>4. /\ \A k \in Job \ Pushed : row'[k] = row[k]
        /\ \A k \in Pushed : row'[k] # "none"
        /\ \A k \in Pushed : IsFlow(k) /\ row'[k] = "queued" => row[k] = "queued" \/ ~InProgress(k)
    BY <1>0, <1>c, <2>1
  <2> QED BY <2>1, <2>3, <2>4, RangeKeeps
<1>4. ASSUME UpdateStatus PROVE WorkerInv' /\ RangeInv'
  <2>1. /\ worker.pc = "update" /\ worker.flow \in Pushed /\ IsFlow(worker.flow)
        /\ job' = job /\ row' = row
        /\ \/ worker' = Idle /\ flow_status' = flow_status
           \/ /\ flow_status' = flow_status
              /\ worker'.flow = worker.flow /\ worker'.job = worker.job
              /\ \E stop \in StopEarly(worker) : GoesOn(worker, stop)
              /\ worker'.pc \in {"push", "finish"}
           \/ /\ worker'.flow = worker.flow /\ worker'.job = worker.job
              /\ worker'.pc \in {"push", "finish", "preprocessed"}
              /\ \E stop \in Stops : EndModule(worker, stop)
    BY <1>4, UpdateStatusEffect
  <2>2. worker.job = 0 \/ (worker.job \in Pushed /\ job[worker.job].parent = worker.flow)
    BY <1>0, <2>1 DEF WorkerInv
  <2>3. WorkerInv'
    BY <1>0, <2>1, <2>2, WorkerKeeps
  <2>4. /\ \A k \in Job \ Pushed : row'[k] = row[k]
        /\ \A k \in Pushed : row'[k] # "none"
        /\ \A k \in Pushed : IsFlow(k) /\ row'[k] = "queued" => row[k] = "queued" \/ ~InProgress(k)
    BY <1>0, <2>1
  <2>5. CASE worker' = Idle /\ flow_status' = flow_status
    BY <1>0, <2>1, <2>3, <2>4, <2>5, RangeKeeps
  <2>6. CASE /\ flow_status' = flow_status
             /\ worker'.flow = worker.flow /\ worker'.job = worker.job
             /\ \E stop \in StopEarly(worker) : GoesOn(worker, stop)
             /\ worker'.pc \in {"push", "finish"}
    BY <2>1, <2>3, <2>4, <2>6, RangeKeeps DEF GoesOn, Looping, Branching
  <2>7. CASE /\ worker'.flow = worker.flow
             /\ \E stop \in Stops : EndModule(worker, stop)
    <3>1. PICK stop \in Stops : EndModule(worker, stop)
      BY <2>7
    <3> DEFINE e == [step |-> IF IncStep(worker, stop) THEN flow_status[worker.flow].step + 1
                              ELSE flow_status[worker.flow].step,
                     module |-> IF IncStep(worker, stop) THEN "WaitingForPriorSteps" ELSE "Failure",
                     index |-> 0, len |-> 0,
                     fail_count |-> IF Succeeds(worker, stop) THEN 0
                                    ELSE flow_status[worker.flow].fail_count]
    <3>a. flow_status' = [flow_status EXCEPT ![worker.flow] = e] /\ e.module # "InProgress"
      BY <3>1 DEF EndModule
    <3> HIDE DEF e
    <3>2. PICK r : flow_status' = [flow_status EXCEPT ![worker.flow] = r]
                   /\ r.module # "InProgress"
      BY <3>a
    <3>3. PICK f \in Pushed : f = worker.flow
      BY <2>1
    <3> QED BY <2>1, <2>3, <2>7, <3>2, <3>3, RangeEnds
  <2> QED BY <2>1, <2>5, <2>6, <2>7
<1>5. ASSUME Preprocess PROVE WorkerInv' /\ RangeInv'
  <2>1. /\ worker.pc = "preprocessed" /\ job' = job /\ flow_status' = flow_status /\ worker' = Idle
        /\ row' = IF InQueue(worker.flow) THEN [row EXCEPT ![worker.flow] = "queued"] ELSE row
    BY <1>5 DEF Preprocess
  <2>2. worker.flow \in Pushed /\ ~InProgress(worker.flow)
    BY <1>0, <2>1 DEF WorkerInv, RangeInv
  <2>3. WorkerInv'
    BY <1>0, <2>1, WorkerKeeps
  <2>4. /\ \A k \in Job \ Pushed : row'[k] = row[k]
        /\ \A k \in Pushed : row'[k] # "none"
        /\ \A k \in Pushed : IsFlow(k) /\ row'[k] = "queued" => row[k] = "queued" \/ ~InProgress(k)
    BY <1>0, <2>1, <2>2
  <2> QED BY <1>0, <2>1, <2>3, <2>4, RangeKeeps
<1>6. ASSUME UpdateFails PROVE WorkerInv' /\ RangeInv'
  <2>1. /\ worker.pc \in {"update", "preprocessed"}
        /\ job' = job /\ flow_status' = flow_status /\ row' = row
        /\ worker' = [worker EXCEPT !.pc = "update", !.success = FALSE, !.unrecoverable = TRUE]
        /\ worker \in WorkerState
    BY <1>0, <1>6 DEF UpdateFails, TypeOK
  <2>2. worker'.pc = "update" /\ worker'.flow = worker.flow /\ worker'.job = worker.job
    BY <2>1 DEF WorkerState
  <2>3. /\ worker.flow \in Pushed /\ IsFlow(worker.flow)
        /\ worker.job = 0 \/ (worker.job \in Pushed /\ job[worker.job].parent = worker.flow)
    BY <1>0, <2>1 DEF WorkerInv
  <2>4. WorkerInv'
    BY <2>1, <2>2, <2>3, WorkerKeeps
  <2>5. /\ \A k \in Job \ Pushed : row'[k] = row[k]
        /\ \A k \in Pushed : row'[k] # "none"
        /\ \A k \in Pushed : IsFlow(k) /\ row'[k] = "queued" => row[k] = "queued" \/ ~InProgress(k)
    BY <1>0, <2>1
  <2> QED BY <2>1, <2>2, <2>4, <2>5, RangeKeeps
<1>7. ASSUME NEW recover \in BOOLEAN, FinishFlow(recover) PROVE WorkerInv' /\ RangeInv'
  <2>1. /\ worker.flow \in Pushed /\ job' = job /\ flow_status' = flow_status
        /\ \/ ReportsTo(worker.flow) /\ \E s \in Ended : Complete(worker.flow, s)
           \/ worker' = Idle /\ row' = row
    BY <1>7, FinishFlowEffect DEF Rest
  <2>2. \/ worker'.pc = "idle"
        \/ /\ worker'.pc = "update" /\ worker'.flow \in Pushed /\ IsFlow(worker'.flow)
           /\ worker'.job \in Pushed /\ job[worker'.job].parent = worker'.flow
    BY <1>0, <1>f, <2>1 DEF ReportsTo
  <2>3. WorkerInv'
    BY <2>1, <2>2, WorkerKeeps
  <2>4. /\ \A k \in Job \ Pushed : row'[k] = row[k]
        /\ \A k \in Pushed : row'[k] # "none"
        /\ \A k \in Pushed : IsFlow(k) /\ row'[k] = "queued" => row[k] = "queued" \/ ~InProgress(k)
    BY <1>0, <1>c, <2>1
  <2> QED BY <2>1, <2>2, <2>3, <2>4, RangeKeeps
<1>8. ASSUME PushEmpty PROVE WorkerInv' /\ RangeInv'
  <2>1. /\ worker.flow \in Pushed /\ IsFlow(worker.flow) /\ job' = job /\ row' = row
        /\ worker'.pc = "update" /\ worker'.flow = worker.flow /\ worker'.job = 0
        /\ \/ flow_status' = flow_status
           \/ flow_status' = [flow_status EXCEPT ![worker.flow] =
                     [step |-> flow_status[worker.flow].step, module |-> "Success", index |-> 0,
                      len |-> 0, fail_count |-> Attempt(worker.flow)]]
    BY <1>8, PushEmptyEffect
  <2>2. WorkerInv'
    BY <2>1, WorkerKeeps
  <2>3. CASE flow_status' = flow_status
    BY <1>0, <2>1, <2>2, <2>3, RangeKeeps
  <2>4. CASE flow_status' = [flow_status EXCEPT ![worker.flow] =
                     [step |-> flow_status[worker.flow].step, module |-> "Success", index |-> 0,
                      len |-> 0, fail_count |-> Attempt(worker.flow)]]
    <3> DEFINE e == [step |-> flow_status[worker.flow].step, module |-> "Success", index |-> 0,
                     len |-> 0, fail_count |-> Attempt(worker.flow)]
    <3>a. flow_status' = [flow_status EXCEPT ![worker.flow] = e] /\ e.module # "InProgress"
      BY <2>4
    <3> HIDE DEF e
    <3>1. PICK r : flow_status' = [flow_status EXCEPT ![worker.flow] = r]
                   /\ r.module # "InProgress"
      BY <3>a
    <3>2. PICK f \in Pushed : f = worker.flow
      BY <2>1
    <3> QED BY <2>1, <2>2, <3>1, <3>2, RangeEnds
  <2> QED BY <2>1, <2>3, <2>4
<1>10. ASSUME PushFails PROVE WorkerInv' /\ RangeInv'
  <2>1. /\ worker.flow \in Pushed /\ IsFlow(worker.flow) /\ job' = job /\ flow_status' = flow_status
        /\ \/ /\ row' = [row EXCEPT ![worker.flow] =
                              IF InQueue(worker.flow) THEN "running" ELSE row[worker.flow]]
              /\ worker'.pc = "update" /\ worker'.flow = worker.flow /\ worker'.job = 0
           \/ ReportsTo(worker.flow) /\ (Complete(worker.flow, "failure") \/ row' = row)
    BY <1>10, PushFailsEffect
  <2>2. \/ worker'.pc = "idle"
        \/ /\ worker'.pc = "update" /\ worker'.flow \in Pushed /\ IsFlow(worker'.flow)
           /\ \/ worker'.job = 0
              \/ worker'.job \in Pushed /\ job[worker'.job].parent = worker'.flow
    BY <1>0, <1>f, <2>1 DEF ReportsTo
  <2>3. WorkerInv'
    BY <2>1, <2>2, WorkerKeeps
  <2>4. /\ \A k \in Job \ Pushed : row'[k] = row[k]
        /\ \A k \in Pushed : row'[k] # "none"
        /\ \A k \in Pushed : IsFlow(k) /\ row'[k] = "queued" => row[k] = "queued" \/ ~InProgress(k)
    BY <1>0, <1>c, <1>e, <2>1
  <2> QED BY <2>1, <2>2, <2>3, <2>4, RangeKeeps
<1>w. ASSUME job' = job, worker' = worker \/ worker' = Idle PROVE WorkerInv'
  BY <1>0, <1>w DEF WorkerInv, Pushed, IsFlow
<1>r. ASSUME job' = job, flow_status' = flow_status, worker' = worker \/ worker' = Idle,
             \A k \in Job \ Pushed : row'[k] = row[k],
             \A k \in Pushed : row'[k] # "none",
             \A k \in Pushed : IsFlow(k) /\ row'[k] = "queued" => row[k] = "queued" \/ ~InProgress(k)
      PROVE  WorkerInv' /\ RangeInv'
  BY <1>0, <1>r, <1>w, RangeKeeps DEF RangeInv
<1>11. ASSUME NEW j \in Pushed, Cancel(j) PROVE WorkerInv' /\ RangeInv'
  BY <1>0, <1>r, <1>11 DEF Cancel
<1>12. ASSUME NEW j \in Pushed, KillJob(j) PROVE WorkerInv' /\ RangeInv'
  BY <1>0, <1>c, <1>e, <1>r, <1>12 DEF KillJob
<1>13. ASSUME NEW j \in Pushed, RestartStep(j) PROVE WorkerInv' /\ RangeInv'
  BY <1>0, <1>r, <1>13 DEF RestartStep
<1>14. ASSUME NEW f \in Pushed, PingExpires(f) PROVE WorkerInv' /\ RangeInv'
  BY <1>0, <1>r, <1>14 DEF PingExpires
<1>15. ASSUME NEW f \in Pushed, HandleZombieFlow(f) PROVE WorkerInv' /\ RangeInv'
  BY <1>0, <1>r, <1>15 DEF HandleZombieFlow, IsZombieFlow, RangeInv, InProgress
<1>16. ASSUME Crash PROVE WorkerInv' /\ RangeInv'
  BY <1>0, <1>r, <1>16 DEF Crash
<1>17. ASSUME CrashServer PROVE WorkerInv' /\ RangeInv'
  BY <1>0, <1>r, <1>17 DEF CrashServer
<1>18. ASSUME UNCHANGED vars PROVE WorkerInv' /\ RangeInv'
  BY <1>0, <1>r, <1>18 DEF vars
<1>9. ASSUME PushNext PROVE WorkerInv' /\ RangeInv'
  <2>1. PICK f \in Pushed : f = worker.flow
    BY <1>9, PushNextEffect
  <2>2. PICK q : q = Len(job) + 1
    OBVIOUS
  <2>3. /\ worker.pc \in {"start", "push"} /\ IsFlow(f) /\ worker' = Idle
        /\ row' = [row EXCEPT ![q] = "queued"]
        /\ q \in Job /\ q \notin Pushed /\ Pushed' = Pushed \cup {q}
        /\ \A j \in Pushed : job'[j] = job[j]
    BY <1>9, <2>1, <2>2, PushNextEffect
  <2>4. PICK n \in NextFlowTransform(f) \ {EmptyInnerFlows} : SetModule(f, n, PushedStep(f), Attempt(f))
    BY <1>9, <2>1, PushNextEffect
  <2>5. /\ n.module = "InProgress" =>
               /\ ~RunsHandler(f) /\ ~IsPreprocessorStep(f)
               /\ Current(f).kind = "branchall" => n.len = Len(Current(f).inner)
               /\ Current(f).kind = "whileloopflow" => n.len = 0
        /\ IsPreprocessorStep(f) => n.module = "WaitingForExecutor"
    BY <2>1, <2>3, <2>4, NextFacts
  <2>6. WorkerInv'
    BY <1>0, <2>3 DEF WorkerInv
  <2>7. \/ /\ InQueue(f)
           /\ flow_status' = [flow_status EXCEPT ![f] =
                 [step |-> PushedStep(f), module |-> n.module, index |-> n.index, len |-> n.len,
                  fail_count |-> Attempt(f)]]
        \/ flow_status' = flow_status
    BY <2>4 DEF SetModule
  <2>8. flow_status \in [Job -> FlowStatus] /\ f \in Job /\ f # q
    BY <1>0, <2>3 DEF TypeOK
  <2>9. \A k \in Job \ {f} : flow_status'[k] = flow_status[k]
    BY <2>7, <2>8
  <2>10. \A k \in Pushed \ {f} :
           /\ IsFlow(k)' = IsFlow(k) /\ Current(k)' = Current(k)
           /\ InProgress(k)' = InProgress(k) /\ Branching(k)' = Branching(k)
           /\ IsPreprocessorStep(k)' = IsPreprocessorStep(k)
    BY <1>0, <2>3, <2>9, SameFlow
  <2>11. ~InProgress(q)' /\ ~Branching(q)'
    BY <1>0, <2>3, <2>8, <2>9 DEF RangeInv, NewStatus, InProgress, Branching
  <2>12. IsFlow(f)' = IsFlow(f) /\ \A i : ModuleAt(f, i)' = ModuleAt(f, i)
    BY <2>3, SameFlow
  <2>13. CASE flow_status' = flow_status
    <3>1. /\ Current(f)' = Current(f)
          /\ InProgress(f)' = InProgress(f) /\ Branching(f)' = Branching(f)
          /\ IsPreprocessorStep(f)' = IsPreprocessorStep(f)
      BY <2>3, <2>13, SameFlow
    <3>2. \A j \in Job \ Pushed' : row'[j] = "none" /\ flow_status'[j] = NewStatus(FALSE)
      BY <1>0, <2>3, <2>13 DEF RangeInv
    <3>3. \A k \in Pushed' : IsFlow(k)' /\ Branching(k)' => flow_status'[k].len = Len(Current(k)'.inner)
      BY <1>0, <2>3, <2>10, <2>11, <2>12, <2>13, <3>1 DEF RangeInv
    <3>4. \A k \in Pushed' : IsFlow(k)' /\ InProgress(k)' /\ Current(k)'.kind = "whileloopflow"
                            => flow_status'[k].len = 0
      BY <1>0, <2>3, <2>10, <2>11, <2>12, <2>13, <3>1 DEF RangeInv
    <3>5. \A k \in Pushed' : IsFlow(k)' /\ (row'[k] = "queued" \/ IsPreprocessorStep(k)') => ~InProgress(k)'
      BY <1>0, <2>3, <2>8, <2>10, <2>11, <2>12, <3>1 DEF RangeInv
    <3>6. \A j \in Pushed' : row'[j] # "none"
      BY <1>0, <2>3
    <3> QED BY <1>0, <2>3, <2>6, <3>2, <3>3, <3>4, <3>5, <3>6 DEF RangeInv
  <2>14. CASE /\ InQueue(f)
              /\ flow_status' = [flow_status EXCEPT ![f] =
                 [step |-> PushedStep(f), module |-> n.module, index |-> n.index, len |-> n.len,
                  fail_count |-> Attempt(f)]]
    <3>1. /\ flow_status'[f].step = PushedStep(f) /\ flow_status'[f].module = n.module
          /\ flow_status'[f].len = n.len
      BY <2>8, <2>14
    <3>2. InProgress(f)' => n.module = "InProgress" /\ PushedStep(f) = flow_status[f].step
      BY <2>5, <3>1 DEF InProgress, PushedStep
    <3>3. PICK st : st = PushedStep(f)
      OBVIOUS
    <3>4. Current(f)' = ModuleAt(f, st)
      BY <2>12, <3>1, <3>3 DEF Current
    <3>5. InProgress(f)' => Current(f)' = Current(f)
      BY <3>2, <3>3, <3>4 DEF Current
    <3>6. InProgress(f)' /\ Current(f)'.kind = "branchall" => flow_status'[f].len = Len(Current(f)'.inner)
      BY <2>5, <3>1, <3>2, <3>5
    <3>7. InProgress(f)' /\ Current(f)'.kind = "whileloopflow" => flow_status'[f].len = 0
      BY <2>5, <3>1, <3>2, <3>5
    <3>8. row[f] # "queued"
      BY <2>1, <2>3, NotQueued
    <3>9. IsPreprocessorStep(f)' => ~InProgress(f)'
      BY <2>5, <3>1, <3>2 DEF IsPreprocessorStep
    <3> QED
      <4>1. \A j \in Job \ Pushed' : row'[j] = "none" /\ flow_status'[j] = NewStatus(FALSE)
        BY <1>0, <2>3, <2>9 DEF RangeInv
      <4>2. \A k \in Pushed' : IsFlow(k)' /\ Branching(k)' => flow_status'[k].len = Len(Current(k)'.inner)
        BY <1>0, <2>3, <2>9, <2>10, <2>11, <3>6 DEF RangeInv, Branching
      <4>3. \A k \in Pushed' : IsFlow(k)' /\ InProgress(k)' /\ Current(k)'.kind = "whileloopflow"
                            => flow_status'[k].len = 0
        BY <1>0, <2>3, <2>9, <2>10, <2>11, <3>7 DEF RangeInv
      <4>4. \A k \in Pushed' : IsFlow(k)' /\ (row'[k] = "queued" \/ IsPreprocessorStep(k)') => ~InProgress(k)'
        BY <1>0, <2>3, <2>8, <2>10, <2>11, <3>8, <3>9 DEF RangeInv
      <4>5. \A j \in Pushed' : row'[j] # "none"
        BY <1>0, <2>3
      <4> QED BY <1>0, <2>3, <2>6, <4>1, <4>2, <4>3, <4>4, <4>5 DEF RangeInv
  <2> QED BY <2>7, <2>13, <2>14
<1>19. WorkerInv' /\ RangeInv'
  BY <1>1, <1>2, <1>3, <1>4, <1>5, <1>6, <1>7, <1>8, <1>9, <1>10, <1>11, <1>12, <1>13,
     <1>14, <1>15, <1>16, <1>17, <1>18 DEF Next, WorkerStep, MonitorStep
<1> QED BY <1>t, <1>19 DEF Base

-----------------------------------------------------------------------------
(* One thread of control.                                                  *)

(* What it takes to hold the token after a step. *)
LEMMA HoldsFrame ==
  ASSUME NEW k, job'[k] = job[k]
  PROVE  Holds(k)' <=> \/ row'[k] = "queued" \/ (row'[k] = "running" /\ ~IsFlow(k))
                       \/ /\ IsFlow(k) /\ row'[k] = "running" /\ NotStarted(k)'
                          /\ ping'[k] # "null" /\ ~(worker'.pc # "idle" /\ worker'.flow = k)
  BY SameFlow DEF Holds, Busy, Lost, At

(* A flow below another one means that this one has started. *)
LEMMA FlowChild ==
  ASSUME Base, TokenInv, NEW f \in Pushed, IsFlow(f), job[f].parent # 0
  PROVE  ~(InQueue(job[f].parent) /\ NotStarted(job[f].parent))
  BY DEF TokenInv, FirstChildren

(* A job in the queue below a flow that has not started holds the token. *)
LEMMA QueueChild ==
  ASSUME Base, TokenInv, NEW c \in Pushed, job[c].parent # 0,
         InQueue(job[c].parent), NotStarted(job[c].parent), InQueue(c)
  PROVE  Holds(c) /\ ~IsFlow(c) /\ ping[job[c].parent] = "null"
  BY DEF TokenInv, FirstChildren, Holds, Busy, InQueue

(* TokenInv after a step that pushes no job. *)
LEMMA TokenKeeps ==
  ASSUME Base, TokenInv, job' = job,
         \A k \in Pushed : NotStarted(k)' => NotStarted(k),
         \A j, k \in Pushed : Holds(j)' /\ Holds(k)' => j = k,
         worker'.pc # "idle" => \A j \in Pushed : Holds(j)' => worker'.pc = "run" /\ worker'.job = j,
         \A k \in Pushed : InQueue(k)' => InQueue(k),
         \A c \in Pushed : job[c].parent # 0 /\ InQueue(job[c].parent) /\ NotStarted(job[c].parent)
                              /\ InQueue(c)' => ping'[job[c].parent] = "null",
         NotStale'
  PROVE  TokenInv'
<1>1. Pushed' = Pushed
  BY DEF Pushed
<1>2. OneHolder' /\ WorkerHolds'
  BY <1>1 DEF OneHolder, WorkerHolds
<1>3. FirstChildren'
  <2>1. SUFFICES ASSUME NEW c \in Pushed, NEW p, p = job[c].parent, p # 0, InQueue(p)', NotStarted(p)'
                 PROVE  job[c].step = PreprocessorStep /\ ~IsFlow(c)'
                        /\ (InQueue(c)' => ping'[p] = "null")
    BY <1>1 DEF FirstChildren, InQueue, NotStarted, Size, Value, IsPreprocessorStep
  <2>2. p \in Pushed
    BY <2>1, JobFacts DEF Base
  <2>3. InQueue(p) /\ NotStarted(p)
    BY <2>1, <2>2
  <2>4. job[c].step = PreprocessorStep /\ ~IsFlow(c)
    BY <2>1, <2>3 DEF TokenInv, FirstChildren
  <2>5. IsFlow(c)' = IsFlow(c)
    BY SameFlow
  <2> QED BY <2>1, <2>3, <2>4, <2>5
<1> QED BY <1>2, <1>3 DEF TokenInv

(* A worker that takes up no job, and ends with nothing queued, keeps the token. *)
LEMMA TokenWorks ==
  ASSUME Base, TokenInv, job' = job, worker.pc \notin {"idle", "run"}, worker'.pc # "run",
         \A k \in Pushed : NotStarted(k)' => NotStarted(k),
         \A k \in Pushed : InQueue(k)' => InQueue(k) /\ row'[k] # "queued",
         \A k \in Pushed : ping'[k] = "null" \/ ping'[k] = ping[k]
                              \/ (worker'.pc # "idle" /\ worker'.flow = k) \/ ~InQueue(k)',
         \A k \in Pushed : InQueue(k)' /\ worker.flow = k => worker'.pc # "idle" /\ worker'.flow = k,
         NotStale'
  PROVE  TokenInv'
<1>1. \A k \in Pushed : ~Holds(k)
  BY DEF TokenInv, WorkerHolds
<1>2. \A k \in Pushed : ~Holds(k)'
  <2>1. SUFFICES ASSUME NEW k \in Pushed, Holds(k)' PROVE FALSE
    OBVIOUS
  <2>2. \/ row'[k] = "queued" \/ (row'[k] = "running" /\ ~IsFlow(k))
        \/ /\ IsFlow(k) /\ row'[k] = "running" /\ NotStarted(k)'
           /\ ping'[k] # "null" /\ ~(worker'.pc # "idle" /\ worker'.flow = k)
    BY <2>1, HoldsFrame
  <2>3. InQueue(k)'
    BY <2>2 DEF InQueue
  <2>4. InQueue(k) /\ row'[k] # "queued" /\ ~Busy(k)
    BY <1>1, <2>3 DEF Holds
  <2>5. IsFlow(k)
    BY <2>4 DEF Busy, InQueue
  <2>6. /\ row'[k] = "running" /\ NotStarted(k)' /\ ping'[k] # "null"
        /\ ~(worker'.pc # "idle" /\ worker'.flow = k)
    BY <2>2, <2>4, <2>5
  <2>7. NotStarted(k) /\ ping[k] # "null" /\ worker.flow # k
    BY <2>3, <2>6
  <2>8. row[k] = "running"
    BY <2>4 DEF InQueue, Busy
  <2>9. Lost(k)
    BY <2>5, <2>7, <2>8 DEF Lost, At
  <2> QED BY <1>1, <2>9 DEF Holds
<1>3. \A c \in Pushed : job[c].parent # 0 /\ InQueue(job[c].parent) /\ NotStarted(job[c].parent)
                              /\ InQueue(c)' => ping'[job[c].parent] = "null"
  <2>1. SUFFICES ASSUME NEW c \in Pushed, job[c].parent # 0, InQueue(job[c].parent),
                        NotStarted(job[c].parent), InQueue(c)
                 PROVE  FALSE
    OBVIOUS
  <2> QED BY <1>1, <2>1, QueueChild
<1> QED BY <1>2, <1>3, TokenKeeps

(* A flow that is told of another flow's end has started. *)
LEMMA ReportNotStale ==
  ASSUME Base, TokenInv, job' = job, flow_status' = flow_status, worker.flow \in Pushed,
         IsFlow(worker.flow), ReportsTo(worker.flow), \A k \in Pushed : InQueue(k)' => InQueue(k)
  PROVE  NotStale'
<1>1. CASE worker' = Idle
  BY <1>1 DEF NotStale, Idle
<1>2. CASE job[worker.flow].parent # 0 /\ worker'.flow = job[worker.flow].parent
  <2>1. PICK p : p = job[worker.flow].parent
    OBVIOUS
  <2>2. p \in Pushed /\ ~(InQueue(p) /\ NotStarted(p))
    BY <1>2, <2>1, FlowChild, JobFacts DEF Base
  <2>3. NotStarted(p)' = NotStarted(p)
    BY SameFlow
  <2>4. ~(row'[p] = "running" /\ NotStarted(p)')
    BY <2>2, <2>3 DEF InQueue
  <2> QED BY <1>2, <2>1, <2>4 DEF NotStale, NotStarted, Size, Value, IsPreprocessorStep
<1> QED BY <1>1, <1>2 DEF ReportsTo

(* A flow that is completed or has left the queue hands the token to the flow above it. *)
LEMMA TokenReports ==
  ASSUME Base, TokenInv, job' = job, flow_status' = flow_status, worker.flow \in Pushed,
         IsFlow(worker.flow), ReportsTo(worker.flow), worker.pc \notin {"idle", "run"},
         \/ \E s \in Ended : Complete(worker.flow, s)
         \/ ~InQueue(worker.flow) /\ UNCHANGED <<row, ping>>
  PROVE  TokenInv'
<1>1. \A k \in Pushed : ~Holds(k) /\ row[k] # "queued" /\ k \in Job
  BY JobFacts DEF TokenInv, WorkerHolds, Holds, Busy, Base
<1>2. worker'.pc # "run" /\ \A k \in Pushed : NotStarted(k)' = NotStarted(k)
  BY SameFlow DEF ReportsTo, Idle
<1>3. CASE ~InQueue(worker.flow) /\ UNCHANGED <<row, ping>>
  <2>1. \A k \in Pushed : InQueue(k)' = InQueue(k)
    BY <1>3 DEF InQueue
  <2>2. NotStale'
    BY <2>1, ReportNotStale
  <2>3. \A k \in Pushed : InQueue(k)' => InQueue(k) /\ row'[k] # "queued"
    BY <1>1, <1>3, <2>1
  <2>4. \A k \in Pushed : InQueue(k)' => worker.flow # k
    BY <1>3, <2>1
  <2> QED BY <1>2, <1>3, <2>2, <2>3, <2>4, TokenWorks
<1>4. CASE \E s \in Ended : Complete(worker.flow, s)
  <2>1. PICK s \in Ended : Complete(worker.flow, s)
    BY <1>4
  <2>2. /\ row'[worker.flow] = s /\ \A k \in Job \ {worker.flow} : row'[k] = row[k]
        /\ ping'[worker.flow] = "null"
        /\ \A k \in Job \ {worker.flow} :
               ping'[k] = IF k = job[worker.flow].parent /\ InQueue(k) /\ k \notin canceled
                            THEN "fresh" ELSE ping[k]
    BY <2>1, CompleteEffect DEF Base
  <2>3. s \notin {"queued", "running"}
    BY DEF Ended
  <2>4. \A k \in Pushed : InQueue(k)' => InQueue(k) /\ row'[k] # "queued" /\ worker.flow # k
    BY <1>1, <2>2, <2>3 DEF InQueue
  <2>5. NotStale'
    BY <2>4, ReportNotStale
  <2>6. \A k \in Pushed : job[worker.flow].parent = k => worker'.pc # "idle" /\ worker'.flow = k
    BY JobFacts DEF ReportsTo, Base
  <2>7. \A k \in Pushed : ping'[k] = "null" \/ ping'[k] = ping[k]
                              \/ (worker'.pc # "idle" /\ worker'.flow = k) \/ ~InQueue(k)'
    BY <1>1, <2>2, <2>6
  <2> QED BY <1>2, <2>4, <2>5, <2>7, TokenWorks
<1> QED BY <1>3, <1>4

(* Every step keeps the token in one place. *)
LEMMA TokenStep ==
  ASSUME Base, TokenInv, [Next]_vars
  PROVE  TokenInv'
<1>0. /\ TypeOK /\ row \in [Job -> {"none", "queued", "running"} \cup Ended]
      /\ ping \in [Job -> {"null", "fresh", "stale"}] /\ flow_status \in [Job -> FlowStatus]
      /\ \A j \in Pushed : j \in Job /\ j # 0
      /\ Idle.pc = "idle" /\ "queued" \notin Ended /\ "running" \notin Ended
      /\ "failure" \in Ended /\ "canceled" \in Ended
  BY JobFacts DEF Base, TypeOK, Ended, Idle
<1>w. ASSUME worker.pc \notin {"idle", "run"}
      PROVE  \A k \in Pushed : ~Holds(k) /\ row[k] # "queued"
  BY <1>w DEF TokenInv, WorkerHolds, Holds, Busy
<1>4. ASSUME UpdateStatus PROVE TokenInv'
  <2>1. PICK f \in Pushed : f = worker.flow
    BY <1>4, UpdateStatusEffect
  <2>2. /\ worker.pc = "update" /\ IsFlow(f)
        /\ UNCHANGED <<job, row, canceled, ping>>
        /\ \/ ~InQueue(f) /\ worker' = Idle /\ flow_status' = flow_status
           \/ /\ worker'.flow = f /\ worker'.pc \in {"push", "finish", "preprocessed"}
              /\ flow_status' = flow_status \/ \E stop \in Stops : EndModule(worker, stop)
    BY <1>4, <2>1, UpdateStatusEffect
  <2>3. ASSUME NEW stop \in Stops, EndModule(worker, stop), NotStarted(f)' PROVE NotStarted(f)
    <3>1. /\ flow_status'[f].step = IF IncStep(worker, stop) THEN flow_status[f].step + 1
                                    ELSE flow_status[f].step
          /\ flow_status'[f].module = IF IncStep(worker, stop) THEN "WaitingForPriorSteps" ELSE "Failure"
      BY <1>0, <2>1, <2>3 DEF EndModule
    <3>2. Size(f)' = Size(f)
      BY <2>2, SameFlow
    <3>3. flow_status[f].step \in Nat \cup {-1}
      BY <1>0 DEF FlowStatus, PreprocessorStep
    <3>4. flow_status[f].step = -1
      BY <2>3, <3>1, <3>3 DEF NotStarted, IsPreprocessorStep, PreprocessorStep
    <3> QED BY <2>3, <3>2, <3>4 DEF NotStarted, IsPreprocessorStep, PreprocessorStep
  <2>4. ASSUME NEW k \in Pushed, NotStarted(k)' PROVE NotStarted(k)
    <3>1. CASE flow_status'[k] = flow_status[k]
      BY <2>2, <2>4, <3>1, SameFlow
    <3>2. CASE flow_status'[k] # flow_status[k]
      BY <1>0, <2>1, <2>2, <2>3, <2>4, <3>2 DEF EndModule
    <3> QED BY <3>1, <3>2
  <2>5. NotStale'
    <3>1. CASE worker' = Idle
      BY <1>0, <3>1 DEF NotStale
    <3>2. CASE worker'.flow = f
      BY <2>1, <2>2, <2>4, <3>2 DEF TokenInv, NotStale, NotStarted, Size, Value, IsPreprocessorStep
    <3> QED BY <2>2, <3>1, <3>2
  <2>6. \A k \in Pushed : InQueue(k)' = InQueue(k)
    BY <2>2 DEF InQueue
  <2>7. \A k \in Pushed : InQueue(k)' => InQueue(k) /\ row'[k] # "queued"
    BY <1>w, <2>2, <2>6
  <2>8. \A k \in Pushed : InQueue(k)' /\ worker.flow = k => worker'.pc # "idle" /\ worker'.flow = k
    BY <2>1, <2>2, <2>6
  <2> QED BY <1>0, <2>2, <2>4, <2>5, <2>7, <2>8, TokenWorks
<1>6. ASSUME UpdateFails PROVE TokenInv'
  <2>1. /\ worker.pc \in {"update", "preprocessed"}
        /\ UNCHANGED <<job, flow_status, row, ping, canceled>>
        /\ worker' = [worker EXCEPT !.pc = "update", !.success = FALSE, !.unrecoverable = TRUE]
        /\ worker \in WorkerState
    BY <1>0, <1>6 DEF UpdateFails, TypeOK
  <2>2. worker'.pc = "update" /\ worker'.flow = worker.flow
    BY <2>1 DEF WorkerState
  <2>3. \A k : NotStarted(k)' = NotStarted(k) /\ InQueue(k)' = InQueue(k)
    BY <2>1, SameFlow DEF InQueue
  <2>4. NotStale'
    BY <2>1, <2>2, <2>3 DEF TokenInv, NotStale, NotStarted, Size, Value, IsPreprocessorStep
  <2>5. \A k \in Pushed : InQueue(k)' => InQueue(k) /\ row'[k] # "queued"
    BY <1>w, <2>1, <2>3
  <2> QED BY <2>1, <2>2, <2>3, <2>4, <2>5, TokenWorks
<1>7. ASSUME NEW recover \in BOOLEAN, FinishFlow(recover) PROVE TokenInv'
  <2>1. /\ worker.pc = "finish" /\ worker.flow \in Pushed /\ IsFlow(worker.flow)
        /\ job' = job /\ flow_status' = flow_status
        /\ \/ ReportsTo(worker.flow) /\ \E s \in Ended : Complete(worker.flow, s)
           \/ ~InQueue(worker.flow) /\ worker' = Idle /\ UNCHANGED <<row, canceled, ping>>
    BY <1>7, FinishFlowEffect DEF Rest
  <2>2. CASE ReportsTo(worker.flow) /\ \E s \in Ended : Complete(worker.flow, s)
    BY <2>1, <2>2, TokenReports
  <2>3. CASE ~InQueue(worker.flow) /\ worker' = Idle /\ UNCHANGED <<row, canceled, ping>>
    BY <1>0, <1>w, <2>1, <2>3, SameFlow, TokenWorks DEF InQueue, NotStale
  <2> QED BY <2>1, <2>2, <2>3
<1>8. ASSUME PushEmpty PROVE TokenInv'
  <2>1. PICK f \in Pushed : f = worker.flow
    BY <1>8, PushEmptyEffect
  <2>2. /\ worker.pc \in {"start", "push"} /\ UNCHANGED <<job, row, canceled, ping>>
        /\ worker'.pc = "update" /\ worker'.flow = f
        /\ \/ flow_status' = flow_status
           \/ flow_status' = [flow_status EXCEPT ![f] =
                     [step |-> flow_status[f].step, module |-> "Success", index |-> 0,
                      len |-> 0, fail_count |-> Attempt(f)]]
    BY <1>8, <2>1, PushEmptyEffect
  <2>3. ASSUME NEW k \in Pushed, NotStarted(k)' PROVE NotStarted(k)
    <3>1. CASE flow_status'[k] = flow_status[k]
      BY <2>2, <2>3, <3>1, SameFlow
    <3>2. CASE flow_status'[k] # flow_status[k]
      BY <1>0, <2>2, <2>3, <3>2, SameFlow DEF NotStarted, IsPreprocessorStep
    <3> QED BY <3>1, <3>2
  <2>4. NotStale'
    BY <2>1, <2>2, <2>3 DEF TokenInv, NotStale, NotStarted, Size, Value, IsPreprocessorStep
  <2>5. \A k \in Pushed : InQueue(k)' => InQueue(k) /\ row'[k] # "queued"
    BY <1>w, <2>2 DEF InQueue
  <2> QED BY <2>1, <2>2, <2>3, <2>4, <2>5, TokenWorks
<1>10. ASSUME PushFails PROVE TokenInv'
  <2>1. PICK f \in Pushed : f = worker.flow
    BY <1>10, PushFailsEffect
  <2>2. /\ worker.pc \in {"start", "push"} /\ IsFlow(f) /\ job' = job /\ flow_status' = flow_status
        /\ \/ /\ row' = [row EXCEPT ![f] = IF InQueue(f) THEN "running" ELSE row[f]]
              /\ ping' = [ping EXCEPT ![f] = IF row[f] = "queued" THEN "fresh" ELSE ping[f]]
              /\ canceled' = canceled
              /\ worker'.pc = "update" /\ worker'.flow = f
           \/ /\ ReportsTo(worker.flow)
              /\ \/ Complete(worker.flow, "failure")
                 \/ ~InQueue(worker.flow) /\ UNCHANGED <<row, canceled, ping>>
    BY <1>10, <2>1, PushFailsEffect
  <2>3. CASE /\ row' = [row EXCEPT ![f] = IF InQueue(f) THEN "running" ELSE row[f]]
             /\ ping' = [ping EXCEPT ![f] = IF row[f] = "queued" THEN "fresh" ELSE ping[f]]
             /\ canceled' = canceled
             /\ worker'.pc = "update" /\ worker'.flow = f
    <3>1. row[f] # "queued"
      BY <1>w, <2>2
    <3>2. row' = row /\ ping' = ping
      BY <1>0, <2>3, <3>1 DEF InQueue
    <3>3. \A k : NotStarted(k)' = NotStarted(k) /\ InQueue(k)' = InQueue(k)
      BY <2>2, <3>2, SameFlow DEF InQueue
    <3>4. NotStale'
      <4>1. NotStarted(f)' /\ row[f] = "running" => ping[f] # "stale" \/ f \in canceled
        BY <2>1, <2>2, <3>3 DEF TokenInv, NotStale
      <4> QED BY <2>2, <2>3, <3>2, <4>1 DEF NotStale, NotStarted, Size, Value, IsPreprocessorStep
    <3>5. \A k \in Pushed : InQueue(k)' => InQueue(k) /\ row'[k] # "queued"
      BY <1>w, <2>2, <3>2, <3>3
    <3> QED BY <2>1, <2>2, <2>3, <3>2, <3>3, <3>4, <3>5, TokenWorks
  <2>4. CASE /\ ReportsTo(worker.flow)
             /\ \/ Complete(worker.flow, "failure")
                \/ ~InQueue(worker.flow) /\ UNCHANGED <<row, canceled, ping>>
    BY <1>0, <2>1, <2>2, <2>4, TokenReports
  <2> QED BY <2>2, <2>3, <2>4

<1>g. \A k : Holds(k) <=> \/ row[k] = "queued" \/ (row[k] = "running" /\ ~IsFlow(k))
                          \/ /\ IsFlow(k) /\ row[k] = "running" /\ NotStarted(k)
                             /\ ping[k] # "null" /\ ~(worker.pc # "idle" /\ worker.flow = k)
  BY DEF Holds, Busy, Lost, At
<1>h. ASSUME job' = job, flow_status' = flow_status
      PROVE  \A k : /\ NotStarted(k)' = NotStarted(k)
                    /\ Holds(k)' <=>
                         \/ row'[k] = "queued" \/ (row'[k] = "running" /\ ~IsFlow(k))
                         \/ /\ IsFlow(k) /\ row'[k] = "running" /\ NotStarted(k)
                            /\ ping'[k] # "null" /\ ~(worker'.pc # "idle" /\ worker'.flow = k)
  BY <1>h, HoldsFrame, SameFlow
<1>n. ASSUME job' = job, flow_status' = flow_status, NEW f, worker'.flow = f,
             NotStarted(f) /\ row'[f] = "running" => ping'[f] # "stale" \/ f \in canceled'
      PROVE  NotStale'
  BY <1>h, <1>n DEF NotStale, NotStarted, Size, Value, IsPreprocessorStep
<1>p. \A c \in Pushed : job[c].parent # c /\ (job[c].parent # 0 => job[c].parent \in Pushed)
  BY <1>0, JobFacts
<1>i. ASSUME worker'.pc = "idle" PROVE NotStale'
  BY <1>i DEF NotStale
<1>k. \A c \in Pushed : job[c].parent # 0 /\ InQueue(job[c].parent) /\ NotStarted(job[c].parent)
                           /\ InQueue(c) => ping[job[c].parent] = "null" /\ Holds(c)
  BY QueueChild
<1>1. ASSUME NEW f \in Pushed, PullFlow(f) PROVE TokenInv'
  <2>1. /\ worker.pc = "idle" /\ IsFlow(f) /\ row[f] = "queued"
        /\ job' = job /\ flow_status' = flow_status
        /\ \/ /\ row' = [row EXCEPT ![f] = "running"] /\ ping' = [ping EXCEPT ![f] = "fresh"]
              /\ worker'.flow = f /\ worker'.pc \in {"start", "update"}
           \/ /\ job[f].parent # 0 /\ Complete(f, "canceled")
              /\ worker'.pc = "update" /\ worker'.flow = job[f].parent
    BY <1>1, PullFlowEffect DEF Rest
  <2>2. \A k \in Pushed : Holds(k) => k = f
    BY <1>g, <2>1 DEF TokenInv, OneHolder
  <2>3. \A k \in Pushed : NotStarted(k)' = NotStarted(k)
    BY <1>h, <2>1
  <2>4. CASE /\ row' = [row EXCEPT ![f] = "running"] /\ ping' = [ping EXCEPT ![f] = "fresh"]
             /\ worker'.flow = f /\ worker'.pc \in {"start", "update"}
    <3>1. /\ row'[f] = "running" /\ ping'[f] = "fresh"
          /\ \A k \in Pushed \ {f} : row'[k] = row[k] /\ ping'[k] = ping[k]
      BY <1>0, <2>4
    <3>2. \A k \in Pushed : ~Holds(k)'
      BY <1>g, <1>h, <2>1, <2>2, <2>4, <3>1
    <3>3. NotStale'
      BY <1>n, <2>1, <2>4, <3>1
    <3>4. \A k \in Pushed : InQueue(k)' => InQueue(k)
      BY <2>1, <3>1 DEF InQueue
    <3>5. \A c \in Pushed : job[c].parent # 0 /\ InQueue(job[c].parent) /\ NotStarted(job[c].parent)
                              /\ InQueue(c)' => ping'[job[c].parent] = "null"
      BY <1>k, <1>p, <2>2, <3>1, <3>4
    <3> QED BY <2>1, <2>3, <3>2, <3>3, <3>4, <3>5, TokenKeeps
  <2>5. CASE /\ job[f].parent # 0 /\ Complete(f, "canceled")
             /\ worker'.pc = "update" /\ worker'.flow = job[f].parent
    <3>1. /\ row'[f] = "canceled"
          /\ \A k \in Pushed \ {f} : /\ row'[k] = row[k]
                                     /\ ping'[k] = ping[k] \/ k = job[f].parent
      BY <1>0, <2>5, CompleteEffect
    <3>2. \A k \in Pushed : ~Holds(k)'
      BY <1>g, <1>h, <2>1, <2>2, <2>5, <3>1
    <3>3. \A k \in Pushed : InQueue(k)' => InQueue(k) /\ k # f
      BY <2>1, <3>1 DEF InQueue
    <3>4. NotStale'
      BY <1>n, <1>p, <2>1, <2>5, <3>3, FlowChild DEF InQueue
    <3>5. \A c \in Pushed : job[c].parent # 0 /\ InQueue(job[c].parent) /\ NotStarted(job[c].parent)
                              /\ InQueue(c)' => ping'[job[c].parent] = "null"
      BY <1>k, <2>2, <3>3
    <3> QED BY <2>1, <2>3, <3>2, <3>3, <3>4, <3>5, TokenKeeps
  <2> QED BY <2>1, <2>4, <2>5
<1>2. ASSUME NEW j \in Pushed, PullStep(j) PROVE TokenInv'
  <2>1. /\ worker.pc = "idle" /\ ~IsFlow(j) /\ row[j] = "queued" /\ job[j].parent # 0
        /\ job' = job /\ flow_status' = flow_status /\ ping' = ping
        /\ row' = [row EXCEPT ![j] = "running"]
        /\ worker'.pc = "run" /\ worker'.flow = job[j].parent /\ worker'.job = j
    BY <1>2, PullStepEffect DEF Rest
  <2>2. \A k \in Pushed : Holds(k) => k = j
    BY <1>g, <2>1 DEF TokenInv, OneHolder
  <2>3. \A k \in Pushed : NotStarted(k)' = NotStarted(k)
    BY <1>h, <2>1
  <2>4. row'[j] = "running" /\ \A k \in Pushed \ {j} : row'[k] = row[k]
    BY <1>0, <2>1
  <2>5. \A k \in Pushed : Holds(k)' => k = j
    BY <1>g, <1>h, <2>1, <2>2, <2>4
  <2>6. \A k \in Pushed : InQueue(k)' => InQueue(k)
    BY <2>1, <2>4 DEF InQueue
  <2>7. NotStale'
    BY <1>k, <1>n, <1>p, <2>1, <2>4 DEF InQueue
  <2>8. \A c \in Pushed : job[c].parent # 0 /\ InQueue(job[c].parent) /\ NotStarted(job[c].parent)
                              /\ InQueue(c)' => ping'[job[c].parent] = "null"
    BY <1>k, <2>1, <2>6
  <2> QED BY <2>1, <2>3, <2>5, <2>6, <2>7, <2>8, TokenKeeps
<1>3. ASSUME NEW s \in Ended \ {"skipped"}, FinishStep(s) PROVE TokenInv'
  <2>1. PICK j \in Pushed : j = worker.job
    BY <1>3, FinishStepEffect
  <2>2. PICK p \in Pushed : p = worker.flow
    BY <1>3, FinishStepEffect
  <2>3. /\ worker.pc = "run" /\ ~IsFlow(j) /\ job[j].parent = p
        /\ job' = job /\ flow_status' = flow_status
        /\ worker'.pc = "update" /\ worker'.flow = p
        /\ \/ Complete(j, s)
           \/ ~InQueue(j) /\ UNCHANGED <<row, canceled, ping>>
    BY <1>3, <2>1, <2>2, FinishStepEffect DEF Rest
  <2>4. \A k \in Pushed : Holds(k) => k = j
    BY <2>1, <2>3 DEF TokenInv, WorkerHolds
  <2>5. NotStarted(p) /\ row[p] = "running" => ping[p] # "stale" \/ p \in canceled
    BY <2>2, <2>3 DEF TokenInv, NotStale
  <2>6. CASE Complete(j, s)
    <3>1. /\ row'[j] = s /\ canceled' = canceled \ {j}
          /\ \A k \in Pushed \ {j} :
               /\ row'[k] = row[k]
               /\ ping'[k] = ping[k] \/ (k = p /\ ping'[k] = "fresh")
      BY <1>0, <2>3, <2>6, CompleteEffect
    <3>2. \A k \in Pushed : ~Holds(k)'
      BY <1>0, <1>g, <1>h, <2>2, <2>3, <2>4, <3>1
    <3>3. \A k \in Pushed : InQueue(k)' => InQueue(k) /\ k # j
      BY <1>0, <3>1 DEF InQueue
    <3>4. p # j
      BY <1>p, <2>3
    <3>5. NotStarted(p) /\ row'[p] = "running" => ping'[p] # "stale" \/ p \in canceled'
      BY <2>5, <3>1, <3>4
    <3>6. NotStale'
      BY <1>n, <2>3, <3>5
    <3>7. \A c \in Pushed : job[c].parent # 0 /\ InQueue(job[c].parent) /\ NotStarted(job[c].parent)
                              /\ InQueue(c)' => ping'[job[c].parent] = "null"
      BY <1>k, <2>4, <3>3
    <3> QED BY <1>h, <2>3, <3>2, <3>3, <3>6, <3>7, TokenKeeps
  <2>7. CASE ~InQueue(j) /\ UNCHANGED <<row, canceled, ping>>
    <3>1. \A k \in Pushed : Holds(k)' => Holds(k)
      BY <1>g, <1>h, <2>2, <2>3, <2>7
    <3>2. ~Holds(j)
      BY <1>g, <2>3, <2>7 DEF InQueue
    <3>3. \A k \in Pushed : ~Holds(k)'
      BY <2>4, <3>1, <3>2
    <3>4. NotStale'
      BY <1>n, <2>3, <2>5, <2>7
    <3>5. \A k \in Pushed : InQueue(k)' => InQueue(k)
      BY <2>7 DEF InQueue
    <3>6. \A c \in Pushed : job[c].parent # 0 /\ InQueue(job[c].parent) /\ NotStarted(job[c].parent)
                              /\ InQueue(c)' => ping'[job[c].parent] = "null"
      BY <1>k, <2>7, <3>5
    <3> QED BY <1>h, <2>3, <3>3, <3>4, <3>5, <3>6, TokenKeeps
  <2> QED BY <2>3, <2>6, <2>7
<1>5. ASSUME Preprocess PROVE TokenInv'
  <2>1. /\ worker.pc = "preprocessed" /\ UNCHANGED <<job, flow_status, ping>> /\ worker' = Idle
        /\ row' = IF InQueue(worker.flow) THEN [row EXCEPT ![worker.flow] = "queued"] ELSE row
    BY <1>5 DEF Preprocess
  <2>2. PICK f \in Pushed : f = worker.flow
    BY <2>1 DEF Base, WorkerInv
  <2>3. \A k \in Pushed \ {f} : row'[k] = row[k]
    BY <1>0, <2>1, <2>2
  <2>4. \A k \in Pushed : InQueue(k)' => InQueue(k)
    BY <1>0, <2>1, <2>2 DEF InQueue
  <2>5. \A k \in Pushed : ~Holds(k)
    BY <1>w, <2>1
  <2>6. \A k \in Pushed : Holds(k)' => k = f
    BY <1>0, <1>g, <1>h, <2>1, <2>2, <2>3, <2>5
  <2>7. \A c \in Pushed : job[c].parent # 0 /\ InQueue(job[c].parent) /\ NotStarted(job[c].parent)
                              /\ InQueue(c)' => ping'[job[c].parent] = "null"
    BY <1>k, <2>1, <2>4
  <2> QED BY <1>0, <1>h, <1>i, <2>1, <2>4, <2>6, <2>7, TokenKeeps
<1>11. ASSUME NEW j \in Pushed, Cancel(j) PROVE TokenInv'
  <2>1. UNCHANGED <<job, row, ping, flow_status, worker>> /\ (ForceCancel(j) \/ SoftCancel(j))
    BY <1>11 DEF Cancel
  <2>2. canceled \subseteq canceled'
    BY <2>1 DEF ForceCancel, SoftCancel
  <2>3. \A k \in Pushed : Holds(k)' <=> Holds(k)
    BY <1>g, <1>h, <2>1
  <2>4. \A k \in Pushed : InQueue(k)' = InQueue(k)
    BY <2>1 DEF InQueue
  <2>5. NotStale'
    <3>1. PICK f : f = worker.flow
      OBVIOUS
    <3>2. CASE worker.pc = "idle"
      BY <1>i, <2>1, <3>2
    <3>3. CASE worker.pc # "idle"
      BY <1>n, <2>1, <2>2, <3>1, <3>3 DEF TokenInv, NotStale
    <3> QED BY <3>2, <3>3
  <2>6. OneHolder /\ WorkerHolds
    BY DEF TokenInv
  <2>7. \A c \in Pushed : job[c].parent # 0 /\ InQueue(job[c].parent) /\ NotStarted(job[c].parent)
                              /\ InQueue(c)' => ping'[job[c].parent] = "null"
    BY <1>k, <2>1, <2>4
  <2>8. \A a, b \in Pushed : Holds(a)' /\ Holds(b)' => a = b
    BY <2>3, <2>6 DEF OneHolder
  <2>9. worker'.pc # "idle" => \A k \in Pushed : Holds(k)' => worker'.pc = "run" /\ worker'.job = k
    BY <2>1, <2>3, <2>6 DEF WorkerHolds
  <2> QED BY <1>h, <2>1, <2>4, <2>5, <2>7, <2>8, <2>9, TokenKeeps
<1>s. ASSUME UNCHANGED <<job, row, ping, flow_status, worker>>, canceled' = canceled PROVE TokenInv'
  <2>1. \A k \in Pushed : InQueue(k)' = InQueue(k) /\ (Holds(k)' <=> Holds(k))
    BY <1>g, <1>h, <1>s DEF InQueue
  <2>2. \A k \in Pushed : NotStarted(k)' = NotStarted(k)
    BY <1>h, <1>s
  <2>3. NotStale'
    <3>1. PICK f : f = worker.flow
      OBVIOUS
    <3>2. CASE worker.pc = "idle"
      BY <1>i, <1>s, <3>2
    <3>3. CASE worker.pc # "idle"
      BY <1>n, <1>s, <3>1, <3>3 DEF TokenInv, NotStale
    <3> QED BY <3>2, <3>3
  <2>4. \A c \in Pushed : job[c].parent # 0 /\ InQueue(job[c].parent) /\ NotStarted(job[c].parent)
                              /\ InQueue(c)' => ping'[job[c].parent] = "null"
    BY <1>k, <1>s, <2>1
  <2>5. \A a, b \in Pushed : Holds(a)' /\ Holds(b)' => a = b
    BY <2>1 DEF TokenInv, OneHolder
  <2>6. worker'.pc # "idle" => \A k \in Pushed : Holds(k)' => worker'.pc = "run" /\ worker'.job = k
    BY <1>s, <2>1 DEF TokenInv, WorkerHolds
  <2> QED BY <1>s, <2>1, <2>2, <2>3, <2>4, <2>5, <2>6, TokenKeeps
<1>12. ASSUME NEW j \in Pushed, KillJob(j) PROVE TokenInv'
  <2>1. /\ UNCHANGED <<job, flow_status, worker>>
        /\ \/ InQueue(j) /\ Complete(j, "canceled")
           \/ UNCHANGED <<row, canceled, ping>>
    BY <1>12 DEF KillJob
  <2>2. CASE UNCHANGED <<row, canceled, ping>>
    BY <1>s, <2>1, <2>2
  <2>3. CASE InQueue(j) /\ Complete(j, "canceled")
    <3>1. PICK p : p = job[j].parent
      OBVIOUS
    <3>2. /\ row'[j] = "canceled" /\ canceled' = canceled \ {j} /\ ping'[j] = "null"
          /\ \A k \in Pushed \ {j} :
               /\ row'[k] = row[k]
               /\ ping'[k] = ping[k] \/ (k = p /\ InQueue(p) /\ ping'[k] = "fresh")
      BY <1>0, <2>3, <3>1, CompleteEffect
    <3>3. \A k \in Pushed : InQueue(k)' => InQueue(k) /\ k # j
      BY <3>2 DEF InQueue
    <3>4. \A k \in Pushed : Holds(k)' =>
             /\ k # j
             /\ \/ Holds(k)
                \/ /\ k = p /\ InQueue(p) /\ NotStarted(p)
                   /\ ~(worker.pc # "idle" /\ worker.flow = k)
      BY <1>g, <1>h, <2>1, <3>2
    <3>5. p # 0 /\ InQueue(p) /\ NotStarted(p) => Holds(j)
      BY <1>k, <2>3, <3>1
    <3>6. \A k \in Pushed : k # 0
      BY <1>0
    <3>7. \A a, b \in Pushed : Holds(a)' /\ Holds(b)' => a = b
      BY <3>4, <3>5, <3>6 DEF TokenInv, OneHolder
    <3>8. worker'.pc # "idle" => \A k \in Pushed : Holds(k)' => worker'.pc = "run" /\ worker'.job = k
      <4>1. SUFFICES ASSUME worker.pc # "idle", NEW k \in Pushed, Holds(k)'
                     PROVE  worker.pc = "run" /\ worker.job = k
        BY <2>1
      <4>2. CASE Holds(k)
        BY <4>1, <4>2 DEF TokenInv, WorkerHolds
      <4>3. CASE k = p /\ InQueue(p) /\ NotStarted(p) /\ worker.flow # k
        BY <1>0, <3>1, <3>5, <3>6, <4>1, <4>3 DEF TokenInv, WorkerHolds, Base, WorkerInv
      <4> QED BY <3>4, <4>1, <4>2, <4>3
    <3>9. \A c \in Pushed : job[c].parent # 0 /\ InQueue(job[c].parent) /\ NotStarted(job[c].parent)
                              /\ InQueue(c)' => ping'[job[c].parent] = "null"
      <4>1. SUFFICES ASSUME NEW c \in Pushed, job[c].parent # 0, InQueue(job[c].parent),
                            NotStarted(job[c].parent), InQueue(c)'
                     PROVE  ping'[job[c].parent] = "null"
        OBVIOUS
      <4>2. ping[job[c].parent] = "null" /\ Holds(c) /\ c # j
        BY <1>k, <3>3, <4>1
      <4>3. job[c].parent # p
        BY <3>5, <4>1, <4>2 DEF TokenInv, OneHolder
      <4> QED BY <1>p, <3>2, <4>1, <4>2, <4>3
    <3>10. NotStale'
      <4>1. PICK f : f = worker.flow
        OBVIOUS
      <4>2. CASE worker.pc = "idle"
        BY <1>i, <2>1, <4>2
      <4>3. CASE worker.pc # "idle"
        BY <1>n, <2>1, <3>2, <4>1, <4>3 DEF TokenInv, NotStale, Base, WorkerInv
      <4> QED BY <4>2, <4>3
    <3> QED BY <1>h, <2>1, <3>3, <3>7, <3>8, <3>9, <3>10, TokenKeeps
  <2> QED BY <2>1, <2>2, <2>3
<1>13. ASSUME NEW j \in Pushed, RestartStep(j) PROVE TokenInv'
  <2>1. /\ ~IsFlow(j) /\ row[j] = "running" /\ (worker.pc # "run" \/ worker.job # j)
        /\ row' = [row EXCEPT ![j] = "queued"]
        /\ UNCHANGED <<job, canceled, ping, flow_status, worker>>
    BY <1>13 DEF RestartStep
  <2>2. Holds(j)
    BY <1>g, <2>1
  <2>3. worker.pc = "idle"
    BY <2>1, <2>2 DEF TokenInv, WorkerHolds
  <2>4. \A k \in Pushed \ {j} : row'[k] = row[k]
    BY <1>0, <2>1
  <2>5. \A k \in Pushed : InQueue(k)' => InQueue(k)
    BY <1>0, <2>1 DEF InQueue
  <2>6. \A k \in Pushed : Holds(k)' => k = j
    BY <1>g, <1>h, <2>1, <2>2, <2>4 DEF TokenInv, OneHolder
  <2>7. \A c \in Pushed : job[c].parent # 0 /\ InQueue(job[c].parent) /\ NotStarted(job[c].parent)
                              /\ InQueue(c)' => ping'[job[c].parent] = "null"
    BY <1>k, <2>1, <2>5
  <2> QED BY <1>h, <1>i, <2>1, <2>3, <2>5, <2>6, <2>7, TokenKeeps
<1>14. ASSUME NEW f \in Pushed, PingExpires(f) PROVE TokenInv'
  <2>1. /\ ping[f] = "fresh" /\ (worker.pc = "idle" \/ worker.flow # f)
        /\ ping' = [ping EXCEPT ![f] = "stale"]
        /\ UNCHANGED <<job, row, canceled, flow_status, worker>>
    BY <1>14 DEF PingExpires
  <2>2. ping'[f] = "stale" /\ \A k : k # f => ping'[k] = ping[k]
    BY <1>0, <2>1
  <2>3. \A k \in Pushed : InQueue(k)' = InQueue(k) /\ (Holds(k)' <=> Holds(k))
    BY <1>g, <1>h, <2>1, <2>2 DEF InQueue
  <2>4. NotStale'
    <3>1. PICK w : w = worker.flow
      OBVIOUS
    <3>2. CASE worker.pc = "idle"
      BY <1>i, <2>1, <3>2
    <3>3. CASE worker.pc # "idle"
      BY <1>n, <2>1, <2>2, <3>1, <3>3 DEF TokenInv, NotStale
    <3> QED BY <3>2, <3>3
  <2>5. \A c \in Pushed : job[c].parent # 0 /\ InQueue(job[c].parent) /\ NotStarted(job[c].parent)
                              /\ InQueue(c)' => ping'[job[c].parent] = "null"
    BY <1>k, <2>1, <2>2, <2>3
  <2>6. \A a, b \in Pushed : Holds(a)' /\ Holds(b)' => a = b
    BY <2>3 DEF TokenInv, OneHolder
  <2>7. worker'.pc # "idle" => \A k \in Pushed : Holds(k)' => worker'.pc = "run" /\ worker'.job = k
    BY <2>1, <2>3 DEF TokenInv, WorkerHolds
  <2> QED BY <1>h, <2>1, <2>3, <2>4, <2>5, <2>6, <2>7, TokenKeeps
<1>15. ASSUME NEW f \in Pushed, HandleZombieFlow(f) PROVE TokenInv'
  <2>1. /\ IsFlow(f) /\ row[f] = "running" /\ ping[f] = "stale" /\ f \notin canceled
        /\ UNCHANGED <<job, ping, flow_status, worker, canceled>>
        /\ \/ row' = [row EXCEPT ![f] = "queued"] /\ NotStarted(f)
           \/ UNCHANGED row
    BY <1>15 DEF HandleZombieFlow, IsZombieFlow, ForceCancel, NotStarted
  <2>2. CASE UNCHANGED row
    BY <1>s, <2>1, <2>2
  <2>3. CASE row' = [row EXCEPT ![f] = "queued"] /\ NotStarted(f)
    <3>1. Holds(f)
      BY <1>g, <2>1, <2>3 DEF TokenInv, NotStale
    <3>2. worker.pc = "idle"
      BY <2>1, <3>1 DEF TokenInv, WorkerHolds, Base, WorkerInv
    <3>3. \A k \in Pushed \ {f} : row'[k] = row[k]
      BY <1>0, <2>3
    <3>4. \A k \in Pushed : InQueue(k)' => InQueue(k)
      BY <1>0, <2>1, <2>3 DEF InQueue
    <3>5. \A k \in Pushed : Holds(k)' => k = f
      BY <1>g, <1>h, <2>1, <3>1, <3>3 DEF TokenInv, OneHolder
    <3>6. \A c \in Pushed : job[c].parent # 0 /\ InQueue(job[c].parent) /\ NotStarted(job[c].parent)
                              /\ InQueue(c)' => ping'[job[c].parent] = "null"
      BY <1>k, <2>1, <3>4
    <3> QED BY <1>h, <1>i, <2>1, <3>2, <3>4, <3>5, <3>6, TokenKeeps
  <2> QED BY <2>1, <2>2, <2>3
<1>16. ASSUME Crash PROVE TokenInv'
  <2>1. worker' = Idle /\ UNCHANGED <<job, row, canceled, ping, flow_status>>
    BY <1>16 DEF Crash
  <2>2. \A k \in Pushed : InQueue(k)' = InQueue(k)
    BY <2>1 DEF InQueue
  <2>3. \A k \in Pushed : Holds(k)' => \/ Holds(k)
                                       \/ /\ worker.pc # "idle" /\ worker.flow = k
                                          /\ row[k] = "running" /\ NotStarted(k) /\ ping[k] # "null"
    BY <1>g, <1>h, <2>1
  <2>4. ASSUME NEW k \in Pushed, NEW w \in Pushed, Holds(k), worker.pc # "idle", worker.flow = w,
               row[w] = "running", NotStarted(w), ping[w] # "null"
        PROVE  FALSE
    BY <1>0, <1>g, <1>k, <2>4 DEF TokenInv, WorkerHolds, Base, WorkerInv, InQueue
  <2>5. \A a, b \in Pushed : Holds(a)' /\ Holds(b)' => a = b
    BY <2>3, <2>4 DEF TokenInv, OneHolder
  <2>6. \A c \in Pushed : job[c].parent # 0 /\ InQueue(job[c].parent) /\ NotStarted(job[c].parent)
                              /\ InQueue(c)' => ping'[job[c].parent] = "null"
    BY <1>k, <2>1, <2>2
  <2> QED BY <1>0, <1>h, <1>i, <2>1, <2>2, <2>5, <2>6, TokenKeeps
<1>17. ASSUME CrashServer PROVE TokenInv'
  BY <1>s, <1>17 DEF CrashServer
<1>18. ASSUME UNCHANGED vars PROVE TokenInv'
  BY <1>s, <1>18 DEF vars
<1>9. ASSUME PushNext PROVE TokenInv'
  <2>1. PICK f \in Pushed : f = worker.flow
    BY <1>9, PushNextEffect
  <2>2. PICK q : q = Len(job) + 1
    OBVIOUS
  <2>3. /\ worker.pc \in {"start", "push"} /\ IsFlow(f) /\ worker' = Idle
        /\ row' = [row EXCEPT ![q] = "queued"] /\ ping' = [ping EXCEPT ![f] = "null"]
        /\ q \in Job /\ q \notin Pushed /\ Pushed' = Pushed \cup {q}
        /\ \A j \in Pushed : job'[j] = job[j]
    BY <1>9, <2>1, <2>2, PushNextEffect
  <2>4. PICK n \in NextFlowTransform(f) \ {EmptyInnerFlows} :
           /\ job'[q] = JobOf(n.flow, f, PushedStep(f), n.index, n.len, Attempt(f))
           /\ SetModule(f, n, PushedStep(f), Attempt(f))
    BY <1>9, <2>1, <2>2, PushNextEffect
  <2>5. /\ n.module \in {"WaitingForExecutor", "InProgress"}
        /\ IsPreprocessorStep(f) => n.flow = "script"
    BY <2>1, <2>3, <2>4, NextFacts
  <2>6. \A k \in Pushed : ~Holds(k) /\ row[k] # "queued"
    BY <1>w, <2>3
  <2>7. /\ \A k \in Pushed : row'[k] = row[k]
        /\ ping'[f] = "null" /\ \A k \in Pushed \ {f} : ping'[k] = ping[k]
        /\ \A k \in Pushed \ {f} : flow_status'[k] = flow_status[k]
    BY <1>0, <2>3, <2>4 DEF SetModule
  <2>8. \A k \in Pushed \ {f} : NotStarted(k)' = NotStarted(k)
    BY <2>3, <2>7, SameFlow
  <2>9. \A k \in Pushed : ~Holds(k)'
    <3>1. SUFFICES ASSUME NEW k \in Pushed PROVE ~Holds(k)'
      OBVIOUS
    <3>2. Holds(k)' <=> \/ row'[k] = "queued" \/ (row'[k] = "running" /\ ~IsFlow(k))
                       \/ /\ IsFlow(k) /\ row'[k] = "running" /\ NotStarted(k)'
                          /\ ping'[k] # "null" /\ ~(worker'.pc # "idle" /\ worker'.flow = k)
      BY <2>3, HoldsFrame
    <3>3. CASE k = f
      BY <2>3, <2>6, <2>7, <3>2, <3>3
    <3>4. CASE k # f
      BY <1>g, <2>1, <2>6, <2>7, <2>8, <3>2, <3>4
    <3> QED BY <3>3, <3>4
  <2>10. OneHolder' /\ WorkerHolds' /\ NotStale'
    BY <1>0, <1>i, <2>3, <2>9 DEF OneHolder, WorkerHolds
  <2>11. ASSUME InQueue(f), NotStarted(f)'
         PROVE  IsPreprocessorStep(f) /\ NotStarted(f) /\ PushedStep(f) = PreprocessorStep
    <3>1. flow_status'[f].step = PushedStep(f) /\ flow_status'[f].module = n.module
      BY <1>0, <2>4, <2>11 DEF SetModule
    <3>2. Size(f)' = Size(f) /\ Size(f) \in Nat
      BY <1>0, <2>3, SameFlow, ModuleFacts
    <3>3. PushedStep(f) = -1 /\ Size(f) > 0
      BY <2>5, <2>11, <3>1, <3>2 DEF NotStarted, IsPreprocessorStep, PreprocessorStep
    <3>4. flow_status[f].step = -1
      BY <3>2, <3>3 DEF PushedStep
    <3> QED BY <3>3, <3>4 DEF IsPreprocessorStep, PreprocessorStep, NotStarted
  <2>12. FirstChildren'
    <3>1. SUFFICES ASSUME NEW c \in Pushed', NEW p, p = job'[c].parent, p # 0, InQueue(p)', NotStarted(p)'
                   PROVE  job'[c].step = PreprocessorStep /\ ~IsFlow(c)'
                          /\ (InQueue(c)' => ping'[p] = "null")
      BY DEF FirstChildren, InQueue, NotStarted, Size, Value, IsPreprocessorStep
    <3>2. CASE c = q
      <4>1. p = f /\ job'[c].step = PushedStep(f) /\ job'[c].flow = n.flow
        BY <2>4, <3>1, <3>2 DEF JobOf
      <4>2. InQueue(f)
        BY <2>7, <3>1, <4>1 DEF InQueue
      <4>3. IsPreprocessorStep(f) /\ PushedStep(f) = PreprocessorStep
        BY <2>11, <3>1, <4>1, <4>2
      <4>4. ~IsFlow(c)'
        BY <2>5, <4>1, <4>3 DEF IsFlow, IsStep
      <4> QED BY <2>7, <4>1, <4>3, <4>4
    <3>3. CASE c \in Pushed
      <4>1. job'[c] = job[c] /\ p = job[c].parent /\ p \in Pushed
        BY <1>p, <2>3, <3>1, <3>3
      <4>2. InQueue(p) /\ (InQueue(c)' = InQueue(c))
        BY <2>7, <3>1, <3>3, <4>1 DEF InQueue
      <4>3. NotStarted(p)
        BY <2>8, <2>11, <3>1, <4>1, <4>2
      <4>4. job[c].step = PreprocessorStep /\ ~IsFlow(c) /\ (InQueue(c) => ping[p] = "null")
        BY <3>1, <3>3, <4>1, <4>2, <4>3 DEF TokenInv, FirstChildren
      <4>5. IsFlow(c)' = IsFlow(c)
        BY <4>1, SameFlow
      <4> QED BY <2>7, <4>1, <4>2, <4>4, <4>5
    <3> QED BY <2>3, <3>1, <3>2, <3>3
  <2> QED BY <2>10, <2>12 DEF TokenInv
<1> QED BY <1>1, <1>2, <1>3, <1>4, <1>5, <1>6, <1>7, <1>8, <1>9, <1>10, <1>11, <1>12, <1>13,
           <1>14, <1>15, <1>16, <1>17, <1>18 DEF Next, WorkerStep, MonitorStep

(* At the start, the root is queued and nothing else is there. *)
LEMMA BaseInit ==
  ASSUME Init
  PROVE  Base /\ TokenInv
<1>1. PICK r \in Roots : job = <<JobOf(r, 0, 0, 0, 0, 0)>>
  BY DEF Init
<1>2. r \in DOMAIN Flows /\ r \notin {"script", "identity"} /\ MaxJobs \in Nat \ {0} /\ MaxFaults \in Nat
  BY NestedFlowAssumption
<1>3. Len(job) = 1 /\ Pushed = {1} /\ job[1] = JobOf(r, 0, 0, 0, 0, 0) /\ 1 \in Job
  BY <1>1, <1>2 DEF Pushed, Job
<1>4. job[1].flow = r /\ job[1].parent = 0 /\ IsFlow(1) /\ job[1] \in JobRecord
  BY <1>2, <1>3 DEF JobOf, IsFlow, IsStep, JobRecord
<1>5. job \in Seq(JobRecord)
  BY <1>1, <1>3, <1>4
<1>6. \A b \in BOOLEAN : /\ NewStatus(b) \in FlowStatus /\ NewStatus(b).len = 0
                         /\ NewStatus(b).module = "WaitingForPriorSteps"
  BY DEF NewStatus, FlowStatus, PreprocessorStep
<1>7. Flows[r].preprocessor \in BOOLEAN
  BY <1>2, NestedFlowAssumption DEF FlowValue
<1>8. /\ flow_status \in [Job -> FlowStatus] /\ \A j \in Job : flow_status[j].len = 0
      /\ flow_status[1].module = "WaitingForPriorSteps"
      /\ \A j \in Job \ Pushed : flow_status[j] = NewStatus(FALSE)
  <2>1. flow_status = [j \in Job |-> NewStatus(j = Root /\ Flows[job[j].flow].preprocessor)]
    BY DEF Init
  <2>2. \A j \in Job : (j = Root /\ Flows[job[j].flow].preprocessor) \in BOOLEAN
    BY <1>4, <1>7 DEF Root
  <2>3. \A j \in Job : /\ flow_status[j] \in FlowStatus /\ flow_status[j].len = 0
                       /\ flow_status[j].module = "WaitingForPriorSteps"
    BY <1>6, <2>1, <2>2
  <2>4. \A j \in Job \ Pushed : flow_status[j] = NewStatus(FALSE)
    BY <1>3, <2>1 DEF Root
  <2> QED BY <1>3, <2>1, <2>3, <2>4
<1>9. /\ row \in [Job -> {"none", "queued", "running"} \cup Ended]
      /\ row[1] = "queued" /\ \A j \in Job \ {1} : row[j] = "none"
      /\ ping \in [Job -> {"null", "fresh", "stale"}]
  BY <1>3 DEF Init, Root
<1>10. worker = Idle /\ worker.pc = "idle" /\ Idle \in WorkerState
  BY <1>2 DEF Init, Idle, WorkerState, Stops
<1>11. TypeOK
  BY <1>2, <1>3, <1>4, <1>5, <1>8, <1>9, <1>10 DEF Init, TypeOK
<1>12. WorkerInv
  BY <1>10 DEF WorkerInv
<1>13. RangeInv
  BY <1>3, <1>8, <1>9, <1>10 DEF InProgress, Branching, RangeInv
<1>14. TokenInv
  BY <1>3, <1>4, <1>10 DEF TokenInv, OneHolder, WorkerHolds, FirstChildren, NotStale
<1> QED BY <1>11, <1>12, <1>13, <1>14 DEF Base

(* The inductive invariant holds in every run. *)
THEOREM TokenInvariant == Spec => [](Base /\ TokenInv)
<1>1. Init => Base /\ TokenInv
  BY BaseInit
<1>2. Base /\ TokenInv /\ [Next]_vars => (Base /\ TokenInv)'
  BY BaseStep, TokenStep
<1> QED BY <1>1, <1>2, PTL DEF Spec

(* For any flows and any number of jobs, jobs, rows, statuses, pings and the worker's state stay well formed: a job's parent is an earlier flow, and an iterator's index is below its length. *)
THEOREM TypeCorrect == Spec => []TypeOK
<1>1. Base /\ TokenInv => TypeOK
  BY DEF Base
<1> QED BY <1>1, TokenInvariant, PTL

(* The tree has one thread of control, for any flows, however deep, and any number of deaths, errors and cancels: two jobs of it are never both queued or both run. *)
THEOREM OneThreadOfControl == Spec => []OneAtATime
<1>1. Base /\ TokenInv => OneAtATime
  BY DEF TokenInv, OneHolder, Holds, Busy, OneAtATime
<1> QED BY <1>1, TokenInvariant, PTL
-----------------------------------------------------------------------------
(* One job at a time below each flow, in the order of the iterations.      *)

(* A completion of a job in the queue changes no row that has ended. *)
LEMMA CompleteKeeps ==
  ASSUME Base, NEW j \in Pushed, NEW s \in Ended, Complete(j, s), InQueue(j)
  PROVE  \A c \in Pushed : /\ row[c] \in Ended => row'[c] = row[c]
                           /\ InQueue(c)' => InQueue(c) /\ c # j
  BY JobFacts, CompleteEffect DEF Base, InQueue, Ended

(* What has been pushed, ended or noted stays so, and no job comes back to life. *)
LEMMA Stable ==
  ASSUME Base, TokenInv, [Next]_vars
  PROVE  /\ Pushed \subseteq Pushed' /\ \A j \in Pushed : job'[j] = job[j]
         /\ history \subseteq history' /\ broken \subseteq broken'
         /\ \A c \in Pushed : row[c] \in Ended => row'[c] = row[c]
         /\ \A c \in Pushed : InQueue(c)' => InQueue(c)
         /\ \A c \in Pushed : Live(c)' => Live(c)
<1> DEFINE Keeps == /\ Pushed \subseteq Pushed' /\ \A j \in Pushed : job'[j] = job[j]
                    /\ history \subseteq history' /\ broken \subseteq broken'
                    /\ \A c \in Pushed : row[c] \in Ended => row'[c] = row[c]
                    /\ \A c \in Pushed : InQueue(c)' => InQueue(c)
                    /\ \A c \in Pushed : Live(c)' => Live(c)
<1>0. /\ TypeOK /\ row \in [Job -> {"none", "queued", "running"} \cup Ended]
      /\ \A j \in Pushed : j \in Job
      /\ Idle.pc = "idle" /\ "queued" \notin Ended /\ "running" \notin Ended
      /\ "failure" \in Ended /\ "canceled" \in Ended
  BY JobFacts DEF Base, TypeOK, Ended, Idle
<1>l. \A c : Live(c) <=> \/ InQueue(c)
                         \/ worker.pc \in {"start", "push", "finish", "preprocessed"} /\ worker.flow = c
                         \/ worker.pc = "run" /\ worker.job = c
  BY DEF Live
<1>m. \A c : Live(c)' <=> \/ InQueue(c)'
                          \/ worker'.pc \in {"start", "push", "finish", "preprocessed"} /\ worker'.flow = c
                          \/ worker'.pc = "run" /\ worker'.job = c
  BY DEF Live
<1>j. ASSUME job' = job PROVE Pushed \subseteq Pushed' /\ \A j \in Pushed : job'[j] = job[j]
  BY <1>j DEF Pushed
<1>q. ASSUME row' = row
      PROVE  \A c \in Pushed : (row[c] \in Ended => row'[c] = row[c]) /\ (InQueue(c)' => InQueue(c))
  BY <1>q DEF InQueue
<1>1. ASSUME NEW f \in Pushed, PullFlow(f) PROVE Keeps
  <2>1. /\ IsFlow(f) /\ row[f] = "queued" /\ InQueue(f) /\ UNCHANGED <<job, history, broken>>
        /\ \/ /\ row' = [row EXCEPT ![f] = "running"] /\ worker'.flow = f
              /\ worker'.pc \in {"start", "update"}
           \/ Complete(f, "canceled") /\ worker'.pc = "update"
    BY <1>1, PullFlowEffect DEF Rest, InQueue
  <2>2. \A c \in Pushed : (row[c] \in Ended => row'[c] = row[c]) /\ (InQueue(c)' => InQueue(c))
    BY <1>0, <2>1, CompleteKeeps DEF InQueue
  <2>3. \A c \in Pushed : Live(c)' => Live(c)
    BY <1>l, <1>m, <2>1, <2>2
  <2> QED BY <1>j, <2>1, <2>2, <2>3
<1>2. ASSUME NEW j \in Pushed, PullStep(j) PROVE Keeps
  BY <1>0, <1>2, <1>j, <1>l, <1>m, PullStepEffect DEF Rest, InQueue
<1>3. ASSUME NEW s \in Ended \ {"skipped"}, FinishStep(s) PROVE Keeps
  BY <1>3, <1>j, <1>l, <1>m, <1>q, FinishStepEffect, CompleteKeeps DEF Rest
<1>4. ASSUME UpdateStatus PROVE Keeps
  BY <1>0, <1>4, <1>j, <1>l, <1>m, <1>q, UpdateStatusEffect
<1>5. ASSUME Preprocess PROVE Keeps
  BY <1>0, <1>5, <1>j, <1>l, <1>m DEF Preprocess, InQueue
<1>6. ASSUME UpdateFails PROVE Keeps
  <2>1. /\ UNCHANGED <<job, row, broken, history>> /\ worker \in WorkerState
        /\ worker' = [worker EXCEPT !.pc = "update", !.success = FALSE, !.unrecoverable = TRUE]
    BY <1>0, <1>6 DEF UpdateFails, TypeOK
  <2>2. worker'.pc = "update"
    BY <2>1 DEF WorkerState
  <2>3. \A c \in Pushed : (row[c] \in Ended => row'[c] = row[c]) /\ (InQueue(c)' => InQueue(c))
    BY <1>q, <2>1
  <2>4. \A c \in Pushed : Live(c)' => Live(c)
    BY <1>l, <1>m, <2>2, <2>3
  <2> QED BY <1>j, <2>1, <2>3, <2>4
<1>7. ASSUME NEW recover \in BOOLEAN, FinishFlow(recover) PROVE Keeps
  BY <1>0, <1>7, <1>j, <1>l, <1>m, <1>q, FinishFlowEffect, CompleteKeeps DEF Rest, ReportsTo
<1>8. ASSUME PushEmpty PROVE Keeps
  BY <1>8, <1>j, <1>l, <1>m, <1>q, PushEmptyEffect
<1>9. ASSUME PushNext PROVE Keeps
  <2>1. PICK q : q = Len(job) + 1
    OBVIOUS
  <2>2. /\ UNCHANGED <<history, broken>> /\ worker' = Idle
        /\ row' = [row EXCEPT ![q] = "queued"]
        /\ q \notin Pushed /\ Pushed' = Pushed \cup {q}
        /\ \A j \in Pushed : job'[j] = job[j]
    BY <1>9, <2>1, PushNextEffect
  <2>3. \A c \in Pushed : row'[c] = row[c]
    BY <1>0, <2>2
  <2>4. \A c \in Pushed : InQueue(c)' => InQueue(c)
    BY <2>3 DEF InQueue
  <2>5. \A c \in Pushed : Live(c)' => Live(c)
    BY <1>0, <1>l, <1>m, <2>2, <2>4
  <2> QED BY <2>2, <2>3, <2>4, <2>5
<1>10. ASSUME PushFails PROVE Keeps
  <2>1. /\ worker.flow \in Pushed /\ UNCHANGED <<job, history>> /\ broken \subseteq broken'
        /\ worker'.pc \in {"idle", "update"}
        /\ \/ row' = [row EXCEPT ![worker.flow] =
                              IF InQueue(worker.flow) THEN "running" ELSE row[worker.flow]]
           \/ InQueue(worker.flow) /\ Complete(worker.flow, "failure")
           \/ row' = row
    BY <1>0, <1>10, PushFailsEffect DEF ReportsTo
  <2>2. \A c \in Pushed : (row[c] \in Ended => row'[c] = row[c]) /\ (InQueue(c)' => InQueue(c))
    BY <1>0, <1>q, <2>1, CompleteKeeps DEF InQueue
  <2>3. \A c \in Pushed : Live(c)' => Live(c)
    BY <1>l, <1>m, <2>1, <2>2
  <2> QED BY <1>j, <2>1, <2>2, <2>3
<1>r. ASSUME UNCHANGED <<job, history, broken>>, worker' = worker \/ worker' = Idle,
             \A c \in Pushed : (row[c] \in Ended => row'[c] = row[c]) /\ (InQueue(c)' => InQueue(c))
      PROVE  Keeps
  BY <1>0, <1>j, <1>l, <1>m, <1>r
<1>12. ASSUME NEW j \in Pushed, KillJob(j) PROVE Keeps
  BY <1>0, <1>q, <1>r, <1>12, CompleteKeeps DEF KillJob
<1>13. ASSUME NEW j \in Pushed, RestartStep(j) PROVE Keeps
  BY <1>0, <1>r, <1>13 DEF RestartStep, InQueue
<1>15. ASSUME NEW f \in Pushed, HandleZombieFlow(f) PROVE Keeps
  BY <1>0, <1>q, <1>r, <1>15 DEF HandleZombieFlow, IsZombieFlow, InQueue
<1>16. ASSUME \/ \E j \in Pushed : Cancel(j) \/ PingExpires(j)
              \/ Crash \/ CrashServer \/ UNCHANGED vars
       PROVE  Keeps
  BY <1>q, <1>r, <1>16 DEF Cancel, PingExpires, Crash, CrashServer, vars
<1> QED BY <1>1, <1>2, <1>3, <1>4, <1>5, <1>6, <1>7, <1>8, <1>9, <1>10, <1>12, <1>13,
           <1>15, <1>16 DEF Next, WorkerStep, MonitorStep

(* ChildInv after a step that pushes no job. *)
LEMMA ChildKeeps ==
  ASSUME Base, TokenInv, ChildInv, [Next]_vars, job' = job,
         \A c \in Pushed : LET p == job[c].parent IN
            p # 0 /\ Live(c) /\ Live(c)' =>
               /\ row'[p] # "queued"
               /\ worker'.pc # "idle" /\ worker'.flow = p => worker'.pc = "run" /\ worker'.job = c
  PROVE  ChildInv'
<1>1. Pushed' = Pushed /\ \A c \in Pushed : Live(c)' => Live(c)
  BY Stable DEF Pushed
<1>2. OneLive'
  BY <1>1 DEF ChildInv, OneLive
<1>3. LiveWaited'
  <2>1. SUFFICES ASSUME NEW c \in Pushed, NEW p, p = job[c].parent, p # 0, Live(c)'
                 PROVE  row'[p] # "queued" /\ (At(p)' => worker'.pc = "run" /\ worker'.job = c)
    BY <1>1 DEF LiveWaited, At
  <2> QED BY <1>1, <2>1 DEF At
<1> QED BY <1>2, <1>3 DEF ChildInv

(* A flow that ends is the only live job below the flow that it reports to. *)
LEMMA ChildReports ==
  ASSUME Base, TokenInv, ChildInv, [Next]_vars, job' = job, NEW f \in Pushed, Live(f), ~Live(f)',
         ReportsTo(f), \A k \in Pushed : row'[k] = "queued" => row[k] = "queued"
  PROVE  ChildInv'
<1>1. SUFFICES ASSUME NEW c \in Pushed, job[c].parent # 0, Live(c), Live(c)'
               PROVE  /\ row'[job[c].parent] # "queued"
                      /\ worker'.pc # "idle" /\ worker'.flow = job[c].parent =>
                           worker'.pc = "run" /\ worker'.job = c
  BY ChildKeeps
<1>2. job[c].parent \in Pushed
  BY <1>1, JobFacts DEF Base
<1>3. row'[job[c].parent] # "queued"
  BY <1>1, <1>2 DEF ChildInv, LiveWaited
<1>4. ASSUME worker'.pc # "idle", worker'.flow = job[c].parent PROVE FALSE
  BY <1>1, <1>4 DEF ReportsTo, Idle, ChildInv, OneLive
<1> QED BY <1>3, <1>4

(* Every step keeps one live job below each flow, which its flow waits for. *)
LEMMA ChildStep ==
  ASSUME Base, TokenInv, ChildInv, [Next]_vars
  PROVE  ChildInv'
<1>0. /\ TypeOK /\ row \in [Job -> {"none", "queued", "running"} \cup Ended]
      /\ \A j \in Pushed : j \in Job /\ j # 0 /\ job[j].parent # j
      /\ \A j \in Pushed : job[j].parent # 0 => job[j].parent \in Pushed /\ IsFlow(job[j].parent)
      /\ Idle.pc = "idle" /\ "queued" \notin Ended /\ "running" \notin Ended
      /\ "failure" \in Ended /\ "canceled" \in Ended
  BY JobFacts DEF Base, TypeOK, Ended, Idle
<1>l. \A c : Live(c) <=> \/ InQueue(c)
                         \/ worker.pc \in {"start", "push", "finish", "preprocessed"} /\ worker.flow = c
                         \/ worker.pc = "run" /\ worker.job = c
  BY DEF Live
<1>m. \A c : Live(c)' <=> \/ InQueue(c)'
                          \/ worker'.pc \in {"start", "push", "finish", "preprocessed"} /\ worker'.flow = c
                          \/ worker'.pc = "run" /\ worker'.job = c
  BY DEF Live
<1>o. \A c, d \in Pushed :
        job[c].parent # 0 /\ job[c].parent = job[d].parent /\ Live(c) /\ Live(d) => c = d
  BY DEF ChildInv, OneLive
<1>u. \A c \in Pushed : job[c].parent # 0 /\ Live(c) =>
        /\ row[job[c].parent] # "queued"
        /\ worker.pc # "idle" /\ worker.flow = job[c].parent => worker.pc = "run" /\ worker.job = c
  BY DEF ChildInv, LiveWaited, At
<1>e. ASSUME NEW j \in Pushed, NEW s \in Ended, Complete(j, s)
      PROVE  ~InQueue(j)' /\ \A k \in Pushed : row'[k] = "queued" => row[k] = "queued"
  BY <1>0, <1>e, CompleteEffect DEF InQueue
<1>1. ASSUME NEW f \in Pushed, PullFlow(f) PROVE ChildInv'
  <2>1. /\ IsFlow(f) /\ row[f] = "queued" /\ InQueue(f) /\ job' = job
        /\ \/ /\ row' = [row EXCEPT ![f] = "running"] /\ worker'.flow = f
              /\ worker'.pc \in {"start", "update"}
           \/ /\ job[f].parent # 0 /\ Complete(f, "canceled")
              /\ worker'.pc = "update" /\ worker'.flow = job[f].parent /\ worker'.job = f
    BY <1>1, PullFlowEffect DEF Rest, InQueue
  <2>2. CASE /\ row' = [row EXCEPT ![f] = "running"] /\ worker'.flow = f
    BY <1>0, <1>u, <2>1, <2>2, ChildKeeps
  <2>3. CASE /\ job[f].parent # 0 /\ Complete(f, "canceled")
             /\ worker'.pc = "update" /\ worker'.flow = job[f].parent /\ worker'.job = f
    BY <1>0, <1>e, <1>l, <1>m, <2>1, <2>3, ChildReports DEF ReportsTo
  <2> QED BY <2>1, <2>2, <2>3
<1>2. ASSUME NEW j \in Pushed, PullStep(j) PROVE ChildInv'
  BY <1>0, <1>2, <1>l, <1>o, <1>u, PullStepEffect, ChildKeeps DEF Rest, InQueue
<1>3. ASSUME NEW s \in Ended \ {"skipped"}, FinishStep(s) PROVE ChildInv'
  <2>1. PICK j \in Pushed : j = worker.job
    BY <1>3, FinishStepEffect
  <2>2. /\ worker.pc = "run" /\ job[j].parent = worker.flow /\ job' = job
        /\ worker'.pc = "update" /\ worker'.flow = worker.flow
        /\ Complete(j, s) \/ (~InQueue(j) /\ row' = row)
    BY <1>3, <2>1, FinishStepEffect DEF Rest
  <2>3. ~InQueue(j)' /\ \A k \in Pushed : row'[k] = "queued" => row[k] = "queued"
    BY <1>e, <2>2 DEF InQueue
  <2>4. ~Live(j)'
    BY <1>m, <2>2, <2>3
  <2>5. \A c \in Pushed : job[c].parent # 0 /\ Live(c) /\ Live(c)' =>
               row'[job[c].parent] # "queued" /\ worker'.flow # job[c].parent
    BY <1>0, <1>u, <2>1, <2>2, <2>3, <2>4
  <2> QED BY <2>2, <2>5, ChildKeeps
<1>a. ASSUME worker.pc \notin {"idle", "run"}, job' = job,
             worker'.pc # "idle" => worker'.flow = worker.flow,
             \A k \in Pushed : row'[k] = "queued" => row[k] = "queued" \/ k = worker.flow
      PROVE  ChildInv'
  BY <1>0, <1>a, <1>u, ChildKeeps
<1>4. ASSUME UpdateStatus PROVE ChildInv'
  BY <1>0, <1>4, <1>a, UpdateStatusEffect
<1>5. ASSUME Preprocess PROVE ChildInv'
  BY <1>0, <1>5, <1>a DEF Preprocess
<1>6. ASSUME UpdateFails PROVE ChildInv'
  BY <1>0, <1>6, <1>a DEF UpdateFails, TypeOK, WorkerState
<1>7. ASSUME NEW recover \in BOOLEAN, FinishFlow(recover) PROVE ChildInv'
  <2>1. PICK f \in Pushed : f = worker.flow
    BY <1>7, FinishFlowEffect
  <2>2. /\ worker.pc = "finish" /\ job' = job
        /\ \/ ReportsTo(f) /\ \E s \in Ended : Complete(f, s)
           \/ worker' = Idle /\ row' = row
    BY <1>7, <2>1, FinishFlowEffect DEF Rest
  <2>3. CASE worker' = Idle /\ row' = row
    BY <1>0, <1>a, <2>2, <2>3
  <2>4. CASE ReportsTo(f) /\ \E s \in Ended : Complete(f, s)
    BY <1>0, <1>e, <1>l, <1>m, <2>1, <2>2, <2>4, ChildReports DEF ReportsTo
  <2> QED BY <2>2, <2>3, <2>4
<1>8. ASSUME PushEmpty PROVE ChildInv'
  BY <1>8, <1>a, PushEmptyEffect
<1>10. ASSUME PushFails PROVE ChildInv'
  <2>1. PICK f \in Pushed : f = worker.flow
    BY <1>10, PushFailsEffect
  <2>2. /\ worker.pc \in {"start", "push"} /\ job' = job
        /\ \/ /\ row' = [row EXCEPT ![f] = IF InQueue(f) THEN "running" ELSE row[f]]
              /\ worker'.flow = f
           \/ ReportsTo(f) /\ (Complete(f, "failure") \/ (~InQueue(f) /\ row' = row))
    BY <1>10, <2>1, PushFailsEffect
  <2>3. CASE /\ row' = [row EXCEPT ![f] = IF InQueue(f) THEN "running" ELSE row[f]]
             /\ worker'.flow = f
    BY <1>0, <1>a, <2>1, <2>2, <2>3 DEF InQueue
  <2>4. CASE ReportsTo(f) /\ (Complete(f, "failure") \/ (~InQueue(f) /\ row' = row))
    BY <1>0, <1>e, <1>l, <1>m, <2>1, <2>2, <2>4, ChildReports DEF InQueue, ReportsTo
  <2> QED BY <2>2, <2>3, <2>4
<1>r. ASSUME job' = job, worker' = worker \/ worker' = Idle,
             \A k \in Pushed : row'[k] = "queued" => row[k] = "queued" \/ ~IsFlow(k)
      PROVE  ChildInv'
  BY <1>0, <1>r, <1>u, ChildKeeps
<1>12. ASSUME NEW j \in Pushed, KillJob(j) PROVE ChildInv'
  BY <1>0, <1>e, <1>r, <1>12 DEF KillJob
<1>13. ASSUME NEW j \in Pushed, RestartStep(j) PROVE ChildInv'
  BY <1>0, <1>r, <1>13 DEF RestartStep
<1>15. ASSUME NEW f \in Pushed, HandleZombieFlow(f) PROVE ChildInv'
  <2>1. /\ IsFlow(f) /\ row[f] = "running" /\ ping[f] = "stale" /\ f \notin canceled
        /\ UNCHANGED <<job, worker>>
        /\ \/ row' = [row EXCEPT ![f] = "queued"] /\ NotStarted(f)
           \/ UNCHANGED row
    BY <1>15 DEF HandleZombieFlow, IsZombieFlow, NotStarted
  <2>2. CASE UNCHANGED row
    BY <1>r, <2>1, <2>2
  <2>3. CASE row' = [row EXCEPT ![f] = "queued"] /\ NotStarted(f)
    <3>1. \A k \in Pushed \ {f} : row'[k] = row[k]
      BY <1>0, <2>3
    <3>2. ASSUME NEW c \in Pushed, job[c].parent = f PROVE ~Live(c)
      <4>1. InQueue(f) /\ f # 0
        BY <1>0, <2>1 DEF InQueue
      <4>2. ~IsFlow(c) /\ (InQueue(c) => ping[f] = "null")
        BY <2>3, <3>2, <4>1 DEF TokenInv, FirstChildren
      <4>3. ~InQueue(c)
        BY <2>1, <4>2
      <4>4. ~(worker.pc # "idle" /\ worker.flow = f)
        BY <2>1, <2>3 DEF TokenInv, NotStale
      <4>5. ~(worker.pc # "idle" /\ worker.flow = c)
        BY <4>2 DEF Base, WorkerInv
      <4>6. ~(worker.pc = "run" /\ worker.job = c)
        BY <3>2, <4>4 DEF Base, WorkerInv
      <4> QED BY <1>l, <4>3, <4>5, <4>6
    <3>3. \A c \in Pushed : job[c].parent # 0 /\ Live(c) => row'[job[c].parent] # "queued"
      BY <1>0, <1>u, <3>1, <3>2
    <3> QED BY <1>u, <2>1, <3>3, ChildKeeps
  <2> QED BY <2>1, <2>2, <2>3
<1>16. ASSUME \/ \E j \in Pushed : Cancel(j) \/ PingExpires(j)
              \/ Crash \/ CrashServer \/ UNCHANGED vars
       PROVE  ChildInv'
  BY <1>r, <1>16 DEF Cancel, PingExpires, Crash, CrashServer, vars
<1>9. ASSUME PushNext PROVE ChildInv'
  <2>1. PICK f \in Pushed : f = worker.flow
    BY <1>9, PushNextEffect
  <2>2. PICK q : q = Len(job) + 1
    OBVIOUS
  <2>3. /\ worker.pc \in {"start", "push"} /\ worker' = Idle
        /\ row' = [row EXCEPT ![q] = "queued"]
        /\ q \notin Pushed /\ Pushed' = Pushed \cup {q}
        /\ \A j \in Pushed : job'[j] = job[j]
    BY <1>9, <2>1, <2>2, PushNextEffect
  <2>4. job'[q].parent = f
    <3>1. PICK n : job'[q] = JobOf(n.flow, f, PushedStep(f), n.index, n.len, Attempt(f))
      BY <1>9, <2>1, <2>2, PushNextEffect
    <3> QED BY <3>1 DEF JobOf
  <2>5. \A c \in Pushed : row'[c] = row[c] /\ (Live(c)' => Live(c))
    BY <1>0, <2>3, Stable
  <2>6. \A c \in Pushed : Live(c) => job[c].parent # f
    BY <1>0, <1>u, <2>1, <2>3
  <2>7. OneLive'
    BY <1>o, <2>3, <2>4, <2>5, <2>6 DEF OneLive
  <2>8. row[f] # "queued"
    BY <2>1, <2>3, NotQueued
  <2>9. LiveWaited'
    <3>1. SUFFICES ASSUME NEW c \in Pushed', NEW p, p = job'[c].parent, p # 0, Live(c)'
                   PROVE  row'[p] # "queued"
      BY <1>0, <2>3 DEF LiveWaited, At
    <3>2. CASE c = q
      BY <2>4, <2>5, <2>8, <3>1, <3>2
    <3>3. CASE c \in Pushed
      BY <1>0, <1>u, <2>3, <2>5, <3>1, <3>3
    <3> QED BY <2>3, <3>1, <3>2, <3>3
  <2> QED BY <2>7, <2>9 DEF ChildInv
<1> QED BY <1>1, <1>2, <1>3, <1>4, <1>5, <1>6, <1>7, <1>8, <1>9, <1>10, <1>12, <1>13,
           <1>15, <1>16 DEF Next, WorkerStep, MonitorStep

(* What is allowed for stays allowed for. *)
LEMMA WentStable ==
  ASSUME Base, TokenInv, [Next]_vars, NEW c \in Pushed, job[c].parent # 0, row[c] \in Ended, Went(c)
  PROVE  Went(c)' /\ row'[c] = row[c]
<1>1. /\ Pushed \subseteq Pushed' /\ \A j \in Pushed : job'[j] = job[j]
      /\ history \subseteq history' /\ broken \subseteq broken'
      /\ \A k \in Pushed : row[k] \in Ended => row'[k] = row[k]
  BY Stable
<1>2. PICK f : f = job[c].parent
  OBVIOUS
<1>3. PICK i : i = job[c].step
  OBVIOUS
<1>4. PICK m : m = ModuleAt(f, i)
  OBVIOUS
<1>5. f \in Pushed
  BY <1>2, JobFacts DEF Base
<1>6. job'[c] = job[c] /\ row'[c] = row[c]
  BY <1>1
<1>7. ModuleAt(f, i)' = m /\ Value(f)' = Value(f) /\ Size(f)' = Size(f)
  BY <1>1, <1>4, <1>5, SameFlow
<1>8. \A k : ChildrenAt(f, k) \subseteq ChildrenAt(f, k)'
  BY <1>1 DEF ChildrenAt, Children
<1>9. "success" \in Ended
  BY DEF Ended
<1>10. CASE row[c] \in {"success", "skipped"}
  BY <1>6, <1>10 DEF Went
<1>11. CASE IsExcused(c)
  <2> DEFINE Excuse == \/ m.continue_on_error \/ (m.kind \in Loops \cup {"branchall"} /\ job[c].iter \in m.skip)
                       \/ \E d \in ChildrenAt(f, i) : job[d].attempt > job[c].attempt
                       \/ IsEmpty(f, i)
                       \/ \E d \in ChildrenAt(f, Size(f)) : row[d] = "success"
                       \/ /\ i = PreprocessorStep
                          /\ \E d \in ChildrenAt(f, PreprocessorStep) : row[d] = "success"
                       \/ m.kind = "whileloopflow" /\ (m.retry > 0 \/ Value(f).failure_module)
                       \/ c \in broken \/ row[c] = "canceled"
  <2>1. Excuse
    BY <1>2, <1>3, <1>4, <1>11 DEF IsExcused, ModuleOf
  <2>2. \A k : \A d \in ChildrenAt(f, k) : d \in ChildrenAt(f, k)' /\ d \in Pushed
    BY <1>8 DEF ChildrenAt, Children
  <2>3. CASE m.continue_on_error \/ (m.kind \in Loops \cup {"branchall"} /\ job[c].iter \in m.skip)
    BY <1>2, <1>3, <1>6, <1>7, <2>3 DEF IsExcused, ModuleOf, Went
  <2>4. CASE \E d \in ChildrenAt(f, i) : job[d].attempt > job[c].attempt
    <3>1. \E d \in ChildrenAt(f, i)' : job'[d].attempt > job'[c].attempt
      BY <1>1, <2>2, <2>4
    <3>2. (\E d \in ChildrenAt(job[c].parent, job[c].step) : job[d].attempt > job[c].attempt)'
      BY <1>2, <1>3, <1>6, <3>1 DEF ChildrenAt, Children
    <3>3. IsExcused(c)'
      BY <3>2, Zenon DEF IsExcused
    <3> QED BY <1>6, <3>3 DEF Went
  <2>5. CASE IsEmpty(f, i)
    BY <1>1, <1>2, <1>3, <1>6, <2>5 DEF IsExcused, IsEmpty, Went
  <2>6. CASE \E d \in ChildrenAt(f, Size(f)) : row[d] = "success"
    <3>1. PICK z : z = Size(f)
      OBVIOUS
    <3>2. \E d \in ChildrenAt(f, z)' : row'[d] = "success"
      BY <1>1, <1>9, <2>2, <2>6, <3>1
    <3>3. Size(f)' = z
      BY <1>7, <3>1
    <3>4. Size(job[c].parent)' = z
      BY <1>2, <1>6, <3>3 DEF Size, Value
    <3>5. (\E d \in ChildrenAt(job[c].parent, Size(job[c].parent)) : row[d] = "success")'
      BY <1>2, <1>6, <3>2, <3>4 DEF ChildrenAt, Children
    <3>6. IsExcused(c)'
      BY <3>5, Zenon DEF IsExcused
    <3> QED BY <1>6, <3>6 DEF Went
  <2>7. CASE /\ i = PreprocessorStep
             /\ \E d \in ChildrenAt(f, PreprocessorStep) : row[d] = "success"
    <3>1. \E d \in ChildrenAt(f, PreprocessorStep)' : row'[d] = "success"
      BY <1>1, <1>9, <2>2, <2>7
    <3>2. (/\ job[c].step = PreprocessorStep
           /\ \E d \in ChildrenAt(job[c].parent, PreprocessorStep) : row[d] = "success")'
      BY <1>2, <1>3, <1>6, <2>7, <3>1 DEF ChildrenAt, Children, PreprocessorStep
    <3>3. IsExcused(c)'
      BY <3>2, Zenon DEF IsExcused
    <3> QED BY <1>6, <3>3 DEF Went
  <2>8. CASE m.kind = "whileloopflow" /\ (m.retry > 0 \/ Value(f).failure_module)
    <3>1. ModuleOf(c)' = m
      BY <1>2, <1>3, <1>6, <1>7 DEF ModuleOf, ModuleAt, Size, Value
    <3>2. Value(job[c].parent)' = Value(f)
      BY <1>2, <1>6, <1>7 DEF Value
    <3>3. (ModuleOf(c).kind = "whileloopflow"
           /\ (ModuleOf(c).retry > 0 \/ Value(job[c].parent).failure_module))'
      BY <2>8, <3>1, <3>2
    <3>4. IsExcused(c)'
      BY <3>3, Zenon DEF IsExcused
    <3> QED BY <1>6, <3>4 DEF Went
  <2>9. CASE c \in broken \/ row[c] = "canceled"
    BY <1>1, <1>6, <2>9 DEF IsExcused, Went
  <2> QED BY <2>1, <2>3, <2>4, <2>5, <2>6, <2>7, <2>8, <2>9
<1> QED BY <1>6, <1>10, <1>11 DEF Went

(* A report of a live job is a report of the iteration that the flow's status points at. *)
LEMMA NewReport ==
  ASSUME Base, IterInv, [Next]_vars, TokenInv, job' = job, flow_status' = flow_status,
         NEW c \in Pushed, Live(c), job[c].parent # 0, worker'.flow = job[c].parent, worker'.job = c,
         row'[c] \in Ended, worker'.success => row'[c] # "failure" \/ c \in broken'
  PROVE  ReportMatches'
<1>1. PICK p : p = job[c].parent
  OBVIOUS
<1>2. p \in Pushed /\ c # 0
  BY <1>1, JobFacts DEF Base
<1>3. (InQueue(p)' => InQueue(p)) /\ InProgress(p)' = InProgress(p)
  BY <1>2, Stable, SameFlow
<1>4. InQueue(p)' /\ InProgress(p)' => Matches(c, p)
  BY <1>1, <1>3 DEF IterInv, LiveMatches
<1>5. InQueue(p)' /\ InProgress(p)' => Matches(c, p)'
  BY <1>4 DEF Matches
<1> QED BY <1>1, <1>2, <1>5 DEF ReportMatches, InQueue, InProgress, Matches

(* IterInv after a step that pushes no job. *)
LEMMA IterKeeps ==
  ASSUME Base, TokenInv, ChildInv, IterInv, [Next]_vars, job' = job, NEW f \in Pushed,
         \A k \in Pushed \ {f} : flow_status'[k] = flow_status[k],
         \/ flow_status'[f] = flow_status[f]
         \/ worker'.pc \notin {"idle", "run"} /\ worker'.flow = f,
         ReportMatches', PushMatches'
  PROVE  IterInv'
<1>1. ChildInv'
  BY ChildStep
<1>2. Pushed' = Pushed /\ \A c \in Pushed : (Live(c)' => Live(c)) /\ (InQueue(c)' => InQueue(c))
  BY Stable DEF Pushed
<1>3. LiveMatches'
  <2>1. SUFFICES ASSUME NEW c \in Pushed, NEW p, p = job[c].parent, p # 0, Live(c)', InQueue(p)'
                 PROVE  Matches(c, p)'
    BY <1>2 DEF LiveMatches, InQueue, Matches
  <2>2. p \in Pushed
    BY <2>1, JobFacts DEF Base
  <2>3. CASE flow_status'[p] = flow_status[p]
    BY <1>2, <2>1, <2>2, <2>3 DEF IterInv, LiveMatches, Matches
  <2>4. CASE flow_status'[p] # flow_status[p]
    BY <1>1, <1>2, <2>1, <2>2, <2>4 DEF ChildInv, LiveWaited, At
  <2> QED BY <2>3, <2>4
<1> QED BY <1>3 DEF IterInv

(* While the worker is at the same point, what its flow's status points at stays. *)
LEMMA SameMatches ==
  ASSUME Base, TokenInv, IterInv, [Next]_vars, job' = job, flow_status' = flow_status,
         worker' = worker
  PROVE  ReportMatches' /\ PushMatches'
<1>1. PICK w : w = worker.flow
  OBVIOUS
<1>2. PICK j : j = worker.job
  OBVIOUS
<1>3. /\ Pushed' = Pushed /\ InProgress(w)' = InProgress(w) /\ broken \subseteq broken'
      /\ \A c \in Pushed : (InQueue(c)' => InQueue(c)) /\ (row[c] \in Ended => row'[c] = row[c])
      /\ \A c : Matches(c, w)' = Matches(c, w)
  BY Stable, SameFlow DEF Pushed, Matches
<1>4. worker.pc # "idle" => w \in Pushed /\ w # 0 /\ (j # 0 => j \in Pushed)
  BY <1>1, <1>2, JobFacts DEF Base, WorkerInv
<1>5. worker.pc = "update" /\ InQueue(w)' /\ InProgress(w)' =>
        /\ j # 0 /\ Matches(j, w)' /\ row'[j] \in Ended
        /\ worker.success => row'[j] # "failure" \/ j \in broken'
  BY <1>1, <1>2, <1>3, <1>4 DEF IterInv, ReportMatches
<1>6. ReportMatches'
  BY <1>1, <1>2, <1>5 DEF ReportMatches, InQueue, InProgress, Matches
<1>7. worker.pc = "push" /\ InProgress(w)' =>
        \E c \in Pushed' : Matches(c, w)' /\ row'[c] \in Ended /\ Went(c)'
  <2>1. SUFFICES ASSUME worker.pc = "push", InProgress(w)
                 PROVE  \E c \in Pushed : Matches(c, w) /\ row'[c] \in Ended /\ Went(c)'
    BY <1>3
  <2>2. PICK c \in Pushed : Matches(c, w) /\ row[c] \in Ended /\ Went(c)
    BY <1>1, <2>1 DEF IterInv, PushMatches
  <2>3. job[c].parent # 0
    BY <1>4, <2>1, <2>2 DEF Matches
  <2>4. Went(c)' /\ row'[c] = row[c]
    BY <2>2, <2>3, WentStable
  <2> QED BY <2>2, <2>4
<1>8. PushMatches'
  BY <1>1, <1>7 DEF PushMatches, InProgress, Matches
<1> QED BY <1>6, <1>8

(* The worker goes on to the next iteration only after one that went, or whose failure is skipped. *)
LEMMA GoesOnWent ==
  ASSUME Base, IterInv, worker.pc = "update", worker.flow \in Pushed, IsFlow(worker.flow),
         InQueue(worker.flow), NEW stop \in StopEarly(worker), GoesOn(worker, stop),
         ShouldContinue(worker, worker.success, "none", FALSE)
  PROVE  /\ worker.job \in Pushed /\ Matches(worker.job, worker.flow)
         /\ row[worker.job] \in Ended /\ Went(worker.job)
<1>1. /\ InProgress(worker.flow) /\ stop = "none"
      /\ Current(worker.flow).kind \in Loops \cup {"branchall"}
      /\ \/ Current(worker.flow).kind = "whileloopflow"
         \/ worker.success \/ SkipFailure(worker.flow)
  BY DEF GoesOn, Looping, Branching
<1>2. /\ worker.job # 0 /\ Matches(worker.job, worker.flow) /\ row[worker.job] \in Ended
      /\ worker.success => row[worker.job] # "failure" \/ worker.job \in broken
  BY <1>1 DEF IterInv, ReportMatches
<1>3. worker.job \in Pushed
  BY <1>2 DEF Base, WorkerInv
<1>4. /\ job[worker.job].parent = worker.flow /\ job[worker.job].step = flow_status[worker.flow].step
      /\ job[worker.job].iter = flow_status[worker.flow].index
  BY <1>2 DEF Matches
<1>5. ModuleOf(worker.job) = Current(worker.flow)
  BY <1>4 DEF ModuleOf, Current
<1>6. CASE worker.success
  BY <1>2, <1>3, <1>6 DEF Ended, IsExcused, Went
<1>7. CASE SkipFailure(worker.flow)
  BY <1>1, <1>2, <1>3, <1>4, <1>5, <1>7 DEF SkipFailure, IsExcused, Went
<1>8. CASE /\ Current(worker.flow).kind = "whileloopflow" /\ ~worker.success
           /\ ~SkipFailure(worker.flow)
  <2>1. ContinueOnError(worker) \/ MayRetry(worker.flow) \/ Value(worker.flow).failure_module
    BY <1>8 DEF ShouldContinue
  <2>2. /\ Current(worker.flow).retry \in Nat /\ flow_status[worker.flow].fail_count \in Nat
    BY JobFacts, ModuleFacts DEF Base, Module, FlowStatus
  <2>3. MayRetry(worker.flow) => Current(worker.flow).retry > 0
    BY <2>2 DEF MayRetry
  <2>4. ContinueOnError(worker) => ModuleOf(worker.job).continue_on_error
    BY <1>5 DEF ContinueOnError
  <2>5. \/ ModuleOf(worker.job).continue_on_error
        \/ /\ ModuleOf(worker.job).kind = "whileloopflow"
           /\ ModuleOf(worker.job).retry > 0 \/ Value(job[worker.job].parent).failure_module
    BY <1>4, <1>5, <1>8, <2>1, <2>3, <2>4
  <2>6. IsExcused(worker.job)
    BY <2>5, Zenon DEF IsExcused
  <2> QED BY <1>2, <1>3, <2>6 DEF Went
<1> QED BY <1>1, <1>6, <1>7, <1>8

(* Every step keeps a flow's status, the report about it and its live job at one iteration. *)
LEMMA IterStep ==
  ASSUME Base, TokenInv, ChildInv, IterInv, [Next]_vars
  PROVE  IterInv'
<1>0. /\ TypeOK /\ row \in [Job -> {"none", "queued", "running"} \cup Ended]
      /\ \A j \in Pushed : j \in Job /\ j # 0 /\ job[j].parent # j /\ row[j] # "none"
      /\ \A j \in Pushed : job[j].parent # 0 => job[j].parent \in Pushed /\ IsFlow(job[j].parent)
      /\ Idle.pc = "idle" /\ "failure" \in Ended /\ "canceled" \in Ended
      /\ flow_status \in [Job -> FlowStatus]
  BY JobFacts DEF Base, TypeOK, Ended, Idle, RangeInv
<1>r. PICK r \in Pushed : TRUE
  BY <1>0 DEF TypeOK, Job, Pushed
<1>v. /\ worker'.pc # "update" => ReportMatches'
      /\ worker'.pc # "push" => PushMatches'
  BY DEF ReportMatches, PushMatches
<1>k. ASSUME job' = job, flow_status' = flow_status, ReportMatches', PushMatches' PROVE IterInv'
  BY <1>r, <1>k, IterKeeps
<1>n. ASSUME NEW f \in Pushed, worker'.flow = f, flow_status' = flow_status, ~InProgress(f)
      PROVE  ReportMatches' /\ PushMatches'
  BY <1>n DEF InProgress, ReportMatches, PushMatches
<1>1. ASSUME NEW f \in Pushed, PullFlow(f) PROVE IterInv'
  <2>1. /\ IsFlow(f) /\ row[f] = "queued" /\ job' = job /\ flow_status' = flow_status
        /\ \/ worker'.flow = f
           \/ /\ job[f].parent # 0 /\ Complete(f, "canceled")
              /\ worker'.pc = "update" /\ worker'.flow = job[f].parent /\ worker'.job = f
    BY <1>1, PullFlowEffect DEF Rest
  <2>2. CASE worker'.flow = f
    BY <1>k, <1>n, <2>1, <2>2 DEF Base, RangeInv
  <2>3. CASE /\ job[f].parent # 0 /\ Complete(f, "canceled")
             /\ worker'.pc = "update" /\ worker'.flow = job[f].parent /\ worker'.job = f
    BY <1>0, <1>k, <1>v, <2>1, <2>3, CompleteEffect, NewReport DEF Live, InQueue
  <2> QED BY <2>1, <2>2, <2>3
<1>2. ASSUME NEW j \in Pushed, PullStep(j) PROVE IterInv'
  BY <1>2, <1>k, <1>v, PullStepEffect DEF Rest
<1>3. ASSUME NEW s \in Ended \ {"skipped"}, FinishStep(s) PROVE IterInv'
  <2>1. PICK j \in Pushed : j = worker.job
    BY <1>3, FinishStepEffect
  <2>2. /\ worker.pc = "run" /\ worker.flow = job[j].parent /\ worker.flow \in Pushed
        /\ job' = job /\ flow_status' = flow_status
        /\ worker'.pc = "update" /\ worker'.flow = job[j].parent /\ worker'.job = j
        /\ \/ Complete(j, s) /\ worker'.success = (s = "success")
           \/ ~InQueue(j) /\ ~worker'.success /\ row' = row
    BY <1>3, <2>1, FinishStepEffect DEF Rest
  <2>3. Live(j) /\ job[j].parent # 0
    BY <1>0, <2>1, <2>2 DEF Live
  <2>4. row'[j] \in Ended /\ (worker'.success => row'[j] # "failure")
    <3>1. CASE Complete(j, s) /\ worker'.success = (s = "success")
      BY <1>0, <3>1, CompleteEffect, ZenonT(30)
    <3>2. CASE ~InQueue(j) /\ ~worker'.success /\ row' = row
      BY <1>0, <3>2 DEF InQueue
    <3> QED BY <2>2, <3>1, <3>2
  <2>5. ReportMatches'
    BY <2>2, <2>3, <2>4, NewReport
  <2> QED BY <1>k, <1>v, <2>2, <2>5
<1>4. ASSUME UpdateStatus PROVE IterInv'
  <2>1. PICK f \in Pushed : f = worker.flow
    BY <1>4, UpdateStatusEffect
  <2>2. /\ worker.pc = "update" /\ IsFlow(f) /\ job' = job
        /\ \/ worker' = Idle /\ flow_status' = flow_status
           \/ /\ InQueue(f) /\ worker'.flow = f /\ flow_status' = flow_status
              /\ \E stop \in StopEarly(worker) : GoesOn(worker, stop)
              /\ \/ worker'.pc = "finish"
                 \/ worker'.pc = "push" /\ ShouldContinue(worker, worker.success, "none", FALSE)
           \/ /\ worker'.flow = f /\ worker'.pc \in {"push", "finish", "preprocessed"}
              /\ \E stop \in Stops : EndModule(worker, stop)
    BY <1>4, <2>1, UpdateStatusEffect
  <2>3. CASE worker' = Idle /\ flow_status' = flow_status
    BY <1>0, <1>k, <1>v, <2>2, <2>3
  <2>4. CASE /\ InQueue(f) /\ worker'.flow = f /\ flow_status' = flow_status
             /\ \E stop \in StopEarly(worker) : GoesOn(worker, stop)
             /\ \/ worker'.pc = "finish"
                \/ worker'.pc = "push" /\ ShouldContinue(worker, worker.success, "none", FALSE)
    <3>1. CASE worker'.pc = "finish"
      BY <1>k, <1>v, <2>2, <2>4, <3>1
    <3>2. CASE worker'.pc = "push"
      <4>1. PICK stop \in StopEarly(worker) : GoesOn(worker, stop)
        BY <2>4
      <4>2. /\ worker.job \in Pushed /\ Matches(worker.job, worker.flow)
            /\ row[worker.job] \in Ended /\ Went(worker.job)
        BY <2>1, <2>2, <2>4, <3>2, <4>1, GoesOnWent
      <4>3. PICK c \in Pushed : c = worker.job
        BY <4>2
      <4>4. Matches(c, f) /\ row[c] \in Ended /\ Went(c)
        BY <2>1, <4>2, <4>3
      <4>5. job[c].parent # 0
        BY <1>0, <4>4 DEF Matches
      <4>6. Went(c)' /\ row'[c] = row[c]
        BY <4>4, <4>5, WentStable
      <4>7. Matches(c, f)' /\ c \in Pushed'
        BY <2>2, <2>4, <4>4 DEF Matches, Pushed
      <4>8. PushMatches'
        BY <2>4, <4>4, <4>6, <4>7 DEF PushMatches, Matches
      <4> QED BY <1>k, <1>v, <2>2, <2>4, <3>2, <4>8
    <3> QED BY <2>4, <3>1, <3>2
  <2>5. CASE /\ worker'.flow = f /\ worker'.pc \in {"push", "finish", "preprocessed"}
             /\ \E stop \in Stops : EndModule(worker, stop)
    BY <1>0, <2>1, <2>2, <2>5, IterKeeps DEF EndModule, InProgress, ReportMatches, PushMatches
  <2> QED BY <2>2, <2>3, <2>4, <2>5
<1>5. ASSUME Preprocess PROVE IterInv'
  BY <1>0, <1>5, <1>k, <1>v DEF Preprocess
<1>6. ASSUME UpdateFails PROVE IterInv'
  <2>1. /\ worker.pc \in {"update", "preprocessed"} /\ worker \in WorkerState
        /\ worker' = [worker EXCEPT !.pc = "update", !.success = FALSE, !.unrecoverable = TRUE]
        /\ UNCHANGED <<job, row, flow_status>>
    BY <1>0, <1>6 DEF UpdateFails, TypeOK
  <2>2. /\ worker'.pc = "update" /\ worker'.flow = worker.flow /\ worker'.job = worker.job
        /\ ~worker'.success
    BY <2>1 DEF WorkerState
  <2>3. worker.flow \in Pushed
    BY <2>1 DEF Base, WorkerInv
  <2>4. CASE worker.pc = "preprocessed"
    BY <1>k, <1>n, <2>1, <2>2, <2>3, <2>4 DEF Base, RangeInv
  <2>5. CASE worker.pc = "update"
    BY <1>k, <1>v, <2>1, <2>2, <2>5 DEF IterInv, ReportMatches, InQueue, InProgress, Matches
  <2> QED BY <2>1, <2>4, <2>5
<1>t. ASSUME NEW f \in Pushed, Live(f), job' = job, flow_status' = flow_status, ReportsTo(f),
             row'[f] \in Ended,
             job[f].parent # 0 => (worker'.success => row'[f] # "failure" \/ f \in broken')
      PROVE  IterInv'
  <2>1. CASE job[f].parent = 0
    BY <1>0, <1>k, <1>t, <1>v, <2>1 DEF ReportsTo
  <2>2. CASE job[f].parent # 0
    BY <1>k, <1>t, <1>v, <2>2, NewReport DEF ReportsTo
  <2> QED BY <2>1, <2>2
<1>7. ASSUME NEW recover \in BOOLEAN, FinishFlow(recover) PROVE IterInv'
  <2>1. PICK f \in Pushed : f = worker.flow
    BY <1>7, FinishFlowEffect
  <2>2. /\ worker.pc = "finish" /\ job' = job /\ flow_status' = flow_status
        /\ \/ /\ ReportsTo(f)
              /\ \E s \in Ended : /\ Complete(f, s)
                                  /\ job[f].parent # 0 => (worker'.success => s # "failure")
           \/ worker' = Idle
    BY <1>7, <2>1, FinishFlowEffect DEF Rest
  <2>3. CASE worker' = Idle
    BY <1>0, <1>k, <1>v, <2>2, <2>3
  <2>4. CASE /\ ReportsTo(f)
             /\ \E s \in Ended : /\ Complete(f, s)
                                 /\ job[f].parent # 0 => (worker'.success => s # "failure")
    BY <1>0, <1>t, <2>1, <2>2, <2>4, CompleteEffect DEF Live
  <2> QED BY <2>2, <2>3, <2>4
<1>8. ASSUME PushEmpty PROVE IterInv'
  <2>1. PICK f \in Pushed : f = worker.flow
    BY <1>8, PushEmptyEffect
  <2>2. /\ worker.pc \in {"start", "push"} /\ IsFlow(f) /\ job' = job
        /\ worker'.pc = "update" /\ worker'.flow = f
        /\ \/ HasNoModules(f) /\ flow_status' = flow_status
           \/ flow_status' = [flow_status EXCEPT ![f] =
                     [step |-> flow_status[f].step, module |-> "Success", index |-> 0,
                      len |-> 0, fail_count |-> Attempt(f)]]
    BY <1>8, <2>1, PushEmptyEffect
  <2>3. CASE HasNoModules(f) /\ flow_status' = flow_status
    <3>1. Size(f) = 0 /\ flow_status[f].step \in Int
      BY <1>0, <2>3 DEF HasNoModules, FlowStatus, PreprocessorStep
    <3>2. Current(f) = Plain
      BY <3>1 DEF Current, ModuleAt
    <3>3. Current(f).kind = "script"
      BY <3>2 DEF Plain
    <3>4. ~InProgress(f)
      BY <2>1, <2>2, <3>3 DEF Base, RangeInv, Loops
    <3> QED BY <1>k, <1>n, <2>2, <2>3, <3>4
  <2>4. CASE flow_status' = [flow_status EXCEPT ![f] =
                     [step |-> flow_status[f].step, module |-> "Success", index |-> 0,
                      len |-> 0, fail_count |-> Attempt(f)]]
    BY <1>0, <2>2, <2>4, IterKeeps DEF InProgress, ReportMatches, PushMatches
  <2> QED BY <2>2, <2>3, <2>4
<1>10. ASSUME PushFails PROVE IterInv'
  <2>1. PICK f \in Pushed : f = worker.flow
    BY <1>10, PushFailsEffect
  <2>2. /\ worker.pc \in {"start", "push"} /\ job' = job /\ flow_status' = flow_status
        /\ \/ worker.pc = "start" /\ worker'.flow = f
           \/ /\ ReportsTo(f)
              /\ Complete(f, "failure") \/ (~InQueue(f) /\ row' = row)
              /\ job[f].parent # 0 => ~worker'.success \/ f \in broken'
    BY <1>10, <2>1, PushFailsEffect
  <2>3. CASE worker.pc = "start" /\ worker'.flow = f
    BY <1>k, <1>n, <2>1, <2>2, <2>3 DEF Base, RangeInv
  <2>4. CASE /\ ReportsTo(f)
             /\ Complete(f, "failure") \/ (~InQueue(f) /\ row' = row)
             /\ job[f].parent # 0 => ~worker'.success \/ f \in broken'
    <3>1. Live(f)
      BY <2>1, <2>2 DEF Live
    <3>2. row'[f] \in Ended
      BY <1>0, <2>4, CompleteEffect DEF InQueue
    <3> QED BY <1>t, <2>2, <2>4, <3>1, <3>2
  <2> QED BY <2>2, <2>3, <2>4
<1>11. ASSUME UNCHANGED <<job, flow_status, worker>> PROVE IterInv'
  BY <1>11, <1>k, SameMatches
<1>12. ASSUME \/ \E j \in Pushed : \/ KillJob(j) \/ RestartStep(j) \/ PingExpires(j)
                                   \/ HandleZombieFlow(j) \/ Cancel(j)
              \/ CrashServer \/ UNCHANGED vars
       PROVE  IterInv'
  BY <1>11, <1>12 DEF KillJob, RestartStep, PingExpires, HandleZombieFlow, Cancel, CrashServer, vars
<1>13. ASSUME Crash PROVE IterInv'
  BY <1>0, <1>k, <1>v, <1>13 DEF Crash
<1>9. ASSUME PushNext PROVE IterInv'
  <2>1. PICK f \in Pushed : f = worker.flow
    BY <1>9, PushNextEffect
  <2>2. PICK q : q = Len(job) + 1
    OBVIOUS
  <2>3. /\ worker.pc \in {"start", "push"} /\ worker' = Idle
        /\ row' = [row EXCEPT ![q] = "queued"]
        /\ q \notin Pushed /\ Pushed' = Pushed \cup {q}
        /\ \A j \in Pushed : job'[j] = job[j]
    BY <1>9, <2>1, <2>2, PushNextEffect
  <2>4. PICK n : /\ job'[q] = JobOf(n.flow, f, PushedStep(f), n.index, n.len, Attempt(f))
                 /\ SetModule(f, n, PushedStep(f), Attempt(f))
    BY <1>9, <2>1, <2>2, PushNextEffect
  <2>5. \A c \in Pushed : row'[c] = row[c] /\ (Live(c)' => Live(c))
    BY <1>0, <2>3, Stable
  <2>6. \A c \in Pushed : Live(c) => job[c].parent # f
    BY <1>0, <2>1, <2>3 DEF ChildInv, LiveWaited, At
  <2>7. \A k \in Pushed \ {f} : flow_status'[k] = flow_status[k]
    BY <1>0, <2>4 DEF SetModule
  <2>8. SUFFICES ASSUME NEW c \in Pushed', NEW p, p = job'[c].parent, p # 0, Live(c)',
                        InQueue(p)'
                 PROVE  Matches(c, p)'
    BY <1>0, <1>v, <2>3 DEF IterInv, LiveMatches, InQueue, Matches
  <2>9. CASE c = q
    BY <1>0, <2>4, <2>5, <2>8, <2>9 DEF JobOf, InQueue, SetModule, Matches
  <2>10. CASE c \in Pushed
    <3>1. p = job[c].parent /\ Live(c) /\ p # f /\ p \in Pushed
      BY <1>0, <2>3, <2>5, <2>6, <2>8, <2>10
    <3>2. InQueue(p) /\ flow_status'[p] = flow_status[p]
      BY <2>5, <2>7, <2>8, <3>1 DEF InQueue
    <3>3. Matches(c, p)
      BY <2>8, <2>10, <3>1, <3>2 DEF IterInv, LiveMatches
    <3> QED BY <2>3, <2>10, <3>2, <3>3 DEF Matches
  <2> QED BY <2>3, <2>8, <2>9, <2>10
<1> QED BY <1>1, <1>2, <1>3, <1>4, <1>5, <1>6, <1>7, <1>8, <1>9, <1>10, <1>12, <1>13
        DEF Next, WorkerStep, MonitorStep

\* Only a branch or an iteration of a loop has an index above zero.
IterBelow == \A j \in Pushed : job[j].iter > 0 => job[j].parent # 0

\* IterationsInOrder is inductive with that.
OrderInv == IterationsInOrder /\ IterBelow

(* The iteration before a pushed one stays where it was when that was pushed. *)
LEMMA OrderKeeps ==
  ASSUME Base, TokenInv, OrderInv, [Next]_vars, NEW j \in Pushed, job'[j].iter > 0
  PROVE  /\ job'[j].parent # 0
         /\ \E c \in ChildrenAt(job[j].parent, job[j].step)' :
              /\ job'[c].iter = job'[j].iter - 1 /\ job'[c].attempt = job'[j].attempt
              /\ job'[c].len = job'[j].len
              /\ row'[c] \in Ended /\ Went(c)'
<1>1. Pushed \subseteq Pushed' /\ \A k \in Pushed : job'[k] = job[k]
  BY Stable
<1>2. job[j].iter > 0 /\ job[j].parent # 0
  BY <1>1 DEF OrderInv, IterBelow
<1>3. PICK c \in ChildrenAt(job[j].parent, job[j].step) :
        /\ job[c].iter = job[j].iter - 1 /\ job[c].attempt = job[j].attempt
        /\ job[c].len = job[j].len /\ row[c] \in Ended /\ Went(c)
  BY <1>2 DEF OrderInv, IterationsInOrder
<1>4. c \in Pushed /\ job[c].parent = job[j].parent /\ job[c].step = job[j].step
  BY DEF ChildrenAt, Children
<1>5. Went(c)' /\ row'[c] = row[c]
  BY <1>2, <1>3, <1>4, WentStable
<1>6. c \in ChildrenAt(job[j].parent, job[j].step)'
  BY <1>1, <1>4 DEF ChildrenAt, Children
<1> QED BY <1>1, <1>2, <1>3, <1>4, <1>5, <1>6

(* Every step keeps the iterations in their order. *)
LEMMA OrderStep ==
  ASSUME Base, TokenInv, IterInv, OrderInv, [Next]_vars
  PROVE  OrderInv'
<1>1. CASE Pushed' = Pushed
  BY <1>1, OrderKeeps DEF OrderInv, IterationsInOrder, IterBelow
<1>2. CASE PushNext
  <2>1. PICK f \in Pushed : f = worker.flow /\ IsFlow(f) /\ worker.pc \in {"start", "push"}
    BY <1>2, PushNextEffect
  <2>2. PICK q : q = Len(job) + 1
    OBVIOUS
  <2>3. q \notin Pushed /\ Pushed' = Pushed \cup {q} /\ \A j \in Pushed : job'[j] = job[j]
    BY <1>2, <2>1, <2>2, PushNextEffect
  <2>4. PICK n \in NextFlowTransform(f) \ {EmptyInnerFlows} :
          job'[q] = JobOf(n.flow, f, PushedStep(f), n.index, n.len, Attempt(f))
    BY <1>2, <2>1, <2>2, PushNextEffect
  <2>5. /\ job'[q].parent = f /\ job'[q].step = PushedStep(f) /\ job'[q].iter = n.index
        /\ job'[q].len = n.len /\ job'[q].attempt = Attempt(f)
    BY <2>4 DEF JobOf
  <2>6. f # 0 /\ f \in Pushed' /\ flow_status[f] \in FlowStatus
    BY <2>3, JobFacts DEF Base
  <2>7. ASSUME n.index > 0
        PROVE  \E c \in ChildrenAt(job[q].parent, job[q].step)' :
                 /\ job'[c].iter = job'[q].iter - 1 /\ job'[c].attempt = job'[q].attempt
                 /\ job'[c].len = job'[q].len
                 /\ row'[c] \in Ended /\ Went(c)'
    <3>1. /\ InProgress(f) /\ worker.pc = "push"
          /\ n.index = flow_status[f].index + 1 /\ n.len = flow_status[f].len
      BY <2>1, <2>4, <2>7, NextFacts
    <3>2. PushedStep(f) = flow_status[f].step
      BY <3>1 DEF PushedStep, RunsHandler, InProgress
    <3>3. Attempt(f) = flow_status[f].fail_count
      BY <2>6, <3>1 DEF Attempt, Retries, InProgress, FlowStatus
    <3>4. PICK c \in Pushed : Matches(c, f) /\ row[c] \in Ended /\ Went(c)
      BY <2>1, <3>1 DEF IterInv, PushMatches
    <3>5. /\ job[c].parent = f /\ job[c].step = flow_status[f].step
          /\ job[c].iter = flow_status[f].index /\ job[c].len = flow_status[f].len
          /\ job[c].attempt = flow_status[f].fail_count
      BY <3>4 DEF Matches
    <3>6. Went(c)' /\ row'[c] = row[c]
      BY <2>6, <3>4, <3>5, WentStable
    <3>7. c \in ChildrenAt(job[q].parent, job[q].step)'
      BY <2>3, <2>5, <3>2, <3>5 DEF ChildrenAt, Children
    <3>8. job'[c].iter = job'[q].iter - 1
      BY <2>3, <2>5, <2>6, <3>1, <3>5 DEF FlowStatus
    <3> QED BY <2>3, <2>5, <3>1, <3>3, <3>4, <3>5, <3>6, <3>7, <3>8
  <2>8. IterBelow'
    BY <2>3, <2>5, <2>6, OrderKeeps DEF IterBelow
  <2>9. IterationsInOrder'
    BY <2>3, <2>5, <2>7, OrderKeeps DEF IterationsInOrder
  <2> QED BY <2>8, <2>9 DEF OrderInv
<1>3. PushNext \/ job' = job
  BY DEF Next, WorkerStep, MonitorStep, PullFlow, PullStep, FinishStep, UpdateStatus, Preprocess,
         FinishFlow, PushEmpty, PushFails, KillJob, RestartStep, PingExpires, HandleZombieFlow,
         UpdateFails, Cancel, Crash, CrashServer, vars
<1> QED BY <1>1, <1>2, <1>3 DEF Pushed

(* Initially there is one job and no iteration. *)
LEMMA OrderInit ==
  ASSUME Init
  PROVE  ChildInv /\ IterInv /\ OrderInv
<1>1. PICK n \in Roots : job = <<JobOf(n, 0, 0, 0, 0, 0)>>
  BY DEF Init
<1>2. Pushed = {1} /\ job[1].parent = 0 /\ job[1].iter = 0
  BY <1>1 DEF Pushed, JobOf
<1>3. worker.pc = "idle"
  BY DEF Init, Idle
<1>4. ChildInv
  BY <1>2 DEF ChildInv, OneLive, LiveWaited
<1>5. IterInv
  BY <1>2, <1>3 DEF IterInv, LiveMatches, ReportMatches, PushMatches
<1>6. OrderInv
  BY <1>2 DEF OrderInv, IterationsInOrder, IterBelow
<1> QED BY <1>4, <1>5, <1>6

(* At most one job below a flow is live, and it is the one that the flow's status points at. *)
THEOREM IterationInvariant ==
  Spec => [](Base /\ TokenInv /\ ChildInv /\ IterInv /\ OrderInv)
<1>1. Init => Base /\ TokenInv /\ ChildInv /\ IterInv /\ OrderInv
  BY BaseInit, OrderInit
<1>2. Base /\ TokenInv /\ ChildInv /\ IterInv /\ OrderInv /\ [Next]_vars
        => (Base /\ TokenInv /\ ChildInv /\ IterInv /\ OrderInv)'
  BY BaseStep, TokenStep, ChildStep, IterStep, OrderStep
<1> QED BY <1>1, <1>2, PTL DEF Spec

(* Branches and iterations that are not parallel are pushed one after the other: each one follows *)
(* the one before it of the same attempt, which has ended, and has succeeded or may be gone on    *)
(* after.                                                                                         *)
THEOREM IterationsFollow == Spec => []IterationsInOrder
<1>1. OrderInv => IterationsInOrder
  BY DEF OrderInv
<1> QED BY <1>1, IterationInvariant, PTL
-----------------------------------------------------------------------------
(* No failure is lost.                                                     *)

\* A flow without modules has not both a preprocessor and a failure module.
NoEmptyHandlers ==
    \A n \in DOMAIN Flows :
        Flows[n].modules = <<>> => ~(Flows[n].preprocessor /\ Flows[n].failure_module)

\* The job has ended, and its failure is allowed for if it failed.
Gone(c) == row[c] \in Ended /\ Went(c)
AllGone(f) == \A c \in Children(f) : Gone(c)

\* Only the report to come decides about the jobs so far: a successful preprocessor
\* excuses the earlier ones, a successful failure module all of them.
Free(f) == IsPreprocessorStep(f) \/ IsFailureStep(f)

\* Nothing is left to excuse but the one job.
Clear(f, d) == Free(f) \/ \A c \in Children(f) : c = d \/ Gone(c)

\* The flow is not past its failure module; it is before its first step.
InSteps(f) == flow_status[f].step <= Size(f)
AtStart(f) == flow_status[f].step = 0 /\ flow_status[f].module = "WaitingForPriorSteps"

\* Of a flow that has succeeded all jobs have gone.
EndedWell == \A f \in Pushed : IsFlow(f) /\ row[f] = "success" => AllGone(f)

\* So have those of a flow before its first step, which are runs of its preprocessor.
StartWell ==
    \A f \in Pushed : IsFlow(f) /\ InQueue(f) =>
        /\ AtStart(f) => AllGone(f)
        /\ IsPreprocessorStep(f) => \A c \in Children(f) : job[c].step = PreprocessorStep
        /\ row[f] = "queued" => IsPreprocessorStep(f) \/ AtStart(f)

\* Before the first and after the last module there are only scripts.
OuterScripts ==
    \A c \in Pushed : LET p == job[c].parent IN
        p # 0 => /\ job[c].step = PreprocessorStep \/ job[c].step >= Size(p) => ~IsFlow(c)
                 /\ Size(p) = 0 => job[c].step = PreprocessorStep

\* Only a flow with a preprocessor is before its preprocessor.
Preprocessors == \A f \in Pushed : IsFlow(f) /\ IsPreprocessorStep(f) => Value(f).preprocessor

\* A live job may have been cancelled, and has not ended otherwise.
LiveRows == \A c \in Pushed : Live(c) => InQueue(c) \/ row[c] = "canceled"

\* While a job is live, it is the only one that is open.
LiveClear ==
    \A c \in Pushed : LET p == job[c].parent IN
        p # 0 /\ Live(c) /\ InQueue(p) => InSteps(p) /\ Clear(p, c)

\* The report to come has only its own job to answer for.
ReportClear ==
    \A f \in Pushed : worker.pc = "update" /\ worker.flow = f /\ InQueue(f) =>
        /\ InSteps(f)
        /\ worker.job = 0 => (Free(f) \/ AllGone(f)) /\ (worker.success => AllGone(f))
        /\ \A c \in Pushed : worker.job = c =>
              /\ Clear(f, c) /\ row[c] \in Ended /\ (Matches(c, f) \/ AllGone(f))
              /\ worker.success =>
                    Gone(c) /\ Matches(c, f) /\ (~IsFlow(c) => row[c] = "success")

\* Before a push only the failures of the attempt that is repeated are open.
PushClear ==
    \A f \in Pushed : worker.pc = "push" /\ worker.flow = f /\ InQueue(f) =>
        /\ InSteps(f)
        /\ \/ Free(f) \/ AllGone(f)
           \/ /\ flow_status[f].module = "Failure"
              /\ \A c \in Children(f) :
                   \/ Gone(c)
                   \/ /\ row[c] \in Ended /\ job[c].step = flow_status[f].step
                      /\ job[c].attempt = flow_status[f].fail_count

\* A flow starts at its start, and a success is reported when nothing is open.
WorkerClear ==
    \A f \in Pushed : worker.flow = f =>
        /\ worker.pc = "start" => IsPreprocessorStep(f) \/ AtStart(f)
        /\ worker.pc = "preprocessed" => AtStart(f)
        /\ worker.pc = "finish" /\ InQueue(f) /\ worker.success => AllGone(f)

\* Nothing is open but what a report, a retry or the failure module will decide.
LossInv ==
    /\ EndedWell /\ StartWell /\ OuterScripts /\ Preprocessors /\ LiveRows
    /\ LiveClear /\ ReportClear /\ PushClear /\ WorkerClear

(* What has gone stays gone. *)
LEMMA GoneStable ==
  ASSUME Base, TokenInv, [Next]_vars, NEW f \in Pushed
  PROVE  /\ \A c \in Children(f) : Gone(c) => Gone(c)'
         /\ Children(f)' = Children(f) /\ AllGone(f) => AllGone(f)'
         /\ job' = job => Children(f)' = Children(f)
<1>1. f # 0
  BY JobFacts DEF Base
<1>2. ASSUME NEW c \in Children(f), Gone(c) PROVE Gone(c)'
  BY <1>1, <1>2, WentStable DEF Children, Gone
<1>3. job' = job => Children(f)' = Children(f)
  BY DEF Children, Pushed
<1> QED BY <1>2, <1>3 DEF AllGone

(* As long as the flow's status is the same, so is what is open. *)
LEMMA ClearStable ==
  ASSUME Base, TokenInv, [Next]_vars, NEW f \in Pushed, flow_status'[f] = flow_status[f]
  PROVE  /\ InSteps(f)' = InSteps(f) /\ AtStart(f)' = AtStart(f) /\ Free(f)' = Free(f)
         /\ IsPreprocessorStep(f)' = IsPreprocessorStep(f)
         /\ \A c \in Pushed : Matches(c, f)' = Matches(c, f)
         /\ \A d : Children(f)' = Children(f) /\ Clear(f, d) => Clear(f, d)'
<1>1. \A k \in Pushed : job'[k] = job[k]
  BY Stable
<1>2. Size(f)' = Size(f) /\ IsPreprocessorStep(f)' = IsPreprocessorStep(f)
  BY <1>1, SameFlow
<1>3. InSteps(f)' = InSteps(f) /\ AtStart(f)' = AtStart(f) /\ Free(f)' = Free(f)
  BY <1>2 DEF InSteps, AtStart, Free, IsFailureStep
<1>4. \A c \in Pushed : Matches(c, f)' = Matches(c, f)
  BY <1>1 DEF Matches
<1>5. \A c \in Children(f) : Gone(c) => Gone(c)'
  BY GoneStable
<1> QED BY <1>2, <1>3, <1>4, <1>5 DEF Clear

(* No job below the flow that the worker is at is in the queue. *)
LEMMA NoneLive ==
  ASSUME Base, ChildInv, worker.pc \notin {"idle", "run"}, NEW f \in Pushed, f = worker.flow
  PROVE  \A c \in Children(f) : c \in Pushed /\ row[c] \in Ended /\ ~Live(c)
<1>1. SUFFICES ASSUME NEW c \in Children(f) PROVE c \in Pushed /\ row[c] \in Ended /\ ~Live(c)
  OBVIOUS
<1>2. c \in Pushed /\ job[c].parent = f /\ f # 0
  BY JobFacts DEF Children, Base
<1>3. ~Live(c)
  BY <1>2 DEF ChildInv, LiveWaited, At
<1>4. row[c] # "none" /\ row[c] \in {"none", "queued", "running"} \cup Ended
  BY <1>2, JobFacts DEF Base, RangeInv
<1> QED BY <1>2, <1>3, <1>4 DEF Live, InQueue

(* A successful failure module excuses every failure of the flow, a successful preprocessor those *)
(* of the preprocessor.                                                                            *)
LEMMA Excuses ==
  ASSUME NEW f, NEW d \in Children(f), row[d] = "success", NEW c \in Children(f), row[c] \in Ended,
         \/ job[d].step = Size(f)
         \/ job[d].step = PreprocessorStep /\ job[c].step = PreprocessorStep
  PROVE  Gone(c)
<1>1. job[c].parent = f /\ d \in ChildrenAt(f, job[d].step)
  BY DEF Children, ChildrenAt
<1>2. CASE job[d].step = Size(f)
  <2>1. \E e \in ChildrenAt(job[c].parent, Size(job[c].parent)) : row[e] = "success"
    BY <1>1, <1>2
  <2>2. IsExcused(c)
    BY <2>1, Zenon DEF IsExcused
  <2> QED BY <2>2 DEF Gone, Went
<1>3. CASE job[d].step = PreprocessorStep /\ job[c].step = PreprocessorStep
  <2>1. /\ job[c].step = PreprocessorStep
        /\ \E e \in ChildrenAt(job[c].parent, PreprocessorStep) : row[e] = "success"
    BY <1>1, <1>3
  <2>2. IsExcused(c)
    BY <2>1, Zenon DEF IsExcused
  <2> QED BY <2>2 DEF Gone, Went
<1> QED BY <1>2, <1>3

(* A module that retries or continues after errors, or a loop in progress, is one of the flow's own. *)
LEMMA OwnModule ==
  ASSUME Base, NEW f \in Pushed, IsFlow(f),
         \/ Current(f).continue_on_error \/ MayRetry(f) \/ Current(f).kind # "script"
  PROVE  ~Free(f) /\ flow_status[f].step >= 0 /\ flow_status[f].step < Size(f)
<1>1. /\ flow_status[f].step \in Int /\ flow_status[f].fail_count \in Nat /\ Size(f) \in Nat
  BY JobFacts, ModuleFacts DEF Base, FlowStatus, PreprocessorStep
<1>2. ~Plain.continue_on_error /\ Plain.retry = 0 /\ Plain.kind = "script"
  BY DEF Plain
<1>3. Current(f) # Plain
  BY <1>1, <1>2 DEF MayRetry
<1>4. 0 <= flow_status[f].step /\ flow_status[f].step < Size(f)
  BY <1>3 DEF Current, ModuleAt
<1> QED BY <1>1, <1>4 DEF Free, IsPreprocessorStep, PreprocessorStep, IsFailureStep

(* What a report leaves open: nothing if it is a success, or its failure is skipped or continued *)
(* after; else at most the job that it is about.                                                *)
LEMMA ReportGone ==
  ASSUME Base, ChildInv, IterInv, LossInv, worker.pc = "update", NEW f \in Pushed,
         f = worker.flow, InQueue(f)
  PROVE  /\ worker.success \/ SkipFailure(f) \/ Current(f).continue_on_error => AllGone(f)
         /\ \/ Free(f)
            \/ \A c \in Children(f) :
                 \/ Gone(c)
                 \/ /\ row[c] \in Ended /\ job[c].step = flow_status[f].step
                    /\ job[c].attempt = flow_status[f].fail_count
<1>1. /\ IsFlow(f) /\ f # 0
      /\ worker.job # 0 => worker.job \in Pushed /\ job[worker.job].parent = f
  BY JobFacts DEF Base, WorkerInv
<1>2. \A c \in Children(f) : c \in Pushed /\ row[c] \in Ended
  BY NoneLive
<1>3. CASE worker.job = 0
  <2>1. (Free(f) \/ AllGone(f)) /\ (worker.success => AllGone(f))
    BY <1>3 DEF LossInv, ReportClear
  <2>2. ~SkipFailure(f)
    BY <1>3 DEF IterInv, ReportMatches, SkipFailure, Looping, Branching
  <2>3. Current(f).continue_on_error => ~Free(f)
    BY <1>1, OwnModule DEF Base, WorkerInv
  <2> QED BY <2>1, <2>2, <2>3 DEF AllGone
<1>4. CASE worker.job # 0
  <2>1. PICK d \in Pushed : d = worker.job
    BY <1>1, <1>4
  <2>2. /\ Clear(f, d) /\ row[d] \in Ended /\ (Matches(d, f) \/ AllGone(f)) /\ InSteps(f)
        /\ worker.success => Gone(d) /\ Matches(d, f) /\ (~IsFlow(d) => row[d] = "success")
    BY <2>1 DEF LossInv, ReportClear
  <2>3. CASE AllGone(f)
    BY <2>3 DEF AllGone
  <2>4. CASE Matches(d, f)
    <3>1. /\ d \in Children(f) /\ job[d].step = flow_status[f].step
          /\ job[d].iter = flow_status[f].index /\ job[d].attempt = flow_status[f].fail_count
      BY <2>4 DEF Matches, Children
    <3>2. ModuleOf(d) = Current(f)
      BY <1>1, <1>4, <2>1, <3>1 DEF ModuleOf, Current
    <3>3. ~Free(f) => \A c \in Children(f) : c = d \/ Gone(c)
      BY <2>2 DEF Clear
    <3>4. IsFlow(f)
      BY DEF Base, WorkerInv
    <3>5. ASSUME worker.success PROVE AllGone(f)
      <4>1. CASE ~Free(f)
        BY <2>2, <3>3, <3>5, <4>1 DEF AllGone
      <4>2. CASE IsPreprocessorStep(f)
        <5>1. \A c \in Children(f) : job[c].step = PreprocessorStep
          BY <3>4, <4>2 DEF LossInv, StartWell
        <5>2. job[d].parent = f /\ job[d].step = PreprocessorStep
          BY <3>1, <5>1 DEF Children
        <5>3. row[d] = "success"
          BY <1>1, <2>2, <3>5, <5>2 DEF LossInv, OuterScripts
        <5> QED BY <1>2, <3>1, <5>1, <5>3, Excuses DEF AllGone
      <4>3. CASE IsFailureStep(f)
        <5>1. flow_status[f].step \in Int /\ Size(f) \in Nat
          BY <3>4, JobFacts, ModuleFacts DEF Base, FlowStatus, PreprocessorStep
        <5>2. flow_status[f].step = Size(f)
          BY <2>2, <4>3, <5>1 DEF IsFailureStep, InSteps
        <5>3. job[d].parent = f /\ job[d].step = Size(f) /\ job[d].step >= Size(f)
          BY <3>1, <5>1, <5>2 DEF Children
        <5>4. row[d] = "success"
          BY <1>1, <2>2, <3>5, <5>3 DEF LossInv, OuterScripts
        <5> QED BY <1>2, <3>1, <5>3, <5>4, Excuses DEF AllGone
      <4> QED BY <4>1, <4>2, <4>3 DEF Free
    <3>6. ASSUME SkipFailure(f) PROVE AllGone(f)
      <4>1. Current(f).kind \in Loops \cup {"branchall"} /\ flow_status[f].index \in Current(f).skip
        BY <3>6 DEF SkipFailure, Looping, Branching
      <4>2. ~Free(f)
        BY <3>4, <4>1, OwnModule DEF Loops
      <4>3. IsExcused(d)
        BY <3>1, <3>2, <4>1 DEF IsExcused
      <4> QED BY <2>2, <3>3, <4>2, <4>3 DEF AllGone, Gone, Went
    <3>7. ASSUME Current(f).continue_on_error PROVE AllGone(f)
      BY <2>2, <3>2, <3>3, <3>4, <3>7, OwnModule DEF IsExcused, AllGone, Gone, Went
    <3> QED BY <2>2, <3>1, <3>3, <3>5, <3>6, <3>7
  <2> QED BY <2>2, <2>3, <2>4
<1> QED BY <1>3, <1>4

(* LossInv after a step that pushes no job. *)
LEMMA LossKeeps ==
  ASSUME Base, TokenInv, ChildInv, LossInv, [Next]_vars, job' = job, NEW f \in Pushed,
         \A k \in Pushed \ {f} : flow_status'[k] = flow_status[k],
         \/ flow_status'[f] = flow_status[f]
         \/ /\ worker'.pc \notin {"idle", "run"} /\ worker'.flow = f /\ row'[f] # "queued"
            /\ AtStart(f)' => AllGone(f)
            /\ IsPreprocessorStep(f)' => IsPreprocessorStep(f),
         \A k \in Pushed :
            /\ row'[k] = "success" /\ IsFlow(k) => row[k] = "success" \/ AllGone(k)
            /\ row'[k] = "queued" /\ IsFlow(k)
                 => row[k] = "queued" \/ IsPreprocessorStep(k) \/ AtStart(k)
            /\ Live(k)' => row'[k] = row[k] \/ InQueue(k)' \/ row'[k] = "canceled",
         ReportClear', PushClear', WorkerClear'
  PROVE  LossInv'
<1>1. /\ Pushed' = Pushed
      /\ \A k \in Pushed : /\ InQueue(k)' => InQueue(k)
                           /\ Live(k)' => Live(k)
      /\ ChildInv'
  BY Stable, ChildStep DEF Pushed
<1>2. \A k \in Pushed : IsFlow(k)' = IsFlow(k) /\ Value(k)' = Value(k) /\ Size(k)' = Size(k)
  BY SameFlow
<1>3. \A k \in Pushed : Children(k)' = Children(k) /\ (AllGone(k) => AllGone(k)')
  BY GoneStable
<1>4. EndedWell'
  BY <1>1, <1>2, <1>3 DEF LossInv, EndedWell
<1>5. ASSUME NEW k \in Pushed, IsFlow(k), InQueue(k)'
      PROVE  /\ AtStart(k)' => AllGone(k)'
             /\ IsPreprocessorStep(k)' => \A c \in Children(k)' : job'[c].step = PreprocessorStep
             /\ row'[k] = "queued" => IsPreprocessorStep(k)' \/ AtStart(k)'
  <2>1. /\ AtStart(k) => AllGone(k)
        /\ IsPreprocessorStep(k) => \A c \in Children(k) : job[c].step = PreprocessorStep
        /\ row[k] = "queued" => IsPreprocessorStep(k) \/ AtStart(k)
    BY <1>1, <1>5 DEF LossInv, StartWell
  <2>2. CASE flow_status'[k] = flow_status[k]
    BY <1>3, <1>5, <2>1, <2>2, ClearStable
  <2>3. CASE flow_status'[k] # flow_status[k]
    BY <1>3, <2>1, <2>3
  <2> QED BY <2>2, <2>3
<1>6. StartWell'
  BY <1>1, <1>2, <1>5 DEF StartWell
<1>7. OuterScripts'
  <2>1. SUFFICES ASSUME NEW c \in Pushed, NEW p, p = job[c].parent, p # 0
                 PROVE  /\ job[c].step = PreprocessorStep \/ job[c].step >= Size(p)' => ~IsFlow(c)'
                        /\ Size(p)' = 0 => job[c].step = PreprocessorStep
    BY <1>1 DEF OuterScripts, Size, Value
  <2>2. p \in Pushed
    BY <2>1, JobFacts DEF Base
  <2> QED BY <1>2, <2>1, <2>2 DEF LossInv, OuterScripts
<1>8. Preprocessors'
  BY <1>1, <1>2, ClearStable DEF LossInv, Preprocessors
<1>9. LiveRows'
  BY <1>1 DEF LossInv, LiveRows, InQueue
<1>10. LiveClear'
  <2>1. SUFFICES ASSUME NEW c \in Pushed, NEW p, p = job[c].parent, p # 0, Live(c)', InQueue(p)'
                 PROVE  InSteps(p)' /\ Clear(p, c)'
    BY <1>1 DEF LiveClear, InQueue, InSteps, Clear, Free, Children, IsPreprocessorStep,
                IsFailureStep, Size, Value
  <2>2. p \in Pushed
    BY <2>1, JobFacts DEF Base
  <2>3. InSteps(p) /\ Clear(p, c)
    BY <1>1, <2>1, <2>2 DEF LossInv, LiveClear
  <2>4. flow_status'[p] = flow_status[p]
    BY <1>1, <2>1, <2>2 DEF ChildInv, LiveWaited, At
  <2> QED BY <1>3, <2>2, <2>3, <2>4, ClearStable
<1> QED BY <1>4, <1>6, <1>7, <1>8, <1>9, <1>10 DEF LossInv

(* The report of a live job answers for that job only. *)
LEMMA LossReports ==
  ASSUME Base, TokenInv, ChildInv, IterInv, LossInv, [Next]_vars, job' = job,
         flow_status' = flow_status, NEW c \in Pushed, Live(c), job[c].parent # 0,
         worker'.flow = job[c].parent, worker'.job = c, row'[c] \in Ended,
         worker'.success => /\ row'[c] # "failure" \/ c \in broken'
                            /\ ~IsFlow(c) => row'[c] = "success"
  PROVE  ReportClear'
<1>1. PICK p \in Pushed : p = job[c].parent
  BY JobFacts DEF Base
<1>2. /\ Pushed' = Pushed /\ (InQueue(p)' => InQueue(p)) /\ IsFlow(c)' = IsFlow(c) /\ c # 0
  BY Stable, SameFlow, JobFacts DEF Pushed, Base
<1>3. ASSUME InQueue(p)'
      PROVE  /\ InSteps(p)' /\ Clear(p, c)' /\ Matches(c, p)'
             /\ worker'.success => Gone(c)'
  <2>1. InSteps(p) /\ Clear(p, c) /\ Matches(c, p)
    BY <1>1, <1>2, <1>3 DEF LossInv, LiveClear, IterInv, LiveMatches
  <2>2. InSteps(p)' /\ Clear(p, c)' /\ Matches(c, p)'
    BY <2>1, ClearStable, GoneStable
  <2>3. ASSUME worker'.success PROVE Gone(c)'
    BY <2>3 DEF Ended, IsExcused, Gone, Went
  <2> QED BY <2>2, <2>3
<1> QED BY <1>1, <1>2, <1>3 DEF ReportClear

(* The report of a flow that could not be started answers for nothing. *)
LEMMA LossRefused ==
  ASSUME Base, TokenInv, LossInv, [Next]_vars, job' = job, flow_status' = flow_status,
         NEW f \in Pushed, IsFlow(f), IsPreprocessorStep(f) \/ AtStart(f),
         worker'.flow = f, worker'.job = 0, ~worker'.success
  PROVE  ReportClear'
<1>1. Pushed' = Pushed /\ (InQueue(f)' => InQueue(f)) /\ 0 \notin Pushed
  BY Stable, JobFacts DEF Pushed, Base
<1>2. Size(f) \in Nat /\ flow_status[f].step \in {-1, 0}
  BY ModuleFacts DEF Base, IsPreprocessorStep, AtStart, PreprocessorStep
<1>3. InSteps(f)'
  BY <1>2, ClearStable DEF InSteps
<1>4. InQueue(f) => Free(f) \/ AllGone(f)
  BY DEF Free, LossInv, StartWell
<1>5. InQueue(f) => Free(f)' \/ AllGone(f)'
  BY <1>4, ClearStable, GoneStable
<1> QED BY <1>1, <1>3, <1>5 DEF ReportClear

(* While the worker is at the same point, so is what it answers for. *)
LEMMA LossSame ==
  ASSUME Base, TokenInv, LossInv, [Next]_vars, job' = job, flow_status' = flow_status,
         worker' = worker
  PROVE  ReportClear' /\ PushClear' /\ WorkerClear'
<1>1. /\ Pushed' = Pushed
      /\ \A k \in Pushed : /\ InQueue(k)' => InQueue(k)
                           /\ row[k] \in Ended => row'[k] = row[k]
                           /\ IsFlow(k)' = IsFlow(k)
      /\ "success" \in Ended
  BY Stable, SameFlow DEF Pushed, Ended
<1>2. \A f \in Pushed :
        /\ InSteps(f)' = InSteps(f) /\ AtStart(f)' = AtStart(f) /\ Free(f)' = Free(f)
        /\ IsPreprocessorStep(f)' = IsPreprocessorStep(f) /\ Children(f)' = Children(f)
        /\ AllGone(f) => AllGone(f)'
        /\ \A c \in Pushed : Matches(c, f)' = Matches(c, f)
        /\ \A d : Clear(f, d) => Clear(f, d)'
        /\ \A c \in Children(f) : c \in Pushed /\ (Gone(c) => Gone(c)')
  BY ClearStable, GoneStable DEF Children
<1>3. ASSUME NEW f \in Pushed, NEW c \in Pushed, Matches(c, f) PROVE c \in Children(f)
  BY <1>3 DEF Matches, Children
<1>4. ReportClear'
  BY <1>1, <1>2, <1>3 DEF LossInv, ReportClear
<1>5. PushClear'
  BY <1>1, <1>2 DEF LossInv, PushClear
<1>6. WorkerClear'
  BY <1>1, <1>2 DEF LossInv, WorkerClear
<1> QED BY <1>4, <1>5, <1>6

(* Only a branch or a loop can be empty. *)
LEMMA EmptyModule ==
  ASSUME Base, NEW f \in Pushed, IsFlow(f), EmptyInnerFlows \in NextFlowTransform(f)
  PROVE  ~RunsHandler(f) /\ Current(f).kind # "script"
<1> DEFINE m == IF RunsHandler(f) THEN Plain ELSE Current(f)
<1>1. Plain.kind = "script" /\ ~Plain.skip_if
  BY DEF Plain
<1>2. SUFFICES m.kind # "script"
  BY <1>1
<1>3. EmptyInnerFlows \in
        (IF m.skip_if THEN {NextOf("identity", "WaitingForExecutor", 0, 0)} ELSE {}) \cup
             CASE m.kind = "script" -> {NextOf("script", "WaitingForExecutor", 0, 0)}
               [] m.kind = "flow" -> {NextOf(m.inner[1], "WaitingForExecutor", 0, 0)}
               [] m.kind \in {"branchone", "branchall"} -> NextBranch(f, m)
               [] m.kind \in Loops -> NextIteration(f, m)
  BY DEF NextFlowTransform
<1> HIDE DEF m
<1>4. ASSUME m.kind = "script" PROVE FALSE
  BY <1>3, <1>4 DEF Loops, EmptyInnerFlows, NextOf
<1> QED BY <1>4

(* Outside of the flow's own modules there is only a script to push. *)
LEMMA PlainNext ==
  ASSUME NEW f, RunsHandler(f) \/ Current(f) = Plain, NEW n \in NextFlowTransform(f)
  PROVE  n.flow = "script"
<1> DEFINE m == IF RunsHandler(f) THEN Plain ELSE Current(f)
<1>1. m.kind = "script" /\ ~m.skip_if
  BY DEF Plain
<1>2. n \in
        (IF m.skip_if THEN {NextOf("identity", "WaitingForExecutor", 0, 0)} ELSE {}) \cup
             CASE m.kind = "script" -> {NextOf("script", "WaitingForExecutor", 0, 0)}
               [] m.kind = "flow" -> {NextOf(m.inner[1], "WaitingForExecutor", 0, 0)}
               [] m.kind \in {"branchone", "branchall"} -> NextBranch(f, m)
               [] m.kind \in Loops -> NextIteration(f, m)
  BY DEF NextFlowTransform
<1> HIDE DEF m
<1>3. n = NextOf("script", "WaitingForExecutor", 0, 0)
  BY <1>1, <1>2 DEF Loops
<1> QED BY <1>3 DEF NextOf

(* A flow goes on only as far as its failure module. *)
LEMMA StaysInSteps ==
  ASSUME Base, NEW f \in Pushed, IsFlow(f), f = worker.flow, InSteps(f), NEW stop \in Stops,
         ShouldContinue(worker, Succeeds(worker, stop), stop, IncStep(worker, stop))
  PROVE  (IF IncStep(worker, stop) THEN flow_status[f].step + 1 ELSE flow_status[f].step) <= Size(f)
<1>1. flow_status[f].step \in Int /\ Size(f) \in Nat
  BY JobFacts, ModuleFacts DEF Base, FlowStatus, PreprocessorStep
<1>2. CASE ~IncStep(worker, stop)
  BY <1>2 DEF InSteps
<1>3. CASE IncStep(worker, stop) /\ ~Succeeds(worker, stop)
  BY <1>1, <1>3, OwnModule DEF IncStep, ContinueOnError
<1>4. CASE IncStep(worker, stop) /\ Succeeds(worker, stop)
  BY <1>1, <1>4 DEF Succeeds, ShouldContinue
<1> QED BY <1>2, <1>3, <1>4

(* A report closes what it answers for, or leaves it open for a retry or for the failure module. *)
LEMMA LossUpdate ==
  ASSUME Base, TokenInv, ChildInv, IterInv, LossInv, [Next]_vars, UpdateStatus
  PROVE  LossInv'
<1>0. /\ TypeOK /\ \A j \in Pushed : j \in Job /\ j # 0
      /\ Idle.pc = "idle" /\ flow_status \in [Job -> FlowStatus]
  BY JobFacts DEF Base, TypeOK, Idle
<1>1. PICK f \in Pushed : f = worker.flow
  BY UpdateStatusEffect
<1>2. /\ worker.pc = "update" /\ IsFlow(f) /\ job' = job /\ row' = row
      /\ \/ worker' = Idle /\ flow_status' = flow_status
         \/ /\ InQueue(f) /\ worker'.flow = f /\ flow_status' = flow_status
            /\ worker'.success = worker.success
            /\ \E stop \in StopEarly(worker) : GoesOn(worker, stop)
            /\ \/ worker'.pc = "finish"
               \/ worker'.pc = "push" /\ ShouldContinue(worker, worker.success, "none", FALSE)
         \/ /\ InQueue(f) /\ worker'.flow = f
            /\ \E stop \in Stops :
                 /\ EndModule(worker, stop)
                 /\ \/ /\ IsPreprocessorStep(f) /\ Succeeds(worker, stop)
                       /\ worker'.pc = "preprocessed"
                    \/ /\ worker'.pc \in {"push", "finish"}
                       /\ worker'.success = Succeeds(worker, stop)
                       /\ worker'.pc = "push" =>
                             ShouldContinue(worker, Succeeds(worker, stop), stop,
                                            IncStep(worker, stop))
  BY <1>1, UpdateStatusEffect
<1>3. /\ Pushed' = Pushed /\ \A k : InQueue(k)' = InQueue(k)
      /\ \A k \in Pushed : Children(k)' = Children(k) /\ (AllGone(k) => AllGone(k)')
  BY <1>2, GoneStable DEF Pushed, InQueue
<1>4. row[f] # "queued"
  BY <1>1, <1>2, NotQueued
<1>5. CASE worker' = Idle /\ flow_status' = flow_status
  BY <1>0, <1>2, <1>5, LossKeeps DEF ReportClear, PushClear, WorkerClear
<1>6. CASE /\ InQueue(f) /\ worker'.flow = f /\ flow_status' = flow_status
           /\ worker'.success = worker.success
           /\ \E stop \in StopEarly(worker) : GoesOn(worker, stop)
           /\ \/ worker'.pc = "finish"
              \/ worker'.pc = "push" /\ ShouldContinue(worker, worker.success, "none", FALSE)
  <2>1. CASE worker'.pc = "finish"
    BY <1>1, <1>2, <1>3, <1>6, <2>1, ReportGone, LossKeeps DEF ReportClear, PushClear, WorkerClear
  <2>2. CASE worker'.pc = "push"
    <3>1. PICK stop \in StopEarly(worker) : GoesOn(worker, stop)
      BY <1>6
    <3>2. /\ worker.job \in Pushed /\ Matches(worker.job, worker.flow)
          /\ row[worker.job] \in Ended /\ Went(worker.job)
      BY <1>1, <1>2, <1>6, <2>2, <3>1, GoesOnWent
    <3>3. PICK d \in Pushed : d = worker.job
      BY <3>2
    <3>4. Gone(d) /\ Clear(f, d) /\ InSteps(f)
      BY <1>1, <1>2, <1>6, <3>2, <3>3 DEF Gone, LossInv, ReportClear
    <3>5. Current(f).kind \in Loops \cup {"branchall"}
      BY <1>1, <3>1 DEF GoesOn, Looping, Branching
    <3>6. ~Free(f)
      BY <1>2, <3>5, OwnModule DEF Loops
    <3>7. AllGone(f)
      BY <3>4, <3>6 DEF Clear, AllGone
    <3>8. InSteps(f)'
      BY <1>6, <3>4, ClearStable
    <3>9. ReportClear' /\ PushClear' /\ WorkerClear'
      BY <1>3, <1>6, <2>2, <3>7, <3>8 DEF ReportClear, PushClear, WorkerClear
    <3> QED BY <1>2, <1>6, <3>9, LossKeeps
  <2> QED BY <1>6, <2>1, <2>2
<1>7. ASSUME InQueue(f), worker'.flow = f, NEW stop \in Stops, EndModule(worker, stop),
             \/ /\ IsPreprocessorStep(f) /\ Succeeds(worker, stop)
                /\ worker'.pc = "preprocessed"
             \/ /\ worker'.pc \in {"push", "finish"}
                /\ worker'.success = Succeeds(worker, stop)
                /\ worker'.pc = "push" =>
                      ShouldContinue(worker, Succeeds(worker, stop), stop, IncStep(worker, stop))
      PROVE  LossInv'
  <2>1. /\ flow_status'[f].step = IF IncStep(worker, stop) THEN flow_status[f].step + 1
                                  ELSE flow_status[f].step
        /\ flow_status'[f].module = IF IncStep(worker, stop) THEN "WaitingForPriorSteps" ELSE "Failure"
        /\ flow_status'[f].fail_count = IF Succeeds(worker, stop) THEN 0 ELSE flow_status[f].fail_count
        /\ \A k \in Pushed \ {f} : flow_status'[k] = flow_status[k]
    BY <1>0, <1>1, <1>7 DEF EndModule
  <2>2. flow_status[f].step \in Nat \cup {-1} /\ Size(f)' = Size(f) /\ InSteps(f)
    BY <1>0, <1>1, <1>2, <1>7, SameFlow DEF FlowStatus, PreprocessorStep, LossInv, ReportClear
  <2>3. IncStep(worker, stop) => AllGone(f)
    BY <1>1, <1>2, <1>7, ReportGone DEF IncStep, Succeeds, ContinueOnError
  <2>4. Succeeds(worker, stop) => IncStep(worker, stop)
    BY DEF IncStep
  <2>5. AtStart(f)' => AllGone(f)
    BY <2>1, <2>3 DEF AtStart
  <2>6. IsPreprocessorStep(f)' => IsPreprocessorStep(f)
    BY <2>1, <2>2 DEF IsPreprocessorStep, PreprocessorStep
  <2>7. WorkerClear'
    BY <1>3, <1>7, <2>1, <2>3, <2>4 DEF AtStart, IsPreprocessorStep, PreprocessorStep, WorkerClear
  <2>8. PushClear'
    <3>1. SUFFICES ASSUME worker'.pc = "push"
                   PROVE  /\ InSteps(f)'
                          /\ \/ Free(f)' \/ AllGone(f)'
                             \/ /\ flow_status'[f].module = "Failure"
                                /\ \A c \in Children(f)' :
                                     \/ Gone(c)'
                                     \/ /\ row'[c] \in Ended /\ job'[c].step = flow_status'[f].step
                                        /\ job'[c].attempt = flow_status'[f].fail_count
      BY <1>3, <1>7 DEF PushClear
    <3>2. InSteps(f)'
      BY <1>1, <1>2, <1>7, <2>1, <2>2, <3>1, StaysInSteps DEF InSteps
    <3>3. CASE IncStep(worker, stop)
      BY <1>3, <2>3, <3>2, <3>3
    <3>4. CASE ~IncStep(worker, stop)
      <4>1. \/ Free(f)
            \/ \A c \in Children(f) :
                 \/ Gone(c)
                 \/ /\ row[c] \in Ended /\ job[c].step = flow_status[f].step
                    /\ job[c].attempt = flow_status[f].fail_count
        BY <1>1, <1>2, <1>7, ReportGone
      <4>2. /\ flow_status'[f].step = flow_status[f].step /\ flow_status'[f].module = "Failure"
            /\ flow_status'[f].fail_count = flow_status[f].fail_count
        BY <2>1, <2>4, <3>4
      <4>3. Free(f) => Free(f)'
        BY <2>2, <4>2 DEF Free, IsPreprocessorStep, IsFailureStep
      <4>4. \A c \in Children(f) : Gone(c) => Gone(c)'
        BY GoneStable
      <4> QED BY <1>2, <1>3, <3>2, <4>1, <4>2, <4>3, <4>4
    <3> QED BY <3>3, <3>4
  <2>9. ReportClear'
    BY <1>7 DEF ReportClear
  <2> QED BY <1>2, <1>4, <1>7, <2>1, <2>5, <2>6, <2>7, <2>8, <2>9, LossKeeps
<1> QED BY <1>2, <1>5, <1>6, <1>7

(* An empty module or flow leaves nothing open. *)
LEMMA LossEmpty ==
  ASSUME Base, TokenInv, ChildInv, LossInv, [Next]_vars, PushEmpty
  PROVE  LossInv'
<1>0. /\ TypeOK /\ 0 \notin Pushed /\ \A j \in Pushed : j \in Job
      /\ flow_status \in [Job -> FlowStatus]
  BY JobFacts DEF Base, TypeOK
<1>1. PICK f \in Pushed : f = worker.flow
  BY PushEmptyEffect
<1>2. /\ worker.pc \in {"start", "push"} /\ IsFlow(f) /\ job' = job /\ row' = row
      /\ worker'.pc = "update" /\ worker'.flow = f /\ worker'.job = 0
      /\ \/ HasNoModules(f) /\ flow_status' = flow_status
         \/ /\ InQueue(f) /\ EmptyInnerFlows \in NextFlowTransform(f)
            /\ history' = history \cup {<<f, flow_status[f].step, "empty">>}
            /\ flow_status' = [flow_status EXCEPT ![f] =
                     [step |-> flow_status[f].step, module |-> "Success", index |-> 0,
                      len |-> 0, fail_count |-> Attempt(f)]]
  BY <1>1, PushEmptyEffect
<1>3. /\ Pushed' = Pushed /\ \A k : InQueue(k)' = InQueue(k)
      /\ \A k \in Pushed : Children(k)' = Children(k) /\ (AllGone(k) => AllGone(k)')
  BY <1>2, GoneStable DEF Pushed, InQueue
<1>4. /\ row[f] # "queued" /\ Size(f) \in Nat /\ flow_status[f].step \in Nat \cup {-1}
      /\ Size(f)' = Size(f)
  BY <1>0, <1>1, <1>2, NotQueued, ModuleFacts, SameFlow DEF FlowStatus, PreprocessorStep
<1>5. WorkerClear' /\ PushClear'
  BY <1>2 DEF WorkerClear, PushClear
<1>6. InQueue(f) => InSteps(f)
  BY <1>1, <1>2, <1>4 DEF LossInv, WorkerClear, IsPreprocessorStep, PreprocessorStep, AtStart,
     InSteps, PushClear
<1>7. InQueue(f) /\ worker.pc = "start" /\ ~IsPreprocessorStep(f) => AllGone(f)
  BY <1>1, <1>2 DEF LossInv, WorkerClear, StartWell
<1>8. InQueue(f) /\ worker.pc = "push" /\ ~Free(f) =>
        \A c \in Children(f) : \/ Gone(c)
                               \/ row[c] \in Ended /\ job[c].step = flow_status[f].step
  BY <1>1 DEF LossInv, PushClear, AllGone
<1>9. CASE HasNoModules(f) /\ flow_status' = flow_status
  <2>1. Size(f) = 0 /\ ~IsPreprocessorStep(f) /\ ~Free(f)
    BY <1>9 DEF HasNoModules, Free, IsFailureStep
  <2>2. ASSUME NEW c \in Children(f) PROVE job[c].step # flow_status[f].step
    BY <1>0, <2>1 DEF Children, LossInv, OuterScripts, IsPreprocessorStep
  <2>3. InQueue(f) => AllGone(f)
    BY <1>2, <1>7, <1>8, <2>1, <2>2 DEF AllGone
  <2>4. InSteps(f)' = InSteps(f)
    BY <1>9, ClearStable
  <2>5. ReportClear'
    BY <1>0, <1>2, <1>3, <1>6, <2>3, <2>4 DEF ReportClear
  <2> QED BY <1>2, <1>5, <1>9, <2>5, LossKeeps
<1>10. CASE /\ InQueue(f) /\ EmptyInnerFlows \in NextFlowTransform(f)
            /\ history' = history \cup {<<f, flow_status[f].step, "empty">>}
            /\ flow_status' = [flow_status EXCEPT ![f] =
                     [step |-> flow_status[f].step, module |-> "Success", index |-> 0,
                      len |-> 0, fail_count |-> Attempt(f)]]
  <2>1. ~Free(f)
    BY <1>2, <1>10, EmptyModule, OwnModule
  <2>2. /\ flow_status'[f].step = flow_status[f].step /\ flow_status'[f].module = "Success"
        /\ \A k \in Pushed \ {f} : flow_status'[k] = flow_status[k]
    BY <1>0, <1>10
  <2>3. ASSUME NEW c \in Children(f) PROVE Gone(c)'
    <3>1. CASE Gone(c)
      BY <3>1, GoneStable
    <3>2. CASE row[c] \in Ended /\ job[c].step = flow_status[f].step
      <4>1. job[c].parent = f
        BY DEF Children
      <4>2. IsEmpty(job[c].parent, job[c].step)'
        BY <1>2, <1>10, <3>2, <4>1 DEF IsEmpty
      <4>3. IsExcused(c)'
        BY <4>2, Zenon DEF IsExcused
      <4> QED BY <1>2, <3>2, <4>3 DEF Gone, Went
    <3> QED BY <1>2, <1>7, <1>8, <1>10, <2>1, <3>1, <3>2 DEF AllGone, Free
  <2>4. AllGone(f)'
    BY <1>3, <2>3 DEF AllGone
  <2>5. InSteps(f)'
    BY <1>4, <1>6, <1>10, <2>2 DEF InSteps
  <2>6. ReportClear'
    BY <1>0, <1>2, <1>3, <2>4, <2>5 DEF ReportClear
  <2>7. ~AtStart(f)' /\ (IsPreprocessorStep(f)' => IsPreprocessorStep(f))
    BY <2>2 DEF AtStart, IsPreprocessorStep
  <2> QED BY <1>2, <1>4, <1>5, <2>2, <2>6, <2>7, LossKeeps
<1> QED BY <1>2, <1>9, <1>10

(* A push opens the new job only: a retry excuses the attempts before it, and what is left open *)
(* is the failure module's to excuse.                                                           *)
LEMMA LossPush ==
  ASSUME NoEmptyHandlers, Base, TokenInv, ChildInv, LossInv, [Next]_vars, PushNext
  PROVE  LossInv'
<1>0. /\ TypeOK /\ 0 \notin Pushed /\ \A j \in Pushed : j \in Job
      /\ row \in [Job -> {"none", "queued", "running"} \cup Ended]
      /\ flow_status \in [Job -> FlowStatus] /\ Idle.pc = "idle"
      /\ \A j \in Pushed : job[j].parent # 0 => job[j].parent \in Pushed
  BY JobFacts DEF Base, TypeOK, Idle
<1>1. PICK f \in Pushed : f = worker.flow
  BY PushNextEffect
<1>2. PICK q : q = Len(job) + 1
  OBVIOUS
<1>3. /\ worker.pc \in {"start", "push"} /\ IsFlow(f) /\ worker' = Idle
      /\ ~HasNoModules(f) /\ ~HandlerIsMissing(f)
      /\ row' = [row EXCEPT ![q] = "queued"]
      /\ q \in Job /\ q \notin Pushed /\ Pushed' = Pushed \cup {q}
      /\ \A j \in Pushed : job'[j] = job[j]
      /\ PushedStep(f) \in Nat \cup {PreprocessorStep} /\ Attempt(f) \in Nat
  BY <1>1, <1>2, PushNextEffect
<1>4. PICK n \in NextFlowTransform(f) \ {EmptyInnerFlows} :
        /\ job'[q] = JobOf(n.flow, f, PushedStep(f), n.index, n.len, Attempt(f))
        /\ SetModule(f, n, PushedStep(f), Attempt(f))
  BY <1>1, <1>2, PushNextEffect
<1>5. /\ job'[q].parent = f /\ job'[q].step = PushedStep(f) /\ job'[q].attempt = Attempt(f)
      /\ job'[q].flow = n.flow
  BY <1>4 DEF JobOf
<1>6. /\ \A k \in Job \ {f} : flow_status'[k] = flow_status[k]
      /\ InQueue(f) => /\ flow_status'[f].step = PushedStep(f)
                       /\ flow_status'[f].module \in {"WaitingForExecutor", "InProgress"}
      /\ ~InQueue(f) => flow_status'[f] = flow_status[f]
  BY <1>0, <1>1, <1>3, <1>4, NextFacts DEF SetModule
<1>7. /\ row'[q] = "queued" /\ \A k \in Pushed : row'[k] = row[k]
      /\ \A k \in Pushed : InQueue(k)' = InQueue(k) /\ (Live(k)' => Live(k))
      /\ InQueue(q)'
  BY <1>0, <1>3, Stable DEF InQueue
<1>8. /\ \A k \in Pushed : IsFlow(k)' = IsFlow(k) /\ Value(k)' = Value(k) /\ Size(k)' = Size(k)
      /\ \A k \in Pushed \ {f} : Children(k)' = Children(k)
      /\ Children(f)' = Children(f) \cup {q} /\ Children(q)' = {}
      /\ \A k \in Pushed : Children(k) \subseteq Pushed
  BY <1>0, <1>3, <1>5, SameFlow, NestedFlowAssumption DEF Job, Children
<1>9. \A k \in Pushed \ {f} : AllGone(k) => AllGone(k)'
  BY <1>8, GoneStable
<1>10. /\ row[f] # "queued" /\ row[f] # "success" /\ Size(f) \in Nat
       /\ flow_status[f].step \in Nat \cup {-1}
  <2>1. row[f] # "queued"
    BY <1>1, <1>3, NotQueued
  <2>2. Live(f)
    BY <1>1, <1>3 DEF Live
  <2>3. row[f] # "success"
    BY <2>2 DEF LossInv, LiveRows, InQueue
  <2> QED BY <1>0, <1>3, <2>1, <2>3, ModuleFacts DEF FlowStatus, PreprocessorStep
<1>11. RunsHandler(f) => Size(f) > 0
  <2>1. ASSUME RunsHandler(f), Size(f) = 0 PROVE FALSE
    <3>1. IsPreprocessorStep(f) /\ Value(f).failure_module
      BY <1>3, <2>1 DEF HasNoModules, HandlerIsMissing
    <3>2. Value(f).preprocessor
      BY <1>3, <3>1 DEF LossInv, Preprocessors
    <3>3. job[f].flow \in DOMAIN Flows /\ Value(f) \in FlowValue
      BY <1>0, <1>3, JobFacts, ModuleFacts DEF JobRecord, IsFlow, IsStep
    <3>4. Value(f).modules = <<>>
      BY <2>1, <3>3 DEF Size, FlowValue
    <3> QED BY <3>1, <3>2, <3>3, <3>4 DEF NoEmptyHandlers, Value
  <2> QED BY <1>10, <2>1
<1>12. EndedWell'
  BY <1>3, <1>7, <1>8, <1>9, <1>10 DEF LossInv, EndedWell
<1>13. StartWell'
  <2>1. flow_status'[q].step = 0 /\ flow_status'[q].module = "WaitingForPriorSteps"
    BY <1>3, <1>6 DEF Base, RangeInv, NewStatus
  <2>2. AtStart(q)' /\ AllGone(q)' /\ ~IsPreprocessorStep(q)'
    BY <1>8, <2>1 DEF AtStart, AllGone, IsPreprocessorStep, PreprocessorStep
  <2>3. ASSUME InQueue(f)
        PROVE  /\ ~AtStart(f)' /\ row'[f] # "queued"
               /\ IsPreprocessorStep(f)' => \A c \in Children(f)' : job'[c].step = PreprocessorStep
    <3>1. ~AtStart(f)' /\ row'[f] # "queued"
      BY <1>6, <1>7, <1>10, <2>3 DEF AtStart
    <3>2. ASSUME IsPreprocessorStep(f)'
          PROVE  \A c \in Children(f)' : job'[c].step = PreprocessorStep
      <4>1. PushedStep(f) = PreprocessorStep
        BY <1>6, <2>3, <3>2 DEF IsPreprocessorStep
      <4>2. IsPreprocessorStep(f)
        BY <1>10, <4>1 DEF PushedStep, IsPreprocessorStep, PreprocessorStep
      <4>3. \A c \in Children(f) : job[c].step = PreprocessorStep
        BY <1>3, <2>3, <4>2 DEF LossInv, StartWell
      <4> QED BY <1>3, <1>5, <1>8, <4>1, <4>3
    <3> QED BY <3>1, <3>2
  <2>4. ASSUME NEW k \in Pushed \ {f}, IsFlow(k), InQueue(k)
        PROVE  /\ AtStart(k)' => AllGone(k)'
               /\ IsPreprocessorStep(k)' => \A c \in Children(k)' : job'[c].step = PreprocessorStep
               /\ row'[k] = "queued" => IsPreprocessorStep(k)' \/ AtStart(k)'
    BY <1>0, <1>3, <1>6, <1>7, <1>8, <1>9, <2>4, ClearStable DEF LossInv, StartWell
  <2> QED BY <1>3, <1>7, <1>8, <2>2, <2>3, <2>4 DEF StartWell
<1>14. OuterScripts'
  <2>1. SUFFICES ASSUME NEW c \in Pushed', NEW p, p = job'[c].parent, p # 0
                 PROVE  /\ job'[c].step = PreprocessorStep \/ job'[c].step >= Size(p)' => ~IsFlow(c)'
                        /\ Size(p)' = 0 => job'[c].step = PreprocessorStep
    BY DEF OuterScripts, Size, Value
  <2>2. CASE c \in Pushed
    BY <1>0, <1>3, <1>8, <2>1, <2>2 DEF LossInv, OuterScripts
  <2>3. CASE c = q
    <3>1. p = f /\ job'[c].step = PushedStep(f) /\ Size(p)' = Size(f)
      BY <1>5, <1>8, <2>1, <2>3
    <3>2. ASSUME PushedStep(f) = PreprocessorStep \/ PushedStep(f) >= Size(f) PROVE ~IsFlow(q)'
      <4>1. RunsHandler(f) \/ Current(f) = Plain
        BY <1>10, <3>2 DEF PushedStep, Current, ModuleAt, PreprocessorStep
      <4>2. n.flow = "script"
        BY <1>4, <4>1, PlainNext
      <4> QED BY <1>5, <4>2 DEF IsFlow, IsStep
    <3>3. ASSUME Size(f) = 0 PROVE PushedStep(f) = PreprocessorStep
      BY <1>3, <1>11, <3>3 DEF HasNoModules, PushedStep, IsPreprocessorStep
    <3> QED BY <2>3, <3>1, <3>2, <3>3
  <2> QED BY <1>3, <2>2, <2>3
<1>15. Preprocessors'
  <2>1. ~IsPreprocessorStep(q)'
    BY <1>3, <1>6 DEF Base, RangeInv, NewStatus, IsPreprocessorStep, PreprocessorStep
  <2>2. IsPreprocessorStep(f)' => IsPreprocessorStep(f)
    BY <1>6, <1>10 DEF PushedStep, IsPreprocessorStep, PreprocessorStep
  <2>3. \A k \in Pushed \ {f} : IsPreprocessorStep(k)' = IsPreprocessorStep(k)
    BY <1>0, <1>6, ClearStable
  <2> QED BY <1>3, <1>8, <2>1, <2>2, <2>3 DEF LossInv, Preprocessors
<1>16. LiveRows'
  BY <1>3, <1>7 DEF LossInv, LiveRows
<1>17. ASSUME InQueue(f) PROVE InSteps(f)' /\ Clear(f, q)'
  <2>1. flow_status'[f].step = PushedStep(f)
    BY <1>6, <1>17
  <2>2. flow_status[f].step <= Size(f)
    <3>1. CASE worker.pc = "start"
      BY <1>1, <1>10, <3>1 DEF LossInv, WorkerClear, IsPreprocessorStep, PreprocessorStep, AtStart
    <3>2. CASE worker.pc = "push"
      BY <1>1, <1>17, <3>2 DEF LossInv, PushClear, InSteps
    <3> QED BY <1>3, <3>1, <3>2
  <2>3. InSteps(f)'
    BY <1>8, <1>10, <2>1, <2>2 DEF InSteps, PushedStep
  <2>4. \A c \in Children(f) : Gone(c) => Gone(c)'
    BY GoneStable
  <2>5. CASE RunsHandler(f)
    BY <1>8, <1>10, <1>11, <2>1, <2>3, <2>5 DEF Free, IsFailureStep, PushedStep, Clear
  <2>6. CASE ~RunsHandler(f) /\ Free(f)
    BY <1>8, <2>1, <2>3, <2>6 DEF Free, IsFailureStep, IsPreprocessorStep, PushedStep, Clear
  <2>7. CASE ~RunsHandler(f) /\ ~Free(f)
    <3>1. ASSUME NEW c \in Children(f), ~Gone(c) PROVE Gone(c)'
      <4>1. worker.pc = "push"
        BY <1>1, <1>3, <1>17, <2>7, <3>1 DEF LossInv, WorkerClear, StartWell, AllGone, Free
      <4>2. /\ flow_status[f].module = "Failure"
            /\ row[c] \in Ended /\ job[c].step = flow_status[f].step
            /\ job[c].attempt = flow_status[f].fail_count
        BY <1>1, <1>17, <2>7, <3>1, <4>1 DEF LossInv, PushClear, AllGone
      <4>3. Attempt(f) = flow_status[f].fail_count + 1 /\ flow_status[f].fail_count \in Nat
        BY <1>0, <2>7, <4>2 DEF Attempt, Retries, RunsHandler, FlowStatus
      <4>4. PushedStep(f) = flow_status[f].step
        BY <2>7 DEF PushedStep
      <4>5. c \in Pushed /\ job[c].parent = f
        BY <1>8 DEF Children
      <4>6. q \in ChildrenAt(f, job[c].step)' /\ job'[c] = job[c] /\ row'[c] = row[c]
        BY <1>3, <1>5, <1>7, <4>2, <4>4, <4>5 DEF ChildrenAt, Children
      <4>7. job'[q].attempt > job'[c].attempt
        BY <1>5, <4>2, <4>3, <4>6
      <4>8. (\E d \in ChildrenAt(job[c].parent, job[c].step) : job[d].attempt > job[c].attempt)'
        BY <4>5, <4>6, <4>7 DEF ChildrenAt, Children
      <4>9. IsExcused(c)'
        BY <4>8, Zenon DEF IsExcused
      <4> QED BY <4>2, <4>6, <4>9 DEF Gone, Went
    <3> QED BY <1>8, <2>3, <2>4, <3>1 DEF Clear
  <2> QED BY <2>5, <2>6, <2>7
<1>18. LiveClear'
  <2>1. SUFFICES ASSUME NEW c \in Pushed', NEW p, p = job'[c].parent, p # 0, Live(c)', InQueue(p)'
                 PROVE  InSteps(p)' /\ Clear(p, c)'
    BY DEF LiveClear, InQueue, InSteps, Clear, Free, Children, IsPreprocessorStep,
           IsFailureStep, Size, Value
  <2>2. CASE c = q
    BY <1>5, <1>7, <1>17, <2>1, <2>2
  <2>3. CASE c \in Pushed
    <3>1. p = job[c].parent /\ Live(c) /\ p \in Pushed /\ InQueue(p)
      BY <1>0, <1>3, <1>7, <2>1, <2>3
    <3>2. p # f
      BY <1>1, <1>3, <2>1, <2>3, <3>1 DEF ChildInv, LiveWaited, At
    <3>3. InSteps(p) /\ Clear(p, c)
      BY <2>1, <2>3, <3>1 DEF LossInv, LiveClear
    <3>4. flow_status'[p] = flow_status[p] /\ Children(p)' = Children(p)
      BY <1>0, <1>6, <1>8, <3>1, <3>2
    <3> QED BY <3>1, <3>3, <3>4, ClearStable
  <2> QED BY <1>3, <2>2, <2>3
<1>19. ReportClear' /\ PushClear' /\ WorkerClear'
  BY <1>0, <1>3 DEF ReportClear, PushClear, WorkerClear
<1> QED BY <1>12, <1>13, <1>14, <1>15, <1>16, <1>18, <1>19 DEF LossInv

(* Every step keeps open only what is still to be decided. *)
LEMMA LossStep ==
  ASSUME NoEmptyHandlers, Base, TokenInv, ChildInv, IterInv, LossInv, [Next]_vars
  PROVE  LossInv'
<1>0. /\ TypeOK /\ row \in [Job -> {"none", "queued", "running"} \cup Ended]
      /\ \A j \in Pushed : j \in Job /\ j # 0 /\ row[j] # "none"
      /\ Idle.pc = "idle" /\ "failure" \in Ended /\ "canceled" \in Ended
      /\ "queued" \notin Ended
  BY JobFacts DEF Base, TypeOK, Ended, Idle, RangeInv
<1>r. PICK r \in Pushed : TRUE
  BY <1>0 DEF TypeOK, Job, Pushed
<1>v. /\ worker'.pc # "update" => ReportClear'
      /\ worker'.pc # "push" => PushClear'
      /\ worker'.pc \notin {"start", "preprocessed", "finish"} => WorkerClear'
  BY DEF ReportClear, PushClear, WorkerClear
<1>k. ASSUME job' = job, flow_status' = flow_status, ReportClear', PushClear', WorkerClear',
             \A k \in Pushed :
                /\ row'[k] = "success" /\ IsFlow(k) => row[k] = "success" \/ AllGone(k)
                /\ row'[k] = "queued" /\ IsFlow(k)
                     => row[k] = "queued" \/ IsPreprocessorStep(k) \/ AtStart(k)
                /\ Live(k)' => row'[k] = row[k] \/ InQueue(k)' \/ row'[k] = "canceled"
      PROVE  LossInv'
  BY <1>r, <1>k, LossKeeps
<1>c. ASSUME NEW j \in Pushed, NEW s \in Ended, Complete(j, s),
             s = "success" /\ IsFlow(j) => AllGone(j), Live(j)' => s = "canceled"
      PROVE  \A k \in Pushed :
                /\ row'[k] = "success" /\ IsFlow(k) => row[k] = "success" \/ AllGone(k)
                /\ row'[k] = "queued" /\ IsFlow(k)
                     => row[k] = "queued" \/ IsPreprocessorStep(k) \/ AtStart(k)
                /\ Live(k)' => row'[k] = row[k] \/ InQueue(k)' \/ row'[k] = "canceled"
  BY <1>0, <1>c, CompleteEffect
<1>m. \A c : Live(c)' <=> \/ InQueue(c)'
                          \/ worker'.pc \in {"start", "push", "finish", "preprocessed"} /\ worker'.flow = c
                          \/ worker'.pc = "run" /\ worker'.job = c
  BY DEF Live
<1>e. ASSUME NEW j \in Pushed, NEW s \in Ended, Complete(j, s), worker'.pc \in {"idle", "update"}
      PROVE  row'[j] = s /\ ~Live(j)'
  BY <1>0, <1>e, <1>m, CompleteEffect DEF InQueue, Ended
<1>1. ASSUME NEW f \in Pushed, PullFlow(f) PROVE LossInv'
  <2>1. /\ IsFlow(f) /\ row[f] = "queued" /\ InQueue(f) /\ job' = job /\ flow_status' = flow_status
        /\ \/ /\ row' = [row EXCEPT ![f] = "running"] /\ worker'.flow = f /\ worker'.job = 0
              /\ worker'.pc = "start" \/ (worker'.pc = "update" /\ ~worker'.success)
           \/ /\ job[f].parent # 0 /\ Complete(f, "canceled")
              /\ worker'.pc = "update" /\ worker'.flow = job[f].parent /\ worker'.job = f
              /\ ~worker'.success
    BY <1>1, PullFlowEffect DEF Rest, InQueue
  <2>2. IsPreprocessorStep(f) \/ AtStart(f)
    BY <2>1 DEF LossInv, StartWell
  <2>3. CASE /\ row' = [row EXCEPT ![f] = "running"] /\ worker'.flow = f /\ worker'.job = 0
             /\ worker'.pc = "start" \/ (worker'.pc = "update" /\ ~worker'.success)
    <3>1. /\ row'[f] = "running" /\ InQueue(f)' /\ \A k \in Pushed \ {f} : row'[k] = row[k]
      BY <1>0, <2>3 DEF InQueue
    <3>2. worker'.pc = "update" => ReportClear'
      BY <2>1, <2>2, <2>3, LossRefused
    <3>3. worker'.pc = "start" => WorkerClear'
      BY <2>1, <2>2, <2>3, ClearStable DEF WorkerClear
    <3>4. ReportClear' /\ PushClear' /\ WorkerClear'
      BY <1>v, <2>3, <3>2, <3>3
    <3> QED BY <1>k, <2>1, <3>1, <3>4
  <2>4. CASE /\ job[f].parent # 0 /\ Complete(f, "canceled")
             /\ worker'.pc = "update" /\ worker'.flow = job[f].parent /\ worker'.job = f
             /\ ~worker'.success
    BY <1>0, <1>c, <1>e, <1>k, <1>v, <2>1, <2>4, LossReports DEF Live
  <2> QED BY <2>1, <2>3, <2>4
<1>2. ASSUME NEW j \in Pushed, PullStep(j) PROVE LossInv'
  BY <1>0, <1>2, <1>k, <1>v, PullStepEffect DEF Rest, InQueue
<1>3. ASSUME NEW s \in Ended \ {"skipped"}, FinishStep(s) PROVE LossInv'
  <2>1. PICK j \in Pushed : j = worker.job
    BY <1>3, FinishStepEffect
  <2>2. /\ worker.pc = "run" /\ ~IsFlow(j) /\ worker.flow = job[j].parent /\ worker.flow \in Pushed
        /\ job' = job /\ flow_status' = flow_status
        /\ worker'.pc = "update" /\ worker'.flow = job[j].parent /\ worker'.job = j
        /\ \/ Complete(j, s) /\ worker'.success = (s = "success")
           \/ ~InQueue(j) /\ ~worker'.success /\ row' = row
    BY <1>3, <2>1, FinishStepEffect DEF Rest
  <2>3. Live(j) /\ job[j].parent # 0
    BY <1>0, <2>1, <2>2 DEF Live
  <2>4. CASE Complete(j, s) /\ worker'.success = (s = "success")
    BY <1>c, <1>e, <1>k, <1>v, <2>2, <2>3, <2>4, LossReports
  <2>5. CASE ~InQueue(j) /\ ~worker'.success /\ row' = row
    BY <1>0, <1>k, <1>v, <2>2, <2>3, <2>5, LossReports DEF InQueue
  <2> QED BY <2>2, <2>4, <2>5
<1>5. ASSUME Preprocess PROVE LossInv'
  <2>1. PICK f \in Pushed : f = worker.flow
    BY <1>5 DEF Preprocess, Base, WorkerInv
  <2>2. /\ worker.pc = "preprocessed" /\ job' = job /\ flow_status' = flow_status /\ worker' = Idle
        /\ row' = IF InQueue(f) THEN [row EXCEPT ![f] = "queued"] ELSE row
    BY <1>5, <2>1 DEF Preprocess
  <2>3. AtStart(f)
    BY <2>1, <2>2 DEF LossInv, WorkerClear
  <2>4. \A k \in Pushed : row'[k] = row[k] \/ (k = f /\ row'[k] = "queued" /\ InQueue(k)')
    BY <1>0, <2>2 DEF InQueue
  <2> QED BY <1>0, <1>k, <1>v, <2>2, <2>3, <2>4
<1>6. ASSUME UpdateFails PROVE LossInv'
  <2>1. /\ worker.pc \in {"update", "preprocessed"} /\ worker \in WorkerState
        /\ worker' = [worker EXCEPT !.pc = "update", !.success = FALSE, !.unrecoverable = TRUE]
        /\ UNCHANGED <<job, row, flow_status>>
    BY <1>0, <1>6 DEF UpdateFails, TypeOK
  <2>2. /\ worker'.pc = "update" /\ worker'.flow = worker.flow /\ worker'.job = worker.job
        /\ ~worker'.success
    BY <2>1 DEF WorkerState
  <2>3. PICK f \in Pushed : f = worker.flow
    BY <2>1 DEF Base, WorkerInv
  <2>4. /\ Pushed' = Pushed /\ InQueue(f)' = InQueue(f) /\ Children(f)' = Children(f)
        /\ InSteps(f)' = InSteps(f) /\ Free(f)' = Free(f)
        /\ AllGone(f) => AllGone(f)'
        /\ \A c \in Pushed : Matches(c, f)' = Matches(c, f)
        /\ \A d : Clear(f, d) => Clear(f, d)'
    BY <2>1, ClearStable, GoneStable DEF Pushed, InQueue
  <2>5. CASE worker.pc = "preprocessed" /\ InQueue(f)
    <3>1. IsFlow(f) /\ \A c \in Pushed : worker.job = c => c \in Children(f)
      BY <1>0, <2>3, <2>5 DEF Base, WorkerInv, Children
    <3>2. AtStart(f) /\ AllGone(f)
      BY <2>3, <2>5, <3>1 DEF LossInv, WorkerClear, StartWell
    <3>3. InSteps(f)
      BY <3>1, <3>2, ModuleFacts DEF AtStart, InSteps, Base
    <3>4. \A d : Clear(f, d)
      BY <3>2 DEF AllGone, Clear
    <3>5. \A c \in Children(f) : row[c] \in Ended
      BY <3>2 DEF AllGone, Gone
    <3>6. ReportClear'
      BY <2>1, <2>2, <2>3, <2>4, <3>1, <3>2, <3>3, <3>4, <3>5 DEF ReportClear
    <3> QED BY <1>k, <1>v, <2>1, <2>2, <3>6
  <2>6. CASE worker.pc = "preprocessed" /\ ~InQueue(f)
    BY <1>k, <1>v, <2>1, <2>2, <2>3, <2>4, <2>6 DEF ReportClear
  <2>7. CASE worker.pc = "update"
    <3>1. ReportClear'
      BY <2>1, <2>2, <2>3, <2>4, <2>7, ZenonT(30) DEF LossInv, ReportClear
    <3> QED BY <1>k, <1>v, <2>1, <2>2, <3>1
  <2> QED BY <2>1, <2>5, <2>6, <2>7
<1>t. ASSUME NEW f \in Pushed, IsFlow(f), Live(f), job' = job, flow_status' = flow_status,
             ReportsTo(f), row'[f] \in Ended,
             job[f].parent # 0 => (worker'.success => row'[f] # "failure" \/ f \in broken')
      PROVE  ReportClear' /\ PushClear' /\ WorkerClear' /\ worker'.pc \in {"idle", "update"}
  <2>1. CASE job[f].parent = 0
    BY <1>0, <1>t, <1>v, <2>1 DEF ReportsTo
  <2>2. CASE job[f].parent # 0
    BY <1>t, <1>v, <2>2, LossReports DEF ReportsTo
  <2> QED BY <2>1, <2>2
<1>7. ASSUME NEW recover \in BOOLEAN, FinishFlow(recover) PROVE LossInv'
  <2>1. PICK f \in Pushed : f = worker.flow
    BY <1>7, FinishFlowEffect
  <2>2. /\ worker.pc = "finish" /\ IsFlow(f) /\ job' = job /\ flow_status' = flow_status
        /\ \/ /\ InQueue(f) /\ ReportsTo(f)
              /\ \E s \in Ended : /\ Complete(f, s) /\ (s = "success" => worker.success)
                                  /\ job[f].parent # 0 => (worker'.success => s # "failure")
           \/ worker' = Idle /\ row' = row
    BY <1>7, <2>1, FinishFlowEffect DEF Rest
  <2>3. CASE worker' = Idle /\ row' = row
    BY <1>0, <1>k, <1>v, <2>2, <2>3
  <2>4. CASE /\ InQueue(f) /\ ReportsTo(f)
             /\ \E s \in Ended : /\ Complete(f, s) /\ (s = "success" => worker.success)
                                 /\ job[f].parent # 0 => (worker'.success => s # "failure")
    <3>1. PICK s \in Ended : /\ Complete(f, s) /\ (s = "success" => worker.success)
                             /\ job[f].parent # 0 => (worker'.success => s # "failure")
      BY <2>4
    <3>2. row'[f] = s
      BY <1>0, <3>1, CompleteEffect
    <3>3. Live(f)
      BY <2>1, <2>2 DEF Live
    <3>4. ReportClear' /\ PushClear' /\ WorkerClear' /\ worker'.pc \in {"idle", "update"}
      BY <1>t, <2>2, <2>4, <3>1, <3>2, <3>3
    <3>5. s = "success" => AllGone(f)
      BY <2>1, <2>2, <2>4, <3>1 DEF LossInv, WorkerClear
    <3>6. ~Live(f)'
      BY <1>e, <3>1, <3>4
    <3> QED BY <1>c, <1>k, <2>2, <3>1, <3>4, <3>5, <3>6
  <2> QED BY <2>2, <2>3, <2>4
<1>10. ASSUME PushFails PROVE LossInv'
  <2>1. PICK f \in Pushed : f = worker.flow
    BY <1>10, PushFailsEffect
  <2>2. /\ worker.pc \in {"start", "push"} /\ IsFlow(f) /\ job' = job /\ flow_status' = flow_status
        /\ \/ /\ worker.pc = "start" /\ worker'.flow = f /\ worker'.job = 0
              /\ worker'.pc = "update" /\ ~worker'.success
              /\ row' = [row EXCEPT ![f] = IF InQueue(f) THEN "running" ELSE row[f]]
           \/ /\ ReportsTo(f)
              /\ Complete(f, "failure") \/ (~InQueue(f) /\ row' = row)
              /\ job[f].parent # 0 => ~worker'.success \/ f \in broken'
    BY <1>10, <2>1, PushFailsEffect
  <2>3. CASE /\ worker.pc = "start" /\ worker'.flow = f /\ worker'.job = 0
             /\ worker'.pc = "update" /\ ~worker'.success
             /\ row' = [row EXCEPT ![f] = IF InQueue(f) THEN "running" ELSE row[f]]
    BY <1>0, <1>k, <1>v, <2>1, <2>2, <2>3, LossRefused DEF LossInv, WorkerClear, InQueue
  <2>4. CASE /\ ReportsTo(f)
             /\ Complete(f, "failure") \/ (~InQueue(f) /\ row' = row)
             /\ job[f].parent # 0 => ~worker'.success \/ f \in broken'
    <3>1. Live(f)
      BY <2>1, <2>2 DEF Live
    <3>2. CASE Complete(f, "failure")
      BY <1>0, <1>c, <1>e, <1>k, <1>t, <2>2, <2>4, <3>1, <3>2, CompleteEffect
    <3>3. CASE ~InQueue(f) /\ row' = row
      BY <1>0, <1>k, <1>t, <2>2, <2>4, <3>1, <3>3 DEF InQueue
    <3> QED BY <2>4, <3>2, <3>3
  <2> QED BY <2>2, <2>3, <2>4
<1>w. ASSUME UNCHANGED <<job, flow_status, worker>> PROVE ReportClear' /\ PushClear' /\ WorkerClear'
  BY <1>w, LossSame
<1>11. ASSUME NEW j \in Pushed, KillJob(j) PROVE LossInv'
  BY <1>0, <1>c, <1>k, <1>w, <1>11 DEF KillJob
<1>12. ASSUME NEW j \in Pushed, RestartStep(j) PROVE LossInv'
  BY <1>0, <1>k, <1>w, <1>12 DEF RestartStep, InQueue
<1>13. ASSUME NEW f \in Pushed, HandleZombieFlow(f) PROVE LossInv'
  BY <1>0, <1>k, <1>w, <1>13 DEF HandleZombieFlow, AtStart, InQueue
<1>14. ASSUME \/ \E j \in Pushed : PingExpires(j) \/ Cancel(j)
              \/ CrashServer \/ UNCHANGED vars
       PROVE  LossInv'
  BY <1>k, <1>w, <1>14 DEF PingExpires, Cancel, CrashServer, vars
<1>15. ASSUME Crash PROVE LossInv'
  BY <1>0, <1>k, <1>v, <1>15 DEF Crash
<1> QED BY <1>1, <1>2, <1>3, <1>5, <1>6, <1>7, <1>10, <1>11, <1>12, <1>13, <1>14, <1>15,
           LossUpdate, LossEmpty, LossPush DEF Next, WorkerStep, MonitorStep

(* Initially there is nothing to lose. *)
LEMMA LossInit ==
  ASSUME Init
  PROVE  LossInv
<1>1. PICK n \in Roots : job = <<JobOf(n, 0, 0, 0, 0, 0)>>
  BY DEF Init
<1>2. Pushed = {1} /\ job[1].parent = 0 /\ job[1].flow = n /\ Children(1) = {}
  BY <1>1 DEF Pushed, JobOf, Children
<1>3. /\ worker.pc = "idle" /\ row[1] = "queued"
      /\ flow_status[1] = NewStatus(1 = Root /\ Value(1).preprocessor)
  BY NestedFlowAssumption DEF Job, Init, Idle, Root, Value
<1>4. /\ IsPreprocessorStep(1) => Value(1).preprocessor
      /\ IsPreprocessorStep(1) \/ AtStart(1)
  BY <1>3 DEF NewStatus, IsPreprocessorStep, PreprocessorStep, AtStart
<1>5. EndedWell /\ StartWell /\ Preprocessors
  BY <1>2, <1>3, <1>4 DEF EndedWell, StartWell, Preprocessors, AllGone
<1>6. OuterScripts /\ LiveRows /\ LiveClear
  BY <1>2, <1>3 DEF OuterScripts, LiveRows, LiveClear, Live, InQueue
<1>7. ReportClear /\ PushClear /\ WorkerClear
  BY <1>3 DEF ReportClear, PushClear, WorkerClear
<1> QED BY <1>5, <1>6, <1>7 DEF LossInv

(* A flow ends as a success only if each of its jobs has succeeded, or its failure was skipped,   *)
(* continued after, tried again, or recovered from by the failure module: whatever dies, fails or *)
(* is cancelled, and however flows, loops and branches are nested (for flows that have modules,   *)
(* or not both a preprocessor and a failure module).                                              *)
THEOREM NoFailureLost ==
  ASSUME NoEmptyHandlers
  PROVE  Spec => []NoFailureIsLost
<1>1. Init => LossInv
  BY LossInit
<1>2. LossInv /\ Base /\ TokenInv /\ ChildInv /\ IterInv /\ [Next]_vars => LossInv'
  BY LossStep
<1>3. LossInv => NoFailureIsLost
  BY DEF LossInv, EndedWell, AllGone, Gone, NoFailureIsLost
<1> QED BY <1>1, <1>2, <1>3, IterationInvariant, PTL DEF Spec
-----------------------------------------------------------------------------
(* Nothing is skipped.                                                     *)

\* Every module before the one that the status points at, or every module, has been gone
\* through, unless the flow was stopped or has come to its failure module.
Passed(f) ==
    \/ f \in Stopped \/ ChildrenAt(f, Size(f)) # {}
    \/ \A i \in 0 .. Size(f) - 1 : i < flow_status[f].step => IsThrough(f, i)
AllThrough(f) ==
    \/ f \in Stopped \/ ChildrenAt(f, Size(f)) # {}
    \/ \A i \in 0 .. Size(f) - 1 : IsThrough(f, i)

\* Branches and iterations are in progress, unless the module is skipped.
Fits(c) ==
    \/ job[c].flow = "identity" \/ ModuleOf(c).kind \in {"script", "flow"}
    \/ InProgress(job[c].parent)

\* Only the flow that is run has no flow above it, and a loop over items has items.
Rooted == \A j \in Pushed : job[j].parent = 0 => j = Root
ItemsCounted ==
    \A c \in Pushed :
        job[c].parent # 0 /\ ModuleOf(c).kind = "forloopflow" /\ job[c].flow # "identity"
            => job[c].len > 0

EndedThrough ==
    \A f \in Pushed : IsFlow(f) /\ row[f] = "success" => AllThrough(f) /\ ~IsPreprocessorStep(f)

LiveThrough ==
    \A c, p \in Pushed : job[c].parent = p /\ Live(c) /\ InQueue(p) => Passed(p) /\ Fits(c)

\* The worker goes on past a module that has been gone through.
WorkThrough ==
    \A f \in Pushed : worker.flow = f /\ InQueue(f) =>
        /\ worker.pc \in {"update", "push"} => Passed(f)
        /\ worker.pc = "finish" /\ worker.success =>
              (f \in canceled \/ AllThrough(f)) /\ ~IsPreprocessorStep(f)

\* The worker has a stop that a predicate has asked for, and a report of a step has none.
StopKnown ==
    /\ \A f \in Pushed : worker.pc \in {"push", "finish"} /\ worker.flow = f
                          /\ worker.stop # "none" => f \in Stopped
    /\ worker.pc \in {"run", "start", "preprocessed"} => worker.stop = "none"
    /\ worker.pc = "update" /\ worker.stop # "none" =>
          /\ worker.stop # "error" /\ worker.job # 0
          /\ \A c \in Pushed : worker.job = c =>
               /\ c \in Stopped /\ IsFlow(c)
               /\ InQueue(worker.flow) => Matches(c, worker.flow)

\* What a report is about: an empty module, a flow that could not be started, or a job
\* that the status points at, whose failure is one.
ReportKnown ==
    worker.pc = "update" => \A f \in Pushed : worker.flow = f =>
        /\ worker.job = 0 /\ InQueue(f) =>
              IF worker.success
                THEN Size(f) = 0 \/ (IsEmpty(f, flow_status[f].step) /\ ~Free(f))
                ELSE \/ worker.unrecoverable \/ f \in canceled \/ IsPreprocessorStep(f)
                     \/ f = Root /\ AtStart(f) /\ faults > 0
        /\ InQueue(f) /\ IsFailureStep(f) => ChildrenAt(f, Size(f)) # {}
        /\ \A c \in Pushed : worker.job = c =>
              /\ InQueue(f) => /\ worker.unrecoverable \/ Matches(c, f)
                               /\ Matches(c, f) => Fits(c)
              /\ worker.success \/ worker.unrecoverable \/ ReportsFailure(c) \/ worker.stop # "none"

HandlerKnown ==
    \A f \in Pushed : worker.pc = "finish" /\ worker.flow = f /\ worker.handler =>
        Size(f) > 0 /\ ChildrenAt(f, Size(f)) # {}
FreshWorker == worker.pc \in {"run", "start"} => ~worker.unrecoverable /\ ~worker.triggered

\* Without a death the flow leaves its preprocessor only through it or to its failure module.
PreprocessKnown ==
    Value(Root).preprocessor /\ ~IsPreprocessorStep(Root) /\ faults = 0 =>
        \/ <<Root, PreprocessorStep, "preprocessed">> \in history
        \/ worker.pc = "preprocessed" /\ worker.flow = Root
        \/ ChildrenAt(Root, Size(Root)) # {}

SkipInv ==
    /\ Rooted /\ ItemsCounted /\ EndedThrough /\ LiveThrough /\ WorkThrough /\ StopKnown
    /\ ReportKnown /\ HandlerKnown /\ FreshWorker /\ PreprocessKnown

(* A set of natural numbers has a least element. *)
LEMMA LeastExists ==
  ASSUME NEW S \in SUBSET Nat, S # {}
  PROVE  \E x \in S : \A y \in S : x <= y
<1>1. PICK x \in S : \A y \in S : ~(<<y, x>> \in OpToRel(<, Nat))
  BY WFMin, NatLessThanWellFounded
<1>2. \A y \in S : ~(y < x)
  BY <1>1, Zenon DEF OpToRel
<1> QED BY <1>2

(* Induction over the jobs, from those that were pushed last: what is true of a job if it is true *)
(* of a later one is true of all.                                                                 *)
LEMMA FromLater ==
  ASSUME NEW m \in Nat, NEW X \in SUBSET (0 .. m), NEW Y,
         \A f \in X : f \in Y \/ \E c \in X : c > f /\ (c \in Y => f \in Y)
  PROVE  X \subseteq Y
<1>1. SUFFICES ASSUME X \ Y # {} PROVE FALSE
  OBVIOUS
<1> DEFINE T == {m - x : x \in X \ Y}
<1>2. T \in SUBSET Nat /\ T # {}
  <2>1. \A x \in X \ Y : m - x \in Nat
    OBVIOUS
  <2>2. T \subseteq Nat
    BY <2>1
  <2>3. PICK x \in X \ Y : TRUE
    BY <1>1
  <2>4. m - x \in T
    OBVIOUS
  <2> QED BY <2>2, <2>4
<1>a. \A y \in X \ Y : m - y \in T
  OBVIOUS
<1>b. \A u \in T : \E f \in X \ Y : u = m - f
  OBVIOUS
<1> HIDE DEF T
<1>3. PICK u \in T : \A v \in T : u <= v
  BY <1>2, LeastExists
<1>4. PICK f \in X \ Y : u = m - f
  BY <1>b
<1>5. \A y \in X \ Y : m - f <= m - y
  BY <1>3, <1>4, <1>a
<1>6. PICK c \in X : c > f /\ (c \in Y => f \in Y)
  BY <1>4
<1>7. c \in X \ Y
  BY <1>4, <1>6
<1> QED BY <1>4, <1>5, <1>6, <1>7

(* What passes on from below is true of the flows where it begins, and of those with a job that   *)
(* passes it on.                                                                                  *)
LEMMA BelowFix ==
  ASSUME NEW base, NEW passing
  PROVE  LET S == FromBelow(base, passing) IN
         \A f : f \in S <=> /\ f \in Pushed
                            /\ f \in base \/ \E c \in Children(f) \cap passing : c \in S
<1> DEFINE Closed(T) == \A f \in Pushed :
             (f \in base \/ \E c \in Children(f) \cap passing : c \in T) => f \in T
           L == {f \in Pushed : \A T \in SUBSET Pushed : Closed(T) => f \in T}
           G == [f \in Pushed |-> f \in L]
           up == CHOOSE g : g = [f \in Pushed |->
                                   f \in base \/ \E c \in Children(f) \cap passing : g[c]]
<1>1. \A f : Children(f) \subseteq Pushed
  BY DEF Children
<1>2. \A f \in Pushed : f \in base \/ (\E c \in Children(f) \cap passing : c \in L) => f \in L
  <2>1. SUFFICES ASSUME NEW f \in Pushed, NEW T \in SUBSET Pushed, Closed(T),
                        f \in base \/ \E c \in Children(f) \cap passing : c \in L
                 PROVE  f \in T
    OBVIOUS
  <2>2. f \in base \/ \E c \in Children(f) \cap passing : c \in T
    BY <2>1
  <2> QED BY <2>1, <2>2
<1>3. \A f \in L : f \in base \/ \E c \in Children(f) \cap passing : c \in L
  <2>1. SUFFICES ASSUME NEW f \in L, f \notin base, \A c \in Children(f) \cap passing : c \notin L
                 PROVE  FALSE
    OBVIOUS
  <2>2. L \ {f} \in SUBSET Pushed
    OBVIOUS
  <2>3. Closed(L \ {f})
    <3>1. SUFFICES ASSUME NEW g \in Pushed,
                          g \in base \/ \E c \in Children(g) \cap passing : c \in L \ {f}
                   PROVE  g \in L \ {f}
      OBVIOUS
    <3>2. g \in L
      BY <1>2, <3>1
    <3>3. g # f
      BY <2>1, <3>1
    <3> QED BY <3>2, <3>3
  <2> QED BY <2>2, <2>3
<1> HIDE DEF L
<1>4. L \subseteq Pushed
  BY DEF L
<1>5. G = [f \in Pushed |-> f \in base \/ \E c \in Children(f) \cap passing : G[c]]
  <2>1. \A c \in Pushed : G[c] = (c \in L)
    BY Zenon
  <2>2. \A f \in Pushed : (\E c \in Children(f) \cap passing : G[c])
                          = (\E c \in Children(f) \cap passing : c \in L)
    BY <1>1, <2>1, Zenon
  <2>3. ASSUME NEW f \in Pushed
        PROVE  (f \in L) = (f \in base \/ \E c \in Children(f) \cap passing : c \in L)
    BY <1>2, <1>3
  <2>4. \A f \in Pushed : (f \in L) = (f \in base \/ \E c \in Children(f) \cap passing : G[c])
    BY <2>2, <2>3, Zenon
  <2> QED BY <2>4, Zenon
<1>6. up = [f \in Pushed |-> f \in base \/ \E c \in Children(f) \cap passing : up[c]]
  BY <1>5, Zenon
<1> HIDE DEF up
<1>7. FromBelow(base, passing) = {f \in Pushed : up[f]}
  BY Zenon DEF FromBelow, up
<1>8. \A f \in Pushed : up[f] <=> f \in base \/ \E c \in Children(f) \cap passing : up[c]
  BY <1>6, Zenon
<1> QED BY <1>1, <1>7, <1>8, Zenon

\* S is what passes on from base.
BelowIs(S, base, passing) ==
    \A f : f \in S <=> /\ f \in Pushed
                       /\ f \in base \/ \E c \in Children(f) \cap passing : c \in S

(* Where a stop was noted, and what passes it on. *)
LEMMA StoppedFix == BelowIs(Stopped, StopsNoted(Stops \ {"none"}), Branches)
  BY BelowFix DEF BelowIs, Stopped

(* The same after a step. *)
LEMMA StoppedFixNext == BelowIs(Stopped, StopsNoted(Stops \ {"none"}), Branches)'
  BY StoppedFix, PTL

(* What passes on from below stays where it is, as long as the flows where it begins and the jobs *)
(* that pass it on stay.                                                                          *)
LEMMA BelowGrows ==
  ASSUME Base, TokenInv, [Next]_vars, NEW S, NEW S2, NEW base, NEW base2, NEW pass, NEW pass2,
         BelowIs(S, base, pass), BelowIs(S2, base2, pass2)',
         base \subseteq base2, pass \subseteq pass2
  PROVE  S \subseteq S2
<1>0. \A f : f \in S2 <=> /\ f \in Pushed'
                          /\ f \in base2 \/ \E c \in Children(f)' \cap pass2 : c \in S2
  BY DEF BelowIs
<1>1. Pushed \subseteq Pushed' /\ \A j \in Pushed : job'[j] = job[j]
  BY Stable
<1>2. Pushed = 1 .. Len(job) /\ Len(job) \in Nat
  BY JobFacts DEF Base, TypeOK, Pushed
<1>3. \A f : S \subseteq Pushed /\ Children(f) \subseteq Children(f)'
  BY <1>1 DEF BelowIs, Children
<1>4. \A f \in Pushed : \A c \in Children(f) : c \in Pushed /\ c > f
  BY JobFacts DEF Children, Base
<1>5. ASSUME NEW f \in S PROVE f \in S2 \/ \E c \in S : c > f /\ (c \in S2 => f \in S2)
  <2>1. f \in Pushed /\ (f \in base \/ \E c \in Children(f) \cap pass : c \in S)
    BY <1>5 DEF BelowIs
  <2>2. CASE f \in base
    BY <1>0, <1>1, <2>1, <2>2
  <2>3. ASSUME NEW c \in Children(f) \cap pass, c \in S
        PROVE  \E d \in S : d > f /\ (d \in S2 => f \in S2)
    BY <1>0, <1>1, <1>3, <1>4, <2>1, <2>3
  <2> QED BY <2>1, <2>2, <2>3
<1>6. S \in SUBSET (0 .. Len(job))
  BY <1>2, <1>3
<1> QED BY <1>2, <1>5, <1>6, FromLater

(* A branch or an iteration stays one, and a predicate that has stopped a flow stays noted. *)
LEMMA StoppedGrows ==
  ASSUME Base, TokenInv, [Next]_vars
  PROVE  /\ InlineJobs \subseteq InlineJobs' /\ Branches \subseteq Branches'
         /\ \A stops : StopsNoted(stops) \subseteq StopsNoted(stops)'
         /\ Stopped \subseteq Stopped'
         /\ \A c \in Pushed : job[c].parent # 0 => ModuleOf(c)' = ModuleOf(c)
<1>1. /\ Pushed \subseteq Pushed' /\ \A j \in Pushed : job'[j] = job[j]
      /\ history \subseteq history'
  BY Stable
<1>2. ASSUME NEW c \in Pushed, job[c].parent # 0 PROVE ModuleOf(c)' = ModuleOf(c)
  <2>1. PICK p : p = job[c].parent
    OBVIOUS
  <2>2. PICK i : i = job[c].step
    OBVIOUS
  <2>3. p \in Pushed
    BY <1>2, <2>1, JobFacts DEF Base
  <2>4. ModuleAt(p, i)' = ModuleAt(p, i)
    BY <1>1, <2>3, SameFlow
  <2> QED BY <1>1, <2>1, <2>2, <2>4 DEF ModuleOf, ModuleAt, Size, Value
<1>3. InlineJobs \subseteq InlineJobs'
  <2>1. SUFFICES ASSUME NEW c \in Pushed, IsFlow(c), job[c].parent # 0, ModuleOf(c).kind # "flow"
                 PROVE  c \in InlineJobs'
    BY DEF InlineJobs, IsInline
  <2>2. c \in Pushed' /\ IsFlow(c)' /\ job'[c].parent # 0 /\ ModuleOf(c)'.kind # "flow"
    BY <1>1, <1>2, <2>1, SameFlow
  <2> QED BY <2>2 DEF InlineJobs, IsInline
<1>4. Branches \subseteq Branches'
  BY <1>2, <1>3 DEF InlineJobs, IsInline, Branches
<1>5. \A stops : StopsNoted(stops) \subseteq StopsNoted(stops)'
  BY <1>1 DEF StopsNoted
<1>6. Stopped \subseteq Stopped'
  <2>2. PICK S, S2, base, base2, pass, pass2 :
          /\ S = Stopped /\ S2 = Stopped' /\ pass = Branches /\ pass2 = Branches'
          /\ base = StopsNoted(Stops \ {"none"}) /\ base2 = StopsNoted(Stops \ {"none"})'
    OBVIOUS
  <2>3. BelowIs(S, base, pass) /\ base \subseteq base2 /\ pass \subseteq pass2
    BY <1>4, <1>5, <2>2, StoppedFix
  <2>4. BelowIs(S2, base2, pass2)'
    BY <2>2, StoppedFixNext DEF BelowIs
  <2>5. S \subseteq S2
    BY <2>3, <2>4, BelowGrows
  <2> QED BY <2>2, <2>5
<1> QED BY <1>2, <1>3, <1>4, <1>5, <1>6

(* Faults are counted, and the counter is a number. *)
LEMMA FaultsGrow ==
  ASSUME Base, [Next]_vars
  PROVE  faults \in Nat /\ faults' \in Nat /\ faults <= faults'
<1>1. faults \in Nat
  BY NestedFlowAssumption DEF Base, TypeOK
<1>2. faults' = faults \/ faults' = faults + 1
  BY DEF Next, WorkerStep, MonitorStep, PullFlow, PullStep, FinishStep, UpdateStatus, Preprocess,
         FinishFlow, PushEmpty, PushNext, PushFails, KillJob, RestartStep, PingExpires,
         HandleZombieFlow, UpdateFails, Cancel, Crash, CrashServer, vars
<1> QED BY <1>1, <1>2

(* A module that has been gone through stays so. *)
LEMMA ThroughStable ==
  ASSUME Base, TokenInv, [Next]_vars, NEW f \in Pushed, IsFlow(f)
  PROVE  /\ \A i \in Int : IsThrough(f, i) => IsThrough(f, i)'
         /\ AllThrough(f) => AllThrough(f)'
         /\ Passed(f) /\ flow_status'[f].step = flow_status[f].step => Passed(f)'
         /\ \A i : ChildrenAt(f, i) \subseteq ChildrenAt(f, i)'
<1>1. /\ Pushed \subseteq Pushed' /\ \A j \in Pushed : job'[j] = job[j]
      /\ history \subseteq history' /\ broken \subseteq broken'
      /\ \A c \in Pushed : row[c] \in Ended => row'[c] = row[c]
      /\ {"failure", "canceled"} \subseteq Ended
  BY Stable DEF Ended
<1>2. /\ Size(f)' = Size(f) /\ \A i : ModuleAt(f, i)' = ModuleAt(f, i)
      /\ Size(f) \in Nat /\ \A i \in Int : ModuleAt(f, i).kind \in Kinds
  BY <1>1, SameFlow, ModuleFacts DEF Base, Module
<1>3. \A g, i : ChildrenAt(g, i) \subseteq ChildrenAt(g, i)' /\ ChildrenAt(g, i) \subseteq Pushed
  BY <1>1 DEF ChildrenAt, Children
<1>4. ASSUME NEW c \in Pushed, ReportsFailure(c) PROVE ReportsFailure(c)'
  <2>1. CASE row[c] \in {"failure", "canceled"}
    BY <1>1, <2>1 DEF ReportsFailure
  <2>2. CASE IsFlow(c) /\ Size(c) > 0 /\ ChildrenAt(c, Size(c)) # {}
    <3>1. PICK z : z = Size(c)
      OBVIOUS
    <3>2. IsFlow(c)' /\ Size(c)' = z
      BY <1>1, <2>2, <3>1, SameFlow
    <3>3. ChildrenAt(c, z)' # {}
      BY <1>3, <2>2, <3>1
    <3>4. ChildrenAt(c, Size(c))' # {}
      BY <3>2, <3>3 DEF ChildrenAt
    <3> QED BY <2>2, <3>1, <3>2, <3>4 DEF ReportsFailure
  <2> QED BY <1>4, <2>1, <2>2 DEF ReportsFailure
<1>5. \A i : (IsEmpty(f, i) => IsEmpty(f, i)') /\ (IsBroken(f, i) => IsBroken(f, i)')
  BY <1>1, <1>3, StoppedGrows DEF IsEmpty, IsBroken
<1>6. faults > 0 => faults' > 0
  BY FaultsGrow
<1>7. ASSUME NEW i \in Int, IsThrough(f, i) PROVE IsThrough(f, i)'
  <2>1. PICK m : m = ModuleAt(f, i) /\ m = ModuleAt(f, i)'
    BY <1>2
  <2>2. PICK cs : cs = ChildrenAt(f, i) /\ cs \subseteq Pushed
    BY <1>3
  <2>3. PICK ds : ds = ChildrenAt(f, i)' /\ cs \subseteq ds
    BY <1>3, <2>2
  <2> DEFINE Failed == /\ m.continue_on_error
                       /\ (\E c \in cs : ReportsFailure(c)) \/ (f = Root /\ i = 0 /\ faults > 0)
             Done == CASE m.kind \in {"script", "flow", "branchone"} -> cs # {}
                       [] m.kind = "branchall" -> \A b \in 1 .. Len(m.inner) :
                                                    \E c \in cs : job[c].iter = b - 1
                       [] m.kind = "forloopflow" -> \/ IsBroken(f, i)
                                                    \/ \E c \in cs : job[c].iter = job[c].len - 1
                       [] m.kind = "whileloopflow" -> IsBroken(f, i)
             Failed2 == /\ m.continue_on_error
                        /\ (\E c \in ds : ReportsFailure(c)') \/ (f = Root /\ i = 0 /\ faults' > 0)
             Done2 == CASE m.kind \in {"script", "flow", "branchone"} -> ds # {}
                       [] m.kind = "branchall" -> \A b \in 1 .. Len(m.inner) :
                                                    \E c \in ds : job'[c].iter = b - 1
                       [] m.kind = "forloopflow" -> \/ IsBroken(f, i)'
                                                    \/ \E c \in ds : job'[c].iter = job'[c].len - 1
                       [] m.kind = "whileloopflow" -> IsBroken(f, i)'
  <2>4. IsEmpty(f, i) \/ Failed \/ (\E c \in cs : job[c].flow = "identity") \/ Done
    BY <1>7, <2>1, <2>2, Zenon DEF IsThrough
  <2>5. Failed => Failed2
    BY <1>4, <1>6, <2>2, <2>3
  <2>6. (\E c \in cs : job[c].flow = "identity") => \E c \in ds : job'[c].flow = "identity"
    BY <1>1, <2>2, <2>3
  <2>7. Done => Done2
    <3>1. m.kind \in Kinds
      BY <1>2, <2>1
    <3>2. CASE m.kind \in {"script", "flow", "branchone"}
      BY <2>3, <3>2
    <3>3. CASE m.kind = "branchall"
      BY <1>1, <2>2, <2>3, <3>3
    <3>4. CASE m.kind = "forloopflow"
      BY <1>1, <1>5, <2>2, <2>3, <3>4
    <3>5. CASE m.kind = "whileloopflow"
      BY <1>5, <3>5
    <3> QED BY <3>1, <3>2, <3>3, <3>4, <3>5 DEF Kinds
  <2>8. IsEmpty(f, i)' \/ Failed2 \/ (\E c \in ds : job'[c].flow = "identity") \/ Done2
    BY <1>5, <2>4, <2>5, <2>6, <2>7
  <2> QED BY <2>1, <2>3, <2>8, Zenon DEF IsThrough, Root
<1>8. /\ f \in Stopped => f \in Stopped'
      /\ ChildrenAt(f, Size(f)) # {} => ChildrenAt(f, Size(f))' # {}
  BY <1>2, <1>3, StoppedGrows DEF ChildrenAt
<1>9. 0 .. Size(f) - 1 \subseteq Int
  BY <1>2
<1>10. AllThrough(f) => AllThrough(f)'
  BY <1>2, <1>7, <1>8, <1>9 DEF AllThrough
<1>11. Passed(f) /\ flow_status'[f].step = flow_status[f].step => Passed(f)'
  BY <1>2, <1>7, <1>8, <1>9 DEF Passed
<1> QED BY <1>3, <1>7, <1>10, <1>11

(* Before an iteration or branch of a module there were all those below its index. *)
LEMMA AllBefore ==
  ASSUME Base, OrderInv, NEW f, NEW i, NEW c \in ChildrenAt(f, i)
  PROVE  \A b \in 0 .. job[c].iter : \E d \in ChildrenAt(f, i) : job[d].iter = b
<1> DEFINE X == 0 .. job[c].iter
           Y == {b \in Nat : \E d \in ChildrenAt(f, i) : job[d].iter = b}
<1>1. \A d \in ChildrenAt(f, i) : d \in Pushed /\ job[d].parent = f /\ job[d].step = i
  BY DEF ChildrenAt, Children
<1>2. \A d \in ChildrenAt(f, i) : job[d].iter \in Nat
  BY <1>1, JobFacts DEF Base, JobRecord
<1>3. ASSUME NEW b \in X PROVE b \in Y \/ \E e \in X : e > b /\ (e \in Y => b \in Y)
  <2>1. CASE b = job[c].iter
    BY <1>2, <2>1
  <2>2. CASE b # job[c].iter
    <3>1. b + 1 \in X /\ b + 1 > b /\ b \in Nat
      BY <1>2, <2>2
    <3>2. ASSUME NEW d \in ChildrenAt(f, i), job[d].iter = b + 1 PROVE b \in Y
      BY <1>1, <3>1, <3>2 DEF OrderInv, IterationsInOrder
    <3> QED BY <3>1, <3>2
  <2> QED BY <2>1, <2>2
<1>4. job[c].iter \in Nat /\ X \in SUBSET (0 .. job[c].iter)
  BY <1>2
<1>5. \A b \in X : b \in Y \/ \E e \in X : e > b /\ (e \in Y => b \in Y)
  BY <1>3
<1> HIDE DEF X, Y
<1>6. X \subseteq Y
  BY <1>4, <1>5, FromLater
<1> QED BY <1>6 DEF X, Y

(* A loop or a branch is in progress once one of its jobs is pushed, and a loop over items has an *)
(* item.                                                                                          *)
LEMMA NextKinds ==
  ASSUME Base, NEW f \in Pushed, IsFlow(f), f = worker.flow, worker.pc \in {"start", "push"},
         NEW n \in NextFlowTransform(f), n # EmptyInnerFlows, n.flow # "identity"
  PROVE  /\ ~RunsHandler(f) /\ Current(f).kind \notin {"script", "flow"} => n.module = "InProgress"
         /\ ~RunsHandler(f) /\ Current(f).kind = "forloopflow" => n.len > 0
<1>1. Current(f) \in Module
  BY ModuleFacts DEF Base
<1>2. n.len \in Nat
  BY NextFacts
<1>3. SUFFICES ASSUME ~RunsHandler(f), Current(f).kind \notin {"script", "flow"}
               PROVE  n.module = "InProgress" /\ (Current(f).kind = "forloopflow" => n.len > 0)
  OBVIOUS
<1>4. PICK m : m = Current(f)
  OBVIOUS
<1>5. n \in (IF m.skip_if THEN {NextOf("identity", "WaitingForExecutor", 0, 0)} ELSE {}) \cup
             CASE m.kind = "script" -> {NextOf("script", "WaitingForExecutor", 0, 0)}
               [] m.kind = "flow" -> {NextOf(m.inner[1], "WaitingForExecutor", 0, 0)}
               [] m.kind \in {"branchone", "branchall"} -> NextBranch(f, m)
               [] m.kind \in Loops -> NextIteration(f, m)
  BY <1>3, <1>4 DEF NextFlowTransform
<1>6. n # NextOf("identity", "WaitingForExecutor", 0, 0)
  BY DEF NextOf
<1>7. m.kind \in {"branchone", "branchall"} \cup Loops
  BY <1>1, <1>3, <1>4 DEF Module, Kinds, Loops
<1>8. CASE m.kind = "branchone"
  BY <1>4, <1>5, <1>6, <1>8 DEF Loops, NextBranch, InnerFlow, NextOf
<1>9. CASE m.kind = "branchall"
  BY <1>4, <1>5, <1>6, <1>9 DEF Loops, NextBranch, NextOf
<1>10. CASE m.kind = "whileloopflow"
  BY <1>4, <1>5, <1>6, <1>10 DEF Loops, NextIteration, InnerFlow, NextOf
<1>11. CASE m.kind = "forloopflow"
  <2>1. n \in NextIteration(f, m)
    BY <1>5, <1>6, <1>11 DEF Loops
  <2>2. PICK k \in ItemCounts(f) :
          n = IF k = 0 THEN EmptyInnerFlows ELSE InnerFlow(m.inner[1], NextIndex(f), k)
    BY <1>11, <2>1 DEF NextIteration
  <2>3. k # 0 /\ n = NextOf(m.inner[1], "InProgress", NextIndex(f), k)
    BY <2>2 DEF InnerFlow
  <2>4. n.module = "InProgress" /\ n.len = k
    BY <2>3 DEF NextOf
  <2> QED BY <1>2, <2>3, <2>4
<1> QED BY <1>7, <1>8, <1>9, <1>10, <1>11 DEF Loops

\* What a report leads to: a step of a loop or of branches, or the end of the module.
GoesOnFrom(f) ==
    /\ InQueue(f) /\ GoesOn(worker, "none") /\ "none" \in StopEarly(worker)
    /\ GoOn(worker, worker.success, "none", FALSE)
    /\ UNCHANGED <<flow_status, history>>

EndsModule(f, stop, s) ==
    /\ InQueue(f) /\ stop \in StopEarly(worker) /\ ~GoesOn(worker, stop)
    /\ s \in StopAtEnd(worker, stop) /\ stop \in Stops /\ s \in Stops
    /\ EndModule(worker, s)
    /\ IF IsPreprocessorStep(f) /\ Succeeds(worker, s)
         THEN worker' = [worker EXCEPT !.pc = "preprocessed"]
         ELSE GoOn(worker, Succeeds(worker, s), s, IncStep(worker, s))
    /\ history' = history
         \cup (IF stop = "none" \/ Overridden(worker) \/ ~Looping(f) THEN {}
               ELSE {<<f, flow_status[f].step, "loop">>})
         \cup (IF s = "none" \/ (Overridden(worker) /\ s = stop /\ ~Looping(f)) THEN {}
               ELSE {<<f, flow_status[f].step, s>>})

(* A report is for nothing, goes on with the next iteration, or ends the module. *)
LEMMA UpdateCases ==
  ASSUME Base, UpdateStatus, NEW f \in Pushed, f = worker.flow
  PROVE  \/ ~InQueue(f) /\ worker' = Idle /\ UNCHANGED <<flow_status, history>>
         \/ GoesOnFrom(f)
         \/ \E stop, s \in Stops : EndsModule(f, stop, s)
<1>1. /\ worker.pc = "update" /\ worker \in WorkerState /\ IsFlow(f)
  BY DEF UpdateStatus, Base, TypeOK, WorkerInv
<1>2. /\ StopEarly(worker) \subseteq Stops
      /\ \A stop \in Stops : StopAtEnd(worker, stop) \subseteq Stops
  BY <1>1, StopTypes DEF Base
<1>3. CASE ~InQueue(f)
  BY <1>3 DEF UpdateStatus
<1>4. CASE InQueue(f)
  <2>1. PICK stop \in StopEarly(worker) :
          \/ /\ GoesOn(worker, stop)
             /\ GoOn(worker, worker.success, "none", FALSE)
             /\ UNCHANGED <<flow_status, history>>
          \/ /\ ~GoesOn(worker, stop)
             /\ \E s \in StopAtEnd(worker, stop) :
                  /\ EndModule(worker, s)
                  /\ IF IsPreprocessorStep(f) /\ Succeeds(worker, s)
                       THEN worker' = [worker EXCEPT !.pc = "preprocessed"]
                       ELSE GoOn(worker, Succeeds(worker, s), s, IncStep(worker, s))
                  /\ history' = history
                       \cup (IF stop = "none" \/ Overridden(worker) \/ ~Looping(f) THEN {}
                             ELSE {<<f, flow_status[f].step, "loop">>})
                       \cup (IF s = "none" \/ (Overridden(worker) /\ s = stop /\ ~Looping(f)) THEN {}
                             ELSE {<<f, flow_status[f].step, s>>})
    BY <1>4, Zenon DEF UpdateStatus
  <2>2. CASE /\ GoesOn(worker, stop)
             /\ GoOn(worker, worker.success, "none", FALSE)
             /\ UNCHANGED <<flow_status, history>>
    BY <1>4, <2>1, <2>2 DEF GoesOn, GoesOnFrom
  <2>3. ASSUME ~GoesOn(worker, stop), NEW s \in StopAtEnd(worker, stop),
               /\ EndModule(worker, s)
               /\ IF IsPreprocessorStep(f) /\ Succeeds(worker, s)
                    THEN worker' = [worker EXCEPT !.pc = "preprocessed"]
                    ELSE GoOn(worker, Succeeds(worker, s), s, IncStep(worker, s))
               /\ history' = history
                    \cup (IF stop = "none" \/ Overridden(worker) \/ ~Looping(f) THEN {}
                          ELSE {<<f, flow_status[f].step, "loop">>})
                    \cup (IF s = "none" \/ (Overridden(worker) /\ s = stop /\ ~Looping(f)) THEN {}
                          ELSE {<<f, flow_status[f].step, s>>})
        PROVE  \E st, e \in Stops : EndsModule(f, st, e)
    <3>1. stop \in Stops /\ s \in Stops
      BY <1>2, <2>1, <2>3
    <3>2. EndsModule(f, stop, s)
      BY <1>4, <2>1, <2>3, <3>1, Zenon DEF EndsModule
    <3> QED BY <3>1, <3>2
  <2> QED BY <2>1, <2>2, <2>3
<1> QED BY <1>3, <1>4

(* A stop that the worker goes on with was asked for by a predicate of the flow or of its branch. *)
LEMMA StopNoted ==
  ASSUME Base, TokenInv, LossInv, SkipInv, [Next]_vars, UpdateStatus, NEW f \in Pushed, f = worker.flow,
         NEW stop, NEW s, EndsModule(f, stop, s), s # "none"
  PROVE  f \in Stopped'
<1>1. /\ f \in Pushed' /\ worker.pc = "update" /\ Stopped \subseteq Stopped'
      /\ Branches \subseteq Branches' /\ \A c : c \in Children(f) => c \in Children(f)'
  BY Stable, StoppedGrows DEF UpdateStatus, Children
<1>2. CASE ~(Overridden(worker) /\ s = stop /\ ~Looping(f))
  <2>1. <<f, flow_status[f].step, s>> \in history'
    BY <1>2 DEF EndsModule
  <2>2. s \in Stops \ {"none"}
    BY DEF EndsModule
  <2>3. f \in StopsNoted(Stops \ {"none"})'
    BY <2>1, <2>2 DEF StopsNoted
  <2> QED BY <1>1, <2>3, StoppedFixNext DEF BelowIs
<1>3. CASE Overridden(worker) /\ s = stop /\ ~Looping(f)
  <2>1. worker.stop # "none" /\ Current(f).kind # "flow" /\ InQueue(f)
    BY <1>3 DEF Overridden, EndsModule
  <2>2. worker.job # 0
    BY <1>1, <2>1 DEF SkipInv, StopKnown
  <2>3. PICK c \in Pushed : c = worker.job
    BY <1>1, <2>2 DEF Base, WorkerInv
  <2>4. c \in Stopped /\ IsFlow(c) /\ Matches(c, f)
    BY <1>1, <2>1, <2>3 DEF SkipInv, StopKnown
  <2>5. Fits(c)
    BY <1>1, <2>1, <2>3, <2>4 DEF SkipInv, ReportKnown
  <2>6. job[c].parent = f /\ ModuleOf(c) = Current(f) /\ f # 0
    BY <2>4, JobFacts DEF Matches, ModuleOf, Current, Base
  <2>7. Current(f).kind \notin Loops
    BY <1>3, <2>4, <2>5, <2>6 DEF Fits, IsFlow, IsStep, Looping, Loops
  <2>8. c \in Children(f) /\ c \in Branches
    BY <2>1, <2>4, <2>6, <2>7 DEF Children, Branches, InlineJobs, IsInline
  <2>9. \E d \in Children(f)' \cap Branches' : d \in Stopped'
    BY <1>1, <2>4, <2>8
  <2> QED BY <1>1, <2>9, StoppedFixNext DEF BelowIs
<1> QED BY <1>2, <1>3

(* A module that the flow goes on past has been gone through. *)
LEMMA ModuleDone ==
  ASSUME Base, TokenInv, ChildInv, IterInv, OrderInv, LossInv, SkipInv, [Next]_vars, UpdateStatus,
         NEW f \in Pushed, f = worker.flow, NEW stop, EndsModule(f, stop, "none"),
         IncStep(worker, "none"), worker'.pc = "push" \/ Succeeds(worker, "none"),
         NEW i, i = flow_status[f].step, 0 <= i, i < Size(f)
  PROVE  IsThrough(f, i)'
<1>1. /\ worker.pc = "update" /\ IsFlow(f) /\ InQueue(f) /\ 0 \notin Pushed
      /\ worker \in WorkerState /\ flow_status[f] \in FlowStatus
      /\ worker.job # 0 => worker.job \in Pushed
  BY JobFacts DEF Base, WorkerInv, TypeOK, UpdateStatus, EndsModule
<1>2. i \in Int /\ i # PreprocessorStep /\ ModuleAt(f, i) = Current(f) /\ Current(f) \in Module
  BY <1>1, ModuleFacts DEF FlowStatus, PreprocessorStep, Current, Base
<1>3. IsThrough(f, i) => IsThrough(f, i)'
  BY <1>1, <1>2, ThroughStable
<1>4. ASSUME ~worker.success, ~SkipFailure(f)
      PROVE  /\ Current(f).continue_on_error /\ ~Overridden(worker)
             /\ ~worker.unrecoverable /\ f \notin canceled
  <2>1. ~Succeeds(worker, "none") /\ ContinueOnError(worker) /\ worker'.pc = "push"
    BY <1>4 DEF Succeeds, IncStep
  <2>2. GoOn(worker, Succeeds(worker, "none"), "none", IncStep(worker, "none"))
    BY <2>1 DEF EndsModule
  <2>3. ShouldContinue(worker, Succeeds(worker, "none"), "none", IncStep(worker, "none"))
    BY <1>1, <2>1, <2>2 DEF GoOn, WorkerState
  <2>4. f \notin canceled /\ ~worker.unrecoverable
    BY <2>1, <2>3 DEF ShouldContinue
  <2> QED BY <2>1, <2>4 DEF ContinueOnError
<1>5. CASE worker.job = 0
  <2>1. ~SkipFailure(f)
    BY <1>1, <1>5 DEF IterInv, ReportMatches, SkipFailure, Looping, Branching
  <2>2. CASE worker.success
    <3>1. IsEmpty(f, i)
      BY <1>1, <1>2, <1>5, <2>2 DEF SkipInv, ReportKnown
    <3>2. IsThrough(f, i)
      BY <3>1, Zenon DEF IsThrough
    <3> QED BY <1>3, <3>2
  <2>3. CASE ~worker.success
    <3>1. f = Root /\ AtStart(f) /\ faults > 0 /\ Current(f).continue_on_error
      BY <1>1, <1>2, <1>4, <1>5, <2>1, <2>3 DEF SkipInv, ReportKnown, IsPreprocessorStep
    <3>2. ModuleAt(f, i).continue_on_error /\ f = Root /\ i = 0 /\ faults > 0
      BY <1>2, <3>1 DEF AtStart
    <3>3. IsThrough(f, i)
      BY <3>2, Zenon DEF IsThrough
    <3> QED BY <1>3, <3>3
  <2> QED BY <2>2, <2>3
<1>6. CASE worker.job # 0
  <2>1. PICK c \in Pushed : c = worker.job
    BY <1>1, <1>6
  <2>2. Matches(c, f)
    <3>1. CASE worker.success
      BY <1>1, <2>1, <3>1 DEF LossInv, ReportClear
    <3>2. CASE SkipFailure(f)
      BY <1>1, <2>1, <3>2 DEF IterInv, ReportMatches, SkipFailure, Looping, Branching
    <3>3. CASE ~worker.success /\ ~SkipFailure(f)
      BY <1>1, <1>4, <2>1, <3>3 DEF SkipInv, ReportKnown
    <3> QED BY <3>1, <3>2, <3>3
  <2>3. Fits(c)
    BY <1>1, <2>1, <2>2 DEF SkipInv, ReportKnown
  <2>4. /\ c \in ChildrenAt(f, i) /\ ModuleOf(c) = Current(f) /\ job[c].parent = f /\ f # 0
        /\ job[c].iter = flow_status[f].index /\ job[c].len = flow_status[f].len
    BY <1>1, <2>2 DEF Matches, ChildrenAt, Children, ModuleOf, Current
  <2>5. CASE job[c].flow = "identity"
    <3>1. IsThrough(f, i)
      BY <2>4, <2>5, Zenon DEF IsThrough
    <3> QED BY <1>3, <3>1
  <2>6. CASE Current(f).kind \in {"script", "flow", "branchone"}
    BY <1>2, <1>3, <2>4, <2>6 DEF IsThrough
  <2>7. CASE /\ job[c].flow # "identity" /\ Current(f).kind \notin {"script", "flow", "branchone"}
             /\ ~worker.success /\ ~SkipFailure(f)
    <3>1. worker.stop = "none" /\ ~worker.unrecoverable /\ Current(f).continue_on_error
      BY <1>4, <2>7 DEF Overridden
    <3>2. ReportsFailure(c)
      BY <1>1, <2>1, <2>7, <3>1 DEF SkipInv, ReportKnown
    <3>3. ModuleAt(f, i).continue_on_error /\ \E d \in ChildrenAt(f, i) : ReportsFailure(d)
      BY <1>2, <2>4, <3>1, <3>2
    <3>4. IsThrough(f, i)
      BY <3>3, Zenon DEF IsThrough
    <3> QED BY <1>3, <3>4
  <2>8. CASE /\ job[c].flow # "identity" /\ Current(f).kind \notin {"script", "flow", "branchone"}
             /\ worker.success \/ SkipFailure(f)
    <3>1. /\ InProgress(f)
          /\ Current(f).kind \in {"branchall", "forloopflow", "whileloopflow"}
      BY <1>2, <2>3, <2>4, <2>8 DEF Fits, Module, Kinds
    <3>2. /\ flow_status[f].index \in Nat /\ flow_status[f].len \in Nat
          /\ flow_status[f].len > 0 => flow_status[f].index < flow_status[f].len
      BY <1>1 DEF Base, TypeOK, FlowStatus
    <3>3. /\ ~GoesOn(worker, stop) /\ "none" \in StopAtEnd(worker, stop)
          /\ stop \in StopEarly(worker)
      BY DEF EndsModule
    <3>4. CASE Looping(f)
      <4>1. CASE stop # "none"
        <5>1. IsBroken(f, i)'
          <6>1. CASE ~Overridden(worker)
            BY <3>4, <4>1, <6>1 DEF EndsModule, IsBroken
          <6>2. CASE Overridden(worker)
            BY <1>1, <2>1, <2>4, <6>2, StoppedGrows, ThroughStable DEF Overridden, SkipInv,
               StopKnown, IsBroken
          <6> QED BY <6>1, <6>2
        <5>2. ModuleAt(f, i)'.kind \in {"forloopflow", "whileloopflow"}
          BY <1>2, <3>4, Stable, SameFlow DEF Looping, Loops
        <5> QED BY <5>1, <5>2 DEF IsThrough
      <4>2. CASE stop = "none"
        <5>1. Current(f).kind = "forloopflow" /\ ~(flow_status[f].index + 1 < flow_status[f].len)
          BY <2>8, <3>1, <3>3, <3>4, <4>2 DEF GoesOn, Looping, Loops
        <5>2. job[c].len > 0
          BY <2>4, <2>8, <5>1 DEF SkipInv, ItemsCounted
        <5>3. job[c].iter = job[c].len - 1
          BY <2>4, <3>2, <5>1, <5>2
        <5>4. ModuleAt(f, i).kind = "forloopflow" /\ \E d \in ChildrenAt(f, i) : job[d].iter = job[d].len - 1
          BY <1>2, <2>4, <5>1, <5>3
        <5>5. IsThrough(f, i)
          BY <5>4 DEF IsThrough
        <5> QED BY <1>3, <5>5
      <4> QED BY <4>1, <4>2
    <3>5. CASE Current(f).kind = "branchall"
      <4>1. Branching(f) /\ ~Looping(f) /\ flow_status[f].len = Len(Current(f).inner)
        BY <1>1, <3>1, <3>5 DEF Branching, Looping, Loops, Base, RangeInv
      <4>2. stop = "none"
        BY <3>3, <4>1 DEF StopAtEnd
      <4>3. ~(flow_status[f].index + 1 < flow_status[f].len)
        BY <2>8, <3>3, <4>1, <4>2 DEF GoesOn
      <4>4. \A b \in 0 .. job[c].iter : \E d \in ChildrenAt(f, i) : job[d].iter = b
        BY <2>4, AllBefore
      <4>5. ASSUME NEW b \in 1 .. Len(ModuleAt(f, i).inner)
            PROVE  \E d \in ChildrenAt(f, i) : job[d].iter = b - 1
        BY <1>2, <2>4, <3>2, <4>1, <4>3, <4>4
      <4>6. ModuleAt(f, i).kind = "branchall"
        BY <1>2, <3>5
      <4>7. IsThrough(f, i)
        BY <4>5, <4>6 DEF IsThrough
      <4> QED BY <1>3, <4>7
    <3> QED BY <3>1, <3>4, <3>5 DEF Looping, Loops
  <2> QED BY <2>5, <2>6, <2>7, <2>8
<1> QED BY <1>5, <1>6

\* The part of SkipInv that is about the worker.
WorkerSkip == WorkThrough /\ StopKnown /\ ReportKnown /\ HandlerKnown /\ FreshWorker

(* SkipInv after a step that pushes no job. *)
LEMMA SkipKeeps ==
  ASSUME Base, TokenInv, ChildInv, SkipInv, [Next]_vars, job' = job, NEW f \in Pushed,
         \A k \in Pushed \ {f} : flow_status'[k] = flow_status[k],
         \/ flow_status'[f] = flow_status[f]
         \/ worker'.pc \notin {"idle", "run"} /\ worker'.flow = f /\ InQueue(f),
         \A k \in Pushed :
            row'[k] = "success" /\ IsFlow(k) =>
               \/ row[k] = "success"
               \/ AllThrough(k) /\ ~IsPreprocessorStep(k) /\ flow_status' = flow_status,
         WorkerSkip', PreprocessKnown'
  PROVE  SkipInv'
<1>1. /\ Pushed' = Pushed /\ ChildInv'
      /\ \A k \in Pushed : /\ InQueue(k)' => InQueue(k)
                           /\ Live(k)' => Live(k)
  BY Stable, ChildStep DEF Pushed
<1>2. \A k \in Pushed : IsFlow(k)' = IsFlow(k) /\ (AllThrough(k) /\ IsFlow(k) => AllThrough(k)')
  BY SameFlow, ThroughStable
<1>3. \A c \in Pushed : job[c].parent # 0 =>
        ModuleOf(c)' = ModuleOf(c) /\ job[c].parent \in Pushed /\ IsFlow(job[c].parent)
  BY StoppedGrows, JobFacts DEF Base
<1>4. Rooted' /\ ItemsCounted'
  BY <1>1, <1>3 DEF SkipInv, Rooted, ItemsCounted, Root
<1>5. EndedThrough'
  <2>1. SUFFICES ASSUME NEW k \in Pushed, IsFlow(k), row'[k] = "success"
                 PROVE  AllThrough(k)' /\ ~IsPreprocessorStep(k)'
    BY <1>1, <1>2 DEF EndedThrough
  <2>2. CASE row[k] = "success"
    BY <1>2, <2>1, <2>2 DEF SkipInv, EndedThrough, InQueue, IsPreprocessorStep
  <2>3. CASE AllThrough(k) /\ ~IsPreprocessorStep(k) /\ flow_status' = flow_status
    BY <1>2, <2>1, <2>3 DEF IsPreprocessorStep
  <2> QED BY <2>1, <2>2, <2>3
<1>6. LiveThrough'
  <2>1. SUFFICES ASSUME NEW c \in Pushed, NEW p \in Pushed, p = job[c].parent, Live(c)', InQueue(p)'
                 PROVE  Passed(p)' /\ Fits(c)'
    BY <1>1 DEF LiveThrough
  <2>2. Passed(p) /\ Fits(c) /\ IsFlow(p) /\ p # 0
    BY <1>1, <2>1, JobFacts DEF SkipInv, LiveThrough, Base
  <2>3. flow_status'[p] = flow_status[p]
    BY <1>1, <2>1, <2>2 DEF ChildInv, LiveWaited, At
  <2>4. Fits(c)'
    BY <1>3, <2>1, <2>2, <2>3 DEF Fits, InProgress
  <2> QED BY <2>2, <2>3, <2>4, ThroughStable
<1> QED BY <1>4, <1>5, <1>6 DEF SkipInv, WorkerSkip

(* The report of a live job is about a flow that has gone through what is before it. *)
LEMMA SkipReports ==
  ASSUME Base, TokenInv, ChildInv, IterInv, LossInv, SkipInv, [Next]_vars, job' = job,
         flow_status' = flow_status, NEW c \in Pushed, Live(c), job[c].parent # 0,
         worker'.pc = "update", worker'.flow = job[c].parent, worker'.job = c,
         worker'.success \/ ReportsFailure(c)' \/ worker'.stop # "none",
         worker'.stop # "none" => worker'.stop # "error" /\ c \in Stopped /\ IsFlow(c)
  PROVE  WorkerSkip'
<1>1. PICK p \in Pushed : p = job[c].parent /\ IsFlow(p)
  BY JobFacts DEF Base
<1>2. /\ Pushed' = Pushed /\ (InQueue(p)' => InQueue(p)) /\ IsFlow(c)' = IsFlow(c)
      /\ c # 0 /\ 0 \notin Pushed /\ Stopped \subseteq Stopped'
  BY Stable, SameFlow, JobFacts, StoppedGrows DEF Pushed, Base
<1>3. ASSUME InQueue(p)'
      PROVE  /\ Passed(p)' /\ Fits(c)' /\ Matches(c, p)'
             /\ IsFailureStep(p)' => ChildrenAt(p, Size(p))' # {}
  <2>1. Passed(p) /\ Fits(c) /\ Matches(c, p) /\ InSteps(p)
    BY <1>1, <1>2, <1>3 DEF LossInv, LiveClear, SkipInv, LiveThrough, IterInv, LiveMatches
  <2>2. Passed(p)' /\ Matches(c, p)'
    BY <1>1, <2>1, ClearStable, ThroughStable
  <2>3. Fits(c)'
    BY <2>1, StoppedGrows DEF Fits, InProgress
  <2>4. ASSUME IsFailureStep(p)' PROVE ChildrenAt(p, Size(p))' # {}
    <3>1. flow_status[p].step \in Int /\ Size(p) \in Nat /\ Size(p)' = Size(p)
      BY <1>1, JobFacts, ModuleFacts, SameFlow DEF Base, FlowStatus, PreprocessorStep
    <3>2. job[c].step = Size(p) /\ job[c].parent = p
      BY <1>1, <2>1, <2>4, <3>1 DEF IsFailureStep, InSteps, Matches
    <3>3. c \in ChildrenAt(p, Size(p))'
      BY <1>2, <3>1, <3>2 DEF ChildrenAt, Children
    <3> QED BY <3>3
  <2> QED BY <2>2, <2>3, <2>4
<1>4. WorkThrough'
  BY <1>1, <1>3 DEF WorkThrough
<1>5. StopKnown'
  BY <1>1, <1>2, <1>3 DEF StopKnown, InQueue, Matches
<1>6. ReportKnown'
  BY <1>1, <1>2, <1>3 DEF ReportKnown
<1> QED BY <1>4, <1>5, <1>6 DEF WorkerSkip, HandlerKnown, FreshWorker

(* So is the report of a flow that could not be started. *)
LEMMA SkipRefused ==
  ASSUME Base, TokenInv, [Next]_vars, job' = job, flow_status' = flow_status,
         NEW f \in Pushed, IsFlow(f), IsPreprocessorStep(f) \/ AtStart(f),
         worker'.pc = "update", worker'.flow = f, worker'.job = 0, ~worker'.success,
         worker'.stop = "none",
         \/ f \in canceled' \/ IsPreprocessorStep(f) \/ ~InQueue(f)'
         \/ worker'.unrecoverable \/ (f = Root /\ AtStart(f) /\ faults' > 0)
  PROVE  WorkerSkip'
<1>1. Pushed' = Pushed /\ 0 \notin Pushed
  BY JobFacts DEF Pushed, Base
<1>2. Size(f) \in Nat /\ flow_status[f].step \in {-1, 0} /\ Size(f)' = Size(f)
  BY ModuleFacts, SameFlow DEF Base, IsPreprocessorStep, AtStart, PreprocessorStep
<1>3. /\ IsPreprocessorStep(f)' = IsPreprocessorStep(f) /\ AtStart(f)' = AtStart(f)
      /\ ~IsFailureStep(f)'
  BY <1>2, ClearStable DEF IsFailureStep
<1>4. Passed(f)'
  BY <1>2 DEF Passed
<1>5. WorkThrough' /\ StopKnown'
  BY <1>4 DEF WorkThrough, StopKnown
<1>6. ReportKnown'
  BY <1>1, <1>3 DEF ReportKnown, Root
<1> QED BY <1>5, <1>6 DEF WorkerSkip, HandlerKnown, FreshWorker

(* While the worker is at the same point, what is known of its flow stays known. *)
LEMMA SkipSame ==
  ASSUME Base, TokenInv, SkipInv, [Next]_vars, job' = job, flow_status' = flow_status,
         worker' = worker, \A k \in Pushed : k \in canceled /\ InQueue(k)' => k \in canceled'
  PROVE  WorkerSkip'
<1>1. /\ Pushed' = Pushed /\ Stopped \subseteq Stopped'
      /\ \A k \in Pushed : (InQueue(k)' => InQueue(k)) /\ IsFlow(k)' = IsFlow(k)
      /\ \A c \in Pushed : job[c].parent # 0 => ModuleOf(c)' = ModuleOf(c)
      /\ faults > 0 => faults' > 0
      /\ history \subseteq history' /\ 0 \notin Pushed
  BY Stable, SameFlow, StoppedGrows, FaultsGrow, JobFacts DEF Pushed, Base
<1>2. \A f \in Pushed :
        /\ AtStart(f)' = AtStart(f) /\ Free(f)' = Free(f) /\ IsFailureStep(f)' = IsFailureStep(f)
        /\ IsPreprocessorStep(f)' = IsPreprocessorStep(f) /\ Size(f)' = Size(f)
        /\ \A c \in Pushed : Matches(c, f)' = Matches(c, f)
  BY ClearStable, SameFlow DEF IsFailureStep
<1>3. \A f \in Pushed : IsFlow(f) =>
        /\ AllThrough(f) => AllThrough(f)'
        /\ Passed(f) => Passed(f)'
        /\ ChildrenAt(f, Size(f)) # {} => ChildrenAt(f, Size(f))' # {}
  BY <1>1, <1>2, ThroughStable DEF ChildrenAt, Children
<1>4. worker.pc # "idle" => \A f \in Pushed : worker.flow = f => IsFlow(f)
  BY DEF Base, WorkerInv
<1>5. \A c \in Pushed : (ReportsFailure(c) => ReportsFailure(c)')
  <2>1. SUFFICES ASSUME NEW c \in Pushed, ReportsFailure(c) PROVE ReportsFailure(c)'
    OBVIOUS
  <2>2. CASE row[c] \in {"failure", "canceled"}
    BY <2>2, Stable DEF ReportsFailure, Ended
  <2>3. CASE IsFlow(c) /\ Size(c) > 0 /\ ChildrenAt(c, Size(c)) # {}
    BY <1>1, <1>2, <1>3, <2>3 DEF ReportsFailure
  <2> QED BY <2>1, <2>2, <2>3 DEF ReportsFailure
<1>6. \A f, c \in Pushed : Matches(c, f) => (Fits(c)' = Fits(c))
  BY <1>1 DEF Matches, Fits, InProgress
<1>7. WorkThrough'
  BY <1>1, <1>2, <1>3, <1>4 DEF SkipInv, WorkThrough
<1>8. StopKnown'
  BY <1>1, <1>2 DEF Base, WorkerInv, SkipInv, StopKnown, InQueue, Matches
<1>9. ReportKnown'
  <2>1. SUFFICES ASSUME worker.pc = "update", NEW f \in Pushed, worker.flow = f
                 PROVE  /\ worker.job = 0 /\ InQueue(f)' =>
                              IF worker.success
                                THEN Size(f)' = 0 \/ (IsEmpty(f, flow_status[f].step)' /\ ~Free(f)')
                                ELSE \/ worker.unrecoverable \/ f \in canceled' \/ IsPreprocessorStep(f)'
                                     \/ f = Root /\ AtStart(f)' /\ faults' > 0
                        /\ InQueue(f)' /\ IsFailureStep(f)' => ChildrenAt(f, Size(f))' # {}
                        /\ \A c \in Pushed : worker.job = c =>
                              /\ InQueue(f)' => /\ worker.unrecoverable \/ Matches(c, f)'
                                                /\ Matches(c, f)' => Fits(c)'
                              /\ worker.success \/ worker.unrecoverable \/ ReportsFailure(c)' \/ worker.stop # "none"
    BY <1>1 DEF ReportKnown, Root
  <2>2. IsEmpty(f, flow_status[f].step) => IsEmpty(f, flow_status[f].step)'
    BY <1>1 DEF IsEmpty
  <2>3. /\ worker.job = 0 /\ InQueue(f) =>
              IF worker.success
                THEN Size(f) = 0 \/ (IsEmpty(f, flow_status[f].step) /\ ~Free(f))
                ELSE \/ worker.unrecoverable \/ f \in canceled \/ IsPreprocessorStep(f)
                     \/ f = Root /\ AtStart(f) /\ faults > 0
        /\ InQueue(f) /\ IsFailureStep(f) => ChildrenAt(f, Size(f)) # {}
        /\ \A c \in Pushed : worker.job = c =>
              /\ InQueue(f) => /\ worker.unrecoverable \/ Matches(c, f)
                               /\ Matches(c, f) => Fits(c)
              /\ worker.success \/ worker.unrecoverable \/ ReportsFailure(c) \/ worker.stop # "none"
    BY <2>1, Zenon DEF SkipInv, ReportKnown
  <2>4. IsFlow(f)
    BY <1>4, <2>1
  <2> QED BY <1>1, <1>2, <1>3, <1>5, <1>6, <2>2, <2>3, <2>4
<1>10. HandlerKnown' /\ FreshWorker'
  BY <1>1, <1>2, <1>3, <1>4 DEF SkipInv, HandlerKnown, FreshWorker
<1> QED BY <1>7, <1>8, <1>9, <1>10 DEF WorkerSkip

(* The flow that is run is there. *)
LEMMA RootPushed ==
  ASSUME Base
  PROVE  Root \in Pushed
  BY NestedFlowAssumption DEF Base, TypeOK, Pushed, Job, Root

(* Without a death, what has led out of the preprocessor stays known. *)
LEMMA PreprocessKeeps ==
  ASSUME Base, TokenInv, SkipInv, [Next]_vars,
         IsPreprocessorStep(Root) /\ ~IsPreprocessorStep(Root)' =>
            \/ worker'.pc = "preprocessed" /\ worker'.flow = Root
            \/ ChildrenAt(Root, Size(Root))' # {},
         worker.pc = "preprocessed" /\ worker.flow = Root =>
            \/ faults' > 0 \/ (worker'.pc = "preprocessed" /\ worker'.flow = Root)
            \/ <<Root, PreprocessorStep, "preprocessed">> \in history'
  PROVE  PreprocessKnown'
<1>1. Root \in Pushed
  BY RootPushed
<1>2. /\ job'[Root] = job[Root] /\ history \subseteq history'
      /\ Pushed \subseteq Pushed' /\ \A j \in Pushed : job'[j] = job[j]
  BY <1>1, Stable
<1>3. Value(Root)' = Value(Root) /\ Size(Root)' = Size(Root)
  BY <1>2, SameFlow
<1>4. PICK z : z = Size(Root)
  OBVIOUS
<1>5. ChildrenAt(Root, z) \subseteq ChildrenAt(Root, z)'
  BY <1>2 DEF ChildrenAt, Children
<1>6. ChildrenAt(Root, Size(Root)) # {} => ChildrenAt(Root, Size(Root))' # {}
  BY <1>3, <1>4, <1>5 DEF ChildrenAt
<1>7. faults' = 0 => faults = 0
  BY FaultsGrow
<1>8. SUFFICES ASSUME Value(Root).preprocessor, ~IsPreprocessorStep(Root)', faults' = 0
               PROVE  \/ <<Root, PreprocessorStep, "preprocessed">> \in history'
                      \/ worker'.pc = "preprocessed" /\ worker'.flow = Root
                      \/ ChildrenAt(Root, Size(Root))' # {}
  BY <1>3 DEF PreprocessKnown, Root, PreprocessorStep
<1>9. CASE IsPreprocessorStep(Root)
  BY <1>8, <1>9
<1>10. CASE ~IsPreprocessorStep(Root)
  BY <1>2, <1>6, <1>7, <1>8, <1>10 DEF SkipInv, PreprocessKnown
<1> QED BY <1>9, <1>10

(* A report passes a module only once it has been gone through. *)
LEMMA SkipUpdate ==
  ASSUME Base, TokenInv, ChildInv, IterInv, OrderInv, LossInv, SkipInv, [Next]_vars, UpdateStatus
  PROVE  SkipInv'
<1>0. /\ TypeOK /\ \A j \in Pushed : j \in Job /\ j # 0
      /\ Idle.pc = "idle" /\ flow_status \in [Job -> FlowStatus]
  BY JobFacts DEF Base, TypeOK, Idle
<1>1. PICK f \in Pushed : f = worker.flow
  BY UpdateStatusEffect
<1>2. /\ worker.pc = "update" /\ IsFlow(f) /\ UNCHANGED <<job, row, canceled, broken, faults>>
      /\ worker \in WorkerState
  BY <1>1, UpdateStatusEffect
<1>3. /\ Pushed' = Pushed /\ \A k : InQueue(k)' = InQueue(k)
      /\ Size(f)' = Size(f) /\ Size(f) \in Nat /\ flow_status[f].step \in Nat \cup {-1}
      /\ ChildrenAt(f, Size(f))' = ChildrenAt(f, Size(f))
  BY <1>0, <1>2, SameFlow, ModuleFacts DEF Pushed, InQueue, FlowStatus, PreprocessorStep,
     ChildrenAt, Children
<1>r. ASSUME worker'.flow = f, worker'.pc \in {"push", "finish", "preprocessed"},
             worker'.pc = "push" => Passed(f)',
             worker'.pc = "finish" /\ worker'.success =>
                (f \in canceled \/ AllThrough(f)') /\ ~IsPreprocessorStep(f)',
             worker'.pc \in {"push", "finish"} /\ worker'.stop # "none" => f \in Stopped',
             worker'.pc = "preprocessed" => worker'.stop = "none",
             worker'.pc = "finish" /\ worker'.handler => IsFailureStep(f) /\ InQueue(f)
      PROVE  WorkerSkip'
  <2>1. WorkThrough' /\ StopKnown' /\ ReportKnown' /\ FreshWorker'
    BY <1>2, <1>r DEF WorkThrough, StopKnown, ReportKnown, FreshWorker
  <2>2. HandlerKnown'
    BY <1>1, <1>2, <1>3, <1>r DEF SkipInv, ReportKnown, IsFailureStep, HandlerKnown
  <2> QED BY <2>1, <2>2 DEF WorkerSkip
<1>4. CASE ~InQueue(f) /\ worker' = Idle /\ UNCHANGED <<flow_status, history>>
  <2>1. WorkerSkip'
    BY <1>0, <1>4 DEF WorkerSkip, WorkThrough, StopKnown, ReportKnown, HandlerKnown, FreshWorker
  <2>2. PreprocessKnown'
    BY <1>2, <1>4, PreprocessKeeps DEF IsPreprocessorStep, Root
  <2> QED BY <1>2, <1>4, <2>1, <2>2, SkipKeeps
<1>5. CASE GoesOnFrom(f)
  <2>1. /\ InQueue(f) /\ GoesOn(worker, "none") /\ flow_status' = flow_status
        /\ GoOn(worker, worker.success, "none", FALSE)
    BY <1>5 DEF GoesOnFrom
  <2>2. worker.success \in BOOLEAN /\ "none" \in Stops
    BY <1>2 DEF WorkerState, Stops
  <2>3. /\ worker'.flow = f /\ worker'.success = worker.success /\ worker'.stop = "none"
        /\ worker'.handler = IsFailureStep(f)
        /\ \/ worker'.pc = "push"
           \/ worker'.pc = "finish" /\ ~ShouldContinue(worker, worker.success, "none", FALSE)
    BY <1>0, <1>1, <1>2, <2>1, <2>2, GoOnEffect
  <2>4. Current(f).kind # "script"
    BY <1>1, <2>1 DEF GoesOn, Looping, Branching, Loops
  <2>5. ~Free(f) /\ flow_status[f].step < Size(f)
    BY <1>2, <2>4, OwnModule
  <2>6. Passed(f)'
    BY <1>1, <1>2, <2>1, ThroughStable DEF SkipInv, WorkThrough
  <2>7. worker'.pc = "finish" /\ worker'.success => f \in canceled /\ ~IsPreprocessorStep(f)'
    BY <1>1, <1>3, <2>1, <2>3, <2>5 DEF ShouldContinue, Free, IsPreprocessorStep
  <2>8. WorkerSkip'
    BY <1>r, <2>1, <2>3, <2>6, <2>7
  <2>9. PreprocessKnown'
    BY <1>2, <2>1, PreprocessKeeps DEF IsPreprocessorStep, Root
  <2> QED BY <1>2, <2>1, <2>8, <2>9, SkipKeeps
<1>6. ASSUME NEW stop \in Stops, NEW s \in Stops, EndsModule(f, stop, s) PROVE SkipInv'
  <2>1. /\ InQueue(f) /\ EndModule(worker, s)
        /\ IsPreprocessorStep(f) /\ Succeeds(worker, s) => worker' = [worker EXCEPT !.pc = "preprocessed"]
        /\ ~(IsPreprocessorStep(f) /\ Succeeds(worker, s)) =>
              GoOn(worker, Succeeds(worker, s), s, IncStep(worker, s))
    BY <1>6 DEF EndsModule
  <2>2. /\ flow_status'[f].step = IF IncStep(worker, s) THEN flow_status[f].step + 1
                                  ELSE flow_status[f].step
        /\ \A k \in Pushed \ {f} : flow_status'[k] = flow_status[k]
    BY <1>0, <1>1, <2>1 DEF EndModule
  <2>3. Succeeds(worker, s) \in BOOLEAN /\ IncStep(worker, s) \in BOOLEAN
        /\ (Succeeds(worker, s) => IncStep(worker, s))
    BY <1>0, <1>1, <1>2, StopTypes DEF IncStep
  <2>4. ~(IsPreprocessorStep(f) /\ Succeeds(worker, s)) =>
          /\ worker'.flow = f /\ worker'.success = Succeeds(worker, s) /\ worker'.stop = s
          /\ worker'.handler = IsFailureStep(f)
          /\ \/ worker'.pc = "push" /\ ShouldContinue(worker, Succeeds(worker, s), s, IncStep(worker, s))
             \/ worker'.pc = "finish" /\ ~ShouldContinue(worker, Succeeds(worker, s), s, IncStep(worker, s))
    BY <1>0, <1>1, <1>2, <2>1, <2>3, GoOnEffect
  <2>5. IsPreprocessorStep(f) /\ Succeeds(worker, s) => worker'.flow = f /\ worker'.pc = "preprocessed"
        /\ worker'.stop = worker.stop
    BY <1>1, <1>2, <2>1 DEF WorkerState
  <2>6. s # "none" => f \in Stopped'
    BY <1>1, <1>6, StopNoted
  <2>7. Passed(f)
    BY <1>1, <1>2, <2>1 DEF SkipInv, WorkThrough
  <2>8. \/ f \in Stopped' \/ ChildrenAt(f, Size(f))' # {}
        \/ \A i \in 0 .. Size(f) - 1 : i < flow_status[f].step => IsThrough(f, i)'
    BY <1>2, <1>3, <2>7, ThroughStable, StoppedGrows DEF Passed
  <2>9. ASSUME IncStep(worker, s), worker'.pc = "push" \/ Succeeds(worker, s)
        PROVE  \/ f \in Stopped' \/ ChildrenAt(f, Size(f))' # {}
               \/ \A i \in 0 .. Size(f) - 1 : i < flow_status[f].step + 1 => IsThrough(f, i)'
    <3>1. CASE s # "none"
      BY <2>6, <3>1
    <3>2. CASE s = "none"
      BY <1>1, <1>3, <1>6, <2>8, <2>9, <3>2, ModuleDone
    <3> QED BY <3>1, <3>2
  <2>10. worker'.pc = "push" => Passed(f)'
    BY <1>3, <2>2, <2>8, <2>9 DEF Passed
  <2>11. ASSUME worker'.pc = "finish", worker'.success
         PROVE  (f \in canceled \/ AllThrough(f)') /\ ~IsPreprocessorStep(f)'
    <3>1. /\ Succeeds(worker, s) /\ IncStep(worker, s)
          /\ ~ShouldContinue(worker, Succeeds(worker, s), s, IncStep(worker, s))
      BY <2>3, <2>4, <2>5, <2>11
    <3>2. ~IsPreprocessorStep(f)'
      BY <1>3, <2>2, <3>1 DEF IsPreprocessorStep, PreprocessorStep
    <3>3. f \in canceled \/ AllThrough(f)'
      <4>1. CASE s # "none"
        BY <2>6, <4>1 DEF AllThrough
      <4>2. CASE s = "none" /\ f \notin canceled
        BY <1>1, <1>3, <2>9, <3>1, <4>2 DEF ShouldContinue, AllThrough
      <4> QED BY <4>1, <4>2
    <3> QED BY <3>2, <3>3
  <2>12. ASSUME IsPreprocessorStep(f), Succeeds(worker, s) PROVE worker.stop = "none"
    <3>1. ASSUME worker.stop # "none" PROVE FALSE
      <4>1. worker.job # 0
        BY <1>2, <3>1 DEF SkipInv, StopKnown
      <4>2. PICK c \in Pushed : c = worker.job
        BY <1>2, <4>1 DEF Base, WorkerInv
      <4>3. IsFlow(c) /\ Matches(c, f)
        BY <1>1, <1>2, <2>1, <3>1, <4>2 DEF SkipInv, StopKnown
      <4>4. job[c].parent = f /\ job[c].step = PreprocessorStep
        BY <2>12, <4>3 DEF Matches, IsPreprocessorStep
      <4> QED BY <1>0, <4>3, <4>4 DEF LossInv, OuterScripts
    <3> QED BY <3>1
  <2>13. WorkerSkip'
    BY <1>r, <2>1, <2>4, <2>5, <2>6, <2>10, <2>11, <2>12
  <2>14. PreprocessKnown'
    <3>1. IsPreprocessorStep(Root) /\ ~IsPreprocessorStep(Root)' =>
            worker'.pc = "preprocessed" /\ worker'.flow = Root
      <4>1. SUFFICES ASSUME IsPreprocessorStep(Root), ~IsPreprocessorStep(Root)'
                     PROVE  worker'.pc = "preprocessed" /\ worker'.flow = Root
        OBVIOUS
      <4>2. Root \in Pushed
        BY RootPushed
      <4>3. f = Root /\ IncStep(worker, s) /\ IsPreprocessorStep(f)
        BY <2>2, <4>1, <4>2 DEF IsPreprocessorStep, Root
      <4>4. ~Current(f).continue_on_error
        BY <1>2, <4>3, OwnModule DEF Free
      <4>5. Succeeds(worker, s)
        BY <1>1, <4>3, <4>4 DEF IncStep, ContinueOnError
      <4> QED BY <2>5, <4>3, <4>5
    <3> QED BY <1>2, <3>1, PreprocessKeeps
  <2> QED BY <1>2, <2>1, <2>2, <2>4, <2>5, <2>13, <2>14, SkipKeeps
<1> QED BY <1>1, <1>4, <1>5, <1>6, UpdateCases

(* A module that is found empty has been gone through. *)
LEMMA SkipEmpty ==
  ASSUME Base, TokenInv, ChildInv, LossInv, SkipInv, [Next]_vars, PushEmpty
  PROVE  SkipInv'
<1>0. /\ TypeOK /\ 0 \notin Pushed /\ \A j \in Pushed : j \in Job
      /\ flow_status \in [Job -> FlowStatus]
  BY JobFacts DEF Base, TypeOK
<1>1. PICK f \in Pushed : f = worker.flow
  BY PushEmptyEffect
<1>2. /\ worker.pc \in {"start", "push"} /\ IsFlow(f) /\ job' = job /\ row' = row
      /\ worker'.pc = "update" /\ worker'.flow = f /\ worker'.job = 0
      /\ worker'.success /\ worker'.stop = "none"
      /\ \/ HasNoModules(f) /\ flow_status' = flow_status
         \/ /\ InQueue(f) /\ EmptyInnerFlows \in NextFlowTransform(f)
            /\ history' = history \cup {<<f, flow_status[f].step, "empty">>}
            /\ flow_status' = [flow_status EXCEPT ![f] =
                     [step |-> flow_status[f].step, module |-> "Success", index |-> 0,
                      len |-> 0, fail_count |-> Attempt(f)]]
  BY <1>1, PushEmptyEffect
<1>3. /\ Pushed' = Pushed /\ \A k : InQueue(k)' = InQueue(k)
      /\ Size(f)' = Size(f) /\ Size(f) \in Nat
  BY <1>0, <1>2, ModuleFacts, SameFlow DEF Pushed, InQueue
<1>4. /\ flow_status'[f].step = flow_status[f].step
      /\ \A k \in Pushed \ {f} : flow_status'[k] = flow_status[k]
      /\ InQueue(f) \/ flow_status' = flow_status
  BY <1>0, <1>2
<1>5. ASSUME InQueue(f) PROVE Passed(f)'
  <2>1. CASE worker.pc = "start"
    BY <1>1, <1>3, <1>4, <2>1 DEF LossInv, WorkerClear, IsPreprocessorStep, PreprocessorStep,
       AtStart, Passed
  <2>2. CASE worker.pc = "push"
    BY <1>1, <1>2, <1>4, <1>5, <2>2, ThroughStable DEF SkipInv, WorkThrough
  <2> QED BY <1>2, <2>1, <2>2
<1>6. /\ Size(f)' = 0 \/ (IsEmpty(f, flow_status[f].step)' /\ ~Free(f)')
      /\ ~IsFailureStep(f)'
  <2>1. CASE HasNoModules(f) /\ flow_status' = flow_status
    BY <1>3, <2>1 DEF HasNoModules, IsFailureStep
  <2>2. CASE /\ InQueue(f) /\ EmptyInnerFlows \in NextFlowTransform(f)
             /\ history' = history \cup {<<f, flow_status[f].step, "empty">>}
    <3>1. ~Free(f)
      BY <1>2, <2>2, EmptyModule, OwnModule
    <3>2. ~Free(f)'
      BY <1>3, <1>4, <3>1 DEF Free, IsPreprocessorStep, IsFailureStep
    <3>3. PICK i : i = flow_status[f].step
      OBVIOUS
    <3>4. IsEmpty(f, i)'
      BY <2>2, <3>3 DEF IsEmpty
    <3> QED BY <1>4, <3>2, <3>3, <3>4 DEF Free, IsEmpty
  <2> QED BY <1>2, <2>1, <2>2
<1>7. WorkThrough' /\ StopKnown' /\ HandlerKnown' /\ FreshWorker'
  BY <1>2, <1>3, <1>5 DEF WorkThrough, StopKnown, HandlerKnown, FreshWorker
<1>8. ReportKnown'
  BY <1>0, <1>2, <1>3, <1>6 DEF ReportKnown
<1>9. WorkerSkip'
  BY <1>7, <1>8 DEF WorkerSkip
<1>10. PreprocessKnown'
  BY <1>2, <1>4, RootPushed, PreprocessKeeps DEF IsPreprocessorStep, Root
<1> QED BY <1>2, <1>4, <1>9, <1>10, SkipKeeps

(* A push is about a module before which nothing was passed over. *)
LEMMA SkipPush ==
  ASSUME NoEmptyHandlers, Base, TokenInv, ChildInv, LossInv, SkipInv, [Next]_vars, PushNext
  PROVE  SkipInv'
<1>0. /\ TypeOK /\ 0 \notin Pushed /\ \A j \in Pushed : j \in Job
      /\ flow_status \in [Job -> FlowStatus] /\ Idle.pc = "idle"
      /\ \A j \in Pushed : job[j].parent # 0 => job[j].parent \in Pushed /\ IsFlow(job[j].parent)
  BY JobFacts DEF Base, TypeOK, Idle
<1>1. PICK f \in Pushed : f = worker.flow
  BY PushNextEffect
<1>2. PICK q : q = Len(job) + 1
  OBVIOUS
<1>3. /\ worker.pc \in {"start", "push"} /\ IsFlow(f) /\ worker' = Idle
      /\ row' = [row EXCEPT ![q] = "queued"]
      /\ q \in Job /\ q \notin Pushed /\ Pushed' = Pushed \cup {q}
      /\ \A j \in Pushed : job'[j] = job[j]
  BY <1>1, <1>2, PushNextEffect
<1>4. PICK n \in NextFlowTransform(f) \ {EmptyInnerFlows} :
        /\ job'[q] = JobOf(n.flow, f, PushedStep(f), n.index, n.len, Attempt(f))
        /\ SetModule(f, n, PushedStep(f), Attempt(f))
  BY <1>1, <1>2, PushNextEffect
<1>5. /\ job'[q].parent = f /\ job'[q].step = PushedStep(f) /\ job'[q].flow = n.flow
      /\ job'[q].len = n.len /\ f # 0
  BY <1>0, <1>4 DEF JobOf
<1>6. /\ \A k \in Job \ {f} : flow_status'[k] = flow_status[k]
      /\ InQueue(f) => flow_status'[f].step = PushedStep(f) /\ flow_status'[f].module = n.module
      /\ ~InQueue(f) => flow_status'[f] = flow_status[f]
  BY <1>0, <1>4 DEF SetModule
<1>7. /\ row'[q] = "queued" /\ \A k \in Pushed : row'[k] = row[k]
      /\ \A k \in Pushed : InQueue(k)' = InQueue(k) /\ (Live(k)' => Live(k))
  BY <1>0, <1>3, Stable DEF InQueue, TypeOK
<1>8. /\ \A k \in Pushed : IsFlow(k)' = IsFlow(k) /\ Value(k)' = Value(k) /\ Size(k)' = Size(k)
      /\ \A c \in Pushed : job[c].parent # 0 => ModuleOf(c)' = ModuleOf(c)
      /\ \A i : ModuleAt(f, i)' = ModuleAt(f, i)
  BY <1>3, SameFlow, StoppedGrows
<1>9. /\ row[f] # "success" /\ Size(f) \in Nat /\ flow_status[f].step \in Nat \cup {-1}
  BY <1>0, <1>1, <1>3, ModuleFacts DEF Live, LossInv, LiveRows, InQueue, FlowStatus,
     PreprocessorStep
<1>10. ModuleOf(q)' = IF RunsHandler(f) THEN Plain ELSE Current(f)
  <2>1. PICK i : i = PushedStep(f)
    OBVIOUS
  <2>2. ModuleOf(q)' = ModuleAt(f, i)
    BY <1>5, <1>8, <2>1 DEF ModuleOf, ModuleAt, Size, Value
  <2> QED BY <1>9, <2>1, <2>2 DEF PushedStep, Current, ModuleAt
<1>11. RunsHandler(f) => q \in ChildrenAt(f, Size(f))'
  BY <1>3, <1>5, <1>8 DEF PushedStep, ChildrenAt, Children
<1>12. Rooted'
  BY <1>3, <1>5 DEF SkipInv, Rooted, Root
<1>13. ItemsCounted'
  <2>1. SUFFICES ASSUME NEW c \in Pushed', job'[c].parent # 0, ModuleOf(c)'.kind = "forloopflow",
                        job'[c].flow # "identity"
                 PROVE  job'[c].len > 0
    BY DEF ItemsCounted
  <2>2. CASE c \in Pushed
    BY <1>3, <1>8, <2>1, <2>2 DEF SkipInv, ItemsCounted
  <2>3. CASE c = q
    BY <1>1, <1>3, <1>4, <1>5, <1>10, <2>1, <2>3, NextKinds DEF Plain
  <2> QED BY <1>3, <2>2, <2>3
<1>14. EndedThrough'
  <2>1. SUFFICES ASSUME NEW k \in Pushed \ {f}, IsFlow(k), row[k] = "success"
                 PROVE  AllThrough(k)' /\ ~IsPreprocessorStep(k)'
    BY <1>3, <1>7, <1>8, <1>9 DEF EndedThrough
  <2>2. AllThrough(k) /\ ~IsPreprocessorStep(k)
    BY <2>1 DEF SkipInv, EndedThrough
  <2> QED BY <1>0, <1>6, <2>1, <2>2, ThroughStable DEF IsPreprocessorStep
<1>15. ASSUME InQueue(f) PROVE Passed(f)' /\ Fits(q)'
  <2>1. Fits(q)'
    <3>1. CASE n.flow = "identity"
      BY <1>5, <3>1 DEF Fits
    <3>2. CASE n.flow # "identity" /\ RunsHandler(f)
      BY <1>10, <3>2 DEF Fits, Plain
    <3>3. CASE n.flow # "identity" /\ ~RunsHandler(f) /\ Current(f).kind \notin {"script", "flow"}
      BY <1>1, <1>3, <1>4, <1>5, <1>6, <1>15, <3>3, NextKinds DEF Fits, InProgress
    <3>4. CASE ~RunsHandler(f) /\ Current(f).kind \in {"script", "flow"}
      BY <1>10, <3>4 DEF Fits
    <3> QED BY <3>1, <3>2, <3>3, <3>4
  <2>2. CASE RunsHandler(f)
    BY <1>11, <2>1, <2>2 DEF Passed
  <2>3. CASE ~RunsHandler(f)
    <3>1. flow_status'[f].step = flow_status[f].step
      BY <1>6, <1>15, <2>3 DEF PushedStep
    <3>2. CASE worker.pc = "start"
      <4>1. flow_status[f].step \in {-1, 0}
        BY <1>1, <3>2 DEF LossInv, WorkerClear, IsPreprocessorStep, PreprocessorStep, AtStart
      <4>2. \A i \in 0 .. Size(f)' - 1 : ~(i < flow_status'[f].step)
        BY <1>8, <1>9, <3>1, <4>1
      <4> QED BY <2>1, <4>2 DEF Passed
    <3>3. CASE worker.pc = "push"
      BY <1>1, <1>3, <1>15, <2>1, <3>1, <3>3, ThroughStable DEF SkipInv, WorkThrough
    <3> QED BY <1>3, <3>2, <3>3
  <2> QED BY <2>2, <2>3
<1>16. LiveThrough'
  <2>1. SUFFICES ASSUME NEW c \in Pushed', NEW p \in Pushed', p = job'[c].parent, Live(c)', InQueue(p)'
                 PROVE  Passed(p)' /\ Fits(c)'
    BY DEF LiveThrough
  <2>2. CASE c = q
    BY <1>5, <1>7, <1>15, <2>1, <2>2
  <2>3. CASE c \in Pushed
    <3>1. p = job[c].parent /\ Live(c) /\ p # 0
      BY <1>0, <1>3, <1>7, <2>1, <2>3, NestedFlowAssumption DEF Job
    <3>2. p \in Pushed /\ IsFlow(p) /\ InQueue(p) /\ p # f
      BY <1>0, <1>1, <1>3, <1>7, <2>1, <2>3, <3>1 DEF ChildInv, LiveWaited, At
    <3>3. Passed(p) /\ Fits(c)
      BY <2>3, <3>1, <3>2 DEF SkipInv, LiveThrough
    <3>4. flow_status'[p] = flow_status[p]
      BY <1>0, <1>6, <3>2
    <3>5. Fits(c)'
      BY <1>3, <1>8, <2>3, <3>1, <3>3, <3>4 DEF Fits, InProgress
    <3> QED BY <3>2, <3>3, <3>4, <3>5, ThroughStable
  <2> QED BY <1>3, <2>2, <2>3
<1>17. WorkerSkip'
  BY <1>0, <1>3 DEF WorkerSkip, WorkThrough, StopKnown, ReportKnown, HandlerKnown, FreshWorker
<1>18. PreprocessKnown'
  <2>1. Root \in Pushed
    BY RootPushed
  <2>2. ASSUME IsPreprocessorStep(Root), ~IsPreprocessorStep(Root)'
        PROVE  ChildrenAt(Root, Size(Root))' # {}
    BY <1>0, <1>6, <1>11, <2>1, <2>2 DEF IsPreprocessorStep, Root, PushedStep
  <2> QED BY <1>3, <2>2, PreprocessKeeps
<1> QED BY <1>12, <1>13, <1>14, <1>16, <1>17, <1>18 DEF SkipInv, WorkerSkip

(* What the worker goes on with after a step of its own: the stop and the failure module that the *)
(* report passes on.                                                                              *)
LEMMA WorkerFields ==
  ASSUME TypeOK
  PROVE  /\ \A f, s : HandleJobError(f, s) =>
              worker'.stop = "none" /\ ~worker'.triggered /\ ~worker'.unrecoverable /\ ~worker'.handler
         /\ worker' = ReportToParent(worker) /\ job[worker.flow].parent # 0 =>
              /\ worker'.stop = IF worker.stop = "error" THEN "stop" ELSE worker.stop
              /\ worker'.success = (worker.success /\ ~worker.handler)
              /\ worker'.triggered = (worker.triggered \/ worker.handler)
              /\ ~worker'.unrecoverable /\ ~worker'.handler
         /\ \A f : PullFlow(f) =>
              worker'.stop = "none" /\ ~worker'.triggered /\ ~worker'.unrecoverable /\ ~worker'.handler
         /\ \A j : PullStep(j) =>
              worker'.stop = "none" /\ ~worker'.triggered /\ ~worker'.unrecoverable /\ ~worker'.handler
         /\ \A s : FinishStep(s) =>
              /\ worker'.stop = worker.stop /\ worker'.triggered = worker.triggered
              /\ worker'.unrecoverable = worker.unrecoverable /\ worker'.handler = worker.handler
<1>1. ASSUME NEW f, NEW s, HandleJobError(f, s)
      PROVE  worker'.stop = "none" /\ ~worker'.triggered /\ ~worker'.unrecoverable /\ ~worker'.handler
  BY <1>1 DEF HandleJobError, Idle
<1>2. ASSUME worker' = ReportToParent(worker), job[worker.flow].parent # 0
      PROVE  /\ worker'.stop = IF worker.stop = "error" THEN "stop" ELSE worker.stop
             /\ worker'.success = (worker.success /\ ~worker.handler)
             /\ worker'.triggered = (worker.triggered \/ worker.handler)
             /\ ~worker'.unrecoverable /\ ~worker'.handler
  BY <1>2 DEF ReportToParent, Idle
<1>3. ASSUME NEW f, PullFlow(f)
      PROVE  worker'.stop = "none" /\ ~worker'.triggered /\ ~worker'.unrecoverable /\ ~worker'.handler
  BY <1>1, <1>3 DEF PullFlow, Idle
<1>4. ASSUME NEW j, PullStep(j)
      PROVE  worker'.stop = "none" /\ ~worker'.triggered /\ ~worker'.unrecoverable /\ ~worker'.handler
  BY <1>4 DEF PullStep, Idle
<1>5. ASSUME NEW s, FinishStep(s)
      PROVE  /\ worker'.stop = worker.stop /\ worker'.triggered = worker.triggered
             /\ worker'.unrecoverable = worker.unrecoverable /\ worker'.handler = worker.handler
  BY <1>5 DEF FinishStep, TypeOK, WorkerState
<1> QED BY <1>1, <1>2, <1>3, <1>4, <1>5

(* No step passes over a module. *)
LEMMA SkipStep ==
  ASSUME NoEmptyHandlers, Base, TokenInv, ChildInv, IterInv, OrderInv, LossInv, SkipInv, [Next]_vars
  PROVE  SkipInv'
<1>0. /\ TypeOK /\ row \in [Job -> {"none", "queued", "running"} \cup Ended]
      /\ \A j \in Pushed : j \in Job /\ j # 0 /\ row[j] # "none"
      /\ Idle.pc = "idle" /\ "failure" \in Ended /\ "canceled" \in Ended
      /\ "queued" \notin Ended /\ worker \in WorkerState
  BY JobFacts DEF Base, TypeOK, Ended, Idle, RangeInv
<1>r. PICK r \in Pushed : TRUE
  BY RootPushed
<1>k. ASSUME job' = job, flow_status' = flow_status, WorkerSkip',
             worker.pc = "preprocessed" /\ worker.flow = Root =>
                \/ faults' > 0 \/ (worker'.pc = "preprocessed" /\ worker'.flow = Root)
                \/ <<Root, PreprocessorStep, "preprocessed">> \in history',
             \A k \in Pushed :
                row'[k] = "success" /\ IsFlow(k) =>
                   row[k] = "success" \/ (AllThrough(k) /\ ~IsPreprocessorStep(k))
      PROVE  SkipInv'
  BY <1>k, <1>r, PreprocessKeeps, SkipKeeps DEF IsPreprocessorStep, Root
<1>i. worker'.pc = "idle" => WorkerSkip'
  BY DEF WorkerSkip, WorkThrough, StopKnown, ReportKnown, HandlerKnown, FreshWorker
<1>s. worker'.pc \in {"run", "start"} /\ worker'.stop = "none" /\ ~worker'.unrecoverable
         /\ ~worker'.triggered => WorkerSkip'
  BY DEF WorkerSkip, WorkThrough, StopKnown, ReportKnown, HandlerKnown, FreshWorker
<1>c. ASSUME NEW j \in Pushed, NEW s \in Ended, Complete(j, s)
      PROVE  row'[j] = s /\ \A k \in Pushed \ {j} : row'[k] = row[k]
  BY <1>0, <1>c, CompleteEffect
<1>f. \A c \in Pushed : row'[c] \in {"failure", "canceled"} => ReportsFailure(c)'
  BY DEF ReportsFailure
<1>1. ASSUME NEW f \in Pushed, PullFlow(f) PROVE SkipInv'
  <2>1. /\ IsFlow(f) /\ row[f] = "queued" /\ job' = job /\ flow_status' = flow_status
        /\ worker.pc = "idle"
        /\ \/ /\ row' = [row EXCEPT ![f] = "running"] /\ worker'.flow = f /\ worker'.job = 0
              /\ canceled' = canceled
              /\ worker'.pc = "start" \/ (worker'.pc = "update" /\ ~worker'.success /\ f \in canceled)
           \/ /\ job[f].parent # 0 /\ Complete(f, "canceled")
              /\ worker'.pc = "update" /\ worker'.flow = job[f].parent /\ worker'.job = f
              /\ ~worker'.success
    BY <1>1, PullFlowEffect DEF Rest
  <2>2. worker'.stop = "none" /\ ~worker'.triggered /\ ~worker'.unrecoverable
    BY <1>0, <1>1, WorkerFields
  <2>3. (IsPreprocessorStep(f) \/ AtStart(f)) /\ Live(f)
    BY <2>1 DEF LossInv, StartWell, InQueue, Live
  <2>4. CASE /\ row' = [row EXCEPT ![f] = "running"] /\ worker'.flow = f /\ worker'.job = 0
             /\ canceled' = canceled
             /\ worker'.pc = "start" \/ (worker'.pc = "update" /\ ~worker'.success /\ f \in canceled)
    BY <1>0, <1>k, <1>s, <2>1, <2>2, <2>3, <2>4, SkipRefused
  <2>5. CASE /\ job[f].parent # 0 /\ Complete(f, "canceled")
             /\ worker'.pc = "update" /\ worker'.flow = job[f].parent /\ worker'.job = f
             /\ ~worker'.success
    BY <1>0, <1>c, <1>f, <1>k, <2>1, <2>2, <2>3, <2>5, SkipReports
  <2> QED BY <2>1, <2>4, <2>5
<1>2. ASSUME NEW j \in Pushed, PullStep(j) PROVE SkipInv'
  BY <1>0, <1>2, <1>k, <1>s, PullStepEffect, WorkerFields DEF Rest
<1>3. ASSUME NEW s \in Ended \ {"skipped"}, FinishStep(s) PROVE SkipInv'
  <2>1. PICK j \in Pushed : j = worker.job
    BY <1>3, FinishStepEffect
  <2>2. /\ worker.pc = "run" /\ ~IsFlow(j) /\ worker.flow = job[j].parent /\ worker.flow \in Pushed
        /\ job' = job /\ flow_status' = flow_status
        /\ worker'.pc = "update" /\ worker'.flow = job[j].parent /\ worker'.job = j
        /\ \/ Complete(j, s) /\ worker'.success = (s = "success")
           \/ ~InQueue(j) /\ ~worker'.success /\ row' = row
    BY <1>3, <2>1, FinishStepEffect DEF Rest
  <2>3. worker'.stop = "none"
    BY <1>0, <1>3, <2>2, WorkerFields DEF SkipInv, StopKnown
  <2>4. Live(j) /\ job[j].parent # 0
    BY <1>0, <2>1, <2>2 DEF Live
  <2>5. worker'.success \/ row'[j] \in {"failure", "canceled"}
    BY <1>3, <1>c, <2>2, <2>4 DEF Ended, LossInv, LiveRows
  <2>6. WorkerSkip'
    BY <1>f, <2>2, <2>3, <2>4, <2>5, SkipReports
  <2>7. \A k \in Pushed : row'[k] = "success" /\ IsFlow(k) => row[k] = "success"
    BY <1>3, <1>c, <2>2
  <2> QED BY <1>k, <2>2, <2>6, <2>7
<1>5. ASSUME Preprocess PROVE SkipInv'
  BY <1>0, <1>5, <1>i, <1>k DEF Preprocess, Base, WorkerInv
<1>6. ASSUME UpdateFails PROVE SkipInv'
  <2>1. /\ worker.pc \in {"update", "preprocessed"}
        /\ worker' = [worker EXCEPT !.pc = "update", !.success = FALSE, !.unrecoverable = TRUE]
        /\ UNCHANGED <<job, row, canceled, flow_status, history>> /\ faults' > 0
    BY <1>0, <1>6 DEF UpdateFails, TypeOK
  <2>2. /\ worker'.pc = "update" /\ worker'.flow = worker.flow /\ worker'.job = worker.job
        /\ ~worker'.success /\ worker'.unrecoverable /\ worker'.stop = worker.stop
    BY <1>0, <2>1 DEF WorkerState
  <2>3. PICK f \in Pushed : f = worker.flow /\ IsFlow(f)
    BY <2>1 DEF Base, WorkerInv
  <2>4. /\ Pushed' = Pushed /\ InQueue(f)' = InQueue(f) /\ Size(f)' = Size(f) /\ Size(f) \in Nat
        /\ IsFailureStep(f)' = IsFailureStep(f) /\ (Passed(f) => Passed(f)')
        /\ \A c \in Pushed : Matches(c, f)' = Matches(c, f) /\ IsFlow(c)' = IsFlow(c)
        /\ ChildrenAt(f, Size(f)) # {} => ChildrenAt(f, Size(f))' # {}
        /\ Stopped \subseteq Stopped'
    <3>1. Size(f)' = Size(f) /\ Size(f) \in Nat
      BY <2>1, <2>3, SameFlow, ModuleFacts DEF Base
    <3>2. ChildrenAt(f, Size(f))' = ChildrenAt(f, Size(f))
      BY <2>1, <3>1 DEF ChildrenAt, Children, Pushed
    <3>3. \A c \in Pushed : Matches(c, f)' = Matches(c, f) /\ IsFlow(c)' = IsFlow(c)
      BY <2>1, ClearStable, SameFlow
    <3>4. Passed(f) => Passed(f)'
      BY <2>1, <2>3, ThroughStable
    <3> QED BY <2>1, <3>1, <3>2, <3>3, <3>4, StoppedGrows DEF Pushed, InQueue, IsFailureStep
  <2>5. \A c \in Pushed : Matches(c, f) => (Fits(c)' <=> Fits(c)) /\ job[c].parent = f /\ f # 0
    <3>1. ASSUME NEW c \in Pushed, Matches(c, f)
          PROVE  (Fits(c)' <=> Fits(c)) /\ job[c].parent = f /\ f # 0
      BY <1>0, <2>1, <3>1, StoppedGrows DEF Matches, Fits, InProgress
    <3> QED BY <3>1
  <2>6. /\ InQueue(f) => Passed(f)
        /\ InQueue(f) /\ IsFailureStep(f) => ChildrenAt(f, Size(f)) # {}
        /\ \A c \in Pushed : InQueue(f) /\ Matches(c, f) /\ c = worker.job => Fits(c)
    <3>1. CASE worker.pc = "update"
      BY <2>3, <3>1 DEF SkipInv, WorkThrough, ReportKnown
    <3>2. CASE worker.pc = "preprocessed"
      <4>1. AtStart(f)
        BY <2>3, <3>2 DEF LossInv, WorkerClear
      <4>2. Passed(f) /\ ~IsFailureStep(f)
        BY <2>4, <4>1 DEF AtStart, Passed, IsFailureStep
      <4>3. ASSUME NEW c \in Pushed, InQueue(f), Matches(c, f) PROVE FALSE
        <5>1. job[c].parent = f /\ job[c].step = 0 /\ f # 0
          BY <2>5, <4>1, <4>3 DEF Matches, AtStart
        <5>2. CASE Size(f) = 0
          BY <5>1, <5>2 DEF LossInv, OuterScripts, PreprocessorStep
        <5>3. CASE Size(f) > 0
          BY <4>1, <4>3, <5>1, <5>3 DEF TokenInv, FirstChildren, NotStarted, AtStart, PreprocessorStep
        <5> QED BY <2>4, <5>2, <5>3
      <4> QED BY <4>2, <4>3
    <3> QED BY <2>1, <3>1, <3>2
  <2>7. WorkThrough'
    BY <2>2, <2>3, <2>4, <2>6 DEF WorkThrough
  <2>8. StopKnown'
    BY <2>1, <2>2, <2>3, <2>4 DEF SkipInv, StopKnown, InQueue, Matches
  <2>9. ReportKnown'
    BY <2>2, <2>3, <2>4, <2>5, <2>6 DEF ReportKnown
  <2>10. WorkerSkip'
    BY <2>2, <2>7, <2>8, <2>9 DEF WorkerSkip, HandlerKnown, FreshWorker
  <2> QED BY <1>k, <2>1, <2>10
<1>t. ASSUME NEW f \in Pushed, f = worker.flow, IsFlow(f), Live(f), job' = job,
             flow_status' = flow_status, ReportsTo(f),
             job[f].parent # 0 =>
                /\ worker'.success \/ ReportsFailure(f)' \/ worker'.stop # "none"
                /\ worker'.stop # "none" => worker'.stop # "error" /\ f \in Stopped
      PROVE  WorkerSkip'
  <2>1. CASE job[f].parent = 0
    BY <1>0, <1>i, <1>t, <2>1 DEF ReportsTo
  <2>2. CASE job[f].parent # 0
    BY <1>t, <2>2, SkipReports DEF ReportsTo
  <2> QED BY <2>1, <2>2
<1>7. ASSUME NEW recover \in BOOLEAN, FinishFlow(recover) PROVE SkipInv'
  <2>1. PICK f \in Pushed : f = worker.flow
    BY <1>7, FinishFlowEffect
  <2>2. /\ worker.pc = "finish" /\ IsFlow(f) /\ job' = job /\ flow_status' = flow_status
        /\ \/ InQueue(f) /\ ReportsTo(f)
           \/ ~InQueue(f) /\ worker' = Idle /\ row' = row
    BY <1>7, <2>1, FinishFlowEffect DEF Rest
  <2>3. CASE ~InQueue(f) /\ worker' = Idle /\ row' = row
    BY <1>0, <1>i, <1>k, <2>2, <2>3
  <2>4. CASE InQueue(f) /\ ReportsTo(f)
    <3>1. PICK s : s = CASE f \in canceled -> "canceled"
                         [] f \notin canceled /\ worker.stop = "skip" -> "skipped"
                         [] OTHER -> IF worker.success /\ (worker.handler => recover)
                                       THEN "success" ELSE "failure"
      OBVIOUS
    <3>2. Complete(f, s) /\ worker' = ReportToParent(worker)
      BY <1>7, <2>1, <2>4, <3>1 DEF FinishFlow
    <3>3. /\ s \in Ended
          /\ s = "success" => worker.success /\ f \notin canceled
          /\ s \in {"failure", "canceled"} \/ worker.stop = "skip" \/ worker.success
      BY <3>1 DEF Ended
    <3>4. row'[f] = s /\ \A k \in Pushed \ {f} : row'[k] = row[k]
      BY <1>c, <3>2, <3>3
    <3>5. s = "success" => AllThrough(f) /\ ~IsPreprocessorStep(f)
      BY <2>1, <2>2, <2>4, <3>3 DEF SkipInv, WorkThrough
    <3>6. worker.stop # "none" => f \in Stopped
      BY <2>1, <2>2 DEF SkipInv, StopKnown
    <3>7. worker.handler => ReportsFailure(f)'
      BY <2>1, <2>2, SameFlow DEF SkipInv, HandlerKnown, ChildrenAt, Children, Pushed,
         ReportsFailure
    <3>8. Live(f)
      BY <2>1, <2>2 DEF Live
    <3>9. job[f].parent # 0 =>
            /\ worker'.success \/ ReportsFailure(f)' \/ worker'.stop # "none"
            /\ worker'.stop # "none" => worker'.stop # "error" /\ f \in Stopped
      BY <1>0, <1>f, <2>1, <3>2, <3>3, <3>4, <3>6, <3>7, WorkerFields
    <3>10. WorkerSkip'
      BY <1>t, <2>1, <2>2, <2>4, <3>8, <3>9
    <3> QED BY <1>k, <2>2, <3>4, <3>5, <3>10
  <2> QED BY <2>2, <2>3, <2>4
<1>10. ASSUME PushFails PROVE SkipInv'
  <2>1. PICK f \in Pushed : f = worker.flow
    BY <1>10, PushFailsEffect
  <2>2. /\ worker.pc \in {"start", "push"} /\ IsFlow(f) /\ job' = job /\ flow_status' = flow_status
        /\ \/ /\ worker.pc = "start" /\ job[f].parent = 0 /\ worker'.flow = f /\ worker'.job = 0
              /\ worker'.pc = "update" /\ ~worker'.success
              /\ row' = [row EXCEPT ![f] = IF InQueue(f) THEN "running" ELSE row[f]]
           \/ /\ ReportsTo(f)
              /\ (InQueue(f) /\ Complete(f, "failure")) \/ (~InQueue(f) /\ row' = row)
    BY <1>10, <2>1, PushFailsEffect
  <2>3. /\ faults' = faults + 1 \/ HandlerIsMissing(f) \/ ~InQueue(f)
        /\ \/ worker.pc = "start" /\ HandleJobError(f, "failure")
           \/ worker.pc = "push" /\ worker' = ReportToParent(worker)
    BY <1>10, <2>1 DEF PushFails
  <2>4. CASE /\ worker.pc = "start" /\ job[f].parent = 0 /\ worker'.flow = f /\ worker'.job = 0
             /\ worker'.pc = "update" /\ ~worker'.success
             /\ row' = [row EXCEPT ![f] = IF InQueue(f) THEN "running" ELSE row[f]]
    <3>1. IsPreprocessorStep(f) \/ AtStart(f)
      BY <2>1, <2>4 DEF LossInv, WorkerClear
    <3>2. worker'.stop = "none" /\ f = Root
      BY <1>0, <2>3, <2>4, WorkerFields DEF SkipInv, Rooted
    <3>3. faults \in Nat
      BY FaultsGrow
    <3>4. \A k \in Pushed : /\ row'[k] = "success" => row[k] = "success"
                            /\ ~InQueue(k) => ~InQueue(k)'
      BY <1>0, <2>4 DEF InQueue
    <3>5. HandlerIsMissing(f) => IsPreprocessorStep(f)
      BY <3>1 DEF HandlerIsMissing, RunsHandler, AtStart
    <3>6. WorkerSkip'
      BY <2>2, <2>3, <2>4, <3>1, <3>2, <3>3, <3>4, <3>5, SkipRefused
    <3> QED BY <1>k, <2>2, <3>4, <3>6
  <2>5. CASE /\ ReportsTo(f)
             /\ (InQueue(f) /\ Complete(f, "failure")) \/ (~InQueue(f) /\ row' = row)
    <3>1. Live(f)
      BY <2>1, <2>2 DEF Live
    <3>2. /\ row'[f] \in {"failure", "canceled"}
          /\ \A k \in Pushed : row'[k] = "success" => row[k] = "success"
      BY <1>0, <1>c, <2>5, <3>1 DEF LossInv, LiveRows
    <3>3. job[f].parent # 0 /\ worker'.stop # "none" => worker'.stop # "error" /\ f \in Stopped
      <4>1. CASE worker.pc = "start" /\ HandleJobError(f, "failure")
        BY <1>0, <4>1, WorkerFields
      <4>2. CASE worker.pc = "push" /\ worker' = ReportToParent(worker)
        BY <1>0, <2>1, <4>2, WorkerFields DEF SkipInv, StopKnown
      <4> QED BY <2>3, <4>1, <4>2
    <3>4. WorkerSkip'
      BY <1>f, <1>t, <2>1, <2>2, <2>5, <3>1, <3>2, <3>3
    <3> QED BY <1>k, <2>2, <3>2, <3>4
  <2> QED BY <2>2, <2>4, <2>5
<1>w. ASSUME UNCHANGED <<job, flow_status, worker>>,
             \A k \in Pushed : k \in canceled /\ InQueue(k)' => k \in canceled',
             \A k \in Pushed : row'[k] = "success" /\ IsFlow(k) => row[k] = "success"
      PROVE  SkipInv'
  BY <1>k, <1>w, SkipSame
<1>11. ASSUME NEW j \in Pushed, KillJob(j) PROVE SkipInv'
  <2>1. /\ UNCHANGED <<job, flow_status, worker>>
        /\ Complete(j, "canceled") \/ UNCHANGED <<row, canceled>>
    BY <1>11 DEF KillJob
  <2>2. CASE Complete(j, "canceled")
    BY <1>0, <1>c, <1>w, <2>1, <2>2 DEF Complete, InQueue
  <2>3. CASE UNCHANGED <<row, canceled>>
    BY <1>w, <2>1, <2>3
  <2> QED BY <2>1, <2>2, <2>3
<1>12. ASSUME NEW j \in Pushed, RestartStep(j) PROVE SkipInv'
  BY <1>0, <1>w, <1>12 DEF RestartStep
<1>13. ASSUME NEW f \in Pushed, HandleZombieFlow(f) PROVE SkipInv'
  BY <1>0, <1>w, <1>13 DEF HandleZombieFlow, ForceCancel
<1>14. ASSUME \/ \E j \in Pushed : PingExpires(j) \/ Cancel(j)
              \/ CrashServer \/ UNCHANGED vars
       PROVE  SkipInv'
  BY <1>w, <1>14 DEF PingExpires, Cancel, CrashServer, vars, ForceCancel, SoftCancel
<1>15. ASSUME Crash PROVE SkipInv'
  BY <1>0, <1>i, <1>k, <1>15, FaultsGrow DEF Crash
<1> QED BY <1>1, <1>2, <1>3, <1>5, <1>6, <1>7, <1>10, <1>11, <1>12, <1>13, <1>14, <1>15,
           SkipUpdate, SkipEmpty, SkipPush DEF Next, WorkerStep, MonitorStep

(* Initially nothing is passed over. *)
LEMMA SkipInit ==
  ASSUME Init
  PROVE  SkipInv
<1>1. PICK n \in Roots : job = <<JobOf(n, 0, 0, 0, 0, 0)>>
  BY DEF Init
<1>2. Pushed = {1} /\ job[1].parent = 0
  BY <1>1 DEF Pushed, JobOf
<1>3. /\ worker.pc = "idle" /\ row[1] = "queued"
      /\ flow_status[1] = NewStatus(1 = Root /\ Value(1).preprocessor)
  BY NestedFlowAssumption DEF Job, Init, Idle, Root, Value
<1>4. Rooted /\ ItemsCounted /\ EndedThrough /\ LiveThrough
  BY <1>2, <1>3 DEF Rooted, ItemsCounted, EndedThrough, LiveThrough, Root
<1>5. PreprocessKnown
  BY <1>3 DEF PreprocessKnown, NewStatus, IsPreprocessorStep, Root
<1> QED BY <1>3, <1>4, <1>5 DEF SkipInv, WorkThrough, StopKnown, ReportKnown, HandlerKnown,
                                FreshWorker

(* What has been passed is known at the end. *)
LEMMA SkipMeans ==
  ASSUME Base, LossInv, SkipInv
  PROVE  NothingIsSkipped
<1>1. SUFFICES ASSUME NEW f \in Pushed, IsFlow(f), row[f] = "success", f \notin Stopped,
                      ChildrenAt(f, Size(f)) = {}
               PROVE  /\ \A i \in 0 .. Size(f) - 1 : IsThrough(f, i)
                      /\ f = Root /\ Value(f).preprocessor =>
                            <<f, PreprocessorStep, "preprocessed">> \in history \/ faults > 0
  BY DEF NothingIsSkipped
<1>2. AllThrough(f) /\ ~IsPreprocessorStep(f)
  BY <1>1 DEF SkipInv, EndedThrough
<1>3. \A i \in 0 .. Size(f) - 1 : IsThrough(f, i)
  BY <1>1, <1>2 DEF AllThrough
<1>4. ASSUME f = Root, Value(f).preprocessor, faults = 0
      PROVE  <<f, PreprocessorStep, "preprocessed">> \in history
  BY <1>1, <1>2, <1>4 DEF LossInv, LiveRows, Live, InQueue, SkipInv, PreprocessKnown
<1>5. faults \in Nat
  BY NestedFlowAssumption DEF Base, TypeOK
<1> QED BY <1>3, <1>4, <1>5

(* A flow that ends as a success, without a predicate that stops it and without its failure     *)
(* module, has gone through every one of its modules, every branch and every item of it, however *)
(* flows are nested and whatever dies, fails or is cancelled; and without a death it has had its *)
(* arguments from its preprocessor.                                                              *)
THEOREM NothingSkipped ==
  ASSUME NoEmptyHandlers
  PROVE  Spec => []NothingIsSkipped
<1>1. Init => LossInv /\ SkipInv
  BY LossInit, SkipInit
<1>2. /\ Base /\ TokenInv /\ ChildInv /\ IterInv /\ OrderInv /\ LossInv /\ SkipInv
      /\ [Next]_vars
      => LossInv' /\ SkipInv'
  BY LossStep, SkipStep
<1>3. Base /\ LossInv /\ SkipInv => NothingIsSkipped
  BY SkipMeans
<1> QED BY <1>1, <1>2, <1>3, IterationInvariant, PTL DEF Spec

-----------------------------------------------------------------------------
(* Failures are handled once.                                              *)

\* The job that was pushed last.  The job and the flows above it.
Last == Len(job)
Above(j) == FromBelow({j}, Pushed)

\* What is in the queue is on the way to the job that was pushed last, and so is the worker.
QueueAbove == \A l \in Pushed : l = Last => \A k \in Pushed : InQueue(k) => k \in Above(l)
WorkAbove ==
    \A l \in Pushed : l = Last /\ worker.pc # "idle" =>
        worker.flow \in Above(l) /\ (worker.job # 0 => worker.job \in Above(l))
QueueAboveWork ==
    \A w \in Pushed : worker.flow = w /\ worker.pc \notin {"idle", "run"} =>
        \A k \in Pushed : InQueue(k) => k \in Above(w)
PathInv == QueueAbove /\ WorkAbove /\ QueueAboveWork

\* No job is past the flow's status, and a flow that is started has only had runs of its
\* preprocessor.
StepsBelow ==
    \A c, p \in Pushed : job[c].parent = p /\ InQueue(p) => job[c].step <= flow_status[p].step
StartFresh ==
    \A f \in Pushed : worker.pc = "start" /\ worker.flow = f =>
        \A c \in Children(f) : job[c].step = PreprocessorStep /\ ~IsFlow(c)

\* The failure module is run once, and nothing is pushed after it.
OneHandler ==
    \A f \in Pushed : IsFlow(f) /\ Size(f) > 0 =>
        /\ \A g, h \in ChildrenAt(f, Size(f)) : g = h
        /\ worker.pc \in {"start", "push"} /\ worker.flow = f => ChildrenAt(f, Size(f)) = {}

\* A branch or iteration has a failure module if the flow above it has one.
InlineHandlers ==
    \A c, p \in Pushed : job[c].parent = p /\ IsInline(c) =>
        Value(c).failure_module = Value(p).failure_module
HandlerInv == StepsBelow /\ StartFresh /\ OneHandler /\ InlineHandlers

\* The job that was pushed last handles failures of the flow.
LastHandles(f) == \E h \in Pushed : h = Last /\ IsHandler(h) /\ f \in Within(h)

\* What a report knows of the failure modules that were run: has_triggered_error_handler says
\* that the last job was one, of the flow that is reported or within it.
ReportTriggered ==
    faults = 0 /\ worker.pc = "update" =>
        /\ worker.success \/ ~worker.unrecoverable
        /\ worker.triggered => worker.job # 0
        /\ \A f \in Pushed : worker.flow = f /\ worker.job = 0 /\ InQueue(f) =>
              /\ ~IsFailureStep(f)
              /\ worker.success \/ (~LastHandles(f) /\ (f \in canceled \/ ~Value(f).failure_module))
        /\ \A c \in Pushed : worker.job = c =>
              /\ worker.triggered => LastHandles(c)
              /\ worker.stop # "none" /\ Value(c).failure_module => c \in EndedEarly
              /\ IsFlow(c) /\ Value(c).failure_module /\ ~worker.success /\ LastHandles(c) =>
                    worker.triggered \/ c \in CutShort

\* The same of a flow that goes on or is completed: it is completed as a failure only if that
\* was handled, or was not to be.
GoesTriggered ==
    faults = 0 /\ worker.pc \in {"push", "finish"} =>
        \A f \in Pushed : worker.flow = f /\ (worker.triggered \/ worker.handler) => LastHandles(f)
FinishTriggered ==
    faults = 0 /\ worker.pc = "finish" =>
        \A f \in Pushed : worker.flow = f /\ Value(f).failure_module =>
            /\ worker.stop # "none" => f \in EndedEarly
            /\ ~worker.success /\ LastHandles(f) =>
                  worker.triggered \/ worker.handler \/ f \in CutShort
            /\ \/ worker.success /\ ~worker.handler
               \/ LastHandles(f) \/ f \in EndedEarly \/ f \in canceled \/ ~InQueue(f)
               \/ Size(f) = 0 \/ ModuleAt(f, Size(f) - 1).continue_on_error

\* The failure module is about to be run, and nothing has handled the failure.
PushTriggered ==
    faults = 0 /\ worker.pc = "push" =>
        \A f \in Pushed : worker.flow = f /\ Value(f).failure_module
                          /\ (RunsHandler(f) \/ IsFailureStep(f)) =>
            \A c \in Children(f) \cap InlineJobs : LastHandles(c) => FailsAnew(f, c)

WorkerHandled == ReportTriggered /\ GoesTriggered /\ FinishTriggered /\ PushTriggered
HandledInv == WorkerHandled /\ HandledOnce

(* A job is above another one if it is that one or has a job that is. *)
LEMMA AboveFix == \A j : BelowIs(Above(j), {j}, Pushed)
  BY BelowFix DEF BelowIs, Above

(* The flows that a job is in are the flow above it, and those that pass it on. *)
LEMMA WithinFix == \A j : BelowIs(Within(j), {job[j].parent}, InlineJobs)
  BY BelowFix DEF BelowIs, Within

(* The same after a step. *)
LEMMA BelowFixNext ==
  /\ (\A j : BelowIs(Above(j), {j}, Pushed))'
  /\ (\A j : BelowIs(Within(j), {job[j].parent}, InlineJobs))'
<1>1. (\A j : BelowIs(Above(j), {j}, Pushed)) /\ (\A j : BelowIs(Within(j), {job[j].parent}, InlineJobs))
  BY AboveFix, WithinFix
<1> QED BY <1>1, PTL

(* The flows above a job are a chain of earlier jobs: no two of them have the same flow above     *)
(* them.                                                                                          *)
LEMMA AboveFacts ==
  ASSUME Base, NEW j \in Pushed
  PROVE  /\ Above(j) \subseteq Pushed /\ j \in Above(j)
         /\ \A k \in Above(j) : /\ k <= j /\ (k # j => IsFlow(k))
                                /\ job[k].parent # 0 => job[k].parent \in Above(j)
                                /\ Above(k) \subseteq Above(j)
         /\ job[j].parent # 0 => Above(j) = {j} \cup Above(job[j].parent)
         /\ \A k, m \in Above(j) : k <= m => k \in Above(m)
         /\ \A c, d \in Above(j) : job[c].parent # 0 /\ job[c].parent = job[d].parent => c = d
<1>1. /\ Pushed = 1 .. Len(job) /\ Len(job) \in Nat
      /\ \A k \in Pushed : /\ k \in Nat /\ job[k].parent \in Nat /\ job[k].parent < k
                           /\ job[k].parent # 0 => job[k].parent \in Pushed /\ IsFlow(job[k].parent)
  BY JobFacts DEF Base, TypeOK, Pushed
<1>2. \A m, k : k \in Above(m) <=> /\ k \in Pushed
                                   /\ k = m \/ \E c \in Pushed : job[c].parent = k /\ c \in Above(m)
  BY AboveFix DEF BelowIs, Children
<1>3. \A m : Above(m) \in SUBSET (0 .. Len(job)) /\ Above(m) \subseteq Pushed
  BY <1>1, <1>2
<1>4. \A m \in Pushed : m \in Above(m)
  BY <1>2
<1>5. \A m, k : k \in Above(m) /\ job[k].parent # 0 => job[k].parent \in Above(m)
  BY <1>1, <1>2
<1>6. ASSUME NEW m \in Pushed, NEW k \in Above(m) PROVE Above(k) \subseteq Above(m)
  <2>1. \A i \in Above(k) : i \in Above(m) \/ \E c \in Above(k) : c > i /\ (c \in Above(m) => i \in Above(m))
    <3>1. SUFFICES ASSUME NEW i \in Above(k), i # k
                   PROVE  \E c \in Above(k) : c > i /\ (c \in Above(m) => i \in Above(m))
      BY <1>6
    <3>2. PICK c \in Pushed : job[c].parent = i /\ c \in Above(k)
      BY <1>2, <3>1
    <3> QED BY <1>1, <1>2, <1>3, <3>2
  <2> QED BY <1>1, <1>3, <2>1, FromLater
<1>7. ASSUME NEW m \in Pushed PROVE \A k \in Above(m) : k <= m
  <2> DEFINE Y == {k \in Nat : k <= m}
  <2>1. \A i \in Above(m) : i \in Y \/ \E c \in Above(m) : c > i /\ (c \in Y => i \in Y)
    <3>1. SUFFICES ASSUME NEW i \in Above(m), i # m
                   PROVE  \E c \in Above(m) : c > i /\ (c \in Y => i \in Y)
      BY <1>1
    <3>2. PICK c \in Pushed : job[c].parent = i /\ c \in Above(m)
      BY <1>2, <3>1
    <3>3. c > i /\ i \in Nat /\ c \in Nat /\ m \in Nat
      BY <1>1, <1>3, <3>2
    <3> QED BY <3>2, <3>3
  <2> HIDE DEF Y
  <2>2. Above(m) \subseteq Y
    BY <1>1, <1>3, <2>1, FromLater
  <2> QED BY <2>2 DEF Y
<1>8. ASSUME NEW m \in Pushed, job[m].parent # 0 PROVE Above(m) = {m} \cup Above(job[m].parent)
  <2>1. PICK p \in Pushed : p = job[m].parent
    BY <1>1, <1>8
  <2>2. Above(p) \subseteq Above(m)
    BY <1>4, <1>5, <1>6, <1>8, <2>1
  <2> DEFINE Y == {m} \cup Above(p)
  <2>3. \A i \in Above(m) : i \in Y \/ \E c \in Above(m) : c > i /\ (c \in Y => i \in Y)
    <3>1. SUFFICES ASSUME NEW i \in Above(m), i # m
                   PROVE  \E c \in Above(m) : c > i /\ (c \in {m} \cup Above(p) => i \in Above(p))
      OBVIOUS
    <3>2. PICK c \in Pushed : job[c].parent = i /\ c \in Above(m)
      BY <1>2, <3>1
    <3>3. c > i /\ i \in Pushed
      BY <1>1, <1>3, <3>2
    <3>4. c = m => i \in Above(p)
      BY <1>4, <2>1, <3>2
    <3>5. c \in Above(p) => i \in Above(p)
      BY <1>2, <3>2, <3>3
    <3> QED BY <3>2, <3>3, <3>4, <3>5
  <2> HIDE DEF Y
  <2>4. Above(m) \in SUBSET (0 .. Len(job)) /\ Len(job) \in Nat
    BY <1>1, <1>3
  <2>5. Above(m) \subseteq Y
    BY <2>3, <2>4, FromLater
  <2> QED BY <1>4, <2>1, <2>2, <2>5 DEF Y
<1>9. \A k, m \in Above(j) : k <= m => k \in Above(m)
  <2> DEFINE Y == {k \in Above(j) : \A m \in Above(j) : k <= m => k \in Above(m)}
  <2>1. \A i \in Above(j) : i \in Y \/ \E c \in Above(j) : c > i /\ (c \in Y => i \in Y)
    <3>1. SUFFICES ASSUME NEW i \in Above(j), \A c \in Above(j) : c > i => c \in Y,
                          NEW m \in Above(j), i <= m
                   PROVE  i \in Above(m)
      OBVIOUS
    <3>2. CASE i = m
      BY <1>3, <1>4, <3>2
    <3>3. CASE i # m
      <4>1. m \in Pushed /\ i \in Pushed /\ m > i /\ m \in Y
        BY <1>1, <1>3, <3>1, <3>3
      <4>2. i # j
        BY <1>1, <1>7, <4>1
      <4>3. PICK c \in Pushed : job[c].parent = i /\ c \in Above(j)
        BY <1>2, <4>2
      <4>4. c > i /\ c \in Y
        BY <1>1, <3>1, <4>1, <4>3
      <4>5. CASE c <= m
        BY <1>2, <4>1, <4>3, <4>4, <4>5
      <4>6. CASE m < c
        BY <1>1, <1>7, <1>8, <4>1, <4>3, <4>6
      <4> QED BY <1>1, <4>1, <4>5, <4>6
    <3> QED BY <3>2, <3>3
  <2> HIDE DEF Y
  <2>2. Above(j) \subseteq Y
    BY <1>1, <1>3, <2>1, FromLater
  <2> QED BY <2>2 DEF Y
<1>10. ASSUME NEW c \in Above(j), NEW d \in Above(j), job[c].parent # 0,
              job[c].parent = job[d].parent, c <= d
       PROVE  c = d
  BY <1>1, <1>3, <1>7, <1>8, <1>9, <1>10
<1>11. \A c, d \in Above(j) : job[c].parent # 0 /\ job[c].parent = job[d].parent => c = d
  BY <1>1, <1>3, <1>10
<1>12. \A k \in Above(j) : k # j => IsFlow(k)
  <2>1. SUFFICES ASSUME NEW k \in Above(j), k # j PROVE IsFlow(k)
    OBVIOUS
  <2>2. PICK c \in Pushed : job[c].parent = k
    BY <1>2, <2>1
  <2> QED BY <1>1, <1>3, <2>1, <2>2
<1> QED BY <1>3, <1>4, <1>5, <1>6, <1>7, <1>8, <1>9, <1>11, <1>12

(* What passes on from jobs that were there before a step is the same after it. *)
LEMMA BelowSame ==
  ASSUME Base, TokenInv, [Next]_vars, NEW S, NEW S2, NEW base, NEW pass, NEW pass2,
         BelowIs(S, base, pass), BelowIs(S2, base, pass2)', base \subseteq Pushed \cup {0},
         pass \subseteq pass2, \A c \in Pushed : c \in pass2 => c \in pass
  PROVE  S2 = S
<1>0. \A f : f \in S2 <=> /\ f \in Pushed'
                          /\ f \in base \/ \E c \in Children(f)' \cap pass2 : c \in S2
  BY DEF BelowIs
<1>1. Pushed \subseteq Pushed' /\ \A j \in Pushed : job'[j] = job[j]
  BY Stable
<1>2. TypeOK'
  BY BaseStep DEF Base
<1>3. /\ Pushed' = 1 .. Len(job') /\ Len(job') \in Nat
      /\ \A c \in Pushed' : job'[c].parent \in Nat /\ job'[c].parent < c /\ c \in Nat
  BY <1>2, SMTT(30) DEF TypeOK, Pushed, Job
<1>4. \A c \in Pushed : job[c].parent # 0 => job[c].parent \in Pushed
  BY JobFacts DEF Base
<1>5. S \subseteq S2
  BY BelowGrows
<1>6. ASSUME NEW f \in S2 PROVE f \in S \/ \E c \in S2 : c > f /\ (c \in S => f \in S)
  <2>1. f \in Pushed' /\ f # 0 /\ (f \in base \/ \E c \in Children(f)' \cap pass2 : c \in S2)
    BY <1>0, <1>3, <1>6
  <2>2. CASE f \in base
    BY <2>1, <2>2 DEF BelowIs
  <2>3. ASSUME NEW c \in Children(f)' \cap pass2, c \in S2
        PROVE  c > f /\ (c \in S => f \in S)
    <3>1. c \in Pushed' /\ job'[c].parent = f /\ c > f
      BY <1>3, <2>1, <2>3 DEF Children
    <3>2. ASSUME c \in S PROVE f \in S
      BY <1>1, <1>4, <2>1, <2>3, <3>1, <3>2 DEF BelowIs, Children
    <3> QED BY <3>1, <3>2
  <2> QED BY <2>1, <2>2, <2>3
<1>7. S2 \in SUBSET (0 .. Len(job'))
  BY <1>0, <1>3
<1>8. S2 \subseteq S
  BY <1>3, <1>6, <1>7, FromLater
<1> QED BY <1>5, <1>8

(* A job stays where it is in the tree, and what failure module it was a run of. *)
LEMMA TreeStable ==
  ASSUME Base, TokenInv, [Next]_vars, NEW j \in Pushed
  PROVE  /\ Above(j)' = Above(j) /\ Within(j)' = Within(j)
         /\ IsHandler(j)' = IsHandler(j)
         /\ IsInline(j)' = IsInline(j)
<1>1. /\ Pushed \subseteq Pushed' /\ \A k \in Pushed : job'[k] = job[k] /\ IsFlow(k)' = IsFlow(k)
  BY Stable, SameFlow
<1>2. /\ InlineJobs \subseteq InlineJobs' /\ Branches \subseteq Branches'
      /\ \A c \in Pushed : job[c].parent # 0 => ModuleOf(c)' = ModuleOf(c)
  BY StoppedGrows
<1>3. \A c \in Pushed : IsInline(c)' = IsInline(c)
  BY <1>1, <1>2 DEF IsInline
<1>4. PICK a, a2, w, w2, pass, pass2, inline, inline2, p :
        /\ a = Above(j) /\ a2 = Above(j)' /\ w = Within(j) /\ w2 = Within(j)'
        /\ pass = Pushed /\ pass2 = Pushed' /\ inline = InlineJobs /\ inline2 = InlineJobs'
        /\ p = job[j].parent
  OBVIOUS
<1>5. a2 = a
  <2>1. BelowIs(a, {j}, pass)
    BY <1>4, AboveFix
  <2>2. BelowIs(a2, {j}, pass2)'
    BY <1>4, BelowFixNext DEF BelowIs
  <2>3. {j} \subseteq Pushed \cup {0} /\ pass \subseteq pass2
    BY <1>1, <1>4
  <2> QED BY <1>4, <2>1, <2>2, <2>3, BelowSame
<1>6. w2 = w
  <2>1. BelowIs(w, {p}, inline)
    BY <1>4, WithinFix
  <2>2. BelowIs(w2, {p}, inline2)'
    BY <1>1, <1>4, BelowFixNext DEF BelowIs
  <2>3. {p} \subseteq Pushed \cup {0} /\ inline \subseteq inline2
    BY <1>2, <1>4, JobFacts DEF Base
  <2>4. \A c \in Pushed : c \in inline2 => c \in inline
    BY <1>3, <1>4 DEF InlineJobs
  <2> QED BY <2>1, <2>2, <2>3, <2>4, BelowSame
<1>7. IsHandler(j)' = IsHandler(j)
  BY <1>1, <1>4, JobFacts, SameFlow DEF Base, IsHandler, Size, Value
<1> QED BY <1>3, <1>4, <1>5, <1>6, <1>7

(* Where a flow is ended early or cut short, and what passes it on. *)
LEMMA EarlyFix ==
  /\ BelowIs(EndedEarly, StopsNoted({"stop", "skip"}) \cup broken, Branches)
  /\ BelowIs(CutShort, broken, InlineJobs)
  BY BelowFix DEF BelowIs, EndedEarly, CutShort

(* The same after a step. *)
LEMMA EarlyFixNext ==
  /\ BelowIs(EndedEarly, StopsNoted({"stop", "skip"}) \cup broken, Branches)'
  /\ BelowIs(CutShort, broken, InlineJobs)'
  BY EarlyFix, PTL

(* A flow that has ended early or was cut short stays so. *)
LEMMA EarlyGrows ==
  ASSUME Base, TokenInv, [Next]_vars
  PROVE  EndedEarly \subseteq EndedEarly' /\ CutShort \subseteq CutShort'
<1>1. /\ InlineJobs \subseteq InlineJobs' /\ Branches \subseteq Branches' /\ broken \subseteq broken'
      /\ StopsNoted({"stop", "skip"}) \subseteq StopsNoted({"stop", "skip"})'
  BY Stable, StoppedGrows
<1>2. /\ BelowIs(EndedEarly, StopsNoted({"stop", "skip"}) \cup broken, Branches)
      /\ BelowIs(CutShort, broken, InlineJobs)
  BY EarlyFix
<1>3. /\ BelowIs(EndedEarly, StopsNoted({"stop", "skip"}) \cup broken, Branches)'
      /\ BelowIs(CutShort, broken, InlineJobs)'
  BY EarlyFixNext
<1>4. PICK e, e2, c, c2, b, b2, k, k2, branches, branches2, inline, inline2 :
        /\ e = EndedEarly /\ e2 = EndedEarly' /\ c = CutShort /\ c2 = CutShort'
        /\ b = StopsNoted({"stop", "skip"}) \cup broken
        /\ b2 = StopsNoted({"stop", "skip"})' \cup broken' /\ k = broken /\ k2 = broken'
        /\ branches = Branches /\ branches2 = Branches'
        /\ inline = InlineJobs /\ inline2 = InlineJobs'
  OBVIOUS
<1>5. e \subseteq e2
  <2>1. BelowIs(e, b, branches) /\ b \subseteq b2 /\ branches \subseteq branches2
    BY <1>1, <1>2, <1>4
  <2>2. BelowIs(e2, b2, branches2)'
    BY <1>3, <1>4 DEF BelowIs
  <2> QED BY <2>1, <2>2, BelowGrows
<1>6. c \subseteq c2
  <2>1. BelowIs(c, k, inline) /\ k \subseteq k2 /\ inline \subseteq inline2
    BY <1>1, <1>2, <1>4
  <2>2. BelowIs(c2, k2, inline2)'
    BY <1>3, <1>4 DEF BelowIs
  <2> QED BY <2>1, <2>2, BelowGrows
<1> QED BY <1>4, <1>5, <1>6

(* The job that was pushed last is there, and is the last. *)
LEMMA LastFacts ==
  ASSUME Base
  PROVE  Last \in Pushed /\ \A k \in Pushed : k \in Nat /\ k <= Last
  BY NestedFlowAssumption DEF Base, TypeOK, Pushed, Job, Last

(* A flow is within the handling of the last job if that is its failure module, or one of a       *)
(* branch or iteration of it.                                                                     *)
LEMMA LastWithin ==
  ASSUME Base, NEW l \in Pushed, l = Last
  PROVE  /\ Within(l) \subseteq Above(l) /\ Within(l) \subseteq Pushed
         /\ \A f : LastHandles(f) <=> IsHandler(l) /\ f \in Within(l)
         /\ \A f : LastHandles(f) => f \in Pushed /\ IsFlow(f) /\ f \in Above(l) /\ IsHandler(l)
         /\ \A f \in Pushed : IsHandler(l) /\ job[l].parent = f => LastHandles(f)
         /\ \A f \in Pushed : \A c \in Children(f) \cap InlineJobs : LastHandles(c) => LastHandles(f)
         /\ \A f : LastHandles(f) /\ job[l].parent # f =>
               \E c \in Children(f) \cap InlineJobs : LastHandles(c)
<1>1. /\ \A f : f \in Within(l) <=> /\ f \in Pushed
                                    /\ f = job[l].parent \/ \E c \in Children(f) \cap InlineJobs : c \in Within(l)
  BY WithinFix DEF BelowIs
<1>2. \A f : LastHandles(f) <=> IsHandler(l) /\ f \in Within(l)
  BY DEF LastHandles
<1>3. /\ Pushed = 1 .. Len(job) /\ Len(job) \in Nat
      /\ \A k \in Pushed : /\ k \in Nat /\ job[k].parent \in Nat /\ job[k].parent < k
                           /\ job[k].parent # 0 => job[k].parent \in Pushed /\ IsFlow(job[k].parent)
  BY JobFacts DEF Base, TypeOK, Pushed
<1>4. \A k \in Above(l) : job[k].parent # 0 => job[k].parent \in Above(l)
  BY AboveFacts
<1>5. Within(l) \in SUBSET (0 .. Len(job)) /\ Len(job) \in Nat
  BY <1>1, <1>3
<1>6. \A f \in Within(l) : \/ f \in Above(l)
                           \/ \E c \in Within(l) : c > f /\ (c \in Above(l) => f \in Above(l))
  <2>1. SUFFICES ASSUME NEW f \in Within(l)
                 PROVE  f \in Above(l) \/ \E c \in Within(l) : c > f /\ (c \in Above(l) => f \in Above(l))
    OBVIOUS
  <2>2. CASE f = job[l].parent
    BY <1>1, <1>3, <1>4, <2>1, <2>2, AboveFacts
  <2>3. ASSUME NEW c \in Children(f) \cap InlineJobs, c \in Within(l)
        PROVE  c > f /\ (c \in Above(l) => f \in Above(l))
    BY <1>1, <1>3, <1>4, <2>1, <2>3 DEF Children
  <2> QED BY <1>1, <2>1, <2>2, <2>3
<1>7. Within(l) \subseteq Above(l)
  <2>1. PICK X, Y, m : X = Within(l) /\ Y = Above(l) /\ m = Len(job)
    OBVIOUS
  <2>2. /\ m \in Nat /\ X \in SUBSET (0 .. m)
        /\ \A f \in X : f \in Y \/ \E c \in X : c > f /\ (c \in Y => f \in Y)
    BY <1>5, <1>6, <2>1
  <2>3. X \subseteq Y
    BY <2>2, FromLater
  <2> QED BY <2>1, <2>3
<1>8. \A f \in Within(l) : f \in Pushed /\ IsFlow(f)
  BY <1>1, <1>3 DEF Children
<1> QED BY <1>1, <1>2, <1>7, <1>8

(* Without a push the last job is the same. *)
LEMMA LastSame ==
  ASSUME Base, TokenInv, [Next]_vars, job' = job
  PROVE  \A f : LastHandles(f)' = LastHandles(f)
<1>1. PICK l \in Pushed : l = Last
  BY LastFacts
<1>2. Last' = l /\ l \in Pushed' /\ Within(l)' = Within(l) /\ IsHandler(l)' = IsHandler(l)
  BY <1>1, TreeStable DEF Last, Pushed
<1>3. \A f : LastHandles(f) <=> IsHandler(l) /\ f \in Within(l)
  BY <1>1 DEF LastHandles
<1>4. \A f : LastHandles(f)' <=> IsHandler(l)' /\ f \in Within(l)'
  BY <1>2 DEF LastHandles
<1>5. \A f : LastHandles(f)' <=> LastHandles(f)
  BY <1>2, <1>3, <1>4
<1>6. \A f : LastHandles(f)' \in BOOLEAN /\ LastHandles(f) \in BOOLEAN
  BY DEF LastHandles
<1> QED BY <1>5, <1>6

(* The way to the last job holds all that is in the queue, step by step. *)
LEMMA PathStep ==
  ASSUME Base, TokenInv, ChildInv, LossInv, PathInv, [Next]_vars
  PROVE  PathInv'
<1>0. /\ TypeOK /\ row \in [Job -> {"none", "queued", "running"} \cup Ended]
      /\ \A j \in Pushed : j \in Job /\ j # 0 /\ row[j] # "none"
      /\ Idle.pc = "idle" /\ "failure" \in Ended /\ "canceled" \in Ended
      /\ worker \in WorkerState
      /\ \A j \in Pushed : job[j].parent # 0 => job[j].parent \in Pushed
  BY JobFacts DEF Base, TypeOK, Ended, Idle, RangeInv
<1>1. PICK l \in Pushed : l = Last
  BY LastFacts
<1>2. /\ \A k \in Pushed : InQueue(k) => k \in Above(l)
      /\ worker.pc # "idle" => worker.flow \in Above(l) /\ (worker.job # 0 => worker.job \in Above(l))
      /\ \A w \in Pushed : worker.flow = w /\ worker.pc \notin {"idle", "run"} =>
            \A k \in Pushed : InQueue(k) => k \in Above(w)
  BY <1>1 DEF PathInv, QueueAbove, WorkAbove, QueueAboveWork
<1>3. \A k \in Pushed : Above(k)' = Above(k) /\ (InQueue(k)' => InQueue(k))
  BY TreeStable, Stable
<1>4. /\ \A k \in Above(l) : /\ k \in Pushed /\ (k # l => IsFlow(k))
                             /\ job[k].parent # 0 => job[k].parent \in Above(l)
      /\ l \in Above(l)
  BY AboveFacts
<1>k. ASSUME job' = job,
             worker'.pc # "idle" =>
                worker'.flow \in Above(l) /\ (worker'.job # 0 => worker'.job \in Above(l)),
             \A w \in Pushed : worker'.flow = w /\ worker'.pc \notin {"idle", "run"} =>
                \A k \in Pushed : InQueue(k)' => k \in Above(w)
      PROVE  PathInv'
  <2>1. Pushed' = Pushed /\ Last' = l
    BY <1>1, <1>k DEF Pushed, Last
  <2>2. QueueAbove'
    BY <1>2, <1>3, <2>1 DEF QueueAbove
  <2>3. WorkAbove'
    BY <1>3, <1>k, <2>1 DEF WorkAbove
  <2>4. QueueAboveWork'
    BY <1>3, <1>k, <2>1 DEF QueueAboveWork
  <2> QED BY <2>2, <2>3, <2>4 DEF PathInv
<1>s. ASSUME job' = job, worker'.pc # "idle" => worker'.flow = worker.flow,
             worker'.pc # "idle" => worker'.job \in {0, worker.job},
             worker'.pc \notin {"idle", "run"} => worker.pc \notin {"idle", "run"},
             worker'.pc = "run" => worker.pc = "run"
      PROVE  PathInv'
  BY <1>2, <1>3, <1>k, <1>s
<1>t. ASSUME NEW f \in Pushed, f \in Above(l), job' = job, ReportsTo(f),
             \A k \in Pushed : InQueue(k)' => k \in Above(f) /\ k # f
      PROVE  PathInv'
  <2>1. CASE job[f].parent = 0
    BY <1>0, <1>k, <1>t, <2>1 DEF ReportsTo
  <2>2. CASE job[f].parent # 0
    BY <1>4, <1>k, <1>t, <2>2, AboveFacts DEF ReportsTo
  <2> QED BY <2>1, <2>2
<1>c. ASSUME NEW j \in Pushed, NEW s \in Ended, Complete(j, s)
      PROVE  ~InQueue(j)'
  BY <1>0, <1>c, CompleteEffect DEF InQueue, Ended
<1>5. ASSUME NEW f \in Pushed, PullFlow(f) PROVE PathInv'
  <2>1. /\ IsFlow(f) /\ row[f] = "queued" /\ InQueue(f) /\ job' = job
        /\ \/ /\ worker'.flow = f /\ worker'.job = 0
           \/ /\ job[f].parent # 0 /\ Complete(f, "canceled")
              /\ worker'.pc = "update" /\ worker'.flow = job[f].parent /\ worker'.job = f
    BY <1>5, PullFlowEffect DEF Rest, InQueue
  <2>2. f \in Above(l)
    BY <1>2, <2>1
  <2>3. ASSUME NEW k \in Pushed, InQueue(k) PROVE k \in Above(f)
    <3>1. CASE k <= f
      BY <1>2, <2>2, <2>3, <3>1, AboveFacts
    <3>2. CASE f < k
      <4>1. f \in Above(k) /\ f # k
        BY <1>2, <2>2, <2>3, <3>2, AboveFacts, LastFacts
      <4>2. PICK d \in Children(f) : d \in Above(k)
        BY <4>1, AboveFix DEF BelowIs
      <4>3. d \in Pushed /\ job[d].parent = f /\ f # 0
        BY <1>0 DEF Children
      <4>4. ~IsFlow(d)
        <5>1. IsPreprocessorStep(f) \/ AtStart(f)
          BY <2>1 DEF LossInv, StartWell
        <5>2. Size(f) \in Nat
          BY <1>0, <2>1, ModuleFacts
        <5>3. CASE Size(f) = 0
          BY <4>3, <5>3 DEF LossInv, OuterScripts
        <5>4. CASE Size(f) > 0
          BY <2>1, <4>3, <5>1, <5>4 DEF TokenInv, FirstChildren, NotStarted, AtStart
        <5> QED BY <5>2, <5>3, <5>4
      <4>5. d = k
        BY <4>2, <4>4, AboveFacts
      <4>6. Live(d)
        BY <2>3, <4>5 DEF Live
      <4> QED BY <2>1, <4>3, <4>6 DEF ChildInv, LiveWaited
    <3> QED BY <3>1, <3>2, LastFacts
  <2>4. CASE worker'.flow = f /\ worker'.job = 0
    BY <1>3, <1>k, <2>1, <2>2, <2>3, <2>4
  <2>5. CASE /\ job[f].parent # 0 /\ Complete(f, "canceled")
             /\ worker'.pc = "update" /\ worker'.flow = job[f].parent /\ worker'.job = f
    BY <1>0, <1>3, <1>c, <1>t, <2>1, <2>2, <2>3, <2>5 DEF ReportsTo
  <2> QED BY <2>1, <2>4, <2>5
<1>6. ASSUME NEW j \in Pushed, PullStep(j) PROVE PathInv'
  BY <1>2, <1>4, <1>6, <1>k, PullStepEffect DEF Rest, InQueue
<1>7. ASSUME NEW s \in Ended \ {"skipped"}, FinishStep(s) PROVE PathInv'
  <2>1. PICK j \in Pushed : j = worker.job
    BY <1>7, FinishStepEffect
  <2>2. /\ worker.pc = "run" /\ ~IsFlow(j) /\ worker.flow = job[j].parent /\ worker.flow \in Pushed
        /\ job' = job
        /\ worker'.pc = "update" /\ worker'.flow = job[j].parent /\ worker'.job = j
        /\ Complete(j, s) \/ (~InQueue(j) /\ row' = row)
    BY <1>7, <2>1, FinishStepEffect DEF Rest
  <2>3. j = l
    BY <1>0, <1>2, <1>4, <2>1, <2>2
  <2>4. ~InQueue(j)'
    BY <1>3, <1>7, <1>c, <2>2
  <2> QED BY <1>0, <1>2, <1>3, <1>4, <1>t, <2>2, <2>3, <2>4 DEF ReportsTo
<1>8. ASSUME UpdateStatus PROVE PathInv'
  BY <1>0, <1>8, <1>s, UpdateStatusEffect
<1>9. ASSUME Preprocess \/ Crash PROVE PathInv'
  BY <1>0, <1>9, <1>s DEF Preprocess, Crash
<1>10. ASSUME UpdateFails PROVE PathInv'
  BY <1>0, <1>s, <1>10 DEF UpdateFails, WorkerState
<1>11. ASSUME PushEmpty PROVE PathInv'
  BY <1>s, <1>11, PushEmptyEffect
<1>12. ASSUME NEW recover \in BOOLEAN, FinishFlow(recover) PROVE PathInv'
  <2>1. PICK f \in Pushed : f = worker.flow
    BY <1>12, FinishFlowEffect
  <2>2. /\ worker.pc = "finish" /\ job' = job
        /\ \/ ReportsTo(f) /\ \E s \in Ended : Complete(f, s)
           \/ worker' = Idle
    BY <1>12, <2>1, FinishFlowEffect DEF Rest
  <2>3. CASE worker' = Idle
    BY <1>0, <1>s, <2>2, <2>3
  <2>4. CASE ReportsTo(f) /\ \E s \in Ended : Complete(f, s)
    BY <1>2, <1>3, <1>c, <1>t, <2>1, <2>2, <2>4
  <2> QED BY <2>2, <2>3, <2>4
<1>13. ASSUME PushFails PROVE PathInv'
  <2>1. PICK f \in Pushed : f = worker.flow
    BY <1>13, PushFailsEffect
  <2>2. /\ worker.pc \in {"start", "push"} /\ job' = job
        /\ \/ worker'.pc = "update" /\ worker'.flow = f /\ worker'.job = 0
           \/ ReportsTo(f) /\ (Complete(f, "failure") \/ ~InQueue(f))
    BY <1>13, <2>1, PushFailsEffect
  <2>3. CASE worker'.pc = "update" /\ worker'.flow = f /\ worker'.job = 0
    BY <1>s, <2>1, <2>2, <2>3
  <2>4. CASE ReportsTo(f) /\ (Complete(f, "failure") \/ ~InQueue(f))
    BY <1>0, <1>2, <1>3, <1>c, <1>t, <2>1, <2>2, <2>4
  <2> QED BY <2>2, <2>3, <2>4
<1>14. ASSUME PushNext PROVE PathInv'
  <2>1. PICK f \in Pushed : f = worker.flow
    BY <1>14, PushNextEffect
  <2>2. PICK q : q = Len(job) + 1
    OBVIOUS
  <2>3. /\ worker.pc \in {"start", "push"} /\ worker' = Idle
        /\ q \notin Pushed /\ Pushed' = Pushed \cup {q} /\ Len(job') = q
    BY <1>14, <2>1, <2>2, PushNextEffect
  <2>4. job'[q].parent = f
    <3>1. PICK n \in NextFlowTransform(f) \ {EmptyInnerFlows} :
              job'[q] = JobOf(n.flow, f, PushedStep(f), n.index, n.len, Attempt(f))
      BY <1>14, <2>1, <2>2, PushNextEffect
    <3> QED BY <3>1 DEF JobOf
  <2>5. Last' = q
    BY <2>3 DEF Last
  <2>6. \A k : k \in Above(q)' <=> /\ k \in Pushed'
                                   /\ k = q \/ \E c \in Children(k)' : c \in Pushed' /\ c \in Above(q)'
    BY BelowFixNext DEF BelowIs
  <2>7. q \in Above(q)' /\ f \in Above(q)'
    BY <2>3, <2>4, <2>6 DEF Children
  <2>8. Above(f) \subseteq Above(q)'
    <3>1. PICK a : a = Above(q)'
      OBVIOUS
    <3>2. \A k \in Above(f) : \/ k \in a
                              \/ \E c \in Above(f) : c > k /\ (c \in a => k \in a)
      <4>1. SUFFICES ASSUME NEW k \in Above(f), k # f
                     PROVE  \E c \in Above(f) : c > k /\ (c \in a => k \in a)
        BY <2>7, <3>1
      <4>2. k \in Pushed /\ \E c \in Children(k) : c \in Above(f)
        BY <4>1, AboveFix DEF BelowIs
      <4>3. PICK c \in Children(k) : c \in Above(f)
        BY <4>2
      <4>4. c \in Pushed /\ c > k /\ job[c].parent = k
        BY <4>2, JobFacts DEF Children, Base
      <4>5. c \in Children(k)' /\ c \in Pushed'
        BY <2>3, <4>4, Stable DEF Children
      <4>6. c \in a => k \in a
        BY <2>3, <2>6, <3>1, <4>2, <4>5
      <4> QED BY <4>3, <4>4, <4>6
    <3>3. PICK X, m : X = Above(f) /\ m = Last
      OBVIOUS
    <3>4. /\ m \in Nat /\ X \in SUBSET (0 .. m)
          /\ \A k \in X : k \in a \/ \E c \in X : c > k /\ (c \in a => k \in a)
      BY <3>2, <3>3, AboveFacts, LastFacts
    <3>5. X \subseteq a
      BY <3>4, FromLater
    <3> QED BY <3>1, <3>3, <3>5
  <2>9. \A k \in Pushed' : InQueue(k)' => k \in Above(q)'
    BY <1>2, <1>3, <2>1, <2>3, <2>7, <2>8
  <2>10. QueueAbove'
    BY <2>5, <2>9 DEF QueueAbove
  <2> QED BY <1>0, <2>3, <2>10 DEF PathInv, WorkAbove, QueueAboveWork
<1>15. ASSUME UNCHANGED <<job, worker>> PROVE PathInv'
  BY <1>s, <1>15
<1>16. ASSUME \/ \E j \in Pushed : KillJob(j) \/ RestartStep(j) \/ PingExpires(j)
                                   \/ HandleZombieFlow(j) \/ Cancel(j)
              \/ CrashServer \/ UNCHANGED vars
       PROVE  PathInv'
  BY <1>15, <1>16 DEF KillJob, RestartStep, PingExpires, HandleZombieFlow, Cancel, CrashServer, vars
<1> QED BY <1>5, <1>6, <1>7, <1>8, <1>9, <1>10, <1>11, <1>12, <1>13, <1>14, <1>16
        DEF Next, WorkerStep, MonitorStep

(* The way is that of the flow which is run. *)
LEMMA PathInit ==
  ASSUME Init, Base
  PROVE  PathInv
  BY AboveFacts DEF Init, Pushed, Idle, PathInv, QueueAbove, WorkAbove, QueueAboveWork, Last

(* What is pushed for a branch or an iteration has a failure module if the flow has one. *)
LEMMA NextInherits ==
  ASSUME Base, NEW f \in Pushed, IsFlow(f), f = worker.flow, worker.pc \in {"start", "push"},
         ~RunsHandler(f), NEW n \in NextFlowTransform(f), n # EmptyInnerFlows, ~IsStep(n.flow),
         Current(f).kind # "flow"
  PROVE  Flows[n.flow].failure_module = Value(f).failure_module
<1>1. PICK m : m = Current(f)
  OBVIOUS
<1>2. n \in (IF m.skip_if THEN {NextOf("identity", "WaitingForExecutor", 0, 0)} ELSE {}) \cup
             CASE m.kind = "script" -> {NextOf("script", "WaitingForExecutor", 0, 0)}
               [] m.kind = "flow" -> {NextOf(m.inner[1], "WaitingForExecutor", 0, 0)}
               [] m.kind \in {"branchone", "branchall"} -> NextBranch(f, m)
               [] m.kind \in Loops -> NextIteration(f, m)
  BY <1>1 DEF NextFlowTransform
<1>3. n # NextOf("identity", "WaitingForExecutor", 0, 0) /\ n # NextOf("script", "WaitingForExecutor", 0, 0)
  BY DEF NextOf, IsStep
<1>4. m \in Module /\ (m.kind \in Loops => Len(m.inner) = 1)
  BY <1>1, ModuleFacts DEF Base
<1>5. m.kind \in {"branchone", "branchall"} \cup Loops
  BY <1>1, <1>2, <1>3, <1>4 DEF Module, Kinds, Loops
<1>6. /\ flow_status[f].step >= 0 /\ flow_status[f].step < Size(f)
      /\ flow_status[f].step \in Int /\ Size(f) \in Nat
  BY <1>1, <1>5, OwnModule, JobFacts, ModuleFacts DEF Loops, Base, FlowStatus, PreprocessorStep
<1>7. m = Value(f).modules[flow_status[f].step + 1]
  BY <1>1, <1>6 DEF Current, ModuleAt
<1>8. job[f].flow \in DOMAIN Flows /\ flow_status[f].step + 1 \in DOMAIN Value(f).modules
  BY <1>6, JobFacts, ModuleFacts DEF Base, FlowValue, JobRecord, IsFlow, IsStep, Size
<1>9. Inherits(job[f].flow, m)
  BY <1>7, <1>8, NestedFlowAssumption DEF Value
<1>10. \A i \in DOMAIN m.inner : m.inner[i] # "script" =>
          Flows[m.inner[i]].failure_module = Value(f).failure_module
  BY <1>5, <1>9 DEF Inherits, Value, Loops
<1>11. \E i \in DOMAIN m.inner : n.flow = m.inner[i]
  <2>1. CASE m.kind = "branchone"
    BY <1>2, <1>3, <2>1 DEF Loops, NextBranch, InnerFlow, NextOf
  <2>2. CASE m.kind = "branchall"
    <3>1. n \in NextBranch(f, m)
      BY <1>2, <1>3, <2>2 DEF Loops
    <3>2. n = NextOf(m.inner[NextIndex(f) + 1], "InProgress", NextIndex(f), Len(m.inner)) /\ m.inner # <<>>
      BY <2>2, <3>1 DEF NextBranch
    <3>3. flow_status[f].index \in Nat /\ m.inner \in Seq(DOMAIN Flows \cup {"script"})
      BY <1>4, JobFacts DEF Base, FlowStatus, Module
    <3>4. InProgress(f) => flow_status[f].index + 1 < Len(m.inner)
      BY <1>1, <2>2, Zenon DEF Base, RangeInv, Branching, Loops
    <3>5. NextIndex(f) + 1 \in DOMAIN m.inner
      BY <3>2, <3>3, <3>4 DEF NextIndex
    <3> QED BY <3>2, <3>5 DEF NextOf
  <2>3. CASE m.kind \in Loops
    <3>1. n \in NextIteration(f, m)
      BY <1>2, <1>3, <2>3 DEF Loops
    <3>2. \E i, len : n = InnerFlow(m.inner[1], i, len)
      BY <2>3, <3>1 DEF NextIteration, Loops
    <3>3. n.flow = m.inner[1]
      BY <3>2 DEF InnerFlow, NextOf
    <3>4. 1 \in DOMAIN m.inner
      BY <1>4, <2>3 DEF Module
    <3> QED BY <3>3, <3>4
  <2> QED BY <1>5, <2>1, <2>2, <2>3
<1> QED BY <1>10, <1>11 DEF IsStep

(* Without a push the failure modules stay where they are. *)
LEMMA HandlerKeeps ==
  ASSUME Base, TokenInv, HandlerInv, [Next]_vars, job' = job,
         \A k \in Pushed : flow_status'[k].step = flow_status[k].step \/ flow_status'[k].step = flow_status[k].step + 1,
         worker'.pc = "start" => \A f \in Pushed : worker'.flow = f =>
            \A c \in Children(f) : job[c].step = PreprocessorStep /\ ~IsFlow(c),
         worker'.pc = "push" => \A f \in Pushed : worker'.flow = f /\ Size(f) > 0 =>
            ChildrenAt(f, Size(f)) = {}
  PROVE  HandlerInv'
<1>1. /\ Pushed' = Pushed /\ \A f : Children(f)' = Children(f)
      /\ \A f, i : ChildrenAt(f, i)' = ChildrenAt(f, i)
      /\ \A c : IsFlow(c)' = IsFlow(c) /\ Size(c)' = Size(c) /\ Value(c)' = Value(c)
      /\ \A c \in Pushed : InQueue(c)' => InQueue(c)
      /\ \A c \in Pushed : IsInline(c)' = IsInline(c)
  BY Stable, SameFlow, TreeStable DEF Pushed, Children, ChildrenAt
<1>2. \A k \in Pushed : flow_status[k].step \in Int /\ job[k].step \in Int
  BY JobFacts DEF Base, FlowStatus, JobRecord, PreprocessorStep
<1>3. StepsBelow'
  BY <1>1, <1>2 DEF HandlerInv, StepsBelow
<1>4. StartFresh'
  BY <1>1 DEF StartFresh
<1>5. \A f \in Pushed : worker'.pc = "start" /\ worker'.flow = f /\ Size(f) > 0 =>
         ChildrenAt(f, Size(f)) = {}
  BY DEF ChildrenAt, PreprocessorStep
<1>6. OneHandler'
  BY <1>1, <1>5 DEF HandlerInv, OneHandler
<1>7. InlineHandlers'
  BY <1>1 DEF HandlerInv, InlineHandlers
<1> QED BY <1>3, <1>4, <1>6, <1>7 DEF HandlerInv

(* A flow that is at its failure module does not go on. *)
LEMMA HandlerIsLast ==
  ASSUME Base, TokenInv, LossInv, SkipInv, UpdateStatus, NEW f \in Pushed, f = worker.flow, InQueue(f),
         IsFailureStep(f)
  PROVE  worker'.pc = "finish" /\ \E stop : EndsModule(f, stop, "none")
<1>1. /\ worker.pc = "update" /\ worker \in WorkerState /\ IsFlow(f) /\ Idle.pc = "idle"
      /\ Size(f) \in Nat /\ flow_status[f].step \in Int /\ flow_status[f].fail_count \in Nat
      /\ Size(f) > 0 /\ flow_status[f].step >= Size(f)
  BY JobFacts, ModuleFacts DEF UpdateStatus, Base, TypeOK, WorkerInv, Idle, FlowStatus,
     PreprocessorStep, IsFailureStep
<1>2. Current(f) = Plain
  BY <1>1 DEF Current, ModuleAt
<1>3. /\ Plain.kind = "script" /\ Plain.retry = 0 /\ ~Plain.continue_on_error
      /\ Plain.stop_after_if = "none" /\ Plain.stop_after_all_iters_if = "none"
  BY DEF Plain
<1>4. ~Looping(f) /\ ~Branching(f) /\ ~MayRetry(f) /\ ~SkipFailure(f) /\ ~ContinueOnError(worker)
  BY <1>1, <1>2, <1>3 DEF Looping, Branching, Loops, MayRetry, SkipFailure, ContinueOnError
<1>5. worker.stop = "none"
  <2>1. SUFFICES ASSUME worker.stop # "none" PROVE FALSE
    OBVIOUS
  <2>2. PICK c \in Pushed : c = worker.job
    BY <1>1, <2>1 DEF SkipInv, StopKnown, Base, WorkerInv
  <2>3. IsFlow(c) /\ Matches(c, f)
    BY <1>1, <2>1, <2>2 DEF SkipInv, StopKnown
  <2>4. job[c].parent = f /\ job[c].step >= Size(f) /\ f # 0
    BY <1>1, <2>3, JobFacts DEF Matches, Base
  <2> QED BY <2>3, <2>4 DEF LossInv, OuterScripts
<1>6. StopEarly(worker) = {"none"}
  BY <1>2, <1>3, <1>5 DEF StopEarly, Overridden
<1>7. ~GoesOn(worker, "none") /\ StopAtEnd(worker, "none") = {"none"}
  BY <1>2, <1>3, <1>4 DEF GoesOn, StopAtEnd
<1>8. PICK stop, s : EndsModule(f, stop, s)
  BY <1>7, UpdateCases DEF GoesOnFrom
<1>9. stop = "none" /\ s = "none"
  BY <1>6, <1>7, <1>8 DEF EndsModule
<1>10. ~IsPreprocessorStep(f)
  BY <1>1 DEF IsPreprocessorStep, PreprocessorStep
<1>11. GoOn(worker, Succeeds(worker, "none"), "none", IncStep(worker, "none"))
  BY <1>8, <1>9, <1>10 DEF EndsModule
<1>12. ~ShouldContinue(worker, Succeeds(worker, "none"), "none", IncStep(worker, "none"))
  BY <1>1, <1>4 DEF ShouldContinue
<1>13. worker'.pc = "finish"
  BY <1>1, <1>11, <1>12 DEF GoOn, WorkerState
<1> QED BY <1>8, <1>9, <1>13

(* A push adds one run of the failure module at most, and nothing after it. *)
LEMMA HandlerPush ==
  ASSUME Base, TokenInv, LossInv, HandlerInv, [Next]_vars, PushNext
  PROVE  HandlerInv'
<1>1. PICK f \in Pushed : f = worker.flow
  BY PushNextEffect
<1>2. PICK q : q = Len(job) + 1
  OBVIOUS
<1>3. /\ worker.pc \in {"start", "push"} /\ worker' = Idle /\ IsFlow(f)
      /\ q \notin Pushed /\ Pushed' = Pushed \cup {q} /\ Len(job') = q /\ q \in Job
      /\ q # 0
  BY <1>1, <1>2, PushNextEffect DEF Job
<1>4. PICK n \in NextFlowTransform(f) \ {EmptyInnerFlows} :
          /\ job'[q] = JobOf(n.flow, f, PushedStep(f), n.index, n.len, Attempt(f))
          /\ SetModule(f, n, PushedStep(f), Attempt(f))
  BY <1>1, <1>2, PushNextEffect
<1>5. job'[q].flow = n.flow /\ job'[q].parent = f /\ job'[q].step = PushedStep(f)
  BY <1>4 DEF JobOf
<1>6. /\ \A j \in Pushed : /\ job'[j] = job[j] /\ IsFlow(j)' = IsFlow(j) /\ Size(j)' = Size(j)
                           /\ Value(j)' = Value(j) /\ job[j].parent \in Pushed \cup {0}
                           /\ j # 0 /\ j \in Job
                           /\ IsInline(j)' = IsInline(j) /\ (InQueue(j)' => InQueue(j))
      /\ flow_status \in [Job -> FlowStatus]
  BY Stable, SameFlow, TreeStable, JobFacts DEF Base, TypeOK
<1>7. /\ flow_status[f].step \in Int /\ Size(f) \in Nat
      /\ \A k \in Pushed \ {f} : flow_status'[k] = flow_status[k]
      /\ InQueue(f) => flow_status'[f].step = PushedStep(f)
  BY <1>3, <1>4, <1>6, ModuleFacts DEF SetModule, Base, FlowStatus, PreprocessorStep
<1>8. InQueue(f) => flow_status[f].step <= PushedStep(f)
  <2>1. InQueue(f) => flow_status[f].step <= Size(f)
    BY <1>1, <1>3, <1>7 DEF LossInv, PushClear, WorkerClear, InSteps, IsPreprocessorStep, AtStart,
       PreprocessorStep
  <2> QED BY <1>7, <2>1 DEF PushedStep
<1>9. StepsBelow'
  <2>1. SUFFICES ASSUME NEW c \in Pushed', NEW p \in Pushed', job'[c].parent = p, InQueue(p)'
                 PROVE  job'[c].step <= flow_status'[p].step
    BY DEF StepsBelow
  <2>2. p \in Pushed
    BY <1>3, <1>5, <1>6, <2>1
  <2>3. CASE c = q
    BY <1>5, <1>6, <1>7, <1>8, <2>1, <2>2, <2>3 DEF PushedStep
  <2>4. CASE c # q
    <3>1. c \in Pushed /\ job[c].parent = p /\ InQueue(p) /\ job'[c] = job[c]
      BY <1>3, <1>6, <2>1, <2>2, <2>4
    <3>2. job[c].step <= flow_status[p].step
      BY <2>2, <3>1 DEF HandlerInv, StepsBelow
    <3>3. job[c].step \in Int /\ flow_status[p].step \in Int
      <4>1. \A k \in Pushed : flow_status[k].step \in Int /\ job[k].step \in Int
        BY JobFacts DEF Base, FlowStatus, JobRecord, PreprocessorStep
      <4> QED BY <2>2, <3>1, <4>1
    <3>4. CASE p = f
      BY <1>7, <1>8, <3>1, <3>2, <3>3, <3>4 DEF PushedStep
    <3>5. CASE p # f
      BY <1>7, <2>2, <3>1, <3>2, <3>5
    <3> QED BY <3>4, <3>5
  <2> QED BY <2>3, <2>4
<1>10. OneHandler'
  <2>1. ASSUME NEW k \in Pushed' PROVE \A i : ChildrenAt(k, i)' \subseteq ChildrenAt(k, i) \cup (IF k = f THEN {q} ELSE {})
    BY <1>3, <1>5, <1>6 DEF ChildrenAt, Children
  <2>2. ASSUME NEW k \in Pushed', Size(k)' > 0, IsFlow(k)'
        PROVE  \A g, h \in ChildrenAt(k, Size(k))' : g = h
    <3>1. CASE k = q
      BY <1>3, <1>5, <1>6, <3>1 DEF Children, ChildrenAt
    <3>2. CASE k = f
      BY <1>1, <1>3, <1>6, <2>1, <2>2, <3>2 DEF HandlerInv, OneHandler
    <3>3. CASE k # q /\ k # f
      BY <1>3, <1>6, <2>1, <2>2, <3>3 DEF HandlerInv, OneHandler
    <3> QED BY <3>1, <3>2, <3>3
  <2> QED BY <1>3, <2>2 DEF OneHandler, Idle
<1>11. InlineHandlers'
  <2>1. SUFFICES ASSUME NEW c \in Pushed', NEW p \in Pushed', job'[c].parent = p, IsInline(c)'
                 PROVE  Value(c)'.failure_module = Value(p)'.failure_module
    BY DEF InlineHandlers
  <2>2. CASE c \in Pushed
    BY <1>3, <1>6, <2>1, <2>2 DEF HandlerInv, InlineHandlers
  <2>3. CASE c = q
    <3>1. p = f /\ ~IsStep(n.flow)
      BY <1>5, <2>1, <2>3 DEF IsInline, IsFlow, IsStep
    <3>3. ModuleOf(q)' = ModuleAt(f, PushedStep(f))
      BY <1>5, <1>6, SameFlow DEF ModuleOf
    <3>4. ~RunsHandler(f)
      <4>1. SUFFICES ASSUME RunsHandler(f) PROVE FALSE
        OBVIOUS
      <4>2. n.flow = "script"
        BY <4>1, PlainNext
      <4> QED BY <3>1, <4>2 DEF IsStep
    <3>5. Current(f).kind # "flow"
      BY <2>1, <2>3, <3>3, <3>4 DEF IsInline, PushedStep, Current
    <3>6. Flows[n.flow].failure_module = Value(f).failure_module
      BY <1>1, <1>3, <3>1, <3>4, <3>5, NextInherits
    <3>7. Value(q)' = Flows[n.flow]
      BY <1>5 DEF Value
    <3> QED BY <1>6, <2>3, <3>1, <3>6, <3>7
  <2> QED BY <1>3, <2>2, <2>3
<1>12. StartFresh'
  BY <1>3 DEF StartFresh, Idle
<1> QED BY <1>9, <1>10, <1>11, <1>12 DEF HandlerInv

(* What the other steps leave alone: they push nothing, and the worker goes neither to the start  *)
(* of a flow nor on with one.                                                                      *)
LEMMA OtherSteps ==
  ASSUME Base, TokenInv, [Next]_vars, ~PushNext, ~UpdateStatus, ~\E f \in Pushed : PullFlow(f)
  PROVE  /\ job' = job
         /\ worker' = worker \/ worker'.pc \notin {"start", "push", "finish", "preprocessed"}
         /\ \A k \in Pushed : flow_status'[k].step = flow_status[k].step
<1>0. TypeOK /\ Idle.pc = "idle" /\ flow_status \in [Job -> FlowStatus] /\ \A k \in Pushed : k \in Job
      /\ worker \in WorkerState
  BY JobFacts DEF Base, TypeOK, Idle
<1>1. ASSUME NEW j \in Pushed, PullStep(j) PROVE job' = job /\ worker'.pc = "run" /\ flow_status' = flow_status
  BY <1>1, PullStepEffect DEF Rest
<1>2. ASSUME NEW s \in Ended \ {"skipped"}, FinishStep(s)
      PROVE  job' = job /\ worker'.pc = "update" /\ flow_status' = flow_status
  BY <1>2, FinishStepEffect DEF Rest
<1>3. ASSUME Preprocess PROVE job' = job /\ worker'.pc = "idle" /\ flow_status' = flow_status
  BY <1>0, <1>3 DEF Preprocess
<1>4. ASSUME NEW recover \in BOOLEAN, FinishFlow(recover)
      PROVE  job' = job /\ worker'.pc \in {"idle", "update"} /\ flow_status' = flow_status
  BY <1>0, <1>4, FinishFlowEffect DEF Rest, ReportsTo
<1>5. ASSUME PushEmpty
      PROVE  /\ job' = job /\ worker'.pc = "update"
             /\ \A k \in Pushed : flow_status'[k].step = flow_status[k].step
  BY <1>0, <1>5, PushEmptyEffect
<1>6. ASSUME PushFails PROVE job' = job /\ worker'.pc \in {"idle", "update"} /\ flow_status' = flow_status
  BY <1>0, <1>6, PushFailsEffect DEF ReportsTo
<1>7. ASSUME MonitorStep PROVE job' = job /\ worker' = worker /\ flow_status' = flow_status
  BY <1>7 DEF MonitorStep, KillJob, RestartStep, PingExpires, HandleZombieFlow
<1>8. ASSUME UpdateFails PROVE job' = job /\ worker'.pc = "update" /\ flow_status' = flow_status
  BY <1>0, <1>8 DEF UpdateFails, WorkerState
<1>9. ASSUME (\E j \in Pushed : Cancel(j)) \/ CrashServer
      PROVE  job' = job /\ worker' = worker /\ flow_status' = flow_status
  BY <1>9 DEF Cancel, CrashServer
<1>10. ASSUME Crash PROVE job' = job /\ worker'.pc = "idle" /\ flow_status' = flow_status
  BY <1>0, <1>10 DEF Crash
<1>11. ASSUME UNCHANGED vars PROVE job' = job /\ worker' = worker /\ flow_status' = flow_status
  BY <1>11 DEF vars
<1> QED BY <1>1, <1>2, <1>3, <1>4, <1>5, <1>6, <1>7, <1>8, <1>9, <1>10, <1>11 DEF Next, WorkerStep

(* A flow that waits in the queue has had no jobs but runs of its preprocessor. *)
LEMMA FreshChildren ==
  ASSUME Base, TokenInv, LossInv, NEW f \in Pushed, IsFlow(f), row[f] = "queued"
  PROVE  /\ \A c \in Children(f) : job[c].step = PreprocessorStep /\ ~IsFlow(c)
         /\ ~IsFailureStep(f)
<1>1. Size(f) \in Nat /\ flow_status[f].step \in Int /\ f # 0 /\ InQueue(f)
  BY JobFacts, ModuleFacts DEF Base, FlowStatus, PreprocessorStep, InQueue
<1>2. IsPreprocessorStep(f) \/ AtStart(f)
  BY <1>1 DEF LossInv, StartWell
<1>3. ~IsFailureStep(f)
  BY <1>1, <1>2 DEF IsFailureStep, IsPreprocessorStep, AtStart, PreprocessorStep
<1>4. ASSUME NEW c \in Children(f) PROVE job[c].step = PreprocessorStep /\ ~IsFlow(c)
  <2>1. c \in Pushed /\ job[c].parent = f
    BY DEF Children
  <2>2. CASE IsPreprocessorStep(f)
    BY <1>1, <2>1, <2>2 DEF LossInv, StartWell, OuterScripts
  <2>3. CASE AtStart(f) /\ Size(f) > 0
    BY <1>1, <2>1, <2>3 DEF NotStarted, AtStart, TokenInv, FirstChildren
  <2>4. CASE Size(f) = 0
    BY <1>1, <2>1, <2>4 DEF LossInv, OuterScripts
  <2> QED BY <1>1, <1>2, <2>2, <2>3, <2>4
<1> QED BY <1>3, <1>4

(* The failure module is run once, whatever happens. *)
LEMMA HandlerStep ==
  ASSUME Base, TokenInv, ChildInv, LossInv, SkipInv, HandlerInv, [Next]_vars
  PROVE  HandlerInv'
<1>0. \A k \in Pushed : /\ flow_status[k].step \in Int /\ job[k].step \in Int /\ k \in Job
                        /\ IsFlow(k) => Size(k) \in Nat
  BY JobFacts, ModuleFacts DEF Base, FlowStatus, JobRecord, PreprocessorStep
<1>1. CASE PushNext
  BY <1>1, HandlerPush
<1>2. ASSUME NEW f \in Pushed, PullFlow(f) PROVE HandlerInv'
  BY <1>2, PullFlowEffect, FreshChildren, HandlerKeeps DEF Rest, InQueue
<1>3. CASE UpdateStatus
  <2>1. PICK f \in Pushed : f = worker.flow
    BY <1>3, UpdateStatusEffect
  <2>2. /\ job' = job /\ worker'.pc # "start" /\ IsFlow(f)
        /\ worker'.pc = "push" => worker'.flow = f /\ InQueue(f)
    <3>1. /\ job' = job /\ IsFlow(f)
          /\ \/ worker' = Idle
             \/ worker'.pc \in {"push", "finish", "preprocessed"} /\ worker'.flow = f /\ InQueue(f)
      BY <1>3, <2>1, UpdateStatusEffect
    <3> QED BY <3>1 DEF Idle
  <2>3. \A k \in Pushed : flow_status'[k].step = flow_status[k].step
                          \/ flow_status'[k].step = flow_status[k].step + 1
    <3>1. flow_status' = flow_status \/ \E s : EndModule(worker, s)
      BY <1>3, UpdateStatusEffect
    <3>2. flow_status \in [Job -> FlowStatus]
      BY DEF Base, TypeOK
    <3>3. ASSUME NEW s, EndModule(worker, s)
          PROVE  \A k \in Pushed : flow_status'[k].step = flow_status[k].step
                                   \/ flow_status'[k].step = flow_status[k].step + 1
      BY <1>0, <2>1, <3>2, <3>3 DEF EndModule
    <3> QED BY <3>1, <3>3
  <2>4. ASSUME worker'.pc = "push", Size(f) > 0, ChildrenAt(f, Size(f)) # {} PROVE FALSE
    <3>1. PICK h \in Pushed : job[h].parent = f /\ job[h].step = Size(f)
      BY <2>4 DEF ChildrenAt, Children
    <3>2. Size(f) <= flow_status[f].step
      BY <2>2, <2>4, <3>1 DEF HandlerInv, StepsBelow
    <3>3. IsFailureStep(f)
      BY <1>0, <2>2, <2>4, <3>2 DEF IsFailureStep
    <3> QED BY <1>3, <2>1, <2>2, <2>4, <3>3, HandlerIsLast
  <2> QED BY <2>2, <2>3, <2>4, HandlerKeeps
<1>4. CASE ~PushNext /\ ~UpdateStatus /\ ~\E f \in Pushed : PullFlow(f)
  BY <1>4, OtherSteps, HandlerKeeps DEF HandlerInv, StartFresh, OneHandler, Base, WorkerInv
<1> QED BY <1>1, <1>2, <1>3, <1>4

(* At first there is no failure module. *)
LEMMA HandlerInit ==
  ASSUME Init, Base
  PROVE  HandlerInv
<1>1. Pushed = {1} /\ job[1].parent = 0 /\ worker.pc = "idle"
  BY DEF Init, Pushed, Idle, JobOf
<1> QED BY <1>1 DEF HandlerInv, StepsBelow, StartFresh, OneHandler, InlineHandlers, ChildrenAt, Children

(* Without faults what is reported was pushed for the module that the status points at. *)
LEMMA ReportedJob ==
  ASSUME Base, LossInv, SkipInv, ReportTriggered, faults = 0, worker.pc = "update",
         NEW f \in Pushed, f = worker.flow, InQueue(f), NEW c \in Pushed, c = worker.job
  PROVE  /\ Matches(c, f) /\ job[c].parent = f /\ f # 0 /\ ModuleOf(c) = Current(f)
         /\ c \in Children(f)
         /\ IsFlow(c) /\ Current(f).kind # "flow" => c \in InlineJobs
         /\ Fits(c)
<1>1. Matches(c, f)
  <2>1. CASE worker.success
    BY <2>1 DEF LossInv, ReportClear
  <2>2. CASE ~worker.success
    BY <2>2 DEF ReportTriggered, SkipInv, ReportKnown
  <2> QED BY <2>1, <2>2
<1>2. job[c].parent = f /\ ModuleOf(c) = Current(f) /\ f # 0
  BY <1>1, JobFacts DEF Matches, ModuleOf, Current, Base
<1>3. Fits(c)
  BY <1>1 DEF SkipInv, ReportKnown
<1> QED BY <1>1, <1>2, <1>3 DEF Children, InlineJobs, IsInline

(* A job with no job below it but runs of the preprocessor has had no failure handled. *)
LEMMA FreshNotHandled ==
  ASSUME Base, NEW f \in Pushed, \A c \in Children(f) : job[c].step = PreprocessorStep /\ ~IsFlow(c)
  PROVE  ~LastHandles(f)
<1>1. SUFFICES ASSUME LastHandles(f) PROVE FALSE
  OBVIOUS
<1>2. PICK l \in Pushed : l = Last
  BY LastFacts
<1>3. IsHandler(l)
  BY <1>1, <1>2, LastWithin
<1>4. CASE job[l].parent = f
  BY <1>3, <1>4 DEF Children, IsHandler, PreprocessorStep
<1>5. CASE job[l].parent # f
  BY <1>1, <1>2, <1>5, LastWithin DEF InlineJobs, IsInline
<1> QED BY <1>4, <1>5

(* What a failure module may be run for besides stays so. *)
LEMMA FailsAnewGrows ==
  ASSUME Base, TokenInv, [Next]_vars, NEW f \in Pushed, NEW c \in Children(f), FailsAnew(f, c)
  PROVE  FailsAnew(f, c)'
<1>1. /\ c \in Pushed /\ job[c].parent = f /\ f # 0
      /\ job'[c] = job[c] /\ history \subseteq history' /\ CutShort \subseteq CutShort'
      /\ Size(f)' = Size(f)
  BY Stable, SameFlow, EarlyGrows, JobFacts DEF Children, Base
<1>2. ModuleOf(c)' = ModuleOf(c)
  BY <1>1, StoppedGrows
<1>3. CASE ModuleOf(c).stop_after_if = "error" \/ ModuleOf(c).stop_after_all_iters_if # "none"
  BY <1>2, <1>3 DEF FailsAnew
<1>4. CASE \E i \in job[c].step + 1 .. Size(f) - 1 : IsEmpty(f, i)
  BY <1>1, <1>4 DEF IsEmpty, FailsAnew
<1>5. CASE c \in CutShort
  BY <1>1, <1>5 DEF FailsAnew
<1> QED BY <1>3, <1>4, <1>5 DEF FailsAnew

(* A cancelled job stays cancelled while it is in the queue. *)
LEMMA CanceledStays ==
  ASSUME Base, TokenInv, [Next]_vars
  PROVE  \A k \in Pushed : k \in canceled /\ InQueue(k)' => k \in canceled'
<1>0. TypeOK /\ "failure" \in Ended /\ "canceled" \in Ended
  BY DEF Base, Ended
<1>1. ASSUME NEW j \in Pushed, NEW s \in Ended, Complete(j, s)
      PROVE  \A k \in Pushed : k \in canceled /\ InQueue(k)' => k \in canceled'
  BY <1>0, <1>1, CompleteEffect DEF InQueue, Ended
<1>2. ASSUME NEW f \in Pushed, PullFlow(f)
      PROVE  canceled \subseteq canceled' \/ \E j \in Pushed, s \in Ended : Complete(j, s)
  BY <1>0, <1>2, PullFlowEffect
<1>3. ASSUME NEW s \in Ended \ {"skipped"}, FinishStep(s)
      PROVE  canceled \subseteq canceled' \/ \E j \in Pushed, e \in Ended : Complete(j, e)
  BY <1>0, <1>3, FinishStepEffect
<1>4. ASSUME NEW recover \in BOOLEAN, FinishFlow(recover)
      PROVE  canceled \subseteq canceled' \/ \E j \in Pushed, e \in Ended : Complete(j, e)
  BY <1>0, <1>4, FinishFlowEffect
<1>5. ASSUME PushFails
      PROVE  canceled \subseteq canceled' \/ \E j \in Pushed, e \in Ended : Complete(j, e)
  BY <1>0, <1>5, PushFailsEffect
<1>6. ASSUME NEW j \in Pushed, KillJob(j)
      PROVE  canceled \subseteq canceled' \/ \E k \in Pushed, e \in Ended : Complete(k, e)
  BY <1>0, <1>6 DEF KillJob
<1>7. ASSUME \/ UpdateStatus \/ Preprocess \/ PushEmpty \/ PushNext \/ UpdateFails \/ Crash \/ CrashServer
             \/ UNCHANGED vars
             \/ \E j \in Pushed : \/ PullStep(j) \/ RestartStep(j) \/ PingExpires(j) \/ HandleZombieFlow(j)
                                  \/ Cancel(j)
      PROVE  canceled \subseteq canceled'
  BY <1>7 DEF UpdateStatus, Preprocess, PushEmpty, PushNext, UpdateFails, Crash, CrashServer, vars, PullStep,
     RestartStep, PingExpires, HandleZombieFlow, Cancel, ForceCancel, SoftCancel
<1>8. canceled \subseteq canceled' \/ \E j \in Pushed, e \in Ended : Complete(j, e)
  BY <1>2, <1>3, <1>4, <1>5, <1>6, <1>7 DEF Next, WorkerStep, MonitorStep
<1> QED BY <1>1, <1>8

(* A failure module of the flow that the worker is at, or of a branch or iteration of it: what is *)
(* reported is the last job, or holds it.                                                          *)
LEMMA HandledReport ==
  ASSUME Base, TokenInv, LossInv, SkipInv, PathInv, HandlerInv, ReportTriggered, faults = 0,
         worker.pc = "update", NEW f \in Pushed, f = worker.flow, InQueue(f)
  PROVE  /\ Triggered(worker) => LastHandles(f)
         /\ IsFailureStep(f) => LastHandles(f)
         /\ LastHandles(f) /\ ~IsFailureStep(f) =>
               \E d \in Children(f) \cap InlineJobs : LastHandles(d)
         /\ \A d \in Children(f) \cap InlineJobs : LastHandles(d) /\ worker.job # 0 =>
               /\ worker.job = d /\ ModuleOf(d) = Current(f) /\ Current(f).kind # "flow"
               /\ Value(d).failure_module = Value(f).failure_module
<1>0. PICK l \in Pushed : l = Last
  BY LastFacts
<1>1. /\ worker \in WorkerState /\ IsFlow(f) /\ f # 0 /\ Size(f) \in Nat
      /\ flow_status[f].step \in Int /\ \A k \in Pushed : job[k].step \in Int
  <2>a. \A k \in Pushed : k # 0 /\ job[k] \in JobRecord /\ flow_status[k] \in FlowStatus
    BY JobFacts DEF Base
  <2>b. (\A r \in JobRecord : r.step \in Int) /\ (\A r \in FlowStatus : r.step \in Int)
    BY DEF FlowStatus, JobRecord, PreprocessorStep
  <2>1. \A k \in Pushed : k # 0 /\ job[k].step \in Int /\ flow_status[k].step \in Int
    BY <2>a, <2>b
  <2>2. worker \in WorkerState /\ IsFlow(f)
    BY DEF Base, TypeOK, WorkerInv
  <2> QED BY <2>1, <2>2, ModuleFacts DEF Base
<1>2. worker.job # 0 => worker.job \in Pushed /\ worker.job \in Above(l)
  BY <1>0 DEF PathInv, WorkAbove, Base, WorkerInv
<1>3. ASSUME Triggered(worker) PROVE LastHandles(f)
  <2>1. worker.triggered /\ Current(f).kind # "flow"
    BY <1>3 DEF Triggered
  <2>2. PICK c \in Pushed : c = worker.job
    BY <1>2, <2>1 DEF ReportTriggered
  <2>3. LastHandles(c)
    BY <2>1, <2>2 DEF ReportTriggered
  <2>4. IsFlow(c)
    BY <1>0, <2>3, LastWithin
  <2>5. c \in Children(f) \cap InlineJobs
    BY <2>1, <2>2, <2>4, ReportedJob
  <2> QED BY <1>0, <2>3, <2>5, LastWithin
<1>4. ASSUME IsFailureStep(f) PROVE LastHandles(f)
  <2>1. worker.job # 0
    BY <1>4 DEF ReportTriggered
  <2>2. PICK c \in Pushed : c = worker.job
    BY <1>2, <2>1
  <2>3. Matches(c, f) /\ job[c].parent = f
    BY <2>2, ReportedJob
  <2>4. job[c].step = flow_status[f].step /\ flow_status[f].step >= Size(f) /\ Size(f) > 0
    BY <1>4, <2>3 DEF Matches, IsFailureStep
  <2>5. ~IsFlow(c)
    BY <1>1, <2>3, <2>4 DEF LossInv, OuterScripts
  <2>6. c = l
    BY <1>2, <2>1, <2>2, <2>5, AboveFacts
  <2>7. flow_status[f].step <= Size(f)
    BY DEF LossInv, ReportClear, InSteps
  <2>8. IsHandler(l)
    BY <1>1, <2>3, <2>4, <2>6, <2>7 DEF IsHandler
  <2> QED BY <1>0, <2>3, <2>6, <2>8, LastWithin
<1>5. ASSUME LastHandles(f), ~IsFailureStep(f)
      PROVE  \E d \in Children(f) \cap InlineJobs : LastHandles(d)
  <2>1. IsHandler(l)
    BY <1>0, <1>5, LastWithin
  <2>2. SUFFICES ASSUME job[l].parent = f PROVE FALSE
    BY <1>0, <1>5, LastWithin
  <2>3. job[l].step = Size(f) /\ Size(f) > 0
    BY <2>1, <2>2 DEF IsHandler
  <2>4. Size(f) <= flow_status[f].step
    BY <2>2, <2>3 DEF HandlerInv, StepsBelow
  <2> QED BY <1>1, <1>5, <2>3, <2>4 DEF IsFailureStep
<1>6. ASSUME NEW d \in Children(f) \cap InlineJobs, LastHandles(d), worker.job # 0
      PROVE  /\ worker.job = d /\ ModuleOf(d) = Current(f) /\ Current(f).kind # "flow"
             /\ Value(d).failure_module = Value(f).failure_module
  <2>1. d \in Pushed /\ job[d].parent = f /\ IsInline(d)
    BY <1>6 DEF Children, InlineJobs
  <2>2. d \in Above(l)
    BY <1>0, <1>6, LastWithin
  <2>3. PICK c \in Pushed : c = worker.job
    BY <1>2, <1>6
  <2>4. job[c].parent = f /\ ModuleOf(c) = Current(f)
    BY <2>3, ReportedJob
  <2>5. c \in Above(l)
    BY <1>2, <1>6, <2>3
  <2>6. c = d
    BY <1>1, <2>1, <2>2, <2>4, <2>5, AboveFacts
  <2> QED BY <2>1, <2>3, <2>4, <2>6 DEF IsInline, HandlerInv, InlineHandlers
<1> QED BY <1>3, <1>4, <1>5, <1>6

(* The module that a predicate makes an error of has such a predicate. *)
LEMMA ErrorStop ==
  ASSUME Base, SkipInv, worker.pc = "update", NEW f, f = worker.flow, NEW stop, EndsModule(f, stop, "error")
  PROVE  Current(f).stop_after_if = "error" \/ Current(f).stop_after_all_iters_if # "none"
<1>1. worker.stop # "error"
  BY DEF SkipInv, StopKnown
<1>2. "error" \in StopAtEnd(worker, stop) /\ stop \in StopEarly(worker)
  BY DEF EndsModule
<1>3. \/ stop = "error" \/ Current(f).stop_after_all_iters_if # "none"
  BY <1>2 DEF StopAtEnd
<1>4. stop = "error" => Current(f).stop_after_if = "error"
  BY <1>1, <1>2 DEF StopEarly
<1> QED BY <1>3, <1>4

(* When the flow goes on after a module: what the worker knows. *)
LEMMA EndsEffect ==
  ASSUME Base, UpdateStatus, NEW f \in Pushed, f = worker.flow, NEW stop, NEW s, EndsModule(f, stop, s),
         worker'.pc \in {"push", "finish"}
  PROVE  /\ worker'.flow = f /\ worker'.success = Succeeds(worker, s) /\ worker'.stop = s
         /\ worker'.triggered = Triggered(worker) /\ worker'.handler = IsFailureStep(f)
         /\ (worker'.pc = "push") <=> ShouldContinue(worker, Succeeds(worker, s), s, IncStep(worker, s))
         /\ flow_status'[f].step = flow_status[f].step + (IF IncStep(worker, s) THEN 1 ELSE 0)
         /\ flow_status'[f].module = IF IncStep(worker, s) THEN "WaitingForPriorSteps" ELSE "Failure"
         /\ ~Succeeds(worker, s) => flow_status'[f].fail_count = flow_status[f].fail_count
<1>1. /\ worker.pc = "update" /\ worker \in WorkerState /\ f \in Job
      /\ flow_status \in [Job -> FlowStatus] /\ flow_status[f].step \in Int
  BY JobFacts DEF Base, TypeOK, UpdateStatus, FlowStatus, PreprocessorStep
<1>2. GoOn(worker, Succeeds(worker, s), s, IncStep(worker, s))
  BY <1>1 DEF WorkerState, EndsModule
<1>3. /\ worker'.flow = f /\ worker'.success = Succeeds(worker, s) /\ worker'.stop = s
      /\ worker'.triggered = Triggered(worker) /\ worker'.handler = IsFailureStep(f)
      /\ worker'.pc = IF ShouldContinue(worker, Succeeds(worker, s), s, IncStep(worker, s))
                        THEN "push" ELSE "finish"
  BY <1>1, <1>2 DEF GoOn, WorkerState
<1>4. /\ flow_status'[f].step = IF IncStep(worker, s) THEN flow_status[f].step + 1 ELSE flow_status[f].step
      /\ flow_status'[f].module = IF IncStep(worker, s) THEN "WaitingForPriorSteps" ELSE "Failure"
      /\ ~Succeeds(worker, s) => flow_status'[f].fail_count = flow_status[f].fail_count
  BY <1>1 DEF EndsModule, EndModule
<1> QED BY <1>1, <1>3, <1>4

(* A flow that goes on to its failure module has a failure that a predicate has made, or one that *)
(* no failure module has been run for.                                                             *)
LEMMA PushedHandler ==
  ASSUME Base, LossInv, UpdateStatus, ReportTriggered, faults = 0, NEW f \in Pushed, f = worker.flow,
         NEW stop, NEW s, EndsModule(f, stop, s), worker'.pc = "push",
         RunsHandler(f)' \/ IsFailureStep(f)'
  PROVE  s = "error" \/ (s = "none" /\ ~worker.success /\ ~Triggered(worker))
<1>1. /\ worker.pc = "update" /\ worker \in WorkerState /\ IsFlow(f) /\ f \in Job
      /\ Size(f) \in Nat /\ flow_status[f].step \in Int /\ s \in Stops /\ job' = job
      /\ flow_status[f].fail_count \in Nat /\ Current(f) \in Module
  <2>1. /\ worker.pc = "update" /\ worker \in WorkerState /\ IsFlow(f) /\ s \in Stops /\ job' = job
    BY DEF UpdateStatus, Base, TypeOK, WorkerInv, EndsModule
  <2>2. f \in Job /\ flow_status[f] \in FlowStatus
    BY JobFacts DEF Base
  <2>3. flow_status[f].step \in Int /\ flow_status[f].fail_count \in Nat
    BY <2>2 DEF FlowStatus, PreprocessorStep
  <2> QED BY <2>1, <2>2, <2>3, ModuleFacts DEF Base
<1>2. /\ ShouldContinue(worker, Succeeds(worker, s), s, IncStep(worker, s))
      /\ flow_status'[f].step = flow_status[f].step + (IF IncStep(worker, s) THEN 1 ELSE 0)
      /\ flow_status'[f].module = IF IncStep(worker, s) THEN "WaitingForPriorSteps" ELSE "Failure"
      /\ ~Succeeds(worker, s) => flow_status'[f].fail_count = flow_status[f].fail_count
  BY EndsEffect
<1>3. SUFFICES ASSUME s # "error" PROVE s = "none" /\ ~worker.success /\ ~Triggered(worker)
  OBVIOUS
<1>4. s = "none"
  BY <1>1, <1>2, <1>3 DEF ShouldContinue, Stops
<1>5. Size(f)' = Size(f) /\ \A i : ModuleAt(f, i)' = ModuleAt(f, i)
  BY <1>1, SameFlow
<1>6. /\ RunsHandler(f)' => flow_status'[f].module = "Failure" /\ ~MayRetry(f)'
      /\ IsFailureStep(f)' => Size(f) > 0 /\ flow_status'[f].step >= Size(f)
  BY <1>5 DEF RunsHandler, IsFailureStep
<1>7. ~IncStep(worker, s) /\ ~Succeeds(worker, s) => MayRetry(f)' = MayRetry(f)
  <2>1. SUFFICES ASSUME ~IncStep(worker, s), ~Succeeds(worker, s) PROVE MayRetry(f)' = MayRetry(f)
    OBVIOUS
  <2>2. flow_status'[f].step = flow_status[f].step /\ flow_status'[f].fail_count = flow_status[f].fail_count
    BY <1>1, <1>2, <2>1
  <2>3. Current(f)' = Current(f)
    BY <1>5, <2>2 DEF Current
  <2> QED BY <2>2, <2>3 DEF MayRetry
<1>8. Succeeds(worker, s) <=> worker.success \/ SkipFailure(f)
  BY <1>4 DEF Succeeds
<1>9. IncStep(worker, s) <=> Succeeds(worker, s) \/ (ContinueOnError(worker) /\ ~MayRetry(f))
  BY DEF IncStep
<1>10. MayRetry(f) => flow_status[f].step < Size(f)
  BY <1>1, OwnModule
<1> DEFINE isLast == flow_status[f].step + (IF IncStep(worker, s) THEN 1 ELSE 0) >= Size(f)
<1>11. /\ Succeeds(worker, s) => ~isLast
       /\ ~Succeeds(worker, s) =>
            IF SkipFailure(f) \/ ContinueOnError(worker) THEN ~isLast
            ELSE MayRetry(f) \/ (~IsFailureStep(f) /\ ~Triggered(worker))
  BY <1>2, <1>4 DEF ShouldContinue
<1>12. ~isLast => ~IsFailureStep(f)'
  BY <1>1, <1>2, <1>6
<1> HIDE DEF isLast
<1>13. IncStep(worker, s) => ~RunsHandler(f)'
  BY <1>2, <1>6
<1>14. ~Succeeds(worker, s)
  BY <1>9, <1>11, <1>12, <1>13
<1>15. ~ContinueOnError(worker)
  <2>1. SUFFICES ASSUME ContinueOnError(worker) PROVE FALSE
    OBVIOUS
  <2>2. ~isLast /\ ~IsFailureStep(f)' /\ RunsHandler(f)' /\ ~IncStep(worker, s)
    BY <1>11, <1>12, <1>13, <1>14, <2>1
  <2>3. MayRetry(f) /\ ~MayRetry(f)'
    BY <1>6, <1>9, <2>1, <2>2
  <2> QED BY <1>7, <1>14, <2>2, <2>3
<1>16. ~IncStep(worker, s)
  BY <1>9, <1>14, <1>15
<1>17. ~MayRetry(f)
  <2>1. SUFFICES ASSUME MayRetry(f) PROVE FALSE
    OBVIOUS
  <2>2. ~RunsHandler(f)' /\ flow_status'[f].step = flow_status[f].step
    <3>1. MayRetry(f)'
      BY <1>7, <1>14, <1>16, <2>1
    <3>2. flow_status'[f].step = flow_status[f].step
      BY <1>1, <1>2, <1>16
    <3> QED BY <1>6, <3>1, <3>2
  <2> QED BY <1>1, <1>6, <1>10, <2>1, <2>2
<1> QED BY <1>4, <1>8, <1>11, <1>14, <1>15, <1>17

(* A report that leads to the failure module: nothing has handled the failure. *)
LEMMA PushTriggeredStep ==
  ASSUME Base, TokenInv, LossInv, SkipInv, PathInv, HandlerInv, ReportTriggered, faults = 0,
         [Next]_vars, UpdateStatus, NEW f \in Pushed, f = worker.flow,
         NEW stop, NEW s, EndsModule(f, stop, s), worker'.pc = "push",
         Value(f).failure_module, RunsHandler(f)' \/ IsFailureStep(f)',
         NEW c \in Children(f) \cap InlineJobs, LastHandles(c)
  PROVE  FailsAnew(f, c)
<1>1. /\ worker.pc = "update" /\ InQueue(f) /\ IsFlow(f) /\ c \in Pushed /\ job[c].parent = f /\ IsFlow(c)
  BY DEF UpdateStatus, EndsModule, Base, WorkerInv, Children, InlineJobs, IsInline
<1>2. s = "error" \/ (s = "none" /\ ~worker.success /\ ~Triggered(worker))
  BY PushedHandler
<1>3. ModuleOf(c) = Current(f) /\ s = "error" => FailsAnew(f, c)
  BY <1>1, ErrorStop DEF FailsAnew
<1>4. LastHandles(f)
  BY LastFacts, LastWithin
<1>5. CASE worker.job # 0
  <2>1. /\ worker.job = c /\ ModuleOf(c) = Current(f) /\ Current(f).kind # "flow"
        /\ Value(c).failure_module
    BY <1>1, <1>5, HandledReport
  <2>2. CASE s = "none" /\ ~worker.success /\ ~Triggered(worker)
    BY <1>1, <2>1, <2>2 DEF ReportTriggered, Triggered, FailsAnew
  <2> QED BY <1>2, <1>3, <2>1, <2>2
<1>6. CASE worker.job = 0
  <2>1. worker.success
    BY <1>1, <1>4, <1>6 DEF ReportTriggered
  <2>2. s = "error"
    BY <1>2, <2>1
  <2>3. f # 0 /\ Size(f) \in Nat /\ flow_status[f].step \in Int /\ job[c].step \in Int
    <3>1. \A k \in Pushed : k # 0 /\ job[k].step \in Int /\ flow_status[k].step \in Int
      BY JobFacts DEF Base, FlowStatus, JobRecord, PreprocessorStep
    <3> QED BY <1>1, <3>1, ModuleFacts DEF Base
  <2>4. Size(f) # 0
    BY <1>1, <2>3 DEF LossInv, OuterScripts
  <2>5. IsEmpty(f, flow_status[f].step) /\ ~Free(f)
    BY <1>1, <1>6, <2>1, <2>4 DEF SkipInv, ReportKnown
  <2>6. flow_status[f].step < Size(f)
    BY <2>3, <2>4, <2>5 DEF Free, IsFailureStep
  <2>7. job[c].step <= flow_status[f].step
    BY <1>1 DEF HandlerInv, StepsBelow
  <2>8. CASE job[c].step = flow_status[f].step
    BY <1>1, <1>3, <2>2, <2>8 DEF ModuleOf, Current
  <2>9. CASE job[c].step < flow_status[f].step
    BY <2>3, <2>5, <2>6, <2>9 DEF FailsAnew
  <2> QED BY <2>3, <2>7, <2>8, <2>9
<1> QED BY <1>5, <1>6

(* A flow that is completed with a stop, without an error, has ended early. *)
LEMMA StopEndsEarly ==
  ASSUME Base, TokenInv, LossInv, SkipInv, HandlerInv, ReportTriggered, faults = 0, [Next]_vars,
         UpdateStatus, NEW f \in Pushed, f = worker.flow, Value(f).failure_module,
         NEW stop, NEW s, EndsModule(f, stop, s), s \in {"stop", "skip"}
  PROVE  f \in EndedEarly'
<1>1. /\ f \in Pushed' /\ worker.pc = "update" /\ InQueue(f) /\ EndedEarly \subseteq EndedEarly'
      /\ Branches \subseteq Branches' /\ \A c : c \in Children(f) => c \in Children(f)'
  BY Stable, StoppedGrows, EarlyGrows DEF UpdateStatus, Children, EndsModule
<1>2. \A k : k \in EndedEarly' <=> /\ k \in Pushed'
                                   /\ \/ k \in StopsNoted({"stop", "skip"})' \cup broken'
                                      \/ \E c \in Children(k)' \cap Branches' : c \in EndedEarly'
  BY EarlyFixNext DEF BelowIs
<1>3. CASE ~(Overridden(worker) /\ s = stop /\ ~Looping(f))
  <2>1. <<f, flow_status[f].step, s>> \in history'
    BY <1>3 DEF EndsModule
  <2>2. f \in StopsNoted({"stop", "skip"})'
    BY <2>1 DEF StopsNoted
  <2> QED BY <1>1, <1>2, <2>2
<1>4. CASE Overridden(worker) /\ s = stop /\ ~Looping(f)
  <2>1. worker.stop # "none" /\ Current(f).kind # "flow"
    BY <1>4 DEF Overridden
  <2>2. worker.job # 0
    BY <1>1, <2>1 DEF SkipInv, StopKnown
  <2>3. PICK c \in Pushed : c = worker.job
    BY <1>1, <2>2 DEF Base, WorkerInv
  <2>4. IsFlow(c)
    BY <1>1, <2>1, <2>3 DEF SkipInv, StopKnown
  <2>5. /\ job[c].parent = f /\ ModuleOf(c) = Current(f) /\ c \in Children(f) /\ c \in InlineJobs /\ Fits(c)
    BY <1>1, <2>1, <2>3, <2>4, ReportedJob
  <2>6. Current(f).kind \notin Loops
    BY <1>4, <2>4, <2>5 DEF Fits, IsFlow, IsStep, Looping, Loops
  <2>7. c \in Branches
    BY <2>5, <2>6 DEF Branches
  <2>8. Value(c).failure_module
    BY <2>5 DEF HandlerInv, InlineHandlers, InlineJobs
  <2>9. c \in EndedEarly
    BY <1>1, <2>1, <2>3, <2>8 DEF ReportTriggered
  <2>10. c \in Children(f)' \cap Branches' /\ c \in EndedEarly'
    BY <1>1, <2>5, <2>7, <2>9
  <2> QED BY <1>1, <1>2, <2>10
<1> QED BY <1>3, <1>4

(* When the worker ends a flow, or goes on with it after a report. *)
LEMMA UpdateTriggered ==
  ASSUME Base, TokenInv, LossInv, SkipInv, PathInv, HandlerInv, WorkerHandled, [Next]_vars, UpdateStatus
  PROVE  WorkerHandled'
<1>0. PICK f \in Pushed : f = worker.flow
  BY UpdateStatusEffect
<1>1. /\ worker.pc = "update" /\ worker \in WorkerState /\ IsFlow(f) /\ f \in Job /\ f # 0
      /\ Size(f) \in Nat /\ flow_status[f].step \in Int /\ Current(f) \in Module
  <2>1. worker.pc = "update" /\ worker \in WorkerState /\ IsFlow(f)
    BY <1>0 DEF UpdateStatus, Base, TypeOK, WorkerInv
  <2>2. f \in Job /\ f # 0 /\ flow_status[f] \in FlowStatus
    BY JobFacts DEF Base
  <2>3. flow_status[f].step \in Int
    BY <2>2 DEF FlowStatus, PreprocessorStep
  <2> QED BY <2>1, <2>2, <2>3, ModuleFacts DEF Base
<1>2. /\ job' = job /\ row' = row /\ canceled' = canceled /\ faults' = faults /\ Pushed' = Pushed
      /\ Children(f)' = Children(f)
      /\ \A k : InQueue(k)' = InQueue(k)
      /\ worker' = Idle \/ (worker'.pc # "update" /\ worker'.flow = f /\ InQueue(f))
  BY <1>0, UpdateStatusEffect DEF Pushed, InQueue, Children
<1>3. /\ \A k : LastHandles(k)' = LastHandles(k)
      /\ EndedEarly \subseteq EndedEarly' /\ CutShort \subseteq CutShort'
      /\ Value(f)' = Value(f) /\ Size(f)' = Size(f) /\ \A i : ModuleAt(f, i)' = ModuleAt(f, i)
      /\ \A c \in Pushed : IsInline(c)' = IsInline(c)
  BY <1>2, LastSame, EarlyGrows, SameFlow, TreeStable
<1>4. SUFFICES ASSUME faults = 0, worker'.pc \in {"push", "finish"}
               PROVE  GoesTriggered' /\ FinishTriggered' /\ PushTriggered'
  BY <1>2, <1>4 DEF Idle, WorkerHandled, ReportTriggered, GoesTriggered, FinishTriggered,
     PushTriggered
<1>5. worker'.flow = f /\ InQueue(f)
  BY <1>2, <1>4 DEF Idle
<1>6. ReportTriggered
  BY DEF WorkerHandled
<1>7. /\ Triggered(worker) => LastHandles(f)
      /\ IsFailureStep(f) => LastHandles(f)
      /\ LastHandles(f) /\ ~IsFailureStep(f) =>
            \E d \in Children(f) \cap InlineJobs : LastHandles(d)
      /\ \A d \in Children(f) \cap InlineJobs : LastHandles(d) /\ worker.job # 0 =>
            /\ worker.job = d /\ ModuleOf(d) = Current(f) /\ Current(f).kind # "flow"
            /\ Value(d).failure_module = Value(f).failure_module
  BY <1>0, <1>1, <1>4, <1>5, <1>6, HandledReport
<1>8. ASSUME LastHandles(f), ~IsFailureStep(f), ~worker.success, Value(f).failure_module
      PROVE  Triggered(worker) \/ f \in CutShort'
  <2>1. worker.job # 0
    BY <1>0, <1>1, <1>4, <1>5, <1>6, <1>8 DEF ReportTriggered
  <2>2. PICK d \in Children(f) \cap InlineJobs : LastHandles(d)
    BY <1>7, <1>8
  <2>3. /\ worker.job = d /\ Current(f).kind # "flow" /\ Value(d).failure_module
        /\ d \in Pushed /\ IsFlow(d)
    BY <1>7, <1>8, <2>1, <2>2 DEF Children, InlineJobs, IsInline
  <2>4. worker.triggered \/ d \in CutShort
    BY <1>1, <1>4, <1>6, <1>8, <2>2, <2>3 DEF ReportTriggered
  <2>5. CASE worker.triggered
    BY <1>0, <2>3, <2>5 DEF Triggered
  <2>6. CASE d \in CutShort
    BY <1>2, <1>3, <2>2, <2>3, <2>6, EarlyFixNext DEF InlineJobs, BelowIs
  <2> QED BY <2>4, <2>5, <2>6
<1>9. CASE GoesOnFrom(f)
  <2>1. GoOn(worker, worker.success, "none", FALSE) /\ flow_status' = flow_status /\ InProgress(f)
        /\ Current(f).kind \in Loops \cup {"branchall"}
    BY <1>0, <1>9 DEF GoesOnFrom, GoesOn, Looping, Branching
  <2>2. ~Free(f) /\ flow_status[f].step < Size(f)
    BY <1>1, <2>1, OwnModule DEF Loops
  <2>3. ~IsFailureStep(f) /\ ~RunsHandler(f)' /\ ~IsFailureStep(f)'
    BY <1>3, <2>1, <2>2 DEF Free, IsFailureStep, RunsHandler, InProgress
  <2>4. /\ worker'.success = worker.success /\ worker'.stop = "none"
        /\ worker'.triggered = Triggered(worker) /\ worker'.handler = IsFailureStep(f)
        /\ worker'.pc = IF ShouldContinue(worker, worker.success, "none", FALSE) THEN "push" ELSE "finish"
    BY <1>0, <1>1, <2>1 DEF GoOn, WorkerState
  <2>5. GoesTriggered'
    BY <1>3, <1>5, <1>7, <2>3, <2>4 DEF GoesTriggered
  <2>6. PushTriggered'
    BY <1>5, <2>3 DEF PushTriggered
  <2>7. ASSUME worker'.pc = "finish", Value(f).failure_module
        PROVE  LastHandles(f) \/ f \in canceled \/ worker.success
    <3>1. SUFFICES ASSUME f \notin canceled, ~worker.success PROVE Triggered(worker)
      BY <1>7
    <3>2. ~worker.unrecoverable
      BY <1>1, <1>4, <1>6, <3>1 DEF ReportTriggered
    <3>3. ~ShouldContinue(worker, FALSE, "none", FALSE)
      BY <1>1, <2>4, <2>7, <3>1 DEF WorkerState
    <3>4. ~(flow_status[f].step + 0 >= Size(f))
      BY <1>1, <2>2
    <3> QED BY <1>0, <2>3, <2>7, <3>1, <3>2, <3>3, <3>4 DEF ShouldContinue
  <2>8. FinishTriggered'
    <3>1. SUFFICES ASSUME worker'.pc = "finish", Value(f).failure_module
                   PROVE  /\ ~worker.success /\ LastHandles(f) => worker'.triggered \/ f \in CutShort'
                          /\ worker.success \/ LastHandles(f) \/ f \in canceled
      BY <1>2, <1>3, <1>5, <2>3, <2>4 DEF FinishTriggered
    <3> QED BY <1>8, <2>3, <2>4, <2>7, <3>1
  <2> QED BY <2>5, <2>6, <2>8
<1>10. ASSUME NEW stop, NEW s, EndsModule(f, stop, s)
       PROVE  GoesTriggered' /\ FinishTriggered' /\ PushTriggered'
  <2>1. /\ worker'.success = Succeeds(worker, s) /\ worker'.stop = s
        /\ worker'.triggered = Triggered(worker) /\ worker'.handler = IsFailureStep(f)
        /\ (worker'.pc = "push") <=> ShouldContinue(worker, Succeeds(worker, s), s, IncStep(worker, s))
    BY <1>0, <1>4, <1>10, EndsEffect
  <2>2. s \in Stops /\ s \in {"none", "stop", "skip", "error"}
    BY <1>10 DEF EndsModule, Stops
  <2>3. GoesTriggered'
    BY <1>3, <1>5, <1>7, <2>1 DEF GoesTriggered
  <2>4. PushTriggered'
    <3>1. SUFFICES ASSUME worker'.pc = "push", Value(f).failure_module, RunsHandler(f)' \/ IsFailureStep(f)',
                          NEW c \in Children(f) \cap InlineJobs, LastHandles(c)
                   PROVE  FailsAnew(f, c)'
      BY <1>2, <1>3, <1>5 DEF PushTriggered, InlineJobs, Children
    <3>2. FailsAnew(f, c)
      BY <1>0, <1>4, <1>6, <1>10, <3>1, PushTriggeredStep
    <3> QED BY <3>1, <3>2, FailsAnewGrows
  <2>5. ASSUME worker'.pc = "finish", Value(f).failure_module
        PROVE  /\ s # "none" => f \in EndedEarly'
               /\ ~Succeeds(worker, s) /\ LastHandles(f) => Triggered(worker) \/ IsFailureStep(f) \/ f \in CutShort'
               /\ \/ Succeeds(worker, s) /\ ~IsFailureStep(f)
                  \/ LastHandles(f) \/ f \in EndedEarly' \/ f \in canceled
                  \/ Size(f) = 0 \/ ModuleAt(f, Size(f) - 1).continue_on_error
    <3>1. ~ShouldContinue(worker, Succeeds(worker, s), s, IncStep(worker, s))
      BY <2>1, <2>5
    <3>2. s # "error"
      BY <1>0, <2>5, <3>1 DEF ShouldContinue
    <3>3. s # "none" => f \in EndedEarly'
      BY <1>0, <1>4, <1>6, <1>10, <2>2, <2>5, <3>2, StopEndsEarly
    <3>4. Succeeds(worker, s) <=> worker.success \/ SkipFailure(f)
      BY <1>0, <3>2 DEF Succeeds
    <3>5. ~Succeeds(worker, s) /\ LastHandles(f) => Triggered(worker) \/ IsFailureStep(f) \/ f \in CutShort'
      BY <1>8, <2>5, <3>4
    <3>6. \/ Succeeds(worker, s) /\ ~IsFailureStep(f)
          \/ LastHandles(f) \/ f \in EndedEarly' \/ f \in canceled
          \/ Size(f) = 0 \/ ModuleAt(f, Size(f) - 1).continue_on_error
      <4>1. SUFFICES ASSUME ~Succeeds(worker, s), ~IsFailureStep(f), s = "none", f \notin canceled
                     PROVE  Triggered(worker) \/ ModuleAt(f, Size(f) - 1).continue_on_error
        BY <1>7, <3>3
      <4>2. ~worker.success /\ ~SkipFailure(f)
        BY <3>4, <4>1
      <4>3. ~worker.unrecoverable
        BY <1>1, <1>4, <1>6, <4>2 DEF ReportTriggered
      <4> DEFINE isLast == flow_status[f].step + (IF IncStep(worker, s) THEN 1 ELSE 0) >= Size(f)
      <4>4. IF ContinueOnError(worker) THEN isLast
            ELSE ~MayRetry(f) /\ (IsFailureStep(f) \/ Triggered(worker) \/ ~Value(f).failure_module)
        BY <1>0, <3>1, <4>1, <4>2, <4>3 DEF ShouldContinue
      <4>5. CASE ContinueOnError(worker)
        BY <1>0, <1>1, <4>4, <4>5, OwnModule DEF ContinueOnError, Current
      <4>6. CASE ~ContinueOnError(worker)
        BY <2>5, <4>1, <4>4, <4>6
      <4> QED BY <4>5, <4>6
    <3> QED BY <3>3, <3>5, <3>6
  <2>6. FinishTriggered'
    BY <1>2, <1>3, <1>5, <2>1, <2>5 DEF FinishTriggered
  <2> QED BY <2>3, <2>4, <2>6
<1> QED BY <1>0, <1>5, <1>9, <1>10, UpdateCases

(* What a flow that could not be started, or could not go on, reports. *)
LEMMA FailsTriggered ==
  ASSUME Base, TokenInv, LossInv, SkipInv, HandlerInv, WorkerHandled, [Next]_vars, PushFails, faults' = 0
  PROVE  ReportTriggered'
<1>0. PICK f \in Pushed : f = worker.flow
  BY PushFailsEffect
<1>1. /\ worker.pc \in {"start", "push"} /\ IsFlow(f) /\ f # 0 /\ job' = job /\ flow_status' = flow_status
      /\ Size(f) \in Nat /\ flow_status[f].step \in Int
      /\ Idle.pc = "idle" /\ TypeOK /\ faults = 0 /\ Pushed' = Pushed
  BY <1>0, PushFailsEffect, FaultsGrow, JobFacts, ModuleFacts DEF Base, Idle, Pushed, FlowStatus,
     PreprocessorStep
<1>2. /\ \A k : LastHandles(k)' = LastHandles(k)
      /\ Value(f)' = Value(f) /\ Size(f)' = Size(f) /\ (InQueue(f)' => InQueue(f))
  BY <1>1, LastSame, SameFlow, Stable
<1>3. HandlerIsMissing(f) \/ ~InQueue(f)
  BY <1>0, <1>1 DEF PushFails
<1>4. CASE worker.pc = "start"
  <2>1. HandleJobError(f, "failure")
    BY <1>0, <1>4 DEF PushFails
  <2>2. worker'.stop = "none" /\ ~worker'.triggered /\ ~worker'.unrecoverable
    BY <1>1, <2>1, WorkerFields
  <2>3. worker'.job \in {0, f} /\ (worker'.job = 0 => worker'.flow = f)
    BY <1>1, <2>1 DEF HandleJobError, Idle
  <2>4. ~LastHandles(f)
    BY <1>0, <1>4, FreshNotHandled DEF HandlerInv, StartFresh
  <2>5. ~IsFailureStep(f)'
    BY <1>0, <1>1, <1>2, <1>4 DEF LossInv, WorkerClear, IsFailureStep, IsPreprocessorStep, AtStart,
       PreprocessorStep
  <2>6. ~Value(f).failure_module \/ ~InQueue(f)'
    BY <1>2, <1>3 DEF HandlerIsMissing
  <2>7. \A c \in Pushed' : c # 0
    BY <1>1, JobFacts
  <2> QED BY <1>2, <2>2, <2>3, <2>4, <2>5, <2>6, <2>7 DEF ReportTriggered
<1>5. CASE worker.pc = "push"
  <2>1. worker' = ReportToParent(worker) /\ f \in broken'
    BY <1>0, <1>5 DEF PushFails
  <2>2. CASE job[f].parent = 0
    BY <1>0, <1>1, <2>1, <2>2 DEF ReportToParent, ReportTriggered
  <2>3. CASE job[f].parent # 0
    <3>1. worker'.job = f /\ ~worker'.unrecoverable
          /\ worker'.triggered = (worker.triggered \/ worker.handler)
      BY <1>0, <1>1, <2>1, <2>3, ReportEffect, WorkerFields DEF ReportsTo
    <3>2. f \in EndedEarly' /\ f \in CutShort'
      BY <1>1, <2>1, EarlyFixNext DEF BelowIs
    <3>3. worker'.triggered => LastHandles(f)
      BY <1>0, <1>1, <1>5, <3>1 DEF WorkerHandled, GoesTriggered
    <3> QED BY <1>1, <1>2, <3>1, <3>2, <3>3 DEF ReportTriggered
  <2> QED BY <2>2, <2>3
<1> QED BY <1>1, <1>4, <1>5

(* What a step or a flow that has ended, an empty module or a flow that is refused report. *)
LEMMA ReportsTriggered ==
  ASSUME Base, TokenInv, LossInv, SkipInv, HandlerInv, WorkerHandled, [Next]_vars, faults' = 0
  PROVE  /\ \A s \in Ended \ {"skipped"} : FinishStep(s) => ReportTriggered'
         /\ \A recover \in BOOLEAN : FinishFlow(recover) => ReportTriggered'
         /\ PushEmpty => ReportTriggered'
         /\ \A f \in Pushed : PullFlow(f) => ReportTriggered'
<1>0. TypeOK /\ Idle.pc = "idle" /\ faults = 0 /\ \A k \in Pushed : k # 0
  BY FaultsGrow, JobFacts DEF Base, Idle
<1>k. \A k \in Pushed : job'[k] = job[k] /\ IsFlow(k)' = IsFlow(k) /\ Value(k)' = Value(k) /\ Size(k)' = Size(k)
                        /\ (InQueue(k)' => InQueue(k))
  BY Stable, SameFlow
<1>l. job' = job => Pushed' = Pushed /\ \A k : LastHandles(k)' = LastHandles(k)
  BY LastSame DEF Pushed
<1>1. ASSUME NEW s \in Ended \ {"skipped"}, FinishStep(s) PROVE ReportTriggered'
  <2>1. PICK c \in Pushed : c = worker.job
    BY <1>1, FinishStepEffect
  <2>2. worker.pc = "run" /\ ~IsFlow(c) /\ job' = job /\ worker'.job = c
    BY <1>1, <2>1, FinishStepEffect DEF Rest
  <2>3. worker'.stop = worker.stop /\ worker'.triggered = worker.triggered
        /\ worker'.unrecoverable = worker.unrecoverable
    BY <1>0, <1>1, WorkerFields
  <2>4. worker'.stop = "none" /\ ~worker'.triggered /\ ~worker'.unrecoverable
    BY <2>2, <2>3 DEF SkipInv, StopKnown, FreshWorker
  <2> QED BY <1>0, <1>k, <1>l, <2>1, <2>2, <2>4 DEF ReportTriggered
<1>2. ASSUME NEW recover \in BOOLEAN, FinishFlow(recover) PROVE ReportTriggered'
  <2>1. PICK f \in Pushed : f = worker.flow
    BY <1>2, FinishFlowEffect
  <2>2. worker.pc = "finish" /\ IsFlow(f) /\ job' = job
    BY <1>2, <2>1, FinishFlowEffect DEF Rest
  <2>3. worker' = Idle \/ (worker' = ReportToParent(worker) /\ job[f].parent # 0)
    BY <1>2, <2>1 DEF FinishFlow, ReportToParent
  <2>4. CASE worker' = Idle
    BY <1>0, <2>4 DEF ReportTriggered
  <2>5. CASE worker' = ReportToParent(worker) /\ job[f].parent # 0
    <3>1. /\ worker'.stop = IF worker.stop = "error" THEN "stop" ELSE worker.stop
          /\ worker'.success = (worker.success /\ ~worker.handler)
          /\ worker'.triggered = (worker.triggered \/ worker.handler)
          /\ ~worker'.unrecoverable
      BY <1>0, <2>1, <2>5, WorkerFields
    <3>2. worker'.job = f
      BY <1>0, <2>1, <2>5, ReportEffect DEF ReportsTo
    <3>3. /\ worker.triggered \/ worker.handler => LastHandles(f)
          /\ worker.stop # "none" /\ Value(f).failure_module => f \in EndedEarly
          /\ ~worker.success /\ LastHandles(f) /\ Value(f).failure_module =>
                worker.triggered \/ worker.handler \/ f \in CutShort
      BY <1>0, <2>1, <2>2 DEF WorkerHandled, GoesTriggered, FinishTriggered
    <3>4. EndedEarly \subseteq EndedEarly' /\ CutShort \subseteq CutShort'
      BY EarlyGrows
    <3>5. worker.stop = "none" => worker'.stop = "none"
      BY <3>1
    <3>6. /\ worker'.triggered => LastHandles(f)
          /\ worker'.stop # "none" /\ Value(f).failure_module => f \in EndedEarly'
          /\ Value(f).failure_module /\ ~worker'.success /\ LastHandles(f) =>
                worker'.triggered \/ f \in CutShort'
      BY <3>1, <3>3, <3>4, <3>5
    <3> QED BY <1>0, <1>k, <1>l, <2>1, <2>2, <3>1, <3>2, <3>6 DEF ReportTriggered
  <2> QED BY <2>3, <2>4, <2>5
<1>3. ASSUME PushEmpty PROVE ReportTriggered'
  <2>1. PICK f \in Pushed : f = worker.flow
    BY <1>3, PushEmptyEffect
  <2>2. worker' = [Idle EXCEPT !.pc = "update", !.flow = f, !.unrecoverable = TRUE]
    BY <1>3, <2>1 DEF PushEmpty, UpdateFlow
  <2>3. worker'.flow = f /\ worker'.job = 0 /\ worker'.success /\ ~worker'.triggered
    BY <2>2 DEF Idle
  <2>4. ~IsFailureStep(f)'
    <3>1. /\ IsFlow(f) /\ job' = job
          /\ HasNoModules(f) \/ EmptyInnerFlows \in NextFlowTransform(f)
      BY <1>3, <2>1, PushEmptyEffect
    <3>2. flow_status'[f].step = flow_status[f].step
      <4>1. ~PushNext /\ ~UpdateStatus /\ ~\E k \in Pushed : PullFlow(k)
        BY <1>0, <1>3, PushEmptyEffect DEF PushNext, UpdateStatus, PullFlow
      <4> QED BY <4>1, OtherSteps
    <3>3. Size(f) = 0 \/ flow_status[f].step < Size(f)
      BY <3>1, EmptyModule, OwnModule DEF HasNoModules
    <3>4. Size(f) \in Nat /\ flow_status[f].step \in Int
      BY <3>1, JobFacts, ModuleFacts DEF Base, FlowStatus, PreprocessorStep
    <3> QED BY <1>k, <3>2, <3>3, <3>4 DEF IsFailureStep
  <2>5. Pushed' = Pushed
    BY <1>3, <1>l, PushEmptyEffect
  <2> QED BY <1>0, <2>3, <2>4, <2>5 DEF ReportTriggered
<1>4. ASSUME NEW f \in Pushed, PullFlow(f) PROVE ReportTriggered'
  <2>1. SUFFICES ASSUME worker'.pc = "update" PROVE ReportTriggered'
    BY DEF ReportTriggered
  <2>2. /\ IsFlow(f) /\ row[f] = "queued" /\ job' = job /\ flow_status' = flow_status
        /\ \/ worker'.flow = f /\ worker'.job = 0 /\ f \in canceled /\ canceled' = canceled
           \/ worker'.job = f
    BY <1>4, <2>1, PullFlowEffect DEF Rest
  <2>3. worker'.stop = "none" /\ ~worker'.triggered /\ ~worker'.unrecoverable
    BY <1>0, <1>4, WorkerFields
  <2>4. ~LastHandles(f) /\ ~IsFailureStep(f)
    BY <2>2, FreshChildren, FreshNotHandled
  <2>5. ~IsFailureStep(f)'
    BY <1>k, <2>2, <2>4 DEF IsFailureStep
  <2> QED BY <1>0, <1>l, <2>2, <2>3, <2>4, <2>5 DEF ReportTriggered
<1> QED BY <1>1, <1>2, <1>3, <1>4

(* What the worker knows stays true while it waits. *)
LEMMA TriggeredKeeps ==
  ASSUME Base, TokenInv, WorkerHandled, [Next]_vars, job' = job, worker' = worker, flow_status' = flow_status
  PROVE  WorkerHandled'
<1>1. faults' = 0 => faults = 0
  BY FaultsGrow
<1>2. /\ Pushed' = Pushed /\ \A k : LastHandles(k)' = LastHandles(k)
      /\ EndedEarly \subseteq EndedEarly' /\ CutShort \subseteq CutShort'
      /\ \A k : Children(k)' = Children(k)
  BY LastSame, EarlyGrows DEF Pushed, Children
<1>3. \A k \in Pushed : /\ Value(k)' = Value(k) /\ Size(k)' = Size(k) /\ IsFlow(k)' = IsFlow(k)
                        /\ \A i : ModuleAt(k, i)' = ModuleAt(k, i)
                        /\ Current(k)' = Current(k)
                        /\ IsInline(k)' = IsInline(k)
                        /\ (InQueue(k)' => InQueue(k))
                        /\ (k \in canceled /\ InQueue(k)' => k \in canceled')
  BY SameFlow, TreeStable, Stable, CanceledStays
<1>4. \A k \in Pushed : /\ IsFailureStep(k)' = IsFailureStep(k) /\ RunsHandler(k)' = RunsHandler(k)
  BY <1>3 DEF IsFailureStep, RunsHandler, MayRetry
<1>5. ReportTriggered'
  BY <1>1, <1>2, <1>3, <1>4 DEF WorkerHandled, ReportTriggered
<1>6. GoesTriggered'
  BY <1>1, <1>2 DEF WorkerHandled, GoesTriggered
<1>7. FinishTriggered'
  BY <1>1, <1>2, <1>3 DEF WorkerHandled, FinishTriggered
<1>8. PushTriggered'
  <2>1. SUFFICES ASSUME faults' = 0, worker.pc = "push", NEW f \in Pushed, worker.flow = f,
                        Value(f).failure_module, RunsHandler(f) \/ IsFailureStep(f),
                        NEW c \in Children(f), c \in InlineJobs', LastHandles(c)
                 PROVE  FailsAnew(f, c)'
    BY <1>2, <1>3, <1>4 DEF PushTriggered
  <2>2. c \in InlineJobs
    BY <1>2, <1>3, <2>1 DEF InlineJobs
  <2>3. FailsAnew(f, c)
    BY <1>1, <2>1, <2>2 DEF WorkerHandled, PushTriggered
  <2> QED BY <2>3, FailsAnewGrows
<1> QED BY <1>5, <1>6, <1>7, <1>8 DEF WorkerHandled

(* The worker knows of the failure modules that were run. *)
LEMMA TriggeredStep ==
  ASSUME Base, TokenInv, LossInv, SkipInv, PathInv, HandlerInv, WorkerHandled, [Next]_vars
  PROVE  WorkerHandled'
<1>0. Idle.pc = "idle" /\ faults \in Nat
  BY FaultsGrow DEF Idle
<1>v. /\ faults' # 0 => WorkerHandled'
      /\ worker'.pc \in {"idle", "run", "start"} => WorkerHandled'
      /\ worker'.pc = "update" /\ ReportTriggered' => WorkerHandled'
      /\ worker'.pc \in {"idle", "update"} /\ ReportTriggered' => WorkerHandled'
  BY DEF WorkerHandled, ReportTriggered, GoesTriggered, FinishTriggered, PushTriggered
<1>1. CASE UpdateStatus
  BY <1>1, UpdateTriggered
<1>2. ASSUME NEW f \in Pushed, PullFlow(f) PROVE WorkerHandled'
  BY <1>2, <1>v, PullFlowEffect, ReportsTriggered
<1>3. ASSUME NEW s \in Ended \ {"skipped"}, FinishStep(s) PROVE WorkerHandled'
  BY <1>3, <1>v, FinishStepEffect, ReportsTriggered
<1>4. ASSUME NEW recover \in BOOLEAN, FinishFlow(recover) PROVE WorkerHandled'
  BY <1>0, <1>4, <1>v, FinishFlowEffect, ReportsTriggered DEF ReportsTo
<1>5. CASE PushEmpty
  BY <1>5, <1>v, PushEmptyEffect, ReportsTriggered
<1>6. CASE PushFails
  BY <1>0, <1>6, <1>v, PushFailsEffect, FailsTriggered DEF ReportsTo
<1>7. ASSUME (\E j \in Pushed : PullStep(j)) \/ Preprocess \/ PushNext \/ Crash PROVE WorkerHandled'
  BY <1>0, <1>7, <1>v, PullStepEffect DEF Preprocess, PushNext, Crash
<1>8. CASE UpdateFails
  BY <1>0, <1>8, <1>v DEF UpdateFails
<1>9. CASE MonitorStep \/ (\E j \in Pushed : Cancel(j)) \/ CrashServer \/ UNCHANGED vars
  BY <1>9, TriggeredKeeps DEF MonitorStep, KillJob, RestartStep, PingExpires, HandleZombieFlow,
     Cancel, CrashServer, vars
<1> QED BY <1>1, <1>2, <1>3, <1>4, <1>5, <1>6, <1>7, <1>8, <1>9 DEF Next, WorkerStep

(* A flow that comes to be a failure was completed as one, or could not go on, or has no failure  *)
(* module.                                                                                         *)
LEMMA NewFailure ==
  ASSUME Base, TokenInv, [Next]_vars, faults' = 0,
         NEW f \in Pushed, IsFlow(f), row'[f] = "failure", row[f] # "failure"
  PROVE  \/ /\ worker.pc = "finish" /\ worker.flow = f /\ InQueue(f) /\ f \notin canceled
            /\ ~worker.success \/ worker.handler
         \/ f \in broken' \/ ~Value(f).failure_module
<1>0. /\ TypeOK /\ faults = 0 /\ row \in [Job -> {"none", "queued", "running"} \cup Ended]
      /\ \A k \in Pushed : k \in Job
      /\ "failure" \in Ended /\ "canceled" \in Ended /\ f \in Job
  BY FaultsGrow, JobFacts DEF Base, TypeOK, Ended
<1>c. \A j \in Pushed, s \in Ended : Complete(j, s) => f = j /\ s = "failure"
  BY <1>0, CompleteEffect
<1>1. ASSUME NEW j \in Pushed, PullFlow(j) PROVE FALSE
  BY <1>0, <1>1, <1>c, PullFlowEffect
<1>2. ASSUME NEW s \in Ended \ {"skipped"}, FinishStep(s) PROVE FALSE
  BY <1>0, <1>2, <1>c, FinishStepEffect
<1>3. ASSUME NEW recover \in BOOLEAN, FinishFlow(recover)
      PROVE  /\ worker.pc = "finish" /\ worker.flow = f /\ InQueue(f) /\ f \notin canceled
             /\ ~worker.success \/ worker.handler
  <2>1. PICK w \in Pushed : w = worker.flow
    BY <1>3, FinishFlowEffect
  <2>2. worker.pc = "finish"
    BY <1>3 DEF FinishFlow
  <2>3. InQueue(w)
    BY <1>3, <2>1 DEF FinishFlow
  <2>4. PICK s : /\ Complete(w, s)
                 /\ s = CASE w \in canceled -> "canceled"
                          [] w \notin canceled /\ worker.stop = "skip" -> "skipped"
                          [] OTHER -> IF worker.success /\ (worker.handler => recover)
                                        THEN "success" ELSE "failure"
    BY <1>3, <2>1, <2>3 DEF FinishFlow
  <2>5. s \in Ended
    BY <2>4 DEF Ended
  <2>6. f = w /\ s = "failure"
    BY <1>c, <2>4, <2>5
  <2>7. w \notin canceled /\ ~(worker.success /\ (worker.handler => recover))
    BY <2>4, <2>6
  <2> QED BY <2>1, <2>2, <2>3, <2>6, <2>7
<1>4. ASSUME PushFails PROVE f \in broken' \/ ~Value(f).failure_module
  <2>1. PICK w \in Pushed : w = worker.flow
    BY <1>4, PushFailsEffect
  <2>2. HandlerIsMissing(w) \/ ~InQueue(w)
    BY <1>0, <1>4, <2>1 DEF PushFails
  <2>3. CASE worker.pc = "start"
    <3>1. HandleJobError(w, "failure")
      BY <1>4, <2>1, <2>3 DEF PushFails
    <3>2. CASE InQueue(w)
      BY <1>0, <1>c, <2>2, <3>1, <3>2 DEF HandleJobError, HandlerIsMissing
    <3>3. CASE ~InQueue(w)
      BY <1>0, <3>1, <3>3 DEF HandleJobError
    <3> QED BY <3>2, <3>3
  <2>4. CASE worker.pc = "push"
    BY <1>0, <1>4, <1>c, <2>1, <2>4 DEF PushFails
  <2> QED BY <1>4, <2>3, <2>4 DEF PushFails
<1>5. ASSUME NEW j \in Pushed, KillJob(j) PROVE FALSE
  BY <1>0, <1>5, <1>c DEF KillJob
<1>6. ASSUME PushNext PROVE FALSE
  BY <1>0, <1>6, PushNextEffect
<1>7. ASSUME Preprocess PROVE FALSE
  BY <1>0, <1>7 DEF Preprocess
<1>8. ASSUME \E j \in Pushed : PullStep(j) \/ RestartStep(j) \/ HandleZombieFlow(j) PROVE FALSE
  BY <1>0, <1>8 DEF PullStep, RestartStep, HandleZombieFlow
<1>9. ASSUME \/ UpdateStatus \/ PushEmpty \/ UpdateFails \/ Crash \/ CrashServer \/ UNCHANGED vars
             \/ \E j \in Pushed : PingExpires(j) \/ Cancel(j)
      PROVE  row' = row
  BY <1>9 DEF UpdateStatus, PushEmpty, UpdateFails, Crash, CrashServer, vars, PingExpires, Cancel
<1> QED BY <1>1, <1>2, <1>3, <1>4, <1>5, <1>6, <1>7, <1>8, <1>9 DEF Next, WorkerStep, MonitorStep

(* Every failure of the steps is handled, or the flow has ended early. *)
LEMMA FailureHandled ==
  ASSUME Base, TokenInv, LossInv, WorkerHandled, HandledOnce, [Next]_vars, faults' = 0,
         NEW f \in Pushed', IsFlow(f)', Value(f)'.failure_module, Size(f)' > 0, row'[f] = "failure",
         ~ModuleAt(f, Size(f) - 1)'.continue_on_error
  PROVE  IsHandled(f)' \/ f \in EndedEarly'
<1>0. /\ faults = 0 /\ EndedEarly \subseteq EndedEarly'
      /\ Pushed \subseteq Pushed' /\ \A k \in Pushed : job'[k] = job[k]
  BY FaultsGrow, EarlyGrows, Stable
<1>1. f \in Pushed
  <2>1. CASE PushNext
    BY <2>1, PushNextEffect DEF Base, TypeOK
  <2>2. CASE ~PushNext
    BY <2>2, OtherSteps, UpdateStatusEffect, PullFlowEffect DEF Rest, Pushed
  <2> QED BY <2>1, <2>2
<1>2. /\ IsFlow(f) /\ Value(f).failure_module /\ Size(f) > 0
      /\ Size(f)' = Size(f) /\ \A i : ModuleAt(f, i)' = ModuleAt(f, i)
  BY <1>0, <1>1, SameFlow
<1>3. ~ModuleAt(f, Size(f) - 1).continue_on_error
  BY <1>2 DEF ModuleAt
<1>4. \A h \in Pushed : IsHandler(h)' = IsHandler(h) /\ Within(h)' = Within(h)
  BY TreeStable
<1>5. CASE row[f] = "failure"
  <2>1. CASE f \in EndedEarly
    BY <1>0, <2>1
  <2>2. CASE IsHandled(f)
    <3>1. PICK h \in Pushed : IsHandler(h) /\ f \in Within(h) /\ \A c \in Children(f) : c <= h
      BY <2>2 DEF IsHandled
    <3>2. Children(f)' = Children(f)
      <4>1. CASE PushNext
        <5>1. worker.flow # f
          BY <1>1, <1>5, <4>1 DEF LossInv, LiveRows, InQueue, PushNext, Live
        <5>2. PICK q : q = Len(job) + 1
          OBVIOUS
        <5>3. PICK n \in NextFlowTransform(worker.flow) \ {EmptyInnerFlows} :
                job'[q] = JobOf(n.flow, worker.flow, PushedStep(worker.flow), n.index, n.len, Attempt(worker.flow))
          BY <4>1, <5>2, PushNextEffect
        <5>4. job'[q].parent # f
          BY <5>1, <5>3 DEF JobOf
        <5>5. Pushed' = Pushed \cup {q}
          BY <4>1, <5>2, PushNextEffect
        <5> QED BY <1>0, <5>4, <5>5 DEF Children
      <4>2. CASE ~PushNext
        BY <4>2, OtherSteps, UpdateStatusEffect, PullFlowEffect DEF Rest, Children, Pushed
      <4> QED BY <4>1, <4>2
    <3>3. h \in Pushed' /\ IsHandler(h)' /\ f \in Within(h)' /\ \A c \in Children(f)' : c <= h
      BY <1>0, <1>4, <3>1, <3>2
    <3> QED BY <3>3 DEF IsHandled
  <2> QED BY <1>0, <1>1, <1>2, <1>3, <1>5, <2>1, <2>2 DEF HandledOnce
<1>6. CASE row[f] # "failure"
  <2>1. CASE f \in broken'
    BY <2>1, EarlyFixNext DEF BelowIs
  <2>2. CASE /\ worker.pc = "finish" /\ worker.flow = f /\ InQueue(f) /\ f \notin canceled
             /\ ~worker.success \/ worker.handler
    <3>1. LastHandles(f) \/ f \in EndedEarly
      BY <1>0, <1>1, <1>2, <1>3, <2>2 DEF WorkerHandled, FinishTriggered
    <3>2. SUFFICES ASSUME LastHandles(f) PROVE IsHandled(f)'
      BY <1>0, <3>1
    <3>3. PICK h \in Pushed : h = Last /\ IsHandler(h) /\ f \in Within(h)
      BY <3>2 DEF LastHandles
    <3>4. job' = job
      BY <2>2, OtherSteps, UpdateStatusEffect, PullFlowEffect DEF PushNext, Rest
    <3>5. \A c \in Children(f)' : c <= h
      BY <3>3, <3>4, LastFacts DEF Children, Pushed
    <3>6. h \in Pushed' /\ IsHandler(h)' /\ f \in Within(h)'
      BY <1>0, <1>4, <3>3
    <3> QED BY <3>5, <3>6 DEF IsHandled
  <2> QED BY <1>1, <1>2, <1>6, <2>1, <2>2, NewFailure
<1> QED BY <1>5, <1>6

(* The failure module is not run for what a branch or iteration has just handled. *)
LEMMA NotHandledAgain ==
  ASSUME Base, TokenInv, HandlerInv, WorkerHandled, HandledOnce, [Next]_vars, faults' = 0,
         NEW f \in Pushed', IsFlow(f)', Value(f)'.failure_module, Size(f)' > 0,
         NEW h \in ChildrenAt(f, Size(f))', NEW c \in (Children(f) \cap InlineJobs)',
         IsHandler(h - 1)', c \in Within(h - 1)'
  PROVE  FailsAnew(f, c)'
<1>0. /\ faults = 0 /\ Pushed \subseteq Pushed' /\ \A k \in Pushed : job'[k] = job[k]
      /\ \A k \in Pushed : k \in Nat \ {0} /\ job[k].parent \in Nat /\ job[k].parent < k
      /\ Pushed = 1 .. Len(job) /\ Len(job) \in Nat
  BY FaultsGrow, Stable, JobFacts DEF Pushed, Base, TypeOK
<1>1. /\ h \in Pushed' /\ job'[h].parent = f /\ job'[h].step = Size(f)'
      /\ c \in Pushed' /\ job'[c].parent = f /\ IsInline(c)'
  BY DEF ChildrenAt, Children, InlineJobs
<1>2. ASSUME NEW k \in Pushed, IsHandler(k)', c \in Within(k)', f \in Pushed
      PROVE  IsHandler(k) /\ c \in Within(k) /\ c \in Children(f) \cap InlineJobs /\ IsFlow(f)
             /\ Value(f).failure_module /\ Size(f) > 0 /\ Size(f)' = Size(f)
  BY <1>0, <1>1, <1>2, TreeStable, WithinFix, SameFlow DEF BelowIs, Children, InlineJobs
<1>3. CASE h \in Pushed
  <2>1. job[h].parent = f /\ f \in Pushed
    <3>1. job[h].parent = f
      BY <1>0, <1>1, <1>3
    <3>2. f # 0
      <4>1. TypeOK'
        BY BaseStep DEF Base
      <4>2. 0 \notin Pushed'
        BY <4>1, SMTT(30) DEF TypeOK, Pushed, Job
      <4> QED BY <4>2
    <3> QED BY <1>3, <3>1, <3>2, JobFacts DEF Base
  <2>2. PICK k \in Pushed : k = h - 1
    BY <1>0, <1>3, <2>1
  <2>3. /\ IsHandler(k) /\ c \in Within(k) /\ c \in Children(f) \cap InlineJobs /\ IsFlow(f)
        /\ Value(f).failure_module /\ Size(f) > 0 /\ Size(f)' = Size(f)
    BY <1>2, <2>1, <2>2
  <2>4. h \in ChildrenAt(f, Size(f))
    BY <1>0, <1>1, <1>3, <2>1, <2>3 DEF ChildrenAt, Children
  <2>5. FailsAnew(f, c)
    BY <1>0, <2>1, <2>2, <2>3, <2>4 DEF HandledOnce
  <2> QED BY <2>1, <2>3, <2>5, FailsAnewGrows
<1>4. CASE h \notin Pushed
  <2>1. PushNext
    <3>1. SUFFICES ASSUME ~PushNext PROVE FALSE
      OBVIOUS
    <3>2. job' = job
      BY <3>1, OtherSteps, UpdateStatusEffect, PullFlowEffect DEF Rest
    <3> QED BY <1>1, <1>4, <3>2 DEF Pushed
  <2>2. PICK w \in Pushed : w = worker.flow
    BY <2>1, PushNextEffect
  <2>3. h = Len(job) + 1
    BY <1>1, <1>4, <2>1, PushNextEffect
  <2>4. PICK n \in NextFlowTransform(w) \ {EmptyInnerFlows} :
          job'[h] = JobOf(n.flow, w, PushedStep(w), n.index, n.len, Attempt(w))
    BY <2>1, <2>2, <2>3, PushNextEffect
  <2>5. f = w /\ PushedStep(f) = Size(f)'
    BY <1>1, <2>4 DEF JobOf
  <2>6. PICK k \in Pushed : k = h - 1 /\ k = Last
    BY <1>0, <2>2, <2>3 DEF Last
  <2>7. /\ IsHandler(k) /\ c \in Within(k) /\ c \in Children(f) \cap InlineJobs
        /\ Value(f).failure_module /\ Size(f) > 0 /\ Size(f)' = Size(f)
    BY <1>2, <2>2, <2>5, <2>6
  <2>8. LastHandles(c)
    BY <2>6, <2>7 DEF LastHandles
  <2>9. RunsHandler(f) \/ IsFailureStep(f)
    BY <2>1, <2>2, <2>5, <2>7, PushNextEffect, ModuleFacts DEF Base, PushedStep, IsFailureStep
  <2>10. worker.pc \in {"start", "push"}
    BY <2>1, PushNextEffect
  <2>11. worker.pc # "start"
    BY <2>2, <2>5, <2>7 DEF InlineJobs, IsInline, HandlerInv, StartFresh
  <2>12. FailsAnew(f, c)
    BY <1>0, <2>2, <2>5, <2>7, <2>8, <2>9, <2>10, <2>11 DEF WorkerHandled, PushTriggered
  <2> QED BY <2>2, <2>5, <2>7, <2>12, FailsAnewGrows
<1> QED BY <1>3, <1>4

(* Every step keeps what is known of the failure modules that were run. *)
LEMMA HandledStep ==
  ASSUME Base, TokenInv, ChildInv, LossInv, SkipInv, PathInv, HandlerInv, HandledInv, [Next]_vars
  PROVE  HandledInv'
<1>1. WorkerHandled'
  BY TriggeredStep DEF HandledInv
<1>2. OneHandler'
  BY HandlerStep DEF HandlerInv
<1>3. ASSUME faults' = 0, NEW f \in Pushed', IsFlow(f)', Value(f)'.failure_module, Size(f)' > 0
      PROVE  /\ row'[f] = "failure" /\ ~ModuleAt(f, Size(f) - 1)'.continue_on_error =>
                   IsHandled(f)' \/ f \in EndedEarly'
             /\ \A g, h \in ChildrenAt(f, Size(f))' : g = h
             /\ \A h \in ChildrenAt(f, Size(f))', c \in (Children(f) \cap InlineJobs)' :
                   IsHandler(h - 1)' /\ c \in Within(h - 1)' => FailsAnew(f, c)'
  BY <1>2, <1>3, FailureHandled, NotHandledAgain DEF HandledInv, OneHandler
<1>4. HandledOnce'
  BY <1>3 DEF HandledOnce
<1> QED BY <1>1, <1>4 DEF HandledInv

(* At first nothing has failed. *)
LEMMA HandledInit ==
  ASSUME Init, Base
  PROVE  HandledInv
<1>1. Pushed = {1} /\ job[1].parent = 0 /\ worker.pc = "idle" /\ 1 \in Job
  BY NestedFlowAssumption DEF Init, Pushed, Idle, JobOf, Job
<1>2. row[1] = "queued" /\ \A k, i : k \in Pushed => ChildrenAt(k, i) = {}
  BY <1>1 DEF Init, Root, ChildrenAt, Children
<1> QED BY <1>1, <1>2 DEF HandledInv, WorkerHandled, ReportTriggered, GoesTriggered, FinishTriggered,
           PushTriggered, HandledOnce

(* The failure module of a flow is run a single time, and nothing is pushed after it, whatever    *)
(* dies, fails or is cancelled.                                                                    *)
THEOREM FailureModuleOnce ==
  ASSUME NoEmptyHandlers
  PROVE  Spec => []OneHandler
<1>1. Init /\ Base => LossInv /\ SkipInv /\ HandlerInv
  BY LossInit, SkipInit, HandlerInit
<1>2. /\ Base /\ TokenInv /\ ChildInv /\ IterInv /\ OrderInv /\ LossInv /\ SkipInv /\ HandlerInv
      /\ [Next]_vars
      => LossInv' /\ SkipInv' /\ HandlerInv'
  BY LossStep, SkipStep, HandlerStep
<1>3. HandlerInv => OneHandler
  BY DEF HandlerInv
<1> QED BY <1>1, <1>2, <1>3, IterationInvariant, PTL DEF Spec

(* As long as nothing dies, every failure of a flow's steps is handled by its failure module or   *)
(* by that of the branch or iteration where it happened, by each a single time, and the one is not *)
(* run after the other without a new failure.                                                      *)
THEOREM FailuresHandledOnce ==
  ASSUME NoEmptyHandlers
  PROVE  Spec => []HandledOnce
<1>1. Init /\ Base => LossInv /\ SkipInv /\ PathInv /\ HandlerInv /\ HandledInv
  BY LossInit, SkipInit, PathInit, HandlerInit, HandledInit
<1>2. /\ Base /\ TokenInv /\ ChildInv /\ IterInv /\ OrderInv /\ LossInv /\ SkipInv
      /\ PathInv /\ HandlerInv /\ HandledInv /\ [Next]_vars
      => LossInv' /\ SkipInv' /\ PathInv' /\ HandlerInv' /\ HandledInv'
  BY LossStep, SkipStep, PathStep, HandlerStep, HandledStep
<1>3. HandledInv => HandledOnce
  BY DEF HandledInv
<1> QED BY <1>1, <1>2, <1>3, IterationInvariant, PTL DEF Spec
=============================================================================
