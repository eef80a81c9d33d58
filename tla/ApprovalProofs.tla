--------------------------- MODULE ApprovalProofs ---------------------------
(***************************************************************************)
(* What an approval is worth: for any number of modules, messages, API     *)
(* requests, cancels and deaths of workers, a step is left behind only     *)
(* with its approvals, and a disapproval of a parked flow is final.        *)
(***************************************************************************)
EXTENDS Approval, FiniteSetTheorems, TLAPS

\* How a wait may have ended.
Settled(i) ==
    \/ /\ verdict[i] = "approved"
       /\ Cardinality(approvers[i]) >= Required[i]
       /\ \A m \in approvers[i] : m.approved /\ m.job \in {i, Flow}
    \/ verdict[i] = "continued" /\ i \in Continue

\* PassedIsApproved alone is not inductive: the worker that has counted and is
\* about to push must have settled the wait.
PushIsSettled ==
    holder = "push" => step > 0 /\ (Required[step - 1] > 0 => Settled(step - 1))

\* A flow that is parked is held by nobody, and waits for a step that asks for it.
ParkedWaits ==
    suspend_until # "null" =>
        /\ row = "running" /\ holder = "none"
        /\ module = "WaitingForEvents"

WaitsForStep == module = "WaitingForEvents" => NeedsResume

\* A flow that is put back to the queue has not started.
QueuedIsNew == row = "queued" => step = 0

IInv ==
    /\ TypeOK /\ IsFiniteSet(resume_job)
    /\ PassedIsApproved /\ PushIsSettled
    /\ ParkedWaits /\ WaitsForStep /\ QueuedIsNew

\* The wait for module i is lost: a worker that takes the flow up can only reject it.
Refused(i) ==
    \/ row \in {"failure", "canceled"}
    \/ /\ row = "running" /\ step = i + 1
       /\ module = "WaitingForEvents" /\ holder \in {"none", "check", "reject"}
       /\ Disapproved(i)
-----------------------------------------------------------------------------
(* Types.                                                                  *)

Types == TypeOK /\ IsFiniteSet(resume_job)

\* A flow that was just pushed is well typed.
LEMMA InitTypes == Init => Types
<1> SUFFICES ASSUME Init PROVE Types
  OBVIOUS
<1>1. Idle.id \in ResumeId
  BY ApprovalAssumption DEF Idle
<1>2. request \in [Request -> [pc : {"idle", "write"}, job : Job, id : ResumeId,
                               approved : BOOLEAN, route : Route,
                               suspend : Nat, waiting : BOOLEAN]]
  BY <1>1 DEF Init, Idle, Job, Route
<1>3. step \in StepIdx
  BY ApprovalAssumption DEF Init, StepIdx
<1>4. IsFiniteSet(resume_job)
  BY FS_EmptySet DEF Init
<1>5. approvers \in [StepIdx -> SUBSET Message]
  BY DEF Init
<1>6. verdict \in [StepIdx -> {"none", "approved", "continued"}]
  BY DEF Init
<1>7. started \in 0 .. MaxMessages /\ crashes \in 0 .. MaxCrashes
  BY ApprovalAssumption DEF Init
<1>8. /\ row \in {"queued", "running"} \cup Ended /\ canceled \in BOOLEAN
      /\ suspend \in Nat /\ suspend_until \in {"null", "future", "past"}
      /\ ping \in {"null", "fresh", "stale"}
      /\ module \in {"WaitingForPriorSteps", "WaitingForEvents", "WaitingForExecutor"}
      /\ resume_job \subseteq Message
      /\ holder \in {"none", "check", "push", "reject"}
  BY DEF Init
<1> QED BY <1>2, <1>3, <1>4, <1>5, <1>6, <1>7, <1>8 DEF Types, TypeOK

\* What a module waits for is missing as long as it may be parked.
LEMMA MissingMessages ==
  ASSUME Types, NEW i \in StepIdx, ~CanBeResumed(i), MayPark(i)
  PROVE  Required[i] - Cardinality(Messages(i)) \in Nat
<1>1. Cardinality(Messages(i)) \in Nat
  <2>1. IsFiniteSet(Messages(i))
    BY FS_Subset DEF Types, Messages
  <2> QED BY <2>1, FS_CardinalityType
<1>2. Required[i] \in Nat
  BY ApprovalAssumption DEF StepIdx
<1> QED BY <1>1, <1>2 DEF CanBeResumed, MayPark

\* Every step of a worker keeps the types.
LEMMA WorkerTypes == ASSUME Types, WorkerStep PROVE Types'
<1> USE ApprovalAssumption DEF Types, TypeOK
<1>0. step \in Nat /\ (NeedsResume => step - 1 \in StepIdx)
  BY DEF StepIdx, NeedsResume
<1>1. CASE PullFlow
  BY <1>1 DEF PullFlow, flowStatus
<1>2. CASE PullSuspended
  BY <1>2 DEF PullSuspended, flowStatus
<1>3. CASE Resume
  <2>1. Messages(step - 1) \in SUBSET Message
    BY DEF Messages
  <2>2. /\ verdict' \in [StepIdx -> {"none", "approved", "continued"}]
        /\ approvers' \in [StepIdx -> SUBSET Message]
    BY <1>0, <1>3, <2>1 DEF Resume
  <2> QED BY <1>3, <2>2 DEF Resume, flowRow
<1>4. CASE Park
  <2>1. suspend' \in Nat
    BY <1>0, <1>4, MissingMessages DEF Park
  <2> QED BY <1>4, <2>1 DEF Park
<1>5. CASE Reject
  BY <1>5 DEF Reject, flowRow, flowStatus
<1>6. CASE PushStep
  BY <1>6 DEF PushStep
<1>7. CASE StepDone
  <2>1. step' \in StepIdx
    BY <1>7 DEF StepDone, StepIdx
  <2>2. resume_job' \subseteq Message /\ IsFiniteSet(resume_job')
    BY <1>7, FS_EmptySet DEF StepDone, EndFlow
  <2>3. row' \in {"queued", "running"} \cup Ended /\ canceled' \in BOOLEAN
    BY <1>7 DEF StepDone, EndFlow, Ended
  <2> QED BY <1>7, <2>1, <2>2, <2>3 DEF StepDone, EndFlow
<1>8. CASE FailFlow
  BY <1>8, FS_EmptySet DEF FailFlow, EndFlow, Ended, flowStatus
<1>9. CASE LetGo
  BY <1>9 DEF LetGo, flowRow, flowStatus
<1> QED BY <1>1, <1>2, <1>3, <1>4, <1>5, <1>6, <1>7, <1>8, <1>9 DEF WorkerStep

\* A request holds what it has read of the flow.
LEMMA ReadTypes ==
  ASSUME Types, NEW r \in Request, NEW j \in Job, NEW id \in ResumeId,
         NEW approved \in BOOLEAN, NEW route \in Route, Read(r, j, id, approved, route)
  PROVE  Types'
<1> DEFINE q == [pc |-> "write", job |-> j, id |-> id, approved |-> approved,
                 route |-> route, suspend |-> suspend, waiting |-> WaitsFor(j)]
           Q == [pc : {"idle", "write"}, job : Job, id : ResumeId, approved : BOOLEAN,
                 route : Route, suspend : Nat, waiting : BOOLEAN]
<1>1. q \in Q
  BY DEF Types, TypeOK, WaitsFor
<1>2. request' \in [Request -> Q]
  BY <1>1 DEF Read, Types, TypeOK
<1>3. started' \in 0 .. MaxMessages
  BY ApprovalAssumption DEF Read, Types, TypeOK
<1> QED BY <1>2, <1>3 DEF Read, Types, TypeOK, flowRow, flowStatus

\* A message adds one row and leaves a natural number in suspend, whatever was read.
LEMMA WriteTypes ==
  ASSUME Types, NEW r \in Request, Write(r)
  PROVE  Types'
<1> DEFINE q == request[r]
           m == [job |-> q.job, id |-> q.id, approved |-> q.approved]
<1>1. q \in [pc : {"idle", "write"}, job : Job, id : ResumeId, approved : BOOLEAN,
             route : Route, suspend : Nat, waiting : BOOLEAN]
  BY DEF Types, TypeOK
<1>2. m \in Message
  BY <1>1 DEF Message
<1>3. NewSuspend(q) \in Nat
  BY <1>1 DEF NewSuspend, Types, TypeOK
<1>4. Idle \in [pc : {"idle", "write"}, job : Job, id : ResumeId, approved : BOOLEAN,
                route : Route, suspend : Nat, waiting : BOOLEAN]
  BY ApprovalAssumption DEF Idle, Job, Route
<1>5. IsFiniteSet(resume_job \cup {m})
  BY FS_AddElement DEF Types
<1>6. /\ resume_job' \subseteq Message /\ IsFiniteSet(resume_job')
      /\ suspend' \in Nat
  <2>1. CASE UNCHANGED <<resume_job, suspend>>
    BY <2>1 DEF Types, TypeOK
  <2>2. CASE resume_job' = resume_job \cup {m} /\ suspend' = NewSuspend(q)
    BY <2>2, <1>2, <1>3, <1>5 DEF Types, TypeOK
  <2> QED BY <2>1, <2>2 DEF Write
<1>7. request' \in [Request -> [pc : {"idle", "write"}, job : Job, id : ResumeId,
                                approved : BOOLEAN, route : Route, suspend : Nat,
                                waiting : BOOLEAN]]
  BY <1>4 DEF Write, Types, TypeOK
<1> QED BY <1>6, <1>7 DEF Write, Types, TypeOK, flowStatus

\* Every step keeps the types: a request by the flow's id only names a step when
\* one is waited for.
LEMMA NextTypes == Types /\ WaitsForStep /\ [Next]_vars => Types'
<1> SUFFICES ASSUME Types, WaitsForStep, [Next]_vars PROVE Types'
  OBVIOUS
<1> USE ApprovalAssumption
<1>1. CASE WorkerStep
  BY <1>1, WorkerTypes
<1>2. CASE Crash
  BY <1>2 DEF Crash, flowRow, flowStatus, Types, TypeOK
<1>3. CASE Timeout
  BY <1>3 DEF Timeout, flowStatus, Types, TypeOK
<1>4. ASSUME NEW r \in Request, NEW id \in ResumeId, NEW approved \in BOOLEAN,
             NEW j \in Job, ReadByLink(r, j, id, approved)
      PROVE  Types'
  BY <1>4, ReadTypes DEF ReadByLink, Route
<1>5. ASSUME NEW r \in Request, NEW id \in ResumeId, NEW approved \in BOOLEAN,
             ReadByFlow(r, id, approved)
      PROVE  Types'
  <2>1. CASE module = "WaitingForEvents"
    <3>1. step - 1 \in Job
      BY <2>1 DEF WaitsForStep, NeedsResume, Job, StepIdx, Types, TypeOK
    <3> QED BY <1>5, <2>1, <3>1, ReadTypes DEF ReadByFlow, Route
  <2>2. CASE module # "WaitingForEvents"
    BY <1>5, <2>2, ReadTypes DEF ReadByFlow, Route, Job
  <2> QED BY <2>1, <2>2
<1>6. ASSUME NEW r \in Request, Write(r) PROVE Types'
  BY <1>6, WriteTypes
<1>7. ASSUME NEW force \in BOOLEAN, Cancel(force) PROVE Types'
  <2>1. CASE EndFlow("canceled")
    BY <1>7, <2>1, FS_EmptySet DEF Cancel, EndFlow, Ended, flowStatus, Types, TypeOK
  <2>2. CASE canceled' = TRUE /\ suspend' = 0 /\ UNCHANGED <<row, suspend_until, ping, resume_job>>
    BY <1>7, <2>2 DEF Cancel, flowStatus, Types, TypeOK
  <2> QED BY <1>7, <2>1, <2>2 DEF Cancel
<1>8. CASE PingExpires
  BY <1>8 DEF PingExpires, flowStatus, Types, TypeOK
<1>9. CASE HandleZombieFlow
  BY <1>9, FS_EmptySet DEF HandleZombieFlow, EndFlow, Ended, flowStatus, Types, TypeOK
<1>10. CASE UNCHANGED vars
  BY <1>10 DEF vars, flowRow, flowStatus, Types, TypeOK
<1> QED BY <1>1, <1>2, <1>3, <1>4, <1>5, <1>6, <1>7, <1>8, <1>9, <1>10 DEF Next
-----------------------------------------------------------------------------
(* Parking and passing.                                                    *)

\* What the steps of servers, clocks and the monitor leave alone.
progress == <<step, module, approvers, verdict>>

\* Nobody but the worker moves the flow on, and nobody else parks it.
LEMMA OthersStandStill ==
  ASSUME [Next]_vars, ~WorkerStep
  PROVE  /\ UNCHANGED progress
         /\ holder' \in {holder, "none"}
         /\ suspend_until # "null" \/ suspend_until' = "null"
         /\ row' = row \/ suspend_until' = "null"
<1>1. CASE Crash \/ Timeout
  BY <1>1 DEF Crash, Timeout, flowRow, flowStatus, progress
<1>2. ASSUME NEW r \in Request, NEW id \in ResumeId, NEW approved \in BOOLEAN,
             \/ \E j \in Job : ReadByLink(r, j, id, approved)
             \/ ReadByFlow(r, id, approved)
      PROVE  UNCHANGED <<flowRow, flowStatus, holder>>
  BY <1>2 DEF ReadByLink, ReadByFlow, Read
<1>3. ASSUME NEW r \in Request, Write(r)
      PROVE  UNCHANGED <<row, suspend_until, flowStatus, holder>>
  BY <1>3 DEF Write
<1>4. ASSUME NEW force \in BOOLEAN, Cancel(force)
      PROVE  /\ UNCHANGED <<flowStatus, holder>>
             /\ UNCHANGED <<row, suspend_until>> \/ suspend_until' = "null"
  BY <1>4 DEF Cancel, EndFlow
<1>5. CASE PingExpires
  BY <1>5 DEF PingExpires, flowStatus, progress
<1>6. CASE HandleZombieFlow
  BY <1>6 DEF HandleZombieFlow, EndFlow, flowStatus, progress
<1>7. CASE UNCHANGED vars
  BY <1>7 DEF vars, flowRow, flowStatus, progress
<1> QED
  BY <1>1, <1>2, <1>3, <1>4, <1>5, <1>6, <1>7 DEF Next, flowRow, flowStatus, progress

\* Only the first step is ever waited for in the queue.
LEMMA NextQueued == QueuedIsNew /\ [Next]_vars => QueuedIsNew'
<1> SUFFICES ASSUME QueuedIsNew, [Next]_vars PROVE QueuedIsNew'
  OBVIOUS
<1>1. CASE WorkerStep
  BY <1>1 DEF WorkerStep, PullFlow, PullSuspended, Resume, Park, Reject, PushStep,
     StepDone, FailFlow, LetGo, EndFlow, flowRow, flowStatus, QueuedIsNew
<1>2. CASE ~WorkerStep
  <2>1. CASE row' = row
    BY <1>2, <2>1, OthersStandStill DEF progress, QueuedIsNew
  <2>2. CASE row' # row
    <3>1. /\ ~Crash /\ ~Timeout /\ ~PingExpires /\ \A r \in Request : ~Write(r)
      BY <2>2 DEF Crash, Timeout, PingExpires, Write, flowRow
    <3>2. \A r \in Request, id \in ResumeId, approved \in BOOLEAN :
              /\ \A j \in Job : ~ReadByLink(r, j, id, approved)
              /\ ~ReadByFlow(r, id, approved)
      BY <2>2 DEF ReadByLink, ReadByFlow, Read, flowRow
    <3>3. CASE HandleZombieFlow
      BY <3>3 DEF HandleZombieFlow, EndFlow, flowStatus, QueuedIsNew
    <3>4. CASE \E force \in BOOLEAN : Cancel(force)
      BY <2>2, <3>4 DEF Cancel, EndFlow, QueuedIsNew
    <3> QED BY <1>2, <2>2, <3>1, <3>2, <3>3, <3>4 DEF Next, vars, flowRow
  <2> QED BY <2>1, <2>2
<1> QED BY <1>1, <1>2

\* A flow is parked by the worker that lets go of it, between two steps.
LEMMA NextParked ==
  Types /\ ParkedWaits /\ WaitsForStep /\ QueuedIsNew /\ [Next]_vars
    => ParkedWaits' /\ WaitsForStep'
<1> SUFFICES ASSUME Types, ParkedWaits, WaitsForStep, QueuedIsNew, [Next]_vars
             PROVE  ParkedWaits' /\ WaitsForStep'
  OBVIOUS
<1>1. CASE ~WorkerStep
  <2>1. /\ UNCHANGED <<step, module>> /\ holder' \in {holder, "none"}
        /\ suspend_until' # "null" => suspend_until # "null" /\ row' = row
    BY <1>1, OthersStandStill DEF progress
  <2>2. ParkedWaits'
    BY <2>1 DEF ParkedWaits
  <2>3. WaitsForStep'
    BY <2>1 DEF WaitsForStep, NeedsResume
  <2> QED BY <2>2, <2>3
<1>2. CASE PullFlow \/ PullSuspended \/ Reject \/ PushStep \/ LetGo
  BY <1>2 DEF PullFlow, PullSuspended, Reject, PushStep, LetGo,
     InQueue, flowRow, flowStatus, ParkedWaits, WaitsForStep, NeedsResume
<1>3. CASE Resume
  BY <1>3 DEF Resume, flowRow,
     ParkedWaits, WaitsForStep, NeedsResume
<1>4. CASE Park
  BY <1>4 DEF Park, InQueue, Types, TypeOK, QueuedIsNew,
     ParkedWaits, WaitsForStep, NeedsResume
<1>5. CASE StepDone
  BY <1>5 DEF StepDone, EndFlow,
     ParkedWaits, WaitsForStep, NeedsResume
<1>6. CASE FailFlow
  BY <1>6 DEF FailFlow, EndFlow, flowStatus,
     ParkedWaits, WaitsForStep, NeedsResume
<1> QED BY <1>1, <1>2, <1>3, <1>4, <1>5, <1>6 DEF WorkerStep

\* The transaction that counts settles the wait it is about.
LEMMA ResumeSettles ==
  ASSUME Types, Resume
  PROVE  /\ step - 1 \in StepIdx /\ Settled(step - 1)'
         /\ \A i \in StepIdx : Settled(i) => Settled(i)'
<1> DEFINE i == step - 1
<1>1. i \in StepIdx
  BY ApprovalAssumption DEF Resume, NeedsResume, Types, TypeOK, StepIdx
<1>2. approvers'[i] = Messages(i) /\ step' = step
  BY <1>1 DEF Resume, Types, TypeOK
<1>3. Settled(i)'
  <2>1. CASE CanBeResumed(i) /\ verdict'[i] = "approved"
    <3>1. Cardinality(approvers'[i]) >= Required[i]
      BY <1>2, <2>1 DEF CanBeResumed
    <3>2. \A m \in approvers'[i] : m.approved /\ m.job \in {i, Flow}
      BY <1>2, <2>1 DEF CanBeResumed, Disapproved, Messages
    <3> QED BY <1>2, <2>1, <3>1, <3>2 DEF Settled
  <2>2. CASE i \in Continue /\ verdict'[i] = "continued"
    BY <1>2, <2>2 DEF Settled
  <2> QED BY <1>1, <2>1, <2>2 DEF Resume, Types, TypeOK
<1>4. \A k \in StepIdx \ {i} : approvers'[k] = approvers[k] /\ verdict'[k] = verdict[k]
  BY <1>1 DEF Resume, Types, TypeOK
<1>5. ASSUME NEW k \in StepIdx, Settled(k) PROVE Settled(k)'
  <2>1. CASE k = i
    BY <1>2, <1>3, <2>1
  <2>2. CASE k # i
    BY <1>4, <1>5, <2>2 DEF Settled
  <2> QED BY <2>1, <2>2
<1> QED BY <1>1, <1>3, <1>5

\* A step is pushed only after its wait is settled, and the wait stays settled.
LEMMA NextPassed ==
  Types /\ PassedIsApproved /\ PushIsSettled /\ [Next]_vars
    => PassedIsApproved' /\ PushIsSettled'
<1> SUFFICES ASSUME Types, PassedIsApproved, PushIsSettled, [Next]_vars
             PROVE  PassedIsApproved' /\ PushIsSettled'
  OBVIOUS
<1> DEFINE Fine == \A i \in StepIdx : Passed(i) /\ Required[i] > 0 => Settled(i)
<1>0. /\ PassedIsApproved <=> Fine
      /\ PassedIsApproved' <=> Fine'
  BY DEF PassedIsApproved, Settled
<1>1. step \in Nat /\ step \in StepIdx
  BY DEF Types, TypeOK, StepIdx
<1>2. ASSUME UNCHANGED progress, holder' \in {holder, "none", "check", "reject"}
      PROVE  Fine' /\ PushIsSettled'
  BY <1>0, <1>2 DEF progress, Passed, Settled, PushIsSettled
<1>3. CASE ~WorkerStep
  BY <1>0, <1>2, <1>3, OthersStandStill
<1>4. CASE PullFlow \/ PullSuspended \/ Reject \/ LetGo \/ FailFlow
  <2>1. UNCHANGED progress /\ holder' \in {holder, "none", "check", "reject"}
    BY <1>4 DEF PullFlow, PullSuspended, Reject, LetGo, FailFlow, flowStatus, progress
  <2> QED BY <1>0, <1>2, <2>1
<1>5. CASE Resume
  <2>1. UNCHANGED <<step, module>> /\ holder' = "push" /\ step > 0
    BY <1>5 DEF Resume, NeedsResume
  <2>2. Fine'
    BY <1>0, <1>5, <2>1, ResumeSettles DEF Passed
  <2>3. PushIsSettled'
    BY <1>5, <2>1, ResumeSettles DEF PushIsSettled
  <2> QED BY <1>0, <2>2, <2>3
<1>6. CASE Park
  <2>1. /\ UNCHANGED <<step, approvers, verdict>>
        /\ module' = "WaitingForEvents" /\ holder' = "none"
    BY <1>6 DEF Park
  <2>2. \A i \in StepIdx : (Passed(i)' => Passed(i)) /\ (Settled(i) => Settled(i)')
    BY <2>1 DEF Passed, Settled
  <2> QED BY <1>0, <2>1, <2>2 DEF PushIsSettled
<1>7. CASE PushStep
  <2>1. /\ UNCHANGED <<step, approvers, verdict>> /\ holder' = "none"
        /\ \A i \in StepIdx : Settled(i)' <=> Settled(i)
    BY <1>7 DEF PushStep, Settled
  <2>2. ASSUME NEW i \in StepIdx, Passed(i)', Required[i] > 0 PROVE Settled(i)
    <3>1. CASE step > i + 1
      BY <1>0, <2>2, <3>1 DEF Passed
    <3>2. CASE step = i + 1
      <4>1. step - 1 = i /\ NeedsResume
        BY <2>2, <3>2 DEF NeedsResume, StepIdx
      <4> QED BY <1>7, <2>2, <4>1 DEF PushStep, PushIsSettled
    <3> QED BY <2>1, <2>2, <3>1, <3>2 DEF Passed
  <2> QED BY <1>0, <2>1, <2>2 DEF PushIsSettled
<1>8. CASE StepDone
  <2>1. UNCHANGED <<approvers, verdict>> /\ holder = "none" /\ holder' \in {"none", "check"}
    BY <1>8 DEF StepDone
  <2>2. \A i \in StepIdx : (Passed(i)' => Passed(i)) /\ (Settled(i) => Settled(i)')
    BY <1>1, <1>8, <2>1 DEF StepDone, Passed, Settled, StepIdx
  <2> QED BY <1>0, <2>1, <2>2 DEF PushIsSettled
<1> QED BY <1>0, <1>3, <1>4, <1>5, <1>6, <1>7, <1>8 DEF WorkerStep
-----------------------------------------------------------------------------
(* A disapproval of a parked flow.                                         *)

\* While the flow is in the queue a message stays.
LEMMA MessagesStay ==
  ASSUME [Next]_vars, row' \in {"queued", "running"}
  PROVE  resume_job \subseteq resume_job'
<1>1. CASE WorkerStep
  BY <1>1 DEF WorkerStep, PullFlow, PullSuspended, Resume, Park, Reject, PushStep,
     StepDone, FailFlow, LetGo, EndFlow
<1>2. CASE Crash \/ Timeout \/ PingExpires \/ HandleZombieFlow
  BY <1>2 DEF Crash, Timeout, PingExpires, HandleZombieFlow, EndFlow
<1>3. ASSUME NEW r \in Request, NEW id \in ResumeId, NEW approved \in BOOLEAN,
             \/ \E j \in Job : ReadByLink(r, j, id, approved)
             \/ ReadByFlow(r, id, approved)
      PROVE  resume_job' = resume_job
  BY <1>3 DEF ReadByLink, ReadByFlow, Read
<1>4. ASSUME NEW r \in Request, Write(r) PROVE resume_job \subseteq resume_job'
  BY <1>4 DEF Write
<1>5. ASSUME NEW force \in BOOLEAN, Cancel(force) PROVE resume_job' = resume_job
  BY <1>5 DEF Cancel, EndFlow
<1>6. CASE UNCHANGED vars
  BY <1>6 DEF vars
<1> QED BY <1>1, <1>2, <1>3, <1>4, <1>5, <1>6 DEF Next

\* A worker that finds a disapproval after the flow was parked can only reject it.
LEMMA WorkerRefuses ==
  ASSUME IInv, NEW i \in StepIdx \ Continue, Refused(i), WorkerStep
  PROVE  \/ row' \in {"failure", "canceled"}
         \/ /\ row' = "running" /\ row = "running" /\ UNCHANGED <<step, module>>
            /\ holder' \in {"none", "check", "reject"}
<1>1. CASE row \in {"failure", "canceled"}
  BY <1>1 DEF WorkerStep, PullFlow, PullSuspended, Resume, Park, Reject, PushStep,
     StepDone, FailFlow, LetGo, InQueue, flowRow
<1>2. CASE row = "running" /\ step = i + 1 /\ module = "WaitingForEvents"
           /\ holder \in {"none", "check", "reject"} /\ Disapproved(i)
  <2>1. step - 1 = i /\ i \notin Continue /\ ~CanBeResumed(i) /\ ~MayPark(i) /\ NeedsResume
    BY <1>2 DEF CanBeResumed, MayPark, IInv, WaitsForStep, StepIdx
  <2>2. ~PullFlow /\ ~Resume /\ ~Park /\ ~PushStep /\ ~StepDone /\ ~LetGo
    BY <1>2, <2>1 DEF PullFlow, Resume, Park, PushStep, StepDone, LetGo, InQueue
  <2>3. CASE PullSuspended
    BY <1>2, <2>3 DEF PullSuspended, flowStatus
  <2>4. CASE Reject
    BY <1>2, <2>4 DEF Reject, flowRow, flowStatus
  <2>5. CASE FailFlow
    BY <2>5 DEF FailFlow, EndFlow
  <2> QED BY <2>2, <2>3, <2>4, <2>5 DEF WorkerStep
<1> QED BY <1>1, <1>2 DEF Refused

\* Servers and the monitor cancel a refused flow or leave it where it is.
LEMMA OthersRefuse ==
  ASSUME IInv, NEW i \in StepIdx \ Continue, Refused(i), [Next]_vars, ~WorkerStep
  PROVE  \/ row' \in {"failure", "canceled"}
         \/ row' = "running" /\ row = "running"
<1>0. row = "running" => module = "WaitingForEvents"
  BY DEF Refused
<1>1. CASE Crash \/ Timeout \/ PingExpires
  BY <1>1 DEF Crash, Timeout, PingExpires, flowRow, Refused
<1>2. ASSUME NEW r \in Request, NEW id \in ResumeId, NEW approved \in BOOLEAN,
             \/ \E j \in Job : ReadByLink(r, j, id, approved)
             \/ ReadByFlow(r, id, approved)
      PROVE  row' = row
  BY <1>2 DEF ReadByLink, ReadByFlow, Read, flowRow
<1>3. ASSUME NEW r \in Request, Write(r) PROVE row' = row
  BY <1>3 DEF Write
<1>4. ASSUME NEW force \in BOOLEAN, Cancel(force) PROVE row' \in {row, "canceled"}
  BY <1>4 DEF Cancel, EndFlow
<1>5. CASE HandleZombieFlow
  BY <1>0, <1>5 DEF HandleZombieFlow, EndFlow, Refused
<1>6. CASE UNCHANGED vars
  BY <1>6 DEF vars, flowRow, Refused
<1> QED BY <1>1, <1>2, <1>3, <1>4, <1>5, <1>6 DEF Next, Refused

\* What is refused stays refused.
LEMMA RefusedStays ==
  ASSUME IInv, [Next]_vars, NEW i \in StepIdx \ Continue, Refused(i)
  PROVE  Refused(i)'
<1>1. CASE row' \in {"failure", "canceled"}
  BY <1>1 DEF Refused
<1>2. CASE row' \notin {"failure", "canceled"}
  <2>1. /\ row' = "running" /\ row = "running" /\ UNCHANGED <<step, module>>
        /\ holder' \in {"none", "check", "reject"}
    <3>1. CASE WorkerStep
      BY <1>2, <3>1, WorkerRefuses
    <3>2. CASE ~WorkerStep
      BY <1>2, <3>2, OthersRefuse, OthersStandStill DEF progress, Refused
    <3> QED BY <3>1, <3>2
  <2>2. resume_job \subseteq resume_job'
    BY <2>1, MessagesStay
  <2>3. Disapproved(i) /\ step = i + 1 /\ module = "WaitingForEvents"
    BY <2>1 DEF Refused
  <2>4. Disapproved(i)'
    BY <2>2, <2>3 DEF Disapproved, Messages
  <2> QED BY <2>1, <2>3, <2>4 DEF Refused
<1> QED BY <1>1, <1>2
-----------------------------------------------------------------------------
(* Theorems.                                                               *)

\* The inductive invariant holds in every reachable state.
THEOREM IInvInvariant == Spec => []IInv
<1>1. Init => IInv
  <2> SUFFICES ASSUME Init PROVE IInv
    OBVIOUS
  <2>1. Types
    BY InitTypes
  <2>2. PassedIsApproved
    BY DEF Init, PassedIsApproved, Passed, StepIdx
  <2> QED BY <2>1, <2>2 DEF Init, IInv, Types, PushIsSettled, ParkedWaits,
        WaitsForStep, QueuedIsNew
<1>2. IInv /\ [Next]_vars => IInv'
  BY NextTypes, NextQueued, NextParked, NextPassed DEF IInv, Types
<1> QED BY <1>1, <1>2, PTL DEF Spec

\* Every reachable state is well typed; in particular suspend is never negative,
\* although requests write what they have read of it before.
THEOREM TypeCorrect == Spec => []TypeOK
<1>1. IInv => TypeOK
  BY DEF IInv
<1> QED BY <1>1, IInvInvariant, PTL

\* A step that waits for approvals is left behind only with that many messages for
\* it, none of them a disapproval, or by continue_on_disapprove_timeout, whatever
\* concurrent requests make of the counter.
THEOREM StepsAreApproved == Spec => []PassedIsApproved
<1>1. IInv => PassedIsApproved
  BY DEF IInv
<1> QED BY <1>1, IInvInvariant, PTL

\* A disapproval that reaches a parked flow is final, unless its module goes on
\* in spite of it (continue_on_disapprove_timeout): the flow never succeeds.
THEOREM DisapprovedFlowFails == Spec => DisapprovalIsFinal
<1>1. ASSUME NEW i \in StepIdx \ Continue
      PROVE  Spec => [](Parked(i) /\ Disapproved(i) => [](row # "success"))
  <2>1. IInv /\ Parked(i) /\ Disapproved(i) => Refused(i)
    BY DEF IInv, TypeOK, StepIdx, ParkedWaits, Parked, Refused
  <2>2. IInv /\ [Next]_vars /\ Refused(i) => Refused(i)'
    BY RefusedStays
  <2>3. Refused(i) => row # "success"
    BY DEF Refused
  <2> QED BY <2>1, <2>2, <2>3, IInvInvariant, PTL DEF Spec
<1> QED BY <1>1 DEF DisapprovalIsFinal
=============================================================================
