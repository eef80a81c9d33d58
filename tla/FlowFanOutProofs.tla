-------------------------- MODULE FlowFanOutProofs --------------------------
(***************************************************************************)
(* Proofs about FlowFanOut, for any number of iterations, any parallelism  *)
(* and any number of threads.                                              *)
(***************************************************************************)
EXTENDS FlowFanOut, FiniteSetTheorems, TLAPS
-----------------------------------------------------------------------------
(* The inductive invariant of the join.                                    *)

\* A thread that executes a child or is about to count it.
Holding(p) == proc[p].pc \in {"run", "complete", "report", "last"}

\* Children that are completed and that nobody is going to count any more.
Settled == {c \in Child : /\ row[c] \in Status
                          /\ \A p \in Proc : Holding(p) => proc[p].child # c}

Unpushed == \A c \in Child : row[c] = "none"

\* The children are pushed once.
PushedOnce ==
    /\ \A p \in Proc : proc[p].pc = "push" =>
          /\ Unpushed /\ module = "WaitingForPriorSteps"
          /\ row[Flow] # "queued" /\ ping # "stale"
          /\ \A q \in Proc : proc[q].pc = "push" => p = q
    /\ InQueue(Flow) /\ module = "WaitingForPriorSteps" => Unpushed
    /\ row[Flow] = "queued" => module = "WaitingForPriorSteps"

\* A child is executed and counted by one thread, and counted when it is completed.
HeldOnce ==
    /\ \A p \in Proc : Holding(p) =>
          /\ proc[p].child \in Child
          /\ row[proc[p].child] \in {"running"} \cup Status
          /\ proc[p].pc \in {"report", "last"} => row[proc[p].child] \in Status
    /\ \A p, q \in Proc : Holding(p) /\ Holding(q) /\ proc[p].child = proc[q].child => p = q

\* Only the last report is held open.
LastIsLast ==
    \A p \in Proc : proc[p].pc = "last" =>
        /\ proc[p].n = index + 1 /\ proc[p].n = Iterations
        /\ module = "InProgress"
        /\ InQueue(Flow)
        /\ \A q \in Proc : proc[q].pc = "last" => p = q

\* No more reports are counted than children are completed.
CountIsReal == index <= Cardinality(Settled)

AllGood == \A c \in Child \ Skipped : row[c] = "success"

\* The module ends when all is counted, or when nothing was pushed.
JoinedWhenCounted ==
    /\ module \in {"Success", "Failure"} => index = Iterations \/ Unpushed
    /\ \A p \in Proc : proc[p].pc = "advance" =>
          /\ module \in {"Success", "Failure"}
          /\ proc[p].status = "success" => AllGood
    /\ row[Flow] = "success" => AllGood

JoinInv ==
    /\ TypeOK /\ PushedOnce /\ HeldOnce /\ LastIsLast /\ CountIsReal /\ JoinedWhenCounted
-----------------------------------------------------------------------------
(* The inductive invariant of the parallelism.                             *)

Started(c) == row[c] \in {"queued", "running"} \/ (row[c] = "suspended" /\ suspend[c] = 0)

\* How far the children may be started.
Reach(c) == c <= Parallelism + index

\* A child that waits has the place it was pushed with.
WaitsForPlace ==
    /\ \A c \in Child : row[c] = "suspended" => suspend[c] = 0 \/ suspend[c] + Parallelism = c
    /\ \A p \in Proc : proc[p].pc = "release" => proc[p].n <= index

\* All that is in the queue is being cancelled ...
Winding == \A c \in Child : InQueue(c) => c \in canceled

\* ... or only children within reach are started, held and counted.
WithinReach ==
    /\ \A c \in Child : Started(c) => Reach(c)
    /\ \A p \in Proc : Holding(p) => Reach(proc[p].child)
    /\ index <= Cardinality({c \in Settled : Reach(c)})

ReachInv == WaitsForPlace /\ (Winding \/ WithinReach)
-----------------------------------------------------------------------------
(* Sets of children, and the steps that leave them alone.                  *)

\* What the constants are.
LEMMA JobFacts ==
    /\ Iterations \in Nat /\ Iterations >= 1
    /\ Parallelism \in Nat /\ Parallelism >= 1 /\ MaxFaults \in Nat
    /\ Flow \in Job /\ Flow \notin Child
    /\ \A c \in Child : c \in Job /\ c \in Nat /\ c # Flow /\ c >= 1 /\ c <= Iterations
    /\ \A j \in Job : j = Flow \/ j \in Child
BY FanOutAssumption DEF Job, Child, Flow

\* Sets of children are counted as sets are.
LEMMA ChildSets ==
    \A S \in SUBSET Child :
        /\ IsFiniteSet(S) /\ Cardinality(S) \in Nat /\ Cardinality(S) <= Iterations
        /\ \A c \in Child \ S : Cardinality(S \cup {c}) = Cardinality(S) + 1
        /\ \A T \in SUBSET S : Cardinality(T) <= Cardinality(S)
        /\ Cardinality(S) = Iterations => S = Child
<1>1. IsFiniteSet(Child) /\ Cardinality(Child) = Iterations
  BY FS_Interval, FanOutAssumption DEF Child
<1>2. SUFFICES ASSUME NEW S \in SUBSET Child
               PROVE  /\ IsFiniteSet(S) /\ Cardinality(S) \in Nat /\ Cardinality(S) <= Iterations
                      /\ \A c \in Child \ S : Cardinality(S \cup {c}) = Cardinality(S) + 1
                      /\ \A T \in SUBSET S : Cardinality(T) <= Cardinality(S)
                      /\ Cardinality(S) = Iterations => S = Child
  OBVIOUS
<1>3. IsFiniteSet(S) /\ Cardinality(S) <= Iterations /\ (Cardinality(S) = Iterations => S = Child)
  BY <1>1, FS_Subset
<1>4. Cardinality(S) \in Nat
  BY <1>3, FS_CardinalityType
<1>5. \A c \in Child \ S : Cardinality(S \cup {c}) = Cardinality(S) + 1
  BY <1>3, FS_AddElement
<1>6. \A T \in SUBSET S : Cardinality(T) <= Cardinality(S)
  BY <1>3, FS_Subset
<1> QED
  BY <1>3, <1>4, <1>5, <1>6

\* Steps of users, of the monitor and of clocks that change no row and no thread.
Aside ==
    \/ \E p \in Proc : DropLocks(p)
    \/ \E force \in BOOLEAN : Cancel(force)
    \/ \E c \in Child : ZombieChild(c) \/ LockExpires(c) \/ HandleZombieLock(c)
    \/ CrashServer \/ PingExpires
    \/ UNCHANGED vars

\* They leave what the join is about as it is.
LEMMA AsideLeaves ==
    Aside => /\ UNCHANGED <<row, module, index, proc>>
             /\ ping' = ping \/ \A p \in Proc : proc[p].pc # "push"
BY DEF Aside, DropLocks, Cancel, ZombieChild, LockExpires, HandleZombieLock, CrashServer,
       PingExpires, FlowHeld, vars

\* A report is one of a child that has not been counted.
LEMMA ReportCounts ==
    ASSUME JoinInv, NEW p \in Proc, proc[p].pc \in {"report", "last"}
    PROVE  /\ index < Iterations /\ index + 1 \in 0 .. Iterations
           /\ proc[p].child \in Child \ Settled
           /\ index + 1 <= Cardinality(Settled \cup {proc[p].child})
           /\ module \notin {"Success", "Failure"}
           /\ ~Unpushed
<1>1. proc[p].child \in Child \ Settled /\ row[proc[p].child] \in Status
  BY DEF JoinInv, HeldOnce, Holding, Settled
<1>2. Settled \in SUBSET Child
  BY DEF Settled
<1>3. /\ Cardinality(Settled) \in Nat /\ Cardinality(Settled) # Iterations
      /\ Cardinality(Settled) <= Iterations
      /\ Cardinality(Settled \cup {proc[p].child}) = Cardinality(Settled) + 1
  BY <1>1, <1>2, ChildSets
<1>4. index \in Nat /\ index <= Cardinality(Settled)
  BY FanOutAssumption DEF JoinInv, TypeOK, CountIsReal
<1>5. /\ index < Iterations /\ index + 1 \in 0 .. Iterations
      /\ index + 1 <= Cardinality(Settled \cup {proc[p].child})
  BY <1>3, <1>4, FanOutAssumption
<1>6. ~Unpushed
  BY <1>1 DEF Unpushed, Status
<1>7. module \notin {"Success", "Failure"}
  BY <1>5, <1>6, FanOutAssumption DEF JoinInv, JoinedWhenCounted
<1> QED
  BY <1>1, <1>5, <1>6, <1>7

-----------------------------------------------------------------------------
(* Each part of the invariant is kept by every step.                       *)

\* What the records of threads may become.
Pcs == {"idle", "push", "run", "complete", "report", "last", "release", "unlock", "advance"}

\* The fields of a thread, and the records a step makes of one.
LEMMA Threads ==
    /\ Idle \in Thread
    /\ \A t \in Thread : t.pc \in Pcs /\ t.child \in Job /\ t.status \in Status
                        /\ t.done \in BOOLEAN /\ t.n \in 0 .. Iterations
    /\ \A t \in Thread, x \in Pcs : [t EXCEPT !.pc = x] \in Thread
    /\ \A t \in Thread, x \in Pcs, s \in Status : [t EXCEPT !.pc = x, !.status = s] \in Thread
    /\ \A t \in Thread, x \in Pcs, s \in Status, b \in BOOLEAN :
          [t EXCEPT !.pc = x, !.status = s, !.done = b] \in Thread
    /\ \A t \in Thread, x \in Pcs, n \in 0 .. Iterations : [t EXCEPT !.pc = x, !.n = n] \in Thread
    /\ \A t \in Thread, x \in Pcs, c \in Job : [t EXCEPT !.pc = x, !.child = c] \in Thread
    /\ \A t \in Thread, x \in Pcs, c \in Job, s \in Status :
          [t EXCEPT !.pc = x, !.child = c, !.status = s] \in Thread
<1>1. Idle \in Thread
  BY JobFacts DEF Idle, Thread, Status
<1>2. \A t \in Thread : t.pc \in Pcs /\ t.child \in Job /\ t.status \in Status
                        /\ t.done \in BOOLEAN /\ t.n \in 0 .. Iterations
  BY DEF Thread, Pcs
<1>3. \A t \in Thread, x \in Pcs : [t EXCEPT !.pc = x] \in Thread
  BY DEF Thread, Pcs
<1>4. \A t \in Thread, x \in Pcs, s \in Status : [t EXCEPT !.pc = x, !.status = s] \in Thread
  BY DEF Thread, Pcs
<1>5. \A t \in Thread, x \in Pcs, s \in Status, b \in BOOLEAN :
          [t EXCEPT !.pc = x, !.status = s, !.done = b] \in Thread
  BY DEF Thread, Pcs
<1>6. \A t \in Thread, x \in Pcs, n \in 0 .. Iterations : [t EXCEPT !.pc = x, !.n = n] \in Thread
  BY DEF Thread, Pcs
<1>7. \A t \in Thread, x \in Pcs, c \in Job : [t EXCEPT !.pc = x, !.child = c] \in Thread
  BY DEF Thread, Pcs
<1>8. \A t \in Thread, x \in Pcs, c \in Job, s \in Status :
          [t EXCEPT !.pc = x, !.child = c, !.status = s] \in Thread
  BY DEF Thread, Pcs
<1> QED
  BY <1>1, <1>2, <1>3, <1>4, <1>5, <1>6, <1>7, <1>8

\* The record of a thread stays one.
LEMMA ThreadStepTypes ==
    ASSUME ~DbErrors, JoinInv, [Next]_vars
    PROVE  proc' \in [Proc -> Thread]
<1> USE DEF JoinInv
<1>1. ASSUME NEW p \in Proc, PullFlow(p) PROVE proc' \in [Proc -> Thread]
  BY <1>1, JobFacts, Threads DEF PullFlow, TypeOK, Pcs, Status
<1>2. ASSUME NEW p \in Proc, PushAll(p) PROVE proc' \in [Proc -> Thread]
  BY <1>2, JobFacts, Threads DEF PushAll, SuspendOf, InQueue, TypeOK, Pcs, Status
<1>3. ASSUME NEW p \in Proc, PushFails(p) PROVE proc' \in [Proc -> Thread]
  BY <1>3, JobFacts, Threads DEF PushFails, InQueue, TypeOK, Pcs, Status
<1>4. ASSUME NEW p \in Proc, NEW c \in Child, Claim(p, c),
             row[c] \in {"queued", "suspended"}
      PROVE  proc' \in [Proc -> Thread]
  BY <1>4, JobFacts, Threads DEF Claim, TypeOK, Pcs, Status
<1>5. ASSUME NEW p \in Proc, FailToStart(p) PROVE proc' \in [Proc -> Thread]
  BY <1>5, JobFacts, Threads DEF FailToStart, TypeOK, Pcs, Status
<1>6. ASSUME NEW p \in Proc, NEW s \in Status, FinishChild(p, s)
      PROVE  proc' \in [Proc -> Thread]
  BY <1>6, JobFacts, Threads DEF FinishChild, TypeOK, Pcs, Status
<1>7. ASSUME NEW p \in Proc, CompleteChild(p) PROVE proc' \in [Proc -> Thread]
  <2>1. [proc[p] EXCEPT !.pc = "report"] \in Thread
    BY Threads DEF TypeOK, Pcs
  <2> QED
    BY <1>7, <2>1, Threads DEF CompleteChild, TypeOK
<1>8. ASSUME NEW p \in Proc, Report(p) PROVE proc' \in [Proc -> Thread]
  <2>1. index + 1 \in 0 .. Iterations
    BY <1>8, ReportCounts DEF Report, Reporting
  <2>2. /\ [proc[p] EXCEPT !.pc = "last", !.n = index + 1] \in Thread
        /\ [proc[p] EXCEPT !.pc = "release", !.n = index + 1] \in Thread
    BY <2>1, Threads DEF TypeOK, Pcs
  <2> QED
    BY <1>8, <2>2, Threads DEF Report, TypeOK
<1>9. ASSUME NEW p \in Proc, LateReport(p) PROVE FALSE
  BY <1>9, ReportCounts DEF LateReport, Reporting
<1>10. ASSUME NEW p \in Proc, Release(p) PROVE proc' \in [Proc -> Thread]
  BY <1>10, JobFacts, Threads DEF Release, TypeOK, Pcs, Status
<1>11. ASSUME NEW p \in Proc, Unlock(p) PROVE proc' \in [Proc -> Thread]
  BY <1>11, JobFacts, Threads DEF Unlock, TypeOK, Pcs, Status
<1>12. ASSUME NEW p \in Proc, CommitLast(p) PROVE proc' \in [Proc -> Thread]
  BY <1>12, JobFacts, Threads DEF CommitLast, TypeOK, Pcs, Status
<1>13. ASSUME NEW p \in Proc, FinishFlow(p) PROVE proc' \in [Proc -> Thread]
  BY <1>13, JobFacts, Threads DEF FinishFlow, InQueue, TypeOK, Pcs, Status
<1>14. ASSUME NEW p \in Proc, Crash(p) PROVE proc' \in [Proc -> Thread]
  BY <1>14, JobFacts, Threads DEF Crash, TypeOK, Pcs, Status
<1>15. ASSUME NEW j \in Job, KillJob(j) PROVE proc' \in [Proc -> Thread]
  BY <1>15, JobFacts, Threads DEF KillJob, PingParent, InQueue, TypeOK, Pcs, Status
<1>16. ASSUME NEW c \in Child, RestartChild(c) PROVE proc' \in [Proc -> Thread]
  BY <1>16, JobFacts, Threads DEF RestartChild, TypeOK, Pcs, Status
<1>17. ASSUME HandleZombieFlow PROVE proc' \in [Proc -> Thread]
  BY <1>17, JobFacts, Threads DEF HandleZombieFlow, KillTree, TypeOK, Pcs, Status
<1>18. ASSUME Aside PROVE proc' \in [Proc -> Thread]
  BY <1>18, JobFacts, Threads, AsideLeaves DEF TypeOK
<1> QED
  BY <1>1, <1>2, <1>3, <1>4, <1>5, <1>6, <1>7, <1>8, <1>9, <1>10, <1>11, <1>12,
     <1>13, <1>14, <1>15, <1>16, <1>17, <1>18 DEF Next, ThreadStep, PullChild,
     PullExpired, ReportAgain, Aside

\* Type correctness.
LEMMA TypeStep ==
    ASSUME ~DbErrors, JoinInv, [Next]_vars
    PROVE  TypeOK'
<1> USE DEF JoinInv
<1>1. ASSUME NEW p \in Proc, PullFlow(p) PROVE TypeOK'
  BY <1>1, JobFacts, ThreadStepTypes DEF PullFlow, TypeOK
<1>2. ASSUME NEW p \in Proc, PushAll(p) PROVE TypeOK'
  <2>1. suspend' \in [Child -> 0 .. Iterations]
    BY <1>2, JobFacts, FanOutAssumption DEF PushAll, SuspendOf
  <2>2. row' \in [Job -> {"none", "queued", "suspended", "running"} \cup Status]
    BY <1>2, JobFacts DEF PushAll, TypeOK
  <2> QED
    BY <1>2, <2>1, <2>2, JobFacts, ThreadStepTypes DEF PushAll, InQueue, TypeOK
<1>3. ASSUME NEW p \in Proc, PushFails(p) PROVE TypeOK'
  BY <1>3, JobFacts, ThreadStepTypes DEF PushFails, InQueue, TypeOK
<1>4. ASSUME NEW p \in Proc, NEW c \in Child, Claim(p, c),
             row[c] \in {"queued", "suspended"}
      PROVE  TypeOK'
  BY <1>4, JobFacts, ThreadStepTypes DEF Claim, TypeOK
<1>5. ASSUME NEW p \in Proc, FailToStart(p) PROVE TypeOK'
  BY <1>5, JobFacts, ThreadStepTypes DEF FailToStart, TypeOK
<1>6. ASSUME NEW p \in Proc, NEW s \in Status, FinishChild(p, s) PROVE TypeOK'
  BY <1>6, JobFacts, ThreadStepTypes DEF FinishChild, TypeOK
<1>7. ASSUME NEW p \in Proc, CompleteChild(p) PROVE TypeOK'
  BY <1>7, JobFacts, ThreadStepTypes, Threads DEF CompleteChild, PingParent,
     StampLock, InQueue, TypeOK
<1>8. ASSUME NEW p \in Proc, Report(p) PROVE TypeOK'
  <2>1. index + 1 \in 0 .. Iterations
    BY <1>8, ReportCounts DEF Report, Reporting
  <2> QED
    BY <1>8, <2>1, ThreadStepTypes DEF Report, TypeOK
<1>9. ASSUME NEW p \in Proc, LateReport(p) PROVE FALSE
  BY <1>9, ReportCounts DEF LateReport, Reporting
<1>10. ASSUME NEW p \in Proc, Release(p) PROVE TypeOK'
  BY <1>10, JobFacts, ThreadStepTypes DEF Release, TypeOK
<1>11. ASSUME NEW p \in Proc, Unlock(p) PROVE TypeOK'
  BY <1>11, JobFacts, ThreadStepTypes DEF Unlock, TypeOK
<1>12. ASSUME NEW p \in Proc, CommitLast(p) PROVE TypeOK'
  BY <1>12, JobFacts, ThreadStepTypes, Threads DEF CommitLast, TypeOK
<1>13. ASSUME NEW p \in Proc, FinishFlow(p) PROVE TypeOK'
  BY <1>13, JobFacts, ThreadStepTypes, Threads DEF FinishFlow, InQueue, TypeOK
<1>14. ASSUME NEW p \in Proc, Crash(p) PROVE TypeOK'
  BY <1>14, JobFacts, ThreadStepTypes DEF Crash, TypeOK
<1>15. ASSUME NEW j \in Job, KillJob(j) PROVE TypeOK'
  BY <1>15, JobFacts, ThreadStepTypes DEF KillJob, PingParent, InQueue, TypeOK,
     Status
<1>16. ASSUME NEW c \in Child, RestartChild(c) PROVE TypeOK'
  BY <1>16, JobFacts, ThreadStepTypes DEF RestartChild, TypeOK
<1>17. ASSUME HandleZombieFlow PROVE TypeOK'
  BY <1>17, JobFacts, ThreadStepTypes DEF HandleZombieFlow, KillTree, TypeOK
<1>18. ASSUME Aside PROVE TypeOK'
  BY <1>18, JobFacts DEF Aside, DropLocks, Cancel, KillTree, InQueue, ZombieChild, LockExpires,
       HandleZombieLock, CrashServer, PingExpires, vars, JoinInv, TypeOK
<1> QED
  BY <1>1, <1>2, <1>3, <1>4, <1>5, <1>6, <1>7, <1>8, <1>9, <1>10, <1>11, <1>12,
     <1>13, <1>14, <1>15, <1>16, <1>17, <1>18 DEF Next, ThreadStep, PullChild,
     PullExpired, ReportAgain, Aside

\* What a report does to its thread.
LEMMA ReportMoves ==
    ASSUME JoinInv, NEW p \in Proc, Report(p)
    PROVE  /\ \A q \in Proc \ {p} : proc'[q] = proc[q]
           /\ \/ proc'[p] = Idle /\ index' = index /\ ~InQueue(Flow)
              \/ /\ proc'[p].pc = "last" /\ proc'[p].child = proc[p].child
                 /\ proc'[p].n = index + 1 /\ index + 1 = Iterations /\ index' = index
                 /\ InQueue(Flow) /\ module = "InProgress"
              \/ /\ proc'[p].pc = "release" /\ proc'[p].n = index + 1 /\ index' = index + 1
                 /\ InQueue(Flow)
           /\ UNCHANGED <<row, module, canceled, suspend>>
           /\ ping' \in {ping, "null"}
           /\ proc[p].pc = "report" /\ \A q \in Proc : proc[q].pc # "last"
<1> USE DEF JoinInv
<1>1. proc \in [Proc -> Thread] /\ proc[p] \in Thread
  BY DEF TypeOK
<1>2. CASE ~InQueue(Flow)
  BY <1>1, <1>2 DEF Report, Reporting
<1>3. CASE InQueue(Flow) /\ IsLast(index + 1)
  <2>1. proc' = [proc EXCEPT ![p] = [proc[p] EXCEPT !.pc = "last", !.n = index + 1]]
    BY <1>3 DEF Report
  <2>2. proc'[p].pc = "last" /\ proc'[p].child = proc[p].child /\ proc'[p].n = index + 1
    BY <1>1, <2>1 DEF Thread
  <2>3. module = "InProgress"
    BY <1>3 DEF Report
  <2> QED
    BY <1>1, <1>3, <2>1, <2>2, <2>3 DEF Report, Reporting, IsLast
<1>4. CASE InQueue(Flow) /\ ~IsLast(index + 1)
  <2>1. proc' = [proc EXCEPT ![p] = [proc[p] EXCEPT !.pc = "release", !.n = index + 1]]
    BY <1>4 DEF Report
  <2>2. proc'[p].pc = "release" /\ proc'[p].n = index + 1
    BY <1>1, <2>1 DEF Thread
  <2> QED
    BY <1>1, <1>4, <2>1, <2>2 DEF Report, Reporting
<1> QED
  BY <1>2, <1>3, <1>4

\* What the completion of a child does to its thread and its row.
LEMMA CompleteMoves ==
    ASSUME JoinInv, NEW p \in Proc, CompleteChild(p)
    PROVE  /\ \A q \in Proc \ {p} : proc'[q] = proc[q]
           /\ proc'[p] = Idle \/ (proc'[p].pc = "report" /\ proc'[p].child = proc[p].child)
           /\ Holding(p) /\ proc[p].child \in Child /\ row[proc[p].child] # "none"
           /\ \A j \in Job \ {proc[p].child} : row'[j] = row[j]
           /\ row'[proc[p].child] \in Status
           /\ row[proc[p].child] \in Status => UNCHANGED row
           /\ UNCHANGED <<index, module, suspend>>
           /\ canceled' \in {canceled, canceled \ {proc[p].child}}
<1> USE DEF JoinInv
<1>1. proc \in [Proc -> Thread] /\ proc[p] \in Thread /\ proc[p].status \in Status
  BY Threads DEF TypeOK
<1>2. Holding(p) /\ proc[p].child \in Child /\ row[proc[p].child] \in {"running"} \cup Status
  BY DEF CompleteChild, Holding, HeldOnce
<1>3. /\ \A q \in Proc \ {p} : proc'[q] = proc[q]
      /\ proc'[p] = Idle \/ proc'[p] = [proc[p] EXCEPT !.pc = "report"]
  BY <1>1 DEF CompleteChild
<1>4. proc'[p] = Idle \/ (proc'[p].pc = "report" /\ proc'[p].child = proc[p].child)
  BY <1>1, <1>3 DEF Thread
<1>5. CASE InQueue(proc[p].child)
  <2>1. row' = [row EXCEPT ![proc[p].child] = proc[p].status]
    BY <1>5 DEF CompleteChild
  <2>2. /\ \A j \in Job \ {proc[p].child} : row'[j] = row[j]
        /\ row'[proc[p].child] \in Status
    BY <1>1, <1>2, <2>1, JobFacts DEF TypeOK
  <2>3. row[proc[p].child] \notin Status /\ row[proc[p].child] # "none"
    BY <1>5 DEF InQueue, Status
  <2> QED
    BY <1>2, <1>3, <1>4, <1>5, <2>2, <2>3 DEF CompleteChild
<1>6. CASE ~InQueue(proc[p].child)
  <2>1. row[proc[p].child] \in Status /\ row[proc[p].child] # "none"
    BY <1>2, <1>6 DEF InQueue, Status
  <2>2. UNCHANGED <<row, canceled, index, module, suspend>>
    BY <1>6 DEF CompleteChild
  <2> QED
    BY <1>2, <1>3, <1>4, <2>1, <2>2
<1> QED
  BY <1>5, <1>6

\* The children are pushed once.
LEMMA PushedOnceStep ==
    ASSUME ~DbErrors, JoinInv, [Next]_vars
    PROVE  PushedOnce'
<1> USE DEF JoinInv
<1>1. ASSUME NEW p \in Proc, PullFlow(p) PROVE PushedOnce'
  BY <1>1, JobFacts DEF PullFlow, PushedOnce, Unpushed, InQueue, TypeOK, Thread,
     Idle, Status
<1>2. ASSUME NEW p \in Proc, PushAll(p) PROVE PushedOnce'
  BY <1>2, JobFacts DEF PushAll, SuspendOf, InQueue, PushedOnce, Unpushed, TypeOK,
     Thread, Idle, Status
<1>3. ASSUME NEW p \in Proc, PushFails(p) PROVE PushedOnce'
  BY <1>3, JobFacts DEF PushFails, InQueue, PushedOnce, Unpushed, TypeOK, Thread,
     Idle, Status
<1>4. ASSUME NEW p \in Proc, NEW c \in Child, Claim(p, c),
             row[c] \in {"queued", "suspended"}
      PROVE  PushedOnce'
  BY <1>4, JobFacts DEF Claim, PushedOnce, Unpushed, InQueue, TypeOK, Thread, Idle,
     Status
<1>5. ASSUME NEW p \in Proc, FailToStart(p) PROVE PushedOnce'
  BY <1>5, JobFacts DEF FailToStart, PushedOnce, Unpushed, InQueue, TypeOK, Thread,
     Idle, Status
<1>6. ASSUME NEW p \in Proc, NEW s \in Status, FinishChild(p, s) PROVE PushedOnce'
  BY <1>6, JobFacts DEF FinishChild, PushedOnce, Unpushed, InQueue, TypeOK, Thread,
     Idle, Status
<1>7. ASSUME NEW p \in Proc, CompleteChild(p) PROVE PushedOnce'
  BY <1>7, JobFacts DEF CompleteChild, PingParent, StampLock, InQueue, PushedOnce,
     Unpushed, TypeOK, Thread, Idle, Status
<1>8. ASSUME NEW p \in Proc, Report(p) PROVE PushedOnce'
  BY <1>8, JobFacts, ReportMoves DEF PushedOnce, Unpushed, InQueue, Idle
<1>9. ASSUME NEW p \in Proc, LateReport(p) PROVE FALSE
  BY <1>9, ReportCounts DEF LateReport, Reporting
<1>10. ASSUME NEW p \in Proc, Release(p) PROVE PushedOnce'
  BY <1>10, JobFacts DEF Release, PushedOnce, Unpushed, InQueue, TypeOK, Thread,
     Idle, Status
<1>11. ASSUME NEW p \in Proc, Unlock(p) PROVE PushedOnce'
  BY <1>11, JobFacts DEF Unlock, PushedOnce, Unpushed, InQueue, TypeOK, Thread,
     Idle, Status
<1>12. ASSUME NEW p \in Proc, CommitLast(p) PROVE PushedOnce'
  <2>1. module = "InProgress" /\ module' \in {"Success", "Failure"}
    BY <1>12 DEF CommitLast, LastIsLast
  <2>2. \A q \in Proc : proc[q].pc # "push" /\ proc'[q].pc # "push"
    BY <1>12, <2>1 DEF CommitLast, PushedOnce, TypeOK, Thread
  <2>3. row[Flow] # "queued" /\ UNCHANGED row
    BY <1>12, <2>1 DEF CommitLast, PushedOnce
  <2> QED
    BY <2>1, <2>2, <2>3 DEF PushedOnce
<1>13. ASSUME NEW p \in Proc, FinishFlow(p) PROVE PushedOnce'
  BY <1>13, JobFacts DEF FinishFlow, InQueue, PushedOnce, Unpushed, TypeOK, Thread,
     Idle, Status
<1>14. ASSUME NEW p \in Proc, Crash(p) PROVE PushedOnce'
  BY <1>14, JobFacts DEF Crash, PushedOnce, Unpushed, InQueue, TypeOK, Thread, Idle,
     Status
<1>15. ASSUME NEW j \in Job, KillJob(j) PROVE PushedOnce'
  BY <1>15, JobFacts DEF KillJob, PingParent, InQueue, PushedOnce, Unpushed, TypeOK,
     Thread, Idle, Status
<1>16. ASSUME NEW c \in Child, RestartChild(c) PROVE PushedOnce'
  BY <1>16, JobFacts DEF RestartChild, PushedOnce, Unpushed, InQueue, TypeOK,
     Thread, Idle, Status
<1>17. ASSUME HandleZombieFlow PROVE PushedOnce'
  BY <1>17, JobFacts DEF HandleZombieFlow, KillTree, PushedOnce, Unpushed, InQueue,
     TypeOK, Thread, Idle, Status
<1>18. ASSUME Aside PROVE PushedOnce'
  BY <1>18, JobFacts, AsideLeaves DEF PushedOnce, Unpushed, InQueue, TypeOK, Thread,
     Idle, Status
<1> QED
  BY <1>1, <1>2, <1>3, <1>4, <1>5, <1>6, <1>7, <1>8, <1>9, <1>10, <1>11, <1>12,
     <1>13, <1>14, <1>15, <1>16, <1>17, <1>18 DEF Next, ThreadStep, PullChild,
     PullExpired, ReportAgain, Aside

\* A child is held by one thread.
LEMMA HeldOnceStep ==
    ASSUME ~DbErrors, JoinInv, [Next]_vars
    PROVE  HeldOnce'
<1> USE DEF JoinInv
<1>1. ASSUME NEW p \in Proc, PullFlow(p) PROVE HeldOnce'
  BY <1>1, JobFacts DEF PullFlow, HeldOnce, Holding, TypeOK, Thread, Idle, Status
<1>2. ASSUME NEW p \in Proc, PushAll(p) PROVE HeldOnce'
  <2>1. \A q \in Proc : ~Holding(q)
    BY <1>2 DEF PushAll, PushedOnce, Unpushed, HeldOnce, Status
  <2>2. \A q \in Proc : ~Holding(q)'
    BY <1>2, <2>1 DEF PushAll, Holding, Idle, TypeOK
  <2> QED
    BY <2>2 DEF HeldOnce
<1>3. ASSUME NEW p \in Proc, PushFails(p) PROVE HeldOnce'
  BY <1>3, JobFacts DEF PushFails, InQueue, HeldOnce, Holding, TypeOK, Thread, Idle,
     Status
<1>4. ASSUME NEW p \in Proc, NEW c \in Child, Claim(p, c),
             row[c] \in {"queued", "suspended"}
      PROVE  HeldOnce'
  BY <1>4, JobFacts DEF Claim, HeldOnce, Holding, TypeOK, Thread, Idle, Status
<1>5. ASSUME NEW p \in Proc, FailToStart(p) PROVE HeldOnce'
  BY <1>5, JobFacts DEF FailToStart, HeldOnce, Holding, TypeOK, Thread, Idle, Status
<1>6. ASSUME NEW p \in Proc, NEW s \in Status, FinishChild(p, s) PROVE HeldOnce'
  BY <1>6, JobFacts DEF FinishChild, HeldOnce, Holding, TypeOK, Thread, Idle, Status
<1>7. ASSUME NEW p \in Proc, CompleteChild(p) PROVE HeldOnce'
  BY <1>7, JobFacts DEF CompleteChild, PingParent, StampLock, InQueue, HeldOnce,
     Holding, TypeOK, Thread, Idle, Status
<1>8. ASSUME NEW p \in Proc, Report(p) PROVE HeldOnce'
  BY <1>8, JobFacts, ReportMoves DEF HeldOnce, Holding, Idle
<1>9. ASSUME NEW p \in Proc, LateReport(p) PROVE FALSE
  BY <1>9, ReportCounts DEF LateReport, Reporting
<1>10. ASSUME NEW p \in Proc, Release(p) PROVE HeldOnce'
  BY <1>10, JobFacts DEF Release, HeldOnce, Holding, TypeOK, Thread, Idle, Status
<1>11. ASSUME NEW p \in Proc, Unlock(p) PROVE HeldOnce'
  BY <1>11, JobFacts DEF Unlock, HeldOnce, Holding, TypeOK, Thread, Idle, Status
<1>12. ASSUME NEW p \in Proc, CommitLast(p) PROVE HeldOnce'
  BY <1>12, JobFacts DEF CommitLast, HeldOnce, Holding, TypeOK, Thread, Idle, Status
<1>13. ASSUME NEW p \in Proc, FinishFlow(p) PROVE HeldOnce'
  BY <1>13, JobFacts DEF FinishFlow, InQueue, HeldOnce, Holding, TypeOK, Thread,
     Idle, Status
<1>14. ASSUME NEW p \in Proc, Crash(p) PROVE HeldOnce'
  BY <1>14, JobFacts DEF Crash, HeldOnce, Holding, TypeOK, Thread, Idle, Status
<1>15. ASSUME NEW j \in Job, KillJob(j) PROVE HeldOnce'
  BY <1>15, JobFacts DEF KillJob, PingParent, InQueue, HeldOnce, Holding, TypeOK,
     Thread, Idle, Status
<1>16. ASSUME NEW c \in Child, RestartChild(c) PROVE HeldOnce'
  BY <1>16, JobFacts DEF RestartChild, ChildHeld, HeldOnce, Holding, TypeOK, Thread,
     Idle, Status
<1>17. ASSUME HandleZombieFlow PROVE HeldOnce'
  BY <1>17, JobFacts DEF HandleZombieFlow, KillTree, HeldOnce, Holding, TypeOK,
     Thread, Idle, Status
<1>18. ASSUME Aside PROVE HeldOnce'
  BY <1>18, JobFacts, AsideLeaves DEF HeldOnce, Holding, TypeOK, Thread, Idle,
     Status
<1> QED
  BY <1>1, <1>2, <1>3, <1>4, <1>5, <1>6, <1>7, <1>8, <1>9, <1>10, <1>11, <1>12,
     <1>13, <1>14, <1>15, <1>16, <1>17, <1>18 DEF Next, ThreadStep, PullChild,
     PullExpired, ReportAgain, Aside

\* One transaction of a last child is open.
LEMMA LastIsLastStep ==
    ASSUME ~DbErrors, JoinInv, [Next]_vars
    PROVE  LastIsLast'
<1> USE DEF JoinInv
<1>1. ASSUME NEW p \in Proc, PullFlow(p) PROVE LastIsLast'
  BY <1>1, JobFacts DEF PullFlow, LastIsLast, InQueue, TypeOK, Thread, Idle, Status
<1>2. ASSUME NEW p \in Proc, PushAll(p) PROVE LastIsLast'
  BY <1>2, JobFacts DEF PushAll, SuspendOf, InQueue, LastIsLast, TypeOK, Thread,
     Idle, Status
<1>3. ASSUME NEW p \in Proc, PushFails(p) PROVE LastIsLast'
  BY <1>3, JobFacts DEF PushFails, InQueue, PushedOnce, LastIsLast, TypeOK, Thread,
     Idle, Status
<1>4. ASSUME NEW p \in Proc, NEW c \in Child, Claim(p, c),
             row[c] \in {"queued", "suspended"}
      PROVE  LastIsLast'
  BY <1>4, JobFacts DEF Claim, LastIsLast, InQueue, TypeOK, Thread, Idle, Status
<1>5. ASSUME NEW p \in Proc, FailToStart(p) PROVE LastIsLast'
  BY <1>5, JobFacts DEF FailToStart, LastIsLast, InQueue, TypeOK, Thread, Idle,
     Status
<1>6. ASSUME NEW p \in Proc, NEW s \in Status, FinishChild(p, s) PROVE LastIsLast'
  BY <1>6, JobFacts DEF FinishChild, LastIsLast, InQueue, TypeOK, Thread, Idle,
     Status
<1>7. ASSUME NEW p \in Proc, CompleteChild(p) PROVE LastIsLast'
  BY <1>7, JobFacts, CompleteMoves DEF LastIsLast, InQueue, Idle
<1>8. ASSUME NEW p \in Proc, Report(p) PROVE LastIsLast'
  BY <1>8, JobFacts, ReportMoves DEF LastIsLast, InQueue, Idle
<1>9. ASSUME NEW p \in Proc, LateReport(p) PROVE FALSE
  BY <1>9, ReportCounts DEF LateReport, Reporting
<1>10. ASSUME NEW p \in Proc, Release(p) PROVE LastIsLast'
  BY <1>10, JobFacts DEF Release, LastIsLast, InQueue, TypeOK, Thread, Idle, Status
<1>11. ASSUME NEW p \in Proc, Unlock(p) PROVE LastIsLast'
  BY <1>11, JobFacts DEF Unlock, LastIsLast, InQueue, TypeOK, Thread, Idle, Status
<1>12. ASSUME NEW p \in Proc, CommitLast(p) PROVE LastIsLast'
  BY <1>12, JobFacts DEF CommitLast, LastIsLast, InQueue, TypeOK, Thread, Idle,
     Status
<1>13. ASSUME NEW p \in Proc, FinishFlow(p) PROVE LastIsLast'
  <2>1. \A q \in Proc : proc[q].pc # "last"
    BY <1>13 DEF FinishFlow, JoinedWhenCounted, LastIsLast
  <2> QED
    BY <1>13, <2>1 DEF FinishFlow, LastIsLast, Idle, TypeOK
<1>14. ASSUME NEW p \in Proc, Crash(p) PROVE LastIsLast'
  BY <1>14, JobFacts DEF Crash, LastIsLast, InQueue, TypeOK, Thread, Idle, Status
<1>15. ASSUME NEW j \in Job, KillJob(j) PROVE LastIsLast'
  BY <1>15, JobFacts DEF KillJob, PingParent, InQueue, LastIsLast, TypeOK, Thread,
     Idle, Status
<1>16. ASSUME NEW c \in Child, RestartChild(c) PROVE LastIsLast'
  BY <1>16, JobFacts DEF RestartChild, LastIsLast, InQueue, TypeOK, Thread, Idle,
     Status
<1>17. ASSUME HandleZombieFlow PROVE LastIsLast'
  BY <1>17, JobFacts DEF HandleZombieFlow, KillTree, LastIsLast, InQueue, TypeOK,
     Thread, Idle, Status
<1>18. ASSUME Aside PROVE LastIsLast'
  BY <1>18, JobFacts, AsideLeaves DEF LastIsLast, InQueue, TypeOK, Thread, Idle,
     Status
<1> QED
  BY <1>1, <1>2, <1>3, <1>4, <1>5, <1>6, <1>7, <1>8, <1>9, <1>10, <1>11, <1>12,
     <1>13, <1>14, <1>15, <1>16, <1>17, <1>18 DEF Next, ThreadStep, PullChild,
     PullExpired, ReportAgain, Aside

\* A step counts nothing, or one child that is completed and was not counted.
Counts ==
    \/ index' = index /\ Settled \in SUBSET Settled'
    \/ \E p \in Proc : /\ proc[p].pc \in {"report", "last"}
                       /\ index' = index + 1
                       /\ Settled \cup {proc[p].child} \in SUBSET Settled'

\* Every step is such a step: a child is counted once, and after its completion.
LEMMA CountsStep ==
    ASSUME ~DbErrors, JoinInv, [Next]_vars
    PROVE  Counts
<1> USE DEF JoinInv
<1>1. ASSUME NEW p \in Proc, PullFlow(p) PROVE Counts
  <2>1. index' = index /\ \A x \in Settled : x \in Settled'
    BY <1>1, JobFacts DEF PullFlow, Settled, Holding, TypeOK, Thread, Idle, Status
  <2> QED
    BY <2>1 DEF Counts
<1>2. ASSUME NEW p \in Proc, PushAll(p) PROVE Counts
  <2>1. Settled = {}
    BY <1>2 DEF PushAll, PushedOnce, Unpushed, Settled, Status
  <2> QED
    BY <1>2, <2>1 DEF PushAll, Counts
<1>3. ASSUME NEW p \in Proc, PushFails(p) PROVE Counts
  <2>1. index' = index /\ \A x \in Settled : x \in Settled'
    BY <1>3, JobFacts DEF PushFails, InQueue, Settled, Holding, TypeOK, Thread,
       Idle, Status
  <2> QED
    BY <2>1 DEF Counts
<1>4. ASSUME NEW p \in Proc, NEW c \in Child, Claim(p, c),
             row[c] \in {"queued", "suspended"}
      PROVE  Counts
  <2>1. index' = index /\ \A x \in Settled : x \in Settled'
    BY <1>4, JobFacts DEF Claim, Settled, Holding, TypeOK, Thread, Idle, Status
  <2> QED
    BY <2>1 DEF Counts
<1>5. ASSUME NEW p \in Proc, FailToStart(p) PROVE Counts
  <2>1. index' = index /\ \A x \in Settled : x \in Settled'
    BY <1>5, JobFacts DEF FailToStart, Settled, Holding, TypeOK, Thread, Idle,
       Status
  <2> QED
    BY <2>1 DEF Counts
<1>6. ASSUME NEW p \in Proc, NEW s \in Status, FinishChild(p, s) PROVE Counts
  <2>1. index' = index /\ \A x \in Settled : x \in Settled'
    BY <1>6, JobFacts DEF FinishChild, Settled, Holding, TypeOK, Thread, Idle,
       Status
  <2> QED
    BY <2>1 DEF Counts
<1>7. ASSUME NEW p \in Proc, CompleteChild(p) PROVE Counts
  <2>1. \A x \in Settled : x \in Settled'
    BY <1>7, CompleteMoves, JobFacts DEF Settled, Holding, Idle
  <2> QED
    BY <1>7, <2>1, CompleteMoves DEF Counts
<1>8. ASSUME NEW p \in Proc, Report(p) PROVE Counts
  <2>1. CASE index' = index
    <3>1. \A x \in Settled : x \in Settled'
      BY <1>8, <2>1, ReportMoves DEF Settled, Holding, Idle
    <3> QED
      BY <2>1, <3>1 DEF Counts
  <2>2. CASE index' = index + 1 /\ proc'[p].pc = "release"
    <3>1. Settled \cup {proc[p].child} \in SUBSET Settled'
      BY <1>8, <2>2, ReportMoves DEF Settled, Holding, HeldOnce
    <3> QED
      BY <1>8, <2>2, <3>1, ReportMoves DEF Counts
  <2> QED
    BY <1>8, <2>1, <2>2, ReportMoves
<1>9. ASSUME NEW p \in Proc, LateReport(p) PROVE FALSE
  BY <1>9, ReportCounts DEF LateReport, Reporting
<1>10. ASSUME NEW p \in Proc, Release(p) PROVE Counts
  <2>1. index' = index /\ \A x \in Settled : x \in Settled'
    BY <1>10, JobFacts DEF Release, Settled, Holding, TypeOK, Thread, Idle, Status
  <2> QED
    BY <2>1 DEF Counts
<1>11. ASSUME NEW p \in Proc, Unlock(p) PROVE Counts
  <2>1. index' = index /\ \A x \in Settled : x \in Settled'
    BY <1>11, JobFacts DEF Unlock, Settled, Holding, TypeOK, Thread, Idle, Status
  <2> QED
    BY <2>1 DEF Counts
<1>12. ASSUME NEW p \in Proc, CommitLast(p) PROVE Counts
  <2>1. index' = index + 1 /\ proc'[p].pc = "advance"
        /\ \A q \in Proc \ {p} : proc'[q] = proc[q]
    BY <1>12 DEF CommitLast, LastIsLast, TypeOK, Thread
  <2>2. Settled \cup {proc[p].child} \in SUBSET Settled'
    BY <1>12, <2>1 DEF CommitLast, Settled, Holding, HeldOnce
  <2> QED
    BY <1>12, <2>1, <2>2 DEF CommitLast, Counts
<1>13. ASSUME NEW p \in Proc, FinishFlow(p) PROVE Counts
  <2>1. index' = index /\ \A x \in Settled : x \in Settled'
    BY <1>13, JobFacts DEF FinishFlow, InQueue, Settled, Holding, TypeOK, Thread,
       Idle, Status
  <2> QED
    BY <2>1 DEF Counts
<1>14. ASSUME NEW p \in Proc, Crash(p) PROVE Counts
  <2>1. index' = index /\ \A x \in Settled : x \in Settled'
    BY <1>14, JobFacts DEF Crash, Settled, Holding, TypeOK, Thread, Idle, Status
  <2> QED
    BY <2>1 DEF Counts
<1>15. ASSUME NEW j \in Job, KillJob(j) PROVE Counts
  <2>1. index' = index /\ \A x \in Settled : x \in Settled'
    BY <1>15, JobFacts DEF KillJob, PingParent, InQueue, Settled, Holding, TypeOK,
       Thread, Idle, Status
  <2> QED
    BY <2>1 DEF Counts
<1>16. ASSUME NEW c \in Child, RestartChild(c) PROVE Counts
  <2>1. index' = index /\ \A x \in Settled : x \in Settled'
    BY <1>16, JobFacts DEF RestartChild, Settled, Holding, TypeOK, Thread, Idle,
       Status
  <2> QED
    BY <2>1 DEF Counts
<1>17. ASSUME HandleZombieFlow PROVE Counts
  <2>1. index' = index /\ \A x \in Settled : x \in Settled'
    BY <1>17, JobFacts DEF HandleZombieFlow, KillTree, Settled, Holding, TypeOK,
       Thread, Idle, Status
  <2> QED
    BY <2>1 DEF Counts
<1>18. ASSUME Aside PROVE Counts
  <2>1. Settled' = Settled
    BY <1>18, AsideLeaves DEF Settled, Holding
  <2> QED
    BY <1>18, <2>1, AsideLeaves DEF Counts
<1> QED
  BY <1>1, <1>2, <1>3, <1>4, <1>5, <1>6, <1>7, <1>8, <1>9, <1>10, <1>11, <1>12,
     <1>13, <1>14, <1>15, <1>16, <1>17, <1>18 DEF Next, ThreadStep, PullChild,
     PullExpired, ReportAgain, Aside

\* The count of the reports never exceeds what is completed.
LEMMA CountIsRealStep ==
    ASSUME ~DbErrors, JoinInv, [Next]_vars
    PROVE  CountIsReal'
<1>1. Settled \in SUBSET Child /\ Settled' \in SUBSET Child /\ index \in Nat
  BY JobFacts DEF JoinInv, TypeOK, Settled
<1>2. CASE index' = index /\ Settled \in SUBSET Settled'
  <2>1. Cardinality(Settled) \in Nat /\ Cardinality(Settled') \in Nat
        /\ Cardinality(Settled) <= Cardinality(Settled')
    BY <1>1, <1>2, ChildSets
  <2> QED
    BY <1>1, <1>2, <2>1 DEF JoinInv, CountIsReal
<1>3. ASSUME NEW p \in Proc, proc[p].pc \in {"report", "last"}, index' = index + 1,
             Settled \cup {proc[p].child} \in SUBSET Settled'
      PROVE  CountIsReal'
  <2> DEFINE S == Settled \cup {proc[p].child}
  <2>1. S \in SUBSET Child /\ index + 1 <= Cardinality(S)
    BY <1>1, <1>3, ReportCounts
  <2>2. Cardinality(S) \in Nat /\ Cardinality(Settled') \in Nat
        /\ Cardinality(S) <= Cardinality(Settled')
    BY <1>1, <1>3, <2>1, ChildSets
  <2> QED
    BY <1>1, <1>3, <2>1, <2>2 DEF CountIsReal
<1> QED
  BY <1>2, <1>3, CountsStep DEF Counts

\* The module ends when all is counted.
LEMMA JoinedStep ==
    ASSUME ~DbErrors, JoinInv, [Next]_vars
    PROVE  JoinedWhenCounted'
<1> USE DEF JoinInv
<1>1. ASSUME NEW p \in Proc, PullFlow(p) PROVE JoinedWhenCounted'
  BY <1>1, JobFacts DEF PullFlow, JoinedWhenCounted, Unpushed, AllGood, TypeOK,
     Thread, Idle, Status
<1>2. ASSUME NEW p \in Proc, PushAll(p) PROVE JoinedWhenCounted'
  BY <1>2, JobFacts DEF PushAll, SuspendOf, InQueue, JoinedWhenCounted, PushedOnce,
     Unpushed, AllGood, TypeOK, Thread, Idle, Status
<1>3. ASSUME NEW p \in Proc, PushFails(p) PROVE JoinedWhenCounted'
  BY <1>3, JobFacts DEF PushFails, InQueue, JoinedWhenCounted, PushedOnce, Unpushed,
     AllGood, TypeOK, Thread, Idle, Status
<1>4. ASSUME NEW p \in Proc, NEW c \in Child, Claim(p, c),
             row[c] \in {"queued", "suspended"}
      PROVE  JoinedWhenCounted'
  BY <1>4, JobFacts DEF Claim, JoinedWhenCounted, Unpushed, AllGood, TypeOK, Thread,
     Idle, Status
<1>5. ASSUME NEW p \in Proc, FailToStart(p) PROVE JoinedWhenCounted'
  BY <1>5, JobFacts DEF FailToStart, JoinedWhenCounted, Unpushed, AllGood, TypeOK,
     Thread, Idle, Status
<1>6. ASSUME NEW p \in Proc, NEW s \in Status, FinishChild(p, s)
      PROVE  JoinedWhenCounted'
  BY <1>6, JobFacts DEF FinishChild, JoinedWhenCounted, Unpushed, AllGood, TypeOK,
     Thread, Idle, Status
<1>7. ASSUME NEW p \in Proc, CompleteChild(p) PROVE JoinedWhenCounted'
  BY <1>7, JobFacts, CompleteMoves DEF JoinedWhenCounted, Unpushed, AllGood, Idle,
     Status
<1>8. ASSUME NEW p \in Proc, Report(p) PROVE JoinedWhenCounted'
  <2>1. module \notin {"Success", "Failure"} /\ UNCHANGED <<row, module>>
    BY <1>8, ReportMoves, ReportCounts
  <2>2. \A q \in Proc : proc'[q].pc # "advance"
    BY <1>8, <2>1, ReportMoves DEF JoinedWhenCounted, Idle
  <2> QED
    BY <2>1, <2>2 DEF JoinedWhenCounted, AllGood
<1>9. ASSUME NEW p \in Proc, LateReport(p) PROVE FALSE
  BY <1>9, ReportCounts DEF LateReport, Reporting
<1>10. ASSUME NEW p \in Proc, Release(p) PROVE JoinedWhenCounted'
  BY <1>10, JobFacts DEF Release, JoinedWhenCounted, Unpushed, AllGood, TypeOK,
     Thread, Idle, Status
<1>11. ASSUME NEW p \in Proc, Unlock(p) PROVE JoinedWhenCounted'
  BY <1>11, JobFacts DEF Unlock, JoinedWhenCounted, Unpushed, AllGood, TypeOK,
     Thread, Idle, Status
<1>12. ASSUME NEW p \in Proc, CommitLast(p) PROVE JoinedWhenCounted'
  <2>1. index' = Iterations
    BY <1>12 DEF CommitLast, LastIsLast
  <2>2. Settled \cup {proc[p].child} = Child
    <3>1. /\ Settled \cup {proc[p].child} \in SUBSET Child
          /\ Iterations <= Cardinality(Settled \cup {proc[p].child})
      BY <1>12, ReportCounts DEF CommitLast, LastIsLast, Settled
    <3> QED
      BY <3>1, ChildSets, JobFacts
  <2>3. \A c \in Child : row[c] \in Status
    BY <1>12, <2>2 DEF CommitLast, HeldOnce, Holding, Settled
  <2>4. JoinSucceeds => AllGood
    BY <2>3 DEF JoinSucceeds, AllGood
  <2>5. UNCHANGED row
    BY <1>12 DEF CommitLast
  <2>6. /\ proc'[p].status = "success" => JoinSucceeds
        /\ \A q \in Proc \ {p} : proc'[q] = proc[q]
    BY <1>12 DEF CommitLast, TypeOK, Thread
  <2>7. module' \in {"Success", "Failure"}
    BY <1>12 DEF CommitLast
  <2> QED
    BY <2>1, <2>4, <2>5, <2>6, <2>7 DEF JoinedWhenCounted, AllGood
<1>13. ASSUME NEW p \in Proc, FinishFlow(p) PROVE JoinedWhenCounted'
  BY <1>13, JobFacts DEF FinishFlow, InQueue, JoinedWhenCounted, Unpushed, AllGood,
     TypeOK, Thread, Idle, Status
<1>14. ASSUME NEW p \in Proc, Crash(p) PROVE JoinedWhenCounted'
  BY <1>14, JobFacts DEF Crash, JoinedWhenCounted, Unpushed, AllGood, TypeOK,
     Thread, Idle, Status
<1>15. ASSUME NEW j \in Job, KillJob(j) PROVE JoinedWhenCounted'
  BY <1>15, JobFacts DEF KillJob, PingParent, InQueue, JoinedWhenCounted, Unpushed,
     AllGood, TypeOK, Thread, Idle, Status
<1>16. ASSUME NEW c \in Child, RestartChild(c) PROVE JoinedWhenCounted'
  BY <1>16, JobFacts DEF RestartChild, JoinedWhenCounted, Unpushed, AllGood, TypeOK,
     Thread, Idle, Status
<1>17. ASSUME HandleZombieFlow PROVE JoinedWhenCounted'
  BY <1>17, JobFacts DEF HandleZombieFlow, KillTree, JoinedWhenCounted, Unpushed,
     AllGood, TypeOK, Thread, Idle, Status
<1>18. ASSUME Aside PROVE JoinedWhenCounted'
  BY <1>18, JobFacts, AsideLeaves DEF JoinedWhenCounted, Unpushed, AllGood, TypeOK,
     Thread, Idle, Status
<1> QED
  BY <1>1, <1>2, <1>3, <1>4, <1>5, <1>6, <1>7, <1>8, <1>9, <1>10, <1>11, <1>12,
     <1>13, <1>14, <1>15, <1>16, <1>17, <1>18 DEF Next, ThreadStep, PullChild,
     PullExpired, ReportAgain, Aside

\* The join's invariant: statements that follow the commit of a report do not
\* fail, workers die and users and the monitor cancel at any point.
THEOREM JoinInvariant ==
    ASSUME ~DbErrors
    PROVE  Spec => []JoinInv
<1>1. Init => JoinInv
  <2> SUFFICES ASSUME Init PROVE JoinInv
    OBVIOUS
  <2>1. TypeOK
    <3>1. row \in [Job -> {"none", "queued", "suspended", "running"} \cup Status]
      BY DEF Init
    <3>2. proc \in [Proc -> Thread]
      BY Threads DEF Init
    <3>3. suspend \in [Child -> 0 .. Iterations] /\ index \in 0 .. Iterations /\ faults \in 0 .. MaxFaults
      BY JobFacts DEF Init
    <3> QED
      BY <3>1, <3>2, <3>3 DEF Init, TypeOK
  <2>2. \A p \in Proc : proc[p].pc = "idle" /\ ~Holding(p)
    BY DEF Init, Idle, Holding
  <2>3. PushedOnce /\ HeldOnce /\ LastIsLast /\ JoinedWhenCounted
    BY <2>2, JobFacts DEF Init, PushedOnce, HeldOnce, LastIsLast, JoinedWhenCounted, Unpushed
  <2>4. CountIsReal
    <3>1. Settled \in SUBSET Child
      BY DEF Settled
    <3> QED
      BY <3>1, ChildSets DEF Init, CountIsReal
  <2> QED
    BY <2>1, <2>3, <2>4 DEF JoinInv
<1>2. JoinInv /\ [Next]_vars => JoinInv'
  BY TypeStep, PushedOnceStep, HeldOnceStep, LastIsLastStep, CountIsRealStep, JoinedStep
     DEF JoinInv
<1> QED
  BY <1>1, <1>2, PTL DEF Spec

\* The flow is joined only when every child is completed, and succeeds only if
\* every child that counts did (update_flow_status_after_job_completion): for
\* every number of iterations and of workers, provided that no statement after
\* the commit of a report fails, which would count a child twice.
THEOREM JoinCountsAll ==
    ASSUME ~DbErrors
    PROVE  Spec => []JoinIsComplete
<1>1. JoinInv => JoinIsComplete
  <2> SUFFICES ASSUME JoinInv PROVE JoinIsComplete
    OBVIOUS
  <2>1. row[Flow] = "success" => AllGood
    BY DEF JoinInv, JoinedWhenCounted
  <2>2. ASSUME index = Iterations PROVE \A c \in Child : row[c] \in Status
    <3>1. Settled \in SUBSET Child /\ Iterations <= Cardinality(Settled)
      BY <2>2 DEF JoinInv, CountIsReal, Settled
    <3>2. Settled = Child
      BY <3>1, ChildSets, JobFacts
    <3> QED
      BY <3>2 DEF Settled
  <2>3. ASSUME module \in {"Success", "Failure"}, NEW c \in Child PROVE ~InQueue(c)
    BY <2>2, <2>3 DEF JoinInv, JoinedWhenCounted, Unpushed, InQueue, Status
  <2> QED
    BY <2>1, <2>3 DEF JoinIsComplete, AllGood
<1> QED
  BY <1>1, JoinInvariant, PTL
-----------------------------------------------------------------------------
(* The parallelism is kept by every step.                                  *)

\* A child that waits keeps its place until it is released.
LEMMA WaitsForPlaceStep ==
    ASSUME ~DbErrors, ~LongWaits, JoinInv, ReachInv, [Next]_vars
    PROVE  WaitsForPlace'
<1> USE DEF JoinInv, ReachInv
<1>1. ASSUME NEW p \in Proc, PullFlow(p) PROVE WaitsForPlace'
  BY <1>1, JobFacts DEF PullFlow, WaitsForPlace, TypeOK, Thread, Idle, Status
<1>2. ASSUME NEW p \in Proc, PushAll(p) PROVE WaitsForPlace'
  <2>1. \A c \in Child : suspend'[c] = 0 \/ suspend'[c] + Parallelism = c
    BY <1>2, JobFacts DEF PushAll, SuspendOf
  <2> QED
    BY <1>2, <2>1 DEF PushAll, WaitsForPlace, TypeOK, Idle
<1>3. ASSUME NEW p \in Proc, PushFails(p) PROVE WaitsForPlace'
  BY <1>3, JobFacts DEF PushFails, InQueue, WaitsForPlace, TypeOK, Thread, Idle,
     Status
<1>4. ASSUME NEW p \in Proc, NEW c \in Child, PullChild(p, c) PROVE WaitsForPlace'
  BY <1>4, JobFacts DEF PullChild, Claim, WaitsForPlace, TypeOK, Thread, Idle,
     Status
<1>5. ASSUME NEW p \in Proc, FailToStart(p) PROVE WaitsForPlace'
  BY <1>5, JobFacts DEF FailToStart, WaitsForPlace, TypeOK, Thread, Idle, Status
<1>6. ASSUME NEW p \in Proc, NEW s \in Status, FinishChild(p, s) PROVE WaitsForPlace'
  BY <1>6, JobFacts DEF FinishChild, WaitsForPlace, TypeOK, Thread, Idle, Status
<1>7. ASSUME NEW p \in Proc, CompleteChild(p) PROVE WaitsForPlace'
  <2>1. \A c \in Child : row'[c] = "suspended" => row[c] = "suspended"
    BY <1>7, CompleteMoves, JobFacts DEF Status
  <2> QED
    BY <1>7, <2>1, CompleteMoves DEF WaitsForPlace, Idle
<1>8. ASSUME NEW p \in Proc, Report(p) PROVE WaitsForPlace'
  <2>1. index' \in {index, index + 1} /\ index \in Nat /\ UNCHANGED <<row, suspend>>
    BY <1>8, ReportMoves, JobFacts DEF TypeOK
  <2>2. \A q \in Proc : proc'[q].pc = "release" => proc'[q] = proc[q] \/ proc'[q].n = index'
    BY <1>8, ReportMoves DEF Idle
  <2>3. \A q \in Proc : proc[q].n \in Nat
    <3>1. \A q \in Proc : proc[q].n \in 0 .. Iterations
      BY Threads DEF TypeOK
    <3> QED
      BY <3>1, JobFacts
  <2> QED
    BY <2>1, <2>2, <2>3 DEF WaitsForPlace
<1>9. ASSUME NEW p \in Proc, LateReport(p) PROVE FALSE
  BY <1>9, ReportCounts DEF LateReport, Reporting
<1>10. ASSUME NEW p \in Proc, Release(p) PROVE WaitsForPlace'
  BY <1>10, JobFacts DEF Release, WaitsForPlace, TypeOK, Thread, Idle, Status
<1>11. ASSUME NEW p \in Proc, Unlock(p) PROVE WaitsForPlace'
  BY <1>11, JobFacts DEF Unlock, WaitsForPlace, TypeOK, Thread, Idle, Status
<1>12. ASSUME NEW p \in Proc, CommitLast(p) PROVE WaitsForPlace'
  <2>1. index' = index + 1 /\ index \in Nat /\ UNCHANGED <<row, suspend>>
    BY <1>12, JobFacts DEF CommitLast, LastIsLast, TypeOK
  <2>2. \A q \in Proc : proc'[q].pc = "release" => proc'[q] = proc[q]
    BY <1>12 DEF CommitLast, TypeOK, Thread
  <2>3. \A q \in Proc : proc[q].n \in Nat
    <3>1. \A q \in Proc : proc[q].n \in 0 .. Iterations
      BY Threads DEF TypeOK
    <3> QED
      BY <3>1, JobFacts
  <2> QED
    BY <2>1, <2>2, <2>3 DEF WaitsForPlace
<1>13. ASSUME NEW p \in Proc, FinishFlow(p) PROVE WaitsForPlace'
  BY <1>13, JobFacts DEF FinishFlow, InQueue, WaitsForPlace, TypeOK, Thread, Idle,
     Status
<1>14. ASSUME NEW p \in Proc, Crash(p) PROVE WaitsForPlace'
  BY <1>14, JobFacts DEF Crash, WaitsForPlace, TypeOK, Thread, Idle, Status
<1>15. ASSUME NEW j \in Job, KillJob(j) PROVE WaitsForPlace'
  BY <1>15, JobFacts DEF KillJob, PingParent, InQueue, WaitsForPlace, TypeOK,
     Thread, Idle, Status
<1>16. ASSUME NEW c \in Child, RestartChild(c) PROVE WaitsForPlace'
  BY <1>16, JobFacts DEF RestartChild, WaitsForPlace, TypeOK, Thread, Idle, Status
<1>17. ASSUME HandleZombieFlow PROVE WaitsForPlace'
  BY <1>17, JobFacts DEF HandleZombieFlow, KillTree, WaitsForPlace, TypeOK, Thread,
     Idle, Status
<1>18. ASSUME Aside PROVE WaitsForPlace'
  <2>1. UNCHANGED suspend \/ \A c \in Child : suspend'[c] = 0 \/ suspend'[c] = suspend[c]
    BY <1>18 DEF Aside, DropLocks, Cancel, ZombieChild, LockExpires, HandleZombieLock,
       CrashServer, PingExpires, vars
  <2> QED
    BY <1>18, <2>1, AsideLeaves DEF WaitsForPlace
<1> QED
  BY <1>1, <1>2, <1>3, <1>4, <1>5, <1>6, <1>7, <1>8, <1>9, <1>10, <1>11, <1>12,
     <1>13, <1>14, <1>15, <1>16, <1>17, <1>18 DEF Next, ThreadStep, PullExpired,
     ReportAgain, Aside

Pushes == \E p \in Proc : PushAll(p)

\* What is being cancelled stays so, but for a push that is still to come.
LEMMA WindingStep ==
    ASSUME ~DbErrors, ~LongWaits, JoinInv, ReachInv, [Next]_vars, Winding
    PROVE  Winding' \/ Pushes
<1> USE DEF JoinInv
<1>1. ASSUME NEW p \in Proc, PullFlow(p) PROVE Winding' \/ Pushes
  BY <1>1, JobFacts DEF PullFlow, Winding, InQueue, TypeOK, Status
<1>2. ASSUME NEW p \in Proc, PushAll(p) PROVE Winding' \/ Pushes
  BY <1>2 DEF Pushes
<1>3. ASSUME NEW p \in Proc, PushFails(p) PROVE Winding' \/ Pushes
  BY <1>3, JobFacts DEF PushFails, InQueue, Winding, TypeOK, Status
<1>4. ASSUME NEW p \in Proc, NEW c \in Child, PullChild(p, c) PROVE Winding' \/ Pushes
  BY <1>4, JobFacts DEF PullChild, Claim, Winding, InQueue, TypeOK, Status
<1>5. ASSUME NEW p \in Proc, FailToStart(p) PROVE Winding' \/ Pushes
  BY <1>5, JobFacts DEF FailToStart, Winding, InQueue, TypeOK, Status
<1>6. ASSUME NEW p \in Proc, NEW s \in Status, FinishChild(p, s)
      PROVE  Winding' \/ Pushes
  BY <1>6, JobFacts DEF FinishChild, Winding, InQueue, TypeOK, Status
<1>7. ASSUME NEW p \in Proc, CompleteChild(p) PROVE Winding' \/ Pushes
  <2>1. \A c \in Child : InQueue(c)' => c # proc[p].child /\ InQueue(c)
    BY <1>7, CompleteMoves, JobFacts DEF InQueue, Status
  <2> QED
    BY <1>7, <2>1, CompleteMoves DEF Winding
<1>8. ASSUME NEW p \in Proc, Report(p) PROVE Winding' \/ Pushes
  BY <1>8, JobFacts, ReportMoves DEF Winding, InQueue
<1>9. ASSUME NEW p \in Proc, LateReport(p) PROVE FALSE
  BY <1>9, ReportCounts DEF LateReport, Reporting
<1>10. ASSUME NEW p \in Proc, Release(p) PROVE Winding' \/ Pushes
  BY <1>10, JobFacts DEF Release, Winding, InQueue, TypeOK, Status
<1>11. ASSUME NEW p \in Proc, Unlock(p) PROVE Winding' \/ Pushes
  BY <1>11, JobFacts DEF Unlock, Winding, InQueue, TypeOK, Status
<1>12. ASSUME NEW p \in Proc, CommitLast(p) PROVE Winding' \/ Pushes
  BY <1>12, JobFacts DEF CommitLast, Winding, InQueue, TypeOK, Status
<1>13. ASSUME NEW p \in Proc, FinishFlow(p) PROVE Winding' \/ Pushes
  BY <1>13, JobFacts DEF FinishFlow, InQueue, Winding, TypeOK, Status
<1>14. ASSUME NEW p \in Proc, Crash(p) PROVE Winding' \/ Pushes
  BY <1>14, JobFacts DEF Crash, Winding, InQueue, TypeOK, Status
<1>15. ASSUME NEW j \in Job, KillJob(j) PROVE Winding' \/ Pushes
  BY <1>15, JobFacts DEF KillJob, InQueue, Winding, TypeOK, Status
<1>16. ASSUME NEW c \in Child, RestartChild(c) PROVE Winding' \/ Pushes
  BY <1>16, JobFacts DEF RestartChild, Winding, InQueue, TypeOK, Status
<1>17. ASSUME HandleZombieFlow PROVE Winding' \/ Pushes
  BY <1>17, JobFacts DEF HandleZombieFlow, KillTree, Winding, InQueue, TypeOK,
     Status
<1>18. ASSUME Aside PROVE Winding' \/ Pushes
  <2>1. canceled \subseteq canceled'
    BY <1>18 DEF Aside, DropLocks, Cancel, ZombieChild, LockExpires, HandleZombieLock,
       CrashServer, PingExpires, vars
  <2> QED
    BY <1>18, <2>1, AsideLeaves DEF Winding, InQueue
<1> QED
  BY <1>1, <1>2, <1>3, <1>4, <1>5, <1>6, <1>7, <1>8, <1>9, <1>10, <1>11, <1>12,
     <1>13, <1>14, <1>15, <1>16, <1>17, <1>18 DEF Next, ThreadStep, PullExpired,
     ReportAgain, Aside

\* What is started and held after a step is within reach.
ReachKept ==
    /\ \A x \in Child : Started(x)' => Reach(x)'
    /\ \A q \in Proc : Holding(q)' => Reach(proc[q].child)'

\* Children are released in the order of the count.
LEMMA ReachKeptStep ==
    ASSUME ~DbErrors, ~LongWaits, JoinInv, ReachInv, [Next]_vars, WithinReach
    PROVE  ReachKept \/ Winding' \/ Pushes
<1> USE DEF JoinInv
<1>1. ASSUME NEW p \in Proc, PullFlow(p) PROVE ReachKept \/ Winding' \/ Pushes
  <2>1. \A x \in Child : Started(x)' => Reach(x)'
    BY <1>1, JobFacts DEF PullFlow, WithinReach, Started, Reach, TypeOK, Status
  <2>2. \A q \in Proc : Holding(q)' => Reach(proc[q].child)'
    BY <1>1, JobFacts DEF PullFlow, WithinReach, Started, Reach, Holding, TypeOK,
       Thread, Idle, Status
  <2> QED
    BY <2>1, <2>2 DEF ReachKept
<1>2. ASSUME NEW p \in Proc, PushAll(p) PROVE ReachKept \/ Winding' \/ Pushes
  BY <1>2 DEF Pushes
<1>3. ASSUME NEW p \in Proc, PushFails(p) PROVE ReachKept \/ Winding' \/ Pushes
  <2>1. \A x \in Child : Started(x)' => Reach(x)'
    BY <1>3, JobFacts DEF PushFails, InQueue, WithinReach, Started, Reach, TypeOK,
       Status
  <2>2. \A q \in Proc : Holding(q)' => Reach(proc[q].child)'
    BY <1>3, JobFacts DEF PushFails, InQueue, WithinReach, Started, Reach, Holding,
       TypeOK, Thread, Idle, Status
  <2> QED
    BY <2>1, <2>2 DEF ReachKept
<1>4. ASSUME NEW p \in Proc, NEW c \in Child, PullChild(p, c)
      PROVE  ReachKept \/ Winding' \/ Pushes
  <2>1. \A x \in Child : Started(x)' => Reach(x)'
    BY <1>4, JobFacts DEF PullChild, Claim, WithinReach, Started, Reach, TypeOK,
       Status
  <2>2. \A q \in Proc : Holding(q)' => Reach(proc[q].child)'
    BY <1>4, JobFacts DEF PullChild, Claim, WithinReach, Started, Reach, Holding,
       TypeOK, Thread, Idle, Status
  <2> QED
    BY <2>1, <2>2 DEF ReachKept
<1>5. ASSUME NEW p \in Proc, FailToStart(p) PROVE ReachKept \/ Winding' \/ Pushes
  <2>1. \A x \in Child : Started(x)' => Reach(x)'
    BY <1>5, JobFacts DEF FailToStart, WithinReach, Started, Reach, TypeOK, Status
  <2>2. \A q \in Proc : Holding(q)' => Reach(proc[q].child)'
    BY <1>5, JobFacts DEF FailToStart, WithinReach, Started, Reach, Holding, TypeOK,
       Thread, Idle, Status
  <2> QED
    BY <2>1, <2>2 DEF ReachKept
<1>6. ASSUME NEW p \in Proc, NEW s \in Status, FinishChild(p, s)
      PROVE  ReachKept \/ Winding' \/ Pushes
  <2>1. \A x \in Child : Started(x)' => Reach(x)'
    BY <1>6, JobFacts DEF FinishChild, WithinReach, Started, Reach, TypeOK, Status
  <2>2. \A q \in Proc : Holding(q)' => Reach(proc[q].child)'
    BY <1>6, JobFacts DEF FinishChild, WithinReach, Started, Reach, Holding, TypeOK,
       Thread, Idle, Status
  <2> QED
    BY <2>1, <2>2 DEF ReachKept
<1>7. ASSUME NEW p \in Proc, CompleteChild(p) PROVE ReachKept \/ Winding' \/ Pushes
  <2>1. \A x \in Child : Started(x)' => Reach(x)'
    BY <1>7, CompleteMoves, JobFacts DEF WithinReach, Started, Reach, Status
  <2>2. \A q \in Proc : Holding(q)' => Reach(proc[q].child)'
    BY <1>7, CompleteMoves DEF WithinReach, Reach, Holding, Idle
  <2> QED
    BY <2>1, <2>2 DEF ReachKept
<1>8. ASSUME NEW p \in Proc, Report(p) PROVE ReachKept \/ Winding' \/ Pushes
  <2>1. index \in Nat /\ index' \in {index, index + 1}
    BY <1>8, ReportMoves, JobFacts DEF TypeOK
  <2>2. \A x \in Child : Reach(x) => Reach(x)'
    BY <2>1, JobFacts DEF Reach
  <2>3. \A x \in Child : Started(x)' => Reach(x)'
    BY <1>8, <2>2, ReportMoves DEF WithinReach, Started
  <2>4. \A q \in Proc : Holding(q)' => Reach(proc[q].child)'
    BY <1>8, <2>2, ReportMoves DEF WithinReach, Holding, HeldOnce, Idle
  <2> QED
    BY <2>3, <2>4 DEF ReachKept
<1>9. ASSUME NEW p \in Proc, LateReport(p) PROVE FALSE
  BY <1>9, ReportCounts DEF LateReport, Reporting
<1>10. ASSUME NEW p \in Proc, Release(p) PROVE ReachKept \/ Winding' \/ Pushes
  <2>1. \A x \in Child : Started(x)' => Reach(x)'
    <3> SUFFICES ASSUME NEW x \in Child, Started(x)' PROVE Reach(x)'
      OBVIOUS
    <3>1. UNCHANGED <<row, index>>
      BY <1>10 DEF Release
    <3>2. CASE Started(x)
      BY <3>1, <3>2 DEF WithinReach, Reach
    <3>3. CASE ~Started(x)
      <4>1. row[x] = "suspended" /\ suspend[x] # 0 /\ suspend[x] = proc[p].n
        BY <1>10, <3>1, <3>3 DEF Release, Started
      <4>2. suspend[x] + Parallelism = x /\ suspend[x] <= index
        BY <1>10, <4>1 DEF Release, ReachInv, WaitsForPlace
      <4> QED
        BY <3>1, <4>2, JobFacts DEF Reach, TypeOK
    <3> QED
      BY <3>2, <3>3
  <2>2. \A q \in Proc : Holding(q)' => Reach(proc[q].child)'
    BY <1>10 DEF Release, WithinReach, Reach, Holding, TypeOK, Thread
  <2> QED
    BY <2>1, <2>2 DEF ReachKept
<1>11. ASSUME NEW p \in Proc, Unlock(p) PROVE ReachKept \/ Winding' \/ Pushes
  <2>1. \A x \in Child : Started(x)' => Reach(x)'
    BY <1>11, JobFacts DEF Unlock, WithinReach, Started, Reach, TypeOK, Status
  <2>2. \A q \in Proc : Holding(q)' => Reach(proc[q].child)'
    BY <1>11, JobFacts DEF Unlock, WithinReach, Started, Reach, Holding, TypeOK,
       Thread, Idle, Status
  <2> QED
    BY <2>1, <2>2 DEF ReachKept
<1>12. ASSUME NEW p \in Proc, CommitLast(p) PROVE ReachKept \/ Winding' \/ Pushes
  <2>1. index \in Nat /\ index' = index + 1
    BY <1>12, JobFacts DEF CommitLast, LastIsLast, TypeOK
  <2>2. \A x \in Child : Reach(x) => Reach(x)'
    BY <2>1, JobFacts DEF Reach
  <2>3. \A x \in Child : Started(x)' => Reach(x)'
    BY <1>12, <2>2 DEF CommitLast, WithinReach, Started
  <2>4. \A q \in Proc : Holding(q)' => Reach(proc[q].child)'
    BY <1>12, <2>2 DEF CommitLast, WithinReach, Holding, HeldOnce, TypeOK, Thread
  <2> QED
    BY <2>3, <2>4 DEF ReachKept
<1>13. ASSUME NEW p \in Proc, FinishFlow(p) PROVE ReachKept \/ Winding' \/ Pushes
  <2>1. \A x \in Child : Started(x)' => Reach(x)'
    BY <1>13, JobFacts DEF FinishFlow, InQueue, WithinReach, Started, Reach, TypeOK,
       Status
  <2>2. \A q \in Proc : Holding(q)' => Reach(proc[q].child)'
    BY <1>13, JobFacts DEF FinishFlow, InQueue, WithinReach, Started, Reach, Holding,
       TypeOK, Thread, Idle, Status
  <2> QED
    BY <2>1, <2>2 DEF ReachKept
<1>14. ASSUME NEW p \in Proc, Crash(p) PROVE ReachKept \/ Winding' \/ Pushes
  <2>1. \A x \in Child : Started(x)' => Reach(x)'
    BY <1>14, JobFacts DEF Crash, WithinReach, Started, Reach, TypeOK, Status
  <2>2. \A q \in Proc : Holding(q)' => Reach(proc[q].child)'
    BY <1>14, JobFacts DEF Crash, WithinReach, Started, Reach, Holding, TypeOK,
       Thread, Idle, Status
  <2> QED
    BY <2>1, <2>2 DEF ReachKept
<1>15. ASSUME NEW j \in Job, KillJob(j) PROVE ReachKept \/ Winding' \/ Pushes
  <2>1. \A x \in Child : Started(x)' => Reach(x)'
    BY <1>15, JobFacts DEF KillJob, PingParent, InQueue, WithinReach, Started, Reach,
       TypeOK, Status
  <2>2. \A q \in Proc : Holding(q)' => Reach(proc[q].child)'
    BY <1>15, JobFacts DEF KillJob, PingParent, InQueue, WithinReach, Started, Reach,
       Holding, TypeOK, Thread, Idle, Status
  <2> QED
    BY <2>1, <2>2 DEF ReachKept
<1>16. ASSUME NEW c \in Child, RestartChild(c) PROVE ReachKept \/ Winding' \/ Pushes
  <2>1. \A x \in Child : Started(x)' => Reach(x)'
    BY <1>16, JobFacts DEF RestartChild, WithinReach, Started, Reach, TypeOK, Status
  <2>2. \A q \in Proc : Holding(q)' => Reach(proc[q].child)'
    BY <1>16, JobFacts DEF RestartChild, WithinReach, Started, Reach, Holding,
       TypeOK, Thread, Idle, Status
  <2> QED
    BY <2>1, <2>2 DEF ReachKept
<1>17. ASSUME HandleZombieFlow PROVE ReachKept \/ Winding' \/ Pushes
  <2>1. \A x \in Child : Started(x)' => Reach(x)'
    BY <1>17, JobFacts DEF HandleZombieFlow, KillTree, WithinReach, Started, Reach,
       TypeOK, Status
  <2>2. \A q \in Proc : Holding(q)' => Reach(proc[q].child)'
    BY <1>17, JobFacts DEF HandleZombieFlow, KillTree, WithinReach, Started, Reach,
       Holding, TypeOK, Thread, Idle, Status
  <2> QED
    BY <2>1, <2>2 DEF ReachKept
<1>18. ASSUME Aside PROVE ReachKept \/ Winding' \/ Pushes
  <2>1. UNCHANGED suspend \/ Winding'
    BY <1>18, JobFacts DEF Aside, DropLocks, Cancel, ZombieChild, LockExpires, HandleZombieLock,
       CrashServer, PingExpires, vars, Winding, InQueue
  <2> QED
    BY <1>18, <2>1, AsideLeaves DEF WithinReach, Started, Reach, Holding, ReachKept
<1> QED
  BY <1>1, <1>2, <1>3, <1>4, <1>5, <1>6, <1>7, <1>8, <1>9, <1>10, <1>11, <1>12,
     <1>13, <1>14, <1>15, <1>16, <1>17, <1>18 DEF Next, ThreadStep, PullExpired,
     ReportAgain, Aside

\* The push starts the children within reach and nothing else.
LEMMA PushStarts ==
    ASSUME JoinInv, Pushes
    PROVE  WithinReach'
<1> USE DEF JoinInv
<1>1. PICK p \in Proc : PushAll(p)
  BY DEF Pushes
<1>2. Unpushed /\ index' = index
  BY <1>1 DEF PushAll, PushedOnce
<1>3. index = 0
  <2>1. Settled = {}
    BY <1>2 DEF Unpushed, Settled, Status
  <2> QED
    BY <2>1, FS_EmptySet, JobFacts DEF CountIsReal, TypeOK
<1>4. \A q \in Proc : ~Holding(q)'
  <2>1. \A q \in Proc : ~Holding(q)
    BY <1>2 DEF Unpushed, HeldOnce, Status
  <2> QED
    BY <1>1, <2>1 DEF PushAll, Holding, Idle, TypeOK
<1>5. \A c \in Child : Started(c)' => Reach(c)'
  <2> SUFFICES ASSUME NEW c \in Child, Started(c)' PROVE Reach(c)'
    OBVIOUS
  <2>1. SuspendOf(c - 1) = 0
    BY <1>1, JobFacts DEF PushAll, Started
  <2>2. c <= Parallelism
    BY <2>1, JobFacts DEF SuspendOf
  <2> QED
    BY <1>2, <1>3, <2>2, JobFacts DEF Reach
<1>6. index' <= Cardinality({c \in Settled : Reach(c)}')
  <2>1. {c \in Settled : Reach(c)}' \in SUBSET Child
    BY DEF Settled
  <2> QED
    BY <1>2, <1>3, <2>1, ChildSets
<1> QED
  BY <1>4, <1>5, <1>6 DEF WithinReach

\* What is counted is within reach.
LEMMA ReachCounts ==
    ASSUME JoinInv, WithinReach, Counts
    PROVE  index' <= Cardinality({c \in Settled : Reach(c)}')
<1> DEFINE S == {c \in Settled : Reach(c)}
<1>1. S \in SUBSET Child /\ S' \in SUBSET Child /\ index \in Nat
  BY JobFacts DEF JoinInv, TypeOK, Settled
<1>2. CASE index' = index /\ Settled \in SUBSET Settled'
  <2>1. S \in SUBSET S'
    BY <1>2 DEF Reach
  <2>2. Cardinality(S) \in Nat /\ Cardinality(S') \in Nat /\ Cardinality(S) <= Cardinality(S')
    BY <1>1, <2>1, ChildSets
  <2> QED
    BY <1>1, <1>2, <2>2 DEF WithinReach
<1>3. ASSUME NEW p \in Proc, proc[p].pc \in {"report", "last"}, index' = index + 1,
             Settled \cup {proc[p].child} \in SUBSET Settled'
      PROVE  index' <= Cardinality(S')
  <2>1. proc[p].child \in Child \ Settled /\ Reach(proc[p].child)
    BY <1>3, ReportCounts DEF WithinReach, Holding
  <2>2. \A c \in Child : Reach(c) => Reach(c)'
    BY <1>1, <1>3, JobFacts DEF Reach
  <2>3. S \cup {proc[p].child} \in SUBSET S'
    BY <1>1, <1>3, <2>1, <2>2
  <2>4. proc[p].child \in Child \ S
    BY <2>1
  <2>5. Cardinality(S) \in Nat /\ Cardinality(S \cup {proc[p].child}) = Cardinality(S) + 1
    BY <1>1, <2>4, ChildSets
  <2>6. Cardinality(S') \in Nat /\ Cardinality(S \cup {proc[p].child}) <= Cardinality(S')
    BY <1>1, <2>3, ChildSets
  <2>7. index <= Cardinality(S)
    BY DEF WithinReach
  <2> QED
    BY <1>1, <1>3, <2>5, <2>6, <2>7
<1> QED
  BY <1>2, <1>3 DEF Counts

\* The invariant of the parallelism, as long as no suspend_until passes.
THEOREM ReachInvariant ==
    ASSUME ~DbErrors, ~LongWaits
    PROVE  Spec => [](JoinInv /\ ReachInv)
<1>1. Init => ReachInv
  <2> SUFFICES ASSUME Init PROVE ReachInv
    OBVIOUS
  <2>1. WaitsForPlace
    BY JobFacts DEF Init, WaitsForPlace, Idle
  <2>2. Winding
    BY JobFacts DEF Init, Winding, InQueue
  <2> QED
    BY <2>1, <2>2 DEF ReachInv
<1>2. JoinInv /\ ReachInv /\ [Next]_vars => ReachInv'
  <2> SUFFICES ASSUME JoinInv, ReachInv, [Next]_vars PROVE ReachInv'
    OBVIOUS
  <2>1. WaitsForPlace'
    BY WaitsForPlaceStep
  <2>2. CASE Pushes
    BY <2>1, <2>2, PushStarts DEF ReachInv
  <2>3. CASE Winding /\ ~Pushes
    BY <2>1, <2>3, WindingStep DEF ReachInv
  <2>4. CASE WithinReach /\ ~Pushes
    <3>1. Counts
      BY CountsStep
    <3>2. index' <= Cardinality({c \in Settled : Reach(c)}')
      BY <2>4, <3>1, ReachCounts
    <3> QED
      BY <2>1, <2>4, <3>2, ReachKeptStep DEF ReachInv, WithinReach, ReachKept
  <2> QED
    BY <2>2, <2>3, <2>4 DEF ReachInv
<1>3. Spec => []JoinInv
  BY JoinInvariant
<1> QED
  BY <1>1, <1>2, <1>3, PTL DEF Spec

\* At most Parallelism children are started and not completed (parallelism of a
\* for-loop), for every number of iterations and of workers, under the same
\* provisos: the child released by report n is the n-th beyond the first
\* Parallelism.
THEOREM ParallelismIsKept ==
    ASSUME ~DbErrors, ~LongWaits
    PROVE  Spec => []BoundedParallelism
<1>1. JoinInv /\ ReachInv => BoundedParallelism
  <2> SUFFICES ASSUME JoinInv, ReachInv PROVE BoundedParallelism
    OBVIOUS
  <2> DEFINE started == {c \in Child \ canceled : Started(c)}
             S == {c \in Settled : Reach(c)}
             R == {c \in Child : Reach(c)}
  <2>1. started \in SUBSET Child /\ S \in SUBSET R /\ R \in SUBSET Child /\ index \in Nat
    BY JobFacts DEF Settled, JoinInv, TypeOK
  <2>2. CASE Winding
    <3>1. started = {}
      BY <2>2 DEF Winding, Started, InQueue
    <3> QED
      BY <3>1, FS_EmptySet, JobFacts DEF BoundedParallelism, Started
  <2>3. CASE WithinReach
    <3>1. started \in SUBSET (R \ S)
      BY <2>3 DEF WithinReach, Started, Settled, Status
    <3>2. Cardinality(R) <= Parallelism + index
      <4>1. R \in SUBSET (1 .. Parallelism + index)
        BY <2>1, JobFacts DEF Reach
      <4>2. /\ IsFiniteSet(1 .. Parallelism + index)
            /\ Cardinality(1 .. Parallelism + index) = Parallelism + index
        BY <2>1, JobFacts, FS_Interval
      <4> QED
        BY <4>1, <4>2, FS_Subset
    <3>3. IsFiniteSet(R) /\ Cardinality(R) \in Nat /\ Cardinality(S) \in Nat
      BY <2>1, ChildSets
    <3>4. Cardinality(R \ S) = Cardinality(R) - Cardinality(R \cap S)
      BY <3>3, FS_Difference
    <3>5. R \cap S = S
      BY <2>1
    <3>6. Cardinality(started) \in Nat /\ Cardinality(R \ S) \in Nat
          /\ Cardinality(started) <= Cardinality(R \ S)
      BY <2>1, <3>1, ChildSets
    <3>7. index <= Cardinality(S)
      BY <2>3 DEF WithinReach
    <3>8. Cardinality(R \ S) = Cardinality(R) - Cardinality(S)
      BY <3>4, <3>5
    <3> HIDE DEF started, S, R
    <3>9. Cardinality(started) <= Parallelism
      BY <2>1, <3>2, <3>3, <3>6, <3>7, <3>8, JobFacts
    <3> QED
      BY <3>9 DEF BoundedParallelism, Started, started
  <2> QED
    BY <2>2, <2>3 DEF ReachInv
<1> QED
  BY <1>1, ReachInvariant, PTL
-----------------------------------------------------------------------------
(* A flow is not forgotten.                                                *)

\* What the monitor can see: a thread that dies leaves a ping or a lock behind, unless it
\* does so between the join and the completion of the flow or is a task of the server.
Watched == ~StartErrors /\ ~UserCancels /\ CrashPoints \cap {"last", "advance", "server"} = {}

\* A flow in the queue has a thread at it, a child that can be pulled or restarted, a task that
\* cancels it, or a ping or a lock for which the monitor cancels it.
NeverForgotten ==
    InQueue(Flow) =>
        \/ row[Flow] = "queued" \/ ping # "null" \/ kills # {}
        \/ \E p \in Proc : proc[p].pc # "idle"
        \/ \E c \in Child : \/ row[c] \in {"queued", "running"}
                            \/ row[c] = "suspended" /\ suspend[c] = 0
                            \/ lock[c] \in {"fresh", "stale"}

\* The types that the steps keep whatever is counted twice.
Record == [pc : Pcs, child : Job, status : Status, done : BOOLEAN, n : Nat]
Typed ==
    /\ row \in [Job -> {"none", "queued", "suspended", "running"} \cup Status] /\ row[Flow] # "suspended"
    /\ suspend \in [Child -> Nat] /\ index \in Nat
    /\ lock \in [Child -> {"none", "null", "fresh", "stale"}]
    /\ proc \in [Proc -> Record]

\* Nobody cancels the flow but the monitor, and then a task has the flow's row.
CancelledByTask == canceled = {} /\ (kills # {} /\ InQueue(Flow) => Flow \in kills)

\* The flow is neither being cancelled nor joined.
Open == InQueue(Flow) /\ kills = {} /\ \A p \in Proc : proc[p].pc \notin {"last", "advance"}
FannedOut == Open /\ module = "InProgress"

PushIsWatched ==
    Open =>
        /\ module \in {"WaitingForPriorSteps", "InProgress"}
        /\ row[Flow] = "queued" =>
              module = "WaitingForPriorSteps" /\ \A p \in Proc : proc[p].pc # "push"
        /\ \A p \in Proc : proc[p].pc = "push" =>
              /\ module = "WaitingForPriorSteps" /\ ping = "fresh"
              /\ \A q \in Proc : proc[q].pc = "push" => p = q
        /\ module = "WaitingForPriorSteps" =>
              /\ Unpushed /\ index = 0 /\ \A c \in Child : lock[c] = "none"
              /\ row[Flow] = "queued" \/ ping # "null"
        /\ module = "InProgress" => \A c \in Child : row[c] # "none"

\* A thread that has a child, from its pull to the end of its report.
Busy(p) == proc[p].pc \in {"run", "complete", "report", "release", "unlock"}

OneThreadEach ==
    Open =>
        /\ \A p \in Proc : Busy(p) =>
              /\ proc[p].child \in Child
              /\ IF proc[p].pc \in {"run", "complete"} THEN row[proc[p].child] = "running"
                 ELSE row[proc[p].child] \in Status
              /\ proc[p].pc = "complete" => proc[p].done
        /\ \A p, q \in Proc : Busy(p) /\ Busy(q) /\ proc[p].child = proc[q].child => p = q

\* The lock is there until the child is completed, and stamped until its report has ended.
LocksWatch ==
    FannedOut /\ Iterations > 1 =>
        /\ \A c \in Child : row[c] \notin Status => lock[c] # "none"
        /\ \A p \in Proc : Busy(p) /\ row[proc[p].child] \in Status =>
              lock[proc[p].child] \in {"fresh", "stale"}

\* The report of a single child has no lock, and is watched by the ping.
PingWatches == FannedOut /\ Iterations = 1 => \A c \in Child : row[c] \in Status => ping # "null"

Places ==
    FannedOut => \A c \in Child :
        row[c] = "suspended" => suspend[c] = 0 \/ suspend[c] + Parallelism = c

\* Children whose report is committed and that leave no lock, and children whose turn has
\* passed without anyone who is about to release them.
Counted == {c \in Child : /\ row[c] \in Status
                          /\ \/ lock[c] \notin {"fresh", "stale"}
                             \/ \E p \in Proc : /\ proc[p].pc \in {"release", "unlock"}
                                                /\ proc[p].child = c}
PassedOver == {c \in Child : /\ row[c] = "suspended" /\ suspend[c] > 0 /\ suspend[c] <= index
                             /\ \A p \in Proc : proc[p].pc = "release" => proc[p].n # suspend[c]}

\* Each of them has a report of its own in the count.
AllAccounted ==
    FannedOut =>
        /\ index < Iterations
        /\ Iterations > 1 => Cardinality(Counted \cup PassedOver) <= index

WatchInv ==
    /\ Typed /\ CancelledByTask /\ PushIsWatched /\ OneThreadEach /\ LocksWatch /\ PingWatches
    /\ Places /\ AllAccounted

\* The fields of a thread, and the records a step makes of one.
LEMMA Records ==
    /\ Idle \in Record /\ Idle.pc = "idle"
    /\ \A t \in Record : t.pc \in Pcs /\ t.child \in Job /\ t.status \in Status
                        /\ t.done \in BOOLEAN /\ t.n \in Nat
    /\ \A t \in Record, x \in Pcs : [t EXCEPT !.pc = x] \in Record
    /\ \A t \in Record, x \in Pcs, s \in Status : [t EXCEPT !.pc = x, !.status = s] \in Record
    /\ \A t \in Record, x \in Pcs, s \in Status, b \in BOOLEAN :
          [t EXCEPT !.pc = x, !.status = s, !.done = b] \in Record
    /\ \A t \in Record, x \in Pcs, n \in Nat : [t EXCEPT !.pc = x, !.n = n] \in Record
    /\ \A t \in Record, x \in Pcs, c \in Job : [t EXCEPT !.pc = x, !.child = c] \in Record
    /\ \A t \in Record, x \in Pcs, c \in Job, s \in Status :
          [t EXCEPT !.pc = x, !.child = c, !.status = s] \in Record
<1>1. Idle \in Record /\ Idle.pc = "idle"
  BY JobFacts DEF Idle, Record, Status, Pcs
<1>2. \A t \in Record : t.pc \in Pcs /\ t.child \in Job /\ t.status \in Status
                        /\ t.done \in BOOLEAN /\ t.n \in Nat
  BY DEF Record
<1>3. \A t \in Record, x \in Pcs : [t EXCEPT !.pc = x] \in Record
  BY DEF Record
<1>4. \A t \in Record, x \in Pcs, s \in Status : [t EXCEPT !.pc = x, !.status = s] \in Record
  BY DEF Record
<1>5. \A t \in Record, x \in Pcs, s \in Status, b \in BOOLEAN :
          [t EXCEPT !.pc = x, !.status = s, !.done = b] \in Record
  BY DEF Record
<1>6. \A t \in Record, x \in Pcs, n \in Nat : [t EXCEPT !.pc = x, !.n = n] \in Record
  BY DEF Record
<1>7. \A t \in Record, x \in Pcs, c \in Job : [t EXCEPT !.pc = x, !.child = c] \in Record
  BY DEF Record
<1>8. \A t \in Record, x \in Pcs, c \in Job, s \in Status :
          [t EXCEPT !.pc = x, !.child = c, !.status = s] \in Record
  BY DEF Record
<1> QED
  BY <1>1, <1>2, <1>3, <1>4, <1>5, <1>6, <1>7, <1>8

\* What a step does to its thread while the flow is open.
Others(p) == \A q \in Proc \ {p} : proc'[q] = proc[q]
Moves(p, from, to) == proc[p].pc \in from /\ proc'[p].pc = to /\ Others(p)

\* The steps move one thread.
LEMMA ThreadMoves ==
    ASSUME Typed, NEW p \in Proc
    PROVE  /\ PullFlow(p) => Moves(p, {"idle"}, "push")
           /\ PushAll(p) => Moves(p, {"push"}, "idle")
           /\ \A c \in Child : Claim(p, c) /\ canceled = {} =>
                 Moves(p, {"idle"}, "run") /\ proc'[p].child = c
           /\ \A s \in Status : FinishChild(p, s) =>
                 Moves(p, {"run"}, "complete") /\ proc'[p].child = proc[p].child /\ proc'[p].done
           /\ CompleteChild(p) /\ InQueue(proc[p].child) =>
                 Moves(p, {"complete"}, "report") /\ proc'[p].child = proc[p].child
           /\ Report(p) /\ InQueue(Flow) /\ ~IsLast(index + 1) =>
                 /\ Moves(p, {"report"}, "release") /\ proc'[p].child = proc[p].child
                 /\ proc'[p].n = index + 1
           /\ Release(p) => Moves(p, {"release"}, "unlock") /\ proc'[p].child = proc[p].child
           /\ Unlock(p) => Moves(p, {"unlock"}, "idle")
           /\ ReportAgain(p) =>
                 Moves(p, {"release", "unlock"}, "report") /\ proc'[p].child = proc[p].child
           /\ Crash(p) => Moves(p, CrashPoints, "idle")
<1>0. proc \in [Proc -> Record] /\ proc[p] \in Record /\ Idle \in Record /\ Idle.pc = "idle"
  BY Records DEF Typed
<1>1. PullFlow(p) => Moves(p, {"idle"}, "push")
  BY <1>0 DEF PullFlow, Moves, Others, Record
<1>2. PushAll(p) => Moves(p, {"push"}, "idle")
  BY <1>0 DEF PushAll, Moves, Others
<1>3. ASSUME NEW c \in Child, Claim(p, c), canceled = {}
      PROVE  Moves(p, {"idle"}, "run") /\ proc'[p].child = c
  <2>1. proc' = [proc EXCEPT ![p] = [Idle EXCEPT !.pc = "run", !.child = c]]
    BY <1>3 DEF Claim
  <2> QED
    BY <1>0, <1>3, <2>1 DEF Claim, Moves, Others, Record
<1>4. ASSUME NEW s \in Status, FinishChild(p, s)
      PROVE  Moves(p, {"run"}, "complete") /\ proc'[p].child = proc[p].child /\ proc'[p].done
  BY <1>0, <1>4 DEF FinishChild, Moves, Others, Record
<1>5. ASSUME CompleteChild(p), InQueue(proc[p].child)
      PROVE  Moves(p, {"complete"}, "report") /\ proc'[p].child = proc[p].child
  BY <1>0, <1>5 DEF CompleteChild, Moves, Others, Record
<1>6. ASSUME Report(p), InQueue(Flow), ~IsLast(index + 1)
      PROVE  /\ Moves(p, {"report"}, "release") /\ proc'[p].child = proc[p].child
             /\ proc'[p].n = index + 1
  <2>1. /\ proc[p].pc = "report"
        /\ proc' = [proc EXCEPT ![p] = [proc[p] EXCEPT !.pc = "release", !.n = index + 1]]
    BY <1>6 DEF Report, Reporting
  <2> QED
    BY <1>0, <2>1 DEF Moves, Others, Record
<1>7. ASSUME Release(p)
      PROVE  Moves(p, {"release"}, "unlock") /\ proc'[p].child = proc[p].child
  BY <1>0, <1>7 DEF Release, Moves, Others, Record
<1>8. Unlock(p) => Moves(p, {"unlock"}, "idle")
  BY <1>0 DEF Unlock, Moves, Others
<1>9. ASSUME ReportAgain(p)
      PROVE  Moves(p, {"release", "unlock"}, "report") /\ proc'[p].child = proc[p].child
  BY <1>0, <1>9 DEF ReportAgain, Moves, Others, Record
<1>10. Crash(p) => Moves(p, CrashPoints, "idle")
  BY <1>0 DEF Crash, Moves, Others
<1> QED
  BY <1>1, <1>2, <1>3, <1>4, <1>5, <1>6, <1>7, <1>8, <1>9, <1>10

\* Types, whatever is counted twice.
LEMMA TypedStep ==
    ASSUME Typed, [Next]_vars
    PROVE  Typed'
<1> USE DEF Typed
<1>0. {"idle", "push", "run", "complete", "report", "last", "release", "unlock", "advance"} \subseteq Pcs
      /\ {"success", "failure", "canceled"} \subseteq Status /\ "suspended" \notin Status
  BY DEF Pcs, Status
<1>1. ASSUME NEW p \in Proc, PullFlow(p) PROVE Typed'
  BY <1>0, <1>1, JobFacts, Records DEF PullFlow
<1>2. ASSUME NEW p \in Proc, PushAll(p) PROVE Typed'
  <2>1. suspend' \in [Child -> Nat]
    BY <1>2, JobFacts DEF PushAll, SuspendOf
  <2> QED
    BY <1>2, <2>1, JobFacts, Records DEF PushAll
<1>3. ASSUME NEW p \in Proc, PushFails(p) PROVE Typed'
  BY <1>0, <1>3, JobFacts, Records DEF PushFails
<1>4. ASSUME NEW p \in Proc, NEW c \in Child, Claim(p, c) PROVE Typed'
  BY <1>0, <1>4, JobFacts, Records DEF Claim
<1>5. ASSUME NEW p \in Proc, FailToStart(p) PROVE Typed'
  BY <1>0, <1>5, JobFacts, Records DEF FailToStart
<1>6. ASSUME NEW p \in Proc, NEW s \in Status, FinishChild(p, s) PROVE Typed'
  BY <1>0, <1>6, JobFacts, Records DEF FinishChild
<1>7. ASSUME NEW p \in Proc, CompleteChild(p) PROVE Typed'
  <2>1. [proc[p] EXCEPT !.pc = "report"] \in Record /\ proc[p].status \in Status
    BY <1>0, Records
  <2>2. row' = row \/ row' = [row EXCEPT ![proc[p].child] = proc[p].status]
    BY <1>7 DEF CompleteChild
  <2>3. row' \in [Job -> {"none", "queued", "suspended", "running"} \cup Status] /\ row'[Flow] # "suspended"
    BY <1>0, <2>1, <2>2, JobFacts
  <2> QED
    BY <1>7, <2>1, <2>3, Records DEF CompleteChild, StampLock
<1>8. ASSUME NEW p \in Proc, Report(p) PROVE Typed'
  <2>1. index + 1 \in Nat
    OBVIOUS
  <2>2. /\ [proc[p] EXCEPT !.pc = "last", !.n = index + 1] \in Record
        /\ [proc[p] EXCEPT !.pc = "release", !.n = index + 1] \in Record
    BY <1>0, <2>1, Records
  <2> QED
    BY <1>8, <2>1, <2>2, Records DEF Report
<1>9. ASSUME NEW p \in Proc, LateReport(p) PROVE Typed'
  <2>1. \A s \in Status : [proc[p] EXCEPT !.pc = "advance", !.status = s] \in Record
    BY <1>0, Records
  <2>2. PICK s \in Status : proc' = [proc EXCEPT ![p] = [proc[p] EXCEPT !.pc = "advance", !.status = s]]
    BY <1>0, <1>9 DEF LateReport
  <2>3. proc' \in [Proc -> Record]
    BY <2>1, <2>2
  <2> QED
    BY <1>9, <2>3 DEF LateReport
<1>10. ASSUME NEW p \in Proc, Release(p) PROVE Typed'
  BY <1>0, <1>10, JobFacts, Records DEF Release
<1>11. ASSUME NEW p \in Proc, Unlock(p) PROVE Typed'
  BY <1>11, JobFacts, Records DEF Unlock
<1>12. ASSUME NEW p \in Proc, CommitLast(p) PROVE Typed'
  BY <1>0, <1>12, JobFacts, Records DEF CommitLast
<1>13. ASSUME NEW p \in Proc, FinishFlow(p) PROVE Typed'
  BY <1>0, <1>13, JobFacts, Records DEF FinishFlow
<1>14. ASSUME NEW p \in Proc, Crash(p) PROVE Typed'
  BY <1>14, JobFacts, Records DEF Crash
<1>15. ASSUME NEW j \in Job, KillJob(j) PROVE Typed'
  BY <1>0, <1>15, JobFacts, Records DEF KillJob
<1>16. ASSUME NEW c \in Child, RestartChild(c) PROVE Typed'
  BY <1>16, JobFacts, Records DEF RestartChild
<1>17. ASSUME HandleZombieFlow PROVE Typed'
  BY <1>17, JobFacts, Records DEF HandleZombieFlow
<1>18. ASSUME Aside PROVE Typed'
  BY <1>18, JobFacts DEF Aside, DropLocks, Cancel, ZombieChild, LockExpires, HandleZombieLock, CrashServer,
     PingExpires, vars
<1>19. ASSUME NEW p \in Proc, ReportAgain(p) PROVE Typed'
  BY <1>0, <1>19, JobFacts, Records DEF ReportAgain
<1> QED
  BY <1>1, <1>2, <1>3, <1>4, <1>5, <1>6, <1>7, <1>8, <1>9, <1>10, <1>11, <1>12, <1>13,
     <1>14, <1>15, <1>16, <1>17, <1>18, <1>19 DEF Next, ThreadStep, PullChild, PullExpired, Aside

\* The steps that leave the flow open.
OpenStep ==
    \/ \E p \in Proc :
          \/ PullFlow(p) \/ PushAll(p) \/ CompleteChild(p) \/ Release(p) \/ Unlock(p)
          \/ Report(p) /\ InQueue(Flow) /\ ~IsLast(index + 1)
          \/ ReportAgain(p) \/ Crash(p)
          \/ \E c \in Child : row[c] \in {"queued", "suspended"} /\ Claim(p, c)
          \/ \E s \in Status : FinishChild(p, s)
    \/ \E c \in Child : RestartChild(c) \/ LockExpires(c)
    \/ PingExpires \/ (HandleZombieFlow /\ module = "WaitingForPriorSteps")
    \/ UNCHANGED vars

\* A row of the flow leaves the queue for good.
LEMMA FlowLeaves ==
    ASSUME Typed, [Next]_vars, InQueue(Flow)'
    PROVE  InQueue(Flow)
<1> SUFFICES ASSUME ~InQueue(Flow) PROVE row'[Flow] = row[Flow]
  BY DEF InQueue
<1>1. row \in [Job -> {"none", "queued", "suspended", "running"} \cup Status]
      /\ row[Flow] # "queued" /\ row[Flow] # "running"
  BY JobFacts DEF Typed, InQueue
<1>2. \A p \in Proc : PullFlow(p) \/ PushAll(p) \/ (\E c \in Child : Claim(p, c))
                      \/ FinishFlow(p) \/ CompleteChild(p) => row'[Flow] = row[Flow]
  <2>1. \A p \in Proc : CompleteChild(p) => row'[Flow] = row[Flow]
    BY <1>1, JobFacts DEF CompleteChild
  <2> QED
    BY <1>1, <2>1, JobFacts DEF PullFlow, PushAll, Claim, FinishFlow, InQueue
<1>3. (\E j \in Job : KillJob(j)) \/ HandleZombieFlow \/ (\E c \in Child : RestartChild(c))
         => row'[Flow] = row[Flow]
  BY <1>1, JobFacts DEF KillJob, HandleZombieFlow, RestartChild, InQueue
<1> QED
  BY <1>2, <1>3 DEF Next, ThreadStep, PullChild, PullExpired, PushFails, ReportAgain, Crash, FailToStart,
     FinishChild, Report, LateReport, Release, Unlock, DropLocks, CommitLast, Cancel, ZombieChild,
     LockExpires, HandleZombieLock, CrashServer, PingExpires, vars

\* A cancel has the flow's row as long as it is in the queue.
LEMMA CancelledStep ==
    ASSUME Watched, Typed, CancelledByTask, [Next]_vars
    PROVE  CancelledByTask'
<1>1. InQueue(Flow)' => InQueue(Flow)
  BY FlowLeaves
<1>2. canceled' = {}
  BY DEF CancelledByTask, Watched, Next, ThreadStep, PullFlow, PushAll, PullChild, PullExpired, Claim,
     PushFails, ReportAgain, Crash, FailToStart, FinishChild, CompleteChild, Report, LateReport,
     Release, Unlock, DropLocks, CommitLast, FinishFlow, Cancel, KillJob, RestartChild, ZombieChild,
     LockExpires, HandleZombieLock, CrashServer, PingExpires, HandleZombieFlow, vars
<1>3. \/ kills' = kills
      \/ kills' = {j \in Job : InQueue(j)}
      \/ \E j \in Job : KillJob(j)
  BY DEF Watched, Next, ThreadStep, PullFlow, PushAll, PullChild, PullExpired, Claim,
     PushFails, ReportAgain, Crash, FailToStart, FinishChild, CompleteChild, Report, LateReport,
     Release, Unlock, DropLocks, CommitLast, FinishFlow, Cancel, RestartChild, ZombieChild, KillTree,
     LockExpires, HandleZombieLock, CrashServer, PingExpires, HandleZombieFlow, vars
<1>4. CASE kills' = kills \/ kills' = {j \in Job : InQueue(j)}
  BY <1>1, <1>2, <1>4, JobFacts DEF CancelledByTask
<1>5. ASSUME NEW j \in Job, KillJob(j) PROVE CancelledByTask'
  <2>1. j = Flow => ~InQueue(Flow)'
    BY <1>5, JobFacts DEF KillJob, Typed, InQueue, Status
  <2>2. kills' = kills \ {j}
    BY <1>5 DEF KillJob
  <2> QED
    BY <1>1, <1>2, <2>1, <2>2 DEF CancelledByTask
<1> QED
  BY <1>3, <1>4, <1>5

\* A flow that is open was so before, and no step is taken that cancels or joins it.
LEMMA OpenSteps ==
    ASSUME Watched, WatchInv, [Next]_vars, Open'
    PROVE  Open /\ OpenStep
<1> USE DEF WatchInv
<1>1. InQueue(Flow) /\ Typed'
  BY FlowLeaves, TypedStep DEF Open
<1>2. kills = {}
  <2>1. SUFFICES ASSUME Flow \in kills PROVE FALSE
    BY <1>1 DEF CancelledByTask
  <2>2. kills' = {} /\ kills' # {j \in Job : InQueue(j)}
    BY <1>1, JobFacts DEF Open
  <2>3. PICK j \in Job : KillJob(j)
    BY <2>1, <2>2 DEF Watched, Next, ThreadStep, PullFlow, PushAll, PullChild, PullExpired, Claim,
     PushFails, ReportAgain, Crash, FailToStart, FinishChild, CompleteChild, Report, LateReport,
     Release, Unlock, DropLocks, CommitLast, FinishFlow, Cancel, RestartChild, ZombieChild, KillTree,
     LockExpires, HandleZombieLock, CrashServer, PingExpires, HandleZombieFlow, vars
  <2>4. kills' = kills \ {j}
    BY <2>3 DEF KillJob
  <2>5. j = Flow
    BY <2>1, <2>2, <2>4
  <2>6. row'[Flow] = "canceled"
    BY <1>1, <2>3, <2>5, JobFacts DEF KillJob, Typed
  <2> QED
    BY <2>6 DEF Open, InQueue
<1>3. /\ proc \in [Proc -> Record] /\ row \in [Job -> {"none", "queued", "suspended", "running"} \cup Status]
      /\ \A p \in Proc : proc[p].status \in Status
  BY Records DEF Typed
<1>4. kills' # {j \in Job : InQueue(j)}
  BY <1>1, JobFacts DEF Open
<1>5. ASSUME NEW p \in Proc PROVE ~FinishFlow(p) /\ ~CommitLast(p) /\ ~DropLocks(p)
  <2>1. ~FinishFlow(p)
    <3>1. SUFFICES ASSUME FinishFlow(p) PROVE FALSE
      OBVIOUS
    <3>2. row'[Flow] \in Status
      BY <1>1, <1>3, <3>1, JobFacts DEF FinishFlow
    <3> QED
      BY <3>2 DEF Open, InQueue, Status
  <2>2. ~CommitLast(p)
    <3>1. SUFFICES ASSUME CommitLast(p) PROVE FALSE
      OBVIOUS
    <3>2. PICK s : proc' = [proc EXCEPT ![p] = [proc[p] EXCEPT !.pc = "advance", !.status = s]]
      BY <3>1 DEF CommitLast
    <3> QED
      BY <1>3, <3>2 DEF Open, Record
  <2>3. ~DropLocks(p)
    BY DEF DropLocks, Open
  <2> QED
    BY <2>1, <2>2, <2>3
<1>6. ASSUME NEW p \in Proc
      PROVE  /\ ~PushFails(p) /\ ~LateReport(p) /\ ~FailToStart(p)
             /\ Report(p) => InQueue(Flow) /\ ~IsLast(index + 1)
  <2>1. ~PushFails(p)
    <3>1. SUFFICES ASSUME PushFails(p) PROVE FALSE
      OBVIOUS
    <3>2. PICK s : proc' = [proc EXCEPT ![p] = [Idle EXCEPT !.pc = "advance", !.status = s]]
      BY <3>1 DEF PushFails
    <3>3. proc'[p].pc = "advance"
      BY <1>3, <3>2, Records DEF Idle
    <3> QED
      BY <3>3 DEF Open
  <2>2. ~LateReport(p)
    <3>1. SUFFICES ASSUME LateReport(p) PROVE FALSE
      OBVIOUS
    <3>2. PICK s : proc' = [proc EXCEPT ![p] = [proc[p] EXCEPT !.pc = "advance", !.status = s]]
      BY <3>1 DEF LateReport
    <3>3. proc'[p].pc = "advance"
      BY <1>3, <3>2 DEF Record
    <3> QED
      BY <3>3 DEF Open
  <2>3. Report(p) => InQueue(Flow) /\ ~IsLast(index + 1)
    BY <1>1, <1>3 DEF Report, Open, Record
  <2> QED
    BY <2>1, <2>2, <2>3 DEF FailToStart, Watched
<1>7. (\A j \in Job : ~KillJob(j)) /\ (\A force \in BOOLEAN : ~Cancel(force)) /\ ~CrashServer
  BY <1>2 DEF KillJob, Cancel, CrashServer, Watched
<1>8. /\ \A c \in Child : ~ZombieChild(c)
      /\ HandleZombieFlow => module = "WaitingForPriorSteps"
  BY <1>4 DEF ZombieChild, HandleZombieFlow, KillTree
<1>9. ASSUME NEW c \in Child PROVE ~HandleZombieLock(c)
  <2>1. SUFFICES ASSUME HandleZombieLock(c) PROVE FALSE
    OBVIOUS
  <2>2. Open /\ row[Flow] # "running" /\ lock[c] = "stale"
    BY <1>1, <1>2, <1>4, <2>1 DEF HandleZombieLock, Open, KillTree, CancelledByTask
  <2>3. row[Flow] = "queued"
    BY <1>1, <2>2 DEF InQueue, Typed
  <2> QED
    BY <2>2, <2>3 DEF PushIsWatched
<1>10. OpenStep
  BY <1>5, <1>6, <1>7, <1>8, <1>9 DEF OpenStep, Next, ThreadStep, PullChild, PullExpired
<1>11. \A p \in Proc : proc[p].pc \notin {"last", "advance"}
  <2>1. SUFFICES ASSUME NEW p \in Proc, proc[p].pc \in {"last", "advance"} PROVE proc'[p] = proc[p]
    BY DEF Open
  <2>2. ASSUME NEW q \in Proc, NEW from, NEW to, Moves(q, from, to),
               \/ from \subseteq {"idle", "push", "run", "complete", "report", "release", "unlock"}
               \/ from = CrashPoints
        PROVE  proc'[p] = proc[p]
    BY <2>1, <2>2 DEF Moves, Others, Watched
  <2>3. \A q \in Proc : ReportAgain(q) \/ Crash(q) \/ PullFlow(q) \/ PushAll(q) \/ Release(q) \/ Unlock(q)
                        => proc'[p] = proc[p]
    BY <2>2, ThreadMoves
  <2>4. \A q \in Proc : (Report(q) /\ InQueue(Flow) /\ ~IsLast(index + 1))
                        \/ (\E c \in Child : Claim(q, c)) \/ (\E s \in Status : FinishChild(q, s))
                        => proc'[p] = proc[p]
    BY <2>2, ThreadMoves DEF CancelledByTask
  <2>5. \A q \in Proc : CompleteChild(q) => proc'[p] = proc[p]
    BY <1>3, <2>1 DEF CompleteChild
  <2> QED
    BY <1>10, <2>3, <2>4, <2>5 DEF OpenStep, RestartChild, LockExpires, PingExpires, HandleZombieFlow, vars
<1> QED
  BY <1>1, <1>2, <1>10, <1>11 DEF Open

\* What the steps of an open flow change: the rows, and the threads as ThreadMoves says.
LEMMA OpenRows ==
    ASSUME WatchInv, Open, OpenStep
    PROVE  /\ \A p \in Proc : CompleteChild(p) =>
                 /\ InQueue(proc[p].child) /\ row'[proc[p].child] \in Status
                 /\ \A j \in Job \ {proc[p].child} : row'[j] = row[j]
                 /\ lock[proc[p].child] # "none" => lock'[proc[p].child] = "fresh"
                 /\ \A c \in Child \ {proc[p].child} : lock'[c] = lock[c]
                 /\ ping' = "fresh"
           /\ \A p \in Proc, c \in Child : Claim(p, c) =>
                 row'[c] = "running" /\ \A j \in Job \ {c} : row'[j] = row[j]
<1> USE DEF WatchInv
<1>1. row \in [Job -> {"none", "queued", "suspended", "running"} \cup Status]
      /\ lock \in [Child -> {"none", "null", "fresh", "stale"}]
  BY DEF Typed
<1>2. ASSUME NEW p \in Proc, CompleteChild(p)
      PROVE  /\ InQueue(proc[p].child) /\ row'[proc[p].child] \in Status
             /\ \A j \in Job \ {proc[p].child} : row'[j] = row[j]
             /\ lock[proc[p].child] # "none" => lock'[proc[p].child] = "fresh"
             /\ \A c \in Child \ {proc[p].child} : lock'[c] = lock[c]
             /\ ping' = "fresh"
  <2>1. proc[p].child \in Child /\ row[proc[p].child] = "running" /\ proc[p].done /\ proc[p].status \in Status
    BY <1>2, Records DEF CompleteChild, OneThreadEach, Busy, Typed
  <2>2. InQueue(proc[p].child)
    BY <2>1 DEF InQueue
  <2>3. /\ row' = [row EXCEPT ![proc[p].child] = proc[p].status]
        /\ PingParent /\ StampLock(proc[p].child, proc[p].done)
    BY <1>2, <2>2 DEF CompleteChild
  <2>4. ping' = "fresh"
    BY <2>3 DEF PingParent, Open, CancelledByTask
  <2> QED
    BY <1>1, <2>1, <2>2, <2>3, <2>4, JobFacts DEF StampLock
<1>3. ASSUME NEW p \in Proc, NEW c \in Child, Claim(p, c)
      PROVE  row'[c] = "running" /\ \A j \in Job \ {c} : row'[j] = row[j]
  BY <1>1, <1>3, JobFacts DEF Claim
<1> QED
  BY <1>2, <1>3

\* The push is watched by the ping.
LEMMA PushIsWatchedStep ==
    ASSUME Watched, WatchInv, [Next]_vars
    PROVE  PushIsWatched'
<1> SUFFICES ASSUME Open' PROVE PushIsWatched'
  BY DEF PushIsWatched
<1> USE DEF WatchInv
<1>0. /\ Open /\ OpenStep /\ PushIsWatched /\ Flow \in Job /\ InQueue(Flow) /\ InQueue(Flow)'
      /\ row \in [Job -> {"none", "queued", "suspended", "running"} \cup Status]
      /\ lock \in [Child -> {"none", "null", "fresh", "stale"}]
      /\ \A c \in Child : c \in Job /\ c # Flow
  BY OpenSteps, JobFacts DEF Open, Typed
<1>f. /\ row[Flow] \in {"queued", "running"} /\ "none" \notin Status
      /\ "queued" \notin Status /\ "running" \notin Status
  BY <1>0 DEF InQueue, Typed, Status
<1>1. ASSUME NEW p \in Proc, PullFlow(p) PROVE PushIsWatched'
  BY <1>0, <1>1, ThreadMoves DEF PullFlow, PushIsWatched, Moves, Others, Unpushed
<1>2. ASSUME NEW p \in Proc, PushAll(p) PROVE PushIsWatched'
  <2>1. /\ module' = "InProgress" /\ row'[Flow] = row[Flow] /\ row[Flow] # "queued"
        /\ \A c \in Child : row'[c] \in {"suspended", "queued"}
    BY <1>0, <1>2 DEF PushAll, PushIsWatched
  <2>2. \A q \in Proc : proc'[q].pc # "push"
    BY <1>0, <1>2, ThreadMoves DEF PushIsWatched, Moves, Others
  <2> QED
    BY <2>1, <2>2 DEF PushIsWatched
<1>3. ASSUME NEW p \in Proc, NEW c \in Child, row[c] \in {"queued", "suspended"}, Claim(p, c)
      PROVE  PushIsWatched'
  <2>1. module = "InProgress" /\ UNCHANGED <<module, index, lock, ping>>
    BY <1>0, <1>3 DEF Claim, PushIsWatched, Unpushed
  <2>2. row'[Flow] = row[Flow] /\ \A d \in Child : row'[d] # "none"
    BY <1>0, <1>3, <2>1, OpenRows DEF PushIsWatched
  <2>3. \A q \in Proc : proc'[q].pc # "push"
    BY <1>0, <1>3, <2>1, ThreadMoves DEF PushIsWatched, Moves, Others, CancelledByTask
  <2> QED
    BY <1>0, <2>1, <2>2, <2>3 DEF PushIsWatched
<1>4. ASSUME NEW p \in Proc, CompleteChild(p) PROVE PushIsWatched'
  <2>1. /\ InQueue(proc[p].child) /\ proc[p].child \in Child /\ UNCHANGED <<module, index>>
        /\ \A j \in Job \ {proc[p].child} : row'[j] = row[j]
        /\ row'[proc[p].child] \in Status
    BY <1>0, <1>4, OpenRows DEF CompleteChild, OneThreadEach, Busy
  <2>2. module = "InProgress"
    BY <1>0, <2>1 DEF PushIsWatched, Unpushed, InQueue
  <2>3. row'[Flow] = row[Flow] /\ \A d \in Child : row'[d] # "none"
    BY <1>0, <1>f, <2>1, <2>2 DEF PushIsWatched
  <2>4. \A q \in Proc : proc'[q].pc # "push"
    BY <1>0, <1>4, <2>1, <2>2, ThreadMoves DEF PushIsWatched, Moves, Others
  <2> QED
    BY <1>0, <2>1, <2>2, <2>3, <2>4 DEF PushIsWatched
<1>6. ASSUME NEW p \in Proc,
             Release(p) \/ ReportAgain(p) \/ Crash(p) \/ \E s \in Status : FinishChild(p, s)
      PROVE  PushIsWatched'
  <2>1. UNCHANGED <<row, ping, module, index, lock>>
    BY <1>6 DEF Release, ReportAgain, Crash, FinishChild
  <2>2. \A q \in Proc : proc'[q].pc = "push" => proc[q].pc = "push"
    BY <1>6, ThreadMoves DEF Moves, Others
  <2> QED
    BY <1>0, <2>1, <2>2 DEF PushIsWatched, Unpushed
<1>7. ASSUME NEW p \in Proc, Unlock(p) \/ (Report(p) /\ InQueue(Flow) /\ ~IsLast(index + 1))
      PROVE  PushIsWatched'
  <2>1. UNCHANGED <<row, module>>
    BY <1>7 DEF Report, Unlock
  <2>2. module = "InProgress"
    <3>1. CASE Report(p) /\ InQueue(Flow)
      BY <3>1 DEF Report
    <3>2. CASE Unlock(p)
      BY <1>0, <1>f, <3>2 DEF Unlock, OneThreadEach, Busy, PushIsWatched, Unpushed
    <3> QED
      BY <1>7, <3>1, <3>2
  <2>3. \A q \in Proc : proc'[q].pc # "push"
    BY <1>0, <1>7, <2>2, ThreadMoves DEF PushIsWatched, Moves, Others
  <2> QED
    BY <1>0, <2>1, <2>2, <2>3 DEF PushIsWatched
<1>8. ASSUME NEW c \in Child, RestartChild(c) PROVE PushIsWatched'
  <2>1. /\ module = "InProgress" /\ UNCHANGED <<module, index, lock, ping, proc>>
        /\ row'[Flow] = row[Flow] /\ \A d \in Child : row'[d] # "none"
    BY <1>0, <1>8 DEF RestartChild, PushIsWatched, Unpushed
  <2> QED
    BY <1>0, <2>1 DEF PushIsWatched
<1>9. ASSUME NEW c \in Child, LockExpires(c) PROVE PushIsWatched'
  BY <1>0, <1>9 DEF LockExpires, PushIsWatched, Unpushed
<1>10. ASSUME PingExpires PROVE PushIsWatched'
  BY <1>0, <1>10 DEF PingExpires, FlowHeld, PushIsWatched, Unpushed
<1>11. ASSUME HandleZombieFlow, module = "WaitingForPriorSteps" PROVE PushIsWatched'
  <2>1. /\ row' = [row EXCEPT ![Flow] = "queued"] /\ ping = "stale"
        /\ UNCHANGED <<ping, module, index, lock, proc>>
    BY <1>11 DEF HandleZombieFlow
  <2>2. row'[Flow] = "queued" /\ \A c \in Child : row'[c] = row[c]
    BY <1>0, <2>1
  <2>3. \A q \in Proc : proc[q].pc # "push"
    BY <1>0, <2>1 DEF PushIsWatched
  <2> QED
    BY <1>0, <1>11, <2>1, <2>2, <2>3 DEF PushIsWatched, Unpushed
<1>12. ASSUME UNCHANGED vars PROVE PushIsWatched'
  BY <1>0, <1>12 DEF vars, PushIsWatched, Unpushed
<1> QED
  BY <1>0, <1>1, <1>2, <1>3, <1>4, <1>6, <1>7, <1>8, <1>9, <1>10, <1>11, <1>12 DEF OpenStep

\* A child has one thread, from its pull to the end of its report.
LEMMA OneThreadEachStep ==
    ASSUME Watched, WatchInv, [Next]_vars
    PROVE  OneThreadEach'
<1> SUFFICES ASSUME Open' PROVE OneThreadEach'
  BY DEF OneThreadEach
<1> USE DEF WatchInv
<1>0. /\ Open /\ OpenStep /\ row \in [Job -> {"none", "queued", "suspended", "running"} \cup Status]
      /\ \A c \in Child : c \in Job /\ c # Flow
      /\ "none" \notin Status /\ "queued" \notin Status /\ "suspended" \notin Status
      /\ \A p \in Proc : Busy(p) =>
            /\ proc[p].child \in Child
            /\ IF proc[p].pc \in {"run", "complete"} THEN row[proc[p].child] = "running"
               ELSE row[proc[p].child] \in Status
            /\ proc[p].pc = "complete" => proc[p].done
      /\ \A p, q \in Proc : Busy(p) /\ Busy(q) /\ proc[p].child = proc[q].child => p = q
  BY OpenSteps, JobFacts DEF Typed, OneThreadEach, Status
<1>q. ASSUME \A q \in Proc : Busy(q)' => proc'[q] = proc[q] /\ row'[proc[q].child] = row[proc[q].child]
      PROVE  OneThreadEach'
  BY <1>0, <1>q DEF OneThreadEach, Busy
<1>1. ASSUME NEW p \in Proc, PullFlow(p) \/ PushAll(p) PROVE OneThreadEach'
  <2>1. ~Busy(p)' /\ Others(p)
    BY <1>1, ThreadMoves DEF Moves, Busy
  <2>2. ASSUME NEW q \in Proc, Busy(q)' PROVE Busy(q) /\ proc'[q] = proc[q]
    BY <2>1, <2>2 DEF Others, Busy
  <2>3. CASE PullFlow(p)
    BY <1>0, <1>q, <2>2, <2>3 DEF PullFlow
  <2>4. CASE PushAll(p)
    <3>1. Unpushed
      BY <1>0, <2>4 DEF PushAll, PushIsWatched
    <3> QED
      BY <1>0, <1>q, <2>2, <3>1 DEF Unpushed
  <2> QED
    BY <1>1, <2>3, <2>4
<1>2. ASSUME NEW p \in Proc, NEW c \in Child, row[c] \in {"queued", "suspended"}, Claim(p, c)
      PROVE  OneThreadEach'
  <2>1. Moves(p, {"idle"}, "run") /\ proc'[p].child = c
    BY <1>2, ThreadMoves DEF CancelledByTask
  <2>2. row'[c] = "running" /\ \A j \in Job \ {c} : row'[j] = row[j]
    BY <1>0, <1>2, OpenRows
  <2>3. \A q \in Proc \ {p} : Busy(q)' => Busy(q) /\ proc'[q] = proc[q] /\ proc[q].child # c
    BY <1>0, <1>2, <2>1 DEF Moves, Others, Busy
  <2> QED
    BY <1>0, <2>1, <2>2, <2>3 DEF OneThreadEach, Moves, Busy
<1>3. ASSUME NEW p \in Proc, CompleteChild(p) PROVE OneThreadEach'
  <2>1. /\ row'[proc[p].child] \in Status /\ \A j \in Job \ {proc[p].child} : row'[j] = row[j]
        /\ InQueue(proc[p].child)
    BY <1>0, <1>3, OpenRows
  <2>2. Moves(p, {"complete"}, "report") /\ proc'[p].child = proc[p].child
    BY <1>3, <2>1, ThreadMoves
  <2>3. \A q \in Proc \ {p} : Busy(q)' => Busy(q) /\ proc'[q] = proc[q] /\ proc[q].child # proc[p].child
    BY <1>0, <2>2 DEF Moves, Others, Busy
  <2>4. Busy(p)
    BY <2>2 DEF Moves, Busy
  <2> QED
    BY <1>0, <2>1, <2>2, <2>3, <2>4 DEF OneThreadEach, Moves, Busy
<1>4. ASSUME NEW p \in Proc, NEW s \in Status, FinishChild(p, s) PROVE OneThreadEach'
  <2>1. Moves(p, {"run"}, "complete") /\ proc'[p].child = proc[p].child /\ proc'[p].done /\ row' = row
    BY <1>4, ThreadMoves DEF FinishChild
  <2>2. \A q \in Proc \ {p} : Busy(q)' => Busy(q) /\ proc'[q] = proc[q] /\ proc[q].child # proc[p].child
    BY <1>0, <2>1 DEF Moves, Others, Busy
  <2>3. Busy(p)
    BY <2>1 DEF Moves, Busy
  <2> QED
    BY <1>0, <2>1, <2>2, <2>3 DEF OneThreadEach, Moves, Busy
<1>5. ASSUME NEW p \in Proc,
             Release(p) \/ ReportAgain(p) \/ (Report(p) /\ InQueue(Flow) /\ ~IsLast(index + 1))
      PROVE  OneThreadEach'
  <2>1. /\ proc[p].pc \in {"report", "release", "unlock"} /\ proc'[p].pc \in {"report", "release", "unlock"}
        /\ proc'[p].child = proc[p].child /\ Others(p)
    BY <1>5, ThreadMoves DEF Moves
  <2>2. row' = row
    BY <1>5 DEF Release, ReportAgain, Report
  <2>3. \A q \in Proc \ {p} : Busy(q)' => Busy(q) /\ proc'[q] = proc[q] /\ proc[q].child # proc[p].child
    BY <1>0, <2>1 DEF Others, Busy
  <2>4. Busy(p)
    BY <2>1 DEF Busy
  <2> QED
    BY <1>0, <2>1, <2>2, <2>3, <2>4 DEF OneThreadEach, Busy
<1>6. ASSUME NEW p \in Proc, Unlock(p) \/ Crash(p) PROVE OneThreadEach'
  <2>1. ~Busy(p)' /\ Others(p) /\ row' = row
    BY <1>6, ThreadMoves DEF Moves, Busy, Unlock, Crash
  <2> QED
    BY <1>q, <2>1 DEF Others
<1>7. ASSUME NEW c \in Child, RestartChild(c) PROVE OneThreadEach'
  <2>1. proc' = proc /\ ~ChildHeld(c) /\ row' = [row EXCEPT ![c] = "queued"]
    BY <1>7 DEF RestartChild
  <2>2. \A q \in Proc : Busy(q)' => proc[q].child # c
    BY <2>1 DEF ChildHeld, Busy
  <2> QED
    BY <1>0, <1>q, <2>1, <2>2
<1>8. ASSUME HandleZombieFlow, module = "WaitingForPriorSteps" PROVE OneThreadEach'
  <2>1. proc' = proc /\ row' = [row EXCEPT ![Flow] = "queued"]
    BY <1>8 DEF HandleZombieFlow
  <2> QED
    BY <1>0, <1>q, <2>1 DEF Busy
<1>9. ASSUME PingExpires \/ UNCHANGED vars \/ \E c \in Child : LockExpires(c) PROVE OneThreadEach'
  BY <1>q, <1>9 DEF PingExpires, LockExpires, vars
<1> QED
  BY <1>0, <1>1, <1>2, <1>3, <1>4, <1>5, <1>6, <1>7, <1>8, <1>9 DEF OpenStep

\* A child that is not completed has its lock, and a report that is under way has stamped it.
LEMMA LocksWatchStep ==
    ASSUME Watched, WatchInv, [Next]_vars
    PROVE  LocksWatch'
<1> SUFFICES ASSUME FannedOut', Iterations > 1 PROVE LocksWatch'
  BY DEF LocksWatch
<1> USE DEF WatchInv
<1>0. /\ Open /\ OpenStep /\ row \in [Job -> {"none", "queued", "suspended", "running"} \cup Status]
      /\ lock \in [Child -> {"none", "null", "fresh", "stale"}]
      /\ \A c \in Child : c \in Job /\ c # Flow
      /\ "running" \notin Status
  BY OpenSteps, JobFacts DEF Typed, FannedOut, Status
<1>t. ASSUME ~\E p \in Proc : PushAll(p)
      PROVE  /\ module = "InProgress"
             /\ \A c \in Child : row[c] \notin Status => lock[c] # "none"
             /\ \A p \in Proc : Busy(p) /\ row[proc[p].child] \in Status =>
                   lock[proc[p].child] \in {"fresh", "stale"}
             /\ \A p \in Proc : Busy(p) => proc[p].child \in Child
  <2>1. module' = "InProgress"
    BY DEF FannedOut
  <2>2. module = "InProgress"
    BY <1>0, <1>t, <2>1 DEF OpenStep, PullFlow, CompleteChild, Release, Unlock, Report, ReportAgain, Crash,
       Claim, FinishChild, RestartChild, LockExpires, PingExpires, HandleZombieFlow, vars
  <2> QED
    BY <1>0, <2>2 DEF LocksWatch, FannedOut, OneThreadEach
<1>1. ASSUME NEW p \in Proc, PushAll(p) PROVE LocksWatch'
  <2>1. \A c \in Child : lock'[c] = "null"
    BY <1>1 DEF PushAll
  <2>2. Unpushed
    BY <1>0, <1>1 DEF PushAll, PushIsWatched
  <2>3. \A q \in Proc : ~Busy(q)
    BY <1>0, <2>2 DEF Unpushed, OneThreadEach, Status
  <2>4. \A q \in Proc : ~Busy(q)'
    BY <1>1, <2>3, ThreadMoves DEF Moves, Others, Busy
  <2> QED
    BY <2>1, <2>4 DEF LocksWatch
<1>2. ASSUME NEW p \in Proc, CompleteChild(p) PROVE LocksWatch'
  <2>1. ~\E q \in Proc : PushAll(q)
    BY <1>0, <1>2, OpenRows, JobFacts DEF PushAll, OneThreadEach, Busy, CompleteChild, PushIsWatched,
       Unpushed, InQueue
  <2>2. /\ row'[proc[p].child] \in Status /\ \A j \in Job \ {proc[p].child} : row'[j] = row[j]
        /\ InQueue(proc[p].child)
        /\ lock[proc[p].child] # "none" => lock'[proc[p].child] = "fresh"
        /\ \A c \in Child \ {proc[p].child} : lock'[c] = lock[c]
    BY <1>0, <1>2, OpenRows
  <2>3. Moves(p, {"complete"}, "report") /\ proc'[p].child = proc[p].child
    BY <1>2, <2>2, ThreadMoves
  <2>4. Busy(p) /\ lock'[proc[p].child] = "fresh"
    BY <1>t, <2>1, <2>2, <2>3 DEF Moves, Busy, InQueue, Status
  <2>5. \A q \in Proc \ {p} : Busy(q)' => Busy(q) /\ proc'[q] = proc[q] /\ proc[q].child # proc[p].child
    BY <1>0, <2>3, <2>4 DEF Moves, Others, Busy, OneThreadEach
  <2> QED
    BY <1>0, <1>t, <2>1, <2>2, <2>3, <2>4, <2>5 DEF LocksWatch
<1>q. ASSUME ~\E p \in Proc : PushAll(p),
             \A c \in Child : /\ row'[c] \in Status <=> row[c] \in Status
                              /\ lock'[c] = lock[c] \/ (lock[c] = "fresh" /\ lock'[c] = "stale")
                              /\ \A q \in Proc : Busy(q)' /\ proc'[q].child = c /\ row[c] \in Status =>
                                    \E r \in Proc : Busy(r) /\ proc[r].child = c,
             \A q \in Proc : Busy(q)' => proc'[q].child \in Child
      PROVE  LocksWatch'
  <2>1. \A c \in Child : row'[c] \notin Status => lock'[c] # "none"
    BY <1>q, <1>t
  <2>2. ASSUME NEW q \in Proc, Busy(q)', row'[proc'[q].child] \in Status
        PROVE  lock'[proc'[q].child] \in {"fresh", "stale"}
    <3>1. PICK r \in Proc : Busy(r) /\ proc[r].child = proc'[q].child
      BY <1>q, <2>2
    <3>2. row[proc[r].child] \in Status
      BY <1>q, <2>2, <3>1
    <3> QED
      BY <1>q, <1>t, <2>2, <3>1, <3>2
  <2> QED
    BY <2>1, <2>2 DEF LocksWatch
<1>a. OneThreadEach'
  BY OneThreadEachStep
<1>b. \A q \in Proc : Busy(q)' => proc'[q].child \in Child
  BY <1>a DEF OneThreadEach, FannedOut
<1>3. ASSUME ~\E p \in Proc : PushAll(p), NEW p \in Proc, NEW c \in Child,
             row[c] \in {"queued", "suspended"}, Claim(p, c)
      PROVE  LocksWatch'
  <2>1. Moves(p, {"idle"}, "run") /\ proc'[p].child = c /\ lock' = lock
    BY <1>3, ThreadMoves DEF CancelledByTask, Claim
  <2>2. row'[c] = "running" /\ \A j \in Job \ {c} : row'[j] = row[j]
    BY <1>0, <1>3, OpenRows
  <2>3. row[c] \notin Status /\ row'[c] \notin Status
    BY <1>0, <1>3, <2>2 DEF Status
  <2>4. \A q \in Proc \ {p} : Busy(q)' => Busy(q) /\ proc'[q] = proc[q]
    BY <2>1 DEF Moves, Others, Busy
  <2> QED
    BY <1>0, <1>3, <1>b, <1>q, <2>1, <2>2, <2>3, <2>4
<1>4. ASSUME ~\E p \in Proc : PushAll(p), NEW p \in Proc,
             \/ PullFlow(p) \/ Release(p) \/ Crash(p) \/ ReportAgain(p)
             \/ Report(p) /\ InQueue(Flow) /\ ~IsLast(index + 1)
             \/ \E s \in Status : FinishChild(p, s)
      PROVE  LocksWatch'
  <2>1. /\ Busy(p)' => Busy(p) /\ proc'[p].child = proc[p].child
        /\ Others(p)
    BY <1>4, ThreadMoves DEF Moves, Busy
  <2>2. lock' = lock /\ \A c \in Child : row'[c] = row[c]
    BY <1>0, <1>4, JobFacts DEF PullFlow, Release, Crash, ReportAgain, Report, FinishChild
  <2>3. \A q \in Proc : Busy(q)' => Busy(q) /\ proc'[q].child = proc[q].child
    BY <2>1 DEF Others, Busy
  <2> QED
    BY <1>4, <1>b, <1>q, <2>2, <2>3
<1>5. ASSUME ~\E p \in Proc : PushAll(p), NEW p \in Proc, Unlock(p) PROVE LocksWatch'
  <2>1. Moves(p, {"unlock"}, "idle") /\ row' = row
    BY <1>5, ThreadMoves DEF Unlock
  <2>2. Busy(p) /\ proc[p].child \in Child /\ row[proc[p].child] \in Status
    BY <1>0, <2>1 DEF Moves, Busy, OneThreadEach
  <2>3. lock' = [lock EXCEPT ![proc[p].child] = "none"]
    BY <1>5 DEF Unlock
  <2>4. \A q \in Proc : Busy(q)' => Busy(q) /\ proc'[q] = proc[q] /\ proc[q].child # proc[p].child
    BY <1>0, <2>1, <2>2 DEF Moves, Others, Busy, OneThreadEach
  <2>5. \A c \in Child \ {proc[p].child} : lock'[c] = lock[c]
    BY <1>0, <2>3
  <2> QED
    BY <1>5, <1>t, <2>1, <2>2, <2>4, <2>5 DEF LocksWatch
<1>6. ASSUME ~\E p \in Proc : PushAll(p), NEW c \in Child, RestartChild(c) PROVE LocksWatch'
  <2>1. proc' = proc /\ lock' = lock /\ row' = [row EXCEPT ![c] = "queued"] /\ row[c] = "running"
    BY <1>6 DEF RestartChild
  <2>2. \A d \in Child : row'[d] \in Status <=> row[d] \in Status
    BY <1>0, <2>1 DEF Status
  <2> QED
    BY <1>6, <1>b, <1>q, <2>1, <2>2 DEF Busy
<1>7. ASSUME ~\E p \in Proc : PushAll(p), NEW c \in Child, LockExpires(c) PROVE LocksWatch'
  <2>1. proc' = proc /\ row' = row /\ lock' = [lock EXCEPT ![c] = "stale"] /\ lock[c] = "fresh"
    BY <1>7 DEF LockExpires
  <2>2. \A d \in Child : lock'[d] = lock[d] \/ (lock[d] = "fresh" /\ lock'[d] = "stale")
    BY <1>0, <2>1
  <2> QED
    BY <1>7, <1>b, <1>q, <2>1, <2>2 DEF Busy
<1>8. ASSUME ~\E p \in Proc : PushAll(p), PingExpires \/ UNCHANGED vars PROVE LocksWatch'
  <2>1. proc' = proc /\ row' = row /\ lock' = lock
    BY <1>8 DEF PingExpires, vars
  <2> QED
    BY <1>8, <1>b, <1>q, <2>1 DEF Busy
<1>9. ~(HandleZombieFlow /\ module = "WaitingForPriorSteps")
  BY DEF HandleZombieFlow, FannedOut
<1> QED
  BY <1>0, <1>1, <1>2, <1>3, <1>4, <1>5, <1>6, <1>7, <1>8, <1>9 DEF OpenStep

\* The module was in progress before a step that does not push the children.
LEMMA FannedOutSteps ==
    ASSUME Watched, WatchInv, [Next]_vars, FannedOut'
    PROVE  /\ Open /\ OpenStep
           /\ (~\E p \in Proc : PushAll(p)) => FannedOut
<1>1. Open /\ OpenStep /\ module' = "InProgress"
  BY OpenSteps DEF FannedOut
<1>2. ASSUME ~\E p \in Proc : PushAll(p) PROVE module = "InProgress"
  BY <1>1, <1>2 DEF OpenStep, PullFlow, CompleteChild, Release, Unlock, Report, ReportAgain, Crash,
     Claim, FinishChild, RestartChild, LockExpires, PingExpires, HandleZombieFlow, vars
<1> QED
  BY <1>1, <1>2 DEF FannedOut

\* The ping of a flow with one child is there once the child is completed.
LEMMA PingWatchesStep ==
    ASSUME Watched, WatchInv, [Next]_vars
    PROVE  PingWatches'
<1> SUFFICES ASSUME FannedOut', Iterations = 1 PROVE PingWatches'
  BY DEF PingWatches
<1> USE DEF WatchInv
<1>0. /\ Open /\ OpenStep /\ row \in [Job -> {"none", "queued", "suspended", "running"} \cup Status]
      /\ \A c \in Child : c \in Job /\ c # Flow
      /\ {"queued", "running", "suspended"} \cap Status = {}
  BY FannedOutSteps, JobFacts DEF Typed, Status
<1>t. ASSUME ~\E p \in Proc : PushAll(p)
      PROVE  (\A c \in Child : row[c] \in Status => ping # "null") /\ index = 0
  BY <1>t, FannedOutSteps DEF PingWatches, AllAccounted, Typed
<1>1. ASSUME NEW p \in Proc, PushAll(p) PROVE PingWatches'
  <2>1. \A c \in Child : row'[c] \in {"suspended", "queued"}
    BY <1>0, <1>1 DEF PushAll
  <2> QED
    BY <1>0, <2>1 DEF PingWatches
<1>2. ASSUME NEW p \in Proc, CompleteChild(p) PROVE PingWatches'
  BY <1>0, <1>2, OpenRows DEF PingWatches
<1>q. ASSUME ~\E p \in Proc : PushAll(p), ping' # "null" \/ ping' = ping,
             \A c \in Child : row'[c] \in Status => row[c] \in Status
      PROVE  PingWatches'
  BY <1>q, <1>t DEF PingWatches
<1>3. ASSUME ~\E p \in Proc : PushAll(p), NEW p \in Proc, NEW c \in Child, Claim(p, c) PROVE PingWatches'
  <2>1. ping' = ping /\ \A d \in Child : row'[d] \in Status => row[d] \in Status
    BY <1>0, <1>3, OpenRows DEF Claim
  <2> QED
    BY <1>3, <1>q, <2>1
<1>4. ASSUME ~\E p \in Proc : PushAll(p), NEW p \in Proc, PullFlow(p) PROVE PingWatches'
  <2>1. ping' # "null" /\ \A d \in Child : row'[d] = row[d]
    BY <1>0, <1>4 DEF PullFlow
  <2> QED
    BY <1>4, <1>q, <2>1
<1>5. ASSUME ~\E p \in Proc : PushAll(p), NEW p \in Proc,
             Release(p) \/ Unlock(p) \/ ReportAgain(p) \/ Crash(p) \/ \E s \in Status : FinishChild(p, s)
      PROVE  PingWatches'
  <2>1. UNCHANGED <<ping, row>>
    BY <1>5 DEF Release, Unlock, ReportAgain, Crash, FinishChild
  <2> QED
    BY <1>5, <1>q, <2>1
<1>6. ASSUME ~\E p \in Proc : PushAll(p), NEW p \in Proc PROVE ~(Report(p) /\ ~IsLast(index + 1))
  BY <1>6, <1>t DEF IsLast
<1>7. ASSUME ~\E p \in Proc : PushAll(p), NEW c \in Child, RestartChild(c) PROVE PingWatches'
  <2>1. ping' = ping /\ row' = [row EXCEPT ![c] = "queued"]
    BY <1>7 DEF RestartChild
  <2> QED
    BY <1>0, <1>7, <1>q, <2>1
<1>8. ASSUME ~\E p \in Proc : PushAll(p),
             PingExpires \/ UNCHANGED vars \/ \E c \in Child : LockExpires(c)
      PROVE  PingWatches'
  <2>1. (ping' # "null" \/ ping' = ping) /\ row' = row
    BY <1>8 DEF PingExpires, LockExpires, vars
  <2> QED
    BY <1>8, <1>q, <2>1
<1>9. ~(HandleZombieFlow /\ module = "WaitingForPriorSteps")
  BY DEF HandleZombieFlow, FannedOut
<1> QED
  BY <1>0, <1>1, <1>2, <1>3, <1>4, <1>5, <1>6, <1>7, <1>8, <1>9 DEF OpenStep

\* A child that waits has the place it was pushed with.
LEMMA PlacesStep ==
    ASSUME Watched, WatchInv, [Next]_vars
    PROVE  Places'
<1> SUFFICES ASSUME FannedOut' PROVE Places'
  BY DEF Places
<1> USE DEF WatchInv
<1>0. /\ Open /\ OpenStep /\ row \in [Job -> {"none", "queued", "suspended", "running"} \cup Status]
      /\ suspend \in [Child -> Nat]
      /\ \A c \in Child : c \in Job /\ c # Flow
      /\ "suspended" \notin Status
  BY FannedOutSteps, JobFacts DEF Typed, Status
<1>1. ASSUME NEW p \in Proc, PushAll(p) PROVE Places'
  <2>1. ASSUME NEW c \in Child PROVE suspend'[c] = 0 \/ suspend'[c] + Parallelism = c
    <3>1. suspend'[c] = SuspendOf(c - 1)
      BY <1>1 DEF PushAll
    <3> QED
      BY <3>1, JobFacts DEF SuspendOf
  <2> QED
    BY <2>1 DEF Places
<1>q. ASSUME ~\E p \in Proc : PushAll(p),
             \A c \in Child : /\ row'[c] = "suspended" => row[c] = "suspended"
                              /\ suspend'[c] = 0 \/ suspend'[c] = suspend[c]
      PROVE  Places'
  BY <1>q, FannedOutSteps DEF Places
<1>2. ASSUME ~\E p \in Proc : PushAll(p), NEW p \in Proc, CompleteChild(p) PROVE Places'
  <2>1. suspend' = suspend /\ \A c \in Child : row'[c] = "suspended" => row[c] = "suspended"
    BY <1>0, <1>2, OpenRows DEF CompleteChild
  <2> QED
    BY <1>2, <1>q, <2>1
<1>3. ASSUME ~\E p \in Proc : PushAll(p), NEW p \in Proc, NEW c \in Child, Claim(p, c) PROVE Places'
  <2>1. suspend' = suspend /\ \A d \in Child : row'[d] = "suspended" => row[d] = "suspended"
    BY <1>0, <1>3, OpenRows DEF Claim
  <2> QED
    BY <1>3, <1>q, <2>1
<1>4. ASSUME ~\E p \in Proc : PushAll(p), NEW p \in Proc,
             \/ PullFlow(p) \/ Unlock(p) \/ ReportAgain(p) \/ Crash(p) \/ Report(p)
             \/ \E s \in Status : FinishChild(p, s)
      PROVE  Places'
  <2>1. suspend' = suspend /\ \A c \in Child : row'[c] = row[c]
    BY <1>0, <1>4 DEF PullFlow, Unlock, ReportAgain, Crash, Report, FinishChild
  <2> QED
    BY <1>4, <1>q, <2>1
<1>5. ASSUME ~\E p \in Proc : PushAll(p), NEW p \in Proc, Release(p) PROVE Places'
  <2>1. row' = row /\ \A c \in Child : suspend'[c] = 0 \/ suspend'[c] = suspend[c]
    BY <1>5 DEF Release
  <2> QED
    BY <1>5, <1>q, <2>1
<1>6. ASSUME ~\E p \in Proc : PushAll(p), NEW c \in Child, RestartChild(c) PROVE Places'
  <2>1. suspend' = suspend /\ row' = [row EXCEPT ![c] = "queued"]
    BY <1>6 DEF RestartChild
  <2> QED
    BY <1>0, <1>6, <1>q, <2>1
<1>7. ASSUME ~\E p \in Proc : PushAll(p),
             PingExpires \/ UNCHANGED vars \/ \E c \in Child : LockExpires(c)
      PROVE  Places'
  <2>1. UNCHANGED <<suspend, row>>
    BY <1>7 DEF PingExpires, LockExpires, vars
  <2> QED
    BY <1>7, <1>q, <2>1
<1>8. ~(HandleZombieFlow /\ module = "WaitingForPriorSteps")
  BY DEF HandleZombieFlow, FannedOut
<1> QED
  BY <1>0, <1>1, <1>2, <1>3, <1>4, <1>5, <1>6, <1>7, <1>8 DEF OpenStep

Gone == Counted \cup PassedOver

\* A set that loses no fewer children than it gains is not larger.
LEMMA Exchange ==
    ASSUME NEW S \in SUBSET Child, NEW c \in Child, NEW T \in SUBSET (S \cup {c})
    PROVE  /\ Cardinality(T) <= Cardinality(S) + 1
           /\ \A d \in S : d \notin T => Cardinality(T) <= Cardinality(S)
<1>1. ASSUME NEW R \in SUBSET Child PROVE Cardinality(R \cup {c}) <= Cardinality(R) + 1
  <2>1. CASE c \in R
    <3>1. R \cup {c} = R
      BY <2>1
    <3> QED
      BY <3>1, ChildSets
  <2>2. CASE c \notin R
    BY <2>2, ChildSets
  <2> QED
    BY <2>1, <2>2
<1>2. ASSUME NEW R \in SUBSET Child, T \subseteq R \cup {c} PROVE Cardinality(T) <= Cardinality(R) + 1
  <2>1. R \cup {c} \in SUBSET Child /\ T \in SUBSET (R \cup {c}) /\ T \in SUBSET Child
    BY <1>2
  <2>2. /\ Cardinality(T) \in Nat /\ Cardinality(R \cup {c}) \in Nat /\ Cardinality(R) \in Nat
        /\ Cardinality(T) <= Cardinality(R \cup {c})
    BY <2>1, ChildSets
  <2> QED
    BY <1>1, <2>2
<1>3. ASSUME NEW d \in S, d \notin T PROVE Cardinality(T) <= Cardinality(S)
  <2>1. S \ {d} \in SUBSET Child /\ T \subseteq (S \ {d}) \cup {c} /\ d \in Child \ (S \ {d})
    BY <1>3
  <2>2. (S \ {d}) \cup {d} = S
    OBVIOUS
  <2>3. Cardinality(T) <= Cardinality(S \ {d}) + 1
    BY <1>2, <2>1
  <2>4. Cardinality(S) = Cardinality(S \ {d}) + 1
    BY <2>1, <2>2, ChildSets
  <2> QED
    BY <2>3, <2>4
<1> QED
  BY <1>2, <1>3

\* Every child that is counted or passed over has a report in the count.
LEMMA AllAccountedStep ==
    ASSUME Watched, WatchInv, [Next]_vars
    PROVE  AllAccounted'
<1> SUFFICES ASSUME FannedOut' PROVE AllAccounted'
  BY DEF AllAccounted
<1> USE DEF WatchInv
<1>0. /\ Open /\ OpenStep /\ row \in [Job -> {"none", "queued", "suspended", "running"} \cup Status]
      /\ suspend \in [Child -> Nat] /\ index \in Nat
      /\ lock \in [Child -> {"none", "null", "fresh", "stale"}]
      /\ \A c \in Child : c \in Job /\ c # Flow
      /\ {"queued", "running", "suspended"} \cap Status = {}
  BY FannedOutSteps, JobFacts DEF Typed, Status
<1>c. Gone \in SUBSET Child /\ Gone' \in SUBSET Child
  BY DEF Gone, Counted, PassedOver
<1>n. Cardinality(Gone) \in Nat /\ Cardinality(Gone') \in Nat
  BY <1>c, ChildSets
<1>t. ASSUME ~\E p \in Proc : PushAll(p)
      PROVE  FannedOut /\ index < Iterations /\ (Iterations > 1 => Cardinality(Gone) <= index)
  BY <1>t, FannedOutSteps DEF AllAccounted, Gone
<1>1. ASSUME NEW p \in Proc, PushAll(p) PROVE AllAccounted'
  <2>1. \A c \in Child : row'[c] \in {"suspended", "queued"}
    BY <1>0, <1>1 DEF PushAll
  <2>2. index' = 0
    BY <1>0, <1>1 DEF PushAll, PushIsWatched
  <2>3. Gone' = {}
    <3>1. Counted' = {}
      BY <1>0, <2>1 DEF Counted
    <3>2. \A c \in Child : suspend'[c] \in Nat
      BY TypedStep DEF Typed
    <3>3. PassedOver' = {}
      BY <2>2, <3>2 DEF PassedOver
    <3> QED
      BY <3>1, <3>3 DEF Gone
  <2> QED
    BY <2>2, <2>3, FS_EmptySet, JobFacts DEF AllAccounted, Gone
<1>q. ASSUME ~\E p \in Proc : PushAll(p), index' = index, Iterations > 1 => Gone' \subseteq Gone
      PROVE  AllAccounted'
  <2>1. index' < Iterations
    BY <1>q, <1>t
  <2>2. ASSUME Iterations > 1 PROVE Cardinality(Gone') <= index'
    <3>1. Cardinality(Gone') <= Cardinality(Gone)
      BY <1>c, <1>q, <2>2, ChildSets
    <3> QED
      BY <1>0, <1>n, <1>q, <1>t, <2>2, <3>1
  <2> QED
    BY <2>1, <2>2 DEF AllAccounted, Gone
\* Threads at the release or the unlock of a child are there as before, and so are the rest.
<1>r. ASSUME \A c \in Child :
               /\ row'[c] \in Status => row[c] \in Status
               /\ row'[c] = "suspended" => row[c] = "suspended"
               /\ lock'[c] = lock[c] \/ (lock[c] = "fresh" /\ lock'[c] = "stale"),
             index' = index, suspend' = suspend,
             \A q \in Proc : /\ proc'[q].pc \in {"release", "unlock"} => proc'[q] = proc[q]
                             /\ proc[q].pc = "release" => proc'[q] = proc[q]
      PROVE  Gone' \subseteq Gone
  <2>1. Counted' \subseteq Counted
    BY <1>r DEF Counted
  <2>2. PassedOver' \subseteq PassedOver
    BY <1>r DEF PassedOver
  <2> QED
    BY <2>1, <2>2 DEF Gone
<1>2. ASSUME ~\E p \in Proc : PushAll(p), NEW p \in Proc, NEW c \in Child, Claim(p, c) PROVE AllAccounted'
  <2>1. Moves(p, {"idle"}, "run")
    BY <1>2, ThreadMoves DEF CancelledByTask
  <2>2. UNCHANGED <<index, suspend, lock>>
    BY <1>2 DEF Claim
  <2>3. row'[c] = "running" /\ \A j \in Job \ {c} : row'[j] = row[j]
    BY <1>0, <1>2, OpenRows
  <2>4. Gone' \subseteq Gone
    BY <1>0, <1>r, <2>1, <2>2, <2>3 DEF Moves, Others
  <2> QED
    BY <1>2, <1>q, <2>2, <2>4
<1>3. ASSUME ~\E p \in Proc : PushAll(p), NEW p \in Proc, PullFlow(p) \/ \E s \in Status : FinishChild(p, s)
      PROVE  AllAccounted'
  <2>1. /\ proc[p].pc \notin {"release", "unlock"} /\ proc'[p].pc \notin {"release", "unlock"}
        /\ Others(p)
    BY <1>3, ThreadMoves DEF Moves
  <2>2. UNCHANGED <<index, suspend, lock>> /\ \A c \in Child : row'[c] = row[c]
    BY <1>0, <1>3 DEF PullFlow, FinishChild
  <2>3. Gone' \subseteq Gone
    BY <1>r, <2>1, <2>2 DEF Others
  <2> QED
    BY <1>3, <1>q, <2>2, <2>3
<1>4. ASSUME ~\E p \in Proc : PushAll(p), NEW c \in Child, RestartChild(c) PROVE AllAccounted'
  <2>1. UNCHANGED <<index, suspend, lock, proc>> /\ row' = [row EXCEPT ![c] = "queued"]
    BY <1>4 DEF RestartChild
  <2>2. Gone' \subseteq Gone
    BY <1>0, <1>r, <2>1
  <2> QED
    BY <1>4, <1>q, <2>1, <2>2
<1>5. ASSUME ~\E p \in Proc : PushAll(p), NEW c \in Child, LockExpires(c) PROVE AllAccounted'
  <2>1. /\ UNCHANGED <<index, suspend, row, proc>> /\ lock[c] = "fresh"
        /\ lock' = [lock EXCEPT ![c] = "stale"]
    BY <1>5 DEF LockExpires
  <2>2. Gone' \subseteq Gone
    BY <1>0, <1>r, <2>1
  <2> QED
    BY <1>5, <1>q, <2>1, <2>2
<1>6. ASSUME ~\E p \in Proc : PushAll(p), PingExpires \/ UNCHANGED vars PROVE AllAccounted'
  <2>1. UNCHANGED <<index, suspend, row, proc, lock>>
    BY <1>6 DEF PingExpires, vars
  <2>2. Gone' \subseteq Gone
    BY <1>r, <2>1
  <2> QED
    BY <1>6, <1>q, <2>1, <2>2
<1>7. ASSUME ~\E p \in Proc : PushAll(p), NEW p \in Proc, CompleteChild(p) PROVE AllAccounted'
  <2>1. /\ row'[proc[p].child] \in Status /\ \A j \in Job \ {proc[p].child} : row'[j] = row[j]
        /\ InQueue(proc[p].child)
        /\ lock[proc[p].child] # "none" => lock'[proc[p].child] = "fresh"
        /\ \A c \in Child \ {proc[p].child} : lock'[c] = lock[c]
    BY <1>0, <1>7, OpenRows
  <2>2. Moves(p, {"complete"}, "report") /\ UNCHANGED <<index, suspend>>
    BY <1>7, <2>1, ThreadMoves DEF CompleteChild
  <2>3. ASSUME Iterations > 1 PROVE Gone' \subseteq Gone
    <3>1. /\ row[proc[p].child] \notin Status /\ proc[p].child \in Child
          /\ \A q \in Proc \ {p} : proc[q].pc \in {"release", "unlock"} => proc[q].child # proc[p].child
      BY <1>0, <2>1, <2>2 DEF OneThreadEach, Moves, Busy, InQueue
    <3>2. lock'[proc[p].child] = "fresh"
      BY <1>7, <1>t, <2>1, <2>3, <3>1 DEF LocksWatch
    <3>3. \A q \in Proc : proc'[q].pc \in {"release", "unlock"} =>
                             q # p /\ proc'[q] = proc[q]
      BY <2>2 DEF Moves, Others
    <3>4. \A q \in Proc : proc[q].pc = "release" => proc'[q] = proc[q]
      BY <2>2 DEF Moves, Others
    <3>5. Counted' \subseteq Counted
      BY <1>0, <2>1, <3>1, <3>2, <3>3 DEF Counted
    <3>6. PassedOver' \subseteq PassedOver
      BY <1>0, <2>1, <2>2, <3>4 DEF PassedOver
    <3> QED
      BY <3>5, <3>6 DEF Gone
  <2> QED
    BY <1>7, <1>q, <2>2, <2>3
<1>8. ASSUME ~\E p \in Proc : PushAll(p), NEW p \in Proc, Release(p) PROVE AllAccounted'
  <2>1. Moves(p, {"release"}, "unlock") /\ proc'[p].child = proc[p].child
    BY <1>8, ThreadMoves
  <2>2. /\ UNCHANGED <<index, row, lock>>
        /\ suspend' = [c \in Child |-> IF suspend[c] = proc[p].n /\ row[c] = "suspended" THEN 0 ELSE suspend[c]]
    BY <1>8 DEF Release
  <2>3. Counted' \subseteq Counted
    BY <2>1, <2>2 DEF Counted, Moves, Others
  <2>4. ASSUME NEW c \in PassedOver' PROVE c \in PassedOver
    <3>1. /\ c \in Child /\ row'[c] = "suspended" /\ suspend'[c] > 0 /\ suspend'[c] <= index'
          /\ \A q \in Proc : proc'[q].pc = "release" => proc'[q].n # suspend'[c]
      BY <2>4 DEF PassedOver
    <3>2. suspend'[c] = suspend[c] /\ suspend[c] # proc[p].n
      BY <1>0, <2>2, <3>1
    <3>3. \A q \in Proc : proc[q].pc = "release" => proc[q].n # suspend[c]
      BY <2>1, <3>1, <3>2 DEF Moves, Others
    <3> QED
      BY <2>2, <3>1, <3>2, <3>3 DEF PassedOver
  <2>5. Gone' \subseteq Gone
    BY <2>3, <2>4 DEF Gone
  <2> QED
    BY <1>8, <1>q, <2>2, <2>5
<1>9. ASSUME ~\E p \in Proc : PushAll(p), NEW p \in Proc, Unlock(p) PROVE AllAccounted'
  <2>1. Moves(p, {"unlock"}, "idle") /\ UNCHANGED <<index, row, suspend>>
        /\ lock' = [lock EXCEPT ![proc[p].child] = "none"]
    BY <1>9, ThreadMoves DEF Unlock
  <2>2. Counted' \subseteq Counted
    BY <1>0, <2>1 DEF Counted, Moves, Others
  <2>3. PassedOver' \subseteq PassedOver
    BY <2>1 DEF PassedOver, Moves, Others
  <2>4. Gone' \subseteq Gone
    BY <2>2, <2>3 DEF Gone
  <2> QED
    BY <1>9, <1>q, <2>1, <2>4
<1>10. ASSUME ~\E p \in Proc : PushAll(p), NEW p \in Proc, Report(p), InQueue(Flow), ~IsLast(index + 1)
       PROVE  AllAccounted'
  <2>1. /\ Moves(p, {"report"}, "release") /\ proc'[p].child = proc[p].child
        /\ proc'[p].n = index + 1
    BY <1>10, ThreadMoves
  <2>2. index' = index + 1 /\ UNCHANGED <<row, suspend, lock>>
    BY <1>10 DEF Report
  <2>3. index' < Iterations
    BY <1>10, <1>0, <1>t, <2>2, JobFacts DEF IsLast
  <2>4. ASSUME Iterations > 1 PROVE Cardinality(Gone') <= index'
    <3>1. proc[p].child \in Child
      BY <1>0, <2>1 DEF OneThreadEach, Moves, Busy
    <3>2. Counted' \subseteq Counted \cup {proc[p].child}
      BY <2>1, <2>2 DEF Counted, Moves, Others
    <3>3. ASSUME NEW c \in PassedOver' PROVE c \in PassedOver
      <4>1. /\ c \in Child /\ row[c] = "suspended" /\ suspend[c] > 0 /\ suspend[c] <= index + 1
            /\ \A q \in Proc : proc'[q].pc = "release" => proc'[q].n # suspend[c]
        BY <2>2, <3>3 DEF PassedOver
      <4>2. suspend[c] # index + 1
        BY <2>1, <4>1 DEF Moves
      <4>3. \A q \in Proc : proc[q].pc = "release" => proc[q].n # suspend[c]
        BY <2>1, <4>1 DEF Moves, Others
      <4>4. suspend[c] <= index
        BY <1>0, <4>1, <4>2
      <4> QED
        BY <4>1, <4>3, <4>4 DEF PassedOver
    <3>4. Gone' \in SUBSET (Gone \cup {proc[p].child})
      BY <3>2, <3>3 DEF Gone
    <3>5. Cardinality(Gone') <= Cardinality(Gone) + 1
      BY <1>c, <3>1, <3>4, Exchange
    <3> QED
      BY <1>0, <1>10, <1>n, <1>t, <2>2, <2>4, <3>5
  <2> QED
    BY <2>3, <2>4 DEF AllAccounted, Gone
\* A thread that dies or errs in the release gives up its child's place for that of the one it
\* did not release.
<1>11. ASSUME ~\E p \in Proc : PushAll(p), NEW p \in Proc, Crash(p) \/ ReportAgain(p)
       PROVE  AllAccounted'
  <2>1. UNCHANGED <<index, row, suspend, lock>>
    BY <1>11 DEF Crash, ReportAgain
  <2>2. Others(p) /\ proc'[p].pc \in {"idle", "report"}
    BY <1>11, ThreadMoves DEF Moves
  <2>3. Counted' \subseteq Counted
    BY <2>1, <2>2 DEF Counted, Others
  <2>4. CASE proc[p].pc # "release"
    <3>1. PassedOver' \subseteq PassedOver
      BY <2>1, <2>2, <2>4 DEF PassedOver, Others
    <3>2. Gone' \subseteq Gone
      BY <2>3, <3>1 DEF Gone
    <3> QED
      BY <1>11, <1>q, <2>1, <3>2
  <2>5. CASE proc[p].pc = "release"
    <3>1. index' < Iterations
      BY <1>11, <1>t, <2>1
    <3>2. ASSUME Iterations > 1 PROVE Cardinality(Gone') <= index'
      <4>1. /\ proc[p].child \in Child /\ row[proc[p].child] \in Status
            /\ lock[proc[p].child] \in {"fresh", "stale"}
            /\ \A q \in Proc \ {p} : proc[q].pc \in {"release", "unlock"} => proc[q].child # proc[p].child
        BY <1>0, <1>11, <1>t, <2>5, <3>2 DEF OneThreadEach, LocksWatch, Busy
      <4>2. proc[p].child \in Gone
        BY <2>5, <4>1 DEF Gone, Counted
      <4>3. proc[p].child \notin Counted'
        BY <2>1, <2>2, <4>1 DEF Counted, Others
      <4>4. proc[p].child \notin PassedOver'
        BY <1>0, <2>1, <4>1 DEF PassedOver
      <4>5. proc[p].child \notin Gone'
        BY <4>3, <4>4 DEF Gone
      <4>6. ASSUME NEW c \in PassedOver', c \notin PassedOver PROVE suspend[c] = proc[p].n /\ c = proc[p].n + Parallelism
        <5>1. /\ c \in Child /\ row[c] = "suspended" /\ suspend[c] > 0 /\ suspend[c] <= index
              /\ \A q \in Proc : proc'[q].pc = "release" => proc'[q].n # suspend[c]
          BY <2>1, <4>6 DEF PassedOver
        <5>2. suspend[c] = proc[p].n
          BY <2>2, <4>6, <5>1 DEF PassedOver, Others
        <5>3. suspend[c] + Parallelism = c
          BY <1>0, <1>11, <1>t, <5>1 DEF Places
        <5> QED
          BY <5>2, <5>3
      <4>7. PICK e \in Child : PassedOver' \subseteq PassedOver \cup {e}
        BY <4>1, <4>6 DEF PassedOver
      <4>8. Gone' \in SUBSET (Gone \cup {e})
        BY <2>3, <4>7 DEF Gone
      <4>9. Cardinality(Gone') <= Cardinality(Gone)
        BY <1>c, <4>2, <4>5, <4>8, Exchange
      <4> QED
        BY <1>0, <1>11, <1>n, <1>t, <2>1, <3>2, <4>9
    <3> QED
      BY <3>1, <3>2 DEF AllAccounted, Gone
  <2> QED
    BY <2>4, <2>5
<1>12. ~(HandleZombieFlow /\ module = "WaitingForPriorSteps")
  BY DEF HandleZombieFlow, FannedOut
<1> QED
  BY <1>0, <1>1, <1>2, <1>3, <1>4, <1>5, <1>6, <1>7, <1>8, <1>9, <1>10, <1>11, <1>12 DEF OpenStep

\* Nothing is forgotten in the initial state.
LEMMA WatchInit ==
    ASSUME Init
    PROVE  WatchInv
<1>1. /\ row = [j \in Job |-> IF j = Flow THEN "queued" ELSE "none"]
      /\ row[Flow] = "queued" /\ \A c \in Child : row[c] = "none"
      /\ canceled = {} /\ kills = {} /\ module = "WaitingForPriorSteps" /\ index = 0
      /\ suspend = [c \in Child |-> 0] /\ lock = [c \in Child |-> "none"]
      /\ proc = [p \in Proc |-> Idle] /\ \A p \in Proc : proc[p].pc = "idle"
  BY JobFacts, Records DEF Init
<1>2. Typed
  BY <1>1, Records DEF Typed
<1>3. CancelledByTask
  BY <1>1 DEF CancelledByTask
<1>4. PushIsWatched
  BY <1>1 DEF PushIsWatched, Unpushed
<1>5. OneThreadEach
  BY <1>1 DEF OneThreadEach, Busy
<1>6. LocksWatch /\ PingWatches /\ Places /\ AllAccounted
  BY <1>1 DEF LocksWatch, PingWatches, Places, AllAccounted, FannedOut
<1> QED
  BY <1>2, <1>3, <1>4, <1>5, <1>6 DEF WatchInv

\* What is watched is not forgotten: a flow with nobody at it and with nothing to watch would
\* have more children counted or passed over than reports in its count.
LEMMA WatchedIsEnough ==
    ASSUME WatchInv
    PROVE  NeverForgotten
<1> USE DEF WatchInv
<1>1. SUFFICES ASSUME InQueue(Flow), row[Flow] # "queued", ping = "null", kills = {},
                      \A p \in Proc : proc[p].pc = "idle",
                      \A c \in Child : /\ row[c] \notin {"queued", "running"}
                                       /\ ~(row[c] = "suspended" /\ suspend[c] = 0)
                                       /\ lock[c] \notin {"fresh", "stale"}
               PROVE  FALSE
  BY DEF NeverForgotten
<1>2. FannedOut
  BY <1>1 DEF PushIsWatched, Open, FannedOut
<1>3. \A c \in Child : row[c] \in Status \/ (row[c] = "suspended" /\ suspend[c] > 0 /\ suspend[c] + Parallelism = c)
  <2>1. ASSUME NEW c \in Child, row[c] \notin Status
        PROVE  row[c] = "suspended" /\ suspend[c] > 0 /\ suspend[c] + Parallelism = c
    <3>1. row[c] = "suspended"
      BY <1>1, <1>2, <2>1, JobFacts DEF Typed, PushIsWatched, FannedOut
    <3>2. suspend[c] # 0 /\ suspend[c] \in Nat
      BY <1>1, <2>1, <3>1 DEF Typed
    <3> QED
      BY <1>2, <2>1, <3>1, <3>2 DEF Places
  <2> QED
    BY <2>1
<1>4. CASE Iterations = 1
  <2>1. 1 \in Child
    BY <1>4 DEF Child
  <2>2. row[1] \notin Status
    BY <1>1, <1>2, <1>4, <2>1 DEF PingWatches
  <2> QED
    BY <1>3, <2>1, <2>2, JobFacts DEF Typed
<1>5. CASE Iterations > 1
  <2>1. index \in Nat /\ index < Iterations /\ Cardinality(Counted \cup PassedOver) <= index
    BY <1>2, <1>5 DEF AllAccounted, Typed
  <2>2. ASSUME NEW c \in Child, c <= Parallelism + index PROVE c \in Counted \cup PassedOver
    <3>1. CASE row[c] \in Status
      BY <1>1, <3>1 DEF Counted
    <3>2. CASE row[c] = "suspended" /\ suspend[c] > 0 /\ suspend[c] + Parallelism = c
      <4>1. suspend[c] <= index
        BY <2>1, <2>2, <3>2, JobFacts DEF Typed
      <4> QED
        BY <1>1, <3>2, <4>1 DEF PassedOver
    <3> QED
      BY <1>3, <3>1, <3>2
  <2>3. PICK m \in Nat : m > index /\ m <= Iterations /\ m <= Parallelism + index
    <3>1. index + 1 \in Nat /\ index + 1 > index /\ index + 1 <= Iterations /\ index + 1 <= Parallelism + index
      BY <2>1, JobFacts
    <3> QED
      BY <3>1
  <2>4. 1 .. m \subseteq Counted \cup PassedOver
    BY <2>1, <2>2, <2>3, JobFacts DEF Child
  <2>5. Counted \cup PassedOver \in SUBSET Child
    BY DEF Counted, PassedOver
  <2>6. Cardinality(1 .. m) = m
    <3>1. 1 \in Int /\ m \in Int
      OBVIOUS
    <3> QED
      BY <2>1, <2>3, <3>1, FS_Interval
  <2>7. Cardinality(1 .. m) <= Cardinality(Counted \cup PassedOver) /\ Cardinality(Counted \cup PassedOver) \in Nat
    BY <2>4, <2>5, ChildSets
  <2> QED
    BY <2>1, <2>3, <2>6, <2>7
<1> QED
  BY <1>4, <1>5, JobFacts

(* The invariant of the watch: an open flow has its push, every report that is *)
(* under way and every child that waits behind one watched by a thread, by the *)
(* ping or by a lock (handle_zombie_flows).                                    *)
THEOREM WatchInvariant ==
    ASSUME Watched
    PROVE  Spec => []WatchInv
<1>1. Init => WatchInv
  BY WatchInit
<1>2. ASSUME WatchInv, [Next]_vars PROVE WatchInv'
  <2>1. Typed' /\ CancelledByTask'
    BY <1>2, TypedStep, CancelledStep DEF WatchInv
  <2>2. PushIsWatched' /\ OneThreadEach' /\ LocksWatch'
    BY <1>2, PushIsWatchedStep, OneThreadEachStep, LocksWatchStep
  <2>3. PingWatches' /\ Places' /\ AllAccounted'
    BY <1>2, PingWatchesStep, PlacesStep, AllAccountedStep
  <2> QED
    BY <2>1, <2>2, <2>3 DEF WatchInv
<1> QED
  BY <1>1, <1>2, PTL DEF Spec

(* No flow is forgotten: as long as a parallel flow is in the queue, a thread   *)
(* is at it, a child of it can be pulled or restarted, a task is cancelling it, *)
(* or the monitor has a ping or a lock for which it will.  Workers may die in a *)
(* child or at any point of a report but its last, statements may fail after    *)
(* the commit of a report and suspend_until may pass.                           *)
THEOREM FlowIsNotForgotten ==
    ASSUME Watched
    PROVE  Spec => []NeverForgotten
<1>1. WatchInv => NeverForgotten
  BY WatchedIsEnough
<1> QED
  BY <1>1, WatchInvariant, PTL
=============================================================================
