--------------------------- MODULE SchedulesProofs ---------------------------
(***************************************************************************)
(* A schedule never stops silently, never overlaps its own runs when it    *)
(* must not, and never pushes a tick that is not ahead of the run: for any *)
(* cron expressions, and any number of edits, cancels, failures, restarts  *)
(* and steps of the clock.                                                 *)
(***************************************************************************)
EXTENDS Schedules, WellFoundedInduction, TLAPS

Running(j) == job[j].st = "running"

\* A cancelled tick is only completed.
CanceledCompletes ==
    \A j \in Slot : job[j].canceled =>
        /\ Running(j)
        /\ \/ job[j].pc = "complete"
           \/ job[j].pc \in {"read", "checked"} /\ job[j].ending

\* A run that found no other one keeps the others out until it is through.
Alone(j) == Running(j) /\ job[j].pc \in {"alone", "steps"} /\ job[j].way = "first"

OneAlone ==
    noOverlap => \A j, k \in Slot :
        Alone(j) /\ Alone(k) /\ job[j].path = job[k].path => j = k

\* A run was due when it was pulled, and is unless the clock was set back.
RunsAreDue ==
    \A j \in Slot : Running(j) =>
        job[j].at <= MaxTime /\ (spent.shifts = 0 => job[j].at <= now)

\* What has been checked of the copy, and the instant that was computed from it.
CheckedIsLater ==
    \A j \in Slot : At(j, "checked") => MaySchedule(j) /\ copy[j].next > job[j].at

\* Whoever holds an enabled copy of the row was running when it was enabled.
SawEnabled ==
    \A j \in Slot : Running(j) /\ ~job[j].saw =>
        /\ ~row.enabled
        /\ job[j].pc \in {"read", "checked"} => ~copy[j].row.enabled

\* Only a run that has pushed a step is marked as entered.
EnteredRuns ==
    \A j \in Slot : job[j].entered => Running(j) /\ job[j].pc # "dead"

\* A job that will push the next tick unless it is stopped: HasTickAhead alone is
\* not inductive, the copy that a run has read must let it push.
Responsible(j) ==
    \/ job[j].st = "queued"
    \/ /\ Running(j) /\ ~job[j].entered
       /\ \/ job[j].pc \in {"start", "complete", "dead"}
          \/ job[j].pc = "read" /\ MaySchedule(j)
          \/ job[j].pc = "checked" /\ ~copy[j].exists

\* The clock was never set back: whoever edits the schedule replaces its tick.
EditPushes == spent.shifts = 0 /\ api.open /\ api.row.enabled => api.push

TickAhead ==
    spent.shifts = 0 /\ row.enabled /\ ~lost =>
        \E j \in Slot : job[j].path = row.script_path /\ Responsible(j)

\* Nobody edited the schedule: every job and every copy is of the same schedule,
\* and the latest tick is still to be followed by another.
Unedited ==
    spent.edits = 0 =>
        /\ ~api.open
        /\ \A j \in Slot : job[j].st # "none" =>
              /\ job[j].path = row.script_path
              /\ At(j, "read") \/ At(j, "checked") =>
                    /\ copy[j].row.script_path = row.script_path
                    /\ row.enabled => copy[j].row.enabled

Latest(m) == \A k \in Slot : job[k].st # "none" => job[k].at <= job[m].at

LatestIsAhead ==
    spent.edits = 0 /\ row.enabled /\ ~lost =>
        \E m \in Slot : Responsible(m) /\ Latest(m)

IInv ==
    /\ TypeOK
    /\ CanceledCompletes /\ OneAlone
    /\ RunsAreDue /\ CheckedIsLater /\ SawEnabled
    /\ EnteredRuns /\ EditPushes /\ TickAhead /\ Unedited /\ LatestIsAhead
-----------------------------------------------------------------------------
(* Types.                                                                  *)

JobRow == [st : {"none", "queued", "running"}, pc : Pc, at : {0} \cup Instant,
           path : Path, canceled : BOOLEAN, entered : BOOLEAN, ending : BOOLEAN,
           saw : BOOLEAN, way : Way]
CopyRow == [row : Row, next : {0} \cup Instant, exists : BOOLEAN]
ApiRow == [open : BOOLEAN, row : Row, cleared : SUBSET Slot, next : {0} \cup Instant,
           push : BOOLEAN]

\* A set of natural numbers has a least element.
LEMMA MinIsMember ==
  ASSUME NEW S \in SUBSET Nat, S # {}
  PROVE  Min(S) \in S /\ \A y \in S : Min(S) <= y
<1>1. PICK x \in S : \A y \in S : ~(<<y, x>> \in OpToRel(<, Nat))
  BY WFMin, NatLessThanWellFounded
<1>2. \A y \in S : ~(y < x)
  BY <1>1, Zenon DEF OpToRel
<1>3. \A y \in S : x <= y
  BY <1>2
<1> QED BY <1>3 DEF Min

\* The next instant of an expression lies ahead, as far as the clock goes.
LEMMA FindNextIsLater ==
  ASSUME NEW cron \in Cron, NEW t \in Nat, t <= MaxTime + 1
  PROVE  FindNext(cron, t) \in Instant /\ FindNext(cron, t) > t
<1> DEFINE S == {x \in cron : x > t}
<1>1. S \in SUBSET Nat /\ S \subseteq Instant
  BY SchedulesAssumption DEF Instant
<1>2. S # {}
  <2>1. PICK x \in cron : x > MaxTime + 1
    BY SchedulesAssumption
  <2>2. x \in Nat /\ MaxTime \in Nat
    BY SchedulesAssumption
  <2>3. x > t
    BY <2>1, <2>2
  <2> QED BY <2>3
<1>3. Min(S) \in S
  BY <1>1, <1>2, MinIsMember
<1> QED BY <1>1, <1>3 DEF FindNext

\* Instants are natural numbers.
LEMMA InstantsAreNat == {0} \cup Instant \subseteq Nat
  BY SchedulesAssumption DEF Instant

\* The constants of the model are well typed.
LEMMA NoneTypes ==
  /\ NoJob \in JobRow /\ NoCopy \in CopyRow /\ NoApi \in ApiRow
  /\ \A path \in Path, at \in {0} \cup Instant : Queued(path, at) \in JobRow
<1>1. (CHOOSE p \in Path : TRUE) \in Path
  BY SchedulesAssumption
<1>2. (CHOOSE r \in Row : TRUE) \in Row
  <2>1. \E r : r \in Row
    <3>1. PICK c \in Cron : TRUE
      BY SchedulesAssumption
    <3>2. PICK p \in Path : TRUE
      BY SchedulesAssumption
    <3>3. [enabled |-> TRUE, error |-> TRUE, cron |-> c, script_path |-> p] \in Row
      BY DEF Row
    <3> QED BY <3>3
  <2> QED BY <2>1
<1>3. NoJob \in JobRow
  BY <1>1 DEF NoJob, JobRow, Pc, Way
<1>4. NoCopy \in CopyRow
  BY <1>2 DEF NoCopy, CopyRow
<1>5. NoApi \in ApiRow
  BY <1>2 DEF NoApi, ApiRow
<1>6. ASSUME NEW path \in Path, NEW at \in {0} \cup Instant PROVE Queued(path, at) \in JobRow
  BY <1>3 DEF Queued, JobRow
<1> QED BY <1>3, <1>4, <1>5, <1>6

\* The type invariant in terms of the rows.
Types ==
    /\ now \in 0 .. MaxTime
    /\ isFlow \in BOOLEAN /\ noOverlap \in BOOLEAN
    /\ row \in Row
    /\ job \in [Slot -> JobRow] /\ copy \in [Slot -> CopyRow] /\ api \in ApiRow
    /\ spent \in Bound /\ lost \in BOOLEAN

\* Types is TypeOK with the sets of records named.
LEMMA TypesAreTypeOK == Types <=> TypeOK
  BY DEF Types, TypeOK, JobRow, CopyRow, ApiRow

\* A counter that is raised below its bound stays within it.
LEMMA FailsTypes == ASSUME Types, Fails PROVE spent' \in Bound /\ spent'.shifts = spent.shifts
                                             /\ spent'.edits = spent.edits
  BY SchedulesAssumption DEF Types, Fails, Bound

\* A job that is through is gone or goes on with its steps.
LEMMA ThroughTypes ==
  ASSUME Types, NEW j \in Slot
  PROVE  /\ Through(j) \in [Slot -> JobRow]
         /\ \A k \in Slot \ {j} : Through(j)[k] = job[k]
         /\ Through(j)[j] = IF job[j].ending THEN NoJob ELSE [job[j] EXCEPT !.pc = "pushed"]
<1>1. [job[j] EXCEPT !.pc = "pushed"] \in JobRow
  BY DEF Types, JobRow, Pc
<1> QED BY <1>1, NoneTypes DEF Through, Types

\* The row of a job after a step that sets several of its columns.
ReadRow(j) == [job[j] EXCEPT !.pc = "read", !.ending = job[j].pc = "complete"]
PulledRow(j) == [job[j] EXCEPT !.st = "running", !.saw = row.enabled,
                              !.pc = IF isFlow THEN "start" ELSE "complete"]
CanceledRow(j) == [job[j] EXCEPT !.st = "running", !.pc = "complete", !.canceled = TRUE,
                              !.saw = row.enabled]
StepsRow(j) == [job[j] EXCEPT !.pc = "steps", !.entered = job[j].way = "first"]
AgainRow(j, way) == [job[j] EXCEPT !.pc = "start", !.way = way]
PassedRow(j) == [job[j] EXCEPT !.pc = "steps", !.entered = TRUE, !.way = "on"]
RestartedRow(j) == [job[j] EXCEPT !.st = "queued", !.pc = "idle"]

\* The row that each step on one job makes of it.
LEMMA JobColumns ==
  ASSUME Types, NEW j \in Slot
  PROVE  /\ ReadSchedule(j) => job' = [job EXCEPT ![j] = ReadRow(j)]
         /\ Pull(j) => job' = [job EXCEPT ![j] = PulledRow(j)]
         /\ Cancel(j) => job' = [job EXCEPT ![j] = CanceledRow(j)]
         /\ PushStep(j) => job' = [job EXCEPT ![j] = StepsRow(j)]
         /\ RestartZombie(j) => job' = [job EXCEPT ![j] = RestartedRow(j)]
         /\ {ReadRow(j), PulledRow(j), CanceledRow(j),
             StepsRow(j), RestartedRow(j), PassedRow(j)} \subseteq JobRow
         /\ \A way \in Way : AgainRow(j, way) \in JobRow
<1>1. ASSUME ReadSchedule(j) PROVE job' = [job EXCEPT ![j] = ReadRow(j)]
  BY <1>1 DEF Types, ReadSchedule, ReadRow
<1>2. ASSUME Pull(j) PROVE job' = [job EXCEPT ![j] = PulledRow(j)]
  BY <1>2 DEF Types, Pull, PulledRow
<1>3. ASSUME Cancel(j) PROVE job' = [job EXCEPT ![j] = CanceledRow(j)]
  BY <1>3 DEF Types, Cancel, CanceledRow
<1>4. ASSUME PushStep(j) PROVE job' = [job EXCEPT ![j] = StepsRow(j)]
  BY <1>4 DEF Types, PushStep, StepsRow
<1>5. ASSUME RestartZombie(j) PROVE job' = [job EXCEPT ![j] = RestartedRow(j)]
  BY <1>5 DEF Types, RestartZombie, RestartedRow
<1>6. ReadRow(j) \in JobRow
  BY ZenonT(30) DEF Types, ReadRow, JobRow, Pc, Row
<1>7. PulledRow(j) \in JobRow
  BY ZenonT(30) DEF Types, PulledRow, JobRow, Pc, Row
<1>8. CanceledRow(j) \in JobRow
  BY ZenonT(30) DEF Types, CanceledRow, JobRow, Pc, Row
<1>9. StepsRow(j) \in JobRow
  BY ZenonT(30) DEF Types, StepsRow, JobRow, Pc, Row
<1>10. RestartedRow(j) \in JobRow
  BY ZenonT(30) DEF Types, RestartedRow, JobRow, Pc, Row
<1>11. PassedRow(j) \in JobRow
  BY ZenonT(30) DEF Types, PassedRow, JobRow, Pc, Row, Way
<1>12. ASSUME NEW way \in Way PROVE AgainRow(j, way) \in JobRow
  BY ZenonT(30) DEF Types, AgainRow, JobRow, Pc, Row
<1> QED BY <1>1, <1>2, <1>3, <1>4, <1>5, <1>6, <1>7, <1>8, <1>9, <1>10, <1>11, <1>12

\* What a failing handler makes of its job.
LEMMA HandleFailsRows ==
  ASSUME Types, NEW j \in Slot, HandleFails(j)
  PROVE  /\ copy' = copy /\ (lost => lost')
         /\ \/ job' = [job EXCEPT ![j] = NoJob] /\ job[j].entered
            \/ job' = [job EXCEPT ![j].pc = "complete"] /\ ~job[j].entered
            \/ /\ \E way \in Way : job' = [job EXCEPT ![j] = AgainRow(j, way)]
               /\ ~job[j].entered
            \/ /\ job' = [job EXCEPT ![j] = PassedRow(j)] /\ ~job[j].entered
               /\ At(j, "start") => lost'
<1>1. CASE /\ job[j].entered
           /\ job' = [job EXCEPT ![j] = NoJob]
           /\ UNCHANGED lost
  BY <1>1 DEF HandleFails
<1>2. CASE /\ ~job[j].entered
           /\ GoTo(j, "complete")
           /\ UNCHANGED lost
  BY <1>2 DEF HandleFails, GoTo
<1>3. CASE /\ ~job[j].entered
           /\ \E way \in {"first", "handler"} :
                 job' = [job EXCEPT ![j].pc = "start", ![j].way = way]
           /\ UNCHANGED lost
  <2>1. PICK way \in {"first", "handler"} :
            job' = [job EXCEPT ![j].pc = "start", ![j].way = way]
    BY <1>3
  <2>2. job' = [job EXCEPT ![j] = AgainRow(j, way)] /\ way \in Way
    BY <2>1 DEF Types, AgainRow, Way
  <2> QED BY <1>3, <2>2 DEF HandleFails
<1>4. CASE /\ ~job[j].entered
           /\ job' = [job EXCEPT ![j].pc = "steps", ![j].entered = TRUE, ![j].way = "on"]
           /\ lost' = (lost \/ At(j, "start"))
  <2>1. job' = [job EXCEPT ![j] = PassedRow(j)]
    BY <1>4 DEF Types, PassedRow
  <2> QED BY <1>4, <2>1 DEF HandleFails
<1> QED BY <1>1, <1>2, <1>3, <1>4 DEF HandleFails

\* What a step of one job may do to the jobs.
LEMMA HandleTypes ==
  ASSUME Types, RunsAreDue, NEW j \in Slot, HandleStep(j)
  PROVE  Types'
<1> USE NoneTypes
<1>1. CASE ReadSchedule(j)
  <2>1. job' \in [Slot -> JobRow]
    BY <1>1, JobColumns DEF Types
  <2>2. [NoCopy EXCEPT !.row = row] \in CopyRow
    BY DEF Types, CopyRow
  <2> QED BY <1>1, <2>1, <2>2 DEF ReadSchedule, Types
<1>2. CASE SkipPush(j) \/ SkipExisting(j)
  BY <1>2, ThroughTypes, ZenonT(30) DEF SkipPush, SkipExisting, Forget, Types
<1>3. CASE Check(j)
  <2> DEFINE next == FindNext(copy[j].row.cron, NowCutoff(job[j].at))
             exists == AlreadyExists(job[j].path, next, IF job[j].ending THEN {j} ELSE {})
  <2>1. NowCutoff(job[j].at) \in Nat /\ NowCutoff(job[j].at) <= MaxTime + 1
    BY <1>3, SchedulesAssumption DEF Check, At, RunsAreDue, Running, NowCutoff, Types, JobRow,
       Instant
  <2>2. copy[j].row.cron \in Cron
    BY DEF Types, CopyRow, Row
  <2>3. next \in Instant
    BY <2>1, <2>2, FindNextIsLater
  <2>4. exists \in BOOLEAN
    BY DEF AlreadyExists
  <2>5. [copy[j] EXCEPT !.next = next, !.exists = exists] \in CopyRow
    BY <2>3, <2>4 DEF Types, CopyRow
  <2>6. copy' = [copy EXCEPT ![j] = [copy[j] EXCEPT !.next = next, !.exists = exists]]
    BY <1>3 DEF Check, Types
  <2>7. job' \in [Slot -> JobRow]
    BY <1>3 DEF Check, GoTo, Types, JobRow, Pc
  <2>8. copy' \in [Slot -> CopyRow]
    <3> DEFINE new == [copy[j] EXCEPT !.next = next, !.exists = exists]
    <3> HIDE DEF new
    <3>1. new \in CopyRow /\ copy' = [copy EXCEPT ![j] = new]
      BY <2>5, <2>6 DEF new
    <3> QED BY <3>1 DEF Types
  <2>9. UNCHANGED <<now, isFlow, noOverlap, lost, row, api, spent>>
    BY <1>3 DEF Check
  <2> QED BY <2>7, <2>8, <2>9 DEF Types
<1>4. CASE PushTick(j)
  <2>1. Queued(job[j].path, copy[j].next) \in JobRow
    BY DEF Types, JobRow, CopyRow
  <2>2. row' \in Row
    BY <1>4 DEF PushTick, Types, Row
  <2> QED BY <1>4, <2>1, <2>2, ThroughTypes DEF PushTick, Forget, Types
<1>5. CASE StopOverlapping(j) \/ FinishFlow(j)
  <2>1. job' \in [Slot -> JobRow]
    BY <1>5 DEF StopOverlapping, FinishFlow, GoTo, Types, JobRow, Pc
  <2> QED BY <1>5, <2>1 DEF StopOverlapping, FinishFlow, Types
<1>6. CASE RunAlone(j)
  BY <1>6 DEF RunAlone, GoTo, Types, JobRow, Pc
<1>7. CASE PushStep(j)
  <2>1. job' \in [Slot -> JobRow]
    BY <1>7, JobColumns DEF Types
  <2> QED BY <1>7, <2>1 DEF PushStep, Types
<1> QED BY <1>1, <1>2, <1>3, <1>4, <1>5, <1>6, <1>7 DEF HandleStep

\* The types are kept by pulls, errors, crashes and the monitor.
LEMMA FaultTypes ==
  ASSUME Types, NEW j \in Slot,
         \/ Pull(j) \/ DisableSchedule(j) \/ PushFails(j) \/ HandleFails(j) \/ Reenter(j)
         \/ Crash(j) \/ RestartZombie(j) \/ FailZombie(j) \/ Cancel(j)
  PROVE  Types'
<1> USE NoneTypes
<1>1. CASE Pull(j)
  <2>1. job' \in [Slot -> JobRow]
    BY <1>1, JobColumns DEF Types
  <2> QED BY <1>1, <2>1 DEF Pull, Types
<1>2. CASE DisableSchedule(j)
  <2>1. row' \in Row
    BY <1>2 DEF DisableSchedule, Types, Row
  <2> QED BY <1>2, <2>1, ThroughTypes, FailsTypes DEF DisableSchedule, Forget, Types
<1>3. CASE PushFails(j)
  <2>1. job' \in [Slot -> JobRow]
    BY <1>3 DEF PushFails, GoTo, Types, JobRow, Pc
  <2> QED BY <1>3, <2>1, FailsTypes DEF PushFails, Types
<1>4. CASE HandleFails(j)
  <2>1. CASE job' = [job EXCEPT ![j].pc = "complete"]
    BY <1>4, <2>1, FailsTypes DEF HandleFails, Types, JobRow, Pc, At
  <2>2. CASE job' # [job EXCEPT ![j].pc = "complete"]
    <3>1. job' \in [Slot -> JobRow]
      BY <1>4, <2>2, HandleFailsRows, JobColumns DEF Types
    <3>2. lost' \in BOOLEAN
      BY <1>4 DEF HandleFails, Types, At
    <3> QED BY <1>4, <3>1, <3>2, FailsTypes DEF HandleFails, Types
  <2> QED BY <2>1, <2>2
<1>5. CASE Reenter(j)
  <2>1. job' \in [Slot -> JobRow]
    BY <1>5 DEF Reenter, GoTo, Types, JobRow, Pc
  <2>2. spent' \in Bound
    BY <1>5, SchedulesAssumption DEF Reenter, Types, Bound
  <2> QED BY <1>5, <2>1, <2>2 DEF Reenter, Types
<1>6. CASE Crash(j)
  <2>1. Queued(job[j].path, job[j].at) \in JobRow
    BY DEF Types, JobRow
  <2>2. job' \in [Slot -> JobRow]
    BY <1>6, <2>1 DEF Crash, GoTo, Types, JobRow, Pc
  <2> QED BY <1>6, <2>2, FailsTypes DEF Crash, Forget, Types
<1>7. CASE RestartZombie(j)
  BY <1>7, JobColumns DEF RestartZombie, Types
<1>8. CASE FailZombie(j)
  BY <1>8 DEF FailZombie, GoTo, Types, JobRow, Pc
<1>9. CASE Cancel(j)
  <2>1. job' \in [Slot -> JobRow]
    BY <1>9, JobColumns DEF Types
  <2>2. spent' \in Bound
    BY <1>9, SchedulesAssumption DEF Cancel, Types, Bound
  <2> QED BY <1>9, <2>1, <2>2 DEF Cancel, Types
<1> QED BY <1>1, <1>2, <1>3, <1>4, <1>5, <1>6, <1>7, <1>8, <1>9

\* The three requests that edit the schedule.
LEMMA EditTypes ==
  ASSUME Types, NEW new \in Row, Edit(new)
  PROVE  Types'
<1>1. FindNext(new.cron, now) \in Instant
  <2>1. now \in Nat /\ now <= MaxTime + 1 /\ new.cron \in Cron
    BY SchedulesAssumption DEF Types, Row
  <2> QED BY <2>1, FindNextIsLater
<1>2. ClearSchedule \in SUBSET Slot
  BY DEF ClearSchedule
<1>3. api' \in ApiRow
  BY <1>1, <1>2 DEF Edit, ApiRow, Row, AlreadyExists
<1>4. spent' \in Bound
  BY SchedulesAssumption DEF Edit, Types, Bound
<1> QED BY <1>3, <1>4 DEF Edit, Types

\* Every request of a user on the schedule is an edit of its row.
LEMMA EditsAreEdit ==
  ASSUME Types
  PROVE  /\ \A enabled \in BOOLEAN : SetEnabled(enabled) => \E new \in Row : Edit(new)
         /\ \A cron \in Cron : EditSchedule(cron) => \E new \in Row : Edit(new)
         /\ \A path \in Path : Rename(path) => \E new \in Row : Edit(new)
<1>1. /\ \A enabled \in BOOLEAN : [row EXCEPT !.enabled = enabled] \in Row
      /\ \A cron \in Cron : [row EXCEPT !.cron = cron] \in Row
      /\ \A path \in Path : [row EXCEPT !.script_path = path] \in Row
  BY DEF Types, Row
<1> QED BY <1>1 DEF SetEnabled, EditSchedule, Rename

\* What a commit leaves of a job, and where it puts the new tick.
LEMMA CommittedJobs ==
  ASSUME Types, NEW k \in Slot, CommitEdit
  PROVE  /\ Committed \in [Slot -> JobRow]
         /\ \/ /\ api.push /\ k = Min(Free(api.cleared))
               /\ Committed[k] = Queued(api.row.script_path, api.next)
            \/ /\ ~(api.push /\ k = Min(Free(api.cleared)))
               /\ k \in api.cleared /\ Committed[k] = NoJob
            \/ /\ ~(api.push /\ k = Min(Free(api.cleared)))
               /\ k \notin api.cleared
               /\ Committed[k] = [job[k] EXCEPT !.saw = @ \/ api.row.enabled]
<1> DEFINE left == [j \in Slot |-> IF j \in api.cleared THEN NoJob
                                   ELSE [job[j] EXCEPT !.saw = @ \/ api.row.enabled]]
           new == Queued(api.row.script_path, api.next)
<1>1. left \in [Slot -> JobRow]
  <2>1. \A j \in Slot : [job[j] EXCEPT !.saw = @ \/ api.row.enabled] \in JobRow
    BY DEF Types, JobRow
  <2> QED BY <2>1, NoneTypes
<1>2. new \in JobRow
  BY NoneTypes DEF Types, ApiRow, Row
<1>3. Committed = IF api.push THEN [left EXCEPT ![Min(Free(api.cleared))] = new] ELSE left
  BY DEF Committed
<1> HIDE DEF new
<1>4. Committed \in [Slot -> JobRow]
  BY <1>1, <1>2, <1>3
<1>5. CASE api.push /\ k = Min(Free(api.cleared))
  <2>1. Committed[k] = new
    BY <1>1, <1>3, <1>5
  <2> QED BY <1>4, <1>5, <2>1 DEF new
<1>6. CASE ~(api.push /\ k = Min(Free(api.cleared)))
  <2>1. Committed[k] = left[k]
    BY <1>3, <1>6
  <2> QED BY <1>4, <1>6, <2>1
<1> QED BY <1>4, <1>5, <1>6

\* Every step keeps the types.
LEMMA NextTypes == Types /\ RunsAreDue /\ [Next]_vars => Types'
<1> SUFFICES ASSUME Types, RunsAreDue, [Next]_vars PROVE Types'
  OBVIOUS
<1>1. ASSUME NEW j \in Slot, HandleStep(j) PROVE Types'
  BY <1>1, HandleTypes
<1>2. ASSUME NEW j \in Slot,
             \/ Pull(j) \/ DisableSchedule(j) \/ PushFails(j) \/ HandleFails(j) \/ Reenter(j)
             \/ Crash(j) \/ RestartZombie(j) \/ FailZombie(j) \/ Cancel(j)
      PROVE  Types'
  BY <1>2, FaultTypes
<1>3. ASSUME NEW new \in Row, Edit(new) PROVE Types'
  BY <1>3, EditTypes
<1>4. CASE CommitEdit
  <2>1. row' \in Row
    BY <1>4 DEF CommitEdit, Types, ApiRow, Row
  <2>2. job' \in [Slot -> JobRow]
    BY <1>4, CommittedJobs, SchedulesAssumption DEF CommitEdit
  <2> QED BY <1>4, <2>1, <2>2, NoneTypes DEF CommitEdit, Types
<1>5. CASE AbortEdit
  BY <1>5, NoneTypes, FailsTypes DEF AbortEdit, Types
<1>6. CASE Tick
  BY <1>6, SchedulesAssumption DEF Tick, Types
<1>7. CASE ClockShift
  <2>1. spent' \in Bound
    BY <1>7, SchedulesAssumption DEF ClockShift, Types, Bound
  <2> QED BY <1>7, <2>1, SchedulesAssumption DEF ClockShift, Types
<1>8. CASE UNCHANGED vars
  BY <1>8 DEF vars, Types
<1> QED BY <1>1, <1>2, <1>3, <1>4, <1>5, <1>6, <1>7, <1>8, EditsAreEdit DEF Next
-----------------------------------------------------------------------------
(* What the steps do, row by row.                                          *)

\* A step of job j leaves the other jobs and their copies alone.
Local(j) == \A k \in Slot \ {j} : job'[k] = job[k] /\ copy'[k] = copy[k]

\* Where the job goes, with the columns that stay; the copy that it had is kept,
\* replaced or forgotten.
Moves(j, pcs) ==
    /\ Local(j)
    /\ job'[j].pc \in pcs
    /\ job'[j].st = job[j].st /\ job'[j].at = job[j].at /\ job'[j].path = job[j].path
    /\ job'[j].canceled = job[j].canceled /\ job'[j].entered = job[j].entered
    /\ job'[j].ending = job[j].ending /\ job'[j].saw = job[j].saw

Leaves(j) == Local(j) /\ job'[j] = NoJob

PassesThrough(j) ==
    \/ Leaves(j) /\ job[j].ending
    \/ Moves(j, {"pushed"}) /\ ~job[j].ending

\* What each step of handling a job does to the job and to its copy of the schedule.
LEMMA StepEffects ==
  ASSUME Types, NEW j \in Slot
  PROVE  /\ Pull(j) => Local(j) /\ job'[j] = PulledRow(j) /\ copy' = copy
         /\ ReadSchedule(j) => /\ Local(j) /\ job'[j] = ReadRow(j)
                               /\ copy'[j].row = row
         /\ SkipPush(j) \/ SkipExisting(j) \/ DisableSchedule(j) => PassesThrough(j)
         /\ Check(j) => /\ Moves(j, {"checked"})
                        /\ copy'[j].row = copy[j].row
                        /\ copy'[j].next = FindNext(copy[j].row.cron, NowCutoff(job[j].at))
                        /\ copy'[j].exists =
                              AlreadyExists(job[j].path, copy'[j].next,
                                            IF job[j].ending THEN {j} ELSE {})
         /\ PushFails(j) => /\ Moves(j, {IF job[j].ending THEN "complete" ELSE "read"})
                            /\ copy' = copy
         /\ HandleFails(j) =>
                /\ copy' = copy
                /\ \/ Leaves(j) /\ job[j].entered
                   \/ (Moves(j, {"complete"}) \/ Moves(j, {"start"})) /\ ~job[j].entered
                   \/ /\ Local(j) /\ job'[j] = PassedRow(j) /\ ~job[j].entered
                      /\ At(j, "start") => lost'
         /\ StopOverlapping(j) => Leaves(j)
         /\ FinishFlow(j) => Leaves(j) \/ Moves(j, {"complete"})
         /\ RunAlone(j) => Moves(j, {"alone"})
         /\ PushStep(j) => Local(j) /\ job'[j] = StepsRow(j)
         /\ Reenter(j) => Moves(j, {"start", "pushed"})
         /\ Crash(j) => \/ Moves(j, {"dead"}) /\ ~job[j].canceled
                        \/ /\ Local(j) /\ job[j].canceled
                           /\ job'[j] = Queued(job[j].path, job[j].at)
         /\ RestartZombie(j) => Local(j) /\ job'[j] = RestartedRow(j)
         /\ FailZombie(j) => Moves(j, {"complete"})
         /\ Cancel(j) => Local(j) /\ job'[j] = CanceledRow(j) /\ copy' = copy
<1> USE DEF Types, Local
<1>1. Pull(j) => Local(j) /\ job'[j] = PulledRow(j) /\ copy' = copy
  <2>1. Pull(j) => copy' = copy
    BY DEF Pull
  <2> QED BY <2>1, JobColumns
<1>2. ReadSchedule(j) => Local(j) /\ job'[j] = ReadRow(j) /\ copy'[j].row = row
  <2>1. ReadSchedule(j) => job' = [job EXCEPT ![j] = ReadRow(j)]
    BY JobColumns
  <2>2. NoCopy \in CopyRow
    BY NoneTypes
  <2> DEFINE new == [NoCopy EXCEPT !.row = row]
  <2>3. new.row = row
    BY <2>2 DEF CopyRow
  <2>4. ReadSchedule(j) => copy' = [copy EXCEPT ![j] = new]
    BY DEF ReadSchedule
  <2> HIDE DEF new
  <2> QED BY <2>1, <2>3, <2>4
<1>3. SkipPush(j) \/ SkipExisting(j) \/ DisableSchedule(j) => PassesThrough(j)
  <2>1. ASSUME job' = Through(j), Forget(j) PROVE PassesThrough(j)
    <3>1. Local(j)
      BY <2>1, ThroughTypes DEF Forget
    <3>2. CASE job[j].ending
      BY <2>1, <3>1, <3>2, ThroughTypes DEF PassesThrough, Leaves
    <3>3. CASE ~job[j].ending
      <4>1. job'[j] = [job[j] EXCEPT !.pc = "pushed"]
        BY <2>1, <3>3, ThroughTypes
      <4>2. job[j] \in JobRow
        OBVIOUS
      <4> HIDE DEF Types, Local
      <4>3. Moves(j, {"pushed"})
        BY <3>1, <4>1, <4>2 DEF Moves, JobRow
      <4> QED BY <3>3, <4>3 DEF PassesThrough
    <3> QED BY <3>2, <3>3
  <2> QED BY <2>1 DEF SkipPush, SkipExisting, DisableSchedule
<1>4. Check(j) => /\ Moves(j, {"checked"})
                  /\ copy'[j].row = copy[j].row
                  /\ copy'[j].next = FindNext(copy[j].row.cron, NowCutoff(job[j].at))
                  /\ copy'[j].exists =
                        AlreadyExists(job[j].path, copy'[j].next,
                                      IF job[j].ending THEN {j} ELSE {})
  BY DEF Check, GoTo, Moves, JobRow, CopyRow
<1>5. PushFails(j) => Moves(j, {IF job[j].ending THEN "complete" ELSE "read"}) /\ copy' = copy
  BY DEF PushFails, GoTo, Moves, JobRow
<1>6. HandleFails(j) =>
          /\ copy' = copy
          /\ \/ Leaves(j) /\ job[j].entered
             \/ (Moves(j, {"complete"}) \/ Moves(j, {"start"})) /\ ~job[j].entered
             \/ /\ Local(j) /\ job'[j] = PassedRow(j) /\ ~job[j].entered
                /\ At(j, "start") => lost'
  <2> SUFFICES ASSUME HandleFails(j)
               PROVE  /\ copy' = copy
                      /\ \/ Leaves(j) /\ job[j].entered
                         \/ /\ Moves(j, {"complete"}) \/ Moves(j, {"start"})
                            /\ ~job[j].entered
                         \/ /\ Local(j) /\ job'[j] = PassedRow(j) /\ ~job[j].entered
                            /\ At(j, "start") => lost'
    OBVIOUS
  <2>1. CASE job' = [job EXCEPT ![j] = NoJob] /\ job[j].entered
    BY <2>1, HandleFailsRows DEF Leaves
  <2>2. CASE job' = [job EXCEPT ![j].pc = "complete"] /\ ~job[j].entered
    <3>1. copy' = copy
      BY HandleFailsRows
    <3>2. Moves(j, {"complete"})
      BY <2>2, <3>1 DEF Moves, JobRow
    <3> QED BY <2>2, <3>1, <3>2
  <2>3. ASSUME NEW way \in Way, job' = [job EXCEPT ![j] = AgainRow(j, way)]
        PROVE  Moves(j, {"start"})
    <3>1. Local(j) /\ job'[j] = AgainRow(j, way)
      BY <2>3, HandleFailsRows
    <3>2. /\ AgainRow(j, way).pc = "start"
          /\ AgainRow(j, way).st = job[j].st /\ AgainRow(j, way).at = job[j].at
          /\ AgainRow(j, way).path = job[j].path
          /\ AgainRow(j, way).canceled = job[j].canceled
          /\ AgainRow(j, way).entered = job[j].entered
          /\ AgainRow(j, way).ending = job[j].ending /\ AgainRow(j, way).saw = job[j].saw
      BY DEF AgainRow, JobRow
    <3> QED BY <3>1, <3>2 DEF Moves
  <2>4. CASE /\ job' = [job EXCEPT ![j] = PassedRow(j)] /\ ~job[j].entered
             /\ At(j, "start") => lost'
    BY <2>4, HandleFailsRows
  <2> QED BY <2>1, <2>2, <2>3, <2>4, HandleFailsRows
<1>7. /\ StopOverlapping(j) => Leaves(j)
      /\ FinishFlow(j) => Leaves(j) \/ Moves(j, {"complete"})
  BY DEF StopOverlapping, FinishFlow, GoTo, Moves, Leaves, JobRow
<1>8. RunAlone(j) => Moves(j, {"alone"})
  BY DEF RunAlone, GoTo, Moves, JobRow
<1>9. PushStep(j) => Local(j) /\ job'[j] = StepsRow(j)
  <2>1. PushStep(j) => copy' = copy
    BY DEF PushStep
  <2> QED BY <2>1, JobColumns
<1>10. Reenter(j) => Moves(j, {"start", "pushed"})
  BY DEF Reenter, GoTo, Moves, JobRow
<1>11. Crash(j) => \/ Moves(j, {"dead"}) /\ ~job[j].canceled
                   \/ /\ Local(j) /\ job[j].canceled
                      /\ job'[j] = Queued(job[j].path, job[j].at)
  BY DEF Crash, Forget, GoTo, Moves, JobRow
<1>12. RestartZombie(j) => Local(j) /\ job'[j] = RestartedRow(j)
  <2>1. RestartZombie(j) => copy' = copy
    BY DEF RestartZombie
  <2> QED BY <2>1, JobColumns
<1>13. FailZombie(j) => Moves(j, {"complete"})
  BY DEF FailZombie, GoTo, Moves, JobRow
<1>14. Cancel(j) => Local(j) /\ job'[j] = CanceledRow(j) /\ copy' = copy
  <2>1. Cancel(j) => copy' = copy
    BY DEF Cancel
  <2> QED BY <2>1, JobColumns
<1> HIDE DEF Types, Local
<1> QED BY <1>1, <1>2, <1>3, <1>4, <1>5, <1>6, <1>7, <1>8, <1>9, <1>10, <1>11, <1>12,
           <1>13, <1>14

\* The push of a tick: the run passes through and one row that was free is queued.
LEMMA PushEffects ==
  ASSUME Types, NEW j \in Slot, PushTick(j)
  PROVE  \E f \in Slot \ {j} :
            /\ job[f].st = "none" /\ job'[f] = Queued(job[j].path, copy[j].next)
            /\ \A k \in Slot \ {f} : job'[k] = Through(j)[k]
<1> DEFINE f == Min(Free({}))
<1>1. f \in Free({})
  BY MinIsMember, SchedulesAssumption DEF PushTick, Free
<1>2. f \in Slot /\ job[f].st = "none" /\ f # j
  BY <1>1 DEF Free, PushTick, At
<1>3. job' = [Through(j) EXCEPT ![f] = Queued(job[j].path, copy[j].next)]
  BY DEF PushTick
<1> HIDE DEF f
<1>4. /\ job'[f] = Queued(job[j].path, copy[j].next)
      /\ \A k \in Slot \ {f} : job'[k] = Through(j)[k]
  BY <1>2, <1>3, ThroughTypes
<1> QED BY <1>2, <1>4
-----------------------------------------------------------------------------
(* Runs that are cancelled, entered and due.                               *)

Plain == CanceledCompletes /\ EnteredRuns /\ RunsAreDue

\* Plain is a property of the single rows.
PlainAt(j) ==
    /\ job[j].canceled =>
          /\ Running(j)
          /\ job[j].pc = "complete" \/ (job[j].pc \in {"read", "checked"} /\ job[j].ending)
    /\ job[j].entered => Running(j) /\ job[j].pc # "dead"
    /\ Running(j) => job[j].at <= MaxTime /\ (spent.shifts = 0 => job[j].at <= now)

\* Plain is a property of each job by itself.
LEMMA PlainIsLocal == (Plain <=> \A j \in Slot : PlainAt(j))
  BY DEF Plain, PlainAt, CanceledCompletes, EnteredRuns, RunsAreDue

\* The columns that those rows share with the rows before, and the new ones.
LEMMA PulledColumns ==
  ASSUME Types, NEW j \in Slot
  PROVE  /\ PulledRow(j).st = "running" /\ PulledRow(j).pc \in {"start", "complete"}
         /\ PulledRow(j).saw = row.enabled
         /\ PulledRow(j).at = job[j].at /\ PulledRow(j).path = job[j].path
         /\ PulledRow(j).canceled = job[j].canceled /\ PulledRow(j).entered = job[j].entered
  BY DEF Types, JobRow, PulledRow

\* The row of a cancelled job.
LEMMA CanceledColumns ==
  ASSUME Types, NEW j \in Slot
  PROVE  /\ CanceledRow(j).st = "running" /\ CanceledRow(j).pc = "complete"
         /\ CanceledRow(j).saw = row.enabled
         /\ CanceledRow(j).at = job[j].at /\ CanceledRow(j).path = job[j].path
         /\ CanceledRow(j).entered = job[j].entered
  BY DEF Types, JobRow, CanceledRow

\* The row of a job whose handler has read the schedule.
LEMMA ReadColumns ==
  ASSUME Types, NEW j \in Slot
  PROVE  /\ ReadRow(j).pc = "read" /\ (ReadRow(j).ending <=> job[j].pc = "complete")
         /\ ReadRow(j).st = job[j].st /\ ReadRow(j).at = job[j].at
         /\ ReadRow(j).path = job[j].path /\ ReadRow(j).canceled = job[j].canceled
         /\ ReadRow(j).entered = job[j].entered /\ ReadRow(j).saw = job[j].saw
  BY DEF Types, JobRow, ReadRow

\* The row of a job that goes on to its steps.
LEMMA StepsColumns ==
  ASSUME Types, NEW j \in Slot
  PROVE  /\ StepsRow(j).pc = "steps"
         /\ StepsRow(j).st = job[j].st /\ StepsRow(j).at = job[j].at
         /\ StepsRow(j).path = job[j].path /\ StepsRow(j).canceled = job[j].canceled
         /\ StepsRow(j).saw = job[j].saw /\ StepsRow(j).way = job[j].way
  BY DEF Types, JobRow, StepsRow

\* The row of a job that leaves its first step behind.
LEMMA PassedColumns ==
  ASSUME Types, NEW j \in Slot
  PROVE  /\ PassedRow(j).pc = "steps" /\ PassedRow(j).way = "on"
         /\ PassedRow(j).st = job[j].st /\ PassedRow(j).at = job[j].at
         /\ PassedRow(j).path = job[j].path /\ PassedRow(j).canceled = job[j].canceled
         /\ PassedRow(j).saw = job[j].saw
  BY DEF Types, JobRow, PassedRow

\* The row of a job that the monitor gives back to the queue.
LEMMA RestartedColumns ==
  ASSUME Types, NEW j \in Slot
  PROVE  /\ RestartedRow(j).st = "queued"
         /\ RestartedRow(j).at = job[j].at /\ RestartedRow(j).path = job[j].path
         /\ RestartedRow(j).canceled = job[j].canceled /\ RestartedRow(j).entered = job[j].entered
  BY DEF Types, JobRow, RestartedRow

\* The columns of a job that is not there, and of one that is queued.
LEMMA NoneColumns ==
  NoJob.st = "none" /\ NoJob.canceled = FALSE /\ NoJob.entered = FALSE
  BY DEF NoJob

\* The row of a tick that is pushed.
LEMMA QueuedColumns ==
  \A path \in Path, at \in {0} \cup Instant :
      /\ Queued(path, at).st = "queued"
      /\ Queued(path, at).path = path /\ Queued(path, at).at = at
      /\ Queued(path, at).canceled = FALSE /\ Queued(path, at).entered = FALSE
  BY NoneTypes, NoneColumns DEF Queued, JobRow

\* What is not running is plain.
LEMMA NewIsPlain ==
  ASSUME NEW k \in Slot,
         \/ job'[k] = NoJob
         \/ \E path \in Path, at \in {0} \cup Instant : job'[k] = Queued(path, at)
  PROVE  PlainAt(k)'
  BY NoneColumns, QueuedColumns DEF PlainAt, Running

\* A run that goes on to another place of the handler stays plain.
LEMMA MovedIsPlain ==
  ASSUME Types, NEW j \in Slot, PlainAt(j), Running(j), Moves(j, Pc),
         now' = now, spent'.shifts = spent.shifts,
         job[j].canceled => \/ job'[j].pc = "complete"
                            \/ job'[j].pc \in {"read", "checked"} /\ job[j].ending,
         job[j].entered => job'[j].pc # "dead"
  PROVE  PlainAt(j)'
  BY DEF PlainAt, Running, Moves, Types, JobRow

\* Plain is kept by every step on a job.
LEMMA SlotPlain ==
  ASSUME Types, Plain, NEW j \in Slot,
         \/ HandleStep(j) \/ Pull(j) \/ DisableSchedule(j) \/ PushFails(j) \/ HandleFails(j)
         \/ Reenter(j) \/ Crash(j) \/ RestartZombie(j) \/ FailZombie(j) \/ Cancel(j)
  PROVE  Plain'
<1>0. \A k \in Slot : PlainAt(k)
  BY PlainIsLocal
<1>1. now' = now /\ spent'.shifts = spent.shifts
  BY FailsTypes DEF HandleStep, ReadSchedule, SkipPush, Check, SkipExisting, PushTick,
     StopOverlapping, RunAlone, PushStep, FinishFlow, Pull, DisableSchedule, PushFails,
     HandleFails, Reenter, Crash, RestartZombie, FailZombie, Cancel, Types, Bound
<1>2. ASSUME NEW k \in Slot, job'[k] = job[k] PROVE PlainAt(k)'
  BY <1>0, <1>1, <1>2 DEF PlainAt, Running
<1>3. SUFFICES \A k \in Slot : PlainAt(k)'
  BY DEF PlainAt, Plain, CanceledCompletes, EnteredRuns, RunsAreDue
<1>4. ASSUME Local(j), PlainAt(j)' PROVE \A k \in Slot : PlainAt(k)'
  BY <1>2, <1>4 DEF Local
<1>5. CASE ReadSchedule(j)
  <2>1. job'[j] = ReadRow(j) /\ Local(j)
    BY <1>5, StepEffects
  <2>2. /\ Running(j) /\ (job[j].canceled => job[j].pc = "complete")
        /\ job[j].at <= MaxTime /\ (spent.shifts = 0 => job[j].at <= now)
    BY <1>0, <1>5 DEF ReadSchedule, At, PlainAt, Running
  <2>3. /\ job'[j].st = "running" /\ job'[j].pc = "read" /\ job'[j].at = job[j].at
        /\ job'[j].canceled => job[j].canceled
        /\ job[j].pc = "complete" => job'[j].ending
    BY <2>1, <2>2, ReadColumns DEF Running
  <2>4. PlainAt(j)'
    BY <1>1, <2>2, <2>3 DEF PlainAt, Running
  <2> QED BY <1>4, <2>1, <2>4
<1>6. ASSUME PassesThrough(j), At(j, "read") \/ At(j, "checked") PROVE \A k \in Slot : PlainAt(k)'
  <2>1. CASE Leaves(j)
    BY <1>4, <2>1, NewIsPlain DEF Leaves
  <2>2. CASE Moves(j, {"pushed"}) /\ ~job[j].ending
    <3>1. ~job[j].canceled /\ Running(j)
      BY <1>0, <1>6, <2>2 DEF PlainAt, At, Running
    <3>2. PlainAt(j)'
      BY <1>0, <1>1, <2>2, <3>1, MovedIsPlain DEF Moves, Pc
    <3> QED BY <1>4, <2>2, <3>2 DEF Moves
  <2> QED BY <1>6, <2>1, <2>2 DEF PassesThrough
<1>7. CASE SkipPush(j) \/ SkipExisting(j) \/ DisableSchedule(j)
  BY <1>6, <1>7, StepEffects DEF SkipPush, SkipExisting, DisableSchedule
<1>8. CASE Check(j) \/ PushFails(j) \/ FailZombie(j)
  <2>1. Moves(j, Pc) /\ Running(j) /\ job'[j].pc # "dead"
    BY <1>8, StepEffects DEF Check, PushFails, FailZombie, At, Running, Moves, Pc
  <2>2. job[j].canceled => \/ job'[j].pc = "complete"
                           \/ job'[j].pc \in {"read", "checked"} /\ job[j].ending
    BY <1>0, <1>8, StepEffects DEF Check, PushFails, FailZombie, At, PlainAt, Running, Moves
  <2>3. PlainAt(j)'
    BY <1>0, <1>1, <2>1, <2>2, MovedIsPlain
  <2> QED BY <1>4, <2>1, <2>3 DEF Moves
<1>9. CASE HandleFails(j) \/ RunAlone(j) \/ Reenter(j) \/ FinishFlow(j)
  <2>1. Running(j) /\ job[j].pc \in {"start", "pushed", "alone", "steps"}
    BY <1>9 DEF HandleFails, Handling, RunAlone, Reenter, FinishFlow, At, Running
  <2>2. CASE Leaves(j)
    BY <1>4, <2>2, NewIsPlain DEF Leaves
  <2>3. CASE Moves(j, {"complete", "alone", "start", "pushed"})
    <3>1. Moves(j, Pc) /\ job'[j].pc # "dead" /\ ~job[j].canceled
      BY <1>0, <2>1, <2>3 DEF Moves, Pc, PlainAt
    <3>2. PlainAt(j)'
      BY <1>0, <1>1, <2>1, <3>1, MovedIsPlain
    <3> QED BY <1>4, <3>1, <3>2 DEF Moves
  <2>4. CASE Local(j) /\ job'[j] = PassedRow(j)
    <3>1. PlainAt(j)'
      BY <1>0, <1>1, <2>1, <2>4, PassedColumns DEF PlainAt, Running
    <3> QED BY <1>4, <2>4, <3>1
  <2> QED BY <1>9, <2>2, <2>3, <2>4, StepEffects DEF Moves
<1>10. CASE StopOverlapping(j)
  BY <1>4, <1>10, StepEffects, NewIsPlain DEF Leaves
<1>11. CASE PushStep(j)
  <2>1. job'[j] = StepsRow(j) /\ Local(j)
    BY <1>11, StepEffects
  <2>2. PlainAt(j)'
    BY <1>0, <1>1, <1>11, <2>1, StepsColumns DEF PushStep, At, PlainAt, Running
  <2> QED BY <1>4, <2>1, <2>2
<1>12. CASE Pull(j) \/ Cancel(j)
  <2>1. job[j].st = "queued" /\ job[j].at <= now
    BY <1>12 DEF Pull, Cancel
  <2>2. job[j].at <= MaxTime
    <3>1. job[j].at \in {0} \cup Instant /\ now \in 0 .. MaxTime
      BY Zenon DEF Types, JobRow
    <3>2. job[j].at \in Nat
      <4>1. Instant \subseteq Nat
        BY SchedulesAssumption, Zenon DEF Instant
      <4>2. {0} \cup Instant \subseteq Nat
        BY <4>1
      <4> QED BY <3>1, <4>2, Zenon
    <3>3. now \in Nat /\ MaxTime \in Nat /\ now <= MaxTime
      BY <3>1, SchedulesAssumption
    <3> QED BY <2>1, <3>2, <3>3
  <2>3. job'[j] \in {PulledRow(j), CanceledRow(j)} /\ Local(j)
    BY <1>12, StepEffects
  <2>4. PlainAt(j)'
    BY <1>0, <1>1, <2>1, <2>2, <2>3, PulledColumns, CanceledColumns DEF PlainAt, Running
  <2> QED BY <1>4, <2>3, <2>4
<1>13. CASE Crash(j)
  <2>1. CASE Moves(j, {"dead"}) /\ ~job[j].canceled
    <3>1. PlainAt(j)'
      BY <1>0, <1>1, <1>13, <2>1, MovedIsPlain DEF Crash, Moves, Pc, Running
    <3> QED BY <1>4, <2>1, <3>1 DEF Moves
  <2>2. CASE Local(j) /\ job'[j] = Queued(job[j].path, job[j].at)
    BY <1>4, <2>2, NewIsPlain DEF Types, JobRow
  <2> QED BY <1>13, <2>1, <2>2, StepEffects
<1>14. CASE RestartZombie(j)
  <2>1. job'[j] = RestartedRow(j) /\ Local(j)
    BY <1>14, StepEffects
  <2>2. PlainAt(j)'
    BY <1>0, <1>14, <2>1, RestartedColumns DEF RestartZombie, At, PlainAt, Running
  <2> QED BY <1>4, <2>1, <2>2
<1>15. CASE PushTick(j)
  <2>1. PICK f \in Slot \ {j} :
            /\ job'[f] = Queued(job[j].path, copy[j].next)
            /\ \A k \in Slot \ {f} : job'[k] = Through(j)[k]
    BY <1>15, PushEffects
  <2>2. PlainAt(f)'
    BY <2>1, NewIsPlain DEF Types, JobRow, CopyRow
  <2>3. \A k \in Slot \ {f, j} : PlainAt(k)'
    BY <1>2, <2>1, ThroughTypes
  <2>4. PlainAt(j)'
    <3>1. CASE job[j].ending
      BY <2>1, <3>1, ThroughTypes, NewIsPlain
    <3>2. CASE ~job[j].ending
      <4>1. job'[j] = [job[j] EXCEPT !.pc = "pushed"] /\ Running(j) /\ ~job[j].canceled
        BY <1>0, <1>15, <2>1, <3>2, ThroughTypes DEF PushTick, At, PlainAt, Running
      <4> QED BY <1>0, <1>1, <4>1 DEF PlainAt, Running, Types, JobRow
    <3> QED BY <3>1, <3>2
  <2> QED BY <2>2, <2>3, <2>4
<1> QED BY <1>5, <1>7, <1>8, <1>9, <1>10, <1>11, <1>12, <1>13, <1>14, <1>15 DEF HandleStep

\* Edits, commits and clocks do not touch the runs.
LEMMA NextPlain == Types /\ Plain /\ [Next]_vars => Plain'
<1> SUFFICES ASSUME Types, Plain, [Next]_vars PROVE Plain'
  OBVIOUS
<1>0. /\ \A k \in Slot : PlainAt(k)
      /\ (\A k \in Slot : PlainAt(k)') => Plain'
  BY DEF PlainAt, Plain, CanceledCompletes, EnteredRuns, RunsAreDue
<1>1. ASSUME job' = job, now' >= now, spent'.shifts = spent.shifts PROVE Plain'
  <2>1. ASSUME NEW k \in Slot PROVE PlainAt(k)'
    <3>1. job[k].at \in Nat /\ now \in Nat
      BY InstantsAreNat DEF Types, JobRow
    <3>2. now' \in Nat
      BY NextTypes DEF Types, Plain
    <3> QED BY <1>0, <1>1, <3>1, <3>2 DEF PlainAt, Running
  <2> QED BY <1>0, <2>1
<1>2. ASSUME NEW new \in Row, Edit(new) PROVE Plain'
  <2>1. job' = job /\ now' = now /\ spent'.shifts = spent.shifts
    BY <1>2 DEF Edit, Types, Bound
  <2> QED BY <1>1, <2>1 DEF Types
<1>3. CASE CommitEdit
  <2>1. now' = now /\ spent' = spent /\ job' = Committed
    BY <1>3 DEF CommitEdit
  <2>2. ASSUME NEW k \in Slot PROVE PlainAt(k)'
    <3>1. CASE job'[k] = NoJob
      BY <3>1, NewIsPlain
    <3>2. CASE job'[k] = Queued(api.row.script_path, api.next)
      BY <3>2, NewIsPlain DEF Types, ApiRow, Row
    <3>3. CASE job'[k] = [job[k] EXCEPT !.saw = @ \/ api.row.enabled]
      BY <1>0, <2>1, <3>3 DEF PlainAt, Running, Types, JobRow
    <3> QED BY <1>3, <2>1, <3>1, <3>2, <3>3, CommittedJobs
  <2> QED BY <1>0, <2>2
<1>4. CASE AbortEdit
  <2>1. job' = job /\ now' = now /\ spent'.shifts = spent.shifts
    BY <1>4, FailsTypes DEF AbortEdit
  <2> QED BY <1>1, <2>1 DEF Types
<1>5. CASE Tick
  <2>1. job' = job /\ now' >= now /\ spent' = spent
    BY <1>5 DEF Tick, Types
  <2> QED BY <1>1, <2>1
<1>6. CASE ClockShift
  <2>1. job' = job /\ spent'.shifts = spent.shifts + 1 /\ spent.shifts \in Nat
    BY <1>6 DEF ClockShift, Types, Bound
  <2> QED BY <1>0, <2>1 DEF PlainAt, Running
<1>7. CASE UNCHANGED vars
  BY <1>1, <1>7 DEF vars, Types
<1> QED BY <1>2, <1>3, <1>4, <1>5, <1>6, <1>7, SlotPlain, EditsAreEdit DEF Next
-----------------------------------------------------------------------------
(* What a run knows of the schedule.                                       *)

Knows == CheckedIsLater /\ SawEnabled /\ Unedited

\* Knows, but for the API, is a property of the single rows.
KnowsAt(j) ==
    /\ At(j, "checked") => MaySchedule(j) /\ copy[j].next > job[j].at
    /\ Running(j) /\ ~job[j].saw =>
          /\ ~row.enabled
          /\ job[j].pc \in {"read", "checked"} => ~copy[j].row.enabled
    /\ spent.edits = 0 /\ job[j].st # "none" =>
          /\ job[j].path = row.script_path
          /\ At(j, "read") \/ At(j, "checked") =>
                /\ copy[j].row.script_path = row.script_path
                /\ row.enabled => copy[j].row.enabled

\* While the schedule is not edited it can only be disabled, and a tick that was
\* lost stays lost.
NotEdited ==
    /\ row'.enabled => row.enabled
    /\ row'.script_path = row.script_path
    /\ spent'.edits = 0 => spent.edits = 0
    /\ lost => lost'

\* A job that is not touched knows what it knew.
LEMMA OthersKnow ==
  ASSUME NotEdited, NEW k \in Slot, KnowsAt(k), job'[k] = job[k], copy'[k] = copy[k]
  PROVE  KnowsAt(k)'
  BY DEF NotEdited, KnowsAt, At, Running, MaySchedule

\* A job that is not about to push needs no copy.
LEMMA MovedKnows ==
  ASSUME Types, NotEdited, NEW j \in Slot, KnowsAt(j), job[j].st # "none",
         job'[j].path = job[j].path,
         job'[j].st = "running" => /\ job'[j].pc \notin {"read", "checked"}
                                   /\ job'[j].saw \/ (Running(j) /\ ~job[j].saw) \/ ~row'.enabled
  PROVE  KnowsAt(j)'
  BY DEF NotEdited, KnowsAt, At, Running

\* A job that is gone need not know anything.
LEMMA GoneKnows ==
  ASSUME NEW j \in Slot, job'[j] = NoJob
  PROVE  KnowsAt(j)'
  BY NoneColumns DEF KnowsAt, At, Running

SlotStep(j) ==
    \/ HandleStep(j) \/ Pull(j) \/ DisableSchedule(j) \/ PushFails(j) \/ HandleFails(j)
    \/ Reenter(j) \/ Crash(j) \/ RestartZombie(j) \/ FailZombie(j) \/ Cancel(j)

\* No step of a job edits the schedule.
LEMMA SlotNotEdited ==
  ASSUME Types, NEW j \in Slot, SlotStep(j)
  PROVE  NotEdited /\ now' = now /\ api' = api /\ noOverlap' = noOverlap
         /\ spent'.shifts = spent.shifts
<1>1. CASE HandleStep(j) /\ ~PushTick(j)
  BY <1>1 DEF HandleStep, ReadSchedule, SkipPush, Check, SkipExisting,
     StopOverlapping, RunAlone, PushStep, FinishFlow, NotEdited
<1>2. CASE PushTick(j)
  BY <1>2 DEF PushTick, NotEdited, Types, Row
<1>3. CASE Pull(j) \/ RestartZombie(j) \/ FailZombie(j)
  BY <1>3 DEF Pull, RestartZombie, FailZombie, NotEdited
<1>4. CASE Cancel(j)
  BY <1>4 DEF Cancel, NotEdited, Types, Bound
<1>5. CASE Reenter(j)
  BY <1>5 DEF Reenter, NotEdited, Types, Bound
<1>6. CASE PushFails(j) \/ HandleFails(j) \/ Crash(j)
  <2>1. lost => lost'
    BY <1>6, HandleFailsRows DEF PushFails, Crash
  <2>2. UNCHANGED <<now, noOverlap, row, api>> /\ Fails
    BY <1>6 DEF PushFails, HandleFails, Crash
  <2> QED BY <2>1, <2>2, FailsTypes DEF NotEdited
<1>7. CASE DisableSchedule(j)
  <2>1. row'.enabled = FALSE /\ row'.script_path = row.script_path
    BY <1>7 DEF DisableSchedule, Types, Row
  <2> QED BY <1>7, <2>1, FailsTypes DEF DisableSchedule, NotEdited
<1> QED BY <1>1, <1>2, <1>3, <1>4, <1>5, <1>6, <1>7 DEF SlotStep

\* The next instant is ahead of the run's own one, wherever the clock is.
LEMMA NextIsLater ==
  ASSUME Types, RunsAreDue, NEW j \in Slot, Check(j)
  PROVE  copy'[j].next > job[j].at /\ copy'[j].next > now
<1> DEFINE t == NowCutoff(job[j].at)
<1>1. job[j].at \in Nat /\ now \in 0 .. MaxTime /\ MaxTime \in Nat /\ job[j].at <= MaxTime
  BY SchedulesAssumption DEF Types, JobRow, Instant, RunsAreDue, Running, Check, At
<1>2. t \in Nat /\ t <= MaxTime + 1 /\ t >= job[j].at /\ t >= now
  BY <1>1 DEF NowCutoff
<1>3. copy[j].row.cron \in Cron
  BY DEF Types, CopyRow, Row
<1> HIDE DEF t
<1>4. FindNext(copy[j].row.cron, t) \in Nat /\ FindNext(copy[j].row.cron, t) > t
  BY <1>2, <1>3, FindNextIsLater, SchedulesAssumption, ZenonT(30) DEF Instant
<1>5. copy'[j].next = FindNext(copy[j].row.cron, t)
  BY StepEffects DEF t
<1> QED BY <1>1, <1>2, <1>4, <1>5

\* Every step of a run keeps what it and the others know.
LEMMA SlotKnows ==
  ASSUME Types, Plain, NEW j \in Slot, SlotStep(j), \A k \in Slot : KnowsAt(k)
  PROVE  \A k \in Slot : KnowsAt(k)'
<1>0. NotEdited
  BY SlotNotEdited
<1>1. ASSUME Local(j), KnowsAt(j)' PROVE \A k \in Slot : KnowsAt(k)'
  BY <1>0, <1>1, OthersKnow DEF Local
<1>2. ASSUME Moves(j, Pc), Running(j), job'[j].pc \notin {"read", "checked"}
      PROVE  \A k \in Slot : KnowsAt(k)'
  <2>1. job'[j].path = job[j].path /\ job'[j].saw = job[j].saw /\ job[j].saw \in BOOLEAN
    BY <1>2 DEF Moves, Types, JobRow
  <2>2. KnowsAt(j)'
    BY <1>0, <1>2, <2>1, MovedKnows DEF Running
  <2> QED BY <1>1, <1>2, <2>2 DEF Moves
<1>3. ASSUME Leaves(j) PROVE \A k \in Slot : KnowsAt(k)'
  BY <1>1, <1>3, GoneKnows DEF Leaves
<1>4. CASE ReadSchedule(j)
  <2>1. Local(j) /\ job'[j] = ReadRow(j) /\ copy'[j].row = row
    BY <1>4, StepEffects
  <2>2. row' = row /\ spent' = spent /\ Running(j)
    BY <1>4 DEF ReadSchedule, At, Running
  <2>3. /\ job'[j].st = "running" /\ job'[j].pc = "read"
        /\ job'[j].path = job[j].path /\ job'[j].saw = job[j].saw
    BY <2>1, <2>2, ReadColumns DEF Running
  <2>4. KnowsAt(j)'
    BY <2>1, <2>2, <2>3 DEF KnowsAt, At, Running
  <2> QED BY <1>1, <2>1, <2>4
<1>5. CASE SkipPush(j) \/ SkipExisting(j) \/ DisableSchedule(j)
  <2>1. PassesThrough(j) /\ Running(j)
    BY <1>5, StepEffects DEF SkipPush, SkipExisting, DisableSchedule, At, Running
  <2> QED BY <1>2, <1>3, <2>1 DEF PassesThrough, Moves, Pc
<1>6. CASE Check(j)
  <2>1. Moves(j, {"checked"}) /\ copy'[j].row = copy[j].row /\ copy'[j].next > job[j].at
    BY <1>6, StepEffects, NextIsLater DEF Plain
  <2>2. /\ job'[j].st = job[j].st /\ job'[j].pc = "checked" /\ job'[j].at = job[j].at
        /\ job'[j].path = job[j].path /\ job'[j].saw = job[j].saw
    BY <2>1 DEF Moves, Types, JobRow
  <2>3. At(j, "read") /\ MaySchedule(j) /\ row' = row /\ spent' = spent
    BY <1>6 DEF Check
  <2>4. KnowsAt(j)'
    BY <2>1, <2>2, <2>3 DEF KnowsAt, At, Running, MaySchedule
  <2> QED BY <1>1, <2>1, <2>4 DEF Moves
<1>7. CASE PushFails(j)
  <2>1. Moves(j, {"complete", "read"}) /\ copy' = copy /\ At(j, "checked")
    BY <1>7, StepEffects DEF PushFails, Moves
  <2>2. /\ job'[j].st = job[j].st /\ job'[j].pc \in {"complete", "read"}
        /\ job'[j].path = job[j].path /\ job'[j].saw = job[j].saw
    BY <2>1 DEF Moves, Types, JobRow
  <2>3. KnowsAt(j)'
    BY <1>0, <2>1, <2>2 DEF KnowsAt, At, Running, NotEdited
  <2> QED BY <1>1, <2>1, <2>3 DEF Moves
<1>8. CASE HandleFails(j) \/ RunAlone(j) \/ Reenter(j) \/ FailZombie(j) \/ FinishFlow(j)
  <2>1. /\ Running(j)
        /\ \/ Leaves(j) \/ Moves(j, {"complete", "alone", "start", "pushed"})
           \/ Local(j) /\ job'[j] = PassedRow(j)
    BY <1>8, StepEffects DEF HandleFails, Handling, RunAlone, Reenter, FailZombie, FinishFlow,
       At, Running, Moves
  <2>2. CASE Local(j) /\ job'[j] = PassedRow(j)
    <3>1. /\ job'[j].pc = "steps" /\ job'[j].path = job[j].path /\ job'[j].saw = job[j].saw
          /\ job[j].saw \in BOOLEAN
      BY <2>2, PassedColumns DEF Types, JobRow
    <3>2. KnowsAt(j)'
      BY <1>0, <2>1, <3>1, MovedKnows DEF Running
    <3> QED BY <1>1, <2>2, <3>2
  <2> QED BY <1>2, <1>3, <2>1, <2>2 DEF Moves, Pc
<1>9. CASE StopOverlapping(j)
  BY <1>3, <1>9, StepEffects
<1>10. CASE PushStep(j)
  <2>1. Local(j) /\ job'[j] = StepsRow(j) /\ Running(j)
    BY <1>10, StepEffects DEF PushStep, At, Running
  <2>2. /\ job'[j].pc = "steps" /\ job'[j].path = job[j].path /\ job'[j].saw = job[j].saw
        /\ job[j].saw \in BOOLEAN
    BY <2>1, StepsColumns DEF Types, JobRow
  <2>3. KnowsAt(j)'
    BY <1>0, <2>1, <2>2, MovedKnows DEF Running
  <2> QED BY <1>1, <2>1, <2>3
<1>11. CASE Pull(j) \/ Cancel(j)
  <2>1. Local(j) /\ job'[j] \in {PulledRow(j), CanceledRow(j)}
    BY <1>11, StepEffects
  <2>2. job[j].st = "queued" /\ row' = row
    BY <1>11 DEF Pull, Cancel
  <2>3. /\ job'[j].path = job[j].path /\ job'[j].saw = row.enabled
        /\ job'[j].pc \in {"start", "complete"} /\ row.enabled \in BOOLEAN
    BY <2>1, PulledColumns, CanceledColumns DEF Types, Row
  <2>4. KnowsAt(j)'
    BY <1>0, <2>2, <2>3, MovedKnows
  <2> QED BY <1>1, <2>1, <2>4
<1>12. CASE Crash(j)
  <2>1. CASE Moves(j, {"dead"})
    BY <1>2, <1>12, <2>1 DEF Moves, Pc, Crash, Running
  <2>2. CASE Local(j) /\ job'[j] = Queued(job[j].path, job[j].at)
    <3>1. job[j].path \in Path /\ job[j].at \in {0} \cup Instant
      BY DEF Types, JobRow
    <3>2. job'[j].path = job[j].path /\ job'[j].st = "queued"
      <4> DEFINE q == Queued(job[j].path, job[j].at)
      <4>1. q.path = job[j].path /\ q.st = "queued"
        BY <3>1, QueuedColumns, Zenon
      <4>2. job'[j] = q
        BY <2>2
      <4> HIDE DEF q
      <4> QED BY <4>1, <4>2
    <3>3. job[j].st = "running"
      BY <1>12 DEF Crash
    <3> QED BY <1>0, <1>1, <2>2, <3>2, <3>3, MovedKnows
  <2> QED BY <1>12, <2>1, <2>2, StepEffects
<1>13. CASE RestartZombie(j)
  <2>1. Local(j) /\ job'[j] = RestartedRow(j)
    BY <1>13, StepEffects
  <2>2. job'[j].path = job[j].path /\ job'[j].st = "queued" /\ job[j].st = "running"
    BY <1>13, <2>1, RestartedColumns DEF RestartZombie, At
  <2> QED BY <1>0, <1>1, <2>1, <2>2, MovedKnows
<1>14. CASE PushTick(j)
  <2>1. PICK f \in Slot \ {j} :
            /\ job[f].st = "none"
            /\ job'[f] = Queued(job[j].path, copy[j].next)
            /\ \A k \in Slot \ {f} : job'[k] = Through(j)[k]
    BY <1>14, PushEffects
  <2>2. KnowsAt(f)'
    <3> DEFINE q == Queued(job[j].path, copy[j].next)
    <3>0. job[j].path \in Path /\ copy[j].next \in {0} \cup Instant
      BY DEF Types, JobRow, CopyRow
    <3>1. q.path = job[j].path /\ q.st = "queued" /\ job'[f] = q
      BY <2>1, <3>0, QueuedColumns, ZenonT(30)
    <3>2. job[j].st = "running"
      BY <1>14 DEF PushTick, At
    <3> HIDE DEF q
    <3> QED BY <1>0, <3>1, <3>2 DEF KnowsAt, At, Running, NotEdited
  <2>3. ASSUME NEW k \in Slot \ {f, j} PROVE KnowsAt(k)'
    <3>1. job'[k] = job[k] /\ copy'[k] = copy[k]
      BY <1>14, <2>1, ThroughTypes DEF PushTick, Forget, Types
    <3> QED BY <1>0, <3>1, OthersKnow
  <2>4. KnowsAt(j)'
    <3>1. CASE job[j].ending
      BY <2>1, <3>1, ThroughTypes, GoneKnows
    <3>2. CASE ~job[j].ending
      <4>1. job'[j] = [job[j] EXCEPT !.pc = "pushed"]
        BY <2>1, <3>2, ThroughTypes
      <4>2. /\ job'[j].path = job[j].path /\ job'[j].saw = job[j].saw
            /\ job'[j].pc = "pushed" /\ job[j].saw \in BOOLEAN /\ Running(j)
        BY <1>14, <4>1 DEF Types, JobRow, PushTick, At, Running
      <4> QED BY <1>0, <4>2, MovedKnows DEF Running
    <3> QED BY <3>1, <3>2
  <2> QED BY <2>2, <2>3, <2>4
<1> QED BY <1>4, <1>5, <1>6, <1>7, <1>8, <1>9, <1>10, <1>11, <1>12, <1>13, <1>14
        DEF SlotStep, HandleStep

\* The steps of a behaviour by who takes them.
LEMMA NextSteps ==
  ASSUME Types, [Next]_vars
  PROVE  \/ \E j \in Slot : SlotStep(j)
         \/ \E new \in Row : Edit(new)
         \/ CommitEdit \/ AbortEdit \/ Tick \/ ClockShift \/ UNCHANGED vars
  BY EditsAreEdit DEF Next, SlotStep

\* Who reads the old row after a commit was running before it.
LEMMA NextKnows == Types /\ Plain /\ Knows /\ [Next]_vars => Knows'
<1> SUFFICES ASSUME Types, Plain, Knows, [Next]_vars PROVE Knows'
  OBVIOUS
<1>0. /\ \A k \in Slot : KnowsAt(k)
      /\ spent.edits = 0 => ~api.open
      /\ (\A k \in Slot : KnowsAt(k)') /\ (spent'.edits = 0 => ~api'.open) => Knows'
  BY DEF KnowsAt, Knows, CheckedIsLater, SawEnabled, Unedited
<1>1. ASSUME NEW j \in Slot, SlotStep(j) PROVE Knows'
  BY <1>0, <1>1, SlotKnows, SlotNotEdited DEF NotEdited
<1>2. ASSUME UNCHANGED <<job, copy, row, lost>>, spent'.edits = spent.edits,
             spent.edits = 0 => ~api'.open
      PROVE  Knows'
  BY <1>0, <1>2, OthersKnow DEF NotEdited
<1>3. ASSUME NEW new \in Row, Edit(new) PROVE Knows'
  <2>1. UNCHANGED <<job, copy, row, lost>> /\ spent'.edits # 0
    BY <1>3 DEF Edit, Types, Bound
  <2> QED BY <1>0, <2>1, OthersKnow DEF NotEdited
<1>4. CASE CommitEdit
  <2>1. /\ spent' = spent /\ copy' = copy /\ job' = Committed /\ api' = NoApi
        /\ spent.edits # 0
    BY <1>0, <1>4 DEF CommitEdit
  <2>2. row'.enabled = api.row.enabled
    BY <1>4 DEF CommitEdit, Types, ApiRow, Row
  <2>3. ASSUME NEW k \in Slot PROVE KnowsAt(k)'
    <3>1. CASE job'[k] = NoJob
      BY <3>1, GoneKnows
    <3>2. CASE job'[k] = Queued(api.row.script_path, api.next)
      <4>1. api.row.script_path \in Path /\ api.next \in {0} \cup Instant
        BY DEF Types, ApiRow, Row
      <4>2. Queued(api.row.script_path, api.next).st = "queued"
        BY <4>1, QueuedColumns
      <4>3. job'[k].st = "queued"
        BY <3>2, <4>2
      <4> QED BY <2>1, <4>3 DEF KnowsAt, At, Running
    <3>3. CASE job'[k] = [job[k] EXCEPT !.saw = @ \/ api.row.enabled]
      <4>1. /\ job'[k].st = job[k].st /\ job'[k].pc = job[k].pc
            /\ job'[k].path = job[k].path /\ job'[k].at = job[k].at
            /\ job[k].saw \/ api.row.enabled => job'[k].saw
        <5>1. job[k] \in JobRow
          BY DEF Types
        <5>2. /\ job'[k].st = job[k].st /\ job'[k].pc = job[k].pc
              /\ job'[k].path = job[k].path /\ job'[k].at = job[k].at
          BY <3>3, <5>1 DEF JobRow
        <5>3. job'[k].saw = (job[k].saw \/ api.row.enabled)
          BY <3>3, <5>1, ZenonT(30) DEF JobRow
        <5> QED BY <5>2, <5>3, Zenon
      <4> QED BY <1>0, <2>1, <2>2, <4>1 DEF KnowsAt, At, Running, MaySchedule
    <3> QED BY <1>4, <2>1, <3>1, <3>2, <3>3, CommittedJobs
  <2> QED BY <1>0, <2>1, <2>3
<1>5. CASE AbortEdit
  <2>1. UNCHANGED <<job, copy, row, lost>> /\ spent'.edits = spent.edits /\ api' = NoApi
    BY <1>5, FailsTypes DEF AbortEdit
  <2> QED BY <1>2, <2>1 DEF NoApi
<1>6. CASE Tick \/ ClockShift \/ UNCHANGED vars
  <2>1. UNCHANGED <<job, copy, row, api, lost>> /\ spent'.edits = spent.edits
    BY <1>6 DEF Tick, ClockShift, vars, Types, Bound
  <2> QED BY <1>0, <1>2, <2>1
<1> QED BY <1>1, <1>3, <1>4, <1>5, <1>6, NextSteps
-----------------------------------------------------------------------------
(* No overlap.                                                             *)

\* A run only comes to be alone by looking for others.
LEMMA AloneStays ==
  ASSUME Types, NEW j \in Slot, SlotStep(j), noOverlap, NEW k \in Slot, Alone(k)'
  PROVE  /\ job'[k].path = job[k].path
         /\ Alone(k) \/ (RunAlone(j) /\ k = j)
<1>1. CASE PushTick(j)
  <2>1. PICK f \in Slot \ {j} :
            /\ job'[f] = Queued(job[j].path, copy[j].next)
            /\ \A i \in Slot \ {f} : job'[i] = Through(j)[i]
    BY <1>1, PushEffects
  <2>2. job[j].path \in Path /\ copy[j].next \in {0} \cup Instant
    BY DEF Types, JobRow, CopyRow
  <2>3. k # f
    <3>1. Queued(job[j].path, copy[j].next).st = "queued"
      BY <2>2, QueuedColumns
    <3> QED BY <2>1, <3>1 DEF Alone, Running
  <2>4. k # j
    <3>1. CASE job[j].ending
      <4>1. job'[j] = NoJob
        BY <2>1, <3>1, ThroughTypes
      <4> QED BY <4>1, NoneColumns DEF Alone, Running
    <3>2. CASE ~job[j].ending
      <4>1. job'[j] = [job[j] EXCEPT !.pc = "pushed"]
        BY <2>1, <3>2, ThroughTypes
      <4>2. job'[j].pc = "pushed"
        BY <4>1 DEF Types, JobRow
      <4> QED BY <4>2 DEF Alone
    <3> QED BY <3>1, <3>2
  <2>5. job'[k] = job[k]
    BY <2>1, <2>3, <2>4, ThroughTypes
  <2> QED BY <2>5 DEF Alone, Running
<1>2. CASE ~PushTick(j) /\ k # j
  <2>1. Local(j)
    BY <1>2, StepEffects DEF SlotStep, HandleStep, Moves, Leaves, PassesThrough
  <2> QED BY <1>2, <2>1 DEF Local, Alone, Running
<1>3. CASE ~PushTick(j) /\ k = j
  <2>1. ~Leaves(j)
    BY <1>3, NoneColumns DEF Leaves, Alone, Running
  <2>2. ASSUME NEW pcs, Moves(j, pcs), "alone" \notin pcs, "steps" \notin pcs PROVE FALSE
    BY <1>3, <2>2 DEF Moves, Alone
  <2>3. /\ ~SkipPush(j) /\ ~SkipExisting(j) /\ ~DisableSchedule(j)
    BY <2>1, <2>2, StepEffects DEF PassesThrough
  <2>4. ~Check(j) /\ ~PushFails(j) /\ ~HandleFails(j) /\ ~Reenter(j) /\ ~FailZombie(j)
    <3>1. job'[j] # PassedRow(j)
      BY <1>3, PassedColumns DEF Alone
    <3> QED BY <2>1, <2>2, <3>1, StepEffects
  <2>5. ~StopOverlapping(j) /\ ~FinishFlow(j)
    BY <2>1, <2>2, StepEffects
  <2>6. ~Pull(j) /\ ~Cancel(j) /\ ~RestartZombie(j) /\ ~ReadSchedule(j)
    BY <1>3, StepEffects, PulledColumns, CanceledColumns, ReadColumns,
       RestartedColumns DEF Alone, Running
  <2>7. ~Crash(j)
    <3>1. job[j].path \in Path /\ job[j].at \in {0} \cup Instant
      BY DEF Types, JobRow
    <3> QED BY <1>3, <2>2, <3>1, StepEffects, QueuedColumns, ZenonT(30) DEF Alone, Running
  <2>8. CASE PushStep(j)
    <3>1. job'[j] = StepsRow(j)
      BY <2>8, StepEffects
    <3>2. job[j].way = "first"
      BY <1>3, <3>1, StepsColumns DEF Alone
    <3>3. At(j, "alone")
      BY <2>8, <3>2 DEF PushStep, LooksAround
    <3> QED BY <1>3, <3>1, <3>2, <3>3, StepsColumns DEF Alone, Running, At
  <2>9. CASE RunAlone(j)
    BY <1>3, <2>9, StepEffects DEF Moves, Types, JobRow
  <2> QED BY <1>3, <2>3, <2>4, <2>5, <2>6, <2>7, <2>8, <2>9 DEF SlotStep, HandleStep
<1> QED BY <1>1, <1>2, <1>3

\* The run that looks is the only one if it finds no other: a run that is alone
\* is running and not cancelled.
LEMMA NextAlone == Types /\ Plain /\ OneAlone /\ [Next]_vars => OneAlone'
<1> SUFFICES ASSUME Types, Plain, OneAlone, [Next]_vars PROVE OneAlone'
  OBVIOUS
<1>1. ASSUME NEW j \in Slot, SlotStep(j) PROVE OneAlone'
  <2>1. SUFFICES ASSUME noOverlap, NEW i \in Slot, NEW k \in Slot, Alone(i)', Alone(k)',
                        job'[i].path = job'[k].path
                 PROVE  i = k
    BY <1>1, SlotNotEdited DEF OneAlone
  <2>2. job[i].path = job[k].path
    BY <1>1, <2>1, AloneStays
  <2>3. ASSUME RunAlone(j), NEW l \in Slot, Alone(l), job[l].path = job[j].path PROVE l = j
    <3>1. ~job[l].canceled
      BY <2>3 DEF Alone, Plain, CanceledCompletes
    <3> QED BY <2>3, <3>1 DEF RunAlone, Overlapping, Alone, Running
  <2> QED BY <1>1, <2>1, <2>2, <2>3, AloneStays DEF OneAlone
<1>2. ASSUME job' = job, noOverlap' = noOverlap PROVE OneAlone'
  BY <1>2 DEF OneAlone, Alone, Running
<1>3. ASSUME NEW new \in Row, Edit(new) PROVE OneAlone'
  BY <1>2, <1>3 DEF Edit
<1>4. CASE CommitEdit
  <2>1. noOverlap' = noOverlap /\ job' = Committed
    BY <1>4 DEF CommitEdit
  <2>2. ASSUME NEW k \in Slot, Alone(k)' PROVE Alone(k) /\ job'[k].path = job[k].path
    <3>1. api.row.script_path \in Path /\ api.next \in {0} \cup Instant
      BY DEF Types, ApiRow, Row
    <3>2. job'[k] = [job[k] EXCEPT !.saw = @ \/ api.row.enabled]
      BY <1>4, <2>1, <2>2, <3>1, CommittedJobs, NoneColumns, QueuedColumns DEF Alone, Running
    <3> QED BY <2>2, <3>2 DEF Alone, Running, Types, JobRow
  <2> QED BY <2>1, <2>2 DEF OneAlone
<1>5. CASE AbortEdit \/ Tick \/ ClockShift \/ UNCHANGED vars
  BY <1>2, <1>5 DEF AbortEdit, Tick, ClockShift, vars
<1> QED BY <1>1, <1>3, <1>4, <1>5, NextSteps
-----------------------------------------------------------------------------
(* The next tick.                                                          *)

\* A job is pushed, or the jobs of the queue are the old ones.
LEMMA NoNewJobs ==
  ASSUME Types, NEW j \in Slot, SlotStep(j), ~PushTick(j), NEW k \in Slot,
         job'[k].st # "none"
  PROVE  job[k].st # "none" /\ job'[k].at = job[k].at
<1>1. CASE k # j
  <2>1. Local(j)
    BY StepEffects DEF SlotStep, HandleStep, Moves, Leaves, PassesThrough
  <2> QED BY <1>1, <2>1 DEF Local
<1>2. CASE k = j
  <2>1. job[j].st # "none"
    BY DEF SlotStep, HandleStep, ReadSchedule, SkipPush, Check, SkipExisting, StopOverlapping,
       RunAlone, PushStep, FinishFlow, Pull, DisableSchedule, PushFails, HandleFails, Handling,
       Reenter, Crash, RestartZombie, FailZombie, Cancel, At
  <2>2. ~Leaves(j)
    BY <1>2, NoneColumns DEF Leaves
  <2>3. ASSUME NEW pcs, Moves(j, pcs) PROVE job'[j].at = job[j].at
    BY <2>3 DEF Moves, Types, JobRow
  <2>4. CASE SkipPush(j) \/ SkipExisting(j) \/ DisableSchedule(j)
    <3>1. Moves(j, {"pushed"})
      BY <2>2, <2>4, StepEffects DEF PassesThrough
    <3> QED BY <1>2, <2>1, <2>3, <3>1
  <2>5. CASE Check(j) \/ PushFails(j) \/ HandleFails(j) \/ RunAlone(j) \/ Reenter(j)
             \/ FailZombie(j) \/ FinishFlow(j)
    <3>1. (\E pcs : Moves(j, pcs)) \/ job'[j] = PassedRow(j)
      BY <2>2, <2>5, StepEffects
    <3> QED BY <1>2, <2>1, <2>3, <3>1, PassedColumns
  <2>6. CASE Pull(j) \/ Cancel(j) \/ ReadSchedule(j) \/ PushStep(j) \/ RestartZombie(j)
    <3>1. job'[j] \in {PulledRow(j), CanceledRow(j), ReadRow(j), StepsRow(j), RestartedRow(j)}
      BY <2>6, StepEffects
    <3> QED BY <1>2, <2>1, <3>1, PulledColumns, CanceledColumns, ReadColumns, StepsColumns,
               RestartedColumns
  <2>7. CASE Crash(j)
    <3>1. CASE Moves(j, {"dead"})
      BY <1>2, <2>1, <2>3, <3>1
    <3>2. CASE job'[j] = Queued(job[j].path, job[j].at)
      <4>1. Queued(job[j].path, job[j].at).at = job[j].at
        BY QueuedColumns DEF Types, JobRow
      <4> QED BY <1>2, <2>1, <3>2, <4>1
    <3> QED BY <2>7, <3>1, <3>2, StepEffects
  <2>8. CASE StopOverlapping(j)
    BY <2>2, <2>8, StepEffects
  <2> QED BY <2>4, <2>5, <2>6, <2>7, <2>8 DEF SlotStep, HandleStep
<1> QED BY <1>1, <1>2

\* A job stays responsible for the next tick until it has pushed it, has found
\* it in the queue, or has disabled the schedule.
LEMMA ResponsibleStays ==
  ASSUME Types, Plain, \A k \in Slot : KnowsAt(k),
         NEW j \in Slot, SlotStep(j), ~PushTick(j), ~DisableSchedule(j), ~lost',
         NEW m \in Slot, Responsible(m), row.enabled, job[m].path = row.script_path
  PROVE  \/ /\ Responsible(m)' /\ job'[m].st # "none"
            /\ job'[m].path = job[m].path /\ job'[m].at = job[m].at
         \/ m = j /\ Check(j) /\ copy'[j].exists
<1>1. CASE m # j
  <2>1. Local(j)
    BY StepEffects DEF SlotStep, HandleStep, Moves, Leaves, PassesThrough
  <2>2. job'[m] = job[m] /\ copy'[m] = copy[m]
    BY <1>1, <2>1 DEF Local
  <2> QED BY <2>2 DEF Responsible, MaySchedule, Running
<1>2. CASE m = j
  <2>0. job[j].entered \in BOOLEAN /\ (job[j].st = "queued" => ~job[j].entered)
    BY DEF Types, JobRow, Plain, EnteredRuns, Running
  <2>1. CASE ReadSchedule(j)
    <3>1. job'[j] = ReadRow(j) /\ copy'[j].row = row
      BY <2>1, StepEffects
    <3>2. Running(j) /\ ~job[j].entered
      BY <1>2, <2>1 DEF ReadSchedule, At, Responsible, Running
    <3>3. /\ job'[j].st = "running" /\ job'[j].pc = "read" /\ ~job'[j].entered
          /\ job'[j].path = job[j].path /\ job'[j].at = job[j].at
      BY <3>1, <3>2, ReadColumns DEF Running
    <3> QED BY <1>2, <3>1, <3>2, <3>3 DEF Responsible, MaySchedule, Running
  <2>2. ASSUME NEW pc \in Pc, Moves(j, {pc})
        PROVE  /\ job'[j].st = job[j].st /\ job'[j].pc = pc /\ job'[j].entered = job[j].entered
               /\ job'[j].path = job[j].path /\ job'[j].at = job[j].at
    BY <2>2 DEF Moves, Types, JobRow
  <2>3. CASE Check(j)
    <3>1. Moves(j, {"checked"}) /\ At(j, "read")
      BY <2>3, StepEffects DEF Check
    <3>2. copy'[j].exists \in BOOLEAN
      BY <2>3, StepEffects DEF AlreadyExists
    <3> QED BY <1>2, <2>2, <2>3, <3>1, <3>2 DEF At, Responsible, Running, Pc
  <2>4. CASE PushFails(j)
    <3>1. /\ Moves(j, {"complete"}) \/ Moves(j, {"read"})
          /\ copy' = copy /\ At(j, "checked")
      BY <2>4, StepEffects DEF PushFails
    <3>2. MaySchedule(j)
      BY <3>1 DEF KnowsAt
    <3>3. Running(j) /\ ~job[j].entered
      BY <1>2, <3>1 DEF At, Responsible, Running
    <3>4. /\ job'[j].st = "running" /\ job'[j].pc \in {"complete", "read"}
          /\ job'[j].entered = job[j].entered
          /\ job'[j].path = job[j].path /\ job'[j].at = job[j].at
      BY <2>2, <3>1, <3>3 DEF Running, Pc
    <3>5. MaySchedule(j)'
      BY <3>1, <3>2, <3>4 DEF MaySchedule
    <3> QED BY <1>2, <3>3, <3>4, <3>5 DEF Responsible, Running
  <2>5. CASE HandleFails(j)
    <3>1. ~job[j].entered /\ job[j].st = "running" /\ At(j, "start")
      BY <1>2, <2>5 DEF HandleFails, Handling, At, Responsible, Running
    <3>2. Moves(j, {"complete"}) \/ Moves(j, {"start"})
      BY <2>5, <3>1, StepEffects
    <3>3. /\ job'[j].st = job[j].st /\ job'[j].pc \in {"complete", "start"}
          /\ job'[j].entered = job[j].entered
          /\ job'[j].path = job[j].path /\ job'[j].at = job[j].at
      BY <2>2, <3>2 DEF Pc
    <3> QED BY <1>2, <3>1, <3>3 DEF Responsible, Running
  <2>6. CASE FailZombie(j)
    <3>1. Moves(j, {"complete"}) /\ At(j, "dead")
      BY <2>6, StepEffects DEF FailZombie
    <3>2. /\ job'[j].st = job[j].st /\ job'[j].pc = "complete" /\ job'[j].entered = job[j].entered
          /\ job'[j].path = job[j].path /\ job'[j].at = job[j].at
      BY <2>2, <3>1 DEF Pc
    <3> QED BY <1>2, <3>1, <3>2 DEF Responsible, Running, At
  <2>7. CASE Pull(j) \/ Cancel(j)
    <3>1. job'[j] \in {PulledRow(j), CanceledRow(j)} /\ job[j].st = "queued"
      BY <2>7, StepEffects DEF Pull, Cancel
    <3>2. /\ job'[j].st = "running" /\ job'[j].pc \in {"start", "complete"}
          /\ ~job'[j].entered
          /\ job'[j].path = job[j].path /\ job'[j].at = job[j].at
      <4>1. CASE job'[j] = PulledRow(j)
        BY <2>0, <3>1, <4>1, PulledColumns, ZenonT(30)
      <4>2. CASE job'[j] = CanceledRow(j)
        BY <2>0, <3>1, <4>2, CanceledColumns, ZenonT(30)
      <4> QED BY <3>1, <4>1, <4>2
    <3> QED BY <1>2, <3>2 DEF Responsible, Running
  <2>8. CASE RestartZombie(j)
    <3>1. job'[j] = RestartedRow(j)
      BY <2>8, StepEffects
    <3>2. job'[j].st = "queued" /\ job'[j].path = job[j].path /\ job'[j].at = job[j].at
      BY <3>1, RestartedColumns
    <3> QED BY <1>2, <3>2 DEF Responsible
  <2>9. CASE Crash(j)
    <3>1. Running(j) /\ ~job[j].entered
      BY <2>9 DEF Crash, Running
    <3>2. CASE Moves(j, {"dead"})
      <4>1. /\ job'[j].st = job[j].st /\ job'[j].pc = "dead" /\ job'[j].entered = job[j].entered
            /\ job'[j].path = job[j].path /\ job'[j].at = job[j].at
        BY <2>2, <3>2 DEF Pc
      <4> QED BY <1>2, <3>1, <4>1 DEF Responsible, Running
    <3>3. CASE job'[j] = Queued(job[j].path, job[j].at)
      <4> DEFINE q == Queued(job[j].path, job[j].at)
      <4>0. job[j].path \in Path /\ job[j].at \in {0} \cup Instant
        BY DEF Types, JobRow
      <4>1. q.st = "queued" /\ q.path = job[j].path /\ q.at = job[j].at
        BY <4>0, QueuedColumns, ZenonT(30)
      <4> HIDE DEF q
      <4>2. job'[j] = q
        BY <3>3 DEF q
      <4> QED BY <1>2, <4>1, <4>2 DEF Responsible
    <3> QED BY <2>9, <3>2, <3>3, StepEffects
  <2>10. ~SkipPush(j) /\ ~SkipExisting(j) /\ ~StopOverlapping(j) /\ ~RunAlone(j)
         /\ ~PushStep(j) /\ ~FinishFlow(j) /\ ~Reenter(j)
    BY <1>2 DEF Responsible, Running, At, SkipPush, SkipExisting, StopOverlapping, RunAlone,
       PushStep, LooksAround, FinishFlow, Reenter
  <2> QED BY <2>1, <2>3, <2>4, <2>5, <2>6, <2>7, <2>8, <2>9, <2>10 DEF SlotStep, HandleStep
<1> QED BY <1>1, <1>2

Ahead == EditPushes /\ TickAhead /\ LatestIsAhead

\* The tick that a step of a job leaves in the queue, when the clock was never
\* set back: a tick that is found is not due yet.
LEMMA SlotTick ==
  ASSUME Types, Plain, Knows, TickAhead, NEW j \in Slot, SlotStep(j)
  PROVE  TickAhead'
<1>0. \A k \in Slot : KnowsAt(k)
  BY DEF KnowsAt, Knows, CheckedIsLater, SawEnabled, Unedited
<1>1. SUFFICES ASSUME spent.shifts = 0, row.enabled, row'.enabled, ~lost, ~lost'
               PROVE  \E k \in Slot : job'[k].path = row.script_path /\ Responsible(k)'
  BY SlotNotEdited DEF TickAhead, NotEdited
<1>2. PICK m \in Slot : job[m].path = row.script_path /\ Responsible(m)
  BY <1>1 DEF TickAhead
<1>3. ~DisableSchedule(j)
  BY <1>1 DEF DisableSchedule, Types, Row
<1>4. CASE PushTick(j)
  <2>1. PICK f \in Slot \ {j} :
            /\ job[f].st = "none" /\ job'[f] = Queued(job[j].path, copy[j].next)
            /\ \A k \in Slot \ {f} : job'[k] = Through(j)[k]
    BY <1>4, PushEffects
  <2>2. CASE m = j
    <3>1. Queued(job[j].path, copy[j].next).path = job[j].path
          /\ Queued(job[j].path, copy[j].next).st = "queued"
      <4>1. job[j].path \in Path /\ copy[j].next \in {0} \cup Instant
        BY DEF Types, JobRow, CopyRow
      <4> QED BY <4>1, QueuedColumns
    <3> QED BY <1>2, <2>1, <2>2, <3>1 DEF Responsible
  <2>3. CASE m # j
    <3>1. m # f
      BY <1>2, <2>1 DEF Responsible, Running
    <3>2. job'[m] = job[m] /\ copy'[m] = copy[m]
      BY <1>4, <2>1, <2>3, <3>1, ThroughTypes DEF PushTick, Forget, Types
    <3> QED BY <1>2, <3>2 DEF Responsible, MaySchedule, Running
  <2> QED BY <2>2, <2>3
<1>5. CASE Check(j) /\ copy'[j].exists
  <2>1. PICK i \in Slot : job[i].st # "none" /\ job[i].path = job[j].path
                          /\ job[i].at = copy'[j].next
    BY <1>5, StepEffects DEF AlreadyExists
  <2>2. job[i].at > now /\ job[i].at \in Nat /\ now \in Nat
    BY <1>5, <2>1, NextIsLater, InstantsAreNat DEF Plain, Types, JobRow
  <2>3. job[i].st = "queued" /\ i # j
    BY <1>1, <1>5, <2>1, <2>2 DEF Plain, RunsAreDue, Running, Types, JobRow, Check, At
  <2>4. job'[i] = job[i]
    <3>1. Local(j)
      BY <1>5, StepEffects DEF Moves
    <3> QED BY <2>3, <3>1 DEF Local
  <2>5. CASE m = j
    BY <1>2, <2>1, <2>3, <2>4, <2>5 DEF Responsible
  <2>6. CASE m # j
    <3>1. ~PushTick(j)
      BY <1>5 DEF Check, PushTick, At
    <3> QED BY <1>0, <1>1, <1>2, <1>3, <2>6, <3>1, ResponsibleStays
  <2> QED BY <2>5, <2>6
<1> QED BY <1>0, <1>1, <1>2, <1>3, <1>4, <1>5, ResponsibleStays

\* The latest tick, when the schedule was never edited.
LEMMA SlotLatest ==
  ASSUME Types, Plain, Knows, LatestIsAhead, NEW j \in Slot, SlotStep(j)
  PROVE  LatestIsAhead'
<1>0. \A k \in Slot : KnowsAt(k)
  BY DEF KnowsAt, Knows, CheckedIsLater, SawEnabled, Unedited
<1>1. SUFFICES ASSUME spent.edits = 0, row.enabled, row'.enabled, ~lost, ~lost'
               PROVE  \E k \in Slot : Responsible(k)' /\ Latest(k)'
  BY SlotNotEdited DEF LatestIsAhead, NotEdited
<1>2. PICK m \in Slot : Responsible(m) /\ Latest(m)
  BY <1>1 DEF LatestIsAhead
<1>3. job[m].path = row.script_path /\ job[m].st # "none"
  BY <1>0, <1>1, <1>2 DEF Responsible, Running, KnowsAt
<1>4. ~DisableSchedule(j)
  BY <1>1 DEF DisableSchedule, Types, Row
<1>5. \A k \in Slot : job[k].at \in Nat /\ copy[k].next \in Nat
  BY InstantsAreNat DEF Types, JobRow, CopyRow
<1>6. CASE PushTick(j)
  <2>1. PICK f \in Slot \ {j} :
            /\ job[f].st = "none" /\ job'[f] = Queued(job[j].path, copy[j].next)
            /\ \A k \in Slot \ {f} : job'[k] = Through(j)[k]
    BY <1>6, PushEffects
  <2>2. Queued(job[j].path, copy[j].next).at = copy[j].next
        /\ Queued(job[j].path, copy[j].next).st = "queued"
    <3>1. job[j].path \in Path /\ copy[j].next \in {0} \cup Instant
      BY DEF Types, JobRow, CopyRow
    <3> QED BY <3>1, QueuedColumns
  <2>3. job'[f].at = copy[j].next /\ job'[f].st = "queued"
    BY <2>1, <2>2
  <2>4. ASSUME NEW k \in Slot \ {f}, job'[k].st # "none"
        PROVE  job[k].st # "none" /\ job'[k].at = job[k].at
    <3>1. CASE k # j
      BY <2>1, <2>4, <3>1, ThroughTypes
    <3>2. CASE k = j /\ job[j].ending
      BY <2>1, <2>4, <3>2, ThroughTypes, NoneColumns
    <3>3. CASE k = j /\ ~job[j].ending
      <4>1. job'[j] = [job[j] EXCEPT !.pc = "pushed"]
        BY <2>1, <3>3, ThroughTypes
      <4>2. job'[j].at = job[j].at /\ job[j].st = "running"
        BY <1>6, <4>1 DEF Types, JobRow, PushTick, At
      <4> QED BY <3>3, <4>2
    <3> QED BY <3>1, <3>2, <3>3
  <2>5. copy[j].next > job[j].at
    BY <1>0, <1>6 DEF KnowsAt, PushTick
  <2>6. CASE copy[j].next > job[m].at
    <3>1. Latest(f)'
      BY <1>2, <1>5, <2>3, <2>4, <2>6 DEF Latest
    <3> QED BY <2>3, <3>1 DEF Responsible
  <2>7. CASE copy[j].next <= job[m].at
    <3>1. m # j /\ m # f
      BY <1>3, <1>5, <2>1, <2>5, <2>7
    <3>2. job'[m] = job[m] /\ copy'[m] = copy[m]
      BY <1>6, <2>1, <3>1, ThroughTypes DEF PushTick, Forget, Types
    <3>3. Responsible(m)'
      BY <1>2, <3>2 DEF Responsible, MaySchedule, Running
    <3>4. Latest(m)'
      BY <1>2, <2>3, <2>4, <2>7, <3>2 DEF Latest
    <3> QED BY <3>3, <3>4
  <2> QED BY <1>5, <2>6, <2>7
<1>7. CASE ~PushTick(j)
  <2>1. ~(m = j /\ Check(j) /\ copy'[j].exists)
    <3>1. SUFFICES ASSUME m = j, Check(j), copy'[j].exists PROVE FALSE
      OBVIOUS
    <3>2. PICK i \in Slot : job[i].st # "none" /\ job[i].at = copy'[j].next
      BY <3>1, StepEffects DEF AlreadyExists
    <3>3. job[i].at > job[m].at
      BY <3>1, <3>2, NextIsLater DEF Plain
    <3> QED BY <1>2, <1>5, <3>2, <3>3 DEF Latest
  <2>2. Responsible(m)' /\ job'[m].at = job[m].at
    BY <1>0, <1>1, <1>2, <1>3, <1>4, <1>7, <2>1, ResponsibleStays
  <2>3. Latest(m)'
    BY <1>2, <1>7, <2>2, NoNewJobs DEF Latest
  <2> QED BY <2>2, <2>3
<1> QED BY <1>6, <1>7

\* The next tick stays ahead, whatever step is taken.
LEMMA NextAhead == Types /\ Plain /\ Knows /\ Ahead /\ [Next]_vars => Ahead'
<1> SUFFICES ASSUME Types, Plain, Knows, Ahead, [Next]_vars PROVE Ahead'
  OBVIOUS
<1>1. ASSUME NEW j \in Slot, SlotStep(j) PROVE Ahead'
  <2>1. EditPushes'
    BY <1>1, SlotNotEdited DEF Ahead, EditPushes
  <2> QED BY <1>1, <2>1, SlotTick, SlotLatest DEF Ahead
<1>2. ASSUME UNCHANGED <<job, copy, row, lost>>, spent'.shifts # 0 \/ spent'.shifts = spent.shifts
      PROVE  TickAhead' /\ (spent'.edits = spent.edits => LatestIsAhead')
  <2>1. \A k \in Slot : (Responsible(k) => Responsible(k)') /\ (Latest(k) => Latest(k)')
    BY <1>2 DEF Responsible, Latest, MaySchedule, Running
  <2> QED BY <1>2, <2>1 DEF Ahead, TickAhead, LatestIsAhead
<1>3. ASSUME NEW new \in Row, Edit(new) PROVE Ahead'
  <2> DEFINE next == FindNext(new.cron, now)
  <2>1. /\ UNCHANGED <<job, copy, row, lost>> /\ spent'.shifts = spent.shifts
        /\ spent'.edits # 0
    BY <1>3 DEF Edit, Types, Bound
  <2>2. /\ api'.row = new
        /\ api'.push = (new.enabled /\ ~AlreadyExists(new.script_path, next, ClearSchedule))
    BY <1>3 DEF Edit
  <2>3. next > now /\ next \in Nat /\ now \in Nat
    <3>1. now \in Nat /\ now <= MaxTime + 1 /\ new.cron \in Cron
      BY SchedulesAssumption DEF Types, Row
    <3> QED BY <3>1, FindNextIsLater, InstantsAreNat
  <2> HIDE DEF next
  <2>4. spent.shifts = 0 => ~AlreadyExists(new.script_path, next, ClearSchedule)
    <3>1. SUFFICES ASSUME spent.shifts = 0, NEW i \in Slot \ ClearSchedule,
                          job[i].st # "none", job[i].at = next
                   PROVE  FALSE
      BY DEF AlreadyExists
    <3>2. job[i].st = "running"
      BY <3>1 DEF ClearSchedule, Types, JobRow
    <3> QED BY <2>3, <3>1, <3>2 DEF Plain, RunsAreDue, Running
  <2>5. EditPushes'
    BY <2>1, <2>2, <2>4 DEF EditPushes
  <2> QED BY <1>2, <2>1, <2>5 DEF Ahead, LatestIsAhead
<1>4. CASE CommitEdit
  <2> DEFINE f == Min(Free(api.cleared))
  <2>1. /\ spent' = spent /\ job' = Committed /\ api' = NoApi /\ api.open
        /\ spent.edits # 0
    BY <1>4 DEF CommitEdit, Knows, Unedited
  <2>2. row'.enabled = api.row.enabled /\ row'.script_path = api.row.script_path
    BY <1>4 DEF CommitEdit, Types, ApiRow, Row
  <2>3. TickAhead'
    <3>1. SUFFICES ASSUME spent.shifts = 0, row'.enabled
                   PROVE  \E k \in Slot : job'[k].path = row'.script_path /\ Responsible(k)'
      BY <2>1 DEF TickAhead
    <3>2. api.push
      BY <2>1, <2>2, <3>1 DEF Ahead, EditPushes
    <3>3. f \in Slot
      BY <1>4, <3>2, MinIsMember, SchedulesAssumption DEF CommitEdit, Free
    <3>4. job'[f] = Queued(api.row.script_path, api.next)
      <4>1. \A k \in Slot : k = f => Committed[k] = Queued(api.row.script_path, api.next)
        BY <1>4, <3>2, CommittedJobs
      <4> QED BY <2>1, <3>3, <4>1
    <3> HIDE DEF f
    <3>5. /\ Queued(api.row.script_path, api.next).path = api.row.script_path
          /\ Queued(api.row.script_path, api.next).st = "queued"
      <4>1. api.row.script_path \in Path /\ api.next \in {0} \cup Instant
        BY DEF Types, ApiRow, Row
      <4> QED BY <4>1, QueuedColumns
    <3> QED BY <2>2, <3>3, <3>4, <3>5 DEF Responsible
  <2>4. EditPushes' /\ LatestIsAhead'
    BY <2>1 DEF EditPushes, LatestIsAhead, NoApi
  <2> QED BY <2>3, <2>4 DEF Ahead
<1>5. CASE AbortEdit
  <2>1. /\ UNCHANGED <<job, copy, row, lost>> /\ spent'.shifts = spent.shifts
        /\ spent'.edits = spent.edits /\ api' = NoApi
    BY <1>5, FailsTypes DEF AbortEdit
  <2>2. EditPushes'
    BY <2>1 DEF EditPushes, NoApi
  <2> QED BY <1>2, <2>1, <2>2 DEF Ahead
<1>6. CASE Tick \/ ClockShift \/ UNCHANGED vars
  <2>1. /\ UNCHANGED <<job, copy, row, api, lost>> /\ spent'.edits = spent.edits
        /\ spent'.shifts # 0 \/ spent'.shifts = spent.shifts
    BY <1>6 DEF Tick, ClockShift, vars, Types, Bound
  <2>2. EditPushes'
    BY <2>1 DEF Ahead, EditPushes
  <2> QED BY <1>2, <2>1, <2>2 DEF Ahead
<1> QED BY <1>1, <1>3, <1>4, <1>5, <1>6, NextSteps
-----------------------------------------------------------------------------
(* Theorems.                                                               *)

\* The schedule that was just created, with its first tick in the queue.
LEMMA InitIInv == Init => IInv
<1> SUFFICES ASSUME Init PROVE IInv
  OBVIOUS
<1> DEFINE s == Min(Slot)
           q == Queued(row.script_path, FindNext(row.cron, 0))
<1>1. s \in Slot
  BY MinIsMember, SchedulesAssumption
<1>2. row \in Row /\ row.script_path \in Path /\ row.cron \in Cron
  BY NoneTypes DEF Init, Row, JobRow
<1>3. FindNext(row.cron, 0) \in {0} \cup Instant
  BY <1>2, FindNextIsLater, SchedulesAssumption
<1>4. q \in JobRow
  BY <1>2, <1>3, NoneTypes
<1>5. /\ q.st = "queued" /\ q.path = row.script_path
      /\ q.canceled = FALSE /\ q.entered = FALSE
  BY <1>2, <1>3, QueuedColumns, ZenonT(30)
<1>6. job = [j \in Slot |-> IF j = s THEN q ELSE NoJob]
  BY DEF Init
<1> HIDE DEF s, q
<1>7. /\ spent \in Bound /\ spent.edits = 0 /\ spent.shifts = 0
      /\ now \in 0 .. MaxTime /\ isFlow \in BOOLEAN /\ noOverlap \in BOOLEAN
      /\ lost \in BOOLEAN
  <2>1. spent \in Bound /\ spent.edits = 0 /\ spent.shifts = 0
    BY SchedulesAssumption DEF Init, Bound
  <2>2. now \in 0 .. MaxTime
    BY SchedulesAssumption DEF Init
  <2>3. isFlow \in BOOLEAN /\ noOverlap \in BOOLEAN /\ lost \in BOOLEAN
    BY DEF Init
  <2> QED BY <2>1, <2>2, <2>3
<1>8. TypeOK
  <2>1. job \in [Slot -> JobRow] /\ copy \in [Slot -> CopyRow] /\ api \in ApiRow
    BY <1>4, <1>6, NoneTypes DEF Init
  <2> QED BY <1>2, <1>7, <2>1, TypesAreTypeOK DEF Types
<1>9. \A j \in Slot : /\ job[j].st \in {"none", "queued"}
                      /\ ~job[j].canceled /\ ~job[j].entered
                      /\ job[j].st # "none" => j = s
  BY <1>5, <1>6, NoneColumns
<1>10. ~api.open
  BY DEF Init, NoApi
<1>11. job[s].st = "queued" /\ job[s].path = row.script_path
  BY <1>1, <1>5, <1>6
<1>12. CanceledCompletes /\ OneAlone /\ RunsAreDue /\ CheckedIsLater /\ SawEnabled /\ EnteredRuns
  <2>1. \A j \in Slot : job[j].st # "running"
    BY <1>9
  <2>2. OneAlone /\ RunsAreDue /\ CheckedIsLater /\ SawEnabled
    BY <2>1 DEF OneAlone, Alone, RunsAreDue, CheckedIsLater, SawEnabled, Running, At
  <2>3. CanceledCompletes /\ EnteredRuns
    BY <1>9 DEF CanceledCompletes, EnteredRuns
  <2> QED BY <2>2, <2>3
<1>13. EditPushes /\ TickAhead
  BY <1>1, <1>10, <1>11 DEF EditPushes, TickAhead, Responsible
<1>14. Unedited
  <2>1. \A j \in Slot : job[j].st # "none" => job[j].st = "queued" /\ j = s
    BY <1>9
  <2> QED BY <1>10, <1>11, <2>1 DEF Unedited, At
<1>15. Latest(s)
  <2>1. job[s].at \in Nat
    BY <1>1, <1>8, InstantsAreNat, TypesAreTypeOK DEF Types, JobRow
  <2>2. \A k \in Slot : job[k].st # "none" => k = s
    BY <1>9
  <2> QED BY <2>1, <2>2 DEF Latest
<1>16. LatestIsAhead
  BY <1>1, <1>11, <1>15 DEF LatestIsAhead, Responsible
<1> QED BY <1>8, <1>12, <1>13, <1>14, <1>16 DEF IInv

\* The inductive invariant holds in every reachable state.
THEOREM IInvInvariant == Spec => []IInv
<1>1. IInv /\ [Next]_vars => IInv'
  <2> SUFFICES ASSUME IInv, [Next]_vars PROVE IInv'
    OBVIOUS
  <2>1. Types /\ Plain /\ Knows /\ Ahead /\ OneAlone
    BY TypesAreTypeOK DEF IInv, Plain, Knows, Ahead
  <2>2. Types' /\ Plain' /\ Knows' /\ Ahead' /\ OneAlone'
    BY <2>1, NextTypes, NextPlain, NextKnows, NextAhead, NextAlone DEF Plain
  <2>3. TypeOK'
    BY <2>2 DEF Types, TypeOK, JobRow, CopyRow, ApiRow
  <2> QED BY <2>2, <2>3 DEF IInv, Plain, Knows, Ahead
<1> QED BY <1>1, InitIInv, PTL DEF Spec

\* Every reachable state is well typed.
THEOREM TypeCorrect == Spec => []TypeOK
<1>1. IInv => TypeOK
  BY DEF IInv
<1> QED BY <1>1, IInvInvariant, PTL

\* An enabled schedule always has a job that is or will push its next tick,
\* whatever is edited, cancelled, restarted or failed meanwhile, until an error of
\* handle_flow is passed over before the tick is pushed.
THEOREM ScheduleGoesOn == Spec => []NoSilentStop
<1>1. IInv => NoSilentStop
  <2> SUFFICES ASSUME IInv, row.enabled, Regular, ~lost
               PROVE  \E j \in Slot : job[j].path = row.script_path /\ HasTickAhead(j)
    BY DEF NoSilentStop
  <2>1. \A j \in Slot : Responsible(j) => HasTickAhead(j)
    BY DEF Responsible, HasTickAhead, Running
  <2>2. CASE spent.shifts = 0
    BY <2>1, <2>2 DEF IInv, TickAhead
  <2>3. CASE spent.edits = 0
    <3>1. PICK m \in Slot : Responsible(m)
      BY <2>3 DEF IInv, LatestIsAhead
    <3>2. job[m].path = row.script_path
      BY <2>3, <3>1 DEF IInv, Unedited, Responsible, Running
    <3> QED BY <2>1, <3>1, <3>2
  <2> QED BY <2>2, <2>3 DEF Regular
<1> QED BY <1>1, IInvInvariant, PTL

\* With no_flow_overlap two runs never execute their steps at the same time, but
\* for those that an error has led past the look for others.
THEOREM RunsDoNotOverlap == Spec => []NoOverlap
<1>1. IInv => NoOverlap
  BY DEF IInv, OneAlone, NoOverlap, Alone, Running, At
<1> QED BY <1>1, IInvInvariant, PTL

\* The tick that a run pushes is later than the run's own instant, wherever the
\* clock of the database was set in between.
THEOREM TicksGoForward == Spec => TickIsLater
<1>1. IInv => [\A j \in Slot : PushTick(j) => copy[j].next > job[j].at]_vars
  BY DEF IInv, CheckedIsLater, PushTick
<1> QED BY <1>1, IInvInvariant, PTL DEF TickIsLater

\* Only a run that was running while its schedule was enabled pushes a tick.
THEOREM DisabledIsQuiet == Spec => QuietOnceDisabled
<1>1. IInv => [\A j \in Slot : PushTick(j) => job[j].saw]_vars
  BY DEF IInv, CheckedIsLater, SawEnabled, MaySchedule, PushTick, At, Running
<1> QED BY <1>1, IInvInvariant, PTL DEF QuietOnceDisabled
=============================================================================
