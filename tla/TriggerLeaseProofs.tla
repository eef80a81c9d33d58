------------------------- MODULE TriggerLeaseProofs -------------------------
(***************************************************************************)
(* The lease of a trigger is exclusive but for the lapses on record, for   *)
(* any number of servers, tasks, edits, errors and crashes.                *)
(***************************************************************************)
EXTENDS TriggerLease, FiniteSetTheorems, TLAPS

\* The initial states of a trigger that nobody listens to are well typed.
LEMMA InitTypeOK == Init => TypeOK
<1> SUFFICES ASSUME Init PROVE TypeOK
  OBVIOUS
<1> USE TriggerLeaseAssumption DEF Init
<1>1. task \in [Task -> [st : Status, start : Start, server : Server \cup {NoServer},
                         version : 0 .. MaxEdits, old : BOOLEAN]]
  BY DEF Off, Status, Start
<1>2. \A t \in Task : task[t].st = "off"
  BY DEF Off
<1>3. fetched \in [Server -> SUBSET (0 .. MaxEdits)]
  OBVIOUS
<1>4. /\ spent \in [edits : 0 .. MaxEdits, faults : 0 .. MaxFaults]
      /\ version \in 0 .. MaxEdits /\ version <= spent.edits
  OBVIOUS
<1>5. QED
  BY <1>1, <1>2, <1>3, <1>4 DEF TypeOK

\* Every step of a server, a task, a user, the clock or a crash keeps the types,
\* and a task only lives on a server that runs.
LEMMA NextTypeOK == TypeOK /\ [Next]_vars => TypeOK'
<1> SUFFICES ASSUME TypeOK, [Next]_vars PROVE TypeOK'
  OBVIOUS
<1> USE TriggerLeaseAssumption DEF TypeOK, trigger, Status, Start
<1>0. PingAfterReset \in {"null", "fresh", "stale"}
  BY DEF PingAfterReset
<1>1. ASSUME NEW s \in Server, Fetch(s) PROVE TypeOK'
  BY <1>1 DEF Fetch
<1>2. ASSUME NEW s \in Server, ClaimFails(s) PROVE TypeOK'
  BY <1>2 DEF ClaimFails
<1>3. ASSUME NEW s \in Server, Crash(s) PROVE TypeOK'
  BY <1>3 DEF Crash, Fault, Off
<1>4. ASSUME NEW s \in Server, NEW t \in Task, Claim(s, t) PROVE TypeOK'
  <2>1. PICK v \in fetched[s] :
           task' = [task EXCEPT ![t] = [st |-> "connecting", start |-> "none", server |-> s,
                                        version |-> v, old |-> v # version]]
    BY <1>4 DEF Claim
  <2>3. /\ s \in up /\ server_id' = s /\ ping' = "fresh" /\ v \in 0 .. MaxEdits
        /\ fetched' = [fetched EXCEPT ![s] = {}]
        /\ UNCHANGED <<enabled, version, up, spent, lapses>>
    BY <1>4 DEF Claim
  <2>4. /\ task' \in [Task -> [st : Status, start : Start, server : Server \cup {NoServer},
                              version : 0 .. MaxEdits, old : BOOLEAN]]
        /\ \A u \in Task : task'[u].st # "off" => task'[u].server \in up
    BY <2>1, <2>3
  <2>5. QED
    BY <2>3, <2>4
<1>5. ASSUME NEW t \in Task, Ping(t) PROVE TypeOK'
  BY <1>5 DEF Ping
<1>6. ASSUME NEW t \in Task, PingFails(t) PROVE TypeOK'
  BY <1>6 DEF PingFails, Listening
<1>7. ASSUME NEW t \in Task, ResetPingForRestart(t) PROVE TypeOK'
  BY <1>0, <1>7 DEF ResetPingForRestart
<1>8. ASSUME NEW t \in Task, Stop(t) PROVE TypeOK'
  BY <1>8 DEF Stop, Off
<1>9. ASSUME NEW t \in Task, Connect(t) PROVE TypeOK'
  BY <1>9 DEF Connect
<1>10. ASSUME NEW t \in Task, FirstPing(t) PROVE TypeOK'
  BY <1>10 DEF FirstPing, Starting
<1>11. ASSUME NEW t \in Task, FirstPingFails(t) PROVE TypeOK'
  BY <1>11 DEF FirstPingFails, Starting
<1>12. ASSUME NEW t \in Task, FirstReset(t) PROVE TypeOK'
  BY <1>0, <1>12 DEF FirstReset, Starting
<1>13. ASSUME NEW t \in Task, DisableWithError(t) PROVE TypeOK'
  <2>1. task' = [task EXCEPT ![t] = Off]
    BY <1>13 DEF DisableWithError
  <2>2. /\ task' \in [Task -> [st : Status, start : Start, server : Server \cup {NoServer},
                              version : 0 .. MaxEdits, old : BOOLEAN]]
        /\ \A u \in Task : task'[u].st # "off" => task'[u].server \in up
    BY <2>1 DEF Off
  <2>3. /\ spent' \in [edits : 0 .. MaxEdits, faults : 0 .. MaxFaults]
        /\ spent'.edits = spent.edits
    BY <1>13 DEF DisableWithError, Errors, Fault
  <2>4. /\ enabled' = FALSE /\ server_id' = NoServer /\ ping' = "null"
        /\ UNCHANGED <<version, fetched, up>>
    BY <1>13 DEF DisableWithError
  <2>5. lapses' \in Nat
    BY <1>13 DEF DisableWithError
  <2>6. QED
    BY <2>2, <2>3, <2>4, <2>5
<1>14. ASSUME NEW t \in Task, ConsumerEnds(t) PROVE TypeOK'
  BY <1>14 DEF ConsumerEnds, Errors, Fault, Off
<1>14a. ASSUME NEW t \in Task, FirstPingErrs(t) PROVE TypeOK'
  BY <1>14a DEF FirstPingErrs, Starting, Fault
<1>15. CASE Edit
  BY <1>15 DEF Edit, Edited
<1>16. ASSUME NEW mode \in BOOLEAN, SetTriggerMode(mode) PROVE TypeOK'
  BY <1>16 DEF SetTriggerMode, Edited
<1>17. CASE Expire
  BY <1>17 DEF Expire
<1>18. CASE Stall
  BY <1>18 DEF Stall, Fault
<1>19. CASE UNCHANGED vars
  BY <1>19 DEF vars
<1>20. QED
  BY <1>1, <1>2, <1>3, <1>4, <1>5, <1>6, <1>7, <1>8, <1>9, <1>10, <1>11, <1>12,
     <1>13, <1>14, <1>15, <1>16, <1>17, <1>18, <1>19, <1>14a DEF Next

\* Every reachable state of a trigger's lease is well typed.
THEOREM TypeCorrect == Spec => []TypeOK
  BY InitTypeOK, NextTypeOK, PTL DEF Spec

\* The tasks that may still ping or reset the ping, those that will reset it at the
\* start of their consumer, and the way the ping stands open for another server.
InTouch == {t \in Task : Engaged(t)}
Resetting == {t \in Task : Starting(t, "resetting")}
Open == IF ping = "fresh" THEN 0 ELSE 1

\* Both sets are finite, and LeaseInv is about their sizes.
LeaseFacts ==
    /\ IsFiniteSet(InTouch) /\ IsFiniteSet(Resetting)
    /\ Cardinality(InTouch) \in Nat /\ Cardinality(Resetting) \in Nat
    /\ LeaseInv <=> /\ Cardinality(Resetting) <= lapses
                    /\ Cardinality(InTouch) + Cardinality(Resetting) + Open <= 1 + lapses

\* This holds in every state.
LEMMA LeaseSets == LeaseFacts
<1>1. IsFiniteSet(InTouch) /\ IsFiniteSet(Resetting)
  <2>1. InTouch \subseteq Task /\ Resetting \subseteq Task
    BY DEF InTouch, Resetting
  <2>2. QED
    BY <2>1, FS_Subset, TriggerLeaseAssumption
<1>2. Cardinality(InTouch) \in Nat /\ Cardinality(Resetting) \in Nat
  BY <1>1, FS_CardinalityType
<1>3. QED
  BY <1>1, <1>2 DEF LeaseFacts, LeaseInv, InTouch, Resetting, Open

\* And after every step.
LEMMA LeaseSetsAfter == LeaseFacts'
  BY LeaseSets, PTL

\* A step that lets nobody in, leaves no reset to be done and opens nothing keeps
\* the account.
LEMMA KeepsLease ==
  ASSUME TypeOK, LeaseInv, InTouch' \subseteq InTouch, Resetting' \subseteq Resetting,
         ping' \in {ping, "fresh"}, lapses' = lapses
  PROVE  LeaseInv'
<1>1. /\ Cardinality(InTouch') <= Cardinality(InTouch)
      /\ Cardinality(Resetting') <= Cardinality(Resetting)
  BY LeaseSets, FS_Subset DEF LeaseFacts
<1>2. Open' <= Open /\ Open \in {0, 1} /\ Open' \in {0, 1}
  BY DEF Open
<1>3. lapses \in Nat
  BY DEF TypeOK
<1>4. QED
  BY <1>1, <1>2, <1>3, LeaseSets, LeaseSetsAfter DEF LeaseFacts

\* A task that is done with the trigger may open it for another one.
LEMMA LeavesLease ==
  ASSUME TypeOK, LeaseInv, NEW t \in InTouch, InTouch' \subseteq InTouch \ {t},
         Resetting' \subseteq Resetting, lapses' = lapses
  PROVE  LeaseInv'
<1>1. /\ Cardinality(InTouch \ {t}) = Cardinality(InTouch) - 1
      /\ IsFiniteSet(InTouch \ {t})
  BY LeaseSets, FS_RemoveElement DEF LeaseFacts
<1>2. /\ Cardinality(InTouch') <= Cardinality(InTouch \ {t})
      /\ Cardinality(Resetting') <= Cardinality(Resetting)
  BY <1>1, LeaseSets, FS_Subset DEF LeaseFacts
<1>3. Open \in {0, 1} /\ Open' \in {0, 1} /\ lapses \in Nat
  BY DEF Open, TypeOK
<1>4. QED
  BY <1>1, <1>2, <1>3, LeaseSets, LeaseSetsAfter DEF LeaseFacts

\* So may one that resets the ping although it goes on: it had a lapse for it.
LEMMA ResetsLease ==
  ASSUME TypeOK, LeaseInv, NEW t \in Resetting, InTouch' \subseteq InTouch,
         Resetting' \subseteq Resetting \ {t}, lapses' = lapses
  PROVE  LeaseInv'
<1>1. /\ Cardinality(Resetting \ {t}) = Cardinality(Resetting) - 1
      /\ IsFiniteSet(Resetting \ {t})
  BY LeaseSets, FS_RemoveElement DEF LeaseFacts
<1>2. /\ Cardinality(InTouch') <= Cardinality(InTouch)
      /\ Cardinality(Resetting') <= Cardinality(Resetting \ {t})
  BY <1>1, LeaseSets, FS_Subset DEF LeaseFacts
<1>3. Open \in {0, 1} /\ Open' \in {0, 1} /\ lapses \in Nat
  BY DEF Open, TypeOK
<1>4. QED
  BY <1>1, <1>2, <1>3, LeaseSets, LeaseSetsAfter DEF LeaseFacts

\* A lapse lets one task in, has one reset the ping later, or opens the trigger.
LEMMA LapsesLease ==
  ASSUME TypeOK, LeaseInv, NEW t \in Task, lapses' = lapses + 1,
         \/ /\ InTouch' \subseteq InTouch \cup {t} /\ Resetting' \subseteq Resetting
            /\ ping' = ping
         \/ /\ InTouch' \subseteq InTouch /\ Resetting' \subseteq Resetting \cup {t}
            /\ ping' = ping
         \/ InTouch' \subseteq InTouch /\ Resetting' \subseteq Resetting
  PROVE  LeaseInv'
<1>1. /\ Cardinality(InTouch \cup {t}) <= Cardinality(InTouch) + 1
      /\ Cardinality(Resetting \cup {t}) <= Cardinality(Resetting) + 1
      /\ IsFiniteSet(InTouch \cup {t}) /\ IsFiniteSet(Resetting \cup {t})
  <2>1. \A S : IsFiniteSet(S) =>
            IsFiniteSet(S \cup {t}) /\ Cardinality(S \cup {t}) <= Cardinality(S) + 1
    <3> SUFFICES ASSUME NEW S, IsFiniteSet(S)
                 PROVE  IsFiniteSet(S \cup {t}) /\ Cardinality(S \cup {t}) <= Cardinality(S) + 1
      OBVIOUS
    <3>1. Cardinality(S) \in Nat
      BY FS_CardinalityType
    <3>2. /\ IsFiniteSet(S \cup {t})
          /\ \/ t \in S /\ Cardinality(S \cup {t}) = Cardinality(S)
             \/ t \notin S /\ Cardinality(S \cup {t}) = Cardinality(S) + 1
      BY FS_AddElement
    <3>3. QED
      BY <3>1, <3>2
  <2>2. QED
    BY <2>1, LeaseSets DEF LeaseFacts
<1>3. Open \in {0, 1} /\ Open' \in {0, 1} /\ lapses \in Nat /\ (ping' = ping => Open' = Open)
  BY DEF Open, TypeOK
<1>4. \/ /\ Cardinality(InTouch') <= Cardinality(InTouch) + 1
         /\ Cardinality(Resetting') <= Cardinality(Resetting) /\ Open' = Open
      \/ /\ Cardinality(InTouch') <= Cardinality(InTouch)
         /\ Cardinality(Resetting') <= Cardinality(Resetting) + 1 /\ Open' = Open
      \/ /\ Cardinality(InTouch') <= Cardinality(InTouch)
         /\ Cardinality(Resetting') <= Cardinality(Resetting)
  <2>1. InTouch' \subseteq InTouch => Cardinality(InTouch') <= Cardinality(InTouch)
    BY LeaseSets, FS_Subset DEF LeaseFacts
  <2>2. Resetting' \subseteq Resetting => Cardinality(Resetting') <= Cardinality(Resetting)
    BY LeaseSets, FS_Subset DEF LeaseFacts
  <2>3. InTouch' \subseteq InTouch \cup {t} => Cardinality(InTouch') <= Cardinality(InTouch) + 1
    <3>1. InTouch' \subseteq InTouch \cup {t} => Cardinality(InTouch') <= Cardinality(InTouch \cup {t})
      BY <1>1, FS_Subset
    <3>2. Cardinality(InTouch \cup {t}) \in Nat /\ Cardinality(InTouch) \in Nat
      BY <1>1, LeaseSets, FS_CardinalityType DEF LeaseFacts
    <3>3. QED
      BY <1>1, <3>1, <3>2, LeaseSetsAfter DEF LeaseFacts
  <2>4. Resetting' \subseteq Resetting \cup {t} =>
            Cardinality(Resetting') <= Cardinality(Resetting) + 1
    <3>1. Resetting' \subseteq Resetting \cup {t} =>
              Cardinality(Resetting') <= Cardinality(Resetting \cup {t})
      BY <1>1, FS_Subset
    <3>2. Cardinality(Resetting \cup {t}) \in Nat /\ Cardinality(Resetting) \in Nat
      BY <1>1, LeaseSets, FS_CardinalityType DEF LeaseFacts
    <3>3. QED
      BY <1>1, <3>1, <3>2, LeaseSetsAfter DEF LeaseFacts
  <2>5. QED
    BY <1>3, <2>1, <2>2, <2>3, <2>4
<1>5. QED
  BY <1>3, <1>4, LeaseSets, LeaseSetsAfter DEF LeaseFacts

\* A second task comes near the trigger only through a lapse: a lease is taken when
\* the ping is not fresh, and a task keeps it fresh until it is done or lapses.
LEMMA NextLeaseInv == TypeOK /\ LeaseInv /\ [Next]_vars => LeaseInv'
<1> SUFFICES ASSUME TypeOK, LeaseInv, [Next]_vars PROVE LeaseInv'
  OBVIOUS
<1>1. task \in [Task -> [st : Status, start : Start, server : Server \cup {NoServer},
                         version : 0 .. MaxEdits, old : BOOLEAN]]
  BY DEF TypeOK
<1>2. ASSUME NEW t \in Task, task'[t] = Off,
             \A u \in Task \ {t} : task'[u] = task[u]
      PROVE  InTouch' \subseteq InTouch \ {t} /\ Resetting' \subseteq Resetting
  BY <1>2 DEF InTouch, Resetting, Engaged, Starting, Off
<1>3. ASSUME task' = task PROVE InTouch' = InTouch /\ Resetting' = Resetting
  BY <1>3 DEF InTouch, Resetting, Engaged, Starting
<1>4. ASSUME NEW s \in Server, Fetch(s) \/ ClaimFails(s) PROVE LeaseInv'
  BY <1>3, <1>4, KeepsLease DEF Fetch, ClaimFails, trigger
<1>5. ASSUME NEW s \in Server, Crash(s) PROVE LeaseInv'
  <2>1. InTouch' \subseteq InTouch /\ Resetting' \subseteq Resetting
    BY <1>1, <1>5 DEF Crash, InTouch, Resetting, Engaged, Starting, Off
  <2>2. QED
    BY <1>5, <2>1, KeepsLease DEF Crash, trigger
<1>6. ASSUME NEW s \in Server, NEW t \in Task, Claim(s, t) PROVE LeaseInv'
  <2>1. /\ task'[t].st = "connecting" /\ task'[t].start = "none"
        /\ \A u \in Task \ {t} : task'[u] = task[u]
        /\ task[t].st = "off"
    BY <1>1, <1>6 DEF Claim
  <2>2. InTouch' = InTouch \cup {t} /\ t \notin InTouch /\ Resetting' \subseteq Resetting
    BY <2>1 DEF InTouch, Resetting, Engaged, Starting
  <2>3. Cardinality(InTouch') = Cardinality(InTouch) + 1
    BY <2>2, LeaseSets, FS_AddElement DEF LeaseFacts
  <2>4. Cardinality(Resetting') <= Cardinality(Resetting)
    BY <2>2, LeaseSets, FS_Subset DEF LeaseFacts
  <2>5. Open = 1 /\ Open' = 0 /\ lapses' = lapses /\ lapses \in Nat
    BY <1>6 DEF Claim, Unlistened, Open, TypeOK
  <2>6. QED
    BY <2>3, <2>4, <2>5, LeaseSets, LeaseSetsAfter DEF LeaseFacts
<1>7. ASSUME NEW t \in Task, Ping(t) PROVE LeaseInv'
  BY <1>3, <1>7, KeepsLease DEF Ping
<1>8. ASSUME NEW t \in Task, PingFails(t) PROVE LeaseInv'
  <2>1. InTouch' \subseteq InTouch /\ Resetting' \subseteq Resetting
    BY <1>1, <1>8 DEF PingFails, Listening, InTouch, Resetting, Engaged, Starting
  <2>2. QED
    BY <1>8, <2>1, KeepsLease DEF PingFails, trigger
<1>9. ASSUME NEW t \in Task, ResetPingForRestart(t) PROVE LeaseInv'
  <2>1. t \in InTouch /\ InTouch' \subseteq InTouch \ {t} /\ Resetting' \subseteq Resetting
    BY <1>1, <1>9 DEF ResetPingForRestart, InTouch, Resetting, Engaged, Starting
  <2>2. QED
    BY <1>9, <2>1, LeavesLease DEF ResetPingForRestart
<1>10. ASSUME NEW t \in Task, Stop(t) \/ ConsumerEnds(t) PROVE LeaseInv'
  <2>1. task'[t] = Off /\ \A u \in Task \ {t} : task'[u] = task[u]
    BY <1>1, <1>10 DEF Stop, ConsumerEnds
  <2>2. InTouch' \subseteq InTouch /\ Resetting' \subseteq Resetting
    BY <1>2, <2>1
  <2>3. QED
    BY <1>10, <2>2, KeepsLease DEF Stop, ConsumerEnds, trigger
<1>11. ASSUME NEW t \in Task, Connect(t) PROVE LeaseInv'
  <2>1. /\ task'[t].st = "looping" /\ task'[t].start = "due"
        /\ \A u \in Task \ {t} : task'[u] = task[u]
    BY <1>1, <1>11 DEF Connect
  <2>2. InTouch' \subseteq InTouch \cup {t} /\ Resetting' \subseteq Resetting /\ ping' = ping
    BY <1>11, <2>1 DEF InTouch, Resetting, Engaged, Starting, Connect, trigger
  <2>3. CASE task[t].st = "connecting"
    <3>1. InTouch' \subseteq InTouch
      BY <2>2, <2>3 DEF InTouch, Engaged
    <3>2. lapses' = lapses
      BY <1>11, <2>3 DEF Connect, TypeOK
    <3>3. QED
      BY <2>2, <3>1, <3>2, KeepsLease
  <2>4. CASE task[t].st # "connecting"
    <3>1. lapses' = lapses + 1
      BY <1>11, <2>4 DEF Connect
    <3>2. QED
      BY <2>2, <3>1, LapsesLease
  <2>5. QED
    BY <2>3, <2>4
<1>12. ASSUME NEW t \in Task, FirstPing(t) PROVE LeaseInv'
  <2>1. InTouch' \subseteq InTouch /\ Resetting' \subseteq Resetting
    BY <1>1, <1>12 DEF FirstPing, InTouch, Resetting, Engaged, Starting
  <2>2. QED
    BY <1>12, <2>1, KeepsLease DEF FirstPing
<1>12a. ASSUME NEW t \in Task, FirstPingErrs(t) PROVE LeaseInv'
  <2>1. InTouch' \subseteq InTouch /\ Resetting' \subseteq Resetting
    BY <1>1, <1>12a DEF FirstPingErrs, InTouch, Resetting, Engaged, Starting
  <2>2. QED
    BY <1>12a, <2>1, KeepsLease DEF FirstPingErrs, trigger
<1>13. ASSUME NEW t \in Task, FirstPingFails(t) PROVE LeaseInv'
  <2>1. InTouch' \subseteq InTouch /\ Resetting' \subseteq Resetting \cup {t}
    BY <1>1, <1>13 DEF FirstPingFails, InTouch, Resetting, Engaged, Starting
  <2>2. QED
    BY <1>13, <2>1, LapsesLease DEF FirstPingFails, trigger
<1>14. ASSUME NEW t \in Task, FirstReset(t) PROVE LeaseInv'
  <2>1. /\ t \in Resetting /\ InTouch' \subseteq InTouch
        /\ Resetting' \subseteq Resetting \ {t}
    BY <1>1, <1>14 DEF FirstReset, InTouch, Resetting, Engaged, Starting
  <2>2. QED
    BY <1>14, <2>1, ResetsLease DEF FirstReset
<1>15. ASSUME NEW t \in Task, DisableWithError(t) PROVE LeaseInv'
  <2>1. task'[t] = Off /\ \A u \in Task \ {t} : task'[u] = task[u]
    BY <1>1, <1>15 DEF DisableWithError
  <2>2. InTouch' \subseteq InTouch \ {t} /\ Resetting' \subseteq Resetting
    BY <1>2, <2>1
  <2>3. CASE Engaged(t)
    <3>1. t \in InTouch /\ lapses' = lapses
      BY <1>15, <2>3 DEF DisableWithError, InTouch, TypeOK
    <3>2. QED
      BY <2>2, <3>1, LeavesLease
  <2>4. CASE ~Engaged(t)
    <3>1. lapses' = lapses + 1
      BY <1>15, <2>4 DEF DisableWithError
    <3>2. QED
      BY <2>2, <3>1, LapsesLease
  <2>5. QED
    BY <2>3, <2>4
<1>16. CASE Edit \/ (\E mode \in BOOLEAN : SetTriggerMode(mode)) \/ UNCHANGED vars
  BY <1>3, <1>16, KeepsLease DEF Edit, SetTriggerMode, vars
<1>17. CASE Expire
  <2>1. InTouch = {} /\ InTouch' = InTouch /\ Resetting' = Resetting /\ lapses' = lapses
    BY <1>3, <1>17 DEF Expire, InTouch
  <2>2. Cardinality(InTouch') = 0
    BY <2>1, FS_EmptySet
  <2>3. Open' \in {0, 1} /\ lapses \in Nat
    BY DEF Open, TypeOK
  <2>4. QED
    BY <2>1, <2>2, <2>3, LeaseSets, LeaseSetsAfter DEF LeaseFacts
<1>18. CASE Stall
  <2>1. PICK t \in Task : Engaged(t)
    BY <1>18 DEF Stall
  <2>2. QED
    BY <1>3, <1>18, <2>1, LapsesLease DEF Stall
<1>19. QED
  BY <1>4, <1>5, <1>6, <1>7, <1>8, <1>9, <1>10, <1>11, <1>12, <1>13, <1>14, <1>15,
     <1>16, <1>17, <1>18, <1>12a DEF Next

\* For any number of servers and tasks, the tasks in touch with the trigger, the
\* resets to come and the open ping together exceed the lapses by at most one.
THEOREM LeaseIsKept == Spec => []LeaseInv
<1>1. Init => LeaseInv
  <2> SUFFICES ASSUME Init PROVE LeaseInv
    OBVIOUS
  <2>1. InTouch = {} /\ Resetting = {}
    BY DEF Init, Off, InTouch, Resetting, Engaged, Starting
  <2>2. Cardinality(InTouch) = 0 /\ Cardinality(Resetting) = 0
    BY <2>1, FS_EmptySet
  <2>3. QED
    BY <2>2, LeaseSets DEF LeaseFacts, Init, Open
<1>2. QED
  BY <1>1, TypeCorrect, NextLeaseInv, PTL DEF Spec

\* For any number of servers and tasks, a second task that holds the lease is owed
\* to a stall, to a failed ping passed over or to a write without the lease.
THEOREM LeaseIsExclusive == Spec => []OneHolder
<1>1. TypeOK /\ LeaseInv => OneHolder
  <2> SUFFICES ASSUME TypeOK, LeaseInv PROVE OneHolder
    OBVIOUS
  <2> DEFINE Holders == {t \in Task : Listening(t) /\ Holds(t)}
  <2>1. Holders \subseteq InTouch
    BY DEF InTouch, Listening, Engaged
  <2>2. Cardinality(Holders) <= Cardinality(InTouch) /\ Cardinality(Holders) \in Nat
    BY <2>1, LeaseSets, FS_Subset, FS_CardinalityType DEF LeaseFacts
  <2>3. Open \in {0, 1} /\ lapses \in Nat
    BY DEF Open, TypeOK
  <2>4. Cardinality(Holders) <= 1 + lapses
    BY <2>2, <2>3, LeaseSets DEF LeaseFacts
  <2>5. QED
    BY <2>4 DEF OneHolder
<1>2. QED
  BY <1>1, TypeCorrect, LeaseIsKept, PTL
=============================================================================
