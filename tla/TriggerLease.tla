---------------------------- MODULE TriggerLease ----------------------------
(***************************************************************************)
(* A trigger with a long-running listener (websocket, kafka, postgres,     *)
(* mqtt, nats, sqs, gcp).  Every API server looks for triggers that nobody *)
(* pings and takes the one it finds with an UPDATE of server_id and        *)
(* last_server_ping; the task that listens pings every 5 seconds, and      *)
(* stops when the row is no longer its server's.  Users edit the trigger   *)
(* by setting server_id to NULL, which the task finds out by itself.       *)
(*                                                                         *)
(* One trigger.  last_server_ping is abstracted to whether it is NULL, at  *)
(* most 15 seconds old ("fresh") or older ("stale").                       *)
(***************************************************************************)
EXTENDS Naturals, FiniteSets

CONSTANTS
    Server,      \* the API servers; a restarted one has a new INSTANCE_NAME
    NoServer,    \* NULL as server_id
    Task,        \* bound: listening tasks at one time
    MaxEdits,    \* bound: requests of users
    MaxFaults    \* bound: consumers that end, servers that die, first pings that
                 \* return an error, pings that do so for 15 seconds

ASSUME TriggerLeaseAssumption ==
    /\ NoServer \notin Server
    /\ IsFiniteSet(Task)
    /\ MaxEdits \in Nat /\ MaxFaults \in Nat

VARIABLES
    enabled,    \* mode: enabled or suspended, against disabled
    server_id,  \* the server that has the lease
    ping,       \* last_server_ping
    version,    \* the trigger's configuration, as a number of edits
    fetched,    \* the configuration each server has fetched, in a set of at most one
    task,       \* the tasks that listen
    up,         \* the servers that run
    spent,      \* how much of each bound is used
    lapses      \* history: stalls, and times a task went on or wrote without its lease

vars == <<enabled, server_id, ping, version, fetched, task, up, spent, lapses>>
trigger == <<enabled, server_id, ping, version>>

(***************************************************************************)
(* A task is two futures that run side by side.  st is that of loop_ping:  *)
(* "connecting" beside get_consumer, "looping" beside the consumer;        *)
(* "leaving" once a ping has found the row not to be the server's, and     *)
(* "left" once it has reset the ping for the next listener, before the     *)
(* task hears of it and is dropped.  start is that of the consumer: the    *)
(* ping of its own that it begins with is "due", has failed and is         *)
(* "resetting", or is "done" and the consumer consumes.  old is a history: *)
(* the lease was taken with a configuration edited meanwhile.              *)
(***************************************************************************)
Status == {"off", "connecting", "looping", "leaving", "left"}
Start == {"none", "due", "resetting", "done"}
Off == [st |-> "off", start |-> "none", server |-> NoServer, version |-> 0,
        old |-> FALSE]

TypeOK ==
    /\ enabled \in BOOLEAN
    /\ server_id \in Server \cup {NoServer}
    /\ ping \in {"null", "fresh", "stale"}
    /\ version \in 0 .. MaxEdits /\ version <= spent.edits
    /\ fetched \in [Server -> SUBSET (0 .. MaxEdits)]
    /\ task \in [Task -> [st : Status, start : Start, server : Server \cup {NoServer},
                          version : 0 .. MaxEdits, old : BOOLEAN]]
    /\ up \in SUBSET Server
    /\ spent \in [edits : 0 .. MaxEdits, faults : 0 .. MaxFaults]
    /\ lapses \in Nat
    /\ \A t \in Task : task[t].st # "off" => task[t].server \in up

Init ==
    /\ enabled = TRUE
    /\ server_id = NoServer
    /\ ping = "null"
    /\ version = 0
    /\ fetched = [s \in Server |-> {}]
    /\ task = [t \in Task |-> Off]
    /\ up = Server
    /\ spent = [edits |-> 0, faults |-> 0]
    /\ lapses = 0

\* A task that goes on pinging; one that may still do so, or reset the ping; and
\* one that is fed with events.
Listening(t) == task[t].st \in {"connecting", "looping"}
Engaged(t) == task[t].st \in {"connecting", "looping", "leaving"}
Consuming(t) == task[t].st # "off" /\ task[t].start = "done"

\* The row that a ping of the task would find.
Holds(t) == enabled /\ server_id = task[t].server
-----------------------------------------------------------------------------
(* The servers.                                                            *)

\* A mutant of Unlistened: a row without a server is taken at once.
UnlistenedOrEdited == enabled /\ (ping # "fresh" \/ server_id = NoServer)

\* A mutant of Unlistened: the age of the ping is not looked at.
UnlistenedIfNull == enabled /\ ping = "null"

Unlistened == enabled /\ ping # "fresh"

\* fetch_enabled_unlistened_triggers.
Fetch(s) ==
    /\ s \in up /\ fetched[s] = {} /\ Unlistened
    /\ fetched' = [fetched EXCEPT ![s] = {version}]
    /\ UNCHANGED <<trigger, task, up, spent, lapses>>

\* Tasks are interchangeable: one of those that are off.
Free == CHOOSE t \in Task : task[t].st = "off"

\* has_lock: the UPDATE of listen_to_unlistened_events looks at the ping again,
\* and the task gets the configuration that was fetched before.
Claim(s, t) ==
    /\ s \in up /\ Unlistened /\ task[t].st = "off" /\ t = Free
    /\ \E v \in fetched[s] :
          task' = [task EXCEPT ![t] = [st |-> "connecting", start |-> "none", server |-> s,
                                       version |-> v, old |-> v # version]]
    /\ server_id' = s
    /\ ping' = "fresh"
    /\ fetched' = [fetched EXCEPT ![s] = {}]
    /\ UNCHANGED <<enabled, version, up, spent, lapses>>

\* Somebody else was faster.
ClaimFails(s) ==
    /\ s \in up /\ fetched[s] # {} /\ ~Unlistened
    /\ fetched' = [fetched EXCEPT ![s] = {}]
    /\ UNCHANGED <<trigger, task, up, spent, lapses>>
-----------------------------------------------------------------------------
(* A task: listening, with loop_ping and the consumer side by side.        *)

\* A ping of loop_ping finds the row of its server.
Ping(t) ==
    /\ Listening(t) /\ Holds(t)
    /\ ping' = "fresh"
    /\ UNCHANGED <<enabled, server_id, version, fetched, task, up, spent, lapses>>

\* It does not: the trigger was edited, disabled or taken by another server.
PingFails(t) ==
    /\ Listening(t) /\ ~Holds(t)
    /\ task' = [task EXCEPT ![t].st = "leaving"]
    /\ UNCHANGED <<trigger, fetched, up, spent, lapses>>

\* The ping a task leaves behind in a row that is nobody's.
PingAfterReset == IF server_id = NoServer THEN "null" ELSE ping

ResetPingForRestart(t) ==
    /\ task[t].st = "leaving"
    /\ ping' = PingAfterReset
    /\ task' = [task EXCEPT ![t].st = "left"]
    /\ UNCHANGED <<enabled, server_id, version, fetched, up, spent, lapses>>

\* loop_ping has returned and the consumer is dropped.
Stop(t) ==
    /\ task[t].st = "left"
    /\ task' = [task EXCEPT ![t] = Off]
    /\ UNCHANGED <<trigger, fetched, up, spent, lapses>>

\* get_consumer is ready.  The loop_ping beside it is dropped wherever it stands
\* and another one begins: what its last ping has found is forgotten.
Connect(t) ==
    /\ task[t].st \in {"connecting", "leaving", "left"} /\ task[t].start = "none"
    /\ LET forgets == task[t].st # "connecting" IN
          /\ task' = [task EXCEPT ![t].st = "looping", ![t].start = "due"]
          /\ lapses' = lapses + (IF forgets THEN 1 ELSE 0)
    /\ UNCHANGED <<trigger, fetched, up, spent>>

Starting(t, start) == task[t].st # "off" /\ task[t].start = start

\* update_ping_and_loop_ping_status before consume.
FirstPing(t) ==
    /\ Starting(t, "due") /\ Holds(t)
    /\ ping' = "fresh"
    /\ task' = [task EXCEPT ![t].start = "done"]
    /\ UNCHANGED <<enabled, server_id, version, fetched, up, spent, lapses>>

\* It fails: handle_ping_result resets the ping, and its None is not looked at.
FirstPingFails(t) ==
    /\ Starting(t, "due") /\ ~Holds(t)
    /\ task' = [task EXCEPT ![t].start = "resetting"]
    /\ lapses' = lapses + 1
    /\ UNCHANGED <<trigger, fetched, up, spent>>

FirstReset(t) ==
    /\ Starting(t, "resetting")
    /\ ping' = PingAfterReset
    /\ task' = [task EXCEPT ![t].start = "done"]
    /\ UNCHANGED <<enabled, server_id, version, fetched, up, spent, lapses>>

Fault == spent.faults < MaxFaults /\ spent' = [spent EXCEPT !.faults = @ + 1]

\* The statement returns an error, which is only logged.
FirstPingErrs(t) ==
    /\ Starting(t, "due") /\ Fault
    /\ task' = [task EXCEPT ![t].start = "done"]
    /\ UNCHANGED <<trigger, fetched, up, lapses>>

\* The consumer is not there yet, or there to fail.
Errors(t) == task[t].st # "off" /\ task[t].start \in {"none", "done"} /\ Fault

\* get_consumer or consume fails: disable_with_error, whoever has the lease.
DisableWithError(t) ==
    /\ Errors(t)
    /\ enabled' = FALSE
    /\ server_id' = NoServer
    /\ ping' = "null"
    /\ task' = [task EXCEPT ![t] = Off]
    /\ lapses' = lapses + (IF Engaged(t) THEN 0 ELSE 1)
    /\ UNCHANGED <<version, fetched, up>>

\* The consumer ends by itself, or there is none; the lease runs out.
ConsumerEnds(t) ==
    /\ Errors(t)
    /\ task' = [task EXCEPT ![t] = Off]
    /\ UNCHANGED <<trigger, fetched, up, lapses>>
-----------------------------------------------------------------------------
(* Users, clocks and crashes.                                              *)

Edited == spent.edits < MaxEdits /\ spent' = [spent EXCEPT !.edits = @ + 1]

\* A mutant of Edit: the ping is reset as well.
EditResettingPing ==
    /\ Edited
    /\ version' = version + 1
    /\ server_id' = NoServer
    /\ ping' = "null"
    /\ UNCHANGED <<enabled, fetched, task, up, lapses>>

\* A mutant of Edit: the server keeps the lease.
EditKeepingServer ==
    /\ Edited
    /\ version' = version + 1
    /\ UNCHANGED <<enabled, server_id, ping, fetched, task, up, lapses>>

\* update_trigger, and update_triggers_script_path for a renamed runnable.
Edit ==
    /\ Edited
    /\ version' = version + 1
    /\ server_id' = NoServer
    /\ UNCHANGED <<enabled, ping, fetched, task, up, lapses>>

SetTriggerMode(mode) ==
    /\ Edited
    /\ enabled' = mode
    /\ server_id' = NoServer
    /\ UNCHANGED <<ping, version, fetched, task, up, lapses>>

\* 15 seconds pass without a ping.  A task whose pings come through has pinged
\* meanwhile, or has stopped.
Expire ==
    /\ ping = "fresh" /\ \A t \in Task : ~Engaged(t)
    /\ ping' = "stale"
    /\ UNCHANGED <<enabled, server_id, version, fetched, task, up, spent, lapses>>

\* The pings of a task return errors for as long, which loop_ping only logs.
Stall ==
    /\ ping = "fresh" /\ \E t \in Task : Engaged(t)
    /\ Fault /\ lapses' = lapses + 1
    /\ ping' = "stale"
    /\ UNCHANGED <<enabled, server_id, version, fetched, task, up>>

\* A server dies or is shut down (killpill), and with it its tasks.
Crash(s) ==
    /\ s \in up /\ up # {s}
    /\ Fault
    /\ up' = up \ {s}
    /\ fetched' = [fetched EXCEPT ![s] = {}]
    /\ task' = [t \in Task |-> IF task[t].server = s THEN Off ELSE task[t]]
    /\ UNCHANGED <<trigger, lapses>>
-----------------------------------------------------------------------------
Next ==
    \/ \E s \in Server : Fetch(s) \/ ClaimFails(s) \/ Crash(s)
    \/ \E s \in Server, t \in Task : Claim(s, t)
    \/ \E t \in Task :
          \/ Ping(t) \/ PingFails(t) \/ ResetPingForRestart(t) \/ Stop(t)
          \/ Connect(t) \/ FirstPing(t) \/ FirstPingFails(t) \/ FirstReset(t)
          \/ FirstPingErrs(t) \/ DisableWithError(t) \/ ConsumerEnds(t)
    \/ Edit \/ (\E mode \in BOOLEAN : SetTriggerMode(mode)) \/ Expire \/ Stall

Spec == Init /\ [][Next]_vars

\* Servers poll, tasks ping and connect, and time passes.
FairSpec ==
    /\ Spec
    /\ \A s \in Server :
          /\ WF_vars(Fetch(s))
          /\ WF_vars(ClaimFails(s) \/ \E t \in Task : Claim(s, t))
    /\ \A t \in Task :
          /\ WF_vars(PingFails(t)) /\ WF_vars(ResetPingForRestart(t)) /\ WF_vars(Stop(t))
          /\ WF_vars(Connect(t))
          /\ WF_vars(FirstPing(t) \/ FirstPingFails(t)) /\ WF_vars(FirstReset(t))
    /\ WF_vars(Expire)
-----------------------------------------------------------------------------
(* Properties.                                                             *)

\* The lease is exclusive but for what is on record: a second task that can go on
\* pinging the trigger, on the same server or on another, is owed to a stall or
\* to a failed ping that a task has passed over, however often the trigger is
\* edited, disabled, enabled or left by a server that dies.
OneHolder ==
    Cardinality({t \in Task : Listening(t) /\ Holds(t)}) <= 1 + lapses

\* The strengthening of OneHolder: as long as nothing is on record, a task that
\* may still ping, or reset the ping, is alone and the ping is fresh; each lapse
\* lets in one task more, now or once the ping is reset that it leads to.
LeaseInv ==
    LET resets == Cardinality({t \in Task : Starting(t, "resetting")}) IN
    /\ resets <= lapses
    /\ Cardinality({t \in Task : Engaged(t)}) + resets + (IF ping = "fresh" THEN 0 ELSE 1)
          <= 1 + lapses

\* A trigger that stays enabled is listened to in the end: no edit, no crash and
\* no failed ping passed over leaves a lease behind that nobody gives up.
IsListenedTo == <>[](enabled => \E t \in Task : Consuming(t) /\ Listening(t) /\ Holds(t))

\* The comment on update_triggers_script_path has an edit reset server_id "to
\* force the heartbeat-based restart mechanism to pick up the new config".  What
\* the code keeps of it: a listener that goes on with an old configuration for
\* ever has taken its lease in the window between a server's SELECT and its
\* UPDATE, or there was a stall, or a failed ping that was passed over.
OldConfigIsOwed ==
    <>[](lapses = 0 =>
            \A t \in Task : Consuming(t) /\ ~task[t].old => task[t].version = version)
=============================================================================
