---------------------------- MODULE JobLifecycle ----------------------------
(***************************************************************************)
(* What the job queue promises about one job, without workers, pings,      *)
(* transactions or crashes: it is enqueued once, an attempt at it may be   *)
(* started again at most Limit times, each on record, and once it is done  *)
(* it never comes back.                                                    *)
(***************************************************************************)
EXTENDS Naturals

CONSTANTS Job, Limit

VARIABLES phase, restarts

vars == <<phase, restarts>>

Phase == {"none", "queued", "running", "done"}

TypeOK == phase \in [Job -> Phase] /\ restarts \in [Job -> 0 .. Limit]

Init ==
    /\ phase = [j \in Job |-> "none"]
    /\ restarts = [j \in Job |-> 0]

Enqueue(j) ==
    /\ phase[j] = "none"
    /\ phase' = [phase EXCEPT ![j] = "queued"]
    /\ UNCHANGED restarts

Claim(j) ==
    /\ phase[j] = "queued"
    /\ phase' = [phase EXCEPT ![j] = "running"]
    /\ UNCHANGED restarts

\* Attempts that are thought lost are taken back, several at once.
Restart(S) ==
    /\ \A j \in S : phase[j] = "running" /\ restarts[j] < Limit
    /\ phase' = [j \in Job |-> IF j \in S THEN "queued" ELSE phase[j]]
    /\ restarts' = [j \in Job |-> IF j \in S THEN restarts[j] + 1 ELSE restarts[j]]

\* A job may finish without ever having been claimed: it was cancelled.
Finish(j) ==
    /\ phase[j] \in {"queued", "running"}
    /\ phase' = [phase EXCEPT ![j] = "done"]
    /\ UNCHANGED restarts

Next ==
    \/ \E j \in Job : Enqueue(j) \/ Claim(j) \/ Finish(j)
    \/ \E S \in SUBSET Job : Restart(S)

Spec == Init /\ [][Next]_vars
=============================================================================
