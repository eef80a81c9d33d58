-------------------------- MODULE MCTriggerLease ---------------------------
(* TriggerLease for TLC: all of its constants are set in the .cfg files.   *)
EXTENDS TriggerLease
=============================================================================
