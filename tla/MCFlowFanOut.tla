---------------------------- MODULE MCFlowFanOut ----------------------------
(* Instances of FlowFanOut for TLC.  Threads are interchangeable.          *)
EXTENDS FlowFanOut, TLC

ThreadSymmetry == Permutations(Proc)
=============================================================================
