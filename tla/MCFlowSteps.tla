---------------------------- MODULE MCFlowSteps ----------------------------
(* FlowSteps for TLC: threads are interchangeable.                         *)
EXTENDS FlowSteps, TLC

ThreadSymmetry == Permutations(Proc)
=============================================================================
