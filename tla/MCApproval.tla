---------------------------- MODULE MCApproval -----------------------------
(* Approval for TLC: the settings of the steps are functions, which a .cfg *)
(* cannot spell out.                                                       *)
EXTENDS Approval, TLC

\* A step that waits for two messages, then one that waits for one.
TwoThenOne == (0 :> 2) @@ (1 :> 1) @@ (2 :> 0)
=============================================================================
