-------------------------- MODULE MCWorkflowAsCode --------------------------
(* WorkflowAsCode for TLC, with the scripts it runs.                       *)
EXTENDS WorkflowAsCode, TLC

\* A sleep, two tasks in parallel, an inline step, an approval at the end.
TasksThenApprovalKind ==
    (0 :> "sleep") @@ (1 :> "tasks") @@ (2 :> "inline") @@ (3 :> "approval")
TasksThenApprovalWidth == (0 :> 1) @@ (1 :> 2) @@ (2 :> 1) @@ (3 :> 1)

\* Two approvals.
TwoApprovalsKind == (0 :> "approval") @@ (1 :> "approval")
TwoApprovalsWidth == (0 :> 1) @@ (1 :> 1)
=============================================================================
