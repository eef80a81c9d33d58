SPECIFICATION FairSpec
CONSTANTS
    NStages = 4
    Kind <- TasksThenApprovalKind
    Width <- TasksThenApprovalWidth
    Proc = {p1, p2}
    Request = {r1}
    MaxChildren = 6
    MaxMessages = 1
    MaxCrashes = 2
    MaxPushErrors = 1
CHECK_DEADLOCK FALSE
INVARIANTS CountsChildren OneDriver StepsOnce ResultsAreReal NoLostWakeup
PROPERTY WorkflowEnds
