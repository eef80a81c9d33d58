SPECIFICATION FairSpec
CONSTANTS
    NStages = 2
    Kind <- TwoApprovalsKind
    Width <- TwoApprovalsWidth
    Proc = {p1, p2}
    Request = {r1}
    MaxChildren = 0
    MaxMessages = 2
    MaxCrashes = 0
    MaxPushErrors = 0
CHECK_DEADLOCK FALSE
INVARIANT ApprovalIsItsOwn
