SPECIFICATION FairSpec
CONSTANTS
    N = 3
    Required <- TwoThenOne
    Continue = {1}
    ResumeId = {1, 2}
    Request = {r1, r2}
    MaxMessages = 3
    MaxCrashes = 1
    UserCancels = TRUE
CHECK_DEADLOCK FALSE
INVARIANT PassedIsApproved
PROPERTIES DisapprovalIsFinal ApprovedGoesOn FlowEnds
