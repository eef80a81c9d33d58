SPECIFICATION FairSpec
CONSTANTS
    N = 3
    Attempts = 1
    HasFailureModule = TRUE
    ContinueOnError = {1}
    Proc = {p1, p2}
    MaxJobs = 8
    MaxFaults = 3
    SlowWorkers = FALSE
    UserCancels = TRUE
CHECK_DEADLOCK FALSE
INVARIANTS StepsInSequence StepsInOrder SuccessIsEarned CancelStopsFlow
PROPERTY FlowCompletes
