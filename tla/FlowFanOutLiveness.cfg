SPECIFICATION FairSpec
CONSTANTS
    Iterations = 3
    Parallelism = 1
    Skipped = {}
    Proc = {p1, p2}
    CrashPoints = {"push", "run", "complete", "report", "release", "unlock"}
    DbErrors = TRUE
    StartErrors = FALSE
    LongWaits = TRUE
    UserCancels = FALSE
    MaxFaults = 1
CHECK_DEADLOCK FALSE
PROPERTY FlowCompletes
