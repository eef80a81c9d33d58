SPECIFICATION Spec
CONSTANTS
    Iterations = 3
    Parallelism = 2
    Skipped = {3}
    Proc = {p1, p2}
    CrashPoints = {"push", "run", "complete", "report", "last", "release", "unlock", "advance", "server"}
    DbErrors = FALSE
    StartErrors = TRUE
    LongWaits = FALSE
    UserCancels = TRUE
    MaxFaults = 2
CHECK_DEADLOCK FALSE
SYMMETRY ThreadSymmetry
INVARIANTS BoundedParallelism JoinIsComplete
