SPECIFICATION Spec
CONSTANTS
    Job = {j1}
    Perpetual = {}
    Worker = {w1, w2}
    Api = {a1}
    Monitor = {m1}
    NoJob = NoJob
    Timeouts = TRUE
    RestartZombieJobs = TRUE
    RestartLimit = 2
    MaxRetries = 1
    ChannelSize = 1
    MaxFaults = 2
CHECK_DEADLOCK FALSE
SYMMETRY WorkerSymmetry
INVARIANTS TypeOK OnePlace RunningHasPing ClaimsAccounted
PROPERTY LifecycleSpec
