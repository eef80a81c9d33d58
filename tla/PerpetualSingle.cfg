SPECIFICATION Spec
CONSTANTS
    Job = {p1, p2, p3}
    Perpetual = {p1, p2, p3}
    Worker = {w1, w2}
    Api = {}
    Monitor = {m1}
    NoJob = NoJob
    Timeouts = FALSE
    RestartZombieJobs = TRUE
    RestartLimit = 3
    MaxRetries = 10
    ChannelSize = 10
    MaxFaults = 0
CHECK_DEADLOCK FALSE
INVARIANT OnePerpetualRun
