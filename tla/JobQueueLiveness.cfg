SPECIFICATION FairSpec
CONSTANTS
    Job = {p1, p2}
    Perpetual = {p1, p2}
    Worker = {w1}
    Api = {}
    Monitor = {m1}
    NoJob = NoJob
    Timeouts = FALSE
    RestartZombieJobs = TRUE
    RestartLimit = 2
    MaxRetries = 1
    ChannelSize = 1
    MaxFaults = 2
CHECK_DEADLOCK FALSE
INVARIANT OneRunUnlessRestarted
PROPERTY EveryJobCompletes
