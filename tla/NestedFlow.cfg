SPECIFICATION FairSpec
CONSTANTS
    Flows <- MCFlows
    Roots <- MCRoots
    MaxItems = 2
    MaxJobs = 8
    MaxFaults = 1
    UserCancels = TRUE
CHECK_DEADLOCK FALSE
INVARIANTS OneAtATime IterationsInOrder NoFailureIsLost NothingIsSkipped HandledOnce
PROPERTY EveryJobEnds
