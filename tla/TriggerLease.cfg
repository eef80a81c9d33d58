SPECIFICATION FairSpec
CONSTANTS
    Server = {s1, s2}
    NoServer = NoServer
    Task = {t1, t2}
    MaxEdits = 2
    MaxFaults = 1
CHECK_DEADLOCK FALSE
INVARIANTS OneHolder LeaseInv
PROPERTIES IsListenedTo OldConfigIsOwed
