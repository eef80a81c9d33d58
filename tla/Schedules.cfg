SPECIFICATION FairSpec
CONSTANTS
    Cron <- Expressions
    Path = {p1, p2}
    MaxTime = 3
    Slot = {1, 2, 3, 4, 5, 6, 7}
    MaxShifts = 1
    MaxEdits = 1
    MaxFaults = 1
    MaxReentries = 1
CHECK_DEADLOCK FALSE
INVARIANTS NoSilentStop NoOverlap
PROPERTIES TickIsLater QuietOnceDisabled KeepsTicking
