SPECIFICATION FairSpec
CONSTANTS
    Timers = {t1, t2, t3, t4}
    NULL = NULL
    Delays = {0, 1, 2}
    MaxTime = 3
INVARIANTS TypeOK ListOK TickAtHead
PROPERTIES KeepsDeadlines TickTerminates
CHECK_DEADLOCK FALSE
