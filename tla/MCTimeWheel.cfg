SPECIFICATION FairSpec
CONSTANTS
    Timers = {t1, t2, t3}
    NULL = NULL
    N = 3
    SI = 2
    MaxTimeout = 14
INVARIANTS TypeOK LinksOK
PROPERTIES KeepsCountdown TickTerminates
CHECK_DEADLOCK FALSE
