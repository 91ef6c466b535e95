SPECIFICATION Spec
CONSTANTS
    Timers = {t1, t2}
    NULL = NULL
    Delays = {0, 1}
    MaxTime = 1
INVARIANTS EveryTimerCanBeDeleted
CHECK_DEADLOCK FALSE
