SPECIFICATION CallerSpec
CONSTANTS
    Timers = {t1, t2, t3, t4, t5, t6, t7, t8, t9, t10, t11, t12}
    NULL = NULL
    Delays = {0}
    Capacities = {8}
    MaxTime = 12
PROPERTY TimerIsLost
CHECK_DEADLOCK FALSE
