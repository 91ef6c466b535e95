SPECIFICATION Spec
CONSTANTS
    Timers = {t1, t2, t3, t4, t5}
    NULL = NULL
    Delays = {0, 1, 2}
    Capacities = {2, 4}
    MaxTime = 2
SYMMETRY Symmetry
INVARIANTS TypeOK HoldsEachOnce RootStays
PROPERTIES AddKeepsOrder PopFindsEarliest TickServesDue
CHECK_DEADLOCK FALSE
