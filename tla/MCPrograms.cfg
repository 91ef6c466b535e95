SPECIFICATION FairSpec
CONSTANTS
    Clients = {c1, c2}
    Fds = {f1, f2}
    Listen = Listen
    NULL = NULL
    MaxInput = 2
    MaxSignals = 3
    Waiters = {t1, t2, t3}
    Nobody = Nobody
    MaxCalls = 5
INVARIANTS SemaphoreKept StrandedCounted UrgentKept ConnectedOrClosed
PROPERTIES WaiterPasses InputIsHandled StreamIsRead SignalsAreWaitedFor WokenReturns
CHECK_DEADLOCK FALSE
