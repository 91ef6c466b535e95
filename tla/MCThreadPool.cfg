SPECIFICATION FairSpec
CONSTANTS
    Workers = {w1, w2}
    Appenders = {a1, a2}
    Requests = {r1, r2, r3}
    NULL = NULL
    MaxRequests = 1
    InitResults = {"ok", "error"}
    CreateResults = {"ok", "error"}
    DetachResults = {"ok", "error"}
INVARIANTS TypeOK TakenOnceInOrder NoLostWakeup WokenFindsRequest NothingServedWhileOpen
PROPERTY AppendReturns
CHECK_DEADLOCK FALSE
