SPECIFICATION Spec
CONSTANTS
    Workers = {w1, w2}
    Appenders = {a1}
    Requests = {r1}
    NULL = NULL
    MaxRequests = 1
    InitResults = {"ok"}
    CreateResults = {"ok"}
    DetachResults = {"ok"}
INVARIANTS ThrowsOnlyOnFailure
CHECK_DEADLOCK FALSE
