SPECIFICATION FairSpec
CONSTANTS
    Clients = {c1, c2}
    Fds = {f1, f2}
    Listen = Listen
    Workers = {w1, w2}
    NULL = NULL
    MaxInput = 2
PROPERTIES InputIsReceived
CHECK_DEADLOCK FALSE
