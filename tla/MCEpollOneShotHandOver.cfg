SPECIFICATION Spec
CONSTANTS
    Clients = {c1, c2}
    Fds = {f1, f2}
    Listen = Listen
    Workers = {w1, w2}
    NULL = NULL
    MaxInput = 1
INVARIANTS WorkerServesItsFd
CHECK_DEADLOCK FALSE
