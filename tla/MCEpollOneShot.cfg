SPECIFICATION Spec
CONSTANTS
    Clients = {c1, c2, c3}
    Fds = {f1, f2}
    Listen = Listen
    Workers = {w1, w2, w3}
    NULL = NULL
    MaxInput = 2
SYMMETRY Symmetry
INVARIANTS TypeOK OneWorkerPerSocket InputIsAttended
PROPERTIES ClosedAtTheEnd
CHECK_DEADLOCK FALSE
