SPECIFICATION Spec
CONSTANTS
    N = 1
    Sockets = {s1, s2}
    NoSocket = null
CHECK_DEADLOCK FALSE
INVARIANTS
    WorkerHasSocket
