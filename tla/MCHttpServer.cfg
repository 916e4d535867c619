SPECIFICATION Spec
CONSTANTS
    N = 2
    Sockets = {s1, s2, s3}
    NoSocket = null
SYMMETRY Symmetry
CHECK_DEADLOCK FALSE
INVARIANTS
    TypeOK
    SocketOwned
    PostFindsEmpty
    AllClosedAtEnd
