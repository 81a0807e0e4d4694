SPECIFICATION RpcSpec
CONSTANTS
    c1 = c1
    c2 = c2
    c3 = c3
    c4 = c4
    r1 = r1
    r2 = r2
    None = None
    Daemons = {d1}
    Named = {d1}
    Sockets = {1, 2}
    Conns = {c1, c2, c3}
    Reqs = {r1, r2}
    Commands = {r1}
    MaxInFlight = 2
    MaxFaults = 1
SYMMETRY RpcSymmetry
INVARIANTS RpcTypeOK AtMostOnce SenderAlive LostOnlyByReplacement PendingIsOwed AckFirst
PROPERTY ImplementsCall
CHECK_DEADLOCK FALSE
