SPECIFICATION SessSpec
CONSTANTS
    c1 = c1
    c2 = c2
    None = None
    Daemons = {d1}
    Named = {d1}
    Sockets = {1, 2}
    Conns = {c1, c2}
    Outputs <- TwoChunks
    MaxCalls = 1
    MaxInFlight = 1
    MaxFaults = 2
SYMMETRY ConnSymmetry
INVARIANTS SessTypeOK ReadsPrefix OutputKept
CHECK_DEADLOCK FALSE
