SPECIFICATION FairSpec
CONSTANTS
    c1 = c1
    c2 = c2
    c3 = c3
    c4 = c4
    None = None
    Daemons = {d1}
    Named = {d1}
    Sockets = {1, 2, 3}
    Conns = {c1, c2}
    MaxInFlight = 2
    MaxFaults = 1
PROPERTIES LeavesDeadSocket
CHECK_DEADLOCK FALSE
