SPECIFICATION SessFairSpec
CONSTANTS
    c1 = c1
    c2 = c2
    None = None
    Daemons = {d1}
    Named = {d1}
    Sockets = {1, 2}
    Conns = {c1, c2}
    Outputs <- OneChunk
    MaxCalls = 1
    MaxInFlight = 1
    MaxFaults = 1
PROPERTIES EndClosesChannel AbandonedIsClosed
CHECK_DEADLOCK FALSE
