SPECIFICATION RpcFairSpec
CONSTANTS
    c1 = c1
    c2 = c2
    c3 = c3
    c4 = c4
    r1 = r1
    r2 = r2
    None = None
    Daemons = {d1, n1}
    Named = {d1}
    Sockets = {1, 2}
    Conns = {c1, c2}
    Reqs = {r1, r2}
    Commands = {r1}
    MaxInFlight = 2
    MaxFaults = 0
INVARIANT NamelessStaysOut
PROPERTIES AcceptedIsAnswered
CHECK_DEADLOCK FALSE
