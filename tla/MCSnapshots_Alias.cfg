SPECIFICATION Spec
CONSTANTS
    i1 = i1
    i2 = i2
    i3 = i3
    k1 = k1
    k2 = k2
    None = None
    Clients = {k1}
    Ids = {i1, i2}
    Names <- MCNames
    Tags = {1, 3}
    TempOf <- MCTempOf
    MaxAborts = 0
INVARIANT TagKept
CHECK_DEADLOCK FALSE
