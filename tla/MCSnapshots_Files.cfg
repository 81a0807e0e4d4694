SPECIFICATION Spec
CONSTANTS
    i1 = i1
    i2 = i2
    i3 = i3
    k1 = k1
    k2 = k2
    None = None
    Clients = {k1}
    Ids = {i1, i2, i3}
    Names <- MCNames
    Tags = {1, 2, 4}
    TempOf <- MCTempOf
    MaxAborts = 2
SYMMETRY IdSymmetry
INVARIANTS TypeOK RefsResolve TagKeptUncut ListingAgrees
PROPERTY ImplementsCatalog
CHECK_DEADLOCK FALSE
