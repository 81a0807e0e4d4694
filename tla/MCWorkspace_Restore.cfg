SPECIFICATION Spec
CONSTANTS
    one = one
    two = two
    torn = torn
    s1 = s1
    s2 = s2
    None = None
    Paths <- TreePaths
    Kinds <- TreeKinds
    Targets <- LinkTargets
    Contents <- MCContents
    Torn = torn
    SizeOf <- MCSizeOf
    Snaps = {s1, s2}
    SameSecond = TRUE
    MaxEdits = 2
    MaxFaults = 2
SYMMETRY WsSymmetry
INVARIANTS TypeOK Restorable 
PROPERTIES ObjectsImmutable 
CHECK_DEADLOCK FALSE
