SPECIFICATION FairSpec
CONSTANTS
    MaxRestarts = 3
    MaxFaults = 4
INVARIANTS TypeOK FreshMap
PROPERTIES Reconnects  
CHECK_DEADLOCK FALSE
