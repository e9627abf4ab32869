CONSTANTS
    Calls = {c1, c2}
    NoCall = none
    RangeSize = 2
    MaxFaults = 2
SPECIFICATION CSpec
CHECK_DEADLOCK FALSE
INVARIANTS OneOwnerPerServer  CancellationArrives
PROPERTY CallEnds
