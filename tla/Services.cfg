SPECIFICATION Spec
CONSTANTS
    NumCalls = 3
    Dlls = {"one", "two"}
    Uuids = {"norm"}
    Preloaded = "two"
    UuidsOf <- MCUuidsOf
    Ops <- MCOps
    HandlerThreads = 2
    MaxFiles = 2
    MaxRestarts = 1
    NoOp = NoOp
CHECK_DEADLOCK FALSE
INVARIANTS LocksExact RegistryExact AnsweredBlobIntact
PROPERTY PingAnswered
