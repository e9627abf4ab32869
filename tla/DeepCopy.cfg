CONSTANTS
    Types <- MCTypes
    Parts <- MCParts
    Objects <- MCObjects
    Calcs <- MCCalcs
    TypeOf <- MCTypeOf
    Refs <- MCRefs
    Args <- MCArgs
    Root <- MCRoot
    c1 = c1
    c2 = c2
    Clients = {c1, c2}
    MaxTries = 2
    MaxFaults = 1
    MaxRestarts = 1
    MaxLost = 1
SPECIFICATION Spec
CHECK_DEADLOCK FALSE
INVARIANTS CopiedIsComplete 
PROPERTY CopyEnds
