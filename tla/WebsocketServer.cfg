SPECIFICATION Spec
CONSTANTS
    alice = alice
    bob = bob
    NoSession = NoSession
    Connections <- MCConnections
    Waiting = {alice}
    Kinds <- MCKinds
    MaxMessages = 2
CHECK_DEADLOCK FALSE

    
PROPERTIES
    
    ServesRequests
