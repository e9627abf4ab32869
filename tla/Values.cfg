SPECIFICATION Spec
CONSTANTS
    Strings <- MCStrings
    DateOf <- MCDateOf
    TextOf <- MCTextOf
    Base64 <- MCBase64
    BitsPerByte = 2
    NamedTypes <- MCNamedTypes
    Objects <- MCObjects
    Calculations <- MCCalculations
    CalcGraph <- MCCalcGraph
    UuidTokens <- MCUuidTokens
    Catalog <- MCCatalog
    Calls <- AllCalls
CHECK_DEADLOCK FALSE
INVARIANTS
    
    
    
    RequestsKept
    
