CONSTANTS
    ImageOf <- MCImageOf
    MaxSpawns = 4
    MaxDeaths = 2
SPECIFICATION SSpec
CHECK_DEADLOCK FALSE
INVARIANTS ResultOfThisJob OneCallAtATime
PROPERTY CalculationEnds
