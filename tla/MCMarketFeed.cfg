CONSTANTS
    None = None
    Malformed = Malformed
    OutOfRange = OutOfRange
    MaxBar = 4
    MaxVersion = 2
    MaxWire = 3
    MaxFailures = 2
    AttemptLimits <- MCAttempts
    CandleLimits <- MCCandles
SPECIFICATION Spec
INVARIANTS
    TypeOK
    BarsWholeUnlessLost
    NeverMoreThanAsked
PROPERTIES
    DropIsRetried
    StreamGoesOn
CHECK_DEADLOCK FALSE
