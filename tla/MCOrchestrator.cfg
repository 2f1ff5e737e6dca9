CONSTANTS
    None = None
    Settings <- MCSettings
    Constraints <- MCConstraints
    WindowBars = 3
    Shapes <- MCShapes
    MaxBar = 5
    MaxDeaths = 2
    StartPolicies = {"reset", "restore"}
    Bots = {b1}
    Bot = b1
    Timeframe = 1
    Day = 4
    AnchorMode = "utc_day_start"
    AnchorTime = None
SPECIFICATION Spec
INVARIANTS
    TypeOK
    TradesInOrder
    TradesSkipABar
    AuditChain
    FillsOnce
    DeathLosesOneTrade
    IdleStateIsSaved
PROPERTIES
    SafeStopHolds
    HandlersReturn
CHECK_DEADLOCK FALSE
