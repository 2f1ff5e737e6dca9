CONSTANTS
    None = None
    Settings <- MCSettings
    Constraints <- MCConstraints
    WindowBars = 3
    Shapes <- MCShapes
    MaxBar = 5
    MaxDeaths = 2
    StartPolicies = {"reset", "restore"}
    Bots = {b1}
    Bot = b1
    Timeframe = 1
    Day = 4
    AnchorMode = "utc_day_start"
    AnchorTime = None
SPECIFICATION Spec
INVARIANT
    EveryTradeIsLogged
CHECK_DEADLOCK FALSE
