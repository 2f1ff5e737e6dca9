CONSTANTS
    None = None
    Malformed = Malformed
    Settings <- MCSettings
    Constraints <- MCConstraints
    WindowBars = 1
    Prices = {0, 10}
    Qtys = {1, 3, 4}
    MaxBar = 3
    MaxFills = 4
SPECIFICATION Spec
INVARIANTS
    TypeOK
    RateLimit
    PositionIsNetOfFills
    PerBarCaps
PROPERTIES
    LifoBook
CHECK_DEADLOCK FALSE
