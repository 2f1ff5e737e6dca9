CONSTANTS
    None = None
    Qtys = {0, 1, 2, 3, 5}
    Prices = {10, 11}
SPECIFICATION Spec
INVARIANTS
    TypeOK
    FillsWithinOrder
PROPERTIES
    TerminalIsFinal
    FillsAreKept
