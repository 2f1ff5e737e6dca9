CONSTANTS
    None = None
    Settings <- MCSettings
    Shapes <- MCShapes
    MaxSells = 7
SPECIFICATION Spec
INVARIANTS
    TypeOK
    LevelIffPosition
    SellsCoverLots
PROPERTIES
    TrailingRatchets
    FullCoverIsProfit
    DcaRespectsLimit
    LifoBook
