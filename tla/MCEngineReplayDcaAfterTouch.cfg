CONSTANTS
    None = None
    Settings <- MCSettings
    Shapes <- MCShapes
    MaxSells = 7
SPECIFICATION Spec
PROPERTY
    NoDcaAfterTpTouch
