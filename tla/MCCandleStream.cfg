CONSTANTS
    None = None
    Updates <- MCUpdates
SPECIFICATION Spec
INVARIANTS
    TypeOK
    EmittedInOrder
    EmittedIsLatest
