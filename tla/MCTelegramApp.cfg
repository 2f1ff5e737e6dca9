CONSTANTS
    None = None
    Blank = Blank
    Malformed = Malformed
    Chats = {c1, c2}
    Interval = 2
    Bots = {b1, b2}
    Bot = b1
    LotIds <- MCLotIds
    States <- MCStates
    CloseTimes = {2}
    Environments <- MCEnvironments
    MaxEvents = 4
SPECIFICATION Spec
INVARIANTS
    TypeOK
    BotsDoNotMix
    RepliesAreOneState
    SteadySubscriberIsTriedOnce
PROPERTIES
    SpacedSends
    RestoringLaunchKeepsBook
    BroadcastEnds
CHECK_DEADLOCK FALSE
