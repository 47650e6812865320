SPECIFICATION OutboxFairSpec
CONSTANTS
    Publishers = {k1, k2}
    Events = {1, 2, 3}
    Limit = 2
INVARIANTS
    OutboxTypeOK
    HandedOnce
    PendingIsFresh
    SentIsHanded
PROPERTY EveryEventIsTaken
CHECK_DEADLOCK FALSE
