SPECIFICATION FairSpec
CONSTANTS
    Keys = {k1, k2}
    Handlers = {h1, h2}
    TTL = 3
    MaxHandling = 1
    MaxChanges = 2
    None = None
INVARIANTS
    TypeOK
    OutdatedForTTL
PROPERTY CacheCatchesUp
