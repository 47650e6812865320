SPECIFICATION Spec
CONSTANTS
    Keys = {k1}
    Handlers = {h1}
    TTL = 30
    MaxHandling = 0
    MaxChanges = 2
    None = None
INVARIANT SecondLookIsCurrent
