SPECIFICATION FairSpec
CONSTANTS
    Gateways = {g1, g2}
    N = 2
    Opening <- MCOpening
    Bypass <- MCBypass
    Requests = {r1, r2}
    MaxCrashes = 2
    None = None
INVARIANTS TypeOK SeedsAreWhole ServingIsSeeded DeactivationBites
PROPERTIES SeedIsIdempotent EveryGatewayServes
CHECK_DEADLOCK FALSE
