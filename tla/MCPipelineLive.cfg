SPECIFICATION PipelineFairSpec
CONSTANTS
    Publishers = {k1, k2}
    Events = {1, 2}
    Limit = 2
    Workers = {w1, w2}
    Amount <- MCAmount
    Mantissa = 1024
    Scales <- MCScales
    QueueFirst = TRUE
    Faults = {"consumer"}
    MaxFaults = 2
    None = None
INVARIANTS
    AskedOncePerFault
    NothingIsForgotten
PROPERTY EveryPaymentSettles
CHECK_DEADLOCK FALSE
