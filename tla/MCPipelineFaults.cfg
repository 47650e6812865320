SPECIFICATION PipelineSpec
CONSTANTS
    Publishers = {k1}
    Events = {1, 2, 3}
    Limit = 2
    Workers = {w1, w2}
    Amount <- MCAmount
    Mantissa = 1024
    Scales <- MCScales
    QueueFirst = TRUE
    Faults = {"publisher", "consumer", "handler", "webhook", "restart"}
    MaxFaults = 2
    None = None
SYMMETRY MCSymmetry
INVARIANTS
    PipelineTypeOK
    OnlyHitIsForgotten
    SettledByAmount
PROPERTIES
    SentIsFinal
    HandedOverOnce
    RefinesLife
CHECK_DEADLOCK FALSE
