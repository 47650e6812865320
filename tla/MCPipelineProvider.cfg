SPECIFICATION PipelineSpec
CONSTANTS
    Publishers = {k1}
    Events = {1}
    Limit = 1
    Workers = {w1}
    Amount <- MCAmount
    Mantissa = 1024
    Scales <- MCScales
    QueueFirst = TRUE
    Faults = {"handler"}
    MaxFaults = 1
    None = None
INVARIANT NothingIsForgotten
CHECK_DEADLOCK FALSE
