SPECIFICATION PipelineFairSpec
CONSTANTS
    Publishers = {k1}
    Events = {1}
    Limit = 1
    Workers = {w1}
    Amount <- MCAmount
    Mantissa = 1024
    Scales <- MCScales
    QueueFirst = FALSE
    Faults = {}
    MaxFaults = 0
    None = None
PROPERTY EveryPaymentSettles
CHECK_DEADLOCK FALSE
