SPECIFICATION Spec
CONSTANTS
    Peers = {p1, p2}
    Loops = {l1, l2}
    MinPeers = 1
    MaxPending = 1
    Tolerance = 0
    MaxErrors = 2
    MaxRound = 2
    MaxHandlers = 1
INVARIANTS OneLoop OneAggregation BacklogBound MergedOnce
PROPERTIES  StopEndsLoop
CHECK_DEADLOCK FALSE
