SPECIFICATION Spec
CONSTANTS
    Workers = {w1, w2}
    Feeder = Feeder
    Threshold = 2
    MaxChunks = 2
    Sizes = {1, 2}
    MaxBatches = 2
    Lanes <- OneLane
    None = None
    MaxFlushes = 3
    MaxCalls = 1
    MaxThrows = 1
INVARIANTS DecodedOnce ReturnedWhole
PROPERTIES FeedReturns

CHECK_DEADLOCK FALSE
