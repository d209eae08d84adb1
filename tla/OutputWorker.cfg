CONSTANTS
    Streams = {t1}
    Workers = {w1}
    Frames = 3
    BufferSize = 2
    MaxFlushes = 2
    MayClose = TRUE
SPECIFICATION FairSpec
INVARIANTS
    Accounting
    DrainedMeansGone
PROPERTIES
    QueueDrains
    FlushReturns
    StopCompletes
CHECK_DEADLOCK FALSE
