CONSTANTS
    Callers = {c1, c2}
    MaxAttempts = 2
    MaxStreams = 3
    MaxReconnects = 2
SPECIFICATION FairSpec
INVARIANTS
    OneLoopPerClient
    ReadyClosedOnce
    OneReaderPerStream
PROPERTY ReconnectsSettle
CHECK_DEADLOCK FALSE
