CONSTANTS
    MaxSentences = 3
    MaxReplies = 1
    MaxTurns = 1
SPECIFICATION FairSpec
INVARIANTS
    ContextLive
    NoLostWakeup
    SilencedByBargeIn
    ControllerSettles
PROPERTIES
    ImplementsSentenceLife
    ProcessorsExit
    QueueDrains
CHECK_DEADLOCK FALSE
