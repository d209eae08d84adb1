CONSTANTS
    Sessions = {s1, s2}
    MaxTurns = 1
    MaxRuns = 2
    Nobody = Nobody
SPECIFICATION FairVisionSpec
PROPERTIES
    ClosedLeavesNoFrames
    TranscriptsAreSent
CHECK_DEADLOCK FALSE
