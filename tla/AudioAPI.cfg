CONSTANTS
    Speech = {r1, r2}
    Batch = {t1}
    Voices = {v1}
    Buffers = {b1, b2}
    MaxAudio = 2
    MaxVoiceOps = 1
    None = None
SPECIFICATION AudioSpec
INVARIANTS
    OwnAudioWhole
    ForeignAudioOnlyFromCutOff
CHECK_DEADLOCK FALSE
