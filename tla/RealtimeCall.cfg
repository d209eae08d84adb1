CONSTANTS
    Calls = {c1}
    Users = {u1, u2}
    Owner <- MCOwner
    EventBuf = 1
    AudioBuf = 1
    IceBuf = 1
    MaxInput = 4
    None = None
SPECIFICATION FairCallSpec
INVARIANTS
    FailedCallHoldsNothing
PROPERTY OffersAreAnswered
CHECK_DEADLOCK FALSE
