CONSTANTS
    WSConns = {w1}
    SSEConns = {e1, e2}
    None = None
    MaxRequests = 2
    SendBuffer = 1
SPECIFICATION Spec
SYMMETRY ConnSymmetry
INVARIANTS
    FedIsRegistered
    AtMostOneAfterCancel
    OrphansAreAccounted
CHECK_DEADLOCK FALSE
