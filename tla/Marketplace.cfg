CONSTANTS
    Users = {u1, u2}
    Developers = {u1}
    Agents = {a1, echo}
    EchoAgent = echo
    Reqs = {r1, r2}
    NoRow = NoRow
    MaxRequests = 5
    ReviewsRouted = TRUE
SPECIFICATION Spec
SYMMETRY ReqSymmetry
INVARIANTS
    CountersExact
    RatingsAreEarned
    OnlyPublishedIsUsed
CHECK_DEADLOCK FALSE
