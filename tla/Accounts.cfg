CONSTANTS
    Users = {u1, u2}
    Profiles = {p1, p2}
    Agents = {a1}
    Secrets = {1, 2, 3}
    Prefix <- MCPrefix
    Reqs = {r1, r2}
    MaxRequests = 3
    NoRow = NoRow
SPECIFICATION Spec
SYMMETRY Symmetry
INVARIANTS
    ValidateIsExact
    StableClaimsKeepStatus
    OnlySeededKeysConnect
CHECK_DEADLOCK FALSE
