CONSTANTS
    Requests = {r1, r2}
    Burst = 1
    MaxArrivals = 4
    MaxProbes = 1
    MaxChanges = 2
    MaxTicks = 1
    MaxRefills = 1
    None = None
SPECIFICATION HTTPSpec
INVARIANTS
    ProbeIsTruthful
    WithinBudget
CHECK_DEADLOCK FALSE
