CONSTANTS
    Agents = {a1, a2}
    None = None
    MaxTurns = 2
    MaxDeltas = 3
    MaxCuts = 1
SPECIFICATION Spec
SYMMETRY AgentSymmetry
INVARIANTS
    OneVoicePerTurn
    WinnerIsNotCancelled
    AtMostOneStraggler
    SpokenOnceInOrder
CHECK_DEADLOCK FALSE
