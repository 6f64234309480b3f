\* Agents that send nothing in a planned event.
SPECIFICATION InteractiveSpec
CONSTANTS
    AgentIDs = {a, b}
    MaxAgents = 2
    Durations = {0, 1, 3}
    MaxMessages = 2
    Start = 0
    End = 4
SYMMETRY IdSymmetry
INVARIANTS
    FrameRateKept
CHECK_DEADLOCK FALSE
