\* Up to three agents; durations of 1 and 3 under frames, of 0 and 2 otherwise.
SPECIFICATION AgentsSpec
CONSTANTS
    AgentIDs = {a, b}
    MaxAgents = 3
    Durations = {1, 3}
    MaxMessages = 2
    Start = 0
    End = 4
    MillisecondTicks = 2
    Rates = {0, 1}
    FrameDurations = {3, 8}
    FinalT = 11
    References <- MCReferences
    Strength <- MCStrength
    MaxClock = 6
SYMMETRY IdSymmetry
INVARIANTS
    Registered
    PlanInSync
    NoInternalError
    EachEndsOnce
    FramesKept
    FramesAtTheirTime
PROPERTIES
    AgentsKnowTime
    DriftSettles
CHECK_DEADLOCK FALSE
