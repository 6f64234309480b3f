\* Frames every three or eight ticks, up to an end time of eleven.
SPECIFICATION PaceSpec
CONSTANTS
    MillisecondTicks = 2
    Rates = {0, 1}
    FrameDurations = {3, 8}
    FinalT = 11
    References <- MCReferences
    Strength <- MCStrength
    MaxClock = 6
INVARIANTS
    FrameTimeKept
