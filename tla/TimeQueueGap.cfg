\* A time more multiplier digits away than a duration holds.
SPECIFICATION Spec
CONSTANTS
    Base = 4
    EpochScales = 2
    MaxScale = 4
    Unit = 1
    event_1 = event_1
    event_2 = event_2
    Ids = {event_1, event_2}
    PlanDurations <- MCPlanDurations
    StartTimes <- MCStartTimes
    AdvanceTargets <- MCFarTargets
    MaxTime = 24
PROPERTIES
    AdvanceReachesTarget
