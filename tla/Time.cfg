\* A time queue with two events, durations of three precisions, across zero;
\* time points of up to three digits and two far away, from which gaps are
\* rounded; the cache and the sequence as the module gives them.
SPECIFICATION TimeSpec
CONSTANTS
    Base = 4
    EpochScales = 2
    MaxScale = 4
    Unit = 1
    event_1 = event_1
    event_2 = event_2
    Ids = {event_1, event_2}
    PlanDurations <- MCPlanDurations
    StartTimes <- MCStartTimes
    AdvanceTargets <- MCAdvanceTargets
    MaxTime = 5
    RetainScales <- MCRetainScales
    CacheDurations <- MCCacheDurations
    CacheTargets <- MCCacheTargets
    CacheStarts <- MCCacheStarts
    CacheMaxTime = 18
    tp_a = tp_a
    tp_b = tp_b
    Names = {tp_a, tp_b}
    Initials <- MCInitials
    Offsets <- MCOffsets
    Advances <- MCAdvances
    MaxTicks = 33
    TimePoints <- MCTimePoints
    Jumps <- MCJumps
    MaxSize = 4
SYMMETRY MCSymmetry
INVARIANTS
    QueueSound
    PointsExact
    CacheExact
    SequenceExact
PROPERTIES
    StopsOnlyForEvents
    ImplementsCalendar
    ImplementsInstants
    ImplementsMemory
    KeepsWhatItIsGiven
