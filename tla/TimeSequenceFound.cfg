\* Time points in several partitions, found by searching.
SPECIFICATION SequenceSpec
CONSTANTS
    Base = 2
    EpochScales = 3
    MaxScale = 6
    Unit = 1
    TimePoints <- MCTimePoints
    Jumps <- MCJumps
    MaxSize = 4
INVARIANTS
    FoundEntriesExact
CHECK_DEADLOCK FALSE
