\* Time points that are further apart than a duration can tell.
SPECIFICATION SequenceSpec
CONSTANTS
    Base = 2
    EpochScales = 3
    MaxScale = 6
    Unit = 1
    TimePoints <- MCTimePoints
    Jumps <- MCJumps
    MaxSize = 4
PROPERTIES
    ImplementsRecording
CHECK_DEADLOCK FALSE
