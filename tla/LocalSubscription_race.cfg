SPECIFICATION Spec
CONSTANTS
    MaxEvents = 3
    Publishers = 2
    Buffer = 2
    Batch = 2
    MaxLost = 0
INVARIANTS
    NoRaceGap
CHECK_DEADLOCK FALSE
