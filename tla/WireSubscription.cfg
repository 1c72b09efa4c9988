SPECIFICATION FairSpec
CONSTANTS
    MaxEvents = 4
    Publishers = 2
    Buffer = 1
    Batch = 2
    MaxLost = 1
    Queue = 1
    MaxDrops = 1
INVARIANTS
    FramesAreARun
PROPERTIES
    FeedIsOrdered
    FeedIsServed
CHECK_DEADLOCK FALSE
