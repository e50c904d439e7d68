SPECIFICATION LoopSpec
CONSTANTS
    Consumers = {c1, c2}
    Closers = {k1}
    Options <- MCOptions
    Second = 2
    MaxPushes = 3
    MaxTime = 3
INVARIANTS
    QueueBounded
    NeverAllAsleep
    DrainBeforeNone
    RateBurst
PROPERTIES
    ImplementsLossyFifo
    FramesLeave
    RecvReturnsOnceClosed
