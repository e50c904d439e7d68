SPECIFICATION AFairSpec
CONSTANTS
    Forwarder = fwd
    Consumers = {fwd}
    Closers = {k1}
    Options <- MCAdapterOptions
    Second = 2
    MaxPushes = 5
    MaxTime = 3
INVARIANTS
    NothingLostInside
    BlockLosesNothing
    OneFrameAfterLeaving
PROPERTIES
    ReaderInOrder
    TakenIsRead
CHECK_DEADLOCK FALSE
