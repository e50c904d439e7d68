SPECIFICATION LoopSpec
CONSTANTS
    Consumers = {c1}
    Closers = {k1}
    Options <- MCUnlimited
    Second = 1
    MaxPushes = 1
    MaxTime = 0
PROPERTIES
    CloseEndsRecv
