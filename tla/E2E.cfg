SPECIFICATION FairSpec
CONSTANTS
    Senders = {t1, t2}
    Modulus = 4
    MaxFrames = 5
    MaxLink = 2
    MaxFaults = 3
INVARIANTS
    NoGapNoReplay
    NoneRejected
PROPERTIES
    InOrderDelivered
CHECK_DEADLOCK FALSE
