SPECIFICATION Spec
CONSTANTS
    Messages <- MCMessages
    MaxSends = 2
    MaxFlips = 1
INVARIANTS
    HeardIsSent
    RelayedAlike
CHECK_DEADLOCK FALSE
