SPECIFICATION FairSpec
CONSTANTS
    c1 = c1
    c2 = c2
    Callers = {c1, c2}
    CallsOf <- MCCallsOf
    Tables <- MCTables
INVARIANTS
    RegisteredTracksBus
    OneLateHeader
PROPERTIES
    RunEndsAtDeadline
    SlotsHeard
