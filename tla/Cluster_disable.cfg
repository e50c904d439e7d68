SPECIFICATION FairSpec
CONSTANTS
    c1 = c1
    c2 = c2
    Callers = {c1}
    CallsOf <- MCShared
    Tables <- MCTable
PROPERTIES
    EmptyScheduleStops
