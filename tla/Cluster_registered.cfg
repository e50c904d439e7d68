SPECIFICATION Spec
CONSTANTS
    c1 = c1
    c2 = c2
    Callers = {c1, c2}
    CallsOf <- MCShared
    Tables <- MCTable
INVARIANTS
    RegisteredIdsCurrent
