SPECIFICATION Spec
CONSTANTS
    Tasks = {t1, t2}
    s1 = s1
    s2 = s2
    Subs = {s1, s2}
    SubOptions <- MCSubOptions
    SubFilters <- MCSubFilters
    Calls <- MCCalls
    Budgets <- MCSubscribeClose
    Nobody = Nobody
INVARIANTS
    CloseReachesAll
CHECK_DEADLOCK FALSE
