SPECIFICATION FairSpec
CONSTANTS
    Tasks = {t1, t2}
    s1 = s1
    s2 = s2
    Subs = {s1, s2}
    SubOptions <- MCSubOptions
    SubFilters <- MCSubFilters
    Calls <- MCCalls
    Budgets <- MCBudgets
    Nobody = Nobody
INVARIANTS
    RegisteredIsSendable
    OpenIsListed
    NoExchangeMissed
    NothingAfterClose
    DeliveriesAccounted
PROPERTIES
    BroadcastOrder
    ImplementsBus
    CallsAdvance
    CallsReturn
CHECK_DEADLOCK FALSE
