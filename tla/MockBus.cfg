SPECIFICATION Spec
CONSTANTS
    Tasks = {t1, t2}
    Subs = {s1}
    Ids <- MCIds
    Payloads <- MCPayloads
    Options <- MCOptions
    MaxCalls = 4
INVARIANTS
    RecordAgrees
    AnswersCurrent
CHECK_DEADLOCK FALSE
