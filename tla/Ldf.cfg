SPECIFICATION FairSpec
CONSTANTS
    Files <- MCFiles
    Numeral <- MCNumeral
    Unsigned <- MCUnsigned
    Payloads <- MCPayloads
    Usize = 65536
    U32 = 65536
INVARIANTS
    SchedulesResolve
    NothingInvented
    NothingLost
    FramesWhole
    TablesWhole
    DecodeFaithful
PROPERTIES
    ParserAdvances
    Terminates
CHECK_DEADLOCK FALSE
