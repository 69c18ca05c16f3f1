SPECIFICATION FairSpec
CONSTANTS
    One = 2
    Int32Half = 16
    LonglongHalf = 64
    Junk = Junk
    NegZero = NegZero
    DefaultCount = 10
    Kilo = 4
    UintSize = 8
    UlonglongSize = 64
    LoopTime <- MCLoopTime
    CommandLines <- MCLines
INVARIANTS
    TypeOK
    RunsWhatWasAsked
    EveryLoopIsTimed
PROPERTIES
    Exits
CHECK_DEADLOCK FALSE
