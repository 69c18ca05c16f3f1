SPECIFICATION FairSpec
CONSTANTS
    One = 2
    Int32Half = 16
    LonglongHalf = 64
    Junk = Junk
    NegZero = NegZero
    LeafPool <- NullAndInt
    Kinds <- FuncKinds
    MaxArity = 3
    MaxItems = 3
    Count = 2
    Selected <- MCAll
INVARIANTS
    SumsAreRight
    RegisterIsAnswer
PROPERTIES
    EveryTestEnds
\* The fixed tests end.
CHECK_DEADLOCK FALSE
