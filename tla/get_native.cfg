SPECIFICATION GetSpec
CONSTANTS
    One = 2
    Int32Half = 8
    LonglongHalf = 64
    Junk = Junk
    NegZero = NegZero
    LeafPool <- OfEveryClass
    Kinds <- FuncKinds
    MaxArity = 2
    MaxItems = 7
INVARIANTS
    TypeOK
    GetAnswerCorrect
    CallsCorrect
    NullTypeIsNull
PROPERTIES
    RefinesItemSpec
