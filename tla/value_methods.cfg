SPECIFICATION GroupsSpec
CONSTANTS
    One = 2
    Int32Half = 8
    LonglongHalf = 64
    Junk = Junk
    NegZero = NegZero
    LeafPool <- NoReal
    Kinds <- FuncKinds
    MaxArity = 2
    MaxItems = 6
INVARIANTS
    OldTypeOK
    OldAnswers
    LiteralsConstant
    OldPointers
    PrmAnswers
    NewAnswers
    VariantAnswers
