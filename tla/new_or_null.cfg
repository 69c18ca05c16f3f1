SPECIFICATION GroupsSpec
CONSTANTS
    One = 2
    Int32Half = 8
    LonglongHalf = 64
    Junk = Junk
    NegZero = NegZero
    LeafPool <- NoReal
    Kinds = {"or"}
    MaxArity = 3
    MaxItems = 5
INVARIANTS
    OrKeepsNull
