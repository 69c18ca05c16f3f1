SPECIFICATION GroupsSpec
CONSTANTS
    One = 2
    Int32Half = 8
    LonglongHalf = 64
    Junk = Junk
    NegZero = NegZero
    LeafPool <- TwoInts
    Kinds = {"uminus"}
    MaxArity = 1
    MaxItems = 4
INVARIANTS
    DirectReplacement
