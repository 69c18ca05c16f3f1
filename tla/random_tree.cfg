SPECIFICATION FairSpec
CONSTANTS
    One = 2
    Int32Half = 8
    LonglongHalf = 64
    Junk = Junk
    NegZero = NegZero
    LeafPool <- MCLiterals
    Kinds = {"add", "coalesce"}
    MaxArity = 3
    MaxItems = 20
    MaxDepth = 3
INVARIANTS
    TypeOK
    AssertionHolds
    OwnedOnce
PROPERTIES
    BuildsTrees
    Terminates
CHECK_DEADLOCK FALSE
