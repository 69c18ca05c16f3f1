SPECIFICATION FixedSpec
CONSTANTS
    One = 2
    Int32Half = 8
    LonglongHalf = 64
    Junk = Junk
    NegZero = NegZero
    LeafPool <- TrueAndFalse
    Kinds = {"or", "coalesce"}
    MaxArity = 2
    MaxItems = 4
    Count = 2
    Selected = {}
INVARIANTS
    SumsAgree
