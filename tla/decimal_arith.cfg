SPECIFICATION Spec
CONSTANTS
    Radix = 2
    DIG_PER_DEC1 = 2
    DECIMAL_BUFF_LENGTH = 3
    Shapes <- MCShapes
    ScaleIncrs = {0, 3}
    One = 64
    Int32Half = 8
    LonglongHalf = 10
    Junk = Junk
    NegZero = NegZero
INVARIANTS
    TypeOK
    SumIsHonest
    CmpIsOrder
    LonglongIsTrunc
    ProductIsHonest
    SizeIsEnough
    DivisionIsExact
