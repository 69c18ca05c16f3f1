SPECIFICATION Spec
CONSTANTS
    Radix = 10
    DIG_PER_DEC1 = 4
    DECIMAL_BUFF_LENGTH = 2
    Shapes = {}
    ByteBase = 256
    Dig2Bytes <- MCDig2Bytes
    Columns <- MCColumns
    Numbers <- MCNumbers
INVARIANTS
    TypeOK
    RestoredIsStored
    SortedByBytes
