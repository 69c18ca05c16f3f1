SPECIFICATION Spec
CONSTANTS
    Radix = 4
    DIG_PER_DEC1 = 2
    DECIMAL_BUFF_LENGTH = 3
    Texts <- MCTexts
    Integers <- MCIntegers
    Sums <- MCSums
    Shifts <- MCShifts
    Scales <- MCScales
INVARIANT OkIsRead
