CONSTANTS
    N = 3
    Radix = 6
    Minute = 3
    MaxNumber = 66
    MaxDenominator = 6
    TimeRanges <- MCTimeRanges
    Operands <- MCOperands
SPECIFICATION Spec
INVARIANTS
    Exact
    OrderIsExact
    ConvertsExactly
\* a division that the processor refuses ends the program
CHECK_DEADLOCK FALSE
