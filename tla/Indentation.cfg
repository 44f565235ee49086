CONSTANTS
    MaxLength = 7
    Inputs <- MCInputs
SPECIFICATION Spec
INVARIANTS
    IndentationsAscend
    DepthAsIndented
\* after the end of the file nothing is read
CHECK_DEADLOCK FALSE
