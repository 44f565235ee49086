CONSTANTS
    B = 1
    Interned = 4
    MaxElements = 2
    Formats <- MCFormats
    Data <- MCData
SPECIFICATION Spec
INVARIANTS
    FieldsAligned
    SizeIsPackedLength
    UnpackInvertsPack
\* a call ends
CHECK_DEADLOCK FALSE
