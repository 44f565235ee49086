CONSTANTS
    Texts <- MCTexts
    OperatorLists <- MCOperatorLists
    Numerals <- MCNumerals
SPECIFICATION PrinterSpec
INVARIANTS
    StacksInStep
    ParsedAsWritten
    LostBehindSectionsOnly
    PrintedReadsBack
PROPERTY GroupsKeepApart
CHECK_DEADLOCK FALSE
