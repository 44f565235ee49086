CONSTANTS
    Arities <- MCArities
    Items <- MCItems
    MaxItems = 6
SPECIFICATION Spec
INVARIANTS
    CalledWhenComplete
    DeliveredAsWritten
\* a builtin that ran or threw is done
CHECK_DEADLOCK FALSE
