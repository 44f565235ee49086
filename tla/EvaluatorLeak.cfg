CONSTANTS
    Programs <- MCFew
    substitute <- shift
    MaxRecursion = 4
    Generations = 4
    MaxCommands = 3
    MaxCloses = 0
    MaxSignals = 1
SPECIFICATION Spec
PROPERTY TooDeepOnlyWhenDeep
\* after the last command the session is over
CHECK_DEADLOCK FALSE
