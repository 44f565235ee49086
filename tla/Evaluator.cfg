CONSTANTS
    Programs <- MCPrograms
    substitute <- shift
    MaxRecursion = 4
    Generations = 3
    MaxCommands = 2
    MaxCloses = 3
    MaxSignals = 2
SPECIFICATION Spec
INVARIANTS
    LevelCoversCalls
    LevelExactWithoutLeaks
    TryIsNotTooDeep
    OneAbortPerSignal
    ResultsAreValues
    ReducedOnce
PROPERTY CommandsEnd
\* after the last command the session is over
CHECK_DEADLOCK FALSE
