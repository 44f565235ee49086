CONSTANTS
    Programs = {"TUI", "TUI2", "windows"}
    Keyboards <- MCKeyboards
    Verdict <- MCVerdict
    fEnvironmentNames <- MCNames
    MaxKeys = 4
    NULL = NULL
SPECIFICATION Spec
INVARIANTS
    RunsWhatWasTyped
    ParensMatch
    TokensStandAlone
PROPERTY CompletionFits
\* the programs end; in the windows a longer line takes no more keys
CHECK_DEADLOCK FALSE
