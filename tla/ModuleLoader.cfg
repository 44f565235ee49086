CONSTANTS
    Files <- MCFiles
    Imports <- MCImports
    Orders <- MCOrders
    GrowsAt <- MCGrowsAt
    MaxCommands = 3
    MaxThrows = 2
    Directories <- MCDirectories
    inode <- MCinode
    Texts <- MCTexts
    searchPath <- MCSearchPath
    Names <- MCNames
    Keys <- MCKeys
    NULL = NULL
SPECIFICATION ModulesSpec
INVARIANTS
    LoadedOnce
    PlaceholderMeansLoading
    AnswersAsWritten
PROPERTY LoadsEnd
\* after the last command the session is over, after a missing file the program
CHECK_DEADLOCK FALSE
