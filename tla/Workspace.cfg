CONSTANTS
    a = a
    b = b
    quote = quote
    nil = nil
    builtin = builtin
    f = f
    g = g
    NoName = NoName
    Names = {a, b, quote, nil}
    Bodies = {1, 2}
    FrontEnds = {"GTK", "WIN32", "TUI"}
    FileNames = {f, g}
    SaveNames = {f}
    TUI_environment = f
    Builtins <- MCBuiltins
    Commands <- MCCommands
    Disks <- MCDisks
    MaxRuns = 2
    MaxEntries = 3
    MaxText = 4
SPECIFICATION Spec
INVARIANTS
    RowsMatchEntries
    SavedUnlessModified
    ResultsInPlace
