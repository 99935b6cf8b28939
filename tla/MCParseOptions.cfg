SPECIFICATION Spec
CONSTANTS
    Table <- MCTable
    Words <- MCWords
    MaxWords = 4
    Initial <- MCInitial
    None = None
INVARIANTS
    WordsKept
    LastOneDecides
    FirstExit
CHECK_DEADLOCK FALSE
