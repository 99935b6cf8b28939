SPECIFICATION Spec
CONSTANTS
    None = None
    N = N
    Z = Z
    Root = Root
    Guest = Guest
    Other = Other
    Home = Guest
    Users <- MCUsers
    Name <- MCNames
    NameCases <- MCNameCases
    MaxRuns = 3
    MaxRecords = 2
CHECK_DEADLOCK FALSE
INVARIANTS
    TypeOK
    Unprivileged
    OwnFile
    LogTrue
