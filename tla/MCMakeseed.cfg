SPECIFICATION FairSpec
CONSTANTS
    None = None
    Capacity = 2
    MaxSequence = 2
    NChannels = 2
    MaxFrames = 6
    MaxLost = 2
    MaxGap = 1
    StartMicros = 666700
    TickMicros = 333290
    RefusalCases <- MCRefusalCases
    Rooms <- MCRooms
CHECK_DEADLOCK FALSE
INVARIANTS
    TypeOK
    TimesTrue
    TimesRead
    NothingLost
    AbortLoss
    Aligned
    RowsTrue
PROPERTIES
    KeepsArchive
    EverySampleLands
