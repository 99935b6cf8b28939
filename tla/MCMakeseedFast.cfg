SPECIFICATION FairSpec
CONSTANTS
    None = None
    Capacity = 2
    MaxSequence = 2
    NChannels = 2
    BufferLen = 3
    MaxFrames = 7
    MaxLost = 1
    MaxGap = 1
    RefusalCases <- MCRefusalCases
    Rooms <- MCRooms
CHECK_DEADLOCK FALSE
INVARIANTS
    TypeOK
    Pipeline
    TimesTrue
    Gapless
    AbortLoss
PROPERTIES
    KeepsArchive
    Ends
