SPECIFICATION FairSpec
CONSTANTS
    MaxFrames = 5
    MaxMissing = 2
    NChannels = 2
    Cards <- MCCards
CHECK_DEADLOCK FALSE
INVARIANTS
    PlacesTrue
    Copied
    RowsTrue
PROPERTY
    Ends
