SPECIFICATION Spec
CONSTANTS
    MaxFrames = 2
    MaxMissing = 1
    NChannels = 1
    Cards <- MCCards
CHECK_DEADLOCK FALSE
INVARIANT
    SkewNoted
