SPECIFICATION Spec
CONSTANTS
    MaxFrames = 4
    SecondFrames = 1
    Cards <- MCCards
CHECK_DEADLOCK FALSE
INVARIANTS
    Faithful
    Complete
    Coherent
    OwnBase
