SPECIFICATION HeaderSpec
CONSTANTS
    Size = 37
    Places <- MCPlaces
    Limit = 2
    MaxChannels = 2
    Nil = Nil
    Leftovers <- MCLeftovers
    Blocks <- MCBlocks
INVARIANTS
    ReadsBack
    Described
CHECK_DEADLOCK FALSE
