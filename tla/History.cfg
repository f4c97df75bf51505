SPECIFICATION FairSpec
CONSTANTS
    Deals = {1, 2, 3}
    Second = 2
    Span = 6
    Ahead = 2
    Now = 8
    Dense = 1
    Limit = 2
    Tries = 3
    MaxFailures = 1
CONSTRAINT Reduced
INVARIANTS NothingSkipped OneAccount
PROPERTIES BatchIsSnapshot ImportEnds
CHECK_DEADLOCK FALSE
