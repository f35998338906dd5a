SPECIFICATION FairSpec
CONSTANTS
    MaxGeneration = 2
    MaxPending = 1
    MaxLags = 1
    MaxTimeouts = 1
    MaxFlaps = 1
    MaxChanges = 1
INVARIANTS ViewIsTrue
PROPERTIES ViewSettles
CHECK_DEADLOCK FALSE
