SPECIFICATION FairSpec
CONSTANTS
    Slots = {s1, s2}
    Servers = {n1, n2}
    MaxProcesses = 3
    MaxRewrites = 2
    MaxFaults = 1
PROPERTIES NothingLost NamesKept Spread
CHECK_DEADLOCK FALSE
