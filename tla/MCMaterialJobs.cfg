CONSTANTS
    Jobs = {1, 2}
    Workers = {w1, w2}
    MaxCleanup = 2
    MaxFaults = 2
SPECIFICATION FairSpec
CHECK_DEADLOCK FALSE
INVARIANTS FilesKept
PROPERTIES OneResult WorkEnds
