CONSTANTS
    a = a
    screen = screen
    Nothing = Nothing
    Failed = Failed
    People = {a}
    Devices = {screen}
    Shows <- Shown
    MaxStep = 2
    MaxLoads = 2
    MaxFaults = 2
SPECIFICATION FairSpec
INVARIANTS StepsKept
PROPERTIES ShownGoesForward SyncCatchesUp
