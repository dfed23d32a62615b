CONSTANTS
    a = a
    b = b
    Releases = {a, b}
    First = a
    Needs <- OwnNeeds
    None = None
    Torn = Torn
    MaxDeploys = 2
    MaxFaults = 2
    MaxDeaths = 1
    Keys = {"j", "k"}
    MaxMoves = 7
    Tokens = {"j", "k", "l"}
    Stale = 2
    Cooldown = 1
    BackupTime = 7
    Jobs = {1, 2, 3}
    Owners = {"o", "p"}
    Rights = {"all", "own"}
    NoOne = NoOne
    FullRights = "all"
    MaxActive = 2
    PerOwner = 1
    MaxKept = 2
    MaxCache = 2
    TTL = 1
    Attempts = 2
    Sizes = {2}
    ExportTime = 2
    MaxRightsChanges = 1
    Readers = {"r"}
    Writers = {"v", "w"}
    Questions = {"j", "k"}
    Seconds = 1
    MaxKeys = 1
    MaxCommits = 2
    CacheTime = 2
    Shipped = 19
    Scopes <- OldScopes
    Today = 2
    Open = 9
    MaxStops = 2
    MaxEdits = 2
SPECIFICATION ServerSpec
CHECK_DEADLOCK FALSE
INVARIANTS StartWhole ReportsTrue ServedCurrent
PROPERTIES KeepsEntries SwapOnlyStopped
