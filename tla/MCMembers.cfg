CONSTANTS
    old = old
    second = second
    third = third
    Videos = {old, second, third}
    Replaces <- Competing
    Published = {old}
    Ready = {second, third}
    Branded = {old, second, third}
    Askers = {}
    None = None
    MaxEdits = 1
    Faults = {"codec", "database", "kill", "stop"}
    MaxFaults = 1
    Employees = {"e"}
    Clerks = {"c"}
    Previews = {"p"}
    Days = {1, 2, 3}
    MonthOf <- MonthOfDay
    Today = 3
    MaxIds = 2
    MaxLoa = 1
    Publishers = {"p", "q"}
    Admin = "admin"
    Shared = {"s", "o"}
    NoGroup = NoGroup
    MaxNotices = 2
    MaxVersion = 2
    MaxBatches = 1
    MaxRevision = 2
    MaxGrants = 1
    Slots <- ThreeSlots
    LineOf <- PostLine
    SevenRank <- PostRank
    Sevens <- SevenShift
    Opens <- OpeningShift
    MaxPlanEdits = 2
    MaxUploads = 2
    MaxNamed = 2
    LastDay = 5
    LastDays = {2}
    MaxWrites = 4
    TRs = {"t", "u"}
    Editing = {}
    FirstOwner = "t"
    Requests = {1, 2}
    MaxRevisions = 2
    MaxSaves = 1
    MaxAsks = 6
    Ranked = {"e", "f"}
    Group <- OwnGroup
    Circle <- OneCircle
    RankedMonths = {1, 2}
    Recs = {1, 2}
    Rec <- Given
    Deds = {1}
    Ded <- Taken
    FullMark = 10
    Staff = {"x", "y", "z"}
    Supervisors = {"x", "y", "z"}
    OnLeave = {"z"}
    Homes = {"A", "B"}
    All = "All"
    First <- HomeOf
    MinCohort = 2
    Scores = {0, 1}
    MaxCloses = 3
    MaxMoves = 1
SPECIFICATION MembersSpec
CHECK_DEADLOCK FALSE
INVARIANTS OneCurrentVersion AttendanceTrue HandsTrue ScoresTold
PROPERTIES DecidedAsShown EditsKeepTheRest
