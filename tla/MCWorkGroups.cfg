CONSTANTS
    a = a
    b = b
    s = s
    g1 = g1
    g2 = g2
    X = X
    Y = Y
    None = None
    NoRecord = NoRecord
    People = {a, b, s}
    Groups = {g1, g2}
    Circles = {X, Y}
    CircleOf <- Circle
    FirstBase <- Identity
    FirstCircle <- Home
    FirstGroup <- Membership
    FirstFormal <- Supervisor
    Threads = {t1, t2}
    LastDay = 2
    MaxRows = 2
    MaxEdits = 1
    MaxCalls = 3
SPECIFICATION FairSpec
CHECK_DEADLOCK FALSE
INVARIANTS GroupsKept
PROPERTIES HandOver LapsedLeaderLeaves
