CONSTANTS
    c1 = c1
    c2 = c2
    r1 = r1
    r2 = r2
    All = All
    Circles = {c1, c2}
    Records = {r1, r2}
    Home <- MCHome
    Points = {1, 2}
    Sessions = {s1, s2}
    NoSession = NoSession
SPECIFICATION Spec
SYMMETRY SessionSymmetry
INVARIANTS SealMatchesLedger
PROPERTIES ClosedMonthFrozen RefinesLedger
