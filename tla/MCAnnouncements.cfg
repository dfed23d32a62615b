CONSTANTS
    e = e
    t = t
    here = here
    Away = Away
    Employees = {e}
    Trainers = {t}
    Places = {here}
    Drafts <- Texts
    Grace = 1
    Tries = 2
    LastDay = 3
    MaxVersions = 2
    MaxCodes = 2
    MaxChanges = 4
SPECIFICATION FairSpec
INVARIANTS AskedInForce
PROPERTIES SignaturesKept EveryoneAsked
