CONSTANTS
    Requests = {q1, q2}
    Kinds = {"self", "manager", "batch", "poc"}
    Keys = {k1}
    NoKey = NoKey
    BatchMax = 2
    Days = {1}
    Scores = {2}
    Policies <- Rules
    Initials <- Defaults
    Withdrawals = {w1}
    NoOne = NoOne
SPECIFICATION FairSpec
CHECK_DEADLOCK FALSE
INVARIANTS CreditKept TakenOnce
PROPERTIES EverySubmissionAnswered
