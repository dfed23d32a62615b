CONSTANTS
    old = old
    third = third
    Videos = {old, third}
    Replaces <- Alone
    Published = {}
    Ready = {old}
    Branded = {}
    Askers = {a1}
    None = None
    MaxEdits = 1
    Faults = {"codec", "database", "kill", "stop"}
    MaxFaults = 1
SPECIFICATION FairSpec
CHECK_DEADLOCK FALSE
INVARIANTS CoversKept
PROPERTIES NothingComesBack JobsEnd
