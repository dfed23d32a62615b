CONSTANTS
    Records = {d1, d2, d3}
    Uploads = {u1}
    Kinds = {"pdf", "big_pdf"}
    MaxLevel = 2
    MaxJobs = 1
    None = None
SPECIFICATION FairSpec
CHECK_DEADLOCK FALSE
INVARIANTS OneClaimPerStatement
PROPERTIES MaterialSettlesOnce
