CONSTANTS
    Records = {d1, d2, d3}
    Uploads = {u1}
    Kinds = {"none", "photos", "pdf", "big_pdf"}
    MaxLevel = 2
    MaxJobs = 2
    None = None
SPECIFICATION Spec
SYMMETRY Symmetry
CHECK_DEADLOCK FALSE
INVARIANTS RecordsKept
PROPERTIES EscalationAtActivation
