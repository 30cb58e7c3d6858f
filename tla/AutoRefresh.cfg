SPECIFICATION MCSpec
CONSTANTS
    Cred = {c1}
    MaxLoops = 2
    JobBuffer = 1
    Concurrency = 1
    MaxOps = 2
    MaxFailures = 1
    None = None
INVARIANTS
    JobsAccounted
PROPERTIES
    RefreshHappens
CHECK_DEADLOCK FALSE
