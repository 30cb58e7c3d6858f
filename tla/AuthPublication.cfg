SPECIFICATION Spec
CONSTANTS
    Procs = {p1, p2, p3}
    NoProc = NoProc
    NoAuth = NoAuth
    MaxOps = 3
SYMMETRY Symmetry
INVARIANTS
    RegistrationStable
    RestartSafe
    SchedulerAgrees
PROPERTIES
    ResultHitsItsCredential
    SavesLoseNothing
    MintedKeyIsSaved
CHECK_DEADLOCK FALSE
