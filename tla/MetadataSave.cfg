SPECIFICATION MCSpec
CONSTANTS
    c1 = c1  c2 = c2  f1 = f1  f2 = f2
    None = None
    Cred = {c1, c2}
    Fg = {f1, f2}
    CredOf <- MCCredOf
    MaxRev = 2
INVARIANTS
    GatesHold
    RecordedIsStored
PROPERTIES
    MutationEnds
    HintsSettle
CHECK_DEADLOCK FALSE
