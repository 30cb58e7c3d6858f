SPECIFICATION MCSpec
CONSTANTS
    m1 = m1  m2 = m2
    Model = {m1, m2}
    Devin = TRUE
    Hints = {0, 2}
    Durations = {0, 3}
    BackoffMax = 4
    MaxTime = 4
    MaxSeq = 3
    MaxRestarts = 1
    Nil = Nil
SYMMETRY Symmetry
INVARIANTS
    CooldownTypeOK
    NeverEarly
    NeverLate
PROPERTIES
    OncePerWindow
CHECK_DEADLOCK FALSE
