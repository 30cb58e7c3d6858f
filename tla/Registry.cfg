SPECIFICATION MCSpec
CONSTANTS
    MaxDispatches = 2
    MaxBarrier = 2
    MaxRevision = 2
    Groups = {g1}
    Unaccounted = Unaccounted
    Sinks = {s1, s2}
    NoSink = NoSink
    Drainers = {d1}
    Waiters = {w1}
    Closers = {c1, c2}
INVARIANTS
    ShutdownSafe
    ReleasedAfterClose
    ReleasesAccounted
    BarrierIsComplete
PROPERTIES
    ShutdownReturns
CHECK_DEADLOCK FALSE
