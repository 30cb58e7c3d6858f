SPECIFICATION CacheSpec
CONSTANTS
    x1 = x1  x2 = x2  p1 = p1  p2 = p2
    a1 = a1  a2 = a2  s1 = s1  s2 = s2  pa = pa  pb = pb
    None = None
    Alias = {x1, x2, p1, p2}
    Prompt = {p1, p2}
    Auth = {a1, a2}
    Session = {s1, s2}
    Provider = {pa, pb}
    SessionOf <- MCSessionOf
    ProviderOf <- MCProviderOf
    MaxStable = 1
    MaxEntries = 2
    TTL = 1
    MaxTime = 1
    MaxSequence = 3
SYMMETRY Symmetry
INVARIANT
    WellFormed
PROPERTY
    Implements
CHECK_DEADLOCK FALSE
