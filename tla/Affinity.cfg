SPECIFICATION MCSpec
CONSTANTS
    parent = parent  child = child  branch = branch
    cacheKey = cacheKey  conv = conv
    rp = rp  rc = rc  rf = rf  rk = rk  rm = rm  rq = rq
    a1 = a1  a2 = a2
    None = None
    Alias = {parent, child, branch, cacheKey, conv}
    Session = {parent, child, branch, cacheKey, conv}
    Auth = {a1, a2}
    Provider = {"p"}
    Request = {rp, rc, rf, rk, rm, rq}
    SessionOf <- MCSessionOf
    ProviderOf <- MCProviderOf
    PrefixOf <- MCPrefixOf
    KeyOf <- MCKeyOf
    FallbackOf <- MCFallbackOf
    Fork = {rf}
    Guardian = {rc}
    SubagentAffinity = TRUE
    QuotaOnly = TRUE
    Condition = {"ready", "full", "transient", "blocked"}
    MaxSequence = 3
SYMMETRY MCSymmetry
INVARIANT
    TypeOK
PROPERTIES
    ParentIsolated
    RemovalConverges
    LateFailureSpares
CHECK_DEADLOCK FALSE
