SPECIFICATION MCSpec
CONSTANTS
    Requests = {r1}
    Capacity = 2
    MaxChunks = 2
INVARIANTS
    NoSilentFrameLoss
CHECK_DEADLOCK FALSE
