SPECIFICATION Spec
CONSTANTS
    MaxFrames = 3
    MaxLifetimes = 2
    MaxStarts = 2
    MaxFailures = 1
    MaxRuntimeFailures = 1
INVARIANTS
    LifetimesOwn
PROPERTIES
    CommitsInOrder
    FrameSettledOrLost
    LifecycleReturns
CHECK_DEADLOCK FALSE
