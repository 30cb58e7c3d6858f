SPECIFICATION Spec
CONSTANTS
    MaxFrames = 2
    MaxLifetimes = 1
    MaxStarts = 1
    MaxFailures = 0
    MaxRuntimeFailures = 1
PROPERTIES
    FrameSettled
CHECK_DEADLOCK FALSE
