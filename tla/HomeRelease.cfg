SPECIFICATION FairSpec
CONSTANTS
    Groups = {g1, g2}
    MaxDispatches = 2
    MaxLifetimes = 2
INVARIANTS
    NeverOverReleases
    TicketsSettle
    CleanStop
PROPERTIES
    ReleaseArrives
CHECK_DEADLOCK FALSE
