SPECIFICATION FairSpec
CONSTANTS
    Threads = {t1, t2}
    NoThread = NoThread
    CBUFFSIZE = 2
    EVENTSIZE = 2
    Fields = 1
    MaxRecords = 2
    MaxLoads = 2
INVARIANTS DivertedToRing WritesWithMeans WholeRecords OneSide KauditdQuiet  BacklogAsked
PROPERTIES KauditdTakesOver UnloadEnds
CHECK_DEADLOCK FALSE
