SPECIFICATION FairSpec
CONSTANTS
    CBUFFSIZE = 4
    BUFLEN = 3
    InOrder = FALSE
    FileMayFail = TRUE
    Limit = 7
INVARIANTS TypeOK BoundedBacklog
PROPERTIES DrainsUnlessOneLap
