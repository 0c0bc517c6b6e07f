SPECIFICATION FairSpec
CONSTANTS
    CBUFFSIZE = 4
    BUFLEN = 3
    InOrder = TRUE
    FileMayFail = FALSE
    Limit = 9
PROPERTIES WaitEnds
