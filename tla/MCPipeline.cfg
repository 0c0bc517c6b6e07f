SPECIFICATION PFairSpec
CONSTANTS
    Threads = {t1}
    NoThread = NoThread
    CBUFFSIZE = 4
    PAGE = 2
    EVENTSIZE = 2
    BIO_PAGES = 2
    LUN_PAGES = 3
    BioMayFail = TRUE
    Limit = 2
    DSIZE = 4
    BUFLEN = 3
    BUFFERS = 1
    WELCOME = 1
    MaxResends = 1
    SECTOR = 2
    Sizes = {4}
INVARIANTS AckedReceived ReceivedAcked FlushReceived OneReadAhead ReadCovers
PROPERTIES PrioReturnsUnlessOneLap
CHECK_DEADLOCK FALSE
