SPECIFICATION Spec
CONSTANTS
    Threads = {t1}
    NoThread = NoThread
    CBUFFSIZE = 4
    PAGE = 2
    EVENTSIZE = 2
    BIO_PAGES = 2
    LUN_PAGES = 9
    BioMayFail = FALSE
    Limit = 7
INVARIANT TailMeansWritten
