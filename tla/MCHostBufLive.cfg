SPECIFICATION FairSpec
CONSTANTS
    Threads = {t1, t2, t3}
    NoThread = NoThread
    CBUFFSIZE = 2
    PAGE = 2
    EVENTSIZE = 1
    BIO_PAGES = 1
    LUN_PAGES = 2
    BioMayFail = TRUE
    Limit = 3
PROPERTIES PrioReturns EventsGetIn FlagClears
