SPECIFICATION Spec
CONSTANTS
    Threads = {t1, t2}
    NoThread = NoThread
    CBUFFSIZE = 6
    PAGE = 3
    EVENTSIZE = 3
    BIO_PAGES = 2
    LUN_PAGES = 4
    BioMayFail = TRUE
    Limit = 7
SYMMETRY Symmetry
INVARIANTS TypeOK RingInv BoundedBacklog RingHoldsLastLap FlushSent
PROPERTIES OnlyPublishedSent ImplementsChannel
