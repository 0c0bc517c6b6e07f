SPECIFICATION Spec
CONSTANTS
    CHUNK = 2
    DumpLimit = 5
    ZipSizes = {1, 3, 4}
    MaxLog = 5
    MaxRequests = 2
INVARIANTS DumpHoldsRange FilterStartsWithLines AnnouncedIsWhole
CHECK_DEADLOCK FALSE
