SPECIFICATION FairSpec
CONSTANTS
    Sizes = {2, 3}
    Base = 2
    DumpLimit = 9
    Faults = {}
    MaxEnd = 4
    MaxRequests = 3
PROPERTIES ImplementsExchange AnsweredUnlessMissed
