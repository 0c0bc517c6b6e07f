SPECIFICATION Spec
CONSTANTS
    Sizes = {1, 2}
    Base = 2
    DumpLimit = 2
    Faults = {"lost", "broken", "repeated"}
    MaxEnd = 2
    MaxRequests = 2
INVARIANTS AnnouncedHeld
