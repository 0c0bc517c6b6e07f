SPECIFICATION Spec
CONSTANTS
    BLOCKSIZE = 6
    SETBACK = 2
    MINLEN = 3
    MaxLen = 7
    MaxCalls = 3
INVARIANTS TypeOK Fits StartKept
PROPERTIES EventExact EventBounded
