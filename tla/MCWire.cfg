SPECIFICATION Spec
CONSTANTS
    WORD = 3
    BASE = 2
    MAX_STRING = 4
    MAX_COUNT = 2
    MaxBytes = 21
    MaxAhead = 2
INVARIANTS
    CopiedVerbatim
    FramingKept
CHECK_DEADLOCK FALSE
