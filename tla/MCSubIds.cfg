SPECIFICATION Spec
CONSTANTS
    RUNTIME_UID = 3
    RUNTIME_GID = 1
    HostId = 3
    HostIds <- MCHostIds
    MaxRanges = 2
    MaxDepth = 4
    MaxWord = 255
INVARIANTS
    UserStaysApart
    DelegatesAllAbove
CHECK_DEADLOCK FALSE
