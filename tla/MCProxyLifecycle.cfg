SPECIFICATION LifeSpec
CONSTANT MaxRuns = 3
INVARIANTS
    StaleNameNeverBlocks
    NoUnsignalledOrphan
    SocketThereToMount
PROPERTIES
    ProxyEndsWithSession
    NameReclaimed
