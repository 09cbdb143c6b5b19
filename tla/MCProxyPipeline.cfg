SPECIFICATION Spec
CONSTANTS
    listed = listed
    other = other
    NoPath = NoPath
    Paths <- MCPaths
    Manifest <- MCManifest
    Requests <- MCPipeline
    MaxOps = 2
    MaxLogs = 1
    MaxChanges = 1
INVARIANTS
    TypeOK
    HostLegAtBoundary
    GuestLegAtBoundary
    GuestNeverDesyncs
    AnswersInOrder
PROPERTIES
    ImplementsStoreQuery
    RequestsSettled
