SPECIFICATION Spec
CONSTANTS
    listed = listed
    other = other
    NoPath = NoPath
    Paths <- MCPaths
    Manifest <- MCManifest
    Requests <- MCRequests
    MaxOps = 1
    MaxLogs = 1
    MaxChanges = 2
INVARIANTS
    NothingWithheld
    HostSeesOnlyQueries
PROPERTIES
    InvalidOnlyAfterFill
    AnswersArrive
    HangupEndsSession
