CONSTANTS
    Calls = {c1, c2}
    NoCall = NoCall
    Requests <- MCRequests
    CallLimit = 20
    ConnectLimit = 5
    InspectionLimit = 15
    MaxQueryTimeout = 15
    MaxReturnedRows = 2
    Latency = 1
    MaxRows = 3
SPECIFICATION TimedSpec
SYMMETRY Symmetry
INVARIANTS
    TimedTypeOK
    ToolsEndInTime
    SlowDatabaseKeepsSession
    ConnectionsReturned
    TimeoutIsReported
    TruncationIsExact
