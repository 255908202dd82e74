SPECIFICATION MCSpec
CONSTANTS
    MaxRecords = 9
    MaxFaults = 1
    Guid <- MCGuid
    Content <- MCContent
    ContentOf <- MCContentOf
    Edges <- MCEdges
    None = None
    Mixed = Mixed
    EditDuringRun = FALSE
INVARIANTS
    AcceptedIntact
    NoFalseAlarm
    SidecarSound
    NeverMixed
PROPERTIES
    Promise
CHECK_DEADLOCK TRUE
