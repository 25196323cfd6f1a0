SPECIFICATION Spec
CONSTANTS
    p1 = p1
    p2 = p2
    r1 = r1
    r2 = r2
    Processes <- MCProcesses
    FileVersions <- MCFileVersions
    Requests <- MCRequests
    Askers <- MCAskers
    MaxStarts = 3
INVARIANTS
    TypeOK
    UpgradeSafe
    ClosedStoreUnseen
    AnswersDocumented
PROPERTIES
    ShutdownEnds
