SPECIFICATION ViewSpec
CONSTANTS
    t1 = t1
    Tabs <- OneTab
    Page = t1
    Ops <- MCOps
    MaxUsers = 2
    MaxEnds = 1
    MaxLost = 1
    MaxSearches = 2
    RoutesEach = 2
INVARIANTS
    MarksSound
PROPERTIES
    OperationsEnd
