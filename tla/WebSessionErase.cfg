SPECIFICATION Spec
CONSTANTS
    t1 = t1
    t2 = t2
    o1 = o1
    o2 = o2
    o3 = o3
    Tabs <- OneTab
    Ops <- MCOps
    MaxUsers = 3
    MaxEnds = 1
    MaxLost = 0
PROPERTIES
    EraseCoversReportedRoutes
