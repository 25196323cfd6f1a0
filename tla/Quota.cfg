SPECIFICATION Spec
CONSTANTS
    planA = planA
    planB = planB
    session = session
    AMap = AMap
    Keys <- MCKeys
    Maximum <- MCMaximum
    WindowMs <- MCWindowMs
    MaxEntries = 2
    Second = 2
    MaxTime = 4
SYMMETRY PlanClients
INVARIANTS
    TypeOK
    RateBounded
PROPERTIES
    ImplementsFixedWindow
    RefusalJustified
    RetryHonoured
