SPECIFICATION Spec
CONSTANTS
    r1 = r1
    r2 = r2
    k1 = k1
    NoKey = NoKey
    Requests <- MCRequests
    Keys <- MCKeys
    SessionTtl = 2
    PolicyTtls = {0, 1, 3}
    MaxTime = 2
    MaxIds = 3
    MaxFaults = 1
INVARIANTS
    TypeOK
    ReferentialIntegrity
    OneRoutePerKey
PROPERTIES
    ErasedStaysErased
    LiveDataKeptWithAccount
    RetryReturnsOriginal
SYMMETRY MCSymmetry
