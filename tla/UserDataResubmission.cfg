SPECIFICATION Spec
CONSTANTS
    r1 = r1
    r2 = r2
    k1 = k1
    NoKey = NoKey
    Requests <- MCRequests
    Keys <- MCKeys
    SessionTtl = 2
    PolicyTtls = {1}
    MaxTime = 1
    MaxIds = 3
    MaxFaults = 0
PROPERTIES
    ResubmissionReturnsOriginal
