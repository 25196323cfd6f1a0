SPECIFICATION Spec
CONSTANTS
    r1 = r1
    r2 = r2
    k1 = k1
    NoKey = NoKey
    Requests <- MCRequests
    Keys <- MCKeys
    SessionTtl = 2
    PolicyTtls = {1, 3}
    MaxTime = 2
    MaxIds = 2
    MaxFaults = 1
PROPERTIES
    ExpiredDataErased
