SPECIFICATION Spec
CONSTANTS
    t1 = t1
    t2 = t2
    o1 = o1
    o2 = o2
    o3 = o3
    Tabs <- TwoTabs
    Ops <- MCOps
    MaxUsers = 3
    MaxEnds = 1
    MaxLost = 1
SYMMETRY MCSymmetry
INVARIANTS
    SavedOnce
    HeldUnlessOverlapped
    SharedCreation
