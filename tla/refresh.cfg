SPECIFICATION FairSpec
CONSTANTS
    n1 = n1
    n2 = n2
    p1 = p1
    p2 = p2
    p3 = p3
    Nodes = {n1, n2}
    Pages = {p1, p2, p3}
    Serves <- TwoAndOne
    MaxChanges = 2
    MaxLosses = 2
CHECK_DEADLOCK FALSE
INVARIANTS
    StaleIsSignalled
PROPERTIES
    PagesCatchUp
