CONSTANTS
    t1 = t1
    t2 = t2
    t3 = t3
    g1 = g1
    g2 = g2
    n0 = n0
    n1 = n1
    n2 = n2
    NoTask = NoTask
    NoTG = NoTG
    NoNS = NoNS
    Tasks <- MCTasks
    TGs <- MCTGs
    NSs <- MCNSs
    Root = n0
    MaxTID <- MCMaxTID
SPECIFICATION Spec
INVARIANT TypeOK
INVARIANT BimapConsistent
INVARIANT VisibilityExact
INVARIANT ThreadGroupIDs
INVARIANT CountersMatch
CHECK_DEADLOCK FALSE
