CONSTANTS
    s1 = s1
    s2 = s2
    n1 = n1
    n2 = n2
    v1 = v1
    v2 = v2
    NoSession = NoSession
    None = None
    Sessions <- MCSessions
    Nodes <- MCNodes
    Values <- MCValues
    MaxTxid = 3
    MaxUndo = 2
SPECIFICATION Spec
SYMMETRY MCSymmetry
CHECK_DEADLOCK FALSE
INVARIANT TxidHasTransaction
