SPECIFICATION Spec
CONSTANTS
    Sessions = {s1, s2}
    NoSession = NoSession
    sys = sys
    leaf_a = leaf_a
    leaf_b = leaf_b
    Nodes <- SmallNodes
    Subtree <- SmallSubtree
    Blocks = {b1, b2}
    NoBlock = NoBlock
    MaxPlocks = 1
    MaxLockId = 2
    HasStartup = FALSE
SYMMETRY SmallSymmetry
INVARIANTS
    TypeOK
    LockTables
    CandidateLockExclusive
PROPERTY ImplementsLocks
