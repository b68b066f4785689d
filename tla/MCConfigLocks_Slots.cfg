SPECIFICATION Spec
CONSTANTS
    Sessions = {s1, s2}
    NoSession = NoSession
    sys = sys
    leaf_a = leaf_a
    leaf_b = leaf_b
    Nodes <- MCNodes
    Subtree <- MCSubtree
    Blocks = {b1, b2}
    NoBlock = NoBlock
    MaxPlocks = 2
    MaxLockId = 2
    HasStartup = FALSE
SYMMETRY Symmetry
INVARIANT SlotsFollowLocks
