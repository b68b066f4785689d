SPECIFICATION FairSpec
CONSTANTS
    Used = {1, 2}
    MaxRequestId = 3
    MaxLate = 1
    Drops = TRUE
INVARIANTS ControlBlockSound AllOrNothing
PROPERTY CommandEnds
CHECK_DEADLOCK FALSE
