\* Sessions 1 and 2 beside the slot that is never used; all messages
SPECIFICATION FairSpec
CONSTANTS
    MaxSessions = 3
    Messages = {"connect", "badconnect", "hello", "badhello", "rpc", "close", "kill", "junk", "badframe"}
    MaxQueued = 2
INVARIANT SessionTables
PROPERTIES
    TimeoutReachesAll
    ImplementsService
    NobodyStarves
CHECK_DEADLOCK FALSE
