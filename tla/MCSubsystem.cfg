SPECIFICATION FairSpec
CONSTANTS
    c1 = c1
    c2 = c2
    Clients <- MCClients
    Nobody = nobody
    Requests <- MCRequests
    ReplySize = 2
    UpCap = 2
    DownCap = 2
    PipeCap = 1
    BUFFLEN = 2
INVARIANTS PipesSound CloseDelivers
PROPERTY Answered
CHECK_DEADLOCK FALSE
