SPECIFICATION FairSpec
CONSTANTS
    Sessions = {s1, s2}
    NoSession = NoSession
    Configs = {c1, c2}
    FactoryConfig = c1
    NoConfig = NoConfig
    PersistIds = {p1}
    NoPersist = NoPersist
    HasStartup = TRUE
    StartupErrorStop = TRUE
    Faults = {"apply", "rollback", "complete", "save", "restore"}
INVARIANTS
    PendingCommitOwned
    PendingCommitRespectsLocks
    BackupIsBase
    CleanCandidateMatchesRunning
PROPERTY PendingCommitEnds
