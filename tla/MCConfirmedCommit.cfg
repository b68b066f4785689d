SPECIFICATION Spec
CONSTANTS
    Sessions = {s1, s2}
    NoSession = NoSession
    Configs = {c1, c2, c3}
    FactoryConfig = c1
    NoConfig = NoConfig
    PersistIds = {p1, p2}
    NoPersist = NoPersist
    HasStartup = FALSE
    StartupErrorStop = FALSE
    Faults = {"apply", "rollback", "complete", "save", "message"}
SYMMETRY MCSymmetry
INVARIANTS
    TypeOK
    StartupFileConfirmed
PROPERTY ImplementsCommit
