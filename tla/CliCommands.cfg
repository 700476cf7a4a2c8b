SPECIFICATION CSpec
CONSTANTS
    Commands <- AllCommands
    Docs <- AllDocs
    Ctxs <- NoContexts
INVARIANTS
    CTypeOK
    TrustedRootsConstrain
    SessionKeySigns
    EveryFileCounts
    OnlyReadKeysVerify
    WrongPasswordStops
PROPERTIES
    CommandEnds
CHECK_DEADLOCK FALSE
