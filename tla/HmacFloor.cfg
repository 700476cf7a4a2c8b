SPECIFICATION CSpec
CONSTANTS
    Commands <- MacCommands
    Docs <- AllDocs
    Ctxs <- NoContexts
INVARIANTS
    DefaultHmacFloor
CHECK_DEADLOCK FALSE
