SPECIFICATION Spec
CONSTANTS
    Docs <- AllDocs
    Ctxs <- AllCtxs
INVARIANTS
    TypeOK
    ReportComplete
    LeafFirstKeyTrusted
    NamedKeyUsed
PROPERTY ImplementsPolicy
CHECK_DEADLOCK FALSE
