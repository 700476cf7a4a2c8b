SPECIFICATION Spec
CONSTANTS
    Docs <- RootFirstDocs
    Ctxs <- RootFirstCtxs
INVARIANT KeyCertificateTrusted
CHECK_DEADLOCK FALSE
