SPECIFICATION Spec
CONSTANTS
    Jobs <- FailingDerivations
    HeaderLen = 6
    TagNames = {"", "utf8", "latin1", "a", "b", "r", "w"}
INVARIANT DerivationErrorSurfaces
CHECK_DEADLOCK FALSE
