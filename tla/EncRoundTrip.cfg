SPECIFICATION Spec
CONSTANTS
    Jobs <- EncJobs
    HeaderLen = 6
    TagNames = {"", "utf8", "latin1", "a", "b", "r", "w"}
INVARIANTS
    ETypeOK
    KeysInPlace
    
    
    PlaintextRestored
    OpaqueKept
