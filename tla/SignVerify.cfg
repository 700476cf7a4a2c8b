SPECIFICATION Spec
CONSTANTS
    Jobs <- SignJobs
INVARIANTS
    STypeOK
    SignedConsistently
    RoundTrip
PROPERTIES
    OnlyFills
    EventuallyVerified
CHECK_DEADLOCK FALSE
