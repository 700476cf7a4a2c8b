SPECIFICATION Spec
CONSTANTS
    Jobs <- AgreementJobs
    HeaderLen = 6
    TagNames = {"", "utf8", "latin1", "a", "b", "r", "w"}
INVARIANT OriginatorFilled
CHECK_DEADLOCK FALSE
