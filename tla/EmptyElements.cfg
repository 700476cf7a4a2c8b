SPECIFICATION Spec
CONSTANTS
    Jobs <- NestedJobs
    HeaderLen = 6
    TagNames = {"", "utf8", "latin1", "a", "b", "r", "w"}
INVARIANT EmptyElementsOnly
CHECK_DEADLOCK FALSE
