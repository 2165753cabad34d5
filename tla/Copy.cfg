SPECIFICATION FairSpec
CONSTANTS
    Proc = {p, q}
    Container = {"a", "b"}
    Host = "host"
    Free = "free"
    Entries = 2
    Buffer = 1
    Requests <- SomeRequests
    MaxFaults = 1
INVARIANT NothingTruncated
PROPERTY CopiesEnd
CHECK_DEADLOCK FALSE
