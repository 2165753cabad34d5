SPECIFICATION Spec
CONSTANTS
    Proc = {p}
    Container = {"a", "b"}
    Host = "host"
    Free = "free"
    Entries = 2
    Buffer = 2
    Requests <- Renaming
    MaxFaults = 1
INVARIANT OkMeansCopied
CHECK_DEADLOCK FALSE
