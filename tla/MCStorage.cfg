SPECIFICATION Spec
CONSTANTS
    f1 = f1
    Files = {f1}
    None = None
    Pipeline = 2
    QueueDepth = 1
    Offsets = {0, 1}
    Lengths = {0, 1}
    MaxSize = 2
    MaxRequests = 2
    MaxLinks = 1
    MaxFaults = 1
INVARIANTS TypeOK FetchIsTheSlice CreditsAccounted AbortHitsOlder
CHECK_DEADLOCK FALSE
