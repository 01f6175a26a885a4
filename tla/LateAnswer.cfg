SPECIFICATION SessionSpec
CONSTANTS
    f1 = f1
    f2 = f2
    sync = sync
    page = page
    Files = {f1}
    None = None
    Pipeline = 2
    QueueDepth = 1
    Offsets = {}
    Lengths = {}
    Clients = {sync}
    Calls <- FewCalls
    MaxSize = 2
    MaxRequests = 2
    MaxLinks = 1
    MaxFaults = 0
    MaxTimeouts = 1
INVARIANTS NothingStale
CHECK_DEADLOCK FALSE
