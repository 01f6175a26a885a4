SPECIFICATION SessionSpec
CONSTANTS
    f1 = f1
    f2 = f2
    sync = sync
    page = page
    Files = {f1, f2}
    None = None
    Pipeline = 2
    QueueDepth = 1
    Offsets = {}
    Lengths = {}
    Clients = {sync, page}
    Calls <- Windows
    MaxSize = 2
    MaxRequests = 2
    MaxLinks = 2
    MaxFaults = 1
    MaxTimeouts = 1
INVARIANTS FetchReturnsTheSlice ListReturnsOwn
 
CONSTRAINTS OneTrouble RecordsF1
ACTION_CONSTRAINT RecordWhereRead
SYMMETRY Sessions
VIEW SessionView
CHECK_DEADLOCK FALSE
