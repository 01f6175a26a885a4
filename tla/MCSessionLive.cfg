SPECIFICATION SessionLiveSpec
CONSTANTS
    f1 = f1
    f2 = f2
    sync = sync
    page = page
    Files = {f1}
    None = None
    Pipeline = 2
    QueueDepth = 1
    Offsets = {}
    Lengths = {}
    Clients = {sync}
    Calls <- LiveCalls
    MaxSize = 2
    MaxRequests = 2
    MaxLinks = 2
    MaxFaults = 0
    MaxTimeouts = 1
PROPERTIES CallReturns RequestIsAnswered CreditsComeBack
INVARIANT AnswerIsTheLast
CONSTRAINT OneTrouble
CHECK_DEADLOCK FALSE
