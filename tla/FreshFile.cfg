SPECIFICATION Spec
CONSTANTS
    MaxRec = 2
    QueueDepth = 2
    BufferRecords = 2
    CheckpointInterval = 2
    SleepTurns = 2
    Skews = {0}
    MaxPackets = 1
    MaxDrops = 0
    MaxRequests = 5
    MaxTime = 0
    MaxFaults = 0
    MaxCrashes = 0
PROPERTY ResumeOpensFreshFile
CHECK_DEADLOCK FALSE
