SPECIFICATION LiveSpec
CONSTANTS
    MaxRec = 2
    QueueDepth = 2
    BufferRecords = 2
    CheckpointInterval = 2
    SleepTurns = 2
    Skews = {0}
    MaxPackets = 3
    MaxDrops = 0
    MaxRequests = 3
    MaxTime = 0
    MaxFaults = 0
    MaxCrashes = 0
PROPERTIES PauseTakesEffect ResumeTakesEffect PacketsReachTheCard
CHECK_DEADLOCK FALSE
