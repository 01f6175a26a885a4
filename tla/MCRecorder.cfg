SPECIFICATION Spec
CONSTANTS
    MaxRec = 2
    QueueDepth = 2
    BufferRecords = 2
    CheckpointInterval = 2
    SleepTurns = 2
    Skews = {0}
    MaxPackets = 3
    MaxDrops = 1
    MaxRequests = 2
    MaxTime = 1
    MaxFaults = 1
    MaxCrashes = 1
INVARIANTS TypeOK HandleOpen SessionIsolation NoSilentLoss DeepSleepCommits
PROPERTIES ImplementsRecordingLog RecFilesAppendOnly CrashLosesAtMostOneInterval
CHECK_DEADLOCK FALSE
