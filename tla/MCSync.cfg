CONSTANTS
    NFiles = 2
    Named = {2}
    MaxFrames = 5
    Window = 3
    MaxPerPass = 5
    FramesPerChunk = 2
    PersistEvery = 2
    Garbage = 0
    MaxFaults = 1
    None = None
    NamedSizes = {0, 4, 10}
    RecSizes = {0, 2}
SPECIFICATION SyncSpec
INVARIANTS SyncTypeOK DoneMeansFetched BoundedKillLoss
PROPERTIES StreamWhileUndisturbed BacklogDrains
ACTION_CONSTRAINTS OnlyWhenSeen Instance
