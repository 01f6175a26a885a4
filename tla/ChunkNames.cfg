CONSTANTS
    NFiles = 2
    Named = {2}
    MaxFrames = 4
    Window = 3
    MaxPerPass = 5
    FramesPerChunk = 2
    PersistEvery = 2
    Garbage = 0
    MaxFaults = 0
    None = None
    NamedSizes = {0, 4, 8}
    RecSizes = {0, 6}
SPECIFICATION SyncSpec
INVARIANT EachChunkIsKept
ACTION_CONSTRAINTS OnlyWhenSeen Instance
