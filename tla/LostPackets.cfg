CONSTANTS
    Blocks = 2
    PcmDepth = 1
    RestartAfter = 2
    RebootAfter = 4
    LevelWrites = {0, 9}
    RawWrites = {77, 255}
    MaxGainWrites = 2
    MaxStalls = 2
    IdSize = 3
    MaxGap = 2
    MaxAir = 2
    MaxIssued = 4
    MaxTrouble = 2
    None = None
    BufSize = 5
    LineSizes = {1, 2}
    FlushEvery = 3
    MaxSamples = 8
    b = b
    f = f
    t = t
    Chars = {b, f, t}
    Boot <- BootLine
    Format <- FormatLine
    RxSize = 4
    MaxLine = 6
    MaxAsked = 2
    l1 = l1
    l2 = l2
    Loops = {l1, l2}
    Page = page
    Names = {1, 2}
    Local = 0
    Sizes = {1}
    MaxChunks = 2
    MaxUpsets = 2
    DayLength = 4
    Time = 2
    Interval = 2
    WindowStart = 3
    WindowEnd = 0
    MaxDays = 3
    MaxChanges = 2
SPECIFICATION Spec
INVARIANT LostWereDropped
ACTION_CONSTRAINT Bounded
