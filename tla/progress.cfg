CONSTANTS
    i0 = i0
    i1 = i1
    i2 = i2
    i3 = i3
    Item = {i0, i1, i2, i3}
    Size <- MCSize
    Flusher = {f1, f2}
    MaxBundles = 4
    CountThreshold = 2
    ByteThreshold = 2
    ByteLimit = 0
    BufferLimit = 2
    HandlerLimit = 1
    p1 = p1
    p2 = p2
    s1 = s1
    s2 = s2
    Id = {p1, p2}
    Fetch <- MCFetch
    Length <- MCLength
    MaxBytes = 2
    MaxLive = 1
    MaxTry = 2
    Upload <- MCUpload
    Handler = {h1, h2}
    TrueSize <- MCTrueSize
    MaxObjectSize = 5
    MaxFaults = 1
    Session <- MCSession
    BranchOrder <- MCBranchOrder
    MaxHeadFaults = 1
SPECIFICATION Progress
CHECK_DEADLOCK FALSE
INVARIANTS
    TypeOK
    FlushCovers
    QueueOnlyWhenBusy
    TimerGuardsCurrent
    BytesAccounted
    CacheAccounted
    CopiesVerified
    MarkersBacked
PROPERTIES
    EverythingHandled
    DownloadsSettle
    UploadsComplete
    HeadHeals
