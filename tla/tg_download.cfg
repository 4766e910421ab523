CONSTANTS
    SizeOf <- Sizes
    BlockSize = 2
    PieceSize = 2
    Threshold = 2
    RequestSize = 3
    InFlight = 2
    QueueDepth = 2
    Ahead = 1
    MaxAhead = 1
    Readers = {r1, r2}
    Scenarios <- Scenes
    r1 = r1
    r2 = r2
SPECIFICATION FairSpec
INVARIANTS
    CacheIsSound
    RangeDelivered
PROPERTY
    DownloadsEnd
CHECK_DEADLOCK FALSE
