SPECIFICATION FairSpec
CONSTANTS
    a = a
    b = b
    c = c
    Versions = {a, b, c}
    Size <- SizeWithEmpty
    BlockSize = 2
    MaxSize = 4
    TargetSize = 2
    MaxFiles = 2
    MaxFileSize = 0
    MinFree = FALSE
    MaxAge = TRUE
    KeepForReads = TRUE
    WriteAck = "cache"
    Writers = {w1, w2}
    Fills = {}
    Readers = {}
    Faults = {"write"}
INVARIANTS PendingIsSafe
PROPERTIES RestartIsExact StagingEnds
CHECK_DEADLOCK FALSE
