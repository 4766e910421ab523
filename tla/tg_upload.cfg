CONSTANTS
    PartDefault = 2
    PartPremium = 4
    ChunkSize = 2
    Workers = {w1, w2}
    InFlight = 2
    MaxAttempts = 2
    Uploads <- Some
SPECIFICATION FairSpec
INVARIANTS
    PartsAreRight
    FileIsWhole
PROPERTY
    UploadEnds
CHECK_DEADLOCK FALSE
