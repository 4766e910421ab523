CONSTANTS
    MaxId = 6
    Texts = {1, 2}
    LongTexts = {2}
    Server0 <- Written
    Tasks = {t1, t2}
    Reads = {{1}, {1, 2}}
    Targets = {2}
    Files = {4}
    Bots = 2
    CacheSize = 2
    DeleteSize = 1
    Faults = {"get", "me", "edit", "delete", "download", "cancel"}
    Calls = 3
SPECIFICATION FairSpec
CHECK_DEADLOCK FALSE
INVARIANTS MarkersHaveDocuments ReadsAreRecent
PROPERTY ReadsEnd
