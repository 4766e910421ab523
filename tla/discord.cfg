CONSTANTS
    MaxId = 7
    Bots = {1, 2}
    LongTexts = {2}
    Old = {2}
    MaxPart = 2
    MaxParts = 2
    MaxTries = 2
    MaxUp = 2
    MaxDown = 2
    Tasks = {t1, t2}
    Faults = {"fail", "refuse", "lost", "read", "cancel"}
    Scenarios <- AllScenes
SPECIFICATION FairSpec
INVARIANTS
    CacheIsRecent
    SlotsConserved
    FilesAreWhole
PROPERTY
    RequestsEnd
CHECK_DEADLOCK FALSE
