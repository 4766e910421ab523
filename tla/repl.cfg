SPECIFICATION FairSpec
CONSTANTS
    Files = {1, 2}
    Paths = {"p1", "p2"}
    Versions = {1, 2}
    Writers = {"w1"}
    Scenarios <- Scenes
INVARIANTS QueueCovers AcknowledgedHeld
PROPERTIES HistoryKept Replicated
