CONSTANTS
    MaxDir = 4
    Names = {"a", "b"}
    MaxRef = 5
    MaxMsg = 4
    Tasks = {t1, t2}
    Ops = {"upload", "copy", "move", "rm", "mkdir", "mvdir", "rmdir", "cpdir"}
    Faults = {"crash", "call", "push"}
    Scenarios <- TwoScenarios
SPECIFICATION Spec
CHECK_DEADLOCK FALSE
SYMMETRY Symmetry
INVARIANTS TreeIsSound NothingDangles ChangesRecorded
