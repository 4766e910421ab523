SPECIFICATION Spec
CONSTANTS
    a = a
    b = b
    c = c
    Versions = {a, b}
    Size <- SizeTwo
    BlockSize = 2
    MaxSize = 3
    TargetSize = 2
    MaxFiles = 0
    MaxFileSize = 0
    MinFree = TRUE
    MaxAge = FALSE
    KeepForReads = TRUE
    WriteAck = "primary"
    Writers = {w1}
    Fills = {f1, f2}
    Readers = {r1}
    Faults = {"write", "create"}
INVARIANTS BudgetHolds TrustedBlocksAreReal LiveReadsAreReal
SYMMETRY FillSymmetry
CHECK_DEADLOCK FALSE
CONSTRAINT FewTasks
