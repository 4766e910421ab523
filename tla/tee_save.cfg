SPECIFICATION FairSpec
CONSTANTS
    M = 2
    Total = 5
    Capacity = 2
    ReadSizes = {1, 3}
INVARIANTS BranchesAreSound OutcomesAreSound
PROPERTIES SaveEnds
