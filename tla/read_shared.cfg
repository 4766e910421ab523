SPECIFICATION FairSpec
CONSTANTS
    A = A
    B = B
    a1 = a1
    a2 = a2
    b1 = b1
    b2 = b2
    BenchAfter = 2
    Stores = {A, B}
    Workers = {a1, a2, b1, b2}
    StoreOf <- TwoStores
    N = 3
    Window = 2
INVARIANTS PiecesInPlace FailsOnlyUnservable
PROPERTIES ReadCompletes
