CONSTANTS
  A = A
  B = B
  D = D
  f1 = f1
  f2 = f2
  NoStore = NoStore
  Stores = {A, B, D}
  Telegram = {A, B}
  Files = {f1, f2}
  Size = 3
  MaxVersion = 3
  Scenarios <- Scenes
SPECIFICATION Spec
INVARIANTS
  RecordsHold
  SelfSufficient
  RangeRead
PROPERTIES
  UpkeepIsSafe
CHECK_DEADLOCK FALSE
