SPECIFICATION Spec
CONSTANTS
  HeaderSize = 3
  MagicSize = 2
  NonceSize = 1
  TagSize = 1
  SeekForward = 2
  HeaderCapacity = 1
  MaxQueue = 2
  Handles = {1, 2, 11, 12}
  Listers = {"k", "l"}
  MaxMoves = 1
  MaxStops = 1
  Scenarios <- Cases
INVARIANTS ReadsAreExact CommitsAreWhole ListingsAreCurrent
PROPERTIES SessionSettles
CHECK_DEADLOCK FALSE
