SPECIFICATION Spec
CONSTANTS
  Asks <- MCAsks
  Bids <- MCBids
  Quantities <- MCQuantities
INVARIANTS
  FillAccounted
  NoBetterFill
  WalkIsFold
CHECK_DEADLOCK FALSE
