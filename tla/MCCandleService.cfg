SPECIFICATION CandleSpec
CONSTANTS
  MaxHistory = 3
  GroupSizes = {2, 3}
  Minutes = {1, 2, 3, 4}
  Prices = {1, 2}
  Volumes = {0, 1}
  MaxQuotes = 5
INVARIANTS
  CandlesMatchQuotes
  LatestMinutesKept
  TimeframesAgree
PROPERTIES
  ClosedIsFinal
CHECK_DEADLOCK FALSE
