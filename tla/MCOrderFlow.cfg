SPECIFICATION Spec
CONSTANTS
  e1 = e1
  f1 = f1
  f2 = f2
  i1 = i1
  i2 = i2
  NoSource = NoSource
  NoQuote = NoQuote
  NoRequest = NoRequest
  Capital = 40
  FundedCapital = 40
  LotSize = 1
  ShortMarginPercent = 15
  MinMarginPerLot = 4
  MaxOrders = 3
  Accounts <- TwoFunded
  Evaluations <- MCEvaluations
  Instruments <- TwoInstruments
  Strike <- TwoStrikes
  Quotes <- MCQuotes
  Quantities <- MCQuantities
  Types <- MCTypes
  Rules <- MCRules
INVARIANTS
  PositionsFollowTrades
  LedgerTracksRealized
  EquityExplained
  VerdictExplained
PROPERTIES
  ShortsWithinMargin
  LifecycleKept
CHECK_DEADLOCK FALSE
