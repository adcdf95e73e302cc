SPECIFICATION Spec
CONSTANTS
  e1 = e1
  f1 = f1
  i1 = i1
  i2 = i2
  r1 = r1
  r2 = r2
  r3 = r3
  NoSource = NoSource
  NoQuote = NoQuote
  NoRow = NoRow
  NoJob = NoJob
  Free = Free
  Capital = 40
  FundedCapital = 40
  LotSize = 1
  ShortMarginPercent = 15
  MinMarginPerLot = 4
  MaxInFlight = 2
  Requests <- TwoRequests
  Jobs <- SameAccountJobs
  Accounts <- OneEvaluation
  Evaluations <- OneEvaluation
  Instruments <- OneInstrument
  Strike <- OneStrike
  Quotes <- HighQuotes
  Rules <- MCRules
  Holdings <- LongHoldings
PROPERTIES
  EveryCallAnswered
CHECK_DEADLOCK FALSE
