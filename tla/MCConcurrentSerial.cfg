SPECIFICATION Spec
CONSTANTS
  e1 = e1
  f1 = f1
  i1 = i1
  i2 = i2
  r1 = r1
  r2 = r2
  r3 = r3
  NoSource = NoSource
  NoQuote = NoQuote
  NoRow = NoRow
  NoJob = NoJob
  Free = Free
  Capital = 40
  FundedCapital = 40
  LotSize = 1
  ShortMarginPercent = 15
  MinMarginPerLot = 4
  MaxInFlight = 1
  Requests <- ThreeRequests
  Jobs <- SerialJobs
  Accounts <- OneAndFunded
  Evaluations <- OneEvaluation
  Instruments <- TwoInstruments
  Strike <- TwoStrike
  Quotes <- MCQuotes
  Rules <- MCRules
  Holdings <- NoHoldings
PROPERTIES
  SerialRequestsAreOrderFlow
CHECK_DEADLOCK FALSE
