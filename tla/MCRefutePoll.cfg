SPECIFICATION Spec
CONSTANTS
  s1 = s1
  m1 = m1
  m2 = m2
  poll = poll
  reader = reader
  NoQuote = NoQuote
  Poll <- poll
  Reader <- reader
  Symbols <- MCSymbols
  Watchlist <- MCWatchlist
  Messages <- MCMessages
  Callers <- MCCallers
  MaxQuotes = 2
INVARIANT
  PollSurvives
CHECK_DEADLOCK FALSE
