----------------------------- MODULE CandleService -----------------------------
(***************************************************************************)
(* CandleService: the one minute candles of one symbol, a partial function *)
(* from minutes to candles; the symbols do not touch each other.  A quote  *)
(* counts for the minute of its own timestamp, and the tasks that ingest   *)
(* overtake each other (QuoteFeed), so minutes come in any order.          *)
(***************************************************************************)
EXTENDS Integers, Sequences, SequencesExt, FiniteSetsExt

CONSTANTS
  MaxHistory,    \* minutes kept per symbol (1500)
  GroupSizes,    \* minutes of the longer timeframes (5 and 15)
  Minutes, Prices, Volumes,
  MaxQuotes      \* bound: quotes ingested in a behaviour

ASSUME HistoryAssumption == MaxHistory \in Nat \ {0}
ASSUME GroupAssumption == GroupSizes \subseteq Nat \ {0}
ASSUME QuoteAssumption == Minutes \subseteq Int /\ Prices \subseteq Int /\ Volumes \subseteq Nat

VARIABLES
  candles,       \* _candles_1m of the symbol
  ingested       \* history: the quotes ingested, in order

candleVars == <<candles, ingested>>

Quotes == [minute : Minutes, ltp : Prices, volume : Volumes]
NoCandles == [m \in {} |-> 0]

NewCandle(quote) ==
  [o |-> quote.ltp, h |-> quote.ltp, l |-> quote.ltp, c |-> quote.ltp,
   v |-> quote.volume, closed |-> FALSE]

Extended(candle, quote) ==
  [candle EXCEPT !.h = Max({@, quote.ltp}), !.l = Min({@, quote.ltp}),
                 !.c = quote.ltp, !.v = Max({@, quote.volume})]

(* The minutes kept are the latest ones, whenever their quotes came.       *)
Kept(minutes) == {m \in minutes : Cardinality({n \in minutes : n > m}) < MaxHistory}

WithQuote(history, quote) ==
  [m \in DOMAIN history \union {quote.minute} |->
     IF m # quote.minute THEN [history[m] EXCEPT !.closed = TRUE]
     ELSE IF m \in DOMAIN history THEN Extended(history[m], quote) ELSE NewCandle(quote)]

IngestCuttingFirst(history, quote) ==  \* fault: room is made before the quote is added
  WithQuote(IF Cardinality(DOMAIN history) < MaxHistory \/ quote.minute \in DOMAIN history
            THEN history
            ELSE [m \in DOMAIN history \ {Min(DOMAIN history)} |-> history[m]], quote)

IngestClosingAll(history, quote) ==  \* fault: the current candle is closed with the others
  LET added == WithQuote(history, quote)
  IN  [m \in Kept(DOMAIN added) |-> [added[m] EXCEPT !.closed = Cardinality(DOMAIN added) > 1]]

Ingest(history, quote) ==
  LET added == WithQuote(history, quote)
  IN  [m \in Kept(DOMAIN added) |-> added[m]]

(* get_candles: in the order of time, and for the longer timeframes in     *)
(* groups of size by position in that order.                               *)
Nth(minutes, i) == CHOOSE m \in minutes : Cardinality({n \in minutes : n < m}) = i - 1
Ordered(history) ==
  [i \in 1..Cardinality(DOMAIN history) |-> history[Nth(DOMAIN history, i)]]

Merged(chunk) ==
  [o |-> Head(chunk).o, c |-> Last(chunk).c, closed |-> Last(chunk).closed,
   h |-> Max({chunk[i].h : i \in DOMAIN chunk}), l |-> Min({chunk[i].l : i \in DOMAIN chunk}),
   v |-> Max({chunk[i].v : i \in DOMAIN chunk})]

AggregatedShort(ordered, size) ==  \* fault: a slice ends one early
  [g \in 1..((Len(ordered) + size - 1) \div size) |->
     Merged(SubSeq(ordered, (g - 1) * size + 1, Min({g * size - 1, Len(ordered)})))]

Aggregated(ordered, size) ==
  [g \in 1..((Len(ordered) + size - 1) \div size) |->
     Merged(SubSeq(ordered, (g - 1) * size + 1, Min({g * size, Len(ordered)})))]

Latest(seq, limit) == SubSeq(seq, Max({1, Len(seq) - limit + 1}), Len(seq))

GetCandles(history, size, limit) ==
  Latest(IF size = 1 THEN Ordered(history) ELSE Aggregated(Ordered(history), size), limit)
---------------------------------------------------------------------------
CandleInit == candles = NoCandles /\ ingested = <<>>

IngestQuote(quote) ==
  /\ Len(ingested) < MaxQuotes
  /\ candles'  = Ingest(candles, quote)
  /\ ingested' = Append(ingested, quote)

(* GET /candles of a symbol without candles makes one of its cached quote, *)
(* which may be from an earlier run of the server.                         *)
RequestCandles(cached) == candles = NoCandles /\ IngestQuote(cached)

CandleNext == \E quote \in Quotes : IngestQuote(quote) \/ RequestCandles(quote)

CandleSpec == CandleInit /\ [][CandleNext]_candleVars

---------------------------------------------------------------------------
(* A candle that is kept is the open, high, low, close and volume of all   *)
(* the quotes ever ingested for its minute, however late they came.        *)
QuotesOf(m) == {i \in DOMAIN ingested : ingested[i].minute = m}
CandlesMatchQuotes ==
  \A m \in DOMAIN candles :
    LET mine   == QuotesOf(m)
        prices == {ingested[i].ltp : i \in mine}
        k      == candles[m]
    IN  mine # {} /\ <<k.o, k.h, k.l, k.c, k.v>> =
                       <<ingested[Min(mine)].ltp, Max(prices), Min(prices),
                         ingested[Max(mine)].ltp, Max({ingested[i].volume : i \in mine})>>

(* The history is the latest minutes that had a quote, MaxHistory of them. *)
LatestMinutesKept ==
  DOMAIN candles = Kept({ingested[i].minute : i \in DOMAIN ingested})

(* While quotes come in the order of their minutes a closed candle is      *)
(* final, and every candle but the last is closed.                         *)
InOrder(log) == \A i \in 1..(Len(log) - 1) : log[i].minute <= log[i + 1].minute
ClosedIsFinal ==
  [][InOrder(ingested') =>
       /\ \A m \in DOMAIN candles \intersect DOMAIN candles' :
            candles[m].closed => candles'[m] = candles[m]
       /\ \A m \in DOMAIN candles' : candles'[m].closed = (m # Max(DOMAIN candles'))]_candleVars

(* Every timeframe tells the same story: together its candles open, close, *)
(* peak and trough where the one minute candles do.                        *)
TimeframesAgree ==
  candles # NoCandles =>
    \A size \in GroupSizes :
      Merged(GetCandles(candles, size, MaxHistory)) = Merged(GetCandles(candles, 1, MaxHistory))
=============================================================================
