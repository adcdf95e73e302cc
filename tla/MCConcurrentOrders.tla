------------------------- MODULE MCConcurrentOrders -------------------------
(* Up to three calls.  Books are one level deep, so that what varies is    *)
(* the interleaving and not the rounding.                                  *)
EXTENDS ConcurrentOrders

CONSTANTS e1, f1, i1, i2, r1, r2, r3

Buy(a, i, q)  == [op |-> "order", account |-> a, instrument |-> i, side |-> "BUY", quantity |-> q]
Sell(a, i, q) == [op |-> "order", account |-> a, instrument |-> i, side |-> "SELL", quantity |-> q]
GraduateOf(a) == [op |-> "graduate", account |-> a]

OneEvaluation  == {e1}
OneAndFunded   == {e1, f1}
OneInstrument  == {i1}
TwoInstruments == {i1, i2}
OneStrike == i1 :> 50
TwoStrike == (i1 :> 50) @@ (i2 :> 20)

TwoRequests   == {r1, r2}
ThreeRequests == {r1, r2, r3}

(* One account, one contract: orders that increase and that reduce.        *)
SameAccountJobs == {Buy(e1, i1, 1), Sell(e1, i1, 1)}
(* Orders that only close.                                                 *)
ClosingJobs == {Sell(e1, i1, 1)}
(* Serial calls on two contracts, flips and graduation.                    *)
SerialJobs == {Buy(e1, i1, 1), Sell(e1, i1, 2), Buy(e1, i2, 1), Sell(e1, i2, 1),
               GraduateOf(e1), Buy(f1, i1, 1)}

(* Nothing held, so that first orders insert, or two units bought at the   *)
(* low price.                                                              *)
Empty == [k \in Keys |-> FlatPosition]
Long  == [k \in Keys |-> [net |-> 2, entry |-> 4, realized |-> 0]]
NoHoldings   == {Empty}
LongHoldings == {Long}
EitherHoldings == {Empty, Long}

RequestSymmetry == Permutations(Requests)

Book(price, qty) == <<[price |-> price, quantity |-> qty]>>
Low  == [ltp |-> 4, asks |-> Book(4, 3), bids |-> Book(4, 3)]
High == [ltp |-> 8, asks |-> Book(8, 3), bids |-> Book(8, 3)]
MCQuotes   == {Low, High}
HighQuotes == {High}

MCRules   == [maxDailyLoss |-> 5, maxDrawdown |-> 15, profitTarget |-> 10, minTradingDays |-> 0]
=============================================================================
