---------------------------- MODULE MCOrderFlow ----------------------------
(* One contract or two, quotes whose depth is shallow, uneven and one-sided, and *)
(* a capital of forty units, so that a handful of orders meets partial     *)
(* fills, flips, half-unit averages, breaches and the target.              *)
EXTENDS OrderFlow

CONSTANTS e1, f1, f2, i1, i2

MCEvaluations == {e1}
TwoFunded     == {e1, f1, f2}
TwoInstruments == {i1, i2}
TwoStrikes == (i1 :> 50) @@ (i2 :> 20)

Lvl(price, quantity) == [price |-> price, quantity |-> quantity]

(* Calm, risen and fallen: the book is thin above, thin below, one-sided.  *)
Calm   == [ltp |-> 5, asks |-> <<Lvl(5, 1), Lvl(6, 2)>>, bids |-> <<Lvl(4, 3)>>]
Risen  == [ltp |-> 8, asks |-> <<Lvl(8, 3)>>, bids |-> <<Lvl(8, 1), Lvl(7, 1)>>]
Fallen == [ltp |-> 3, asks |-> <<>>, bids |-> <<Lvl(3, 2)>>]
MCQuotes == {Calm, Risen, Fallen}

MCQuantities == {0, 2, 3}
MCTypes  == {"MARKET", "LIMIT"}
MCRules  == [maxDailyLoss |-> 5, maxDrawdown |-> 15, profitTarget |-> 10, minTradingDays |-> 0]
=============================================================================
