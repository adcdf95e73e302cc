----------------------------- MODULE TradeMath -----------------------------
(***************************************************************************)
(* The arithmetic of the backend, as operators the state machines share:   *)
(* how Numeric(14, 2) columns round, how a market order walks one side of  *)
(* the order book, what a fill does to a position, what a short costs in   *)
(* margin and what an open position is worth.                              *)
(*                                                                         *)
(* Money is counted in the smallest stored unit (one paisa).  A Decimal in *)
(* memory is not rounded until it is stored, so an average price is kept   *)
(* as the pair (value, qty) it is the quotient of, and a realized P&L as a *)
(* numerator over the quantity of the fill.                                *)
(***************************************************************************)
EXTENDS Integers, Sequences, SequencesExt

Magnitude(n) == IF n < 0 THEN -n ELSE n
Lesser(a, b)  == IF a < b THEN a ELSE b
Greater(a, b) == IF a < b THEN b ELSE a

(* What a Numeric(14, 2) column keeps of n / d, d > 0: the nearest unit,   *)
(* and the one further from zero when n / d lies half way.                 *)
RoundDiv(n, d) == IF n >= 0 THEN (2 * n + d) \div (2 * d)
                            ELSE -((2 * (-n) + d) \div (2 * d))

---------------------------------------------------------------------------
(* MatchingEngine._process_market_order: take each level in turn until the *)
(* quantity is filled or the book is exhausted.                            *)
TakeLevelPastZero(walk, level) ==  \* fault: the loop does not stop when nothing is left
  LET take == Lesser(walk.left, level.quantity)
  IN  [left |-> walk.left - take, value |-> walk.value + take * level.price]

TakeLevel(walk, level) ==
  LET take == IF walk.left <= 0 THEN 0 ELSE Lesser(walk.left, level.quantity)
  IN  [left |-> walk.left - take, value |-> walk.value + take * level.price]

WalkBook(levels, quantity) ==
  LET walk == FoldLeft(TakeLevel, [left |-> quantity, value |-> 0], levels)
  IN  [qty |-> quantity - walk.left, value |-> walk.value]

---------------------------------------------------------------------------
(* OrderService._update_position, for a fill of fill.qty > 0 units at the  *)
(* average price fill.value / fill.qty.                                    *)
SignedQuantity(side, qty) == IF side = "BUY" THEN qty ELSE -qty

Reduces(net, change) == (net > 0 /\ change < 0) \/ (net < 0 /\ change > 0)

(* The realized P&L of the fill, multiplied by fill.qty.                   *)
RealizedNumerator(position, side, fill) ==
  LET change  == SignedQuantity(side, fill.qty)
      closing == Lesser(Magnitude(position.net), Magnitude(change))
      gain    == fill.value - position.entry * fill.qty
  IN  IF ~Reduces(position.net, change) THEN 0
      ELSE IF position.net > 0 THEN gain * closing ELSE (-gain) * closing

(* The stored average entry price after the fill.                          *)
EntryAfter(position, side, fill) ==
  LET change == SignedQuantity(side, fill.qty)
      net    == position.net + change
  IN  CASE position.net = 0 -> RoundDiv(fill.value, fill.qty)
        [] position.net # 0 /\ ~Reduces(position.net, change) ->
             RoundDiv(Magnitude(position.net) * position.entry + fill.value,
                      Magnitude(net))
        [] Reduces(position.net, change) /\ net = 0 -> 0
        [] Reduces(position.net, change) /\ Magnitude(change) > Magnitude(position.net) ->
             RoundDiv(fill.value, fill.qty)
        [] OTHER -> position.entry

(* Faults: a flip stops at flat; realized P&L is set instead of added.     *)
PositionNoFlip(position, side, fill) ==
  LET change == SignedQuantity(side, fill.qty)
  IN  [net      |-> IF Reduces(position.net, change) /\ Magnitude(change) > Magnitude(position.net)
                    THEN 0 ELSE position.net + change,
       entry    |-> EntryAfter(position, side, fill),
       realized |-> RoundDiv(position.realized * fill.qty
                               + RealizedNumerator(position, side, fill), fill.qty)]

(* The row the fill leaves behind.                                         *)
PositionAfter(position, side, fill) ==
  [net      |-> position.net + SignedQuantity(side, fill.qty),
   entry    |-> EntryAfter(position, side, fill),
   realized |-> RoundDiv(position.realized * fill.qty
                           + RealizedNumerator(position, side, fill), fill.qty)]

---------------------------------------------------------------------------
(* PnLEngine.mark_to_market_account, the P&L of one open position.         *)
PositionPnl(position, ltp) == (ltp - position.entry) * position.net

(* AccountQueryService.margin_for_lots, multiplied by 100 * lotSize: a     *)
(* percentage of the contract's notional with a floor per lot.             *)
MarginScaled(strike, lotSize, percent, minPerLot, qty) ==
  IF lotSize <= 0 \/ qty <= 0 THEN 0
  ELSE Greater(strike * lotSize * percent, 100 * minPerLot) * qty

---------------------------------------------------------------------------
(* PnLEngine.mark_to_market_account and RiskEngine.check_post_trade work   *)
(* on the Account object in memory: what is stored plus the unrounded      *)
(* realized P&L of the fill, delta / qty.  A valuation holds the numerators *)
(* over qty; floating is the whole account's, in units.                    *)
Figures(account, qty, realized, equity, hwm) ==
  [realized |-> realized,
   equity   |-> equity,
   daily    |-> equity - account.balance * qty,
   hwm      |-> hwm,
   drawdown |-> hwm - equity]

(* Faults: equity forgets the realized P&L; the high water mark is taken   *)
(* from the equity as loaded; it follows equity down.                      *)
ValuationUnrealized(account, delta, qty, floating) ==
  LET realized == account.realized * qty + delta
      equity   == account.balance * qty + floating * qty
  IN  Figures(account, qty, realized, equity, Greater(account.hwm * qty, equity))

Valuation(account, delta, qty, floating) ==
  LET realized == account.realized * qty + delta
      equity   == account.balance * qty + realized + floating * qty
  IN  Figures(account, qty, realized, equity, Greater(account.hwm * qty, equity))

(* The status check_post_trade leaves.  Percentages are of the starting    *)
(* balance, the drawdown's of the high water mark (none when that is not   *)
(* positive); the checks come in this order.                               *)
BreachesDailyLoss(account, v, qty, rules) ==
  v.daily * 100 < -(account.balance * qty * rules.maxDailyLoss)

BreachesDrawdown(v, rules) ==
  IF v.hwm > 0 THEN v.drawdown * 100 >= rules.maxDrawdown * v.hwm
               ELSE 0 >= rules.maxDrawdown

ReachesTarget(account, v, qty, floating, rules) ==
  (v.realized + floating * qty) * 100 >= account.balance * qty * rules.profitTarget

(* Fault: the daily loss is not checked.                                   *)
VerdictWithoutDailyLoss(account, v, qty, floating, rules, tradingDays) ==
  IF BreachesDrawdown(v, rules) THEN "FAILED"
  ELSE IF ReachesTarget(account, v, qty, floating, rules) THEN "PASSED" ELSE account.status

Verdict(account, v, qty, floating, rules, tradingDays) ==
  IF BreachesDailyLoss(account, v, qty, rules) \/ BreachesDrawdown(v, rules)
  THEN "FAILED"
  ELSE IF ReachesTarget(account, v, qty, floating, rules)
          /\ tradingDays >= rules.minTradingDays
       THEN "PASSED"
       ELSE account.status

(* The Account row the commit leaves behind; drawdownPercent is in         *)
(* hundredths of a percent, as Numeric(5, 2) keeps it.                     *)
AccountAfter(account, delta, qty, floating, rules, tradingDays) ==
  LET v == Valuation(account, delta, qty, floating)
  IN  [account EXCEPT
         !.realized        = RoundDiv(v.realized, qty),
         !.floating        = floating,
         !.equity          = RoundDiv(v.equity, qty),
         !.daily           = RoundDiv(v.daily, qty),
         !.hwm             = RoundDiv(v.hwm, qty),
         !.drawdown        = RoundDiv(v.drawdown, qty),
         !.drawdownPercent = IF v.hwm > 0 THEN RoundDiv(v.drawdown * 10000, v.hwm) ELSE 0,
         !.status          = Verdict(account, v, qty, floating, rules, tradingDays)]
=============================================================================
