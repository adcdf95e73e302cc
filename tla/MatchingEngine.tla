--------------------------- MODULE MatchingEngine ---------------------------
(***************************************************************************)
(* The simulated execution provider (execution/matching_engine.py), one    *)
(* order from submit_order to its reply, with one action per iteration of  *)
(* the loop that walks the book, and cancel_order afterwards.              *)
(*                                                                         *)
(* The order is the one OrderService hands over: freshly created, OPEN,    *)
(* nothing filled.                                                         *)
(***************************************************************************)
EXTENDS TradeMath

CONSTANTS Asks,        \* the ask sides a quote may carry, best level first
          Bids,        \* the bid sides a quote may carry, best level first
          Quantities   \* the quantities orders are placed for

Level == [price : Nat, quantity : Nat]

ASSUME BookAssumption == Asks \subseteq Seq(Level) /\ Bids \subseteq Seq(Level)
ASSUME QuantityAssumption == Quantities \subseteq Int

VARIABLES
  pc,       \* "submit", "walk" or "replied"
  order,    \* the Order row: side, type, quantity, status
  levels,   \* the side of the depth the order is matched against
  at,       \* the level the loop looks at next
  left,     \* remaining_qty
  filled,   \* total_filled
  value     \* total_value

vars == <<pc, order, levels, at, left, filled, value>>

Sides  == {"BUY", "SELL"}
Types  == {"MARKET", "LIMIT", "SL", "SL_M"}
Status == {"OPEN", "PARTIALLY_FILLED", "FILLED", "REJECTED", "CANCELLED"}

Init ==
  /\ pc = "submit"
  /\ order \in [side : Sides, type : Types, quantity : Quantities, status : {"OPEN"}]
  /\ levels = <<>>
  /\ at = 1 /\ left = 0 /\ filled = 0 /\ value = 0

Reply(status) ==
  /\ pc' = "replied"
  /\ order' = [order EXCEPT !.status = status]

(* A LIMIT order is answered "Pending order book not yet implemented" and  *)
(* stays OPEN.                                                             *)
ProcessLimitOrder ==
  /\ pc = "submit" /\ order.type = "LIMIT"
  /\ Reply("OPEN")
  /\ UNCHANGED <<levels, at, left, filled, value>>

(* Stop orders are refused without touching the order.                     *)
UnsupportedOrder ==
  /\ pc = "submit" /\ order.type \in {"SL", "SL_M"}
  /\ pc' = "replied"
  /\ UNCHANGED <<order, levels, at, left, filled, value>>

NoMarketData ==
  /\ pc = "submit" /\ order.type = "MARKET"
  /\ Reply("REJECTED")
  /\ UNCHANGED <<levels, at, left, filled, value>>

FetchDepth ==
  /\ pc = "submit" /\ order.type = "MARKET"
  /\ \E book \in (IF order.side = "BUY" THEN Asks ELSE Bids) : levels' = book
  /\ pc' = "walk"
  /\ left' = order.quantity
  /\ UNCHANGED <<order, at, filled, value>>

Walking == pc = "walk" /\ at <= Len(levels) /\ left > 0

(* Fault: a level is skipped.                                              *)
FillLevelSkipping ==
  /\ Walking
  /\ LET take == Lesser(left, levels[at].quantity)
     IN  /\ left' = left - take /\ filled' = filled + take
         /\ value' = value + take * levels[at].price
  /\ at' = at + 2
  /\ UNCHANGED <<pc, order, levels>>

FillLevel ==
  /\ Walking
  /\ LET take == Lesser(left, levels[at].quantity)
     IN  /\ left'   = left - take
         /\ filled' = filled + take
         /\ value'  = value + take * levels[at].price
  /\ at' = at + 1
  /\ UNCHANGED <<pc, order, levels>>

(* Fault: any fill is reported as a full one.                              *)
FinishWalkFilled ==
  /\ pc = "walk" /\ ~Walking
  /\ Reply(IF filled = 0 THEN "REJECTED" ELSE "FILLED")
  /\ UNCHANGED <<levels, at, left, filled, value>>

FinishWalk ==
  /\ pc = "walk" /\ ~Walking
  /\ Reply(IF filled = 0 THEN "REJECTED"
           ELSE IF left = 0 THEN "FILLED" ELSE "PARTIALLY_FILLED")
  /\ UNCHANGED <<levels, at, left, filled, value>>

CancelOrder ==
  /\ pc = "replied" /\ order.status \in {"OPEN", "PARTIALLY_FILLED"}
  /\ order' = [order EXCEPT !.status = "CANCELLED"]
  /\ UNCHANGED <<pc, levels, at, left, filled, value>>

Next == \/ ProcessLimitOrder \/ UnsupportedOrder \/ NoMarketData \/ FetchDepth
        \/ FillLevel \/ FinishWalk \/ CancelOrder

Spec == Init /\ [][Next]_vars

---------------------------------------------------------------------------
(* Every variable has its type.                                            *)
TypeOK ==
  /\ pc \in {"submit", "walk", "replied"}
  /\ order \in [side : Sides, type : Types, quantity : Quantities, status : Status]
  /\ levels \in Seq(Level)
  /\ at \in Nat \ {0}
  /\ left \in Int /\ filled \in Nat /\ value \in Nat

(* A reply never claims more or less than the walk delivered: nothing is   *)
(* lost between filled and left, FILLED means the whole quantity, and      *)
(* PARTIALLY_FILLED means some of it with the book exhausted.              *)
FillAccounted ==
  /\ pc = "walk" \/ filled > 0 => filled + left = order.quantity
  /\ filled > 0 => left >= 0
  /\ order.status = "FILLED" => filled = order.quantity /\ filled > 0
  /\ order.status = "PARTIALLY_FILLED" =>
       filled \in 1..(order.quantity - 1) /\ at > Len(levels)

(* The average price lies between the prices of the book: no fill is       *)
(* priced outside the levels it was taken from.                            *)
BookPrices == {levels[k].price : k \in DOMAIN levels}
PriceWithinBook ==
  \A bound \in BookPrices :
    /\ (\A k \in DOMAIN levels : bound <= levels[k].price) => bound * filled <= value
    /\ (\A k \in DOMAIN levels : levels[k].price <= bound) => value <= bound * filled

(* Greedy is best execution: with the best level first, no other way to    *)
(* take the filled quantity from the book costs a buyer less or pays a     *)
(* seller more.                                                            *)
Allocations == [DOMAIN levels -> 0..filled]
Total(f) == FoldFunction(LAMBDA a, b : a + b, 0, f)
NoBetterFill ==
  pc = "replied" =>
    \A take \in Allocations :
      (/\ \A k \in DOMAIN levels : take[k] <= levels[k].quantity
       /\ Total(take) = filled)
      => LET cost == Total([k \in DOMAIN levels |-> take[k] * levels[k].price])
         IN  IF order.side = "BUY" THEN value <= cost ELSE value >= cost

(* The loop computes what the fold WalkBook says, the definition the order *)
(* flow is built on.                                                       *)
WalkIsFold ==
  pc = "replied" /\ levels # <<>> =>
    [qty |-> filled, value |-> value] = WalkBook(levels, order.quantity)

=============================================================================
