------------------------ MODULE MatchingEngineProofs ------------------------
(***************************************************************************)
(* The matching engine's loop, for books of any depth, any prices and any  *)
(* order quantity.                                                         *)
(***************************************************************************)
EXTENDS MatchingEngine, TradeMathProofs

(* Every variable keeps its type: what is filled and what it costs are     *)
(* natural numbers whatever the quantity asked for.                        *)
THEOREM TypeCorrect == Spec => []TypeOK
<1>1. Init => TypeOK
  BY QuantityAssumption DEF Init, TypeOK, Sides, Types, Status
<1>2. ASSUME TypeOK, [Next]_vars PROVE TypeOK'
  <2>0. order.quantity \in Int
    BY <1>2, QuantityAssumption DEF TypeOK
  <2>1. CASE ProcessLimitOrder
    BY <1>2, <2>1 DEF TypeOK, ProcessLimitOrder, Reply, Status
  <2>2. CASE UnsupportedOrder
    BY <1>2, <2>2 DEF TypeOK, UnsupportedOrder
  <2>3. CASE NoMarketData
    BY <1>2, <2>3 DEF TypeOK, NoMarketData, Reply, Status
  <2>4. CASE FetchDepth
    BY <1>2, <2>0, <2>4, BookAssumption DEF TypeOK, FetchDepth
  <2>5. CASE FillLevel
    <3>1. levels[at] \in Level
      BY <1>2, <2>5 DEF TypeOK, FillLevel, Walking
    <3>2. levels[at].price \in Nat /\ levels[at].quantity \in Nat
      BY <3>1 DEF Level
    <3> DEFINE take == Lesser(left, levels[at].quantity)
    <3>3. take \in Nat
      BY <1>2, <2>5, <3>2 DEF TypeOK, FillLevel, Walking, Lesser
    <3>4. take * levels[at].price \in Nat
      BY <3>2, <3>3
    <3>5. left' = left - take /\ filled' = filled + take
          /\ value' = value + take * levels[at].price
      BY <2>5 DEF FillLevel
    <3>6. left' \in Int /\ filled' \in Nat /\ value' \in Nat
      <4> HIDE DEF take
      <4> QED BY <1>2, <3>3, <3>4, <3>5 DEF TypeOK
    <3>7. at' \in Nat \ {0} /\ UNCHANGED <<pc, order, levels>>
      BY <1>2, <2>5 DEF TypeOK, FillLevel
    <3> QED BY <1>2, <3>6, <3>7 DEF TypeOK
  <2>6. CASE FinishWalk
    BY <1>2, <2>6 DEF TypeOK, FinishWalk, Reply, Status
  <2>7. CASE CancelOrder
    BY <1>2, <2>7 DEF TypeOK, CancelOrder, Status
  <2>8. CASE UNCHANGED vars
    BY <1>2, <2>8 DEF TypeOK, vars
  <2> QED BY <1>2, <2>1, <2>2, <2>3, <2>4, <2>5, <2>6, <2>7, <2>8 DEF Next
<1>3. QED
  BY <1>1, <1>2, PTL DEF Spec

---------------------------------------------------------------------------
(* The inductive invariant.  FillAccounted needs what the loop knows of    *)
(* itself: before it nothing is filled, and within it an order already     *)
(* replied to is not yet marked filled.                                    *)
Before == pc = "submit" => filled = 0 /\ value = 0 /\ left = 0 /\ levels = <<>>
Pending == pc \in {"submit", "walk"} => order.status = "OPEN"
AccountedInv == TypeOK /\ Before /\ Pending /\ FillAccounted

(* The loop's bookkeeping holds in every state of the engine. *)
LEMMA AccountedAlways == Spec => []AccountedInv
<1>1. Init => AccountedInv
  <2> SUFFICES ASSUME Init PROVE AccountedInv
    OBVIOUS
  <2>1. TypeOK
    BY QuantityAssumption DEF Init, TypeOK, Sides, Types, Status
  <2> QED BY <2>1 DEF Init, AccountedInv, Before, Pending, FillAccounted
<1>2. ASSUME AccountedInv, TypeOK', [Next]_vars PROVE AccountedInv'
  <2> USE <1>2 DEF AccountedInv
  <2>0. order.quantity \in Int
    BY QuantityAssumption DEF TypeOK
  <2>1. CASE ProcessLimitOrder
    BY <2>0, <2>1 DEF TypeOK, ProcessLimitOrder, Reply, Before, Pending, FillAccounted
  <2>2. CASE UnsupportedOrder
    BY <2>0, <2>2 DEF TypeOK, UnsupportedOrder, Before, Pending, FillAccounted
  <2>3. CASE NoMarketData
    BY <2>0, <2>3 DEF TypeOK, NoMarketData, Reply, Before, Pending, FillAccounted
  <2>4. CASE FetchDepth
    BY <2>0, <2>4 DEF TypeOK, FetchDepth, Before, Pending, FillAccounted
  <2>5. CASE FillLevel
    <3>1. levels[at] \in Level
      BY <2>5 DEF TypeOK, FillLevel, Walking
    <3>2. levels[at].quantity \in Nat
      BY <3>1 DEF Level
    <3> DEFINE take == Lesser(left, levels[at].quantity)
    <3>3. take \in Nat /\ take <= left
      BY <2>5, <3>2 DEF TypeOK, FillLevel, Walking, Lesser
    <3>4. /\ left' = left - take /\ filled' = filled + take
          /\ order' = order /\ pc' = pc /\ pc = "walk"
      BY <2>5 DEF FillLevel, Walking
    <3>5. filled + left = order.quantity /\ order.status = "OPEN"
      BY <3>4 DEF Pending, FillAccounted
    <3>6. left \in Int /\ filled \in Int
      BY DEF TypeOK
    <3> HIDE DEF take
    <3>7. filled' + left' = order'.quantity /\ left' >= 0
      BY <2>0, <3>3, <3>4, <3>5, <3>6
    <3>8. order'.status = "OPEN" /\ pc' = "walk"
      BY <3>4, <3>5
    <3> QED BY <3>7, <3>8 DEF Before, Pending, FillAccounted
  <2>6. CASE FinishWalk
    BY <2>0, <2>6 DEF TypeOK, FinishWalk, Walking, Reply, Before, Pending, FillAccounted
  <2>7. CASE CancelOrder
    BY <2>0, <2>7 DEF TypeOK, CancelOrder, Before, Pending, FillAccounted
  <2>8. CASE UNCHANGED vars
    BY <2>8 DEF TypeOK, vars, Before, Pending, FillAccounted
  <2> QED BY <2>1, <2>2, <2>3, <2>4, <2>5, <2>6, <2>7, <2>8 DEF Next
<1>3. QED
  BY <1>1, <1>2, TypeCorrect, PTL DEF Spec

(* Whatever is reported filled was taken from the book: FILLED is the      *)
(* whole quantity and PARTIALLY_FILLED an exhausted book.                  *)
THEOREM FillsAccounted == Spec => []FillAccounted
<1>1. AccountedInv => FillAccounted
  BY DEF AccountedInv
<1>2. QED
  BY <1>1, AccountedAlways, PTL

---------------------------------------------------------------------------
(* PriceWithinBook for every natural bound, not only for prices of the     *)
(* book; with the type of the state it is inductive.                       *)
Lows  == {b \in Nat : \A k \in DOMAIN levels : b <= levels[k].price}
Highs == {b \in Nat : \A k \in DOMAIN levels : levels[k].price <= b}
PriceInv == /\ \A b \in Lows  : b * filled <= value
            /\ \A b \in Highs : value <= b * filled

(* One more level keeps the running value between its bounds. *)
LEMMA OneMoreLevel ==
  ASSUME NEW b \in Nat, NEW price \in Nat, NEW take \in Nat,
         NEW done \in Nat, NEW cost \in Nat
  PROVE  /\ b <= price /\ b * done <= cost => b * (done + take) <= cost + take * price
         /\ price <= b /\ cost <= b * done => cost + take * price <= b * (done + take)
<1>1. b * (done + take) = b * done + b * take
  OBVIOUS
<1>2. b <= price => b * take <= price * take
  BY TimesOrder
<1>3. price <= b => price * take <= b * take
  BY TimesOrder
<1>4. take * price = price * take
  OBVIOUS
<1>5. b * done \in Int /\ b * take \in Int /\ price * take \in Int
  OBVIOUS
<1> QED BY <1>1, <1>2, <1>3, <1>4, <1>5

(* The average price of a fill lies between the lowest and the highest     *)
(* price of the book it was taken from.                                    *)
THEOREM PricesWithinBook == Spec => []PriceWithinBook
<1>1. Init => PriceInv
  BY DEF Init, PriceInv, Lows, Highs
<1>2. ASSUME TypeOK, AccountedInv, PriceInv, [Next]_vars PROVE PriceInv'
  <2>1. CASE FillLevel
    <3>1. levels' = levels /\ at \in DOMAIN levels
      BY <1>2, <2>1 DEF FillLevel, Walking, TypeOK
    <3>2. levels[at] \in Level
      BY <1>2, <3>1 DEF TypeOK
    <3>3. levels[at].price \in Nat /\ levels[at].quantity \in Nat
      BY <3>2 DEF Level
    <3> DEFINE take  == Lesser(left, levels[at].quantity)
               price == levels[at].price
    <3>4. take \in Nat
      BY <1>2, <2>1, <3>3 DEF FillLevel, Walking, TypeOK, Lesser
    <3>5. filled' = filled + take /\ value' = value + take * price
      BY <2>1 DEF FillLevel
    <3>6. filled \in Nat /\ value \in Nat /\ price \in Nat
      BY <1>2, <3>3 DEF TypeOK
    <3>7. Lows' = Lows /\ Highs' = Highs
      BY <3>1 DEF Lows, Highs
    <3>8. /\ \A b \in Lows : b \in Nat /\ b <= price
          /\ \A b \in Highs : b \in Nat /\ price <= b
      BY <3>1 DEF Lows, Highs
    <3> HIDE DEF take, price
    <3>9. ASSUME NEW b \in Lows PROVE b * filled' <= value'
      BY <1>2, <3>4, <3>5, <3>6, <3>8, OneMoreLevel DEF PriceInv
    <3>10. ASSUME NEW b \in Highs PROVE value' <= b * filled'
      BY <1>2, <3>4, <3>5, <3>6, <3>8, OneMoreLevel DEF PriceInv
    <3> QED BY <3>7, <3>9, <3>10 DEF PriceInv
  <2>2. CASE FetchDepth
    <3>1. filled' = 0 /\ value' = 0
      BY <1>2, <2>2 DEF FetchDepth, AccountedInv, Before
    <3>2. \A b \in Lows' \union Highs' : b \in Nat
      BY DEF Lows, Highs
    <3> QED BY <3>1, <3>2 DEF PriceInv
  <2>3. CASE ProcessLimitOrder \/ UnsupportedOrder \/ NoMarketData \/ FinishWalk
               \/ CancelOrder \/ UNCHANGED vars
    <3>1. UNCHANGED <<levels, filled, value>>
      BY <2>3 DEF ProcessLimitOrder, UnsupportedOrder, NoMarketData, FinishWalk,
                  CancelOrder, vars
    <3>2. Lows' = Lows /\ Highs' = Highs
      BY <3>1 DEF Lows, Highs
    <3> QED BY <1>2, <3>1, <3>2 DEF PriceInv
  <2> QED BY <1>2, <2>1, <2>2, <2>3 DEF Next
<1>3. TypeOK /\ PriceInv => PriceWithinBook
  <2> SUFFICES ASSUME TypeOK, PriceInv, NEW bound \in BookPrices
               PROVE  /\ (\A k \in DOMAIN levels : bound <= levels[k].price)
                            => bound * filled <= value
                      /\ (\A k \in DOMAIN levels : levels[k].price <= bound)
                            => value <= bound * filled
    BY DEF PriceWithinBook
  <2>1. PICK k \in DOMAIN levels : bound = levels[k].price
    BY DEF BookPrices
  <2>2. levels[k] \in Level
    BY <2>1 DEF TypeOK
  <2>3. bound \in Nat
    BY <2>1, <2>2 DEF Level
  <2>4. /\ (\A j \in DOMAIN levels : bound <= levels[j].price) => bound \in Lows
        /\ (\A j \in DOMAIN levels : levels[j].price <= bound) => bound \in Highs
    BY <2>3 DEF Lows, Highs
  <2> QED BY <2>4 DEF PriceInv
<1>4. QED
  BY <1>1, <1>2, <1>3, AccountedAlways, TypeCorrect, PTL DEF Spec

---------------------------------------------------------------------------
(* What the loop has done is the walk of the levels it has seen, and its   *)
(* reply is the walk of the whole book: once nothing is left the levels it *)
(* does not look at would have changed nothing.                            *)
WalkedSoFar ==
  /\ pc = "submit" => at = 1
  /\ pc = "walk" => /\ at - 1 <= Len(levels)
                    /\ Walk(levels, order.quantity)[at - 1] = [left |-> left, value |-> value]
  /\ pc = "replied" => [qty |-> filled, value |-> value] = WalkBook(levels, order.quantity)

(* One turn of the loop is one level of the walk. *)
LEMMA LoopTakesLevel ==
  ASSUME TypeOK, WalkedSoFar, FillLevel
  PROVE  WalkedSoFar'
<1>1. /\ levels \in Seq(BookLevel) /\ order.quantity \in Int
      /\ pc = "walk" /\ at \in Nat \ {0} /\ at <= Len(levels) /\ left > 0
      /\ Walk(levels, order.quantity)[at - 1] = [left |-> left, value |-> value]
  BY QuantityAssumption DEF TypeOK, WalkedSoFar, FillLevel, Walking, Level, BookLevel
<1>2. PICK w : w = Walk(levels, order.quantity)
  OBVIOUS
<1>3. IsWalk(w, levels, order.quantity)
  BY <1>1, <1>2, WalkBookEnds
<1>4. w[at] = TakeLevel([left |-> left, value |-> value], levels[at])
  <2>1. at \in 1..Len(levels)
    BY <1>1
  <2> QED BY <1>1, <1>2, <1>3, <2>1 DEF IsWalk
<1>5. PICK take : take = Lesser(left, levels[at].quantity)
  OBVIOUS
<1>6. w[at] = [left |-> left - take, value |-> value + take * levels[at].price]
  <2>1. left \in Int /\ ~ (left <= 0)
    BY <1>1 DEF TypeOK
  <2> QED BY <1>4, <1>5, <2>1 DEF TakeLevel
<1>7. /\ left' = left - take /\ value' = value + take * levels[at].price
      /\ at' = at + 1 /\ UNCHANGED <<pc, order, levels>>
  BY <1>5 DEF FillLevel
<1>8. at' - 1 = at
  BY <1>1, <1>7
<1> QED BY <1>1, <1>2, <1>6, <1>7, <1>8 DEF WalkedSoFar

(* When the loop ends, no level is left that would have changed the walk.  *)
LEMMA LoopEndsWalk ==
  ASSUME TypeOK, AccountedInv, WalkedSoFar, FinishWalk
  PROVE  WalkedSoFar'
<1>1. /\ levels \in Seq(BookLevel) /\ order.quantity \in Int
      /\ pc = "walk" /\ at \in Nat \ {0} /\ at - 1 <= Len(levels)
      /\ left \in Int /\ filled \in Int
      /\ Walk(levels, order.quantity)[at - 1] = [left |-> left, value |-> value]
      /\ at > Len(levels) \/ left <= 0
  <2>1. /\ levels \in Seq(BookLevel) /\ Len(levels) \in Nat /\ order.quantity \in Int
        /\ at \in Nat \ {0} /\ left \in Int /\ filled \in Int
    <3>1. order.quantity \in Int
      BY QuantityAssumption DEF TypeOK
    <3>2. levels \in Seq(BookLevel)
      BY DEF TypeOK, Level, BookLevel
    <3>3. Len(levels) \in Nat
      BY <3>2
    <3> QED BY <3>1, <3>2, <3>3 DEF TypeOK
  <2>2. pc = "walk" /\ ~ (at <= Len(levels) /\ left > 0)
    BY DEF FinishWalk, Walking
  <2>3. /\ at - 1 <= Len(levels)
        /\ Walk(levels, order.quantity)[at - 1] = [left |-> left, value |-> value]
    BY <2>2 DEF WalkedSoFar
  <2> QED BY <2>1, <2>2, <2>3
<1>2. PICK w : w = Walk(levels, order.quantity)
  OBVIOUS
<1>3. PICK n \in Nat : n = Len(levels)
  BY <1>1
<1>4. /\ IsWalk(w, levels, order.quantity)
      /\ WalkBook(levels, order.quantity) =
           [qty |-> order.quantity - w[n].left, value |-> w[n].value]
  BY <1>1, <1>2, <1>3, WalkBookEnds
<1>5. w[n] = [left |-> left, value |-> value]
  <2>1. CASE at > n
    <3>1. at - 1 = n
      BY <1>1, <1>3, <2>1
    <3> QED BY <1>1, <1>2, <3>1
  <2>2. CASE left <= 0
    <3>1. at - 1 \in 0..Len(levels) /\ w[at - 1].left <= 0
      BY <1>1, <1>2, <2>2
    <3>2. w[n] = w[at - 1]
      BY <1>1, <1>3, <1>4, <3>1, WalkIdles
    <3> QED BY <1>1, <1>2, <3>2
  <2> QED BY <1>1, <1>3, <2>1, <2>2
<1>6. filled + left = order.quantity
  BY <1>1 DEF AccountedInv, FillAccounted
<1>7. WalkBook(levels, order.quantity) = [qty |-> filled, value |-> value]
  <2>1. order.quantity - left = filled
    BY <1>1, <1>6
  <2> QED BY <1>4, <1>5, <2>1
<1>8. /\ pc' = "replied" /\ UNCHANGED <<levels, filled, value>>
      /\ order'.quantity = order.quantity
  BY DEF FinishWalk, Reply, TypeOK
<1> QED BY <1>7, <1>8 DEF WalkedSoFar

(* The walk of no levels fills nothing. *)
LEMMA EmptyBookFillsNothing ==
  ASSUME NEW quantity \in Int
  PROVE  WalkBook(<<>>, quantity) = [qty |-> 0, value |-> 0]
<1>1. PICK none : none = <<>>
  OBVIOUS
<1>4. none \in Seq(BookLevel) /\ Len(none) = 0
  BY <1>1
<1>2. PICK w : /\ IsWalk(w, none, quantity)
               /\ WalkBook(none, quantity) = [qty |-> quantity - w[0].left, value |-> w[0].value]
  BY <1>4, WalkBookEnds
<1>3. w[0] = [left |-> quantity, value |-> 0]
  BY <1>2 DEF IsWalk
<1> QED BY <1>1, <1>2, <1>3

(* The loop follows the walk in every state of the engine. *)
LEMMA WalkedAlways == Spec => []WalkedSoFar
<1>1. Init => WalkedSoFar
  BY DEF Init, WalkedSoFar
<1>2. ASSUME TypeOK, AccountedInv, WalkedSoFar, [Next]_vars PROVE WalkedSoFar'
  <2>0. order.quantity \in Int
    BY <1>2, QuantityAssumption DEF TypeOK
  <2>1. CASE ProcessLimitOrder \/ UnsupportedOrder \/ NoMarketData
    <3>1. /\ pc' = "replied" /\ UNCHANGED <<levels, filled, value>>
          /\ order'.quantity = order.quantity
          /\ levels = <<>> /\ filled = 0 /\ value = 0
      BY <1>2, <2>1 DEF ProcessLimitOrder, UnsupportedOrder, NoMarketData, Reply, TypeOK,
                        AccountedInv, Before
    <3>2. WalkBook(<<>>, order.quantity) = [qty |-> 0, value |-> 0]
      BY <2>0, EmptyBookFillsNothing
    <3> QED BY <3>1, <3>2 DEF WalkedSoFar
  <2>2. CASE FetchDepth
    <3>1. /\ pc' = "walk" /\ at' = 1 /\ left' = order.quantity /\ value' = 0
          /\ order' = order
      BY <1>2, <2>2 DEF FetchDepth, WalkedSoFar, AccountedInv, Before
    <3>2. levels' \in Seq(BookLevel) /\ Len(levels') \in Nat
      BY <2>2, BookAssumption DEF FetchDepth, Level, BookLevel
    <3>3. PICK book : book = levels'
      OBVIOUS
    <3>4. IsWalk(Walk(book, order.quantity), book, order.quantity)
      BY <2>0, <3>2, <3>3, WalkBookEnds
    <3>5. Walk(book, order.quantity)[0] = [left |-> order.quantity, value |-> 0]
      BY <3>4 DEF IsWalk
    <3> QED BY <3>1, <3>2, <3>3, <3>5 DEF WalkedSoFar
  <2>3. CASE FillLevel
    BY <1>2, <2>3, LoopTakesLevel
  <2>4. CASE FinishWalk
    BY <1>2, <2>4, LoopEndsWalk
  <2>5. CASE CancelOrder
    <3>1. /\ pc = "replied" /\ UNCHANGED <<pc, levels, at, left, filled, value>>
          /\ order'.quantity = order.quantity
      BY <1>2, <2>5 DEF CancelOrder, TypeOK
    <3> QED BY <1>2, <3>1 DEF WalkedSoFar
  <2>6. CASE UNCHANGED vars
    BY <1>2, <2>6 DEF vars, WalkedSoFar
  <2> QED BY <1>2, <2>1, <2>2, <2>3, <2>4, <2>5, <2>6 DEF Next
<1>3. QED
  BY <1>1, <1>2, AccountedAlways, TypeCorrect, PTL DEF Spec

(* Whatever the book and the quantity, the loop's reply is the fold that   *)
(* the order flow is built on.                                             *)
THEOREM LoopIsFold == Spec => []WalkIsFold
<1>1. WalkedSoFar => WalkIsFold
  BY DEF WalkedSoFar, WalkIsFold
<1>2. QED
  BY <1>1, WalkedAlways, PTL

---------------------------------------------------------------------------
(* The levels are those of a side of a quote, the one the order takes.     *)
FromQuote == \/ levels = <<>>
             \/ levels \in (IF order.side = "BUY" THEN Asks ELSE Bids)

(* Quotes carry the best level first: the cheapest ask, the dearest bid.   *)
BestFirst ==
  /\ \A book \in Asks : \A k \in 1..(Len(book) - 1) : book[k].price <= book[k + 1].price
  /\ \A book \in Bids : \A k \in 1..(Len(book) - 1) : book[k].price >= book[k + 1].price

(* A reply is the best there is to have from its book. *)
LEMMA ReplyIsBest ==
  ASSUME BestFirst, TypeOK, WalkedSoFar, FromQuote
  PROVE  NoBetterFill
<1> SUFFICES ASSUME pc = "replied", NEW take \in Allocations,
                    \A k \in DOMAIN levels : take[k] <= levels[k].quantity,
                    Total(take) = filled
             PROVE  LET cost == Total([k \in DOMAIN levels |-> take[k] * levels[k].price])
                    IN  IF order.side = "BUY" THEN value <= cost ELSE value >= cost
  BY DEF NoBetterFill
<1>1. /\ levels \in Seq(BookLevel) /\ order.quantity \in Int
      /\ filled \in Nat /\ order.side \in {"BUY", "SELL"}
  BY QuantityAssumption DEF TypeOK, Level, BookLevel, Sides
<1>2. DOMAIN levels = 1..Len(levels)
  BY <1>1
<1>3. take \in [1..Len(levels) -> Nat]
  <2>1. take \in [1..Len(levels) -> 0..filled]
    BY <1>2 DEF Allocations
  <2>2. \A k \in 1..Len(levels) : take[k] \in Nat
    BY <1>1, <2>1
  <2> QED BY <2>1, <2>2
<1>4. WalkBook(levels, order.quantity).qty = filled
      /\ WalkBook(levels, order.quantity).value = value
  BY DEF WalkedSoFar
<1>5. PICK cost : cost = Totals([k \in 1..Len(levels) |-> take[k] * levels[k].price])
  OBVIOUS
<1>6. cost = Total([k \in DOMAIN levels |-> take[k] * levels[k].price])
  BY <1>2, <1>5, Zenon DEF Total, Totals
<1>7. Totals(take) = WalkBook(levels, order.quantity).qty
  BY <1>4, Zenon DEF Total, Totals
<1>8. \A k \in 1..Len(levels) : take[k] <= levels[k].quantity
  BY <1>2
<1>9. /\ (\A k \in 1..(Len(levels) - 1) : levels[k].price <= levels[k + 1].price)
            => value <= cost
      /\ (\A k \in 1..(Len(levels) - 1) : levels[k].price >= levels[k + 1].price)
            => value >= cost
  BY <1>1, <1>3, <1>4, <1>5, <1>7, <1>8, WalkIsBest
<1>10. CASE levels = <<>>
  <2>1. 1..(Len(levels) - 1) = {}
    BY <1>10
  <2> QED BY <1>6, <1>9, <2>1
<1>11. CASE levels \in (IF order.side = "BUY" THEN Asks ELSE Bids)
  BY <1>1, <1>6, <1>9, <1>11 DEF BestFirst
<1> QED BY <1>10, <1>11 DEF FromQuote

(* From books with the best level first, the loop buys as cheaply and      *)
(* sells as dearly as the quantity it fills can be.                        *)
THEOREM FillsAreBest ==
  ASSUME BestFirst
  PROVE  Spec => []NoBetterFill
<1>1. Init => FromQuote
  BY DEF Init, FromQuote
<1>2. ASSUME TypeOK, FromQuote, [Next]_vars PROVE FromQuote'
  <2>1. CASE FetchDepth
    <3>1. order' = order /\ levels' \in (IF order.side = "BUY" THEN Asks ELSE Bids)
      BY <2>1 DEF FetchDepth
    <3> QED BY <3>1 DEF FromQuote
  <2>2. CASE ~FetchDepth
    <3>1. levels' = levels /\ order'.side = order.side
      BY <1>2, <2>2 DEF Next, vars, TypeOK, Reply, ProcessLimitOrder, UnsupportedOrder,
                        NoMarketData, FillLevel, FinishWalk, CancelOrder
    <3> QED BY <1>2, <3>1 DEF FromQuote
  <2> QED BY <2>1, <2>2
<1>3. TypeOK /\ WalkedSoFar /\ FromQuote => NoBetterFill
  BY ReplyIsBest
<1>4. QED
  BY <1>1, <1>2, <1>3, TypeCorrect, WalkedAlways, PTL DEF Spec
=============================================================================
