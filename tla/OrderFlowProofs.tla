-------------------------- MODULE OrderFlowProofs --------------------------
(***************************************************************************)
(* What holds of orders, positions and accounts for any contracts, quotes, *)
(* quantities, rules and capital, and for any number of orders.            *)
(***************************************************************************)
EXTENDS OrderFlow, TradeMathProofs

(* A quotient of a positive price sum and a quantity, and the rest of the  *)
(* position arithmetic, are integers: no fill divides by zero.             *)
LEMMA PositionTyped ==
  ASSUME NEW old \in Position, NEW side \in Sides, NEW fill \in Fill
  PROVE  /\ PositionAfter(old, side, fill) \in Position
         /\ RealizedNumerator(old, side, fill) \in Int
         /\ SignedQuantity(side, fill.qty) \in Int
         /\ PositionAfter(old, side, fill).net = old.net + SignedQuantity(side, fill.qty)
BY PositionFigured DEF Position, Fill, PositionFigures, FillFigures

(* The account's amounts before rounding are integers over the quantity.   *)
LEMMA ValuationTyped ==
  ASSUME NEW x \in Account, NEW delta \in Int, NEW qty \in Nat \ {0}, NEW floating \in Int
  PROVE  LET v == Valuation(x, delta, qty, floating)
         IN  /\ v.realized = x.realized * qty + delta
             /\ v.equity = (x.balance + floating) * qty + v.realized
             /\ v.daily = (-x.balance) * qty + v.equity
             /\ v.hwm = Greater(x.hwm * qty, v.equity)
             /\ v.drawdown = v.hwm - v.equity
             /\ v.realized \in Int /\ v.equity \in Int /\ v.daily \in Int
             /\ v.hwm \in Int /\ v.drawdown \in Nat
             /\ v.hwm >= v.equity /\ v.hwm >= x.hwm * qty
<1>1. x \in AccountFigures({"ABSENT", "ACTIVE", "PASSED", "FAILED", "CLOSED"},
                          {"EVALUATION", "FUNDED"}, Accounts \union {NoSource})
  BY DEF Account, AccountFigures
<1> QED BY <1>1, ValuationFigured

(* The row a commit writes is an account's, and only its figures and its   *)
(* status differ from the row it replaces.                                 *)
LEMMA AccountTyped ==
  ASSUME NEW x \in Account, NEW delta \in Int, NEW qty \in Nat \ {0}, NEW floating \in Int
  PROVE  LET v == Valuation(x, delta, qty, floating)
             y == AccountAfter(x, delta, qty, floating, Rules, TradingDays)
         IN  /\ y \in Account
             /\ y.type = x.type /\ y.source = x.source /\ y.balance = x.balance
             /\ y.realized = RoundDiv(v.realized, qty) /\ y.floating = floating
             /\ y.equity = RoundDiv(v.equity, qty) /\ y.daily = RoundDiv(v.daily, qty)
             /\ y.hwm = RoundDiv(v.hwm, qty) /\ y.drawdown = RoundDiv(v.drawdown, qty)
             /\ y.drawdownPercent = IF v.hwm > 0 THEN RoundDiv(v.drawdown * 10000, v.hwm) ELSE 0
             /\ y.status = Verdict(x, v, qty, floating, Rules, TradingDays)
             /\ y.status \in {x.status, "PASSED", "FAILED"}
<1> DEFINE statuses == {"ABSENT", "ACTIVE", "PASSED", "FAILED", "CLOSED"}
<1>1. Account = AccountFigures(statuses, {"EVALUATION", "FUNDED"}, Accounts \union {NoSource})
  BY DEF Account, AccountFigures
<1>2. {"PASSED", "FAILED"} \subseteq statuses
  OBVIOUS
<1> HIDE DEF statuses
<1> QED BY <1>1, <1>2, AccountFigured

---------------------------------------------------------------------------
(* A fill hands over a well-typed request of an active evaluation, whose   *)
(* new position is the old one moved by the traded quantity.               *)
LEMMA FillHandsOver ==
  ASSUME TypeOK, NEW a \in Accounts, NEW i \in Instruments, NEW side \in Sides,
         NEW qty \in Quantities, FillOrder(a, i, side, qty)
  PROVE  /\ request' \in Request
         /\ request'.account = a /\ request'.instrument = i
         /\ request'.position.net = positions[a, i].net + request'.traded
         /\ accounts[a].status = "ACTIVE" /\ accounts[a].type = "EVALUATION"
         /\ UNCHANGED <<accounts, positions, trades, ledger, lastOrder>>
<1>1. PICK quote \in Quotes :
        LET fill == Match(quote, side, qty)
            old  == positions[a, i]
            new  == PositionAfter(old, side, fill)
        IN  /\ fill.qty # 0
            /\ request' =
                 [account |-> a, instrument |-> i,
                  order |-> [account |-> a, type |-> "MARKET", quantity |-> qty,
                             filled |-> fill.qty,
                             status |-> IF fill.qty = qty THEN "FILLED"
                                                          ELSE "PARTIALLY_FILLED"],
                  position |-> new,
                  traded   |-> SignedQuantity(side, fill.qty),
                  qty      |-> fill.qty,
                  delta    |-> RealizedNumerator(old, side, fill),
                  toMark   |-> OpenAfter(a, i, new),
                  floating |-> 0]
  BY DEF FillOrder
<1> DEFINE fill == Match(quote, side, qty)
           old  == positions[a, i]
           new  == PositionAfter(old, side, fill)
<1>2. fill \in Fill
  <2>1. fill = WalkBook(IF side = "BUY" THEN quote.asks ELSE quote.bids, qty)
    BY QuoteAssumption DEF Match
  <2>2. PICK levels \in Seq(PricedLevel) : fill = WalkBook(levels, qty)
    <3>1. quote.asks \in Seq(PricedLevel) /\ quote.bids \in Seq(PricedLevel)
      BY QuoteAssumption DEF Level, PricedLevel
    <3> HIDE DEF fill
    <3> QED BY <2>1, <3>1
  <2>3. qty \in Int
    BY BoundAssumption
  <2> HIDE DEF fill
  <2>4. fill.qty = 0 \/ fill \in [qty : Nat \ {0}, value : Nat \ {0}]
    BY <2>2, <2>3, WalkFills
  <2>5. fill.qty # 0
    BY <1>1 DEF fill
  <2> QED BY <2>4, <2>5 DEF Fill
<1>3. old \in Position
  BY DEF TypeOK, Keys
<1>4. /\ new \in Position /\ RealizedNumerator(old, side, fill) \in Int
      /\ SignedQuantity(side, fill.qty) \in Int
      /\ new.net = old.net + SignedQuantity(side, fill.qty)
  BY <1>2, <1>3, PositionTyped
<1>5. OpenAfter(a, i, new) \in SUBSET Instruments
  BY DEF OpenAfter
<1>6. fill.qty \in Nat \ {0} /\ qty \in Int
  BY <1>2, BoundAssumption DEF Fill
<1>7. accounts[a].status = "ACTIVE" /\ accounts[a].type = "EVALUATION"
      /\ UNCHANGED <<accounts, positions, trades, ledger, lastOrder>>
  BY DEF FillOrder, Passes, PreTradeAllowed
<1> HIDE DEF fill, new, old
<1>8. request' = [account |-> a, instrument |-> i,
                  order |-> [account |-> a, type |-> "MARKET", quantity |-> qty,
                             filled |-> fill.qty,
                             status |-> IF fill.qty = qty THEN "FILLED"
                                                          ELSE "PARTIALLY_FILLED"],
                  position |-> new,
                  traded   |-> SignedQuantity(side, fill.qty),
                  qty      |-> fill.qty,
                  delta    |-> RealizedNumerator(old, side, fill),
                  toMark   |-> OpenAfter(a, i, new),
                  floating |-> 0]
  BY <1>1 DEF fill, new, old
<1>9. request' \in Request
  BY <1>4, <1>5, <1>6, <1>8 DEF Request, Order
<1> QED BY <1>4, <1>7, <1>8, <1>9 DEF old

(* A commit replaces the account's row by the marked one, the position by  *)
(* the request's, and nothing of any other account.                        *)
LEMMA CommitWrites ==
  ASSUME TypeOK, CommitFill
  PROVE  LET a == request.account
             k == <<request.account, request.instrument>>
             y == AccountAfter(accounts[a], request.delta, request.qty, request.floating,
                               Rules, TradingDays)
         IN  /\ request \in Request /\ a \in Accounts /\ k \in Keys
             /\ request.delta \in Int /\ request.qty \in Nat \ {0} /\ request.floating \in Int
             /\ accounts[a] \in Account /\ y \in Account
             /\ accounts' = [accounts EXCEPT ![a] = y]
             /\ positions' = [positions EXCEPT ![k] = request.position]
             /\ trades' = [trades EXCEPT ![k] = @ + request.traded]
             /\ ledger' = [ledger EXCEPT ![a] = LedgerAfter(@)]
             /\ request' = NoRequest
<1>1. request \in Request
  BY DEF TypeOK, CommitFill
<1>2. /\ request.account \in Accounts /\ request.instrument \in Instruments
      /\ request.delta \in Int /\ request.qty \in Nat \ {0} /\ request.floating \in Int
  BY <1>1 DEF Request
<1>3. accounts[request.account] \in Account
  BY <1>2 DEF TypeOK
<1>4. AccountAfter(accounts[request.account], request.delta, request.qty, request.floating,
                   Rules, TradingDays) \in Account
  BY <1>2, <1>3, AccountTyped
<1> QED BY <1>1, <1>2, <1>3, <1>4 DEF CommitFill, Keys

(* A revaluation leaves the status alone or closes the account's phase.    *)
LEMMA VerdictStatus ==
  ASSUME NEW x \in Account, NEW delta \in Int, NEW qty \in Nat \ {0}, NEW floating \in Int
  PROVE  AccountAfter(x, delta, qty, floating, Rules, TradingDays).status
           \in {x.status, "PASSED", "FAILED"}
BY AccountTyped

(* The ledger of an account keeps its type through a commit.               *)
LEMMA LedgerTyped ==
  ASSUME NEW entry \in [sum : Int, entries : Nat], request \in Request
  PROVE  /\ LedgerAfter(entry) \in [sum : Int, entries : Nat]
         /\ request.delta = 0 => LedgerAfter(entry) = entry
         /\ request.delta # 0 =>
              /\ LedgerAfter(entry).sum = entry.sum + RoundDiv(request.delta, request.qty)
              /\ LedgerAfter(entry).entries = entry.entries + 1
<1>1. RoundDiv(request.delta, request.qty) \in Int
  <2>1. request.delta \in Int /\ request.qty \in Nat \ {0}
    BY DEF Request
  <2> QED BY <2>1, RoundNear
<1> QED BY <1>1 DEF LedgerAfter

(* A mark to market changes nothing of the request but what is left to     *)
(* mark and the floating P&L so far.                                       *)
LEMMA MarkKeeps ==
  ASSUME TypeOK, MarkPosition
  PROVE  /\ request \in Request /\ request' \in Request
         /\ request'.account = request.account /\ request'.instrument = request.instrument
         /\ request'.position = request.position /\ request'.traded = request.traded
         /\ UNCHANGED <<accounts, positions, trades, ledger>>
<1>1. request \in Request
  BY DEF TypeOK, MarkPosition
<1>2. PICK i \in request.toMark, quote \in Quotes \union {NoQuote} :
        LET position == IF i = request.instrument THEN request.position
                        ELSE positions[request.account, i]
            pnl == IF quote = NoQuote THEN 0 ELSE PositionPnl(position, quote.ltp)
        IN  request' = [request EXCEPT !.toMark = @ \ {i}, !.floating = @ + pnl]
  BY DEF MarkPosition
<1> DEFINE position == IF i = request.instrument THEN request.position
                       ELSE positions[request.account, i]
           pnl == IF quote = NoQuote THEN 0 ELSE PositionPnl(position, quote.ltp)
<1>3. /\ request.account \in Accounts /\ i \in Instruments
      /\ request.position \in Position /\ request.floating \in Int
  BY <1>1 DEF Request
<1>4. position \in Position
  BY <1>3 DEF TypeOK, Keys
<1>5. pnl \in Int
  <2>1. position.net \in Int /\ position.entry \in Int
    BY <1>4 DEF Position
  <2>2. quote # NoQuote => quote.ltp \in Int
    BY QuoteAssumption
  <2> HIDE DEF position
  <2>3. quote # NoQuote => (quote.ltp - position.entry) * position.net \in Int
    BY <2>1, <2>2
  <2> QED BY <2>3 DEF PositionPnl
<1> HIDE DEF pnl
<1>6. request' = [request EXCEPT !.toMark = @ \ {i}, !.floating = @ + pnl]
  BY <1>2 DEF pnl
<1>7. request.toMark \ {i} \in SUBSET Instruments /\ request.floating + pnl \in Int
  BY <1>1, <1>3, <1>5 DEF Request
<1>8. request' \in Request
  BY <1>1, <1>6, <1>7 DEF Request
<1>9. /\ request'.account = request.account /\ request'.instrument = request.instrument
      /\ request'.position = request.position /\ request'.traded = request.traded
  BY <1>1, <1>6 DEF Request
<1> QED BY <1>1, <1>8, <1>9 DEF MarkPosition

(* Every table keeps its type, whatever is ordered at whatever price.      *)
THEOREM TypesKept == Spec => []TypeOK
<1>1. Init => TypeOK
  <2>1. \A status \in {"ACTIVE", "ABSENT"} :
          NewAccount(status, "EVALUATION", NoSource, Capital) \in Account
    BY AccountAssumption DEF NewAccount, Account
  <2>2. FlatPosition \in Position
    BY DEF FlatPosition, Position
  <2>3. ASSUME Init PROVE lastOrder \in Order
    BY <2>3 DEF Init, Order
  <2>4. ASSUME Init PROVE TypeOK
    BY <2>1, <2>2, <2>3, <2>4 DEF Init, TypeOK
  <2> QED BY <2>4
<1>2. ASSUME TypeOK, [Next]_vars PROVE TypeOK'
  <2> USE <1>2
  <2>1. ASSUME NEW a \in Accounts, NEW i \in Instruments, NEW side \in Sides,
               NEW type \in Types, NEW qty \in Quantities, PlaceOrder(a, i, side, type, qty)
        PROVE  TypeOK'
    <3>1. qty \in Int /\ (Arrives(a) => placed' \in Nat)
      BY BoundAssumption DEF TypeOK, Arrives
    <3>2. ASSUME NEW t \in Types \union {"MARKET"}, NEW status \in {"OPEN", "REJECTED"},
                 Arrives(a), Reply(a, t, qty, status)
          PROVE  TypeOK'
      <4>1. lastOrder' \in Order
        BY <3>1, <3>2 DEF Reply, Order
      <4> QED BY <3>1, <3>2, <4>1 DEF TypeOK, Reply
    <3>3. CASE RejectOrder(a, i, side, type, qty)
      BY <3>2, <3>3 DEF RejectOrder
    <3>4. CASE RouteToBroker(a, i, side, type, qty)
      BY <3>2, <3>4 DEF RouteToBroker
    <3>5. CASE LeaveUnmatched(a, i, side, type, qty)
      BY <3>2, <3>5 DEF LeaveUnmatched
    <3>6. CASE FindNoLiquidity(a, i, side, qty)
      BY <3>2, <3>6 DEF FindNoLiquidity
    <3>7. CASE FillOrder(a, i, side, qty)
      <4>1. request' \in Request /\ UNCHANGED <<accounts, positions, trades, ledger, lastOrder>>
        BY <3>7, FillHandsOver
      <4>2. placed' \in Nat
        BY <3>1, <3>7 DEF FillOrder
      <4> QED BY <4>1, <4>2 DEF TypeOK
    <3> QED BY <2>1, <3>3, <3>4, <3>5, <3>6, <3>7 DEF PlaceOrder
  <2>2. CASE MarkPosition
    <3>1. request' \in Request /\ UNCHANGED <<accounts, positions, trades, ledger>>
      BY <2>2, MarkKeeps
    <3> QED BY <2>2, <3>1 DEF TypeOK, MarkPosition
  <2>3. CASE CommitFill
    <3>1. request \in Request
      BY <2>3, CommitWrites
    <3>2. /\ request.position \in Position /\ request.traded \in Int /\ request.order \in Order
      BY <3>1 DEF Request
    <3>3. accounts' \in [Accounts -> Account]
      BY <2>3, CommitWrites DEF TypeOK
    <3>4. positions' \in [Keys -> Position] /\ trades' \in [Keys -> Int]
      <4> DEFINE k == <<request.account, request.instrument>>
      <4>1. /\ k \in Keys
            /\ positions' = [positions EXCEPT ![k] = request.position]
            /\ trades' = [trades EXCEPT ![k] = @ + request.traded]
        BY <2>3, CommitWrites
      <4> HIDE DEF k
      <4>2. trades[k] + request.traded \in Int
        BY <3>2, <4>1 DEF TypeOK
      <4>3. positions \in [Keys -> Position] /\ trades \in [Keys -> Int]
        BY DEF TypeOK
      <4>4. positions' \in [Keys -> Position]
        BY <3>2, <4>1, <4>3
      <4>5. trades' \in [Keys -> Int]
        BY <4>1, <4>2, <4>3
      <4> QED BY <4>4, <4>5
    <3>5. ledger' \in [Accounts -> [sum : Int, entries : Nat]]
      <4>1. /\ request.account \in Accounts
            /\ ledger' = [ledger EXCEPT ![request.account] = LedgerAfter(@)]
        BY <2>3, CommitWrites
      <4>2. \A l \in [sum : Int, entries : Nat] : LedgerAfter(l) \in [sum : Int, entries : Nat]
        BY <3>1, LedgerTyped
      <4>3. ledger \in [Accounts -> [sum : Int, entries : Nat]]
        BY DEF TypeOK
      <4> QED BY <4>1, <4>2, <4>3
    <3>6. request' = NoRequest /\ lastOrder' \in Order /\ placed' \in Nat
      BY <2>3, <3>2 DEF TypeOK, CommitFill
    <3> QED BY <3>3, <3>4, <3>5, <3>6 DEF TypeOK
  <2>4. CASE RollBack
    BY <2>4 DEF TypeOK, RollBack
  <2>5. ASSUME NEW e \in Accounts, NEW f \in Accounts, Graduate(e, f) PROVE TypeOK'
    <3>1. NewAccount("ACTIVE", "FUNDED", e, FundedCapital) \in Account
      BY AccountAssumption DEF NewAccount, Account
    <3>2. [accounts[e] EXCEPT !.status = "CLOSED"] \in Account
      BY DEF TypeOK, Account
    <3> QED BY <2>5, <3>1, <3>2 DEF TypeOK, Graduate
  <2>6. CASE UNCHANGED vars
    BY <2>6 DEF TypeOK, vars
  <2> QED BY <2>1, <2>2, <2>3, <2>4, <2>5, <2>6 DEF Next
<1>3. QED
  BY <1>1, <1>2, PTL DEF Spec

---------------------------------------------------------------------------
(* The steps that matter to the tables: the answers that fill nothing      *)
(* leave every table and the request as they are.                          *)
LEMMA StepKinds ==
  ASSUME [Next]_vars
  PROVE  \/ UNCHANGED <<accounts, positions, trades, ledger, request>>
         \/ \E a \in Accounts, i \in Instruments, side \in Sides, qty \in Quantities :
              FillOrder(a, i, side, qty)
         \/ MarkPosition \/ CommitFill \/ RollBack
         \/ \E e, f \in Accounts : Graduate(e, f)
<1>1. ASSUME NEW a \in Accounts, NEW i \in Instruments, NEW side \in Sides,
             NEW type \in Types, NEW qty \in Quantities, PlaceOrder(a, i, side, type, qty)
      PROVE  \/ UNCHANGED <<accounts, positions, trades, ledger, request>>
             \/ FillOrder(a, i, side, qty)
  BY <1>1 DEF PlaceOrder, RejectOrder, RouteToBroker, LeaveUnmatched, FindNoLiquidity, Reply
<1>2. CASE \E a \in Accounts, i \in Instruments, side \in Sides, type \in Types,
              qty \in Quantities : PlaceOrder(a, i, side, type, qty)
  BY <1>1, <1>2
<1>3. CASE UNCHANGED vars
  BY <1>3 DEF vars
<1> QED BY <1>2, <1>3 DEF Next

---------------------------------------------------------------------------
(* What the request in progress knows: it serves an active evaluation, its *)
(* position is the stored one moved by what it traded, and accounts that   *)
(* do not exist yet have no ledger.                                        *)
RequestActive ==
  request # NoRequest => /\ accounts[request.account].status = "ACTIVE"
                         /\ accounts[request.account].type = "EVALUATION"

RequestMoves ==
  request # NoRequest =>
    request.position.net = positions[request.account, request.instrument].net
                             + request.traded

ServingInv == TypeOK /\ RequestActive /\ RequestMoves /\ PositionsFollowTrades

(* The request and the tables it will write stay in step. *)
LEMMA ServingAlways == Spec => []ServingInv
<1>1. Init => RequestActive /\ RequestMoves /\ PositionsFollowTrades
  BY DEF Init, RequestActive, RequestMoves, PositionsFollowTrades, FlatPosition
<1>2. ASSUME ServingInv, TypeOK', [Next]_vars
      PROVE  (RequestActive /\ RequestMoves /\ PositionsFollowTrades)'
  <2> USE <1>2 DEF ServingInv
  <2>1. CASE UNCHANGED <<accounts, positions, trades, ledger, request>>
    BY <2>1 DEF RequestActive, RequestMoves, PositionsFollowTrades
  <2>2. ASSUME NEW a \in Accounts, NEW i \in Instruments, NEW side \in Sides,
               NEW qty \in Quantities, FillOrder(a, i, side, qty)
        PROVE  (RequestActive /\ RequestMoves /\ PositionsFollowTrades)'
    BY <2>2, FillHandsOver DEF RequestActive, RequestMoves, PositionsFollowTrades
  <2>3. CASE MarkPosition
    <3>1. request # NoRequest
      BY <2>3 DEF MarkPosition
    <3> QED BY <2>3, <3>1, MarkKeeps DEF RequestActive, RequestMoves, PositionsFollowTrades
  <2>4. CASE CommitFill
    <3> DEFINE k == <<request.account, request.instrument>>
    <3>1. /\ k \in Keys /\ request' = NoRequest
          /\ positions' = [positions EXCEPT ![k] = request.position]
          /\ trades' = [trades EXCEPT ![k] = @ + request.traded]
      BY <2>4, CommitWrites
    <3>2. request.position.net = positions[k].net + request.traded
      BY <2>4 DEF CommitFill, RequestMoves
    <3> HIDE DEF k
    <3>3. PositionsFollowTrades'
      BY <3>1, <3>2 DEF PositionsFollowTrades, TypeOK
    <3> QED BY <3>1, <3>3 DEF RequestActive, RequestMoves
  <2>5. CASE RollBack
    BY <2>5 DEF RollBack, RequestActive, RequestMoves, PositionsFollowTrades
  <2>6. ASSUME NEW e \in Accounts, NEW f \in Accounts, Graduate(e, f)
        PROVE  (RequestActive /\ RequestMoves /\ PositionsFollowTrades)'
    BY <2>6 DEF Graduate, RequestActive, RequestMoves, PositionsFollowTrades
  <2> QED BY <2>1, <2>2, <2>3, <2>4, <2>5, <2>6, StepKinds
<1>3. QED
  BY <1>1, <1>2, TypesKept, PTL DEF Spec, ServingInv

(* The net quantity of every position is what its trades add up to.        *)
THEOREM NetIsTraded == Spec => []PositionsFollowTrades
<1>1. ServingInv => PositionsFollowTrades
  BY DEF ServingInv
<1>2. QED
  BY <1>1, ServingAlways, PTL

(* An account that is not ACTIVE is never traded on.                       *)
THEOREM JudgedNeverTrade == Spec => OnlyActiveTrades
<1> DEFINE Kept(a) == /\ \A i \in Instruments : /\ positions'[a, i] = positions[a, i]
                                                /\ trades'[a, i] = trades[a, i]
                      /\ ledger'[a] = ledger[a]
<1>1. ASSUME ServingInv, [Next]_vars, NEW a \in Accounts, accounts[a].status # "ACTIVE"
      PROVE  Kept(a)
  <2> USE <1>1 DEF ServingInv
  <2>1. CASE CommitFill
    <3> DEFINE k == <<request.account, request.instrument>>
    <3>1. /\ k \in Keys /\ request.account \in Accounts
          /\ positions' = [positions EXCEPT ![k] = request.position]
          /\ trades' = [trades EXCEPT ![k] = @ + request.traded]
          /\ ledger' = [ledger EXCEPT ![request.account] = LedgerAfter(@)]
      BY <2>1, CommitWrites
    <3>2. request.account # a
      BY <2>1 DEF CommitFill, RequestActive
    <3>3. \A i \in Instruments : <<a, i>> \in Keys /\ <<a, i>> # k
      BY <3>2 DEF Keys
    <3> HIDE DEF k
    <3>4. \A x \in Keys : x # k => positions'[x] = positions[x] /\ trades'[x] = trades[x]
      BY <3>1 DEF TypeOK
    <3>5. \A i \in Instruments : /\ positions'[<<a, i>>] = positions[<<a, i>>]
                                 /\ trades'[<<a, i>>] = trades[<<a, i>>]
      BY <3>3, <3>4
    <3>6. ledger'[a] = ledger[a]
      BY <3>1, <3>2 DEF TypeOK
    <3> QED BY <3>5, <3>6
  <2>2. CASE ~CommitFill
    <3>1. UNCHANGED <<positions, trades, ledger>>
      <4>1. ASSUME NEW b \in Accounts, NEW i \in Instruments, NEW side \in Sides,
                   NEW qty \in Quantities, FillOrder(b, i, side, qty)
            PROVE  UNCHANGED <<positions, trades, ledger>>
        BY <4>1 DEF FillOrder
      <4>2. MarkPosition \/ RollBack => UNCHANGED <<positions, trades, ledger>>
        BY DEF MarkPosition, RollBack
      <4>3. ASSUME NEW e \in Accounts, NEW f \in Accounts, Graduate(e, f)
            PROVE  UNCHANGED <<positions, trades, ledger>>
        BY <4>3 DEF Graduate
      <4> QED BY <2>2, <4>1, <4>2, <4>3, StepKinds
    <3> QED BY <3>1
  <2> QED BY <2>1, <2>2
<1>2. ASSUME ServingInv, [Next]_vars
      PROVE  [\A a \in Accounts : accounts[a].status # "ACTIVE" =>
                /\ \A i \in Instruments : /\ positions'[a, i] = positions[a, i]
                                          /\ trades'[a, i] = trades[a, i]
                /\ ledger'[a] = ledger[a]]_vars
  BY <1>1, <1>2
<1>3. QED
  BY <1>2, ServingAlways, PTL DEF Spec, OnlyActiveTrades

---------------------------------------------------------------------------
(* What EquityExplained and HighWaterMark say of one row.                  *)
RowSound(x) ==
  /\ Magnitude(x.equity - (x.balance + x.realized + x.floating)) <= 1
  /\ Magnitude(x.daily - (x.equity - x.balance)) <= 1
  /\ x.hwm >= x.equity /\ x.hwm >= x.balance
  /\ x.drawdown >= 0
  /\ Magnitude(x.drawdown - (x.hwm - x.equity)) <= 1

(* The distance between two integers is bounded from both sides. *)
LEMMA WithinOne ==
  ASSUME NEW n \in Int, -1 <= n, n <= 1
  PROVE  Magnitude(n) <= 1
BY DEF Magnitude

(* A row marked from its unrounded figures is sound, and its high water    *)
(* mark no lower than before: rounding separately costs one unit at most.  *)
LEMMA MarkedRowSound ==
  ASSUME NEW x \in Account, NEW delta \in Int, NEW qty \in Nat \ {0}, NEW floating \in Int,
         x.hwm >= x.balance
  PROVE  LET y == AccountAfter(x, delta, qty, floating, Rules, TradingDays)
         IN  RowSound(y) /\ y.hwm >= x.hwm
<1> DEFINE v == Valuation(x, delta, qty, floating)
           y == AccountAfter(x, delta, qty, floating, Rules, TradingDays)
<1>1. /\ v.realized = x.realized * qty + delta
      /\ v.equity = (x.balance + floating) * qty + v.realized
      /\ v.daily = (-x.balance) * qty + v.equity
      /\ v.hwm = Greater(x.hwm * qty, v.equity)
      /\ v.drawdown = v.hwm - v.equity
      /\ v.realized \in Int /\ v.equity \in Int /\ v.daily \in Int
      /\ v.hwm \in Int /\ v.drawdown \in Nat
      /\ v.hwm >= v.equity /\ v.hwm >= x.hwm * qty
  BY ValuationTyped
<1>2. /\ y.balance = x.balance /\ y.floating = floating
      /\ y.realized = RoundDiv(v.realized, qty) /\ y.equity = RoundDiv(v.equity, qty)
      /\ y.daily = RoundDiv(v.daily, qty) /\ y.hwm = RoundDiv(v.hwm, qty)
      /\ y.drawdown = RoundDiv(v.drawdown, qty)
  BY AccountTyped
<1>3. x.balance \in Int /\ x.hwm \in Int
  BY DEF Account
<1> HIDE DEF v, y
<1>4. \A n \in Int : RoundDiv(n, qty) \in Int
  BY RoundNear
<1>5. /\ y.realized \in Int /\ y.equity \in Int /\ y.daily \in Int
      /\ y.hwm \in Int /\ y.drawdown \in Int
  <2>1. v.drawdown \in Int
    BY <1>1
  <2> QED BY <1>1, <1>2, <1>4, <2>1
<1>6. Magnitude(y.equity - (y.balance + y.realized + y.floating)) <= 1
  <2> DEFINE gap == y.equity - (x.balance + floating) - y.realized
  <2>1. x.balance + floating \in Int
    BY <1>3
  <2>2. -1 <= gap /\ gap <= 1
    BY <1>1, <1>2, <2>1, RoundSum
  <2>3. gap = y.equity - (y.balance + y.realized + y.floating) /\ gap \in Int
    BY <1>2, <1>3, <1>5
  <2> HIDE DEF gap
  <2>4. Magnitude(gap) <= 1
    BY <2>2, <2>3, WithinOne
  <2> QED BY <2>3, <2>4
<1>7. Magnitude(y.daily - (y.equity - y.balance)) <= 1
  <2> DEFINE gap == y.daily - (-x.balance) - y.equity
  <2>1. -x.balance \in Int
    BY <1>3
  <2>2. -1 <= gap /\ gap <= 1
    BY <1>1, <1>2, <2>1, RoundSum
  <2>3. gap = y.daily - (y.equity - y.balance) /\ gap \in Int
    BY <1>2, <1>3, <1>5
  <2> HIDE DEF gap
  <2>4. Magnitude(gap) <= 1
    BY <2>2, <2>3, WithinOne
  <2> QED BY <2>3, <2>4
<1>8. y.hwm >= y.equity
  BY <1>1, <1>2, RoundOrder
<1>9. y.hwm >= x.hwm
  <2>1. x.hwm * qty \in Int
    BY <1>3
  <2>2. RoundDiv(x.hwm * qty, qty) = x.hwm
    BY <1>3, RoundExact
  <2>3. RoundDiv(x.hwm * qty, qty) <= RoundDiv(v.hwm, qty)
    BY <1>1, <2>1, RoundOrder
  <2> QED BY <1>2, <2>2, <2>3
<1>10. y.hwm >= y.balance
  BY <1>2, <1>3, <1>5, <1>9
<1>11. y.drawdown \in Nat
  BY <1>1, <1>2, RoundNonNegative
<1>12. Magnitude(y.drawdown - (y.hwm - y.equity)) <= 1
  <2> DEFINE gap == y.drawdown - (y.hwm - y.equity)
  <2>1. -1 <= gap /\ gap <= 1
    BY <1>1, <1>2, RoundDifference
  <2>2. gap \in Int
    BY <1>5
  <2> HIDE DEF gap
  <2>3. Magnitude(gap) <= 1
    BY <2>1, <2>2, WithinOne
  <2> QED BY <2>3 DEF gap
<1>13. RowSound(y)
  BY <1>5, <1>6, <1>7, <1>8, <1>10, <1>11, <1>12 DEF RowSound
<1> QED BY <1>9, <1>13 DEF y

(* A row nobody traded on is sound.                                        *)
LEMMA NewRowSound ==
  ASSUME NEW status, NEW type, NEW source, NEW balance \in Nat
  PROVE  RowSound(NewAccount(status, type, source, balance))
BY DEF NewAccount, RowSound, Magnitude

RowsInv == TypeOK /\ \A a \in Accounts : RowSound(accounts[a])

(* What a step does to one row: nothing, a mark, a closing or a creation.  *)
LEMMA RowStep ==
  ASSUME RowsInv, TypeOK', [Next]_vars, NEW a \in Accounts
  PROVE  /\ RowSound(accounts'[a])
         /\ accounts[a].status # "ABSENT" => accounts'[a].hwm >= accounts[a].hwm
<1>0. accounts[a] \in Account /\ accounts[a].hwm \in Int /\ RowSound(accounts[a])
  BY DEF RowsInv, TypeOK, Account
<1>1. CASE UNCHANGED accounts
  BY <1>0, <1>1
<1>2. CASE CommitFill
  <2> DEFINE y == AccountAfter(accounts[request.account], request.delta, request.qty,
                               request.floating, Rules, TradingDays)
  <2>1. /\ request.account \in Accounts
        /\ request.delta \in Int /\ request.qty \in Nat \ {0} /\ request.floating \in Int
        /\ accounts[request.account] \in Account
        /\ accounts' = [accounts EXCEPT ![request.account] = y]
    BY <1>2, CommitWrites DEF RowsInv
  <2>2. accounts[request.account].hwm >= accounts[request.account].balance
    BY <2>1 DEF RowsInv, RowSound
  <2>3. RowSound(y) /\ y.hwm >= accounts[request.account].hwm
    BY <2>1, <2>2, MarkedRowSound
  <2> HIDE DEF y
  <2>4. CASE a = request.account
    <3>1. accounts'[a] = y
      BY <2>1, <2>4 DEF RowsInv, TypeOK
    <3> QED BY <2>3, <2>4, <3>1
  <2>5. CASE a # request.account
    <3>1. accounts'[a] = accounts[a]
      BY <2>1, <2>5 DEF RowsInv, TypeOK
    <3> QED BY <1>0, <3>1
  <2> QED BY <2>4, <2>5
<1>3. ASSUME NEW e \in Accounts, NEW f \in Accounts, Graduate(e, f)
      PROVE  /\ RowSound(accounts'[a])
             /\ accounts[a].status # "ABSENT" => accounts'[a].hwm >= accounts[a].hwm
  <2>1. accounts' = [accounts EXCEPT ![e].status = "CLOSED",
                                     ![f] = NewAccount("ACTIVE", "FUNDED", e, FundedCapital)]
        /\ accounts[f].status = "ABSENT" /\ accounts[e].status = "PASSED"
    BY <1>3 DEF Graduate
  <2>2. CASE a = f
    <3>1. accounts'[a] = NewAccount("ACTIVE", "FUNDED", e, FundedCapital)
      BY <2>1, <2>2 DEF RowsInv, TypeOK
    <3> QED BY <2>1, <2>2, <3>1, NewRowSound, AccountAssumption
  <2>3. CASE a = e
    <3>1. accounts'[a] = [accounts[a] EXCEPT !.status = "CLOSED"]
      BY <2>1, <2>3 DEF RowsInv, TypeOK
    <3> QED BY <1>0, <3>1 DEF RowSound, Account
  <2>4. CASE a # e /\ a # f
    <3>1. accounts'[a] = accounts[a]
      BY <2>1, <2>4 DEF RowsInv, TypeOK
    <3> QED BY <1>0, <3>1
  <2> QED BY <2>2, <2>3, <2>4
<1>4. \/ UNCHANGED accounts \/ CommitFill \/ \E e, f \in Accounts : Graduate(e, f)
  <2>1. MarkPosition \/ RollBack => UNCHANGED accounts
    BY DEF MarkPosition, RollBack
  <2>2. ASSUME NEW b \in Accounts, NEW i \in Instruments, NEW side \in Sides,
               NEW qty \in Quantities, FillOrder(b, i, side, qty)
        PROVE  UNCHANGED accounts
    BY <2>2 DEF FillOrder
  <2> QED BY <2>1, <2>2, StepKinds
<1> QED BY <1>1, <1>2, <1>3, <1>4

(* Every row is sound in every state. *)
LEMMA RowsAlways == Spec => []RowsInv
<1>1. Init => \A a \in Accounts : RowSound(accounts[a])
  BY NewRowSound, AccountAssumption DEF Init
<1>2. ASSUME RowsInv, TypeOK', [Next]_vars PROVE RowsInv'
  BY <1>2, RowStep DEF RowsInv
<1>3. QED
  BY <1>1, <1>2, TypesKept, PTL DEF Spec, RowsInv

(* The stored equity is the balance plus the stored realized and floating  *)
(* P&L, and the daily P&L what it gained, within one unit of rounding.     *)
THEOREM EquityIsExplained == Spec => []EquityExplained
<1>1. RowsInv => EquityExplained
  BY DEF RowsInv, RowSound, EquityExplained
<1>2. QED
  BY <1>1, RowsAlways, PTL

(* The high water mark bounds equity and balance, rounding included.       *)
THEOREM MarkIsHigh == Spec => []HighWaterMark
<1>1. RowsInv => HighWaterMark
  BY DEF RowsInv, RowSound, HighWaterMark
<1>2. QED
  BY <1>1, RowsAlways, PTL

(* The high water mark of an account never falls.                          *)
THEOREM MarkNeverFalls == Spec => HighWaterMarkRises
<1>1. ASSUME RowsInv, TypeOK', [Next]_vars
      PROVE  [\A a \in Accounts :
                accounts[a].status # "ABSENT" => accounts'[a].hwm >= accounts[a].hwm]_vars
  BY <1>1, RowStep
<1>2. QED
  BY <1>1, RowsAlways, TypesKept, PTL DEF Spec, HighWaterMarkRises

---------------------------------------------------------------------------
(* An account that does not exist yet has no ledger entry.                 *)
AbsentUntraded ==
  \A a \in Accounts : accounts[a].status = "ABSENT" => ledger[a] = [sum |-> 0, entries |-> 0]

(* One row against its ledger.                                             *)
Tracks(x, entry) == Magnitude(x.realized - entry.sum) <= entry.entries

LedgerInv == AbsentUntraded /\ \A a \in Accounts : Tracks(accounts[a], ledger[a])

(* A fill that realizes a P&L moves account and ledger together but for    *)
(* one unit, and adds an entry to account for it; one that does not leaves *)
(* both where they are.                                                    *)
LEMMA CommitTracks ==
  ASSUME NEW x \in Account, NEW entry \in [sum : Int, entries : Nat],
         request \in Request, Tracks(x, entry)
  PROVE  Tracks(AccountAfter(x, request.delta, request.qty, request.floating,
                             Rules, TradingDays),
                LedgerAfter(entry))
<1> DEFINE delta == request.delta
           qty == request.qty
           v == Valuation(x, delta, qty, request.floating)
           y == AccountAfter(x, delta, qty, request.floating, Rules, TradingDays)
           after == LedgerAfter(entry)
<1>1. delta \in Int /\ qty \in Nat \ {0} /\ request.floating \in Int
  BY DEF Request
<1>2. /\ v.realized = x.realized * qty + delta
      /\ y.realized = RoundDiv(v.realized, qty)
  <2>1. v.realized = x.realized * qty + delta
    BY DEF Valuation, Figures
  <2>2. y.realized = RoundDiv(v.realized, qty)
    BY DEF AccountAfter, Account
  <2> QED BY <2>1, <2>2
<1>3. /\ delta = 0 => after = entry
      /\ delta # 0 => /\ after.sum = entry.sum + RoundDiv(delta, qty)
                      /\ after.entries = entry.entries + 1
  BY LedgerTyped
<1>4. x.realized \in Int /\ entry.sum \in Int /\ entry.entries \in Nat
  BY DEF Account
<1> HIDE DEF delta, qty, v, y, after
<1>5. CASE delta = 0
  <2>1. y.realized = RoundDiv(x.realized * qty, qty)
    <3>1. x.realized * qty \in Int
      BY <1>1, <1>4
    <3> QED BY <1>2, <1>5, <3>1
  <2>2. y.realized = x.realized
    BY <1>1, <1>4, <2>1, RoundExact
  <2> QED BY <1>3, <1>5, <2>2 DEF Tracks, y, after, delta, qty
<1>6. CASE delta # 0
  <2> DEFINE r == RoundDiv(delta, qty)
             gap == y.realized - x.realized - r
  <2>1. r \in Int /\ y.realized \in Int
    <3>1. x.realized * qty + delta \in Int
      BY <1>1, <1>4
    <3> QED BY <1>1, <1>2, <3>1, RoundNear
  <2>2. -1 <= gap /\ gap <= 1
    BY <1>1, <1>2, <1>4, RoundSum
  <2> HIDE DEF r
  <2>3. Magnitude(x.realized - entry.sum) <= entry.entries
    BY DEF Tracks
  <2>4. Magnitude(y.realized - (entry.sum + r)) <= entry.entries + 1
    BY <1>4, <2>1, <2>2, <2>3 DEF Magnitude
  <2>5. Tracks(y, after)
    BY <1>3, <1>6, <2>4 DEF Tracks, r
  <2> QED BY <2>5 DEF y, after, delta, qty
<1> QED BY <1>5, <1>6

(* Account and ledger stay together in every state. *)
LEMMA LedgerAlways == Spec => []LedgerInv
<1>1. Init => LedgerInv
  BY DEF Init, LedgerInv, AbsentUntraded, Tracks, Magnitude, NewAccount
<1>2. ASSUME ServingInv, LedgerInv, [Next]_vars PROVE LedgerInv'
  <2> USE <1>2 DEF ServingInv
  <2>1. CASE UNCHANGED <<accounts, ledger>>
    BY <2>1 DEF LedgerInv, AbsentUntraded, Tracks
  <2>2. CASE CommitFill
    <3> DEFINE a == request.account
               y == AccountAfter(accounts[a], request.delta, request.qty, request.floating,
                                 Rules, TradingDays)
    <3>1. /\ request \in Request /\ a \in Accounts /\ accounts[a] \in Account
          /\ accounts' = [accounts EXCEPT ![a] = y]
          /\ ledger' = [ledger EXCEPT ![a] = LedgerAfter(@)]
      BY <2>2, CommitWrites
    <3>2. ledger[a] \in [sum : Int, entries : Nat] /\ Tracks(accounts[a], ledger[a])
      BY <3>1 DEF TypeOK, LedgerInv
    <3>3. Tracks(y, LedgerAfter(ledger[a]))
      BY <3>1, <3>2, CommitTracks
    <3>4. accounts[a].status = "ACTIVE"
      BY <2>2 DEF CommitFill, RequestActive
    <3>5. y.status \in {"ACTIVE", "PASSED", "FAILED"}
      <4>1. request.delta \in Int /\ request.qty \in Nat \ {0} /\ request.floating \in Int
        BY <3>1 DEF Request
      <4>2. y.status \in {accounts[a].status, "PASSED", "FAILED"}
        BY <3>1, <4>1, VerdictStatus
      <4> QED BY <3>4, <4>2
    <3> HIDE DEF a, y
    <3>6. accounts'[a] = y /\ ledger'[a] = LedgerAfter(ledger[a])
      BY <3>1 DEF TypeOK
    <3>7. \A b \in Accounts : b # a => accounts'[b] = accounts[b] /\ ledger'[b] = ledger[b]
      BY <3>1 DEF TypeOK
    <3>8. \A b \in Accounts : Tracks(accounts'[b], ledger'[b])
      BY <3>3, <3>6, <3>7 DEF LedgerInv
    <3>9. AbsentUntraded'
      BY <3>5, <3>6, <3>7 DEF LedgerInv, AbsentUntraded
    <3> QED BY <3>8, <3>9 DEF LedgerInv, Tracks
  <2>3. ASSUME NEW e \in Accounts, NEW f \in Accounts, Graduate(e, f) PROVE LedgerInv'
    <3> DEFINE new == NewAccount("ACTIVE", "FUNDED", e, FundedCapital)
    <3>1. /\ accounts[f].status = "ABSENT" /\ accounts[e].status = "PASSED"
          /\ accounts' = [accounts EXCEPT ![e].status = "CLOSED", ![f] = new]
          /\ ledger' = ledger
      BY <2>3 DEF Graduate
    <3>2. new.realized = 0 /\ new.status = "ACTIVE"
      BY DEF NewAccount
    <3> HIDE DEF new
    <3>3. e # f /\ ledger[f] = [sum |-> 0, entries |-> 0]
      BY <3>1 DEF LedgerInv, AbsentUntraded
    <3>4. /\ accounts'[f] = new
          /\ accounts'[e].realized = accounts[e].realized /\ accounts'[e].status = "CLOSED"
          /\ \A b \in Accounts \ {e, f} : accounts'[b] = accounts[b]
      <4>1. accounts[e] \in Account
        BY DEF TypeOK
      <4>2. accounts'[e] = [accounts[e] EXCEPT !.status = "CLOSED"]
        BY <3>1, <3>3 DEF TypeOK
      <4>3. accounts'[e].realized = accounts[e].realized /\ accounts'[e].status = "CLOSED"
        BY <4>1, <4>2 DEF Account
      <4>4. accounts'[f] = new /\ \A b \in Accounts \ {e, f} : accounts'[b] = accounts[b]
        BY <3>1, <3>3 DEF TypeOK
      <4> QED BY <4>3, <4>4
    <3>5. ASSUME NEW b \in Accounts PROVE Tracks(accounts'[b], ledger'[b])
      <4>1. CASE b = f
        BY <3>1, <3>2, <3>3, <3>4, <4>1 DEF Tracks, Magnitude
      <4>2. CASE b # f
        <5>1. accounts'[b].realized = accounts[b].realized
          BY <3>4, <4>2
        <5> QED BY <3>1, <5>1 DEF LedgerInv, Tracks
      <4> QED BY <4>1, <4>2
    <3>6. AbsentUntraded'
      <4>1. \A b \in Accounts : accounts'[b].status = "ABSENT" => accounts[b].status = "ABSENT"
        BY <3>2, <3>4
      <4> QED BY <3>1, <4>1 DEF LedgerInv, AbsentUntraded
    <3> QED BY <3>5, <3>6 DEF LedgerInv, Tracks
  <2>4. \/ UNCHANGED <<accounts, ledger>> \/ CommitFill
        \/ \E e, f \in Accounts : Graduate(e, f)
    <3>1. MarkPosition \/ RollBack => UNCHANGED <<accounts, ledger>>
      BY DEF MarkPosition, RollBack
    <3>2. ASSUME NEW b \in Accounts, NEW i \in Instruments, NEW side \in Sides,
                 NEW qty \in Quantities, FillOrder(b, i, side, qty)
          PROVE  UNCHANGED <<accounts, ledger>>
      BY <3>2 DEF FillOrder
    <3> QED BY <3>1, <3>2, StepKinds
  <2> QED BY <2>1, <2>2, <2>3, <2>4
<1>3. QED
  BY <1>1, <1>2, ServingAlways, PTL DEF Spec

(* The realized P&L of an account is its ledger's sum, to one unit of      *)
(* rounding per entry, however many fills there were.                      *)
THEOREM RealizedIsLedgered == Spec => []LedgerTracksRealized
<1>1. LedgerInv => LedgerTracksRealized
  BY DEF LedgerInv, Tracks, LedgerTracksRealized
<1>2. QED
  BY <1>1, LedgerAlways, PTL

---------------------------------------------------------------------------
(* The order flow implements AccountLifecycle: whatever is ordered, the    *)
(* accounts are judged once, graduate once and stay closed.                *)

(* An evaluation comes from no other account.                              *)
EvaluationUnfunded ==
  \A a \in Accounts : accounts[a].type = "EVALUATION" => accounts[a].source = NoSource

(* What a step does to the accounts table. *)
LEMMA AccountSteps ==
  ASSUME [Next]_vars
  PROVE  UNCHANGED accounts \/ CommitFill \/ \E e, f \in Accounts : Graduate(e, f)
<1>1. MarkPosition \/ RollBack => UNCHANGED accounts
  BY DEF MarkPosition, RollBack
<1>2. ASSUME NEW b \in Accounts, NEW i \in Instruments, NEW side \in Sides,
             NEW qty \in Quantities, FillOrder(b, i, side, qty)
      PROVE  UNCHANGED accounts
  BY <1>2 DEF FillOrder
<1> QED BY <1>1, <1>2, StepKinds

(* A commit leaves every account but one alone, and of that one changes    *)
(* neither type nor source, and its status only to judge it.               *)
LEMMA CommitJudges ==
  ASSUME TypeOK, RequestActive, CommitFill
  PROVE  \E a \in Accounts, y \in Account :
           /\ accounts' = [accounts EXCEPT ![a] = y]
           /\ accounts[a].status = "ACTIVE" /\ accounts[a].type = "EVALUATION"
           /\ y.type = accounts[a].type /\ y.source = accounts[a].source
           /\ y.status \in {"ACTIVE", "PASSED", "FAILED"}
<1> DEFINE a == request.account
           x == accounts[a]
           delta == request.delta
           qty == request.qty
           floating == request.floating
           y == AccountAfter(x, delta, qty, floating, Rules, TradingDays)
<1>1. /\ a \in Accounts /\ x \in Account /\ y \in Account
      /\ delta \in Int /\ qty \in Nat \ {0} /\ floating \in Int
      /\ accounts' = [accounts EXCEPT ![a] = y]
  BY CommitWrites
<1>2. x.status = "ACTIVE" /\ x.type = "EVALUATION"
  BY DEF CommitFill, RequestActive
<1> HIDE DEF x, delta, qty, floating
<1>3. /\ y.type = x.type /\ y.source = x.source
      /\ y.status \in {x.status, "PASSED", "FAILED"}
  BY <1>1, AccountTyped
<1> HIDE DEF a, y
<1> QED BY <1>1, <1>2, <1>3 DEF x

(* A graduation, as the two rows it writes.                                *)
LEMMA GraduateWrites ==
  ASSUME TypeOK, NEW e \in Accounts, NEW f \in Accounts, Graduate(e, f)
  PROVE  /\ e # f /\ accounts[e].status = "PASSED" /\ accounts[e].type = "EVALUATION"
         /\ accounts[f].status = "ABSENT"
         /\ accounts'[e].status = "CLOSED" /\ accounts'[e].type = accounts[e].type
         /\ accounts'[e].source = accounts[e].source
         /\ accounts'[f].status = "ACTIVE" /\ accounts'[f].type = "FUNDED"
         /\ accounts'[f].source = e
         /\ \A b \in Accounts \ {e, f} : accounts'[b] = accounts[b]
<1> DEFINE new == NewAccount("ACTIVE", "FUNDED", e, FundedCapital)
<1>1. /\ accounts[e].status = "PASSED" /\ accounts[e].type = "EVALUATION"
      /\ accounts[f].status = "ABSENT"
      /\ accounts' = [accounts EXCEPT ![e].status = "CLOSED", ![f] = new]
  BY DEF Graduate
<1>2. new.status = "ACTIVE" /\ new.type = "FUNDED" /\ new.source = e
  BY DEF NewAccount
<1> HIDE DEF new
<1>3. e # f
  BY <1>1
<1>4. /\ accounts'[e] = [accounts[e] EXCEPT !.status = "CLOSED"]
      /\ accounts'[f] = new
      /\ \A b \in Accounts \ {e, f} : accounts'[b] = accounts[b]
  BY <1>1, <1>3 DEF TypeOK
<1>5. accounts[e] \in Account
  BY DEF TypeOK
<1>6. /\ accounts'[e].status = "CLOSED" /\ accounts'[e].type = accounts[e].type
      /\ accounts'[e].source = accounts[e].source
  BY <1>4, <1>5 DEF Account
<1> QED BY <1>1, <1>2, <1>3, <1>4, <1>6

(* Evaluations have no source in any state. *)
LEMMA UnfundedAlways == Spec => []EvaluationUnfunded
<1>1. Init => EvaluationUnfunded
  BY DEF Init, EvaluationUnfunded, NewAccount
<1>2. ASSUME ServingInv, EvaluationUnfunded, [Next]_vars PROVE EvaluationUnfunded'
  <2> USE <1>2 DEF ServingInv
  <2>1. CASE UNCHANGED accounts
    BY <2>1 DEF EvaluationUnfunded
  <2>2. CASE CommitFill
    <3>1. PICK a \in Accounts, y \in Account :
            /\ accounts' = [accounts EXCEPT ![a] = y]
            /\ y.type = accounts[a].type /\ y.source = accounts[a].source
      BY <2>2, CommitJudges
    <3>2. \A b \in Accounts : /\ accounts'[b].type = accounts[b].type
                              /\ accounts'[b].source = accounts[b].source
      BY <3>1 DEF TypeOK
    <3> QED BY <3>2 DEF EvaluationUnfunded
  <2>3. ASSUME NEW e \in Accounts, NEW f \in Accounts, Graduate(e, f)
        PROVE  EvaluationUnfunded'
    BY <2>3, GraduateWrites DEF EvaluationUnfunded
  <2> QED BY <2>1, <2>2, <2>3, AccountSteps
<1>3. QED
  BY <1>1, <1>2, ServingAlways, PTL DEF Spec

(* Every behaviour of the order flow is one AccountLifecycle allows.       *)
THEOREM LifecycleImplemented == Spec => LifecycleKept
<1>1. Init => Lifecycle!Init
  BY DEF Init, Lifecycle!Init, NewAccount
<1>2. ASSUME ServingInv, EvaluationUnfunded, TypeOK', [Next]_vars
      PROVE  [Lifecycle!Next]_Lifecycle!vars
  <2> USE <1>2 DEF ServingInv
  <2> DEFINE status == [a \in Accounts |-> accounts[a].status]
             source == [a \in Accounts |-> accounts[a].source]
  <2>1. CASE UNCHANGED accounts
    BY <2>1 DEF Lifecycle!vars
  <2>2. CASE CommitFill
    <3>1. PICK a \in Accounts, y \in Account :
            /\ accounts' = [accounts EXCEPT ![a] = y]
            /\ accounts[a].status = "ACTIVE" /\ accounts[a].type = "EVALUATION"
            /\ y.source = accounts[a].source
            /\ y.status \in {"ACTIVE", "PASSED", "FAILED"}
      BY <2>2, CommitJudges
    <3>2. source' = source
      BY <3>1 DEF TypeOK
    <3>3. status' = [status EXCEPT ![a] = y.status]
      BY <3>1 DEF TypeOK
    <3>4. status[a] = "ACTIVE" /\ source[a] = NoSource
      BY <3>1 DEF EvaluationUnfunded
    <3> HIDE DEF status, source
    <3>5. CASE y.status = "ACTIVE"
      <4>1. status' = status
        BY <3>3, <3>4, <3>5 DEF status
      <4> QED BY <3>2, <4>1 DEF Lifecycle!vars, status, source
    <3>6. CASE y.status \in {"PASSED", "FAILED"}
      <4>1. Lifecycle!Judge(a)
        BY <3>2, <3>3, <3>4, <3>6 DEF Lifecycle!Judge, status, source
      <4> QED BY <4>1 DEF Lifecycle!Next
    <3> QED BY <3>1, <3>5, <3>6
  <2>3. ASSUME NEW e \in Accounts, NEW f \in Accounts, Graduate(e, f)
        PROVE  Lifecycle!Graduate(e, f)
    <3>1. /\ e # f /\ status[e] = "PASSED" /\ status[f] = "ABSENT" /\ source[e] = NoSource
      BY <2>3, GraduateWrites DEF EvaluationUnfunded
    <3>2. /\ status'[e] = "CLOSED" /\ status'[f] = "ACTIVE"
          /\ source'[e] = source[e] /\ source'[f] = e
      BY <2>3, GraduateWrites
    <3>3. \A b \in Accounts \ {e, f} : status'[b] = status[b] /\ source'[b] = source[b]
      BY <2>3, GraduateWrites
    <3>4. /\ status = [b \in Accounts |-> status[b]] /\ status' = [b \in Accounts |-> status'[b]]
          /\ source = [b \in Accounts |-> source[b]] /\ source' = [b \in Accounts |-> source'[b]]
      OBVIOUS
    <3> HIDE DEF status, source
    <3>5. status' = [status EXCEPT ![e] = "CLOSED", ![f] = "ACTIVE"]
      BY <3>1, <3>2, <3>3, <3>4
    <3>6. source' = [source EXCEPT ![f] = e]
      BY <3>1, <3>2, <3>3, <3>4
    <3> QED BY <3>1, <3>5, <3>6 DEF Lifecycle!Graduate, status, source
  <2>4. (\E e, f \in Accounts : Graduate(e, f)) => Lifecycle!Next
    BY <2>3 DEF Lifecycle!Next
  <2> QED BY <2>1, <2>2, <2>4, AccountSteps
<1>3. QED
  BY <1>1, <1>2, ServingAlways, UnfundedAlways, TypesKept, PTL
  DEF Spec, LifecycleKept, Lifecycle!Spec

(* The two variables of AccountLifecycle, as the order flow maps them.     *)
LifeStatus == [a \in Accounts |-> accounts[a].status]
LifeSource == [a \in Accounts |-> accounts[a].source]

(* FundedOnce is inductive once it is known that an account which does not *)
(* exist yet comes from nowhere: its slot is free to be funded.            *)
LifeInv(status, source) ==
  /\ status \in [Accounts -> Lifecycle!Statuses]
  /\ source \in [Accounts -> Accounts \union {NoSource}]
  /\ \A a \in Accounts : status[a] = "ABSENT" => source[a] = NoSource
  /\ \A f, g \in Accounts : source[f] = source[g] /\ source[f] # NoSource => f = g
  /\ \A f \in Accounts : source[f] # NoSource => status[source[f]] = "CLOSED"

(* A judgement or a graduation keeps it. *)
LEMMA LifeStep ==
  ASSUME NEW status, NEW source, LifeInv(status, source), NEW after, NEW comes,
         \/ \E a \in Accounts, verdict \in {"PASSED", "FAILED"} :
              /\ status[a] = "ACTIVE" /\ source[a] = NoSource
              /\ after = [status EXCEPT ![a] = verdict] /\ comes = source
         \/ \E e, f \in Accounts :
              /\ status[e] = "PASSED" /\ source[e] = NoSource /\ status[f] = "ABSENT"
              /\ after = [status EXCEPT ![e] = "CLOSED", ![f] = "ACTIVE"]
              /\ comes = [source EXCEPT ![f] = e]
  PROVE  LifeInv(after, comes)
<1>1. ASSUME NEW a \in Accounts, NEW verdict \in {"PASSED", "FAILED"},
             status[a] = "ACTIVE", source[a] = NoSource,
             after = [status EXCEPT ![a] = verdict], comes = source
      PROVE  LifeInv(after, comes)
  BY <1>1 DEF LifeInv, Lifecycle!Statuses
<1>2. ASSUME NEW e \in Accounts, NEW f \in Accounts,
             status[e] = "PASSED", source[e] = NoSource, status[f] = "ABSENT",
             after = [status EXCEPT ![e] = "CLOSED", ![f] = "ACTIVE"],
             comes = [source EXCEPT ![f] = e]
      PROVE  LifeInv(after, comes)
  <2>1. /\ after \in [Accounts -> Lifecycle!Statuses]
        /\ comes \in [Accounts -> Accounts \union {NoSource}]
    BY <1>2 DEF LifeInv, Lifecycle!Statuses
  <2>2. e # f /\ source[f] = NoSource /\ \A g \in Accounts : source[g] # e
    BY <1>2, AccountAssumption DEF LifeInv
  <2>3. \A a \in Accounts : after[a] = "ABSENT" => comes[a] = NoSource
    BY <1>2 DEF LifeInv
  <2>4. \A g, h \in Accounts : comes[g] = comes[h] /\ comes[g] # NoSource => g = h
    BY <1>2, <2>2 DEF LifeInv
  <2>5. \A g \in Accounts : comes[g] # NoSource => after[comes[g]] = "CLOSED"
    BY <1>2, <2>2 DEF LifeInv
  <2> QED BY <2>1, <2>3, <2>4, <2>5 DEF LifeInv
<1> QED BY <1>1, <1>2

(* Whatever order accounts are judged and graduated in, no two funded      *)
(* accounts share an evaluation, and the evaluation is closed for good:    *)
(* a theorem of AccountLifecycle, of whatever implements it.               *)
THEOREM OneAccountPerEvaluation == Lifecycle!Spec => []FundedOnce
<1>1. Lifecycle!Init => LifeInv(LifeStatus, LifeSource)
  <2> SUFFICES ASSUME Lifecycle!Init PROVE LifeInv(LifeStatus, LifeSource)
    OBVIOUS
  <2>1. /\ LifeStatus = [a \in Accounts |-> IF a \in Evaluations THEN "ACTIVE" ELSE "ABSENT"]
        /\ LifeSource = [a \in Accounts |-> NoSource]
    BY DEF Lifecycle!Init, LifeStatus, LifeSource
  <2> QED BY <2>1 DEF LifeInv, Lifecycle!Statuses
<1>2. ASSUME LifeInv(LifeStatus, LifeSource), [Lifecycle!Next]_Lifecycle!vars
      PROVE  LifeInv(LifeStatus, LifeSource)'
  <2>1. ASSUME NEW a \in Accounts, Lifecycle!Judge(a)
        PROVE  \E verdict \in {"PASSED", "FAILED"} :
                 /\ LifeStatus[a] = "ACTIVE" /\ LifeSource[a] = NoSource
                 /\ LifeStatus' = [LifeStatus EXCEPT ![a] = verdict] /\ LifeSource' = LifeSource
    BY <2>1 DEF Lifecycle!Judge, LifeStatus, LifeSource
  <2>2. ASSUME NEW e \in Accounts, NEW f \in Accounts, Lifecycle!Graduate(e, f)
        PROVE  /\ LifeStatus[e] = "PASSED" /\ LifeSource[e] = NoSource
               /\ LifeStatus[f] = "ABSENT"
               /\ LifeStatus' = [LifeStatus EXCEPT ![e] = "CLOSED", ![f] = "ACTIVE"]
               /\ LifeSource' = [LifeSource EXCEPT ![f] = e]
    BY <2>2 DEF Lifecycle!Graduate, LifeStatus, LifeSource
  <2>3. CASE UNCHANGED Lifecycle!vars
    <3>1. LifeStatus' = LifeStatus /\ LifeSource' = LifeSource
      BY <2>3 DEF Lifecycle!vars, LifeStatus, LifeSource
    <3> QED BY <1>2, <3>1 DEF LifeInv
  <2>4. CASE Lifecycle!Next
    <3>1. LifeInv(LifeStatus', LifeSource')
      <4>1. PICK s, t, s1, t1 : /\ s = LifeStatus /\ t = LifeSource
                                /\ s1 = LifeStatus' /\ t1 = LifeSource'
        OBVIOUS
      <4>2. LifeInv(s, t)
        BY <1>2, <4>1
      <4>3. \/ \E a \in Accounts, verdict \in {"PASSED", "FAILED"} :
                 /\ s[a] = "ACTIVE" /\ t[a] = NoSource
                 /\ s1 = [s EXCEPT ![a] = verdict] /\ t1 = t
            \/ \E e, f \in Accounts :
                 /\ s[e] = "PASSED" /\ t[e] = NoSource /\ s[f] = "ABSENT"
                 /\ s1 = [s EXCEPT ![e] = "CLOSED", ![f] = "ACTIVE"]
                 /\ t1 = [t EXCEPT ![f] = e]
        BY <2>1, <2>2, <2>4, <4>1 DEF Lifecycle!Next
      <4>4. LifeInv(s1, t1)
        BY <4>2, <4>3, LifeStep
      <4> QED BY <4>1, <4>4
    <3> QED BY <3>1 DEF LifeInv
  <2> QED BY <1>2, <2>3, <2>4
<1>3. LifeInv(LifeStatus, LifeSource) => FundedOnce
  BY DEF LifeInv, LifeStatus, LifeSource, FundedOnce, Lifecycle!FundedOnce
<1>4. QED
  BY <1>1, <1>2, <1>3, PTL DEF Lifecycle!Spec

(* So no two funded accounts of the order flow share an evaluation.        *)
THEOREM FundedOnceHolds == Spec => []FundedOnce
<1>1. QED
  BY LifecycleImplemented, OneAccountPerEvaluation, PTL DEF LifecycleKept

---------------------------------------------------------------------------
(* Comparing a rounded amount with a limit instead of the exact one shifts *)
(* the limit, in hundredths, by half a unit at most.                       *)
LEMMA RoundAgainstLimit ==
  ASSUME NEW n \in Int, NEW k \in Int, NEW q \in Nat \ {0}
  PROVE  /\ n * 100 < k * q => 100 * RoundDiv(n, q) < k + 50
         /\ n * 100 >= k * q => 100 * RoundDiv(n, q) + 50 >= k
<1> DEFINE r == RoundDiv(n, q)
<1>1. r \in Int /\ 2 * (r * q) - 2 * n <= q /\ 2 * n - 2 * (r * q) <= q
  BY RoundNear
<1> HIDE DEF r
<1>2. /\ r * q \in Int /\ k * q \in Int
      /\ (100 * r) * q = 100 * (r * q)
      /\ (k + 50) * q = k * q + 50 * q
      /\ (100 * r + 51) * q = 100 * (r * q) + 51 * q
  BY <1>1
<1>3. ASSUME n * 100 < k * q PROVE 100 * r < k + 50
  <2>1. (100 * r) * q < (k + 50) * q
    BY <1>1, <1>2, <1>3
  <2> QED BY <1>1, <2>1, CancelFactor
<1>4. ASSUME n * 100 >= k * q PROVE 100 * r + 50 >= k
  <2>1. k * q < (100 * r + 51) * q
    BY <1>1, <1>2, <1>4
  <2>2. k < 100 * r + 51
    BY <1>1, <2>1, CancelFactor
  <2> QED BY <1>1, <2>2
<1> QED BY <1>3, <1>4 DEF r

(* What VerdictExplained says of one row.                                  *)
Explained(x) ==
  /\ x.status = "FAILED" => \/ x.drawdownPercent >= 100 * Rules.maxDrawdown
                            \/ ShowsDailyBreach(x, 50)
  /\ x.status \in {"ACTIVE", "PASSED", "CLOSED"} =>
       /\ x.drawdownPercent <= 100 * Rules.maxDrawdown
       /\ ~ShowsDailyBreach(x, -50)
  /\ x.status \in {"PASSED", "CLOSED"} => ShowsTarget(x, 50)
  /\ x.status = "ACTIVE" /\ ShowsTarget(x, -50) =>
       Rules.profitTarget = 0 \/ TradingDays < Rules.minTradingDays

(* Each comparison check_post_trade makes on the unrounded figures shows   *)
(* in the row it leaves.                                                   *)
LEMMA VerdictShows ==
  ASSUME NEW x \in Account, NEW delta \in Int, NEW qty \in Nat \ {0}, NEW floating \in Int
  PROVE  LET v == Valuation(x, delta, qty, floating)
             y == AccountAfter(x, delta, qty, floating, Rules, TradingDays)
         IN  /\ BreachesDailyLoss(x, v, qty, Rules) => ShowsDailyBreach(y, 50)
             /\ ~BreachesDailyLoss(x, v, qty, Rules) => ~ShowsDailyBreach(y, -50)
             /\ BreachesDrawdown(v, Rules) => y.drawdownPercent >= 100 * Rules.maxDrawdown
             /\ ~BreachesDrawdown(v, Rules) => y.drawdownPercent <= 100 * Rules.maxDrawdown
             /\ ReachesTarget(x, v, qty, floating, Rules) => ShowsTarget(y, 50)
             /\ ~ReachesTarget(x, v, qty, floating, Rules) => ~ShowsTarget(y, -50)
<1> DEFINE v == Valuation(x, delta, qty, floating)
           y == AccountAfter(x, delta, qty, floating, Rules, TradingDays)
           loss == x.balance * Rules.maxDailyLoss
           target == x.balance * Rules.profitTarget
<1>1. /\ v.realized \in Int /\ v.equity \in Int /\ v.daily \in Int
      /\ v.hwm \in Int /\ v.drawdown \in Nat
  BY ValuationTyped
<1>2. /\ y.balance = x.balance /\ y.floating = floating
      /\ y.realized = RoundDiv(v.realized, qty) /\ y.daily = RoundDiv(v.daily, qty)
      /\ y.drawdownPercent = IF v.hwm > 0 THEN RoundDiv(v.drawdown * 10000, v.hwm) ELSE 0
  BY AccountTyped
<1>3. /\ x.balance \in Nat /\ Rules.maxDailyLoss \in Nat
      /\ Rules.maxDrawdown \in Nat /\ Rules.profitTarget \in Nat
  BY RulesAssumption DEF Account
<1>4. loss \in Nat /\ target \in Nat
  BY <1>3
<1>5. /\ x.balance * qty * Rules.maxDailyLoss = loss * qty
      /\ x.balance * qty * Rules.profitTarget = target * qty
      /\ (-loss) * qty = -(loss * qty)
  BY <1>3
<1> HIDE DEF v, y
<1>6. BreachesDailyLoss(x, v, qty, Rules) <=> v.daily * 100 < -(loss * qty)
  BY <1>5 DEF BreachesDailyLoss
<1>7. /\ ShowsDailyBreach(y, 50) <=> 100 * y.daily < 50 - loss
      /\ ShowsDailyBreach(y, -50) <=> 100 * y.daily < -50 - loss
  BY <1>2 DEF ShowsDailyBreach
<1>8. ReachesTarget(x, v, qty, floating, Rules) <=>
        (v.realized + floating * qty) * 100 >= target * qty
  BY <1>5 DEF ReachesTarget
<1>9. /\ ShowsTarget(y, 50) <=> 100 * (y.realized + floating) + 50 >= target
      /\ ShowsTarget(y, -50) <=> 100 * (y.realized + floating) + -50 >= target
  BY <1>2 DEF ShowsTarget
<1> HIDE DEF loss, target
<1>10. y.realized \in Int /\ y.daily \in Int
  <2>1. \A n \in Int : RoundDiv(n, qty) \in Int
    BY RoundNear
  <2> QED BY <1>1, <1>2, <2>1
<1>11. /\ BreachesDailyLoss(x, v, qty, Rules) => ShowsDailyBreach(y, 50)
       /\ ~BreachesDailyLoss(x, v, qty, Rules) => ~ShowsDailyBreach(y, -50)
  <2> DEFINE n == v.daily
             k == -loss
  <2>1. n \in Int /\ k \in Int /\ loss * qty \in Int
    BY <1>1, <1>4
  <2>2. /\ n * 100 < k * qty => 100 * RoundDiv(n, qty) < k + 50
        /\ n * 100 >= k * qty => 100 * RoundDiv(n, qty) + 50 >= k
    <3> HIDE DEF n, k
    <3> QED BY <2>1, RoundAgainstLimit
  <2>3. y.daily = RoundDiv(n, qty)
    BY <1>2
  <2> QED BY <1>1, <1>4, <1>5, <1>6, <1>7, <1>10, <2>1, <2>2, <2>3
<1>12. /\ ReachesTarget(x, v, qty, floating, Rules) => ShowsTarget(y, 50)
       /\ ~ReachesTarget(x, v, qty, floating, Rules) => ~ShowsTarget(y, -50)
  <2> DEFINE k == target - 100 * floating
  <2>1. k \in Int /\ floating * qty \in Int /\ target * qty \in Int
    BY <1>4
  <2>2. k * qty = target * qty - 100 * (floating * qty)
    BY <1>4
  <2>3. /\ v.realized * 100 < k * qty => 100 * y.realized < k + 50
        /\ v.realized * 100 >= k * qty => 100 * y.realized + 50 >= k
    <3> DEFINE n == v.realized
    <3>1. n \in Int /\ y.realized = RoundDiv(n, qty)
      BY <1>1, <1>2
    <3> HIDE DEF k, n
    <3>2. /\ n * 100 < k * qty => 100 * RoundDiv(n, qty) < k + 50
          /\ n * 100 >= k * qty => 100 * RoundDiv(n, qty) + 50 >= k
      BY <2>1, <3>1, RoundAgainstLimit
    <3> QED BY <3>1, <3>2 DEF n
  <2>4. (v.realized + floating * qty) * 100 >= target * qty <=> v.realized * 100 >= k * qty
    <3> HIDE DEF k
    <3> QED BY <1>1, <2>1, <2>2
  <2>5. k * qty \in Int /\ v.realized * 100 \in Int
    <3> HIDE DEF k
    <3> QED BY <1>1, <2>1
  <2>6. CASE v.realized * 100 >= k * qty
    BY <1>4, <1>8, <1>9, <1>10, <2>3, <2>4, <2>6
  <2>7. CASE v.realized * 100 < k * qty
    <3>1. ~(v.realized * 100 >= k * qty)
      <4> HIDE DEF k
      <4> QED BY <2>5, <2>7
    <3> QED BY <1>4, <1>8, <1>9, <1>10, <2>3, <2>4, <2>7, <3>1
  <2> QED
    <3> HIDE DEF k
    <3> QED BY <2>5, <2>6, <2>7
<1>13. /\ BreachesDrawdown(v, Rules) => y.drawdownPercent >= 100 * Rules.maxDrawdown
       /\ ~BreachesDrawdown(v, Rules) => y.drawdownPercent <= 100 * Rules.maxDrawdown
  <2> DEFINE limit == 100 * Rules.maxDrawdown
             scaled == v.drawdown * 10000
  <2>1. CASE v.hwm > 0
    <3>1. v.hwm \in Nat \ {0} /\ limit \in Int /\ scaled \in Int
      BY <1>1, <1>3, <2>1
    <3>2. limit * v.hwm \in Int /\ limit * v.hwm = 100 * (Rules.maxDrawdown * v.hwm)
          /\ Rules.maxDrawdown * v.hwm \in Int
      BY <1>1, <1>3
    <3>3. BreachesDrawdown(v, Rules) <=> v.drawdown * 100 >= Rules.maxDrawdown * v.hwm
      BY <2>1 DEF BreachesDrawdown
    <3>4. BreachesDrawdown(v, Rules) <=> limit * v.hwm <= scaled
      BY <1>1, <3>2, <3>3
    <3> HIDE DEF limit, scaled
    <3>5. RoundDiv(limit * v.hwm, v.hwm) = limit
      BY <3>1, RoundExact
    <3>6. limit * v.hwm <= scaled => limit <= RoundDiv(scaled, v.hwm)
      BY <3>1, <3>2, <3>5, RoundOrder
    <3>7. scaled <= limit * v.hwm => RoundDiv(scaled, v.hwm) <= limit
      BY <3>1, <3>2, <3>5, RoundOrder
    <3>8. y.drawdownPercent = RoundDiv(scaled, v.hwm)
      BY <1>2, <2>1 DEF scaled
    <3>9. limit * v.hwm <= scaled \/ scaled <= limit * v.hwm
      BY <3>1, <3>2
    <3>10. RoundDiv(scaled, v.hwm) \in Int
      BY <3>1, RoundNear
    <3> QED BY <3>1, <3>4, <3>6, <3>7, <3>8, <3>9, <3>10 DEF limit
  <2>2. CASE ~(v.hwm > 0)
    BY <1>2, <1>3, <2>2 DEF BreachesDrawdown
  <2> QED BY <2>1, <2>2
<1> QED BY <1>11, <1>12, <1>13 DEF v, y

(* A row judged while ACTIVE explains its verdict.                         *)
LEMMA MarkedExplained ==
  ASSUME NEW x \in Account, NEW delta \in Int, NEW qty \in Nat \ {0}, NEW floating \in Int,
         x.status = "ACTIVE"
  PROVE  Explained(AccountAfter(x, delta, qty, floating, Rules, TradingDays))
<1> DEFINE v == Valuation(x, delta, qty, floating)
           y == AccountAfter(x, delta, qty, floating, Rules, TradingDays)
           daily == BreachesDailyLoss(x, v, qty, Rules)
           drawdown == BreachesDrawdown(v, Rules)
           reached == ReachesTarget(x, v, qty, floating, Rules)
<1>1. /\ daily => ShowsDailyBreach(y, 50)
      /\ ~daily => ~ShowsDailyBreach(y, -50)
      /\ drawdown => y.drawdownPercent >= 100 * Rules.maxDrawdown
      /\ ~drawdown => y.drawdownPercent <= 100 * Rules.maxDrawdown
      /\ reached => ShowsTarget(y, 50)
      /\ ~reached => ~ShowsTarget(y, -50)
  BY VerdictShows
<1>2. y.status = IF daily \/ drawdown THEN "FAILED"
                 ELSE IF reached /\ TradingDays >= Rules.minTradingDays THEN "PASSED"
                 ELSE "ACTIVE"
  <2>1. y.status = Verdict(x, v, qty, floating, Rules, TradingDays)
    BY AccountTyped
  <2> HIDE DEF v, y
  <2> QED BY <2>1 DEF Verdict
<1>3. TradingDays \in Int /\ Rules.minTradingDays \in Int
  BY RulesAssumption DEF TradingDays
<1> SUFFICES Explained(y)
  OBVIOUS
<1> HIDE DEF y, daily, drawdown, reached
<1>4. CASE daily \/ drawdown
  BY <1>1, <1>2, <1>4 DEF Explained
<1>5. CASE ~daily /\ ~drawdown /\ reached /\ TradingDays >= Rules.minTradingDays
  BY <1>1, <1>2, <1>5 DEF Explained
<1>6. CASE ~daily /\ ~drawdown /\ ~(reached /\ TradingDays >= Rules.minTradingDays)
  <2>1. TradingDays >= Rules.minTradingDays \/ TradingDays < Rules.minTradingDays
    BY <1>3
  <2> QED BY <1>1, <1>2, <1>6, <2>1 DEF Explained
<1> QED BY <1>4, <1>5, <1>6

(* A row nobody traded on needs no explanation.                            *)
LEMMA NewExplained ==
  ASSUME NEW status \in {"ACTIVE", "ABSENT"}, NEW type, NEW source, NEW balance \in Nat
  PROVE  Explained(NewAccount(status, type, source, balance))
<1> DEFINE x == NewAccount(status, type, source, balance)
<1>1. /\ x.status = status /\ x.balance = balance /\ x.realized = 0 /\ x.floating = 0
      /\ x.daily = 0 /\ x.drawdownPercent = 0
  BY DEF NewAccount
<1>2. /\ Rules.maxDailyLoss \in Nat /\ Rules.maxDrawdown \in Nat /\ Rules.profitTarget \in Nat
  BY RulesAssumption
<1>3. balance * Rules.maxDailyLoss \in Nat /\ balance * Rules.profitTarget \in Nat
  BY <1>2
<1> HIDE DEF x
<1>4. ~ShowsDailyBreach(x, -50)
  BY <1>1, <1>3 DEF ShowsDailyBreach
<1>5. ~ShowsTarget(x, -50)
  BY <1>1, <1>3 DEF ShowsTarget
<1>6. Explained(x)
  BY <1>1, <1>2, <1>4, <1>5 DEF Explained
<1> QED BY <1>6 DEF x

ExplainedInv == \A a \in Accounts : Explained(accounts[a])

(* Every verdict is the one the account's stored figures show, up to half  *)
(* a unit of rounding, for any rules.                                      *)
THEOREM VerdictsExplained == Spec => []VerdictExplained
<1>1. Init => ExplainedInv
  <2> SUFFICES ASSUME Init, NEW a \in Accounts PROVE Explained(accounts[a])
    BY DEF ExplainedInv
  <2>1. \E status \in {"ACTIVE", "ABSENT"} :
          accounts[a] = NewAccount(status, "EVALUATION", NoSource, Capital)
    BY DEF Init
  <2> QED BY <2>1, NewExplained, AccountAssumption
<1>2. ASSUME ServingInv, ExplainedInv, [Next]_vars PROVE ExplainedInv'
  <2> USE <1>2 DEF ServingInv
  <2>1. CASE UNCHANGED accounts
    BY <2>1 DEF ExplainedInv
  <2>2. CASE CommitFill
    <3> DEFINE a == request.account
               delta == request.delta
               qty == request.qty
               floating == request.floating
               y == AccountAfter(accounts[a], delta, qty, floating, Rules, TradingDays)
    <3>1. /\ a \in Accounts /\ accounts[a] \in Account
          /\ delta \in Int /\ qty \in Nat \ {0} /\ floating \in Int
          /\ accounts' = [accounts EXCEPT ![a] = y]
      BY <2>2, CommitWrites
    <3>2. accounts[a].status = "ACTIVE"
      BY <2>2 DEF CommitFill, RequestActive
    <3> HIDE DEF a, delta, qty, floating
    <3>3. Explained(y)
      BY <3>1, <3>2, MarkedExplained
    <3> HIDE DEF y
    <3>4. accounts'[a] = y /\ \A b \in Accounts \ {a} : accounts'[b] = accounts[b]
      BY <3>1 DEF TypeOK
    <3> QED BY <3>3, <3>4 DEF ExplainedInv
  <2>3. ASSUME NEW e \in Accounts, NEW f \in Accounts, Graduate(e, f) PROVE ExplainedInv'
    <3> DEFINE new == NewAccount("ACTIVE", "FUNDED", e, FundedCapital)
    <3>1. /\ accounts[e].status = "PASSED" /\ accounts[f].status = "ABSENT" /\ e # f
          /\ accounts' = [accounts EXCEPT ![e].status = "CLOSED", ![f] = new]
      BY <2>3, GraduateWrites DEF Graduate
    <3>2. Explained(new)
      BY NewExplained, AccountAssumption
    <3> HIDE DEF new
    <3>3. /\ accounts'[e] = [accounts[e] EXCEPT !.status = "CLOSED"] /\ accounts'[f] = new
          /\ \A b \in Accounts \ {e, f} : accounts'[b] = accounts[b]
      BY <3>1 DEF TypeOK
    <3>4. Explained(accounts'[e])
      <4> DEFINE x == accounts[e]
                 z == accounts'[e]
      <4>1. x \in Account /\ x.status = "PASSED" /\ Explained(x)
        BY <3>1 DEF TypeOK, ExplainedInv
      <4>2. /\ z.status = "CLOSED" /\ z.balance = x.balance /\ z.realized = x.realized
            /\ z.floating = x.floating /\ z.daily = x.daily
            /\ z.drawdownPercent = x.drawdownPercent
        BY <3>3, <4>1 DEF Account
      <4> HIDE DEF x, z
      <4>3. /\ ShowsDailyBreach(z, -50) <=> ShowsDailyBreach(x, -50)
            /\ ShowsTarget(z, 50) <=> ShowsTarget(x, 50)
        BY <4>2 DEF ShowsDailyBreach, ShowsTarget
      <4>4. Explained(z)
        BY <4>1, <4>2, <4>3 DEF Explained
      <4> QED BY <4>4 DEF z
    <3> QED BY <3>2, <3>3, <3>4 DEF ExplainedInv
  <2> QED BY <2>1, <2>2, <2>3, AccountSteps
<1>3. ExplainedInv => VerdictExplained
  BY DEF ExplainedInv, Explained, VerdictExplained
<1>4. QED
  BY <1>1, <1>2, <1>3, ServingAlways, PTL DEF Spec

---------------------------------------------------------------------------
(* The margin of one contract, for any quantity: so much a unit, and       *)
(* nothing of what is not short.                                           *)
MarginUnit(i) == Greater(Strike[i] * LotSize * ShortMarginPercent, 100 * MinMarginPerLot)

LEMMA MarginPerUnit ==
  ASSUME NEW i \in Instruments, NEW qty \in Int
  PROVE  /\ MarginUnit(i) \in Nat
         /\ Margin(i, qty) = IF qty <= 0 THEN 0 ELSE MarginUnit(i) * qty
         /\ Margin(i, qty) \in Int
<1>1. /\ Strike[i] \in Nat /\ LotSize \in Nat \ {0}
      /\ ShortMarginPercent \in Nat /\ MinMarginPerLot \in Nat
  BY InstrumentAssumption
<1>2. PICK notional : notional = Strike[i] * LotSize * ShortMarginPercent
  OBVIOUS
<1>3. PICK m \in Nat, n \in Nat : m = Strike[i] /\ n = LotSize
  BY <1>1
<1>4. m * n \in Nat
  BY <1>3
<1>5. notional \in Nat
  BY <1>1, <1>2, <1>3, <1>4
<1>6. MarginUnit(i) \in Nat
  BY <1>1, <1>2, <1>5 DEF MarginUnit, Greater
<1>7. Margin(i, qty) = IF qty <= 0 THEN 0 ELSE MarginUnit(i) * qty
  BY <1>1 DEF Margin, MarginScaled, MarginUnit
<1>8. MarginUnit(i) * qty \in Int
  BY <1>6
<1> QED BY <1>6, <1>7, <1>8

(* An order that opens or extends a short asks no more margin for what it  *)
(* fills than was checked for what it might have filled.                   *)
LEMMA FillsWithinCheck ==
  ASSUME NEW i \in Instruments, NEW net \in Int, NEW qty \in Int,
         NEW fill \in Nat \ {0}, fill <= qty, net - fill < 0
  PROVE  LET opening == Greater(0, qty - Greater(0, net))
         IN  /\ opening \in Nat /\ opening > 0
             /\ Margin(i, fill - net) - Margin(i, -net) <= Margin(i, opening)
<1>1. PICK opening : opening = Greater(0, qty - Greater(0, net))
  OBVIOUS
<1>2. PICK unit \in Nat : unit = MarginUnit(i)
  BY MarginPerUnit, 0 \in Int
<1>3. CASE net >= 0
  <2>1. opening = qty - net /\ fill - net \in Nat /\ fill - net <= opening /\ fill - net > 0
    BY <1>1, <1>3 DEF Greater
  <2>2. /\ Margin(i, fill - net) = unit * (fill - net)
        /\ Margin(i, -net) = 0 /\ Margin(i, opening) = unit * opening
    BY <1>2, <1>3, <2>1, MarginPerUnit
  <2>3. PICK m \in Nat : m = fill - net
    BY <2>1
  <2>4. m * unit <= opening * unit
    BY <2>1, <2>3, TimesOrder
  <2>5. unit * m = m * unit /\ unit * opening = opening * unit /\ m * unit \in Int
    BY <2>1
  <2>6. opening \in Nat /\ opening > 0
    BY <2>1
  <2> QED BY <1>1, <2>2, <2>3, <2>4, <2>5, <2>6
<1>4. CASE net < 0
  <2>1. opening = qty /\ fill - net \in Nat /\ fill - net > 0 /\ -net > 0 /\ qty \in Nat /\ qty > 0
    BY <1>1, <1>4 DEF Greater
  <2>2. PICK m \in Nat : m = -net
    BY <2>1
  <2>3. fill - net = fill + m
    BY <2>2
  <2>4. /\ Margin(i, fill - net) = unit * (fill + m)
        /\ Margin(i, -net) = unit * m /\ Margin(i, opening) = unit * qty
    BY <1>2, <2>1, <2>2, <2>3, MarginPerUnit
  <2>5. unit * (fill + m) = fill * unit + unit * m /\ fill * unit \in Int /\ unit * m \in Int
    OBVIOUS
  <2>6. fill * unit <= qty * unit /\ qty * unit = unit * qty
    BY <2>1, TimesOrder
  <2>7. unit * (fill + m) - unit * m <= unit * qty
    BY <2>5, <2>6
  <2> QED BY <1>1, <2>1, <2>4, <2>7
<1> QED BY <1>3, <1>4

---------------------------------------------------------------------------
(* The margin an account uses, of any table of positions: the sum over all *)
(* contracts, of which those not short add nothing.                        *)
ShortsIn(table, a) == {i \in Instruments : table[a, i].net < 0}
MarginIn(table, a) == MapThenSumSet(LAMBDA i : Margin(i, -table[a, i].net), ShortsIn(table, a))
Margins(table, a) == [i \in Instruments |-> Margin(i, -table[<<a, i>>].net)]

LEMMA MarginAdds ==
  ASSUME NEW table \in [Keys -> Position], NEW a \in Accounts,
         NEW sum, IsSum(sum, Margins(table, a), Instruments)
  PROVE  MarginIn(table, a) = sum[ShortsIn(table, a)]
<1> DEFINE m(i) == Margin(i, -table[a, i].net)
           S == ShortsIn(table, a)
           iter[s \in SUBSET S] ==
             IF s = {} THEN 0
             ELSE m(CHOOSE x \in s : TRUE) + iter[s \ {CHOOSE x \in s : TRUE}]
<1>1. MarginIn(table, a) = iter[S]
  BY DEF MarginIn, MapThenSumSet, MapThenFoldSet
<1>2. S \in SUBSET Instruments
  BY DEF ShortsIn
<1>3. \A i \in Instruments : m(i) = Margins(table, a)[i]
  BY Zenon DEF Margins
<1>4. PICK f : f = Margins(table, a)
  OBVIOUS
<1> HIDE DEF m, S
<1>5. sum = [s \in SUBSET Instruments |->
               IF s = {} THEN 0
               ELSE m(CHOOSE x \in s : TRUE) + sum[s \ {CHOOSE x \in s : TRUE}]]
  BY <1>3, <1>4 DEF IsSum
<1>6. PICK part : part = [s \in SUBSET S |-> sum[s]]
  OBVIOUS
<1>7. part = [s \in SUBSET S |->
               IF s = {} THEN 0
               ELSE m(CHOOSE x \in s : TRUE) + part[s \ {CHOOSE x \in s : TRUE}]]
  <2>1. ASSUME NEW s \in SUBSET S
        PROVE  s \in SUBSET Instruments /\ s \ {CHOOSE x \in s : TRUE} \in SUBSET S
    BY <1>2
  <2>2. ASSUME NEW s \in SUBSET S
        PROVE  sum[s] = IF s = {} THEN 0
                        ELSE m(CHOOSE x \in s : TRUE) + sum[s \ {CHOOSE x \in s : TRUE}]
    BY <1>5, <2>1
  <2> QED BY <1>6, <2>1, <2>2
<1>8. iter = [s \in SUBSET S |->
               IF s = {} THEN 0
               ELSE m(CHOOSE x \in s : TRUE) + iter[s \ {CHOOSE x \in s : TRUE}]]
  BY <1>7
<1>9. PICK g : g = iter
  OBVIOUS
<1> HIDE DEF iter
<1>10. AddsUp(g, f, S)
  BY <1>2, <1>3, <1>4, <1>8, <1>9 DEF AddsUp
<1>11. g[S] = sum[S]
  BY <1>2, <1>4, <1>10, PartUnique, InstrumentAssumption
<1> QED BY <1>1, <1>9, <1>11 DEF S

(* Who is short, and by how much margin. *)
LEMMA ShortsAre ==
  ASSUME NEW table \in [Keys -> Position], NEW a \in Accounts
  PROVE  /\ ShortsIn(table, a) \in SUBSET Instruments
         /\ Margins(table, a) \in [Instruments -> Int]
         /\ \A i \in Instruments : i \notin ShortsIn(table, a) => Margins(table, a)[i] = 0
<1>1. ShortsIn(table, a) = {i \in Instruments : table[<<a, i>>].net < 0}
  BY Zenon DEF ShortsIn
<1>2. \A i \in Instruments : table[<<a, i>>] \in Position /\ table[<<a, i>>].net \in Int
  BY DEF Keys, Position
<1>3. ASSUME NEW i \in Instruments
      PROVE  /\ Margin(i, -table[<<a, i>>].net) \in Int
             /\ ~ (table[<<a, i>>].net < 0) => Margin(i, -table[<<a, i>>].net) = 0
  <2>1. PICK net \in Int : net = table[<<a, i>>].net
    BY <1>2
  <2>2. -net \in Int /\ (~ (net < 0) => -net <= 0)
    OBVIOUS
  <2> QED BY <2>1, <2>2, MarginPerUnit
<1> QED BY <1>1, <1>3 DEF Margins

(* The margin in use is a whole number of units. *)
LEMMA MarginTyped ==
  ASSUME NEW table \in [Keys -> Position], NEW a \in Accounts
  PROVE  MarginIn(table, a) \in Int
<1>1. PICK f, S : f = Margins(table, a) /\ S = ShortsIn(table, a)
  OBVIOUS
<1>2. f \in [Instruments -> Int] /\ S \in SUBSET Instruments /\ IsFiniteSet(Instruments)
  BY <1>1, ShortsAre, InstrumentAssumption
<1>3. PICK sum : IsSum(sum, f, Instruments)
  BY <1>2, SumExists
<1>4. MarginIn(table, a) = sum[S]
  BY <1>1, <1>3, MarginAdds
<1> QED BY <1>2, <1>3, <1>4 DEF IsSum

(* One position changes the margin of its account, by its own.             *)
MarginMoved(table, after, a, i, net) ==
  /\ MarginIn(after, a) = MarginIn(table, a)
       + (Margin(i, -net) - Margin(i, -table[<<a, i>>].net))
  /\ \A b \in Accounts : b # a => MarginIn(after, b) = MarginIn(table, b)

LEMMA MarginMoves ==
  ASSUME NEW table \in [Keys -> Position], NEW a \in Accounts, NEW i \in Instruments,
         NEW position \in Position, NEW after, after = [table EXCEPT ![<<a, i>>] = position]
  PROVE  MarginMoved(table, after, a, i, position.net)
<1>1. IsFiniteSet(Instruments) /\ after \in [Keys -> Position]
  BY InstrumentAssumption DEF Keys
<1>2. /\ after[<<a, i>>] = position
      /\ \A b \in Accounts, j \in Instruments :
           <<b, j>> # <<a, i>> => after[<<b, j>>] = table[<<b, j>>]
  BY DEF Keys
<1>3. PICK f, h, S, R : /\ f = Margins(table, a) /\ S = ShortsIn(table, a)
                        /\ h = Margins(after, a) /\ R = ShortsIn(after, a)
  OBVIOUS
<1>4. /\ f \in [Instruments -> Int] /\ h \in [Instruments -> Int]
      /\ S \in SUBSET Instruments /\ R \in SUBSET Instruments
      /\ i \notin S => f[i] = 0
      /\ i \notin R => h[i] = 0
  BY <1>1, <1>3, ShortsAre
<1>5. /\ f[i] = Margin(i, -table[<<a, i>>].net) /\ h[i] = Margin(i, -position.net)
      /\ \A j \in Instruments : j # i => h[j] = f[j]
  BY <1>2, <1>3 DEF Margins
<1>6. S \ {i} = R \ {i}
  <2>1. /\ S = {j \in Instruments : table[<<a, j>>].net < 0}
        /\ R = {j \in Instruments : after[<<a, j>>].net < 0}
    BY <1>3, Zenon DEF ShortsIn
  <2> QED BY <1>2, <2>1
<1>7. PICK sum : IsSum(sum, f, Instruments)
  BY <1>1, <1>4, SumExists
<1>8. PICK new : IsSum(new, h, Instruments)
  BY <1>1, <1>4, SumExists
<1>9. sum[S] \in Int /\ new[R] = sum[S] + (h[i] - f[i])
  BY <1>1, <1>4, <1>5, <1>6, <1>7, <1>8, SumChanges
<1>10. MarginIn(table, a) = sum[S] /\ MarginIn(after, a) = new[R]
  BY <1>1, <1>3, <1>7, <1>8, MarginAdds
<1>11. ASSUME NEW b \in Accounts, b # a PROVE MarginIn(after, b) = MarginIn(table, b)
  <2>1. \A j \in Instruments : after[<<b, j>>] = table[<<b, j>>]
    BY <1>2, <1>11
  <2>2. Margins(after, b) = Margins(table, b)
    BY <2>1 DEF Margins
  <2>3. /\ ShortsIn(table, b) = {j \in Instruments : table[<<b, j>>].net < 0}
        /\ ShortsIn(after, b) = {j \in Instruments : after[<<b, j>>].net < 0}
    BY Zenon DEF ShortsIn
  <2>4. ShortsIn(after, b) = ShortsIn(table, b)
    BY <2>1, <2>3
  <2>5. PICK g : g = Margins(table, b)
    OBVIOUS
  <2>6. g \in [Instruments -> Int]
    BY <2>5, ShortsAre
  <2>7. PICK total : IsSum(total, g, Instruments)
    BY <1>1, <2>6, SumExists
  <2>8. MarginIn(table, b) = total[ShortsIn(table, b)]
    BY <2>5, <2>7, MarginAdds
  <2>9. MarginIn(after, b) = total[ShortsIn(after, b)]
    BY <1>1, <2>2, <2>5, <2>7, MarginAdds
  <2> QED BY <2>4, <2>8, <2>9
<1> QED BY <1>5, <1>9, <1>10, <1>11 DEF MarginMoved

---------------------------------------------------------------------------
(* The margin in use is that of the positions table, in either state.      *)
LEMMA MarginUsedIs == \A a \in Accounts : MarginUsed(a) = MarginIn(positions, a)
BY Zenon DEF MarginUsed, MarginIn, ShortsIn

LEMMA MarginUsedNext == \A a \in Accounts : MarginUsed(a)' = MarginIn(positions', a)
<1>1. (\A a \in Accounts : MarginUsed(a) = MarginIn(positions, a))'
  BY MarginUsedIs, PTL
<1> QED BY <1>1

(* What a request in progress is known to be good for: if it leaves its    *)
(* position shorter than it was, the equity covers the margin that will    *)
(* then be in use.                                                         *)
MarginCovered ==
  request # NoRequest =>
    LET a    == request.account
        i    == request.instrument
        net  == request.position.net
        held == positions[<<a, i>>].net
    IN  net < 0 /\ net < held =>
          MarginIn(positions, a) + (Margin(i, -net) - Margin(i, -held))
            <= Scaled(accounts[a].equity)

(* The pre-trade check covers whatever the order then fills.               *)
LEMMA FillCovers ==
  ASSUME TypeOK, NEW a \in Accounts, NEW i \in Instruments, NEW side \in Sides,
         NEW qty \in Quantities, FillOrder(a, i, side, qty)
  PROVE  MarginCovered'
<1>1. PICK held \in Int : held = positions[<<a, i>>].net
  BY DEF TypeOK, Keys, Position
<1>2. /\ request' \in Request /\ request'.account = a /\ request'.instrument = i
      /\ request'.position.net = positions[a, i].net + request'.traded
      /\ UNCHANGED <<accounts, positions>>
  BY FillHandsOver
<1>3. PICK fill \in Nat \ {0} : fill <= qty /\ request'.traded = SignedQuantity(side, fill)
  <2>0. PICK quote \in Quotes :
          LET match == Match(quote, side, qty)
              old   == positions[a, i]
              new   == PositionAfter(old, side, match)
          IN  /\ match.qty # 0
              /\ request' =
                   [account |-> a, instrument |-> i,
                    order |-> [account |-> a, type |-> "MARKET", quantity |-> qty,
                               filled |-> match.qty,
                               status |-> IF match.qty = qty THEN "FILLED"
                                                             ELSE "PARTIALLY_FILLED"],
                    position |-> new,
                    traded   |-> SignedQuantity(side, match.qty),
                    qty      |-> match.qty,
                    delta    |-> RealizedNumerator(old, side, match),
                    toMark   |-> OpenAfter(a, i, new),
                    floating |-> 0]
    BY DEF FillOrder
  <2>1. Match(quote, side, qty).qty # 0
        /\ request'.traded = SignedQuantity(side, Match(quote, side, qty).qty)
    BY <2>0, Zenon
  <2>2. PICK levels \in Seq(PricedLevel) : Match(quote, side, qty) = WalkBook(levels, qty)
    <3>1. quote.asks \in Seq(PricedLevel) /\ quote.bids \in Seq(PricedLevel) /\ quote # NoQuote
      BY QuoteAssumption DEF Level, PricedLevel
    <3> QED BY <3>1 DEF Match
  <2>3. qty \in Int
    BY BoundAssumption
  <2>4. PICK match : match = WalkBook(levels, qty)
    OBVIOUS
  <2>5. match.qty \in Nat \ {0} /\ match.qty <= qty
    BY <2>1, <2>2, <2>3, <2>4, WalkFills
  <2> QED BY <2>1, <2>2, <2>4, <2>5
<1>4. PICK net \in Int : net = request'.position.net /\ net = held + SignedQuantity(side, fill)
  <2>1. positions[a, i] = positions[<<a, i>>]
    BY Zenon
  <2>2. held + SignedQuantity(side, fill) \in Int
    BY <1>3 DEF SignedQuantity
  <2> QED BY <1>1, <1>2, <1>3, <2>1, <2>2
<1>5. SUFFICES ASSUME net < 0, net < held
               PROVE  MarginIn(positions, a) + (Margin(i, -net) - Margin(i, -held))
                        <= Scaled(accounts[a].equity)
  BY <1>1, <1>2, <1>4 DEF MarginCovered
<1>6. side = "SELL" /\ net = held - fill
  BY <1>3, <1>4, <1>5 DEF SignedQuantity, Sides
<1>7. CoversMargin(a, i, qty)
  BY <1>6 DEF FillOrder, Passes, PreTradeAllowed
<1>8. qty \in Int /\ Scaled(accounts[a].equity) \in Int /\ MarginUsed(a) \in Int
  <2>1. accounts[a].equity \in Int /\ LotSize \in Nat \ {0}
    BY InstrumentAssumption DEF TypeOK, Account
  <2>2. Scaled(accounts[a].equity) \in Int
    BY <2>1 DEF Scaled
  <2>3. MarginUsed(a) = MarginIn(positions, a)
    BY MarginUsedIs
  <2>4. positions \in [Keys -> Position] /\ positions[<<a, i>>] \in Position
    BY DEF TypeOK, Keys
  <2>5. MarginIn(positions, a) \in Int
    BY <2>4, MarginTyped
  <2> QED BY <2>2, <2>3, <2>5, BoundAssumption
<1>9. PICK opening : opening = Greater(0, qty - Greater(0, held))
  OBVIOUS
<1>10. /\ opening \in Nat /\ opening > 0
       /\ Margin(i, fill - held) - Margin(i, -held) <= Margin(i, opening)
  BY <1>3, <1>5, <1>6, <1>8, <1>9, FillsWithinCheck
<1>11. Scaled(accounts[a].equity) - MarginUsed(a) >= Margin(i, opening)
  <2>1. positions[a, i].net = held
    BY <1>1, Zenon
  <2> QED BY <1>7, <1>9, <1>10, <2>1 DEF CoversMargin
<1>12. -net = fill - held
  BY <1>3, <1>6
<1>13. PICK m, used, equity, more :
         /\ m = Margin(i, fill - held) - Margin(i, -held) /\ used = MarginUsed(a)
         /\ equity = Scaled(accounts[a].equity) /\ more = Margin(i, opening)
  OBVIOUS
<1>14. /\ m \in Int /\ used \in Int /\ equity \in Int /\ more \in Int
  <2>1. Margin(i, fill - held) \in Int /\ Margin(i, -held) \in Int /\ Margin(i, opening) \in Int
    BY <1>3, <1>10, MarginPerUnit
  <2> QED BY <1>8, <1>13, <2>1
<1>15. used + m <= equity
  BY <1>10, <1>11, <1>13, <1>14
<1>16. MarginUsed(a) = MarginIn(positions, a)
  BY MarginUsedIs
<1> QED BY <1>12, <1>13, <1>15, <1>16

(* Only a position that ends up shorter takes more margin.                 *)
LEMMA MoreMarginIsShorter ==
  ASSUME NEW i \in Instruments, NEW net \in Int, NEW held \in Int,
         Margin(i, -net) > Margin(i, -held)
  PROVE  net < 0 /\ net < held
<1>1. PICK m \in Int, n \in Int : m = -net /\ n = -held
  OBVIOUS
<1>2. PICK unit \in Nat : unit = MarginUnit(i)
  BY <1>1, MarginPerUnit
<1>3. /\ Margin(i, m) = IF m <= 0 THEN 0 ELSE unit * m
      /\ Margin(i, n) = IF n <= 0 THEN 0 ELSE unit * n
  BY <1>2, MarginPerUnit
<1>4. Margin(i, m) > Margin(i, n)
  BY <1>1
<1>5. unit * m = m * unit /\ unit * n = n * unit /\ m * unit \in Int /\ n * unit \in Int
  OBVIOUS
<1>6. n > 0 => n * unit >= 0
  <2>1. n > 0 => 0 * unit <= n * unit
    BY TimesOrder
  <2> QED BY <2>1
<1>7. m <= n => m * unit <= n * unit
  BY TimesOrder
<1>8. m > 0
  BY <1>3, <1>4, <1>5, <1>6
<1>9. ~ (m <= n)
  BY <1>3, <1>4, <1>5, <1>7, <1>8
<1> QED BY <1>1, <1>8, <1>9

(* From the check to the commit the margin stays covered. *)
LEMMA CoveredAlways == Spec => []MarginCovered
<1>1. Init => MarginCovered
  BY DEF Init, MarginCovered
<1>2. ASSUME TypeOK, MarginCovered, [Next]_vars PROVE MarginCovered'
  <2>1. ASSUME UNCHANGED <<accounts, positions>>, request # NoRequest,
               request'.account = request.account,
               request'.instrument = request.instrument,
               request'.position = request.position
        PROVE  MarginCovered'
    BY <1>2, <2>1 DEF MarginCovered
  <2>2. CASE UNCHANGED <<accounts, positions, trades, ledger, request>>
    BY <1>2, <2>2 DEF MarginCovered
  <2>3. ASSUME NEW a \in Accounts, NEW i \in Instruments, NEW side \in Sides,
               NEW qty \in Quantities, FillOrder(a, i, side, qty)
        PROVE  MarginCovered'
    BY <1>2, <2>3, FillCovers
  <2>4. CASE MarkPosition
    <3>1. request # NoRequest
      BY <2>4 DEF MarkPosition
    <3> QED BY <1>2, <2>1, <2>4, <3>1, MarkKeeps
  <2>5. CASE CommitFill \/ RollBack
    BY <2>5 DEF CommitFill, RollBack, MarginCovered
  <2>6. ASSUME NEW e \in Accounts, NEW f \in Accounts, Graduate(e, f)
        PROVE  MarginCovered'
    BY <2>6 DEF Graduate, MarginCovered
  <2> QED BY <1>2, <2>2, <2>3, <2>4, <2>5, <2>6, StepKinds
<1>3. QED
  BY <1>1, <1>2, TypesKept, PTL DEF Spec

(* The commit of a fill that takes more margin leaves all of the account's *)
(* margin within the equity it was checked against.                        *)
THEOREM ShortsCovered == Spec => ShortsWithinMargin
<1> DEFINE Within(a) == MarginUsed(a)' > MarginUsed(a) =>
                          MarginUsed(a)' <= Scaled(accounts[a].equity)
<1>1. ASSUME TypeOK, MarginCovered, [Next]_vars, NEW a \in Accounts PROVE Within(a)
  <2>1. /\ MarginUsed(a) = MarginIn(positions, a) /\ MarginUsed(a)' = MarginIn(positions', a)
    BY MarginUsedIs, MarginUsedNext
  <2>2. positions \in [Keys -> Position]
    BY <1>1 DEF TypeOK
  <2>3. MarginIn(positions, a) \in Int
    BY <2>2, MarginTyped
  <2>4. CASE positions' = positions
    <3>1. ~ (MarginUsed(a)' > MarginUsed(a))
      BY <2>1, <2>3, <2>4
    <3> QED BY <3>1
  <2>5. CASE CommitFill
    <3>1. request \in Request /\ request # NoRequest
      BY <1>1, <2>5 DEF TypeOK, CommitFill
    <3>2. PICK b \in Accounts, i \in Instruments, position \in Position :
            b = request.account /\ i = request.instrument /\ position = request.position
      BY <3>1 DEF Request
    <3>3. positions' = [positions EXCEPT ![<<b, i>>] = position]
      BY <2>5, <3>2 DEF CommitFill
    <3>4. PICK net \in Int, held \in Int :
            net = position.net /\ held = positions[<<b, i>>].net
      BY <2>2 DEF Keys, Position
    <3>5. /\ MarginIn(positions', b) = MarginIn(positions, b)
               + (Margin(i, -net) - Margin(i, -held))
          /\ b # a => MarginIn(positions', a) = MarginIn(positions, a)
      <4>1. PICK after : after = positions'
        OBVIOUS
      <4>2. PICK table \in [Keys -> Position] : table = positions
        BY <2>2
      <4>3. after = [table EXCEPT ![<<b, i>>] = position]
        BY <3>3, <4>1, <4>2
      <4>4. MarginMoved(table, after, b, i, position.net)
        BY <4>3, MarginMoves
      <4> QED BY <3>4, <4>1, <4>2, <4>4 DEF MarginMoved
    <3>6. CASE b # a
      <4>1. ~ (MarginUsed(a)' > MarginUsed(a))
        BY <2>1, <2>3, <3>5, <3>6
      <4> QED BY <4>1
    <3>7. CASE b = a
      <4> SUFFICES ASSUME MarginUsed(a)' > MarginUsed(a)
                   PROVE  MarginUsed(a)' <= Scaled(accounts[a].equity)
        OBVIOUS
      <4>1. PICK used, mine, was : /\ used = MarginIn(positions, a)
                                   /\ mine = Margin(i, -net) /\ was = Margin(i, -held)
        OBVIOUS
      <4>2. used \in Int /\ mine \in Int /\ was \in Int
        BY <2>3, <4>1, MarginPerUnit
      <4>3. used + (mine - was) > used
        BY <2>1, <3>5, <3>7, <4>1
      <4>4. mine > was
        BY <4>2, <4>3
      <4>5. net < 0 /\ net < held
        BY <4>1, <4>4, MoreMarginIsShorter
      <4>6. MarginIn(positions, b) + (Margin(i, -net) - Margin(i, -held))
              <= Scaled(accounts[b].equity)
        BY <1>1, <3>1, <3>2, <3>4, <4>5 DEF MarginCovered
      <4> QED BY <2>1, <3>5, <3>7, <4>6
    <3> QED BY <3>6, <3>7
  <2>6. UNCHANGED positions \/ CommitFill
    <3>1. ASSUME NEW b \in Accounts, NEW i \in Instruments, NEW side \in Sides,
                 NEW qty \in Quantities, FillOrder(b, i, side, qty)
          PROVE  UNCHANGED positions
      BY <3>1 DEF FillOrder
    <3>2. MarkPosition \/ RollBack => UNCHANGED positions
      BY DEF MarkPosition, RollBack
    <3>3. \A e, f \in Accounts : Graduate(e, f) => UNCHANGED positions
      BY DEF Graduate
    <3> QED BY <1>1, <3>1, <3>2, <3>3, StepKinds
  <2> QED BY <2>4, <2>5, <2>6
<1>2. ASSUME TypeOK, MarginCovered, [Next]_vars PROVE [\A a \in Accounts : Within(a)]_vars
  BY <1>1, <1>2
<1>3. QED
  BY <1>2, TypesKept, CoveredAlways, PTL DEF Spec, ShortsWithinMargin

=============================================================================
