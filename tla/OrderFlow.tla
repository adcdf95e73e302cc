----------------------------- MODULE OrderFlow -----------------------------
(***************************************************************************)
(* Orders, positions and accounts when one request runs at a time:         *)
(* OrderService.place_order with the risk engine, the execution providers, *)
(* the position update, the mark to market and the ledger, and             *)
(* AccountGraduationService.graduate_account.                              *)
(*                                                                         *)
(* A request that does not fill is one step, for it commits nothing but    *)
(* its own Order row.  One that fills lives in `request' until it commits: *)
(* FillOrder takes it through the position update, MarkPosition reads the  *)
(* quote of one open position, CommitFill runs the post-trade rules and    *)
(* commits.  The market is not state: it ticks between any two awaits, so  *)
(* every read of the quote cache returns any of Quotes, or nothing.        *)
(***************************************************************************)
EXTENDS TradeMath, FiniteSetsExt

CONSTANTS
  Accounts, Evaluations, NoSource,   \* as in AccountLifecycle
  Instruments,                       \* the tradable option contracts
  Quotes,                            \* what the feed may quote: [ltp, asks, bids]
  NoQuote, NoRequest,
  Quantities,                        \* order quantities
  Types,                             \* order types in use
  Capital, FundedCapital,            \* starting balances
  Rules,                             \* the RuleVersion: percentages and days
  Strike, LotSize, ShortMarginPercent, MinMarginPerLot,
  MaxOrders                          \* bound: orders placed in a behaviour

Level == [price : Nat \ {0}, quantity : Nat]
Fill  == [qty : Nat \ {0}, value : Nat \ {0}]

ASSUME AccountAssumption ==
  /\ Evaluations \subseteq Accounts /\ NoSource \notin Accounts
  /\ Capital \in Nat \ {0} /\ FundedCapital \in Nat \ {0}
ASSUME RulesAssumption ==
  Rules \in [maxDailyLoss : Nat, maxDrawdown : Nat, profitTarget : Nat, minTradingDays : Nat]
ASSUME InstrumentAssumption ==
  /\ IsFiniteSet(Instruments)
  /\ Strike \in [Instruments -> Nat] /\ LotSize \in Nat \ {0}
  /\ ShortMarginPercent \in Nat /\ MinMarginPerLot \in Nat
ASSUME BoundAssumption == MaxOrders \in Nat /\ Quantities \subseteq Int
ASSUME QuoteAssumption ==
  /\ Quotes \subseteq [ltp : Nat, asks : Seq(Level), bids : Seq(Level)]
  /\ NoQuote \notin Quotes

VARIABLES
  accounts,   \* the accounts table
  positions,  \* the positions table; a missing row reads as a flat one
  trades,     \* signed quantity of the trades rows, per account and instrument
  ledger,     \* [sum, entries] of the ledger_entries rows, per account
  request,    \* the order being filled, from FillOrder to CommitFill
  lastOrder,  \* the Order row committed last
  placed      \* orders placed so far

vars == <<accounts, positions, trades, ledger, request, lastOrder, placed>>

Sides == {"BUY", "SELL"}
Keys  == Accounts \X Instruments

Account == [status          : {"ABSENT", "ACTIVE", "PASSED", "FAILED", "CLOSED"},
            type            : {"EVALUATION", "FUNDED"},
            source          : Accounts \union {NoSource},
            balance         : Nat,
            equity          : Int,
            realized        : Int,
            floating        : Int,
            daily           : Int,
            hwm             : Int,
            drawdown        : Nat,
            drawdownPercent : Int]

Position == [net : Int, entry : Int, realized : Int]
Order    == [account : Accounts \union {NoSource}, type : Types \union {"MARKET"},
             quantity : Int, filled : Int,
             status : {"OPEN", "PARTIALLY_FILLED", "FILLED", "REJECTED"}]
Request  == [account : Accounts, instrument : Instruments, order : Order,
             position : Position, traded : Int, qty : Nat \ {0}, delta : Int,
             toMark : SUBSET Instruments, floating : Int]

(* A fresh account: starting balance, equity and high water mark agree.    *)
NewAccount(status, type, source, balance) ==
  [status |-> status, type |-> type, source |-> source, balance |-> balance,
   equity |-> balance, realized |-> 0, floating |-> 0, daily |-> 0,
   hwm |-> balance, drawdown |-> 0, drawdownPercent |-> 0]

FlatPosition == [net |-> 0, entry |-> 0, realized |-> 0]

Init ==
  /\ accounts = [a \in Accounts |->
                   NewAccount(IF a \in Evaluations THEN "ACTIVE" ELSE "ABSENT",
                              "EVALUATION", NoSource, Capital)]
  /\ positions = [k \in Keys |-> FlatPosition]
  /\ trades    = [k \in Keys |-> 0]
  /\ ledger    = [a \in Accounts |-> [sum |-> 0, entries |-> 0]]
  /\ request   = NoRequest
  /\ lastOrder = [account |-> NoSource, type |-> "MARKET", quantity |-> 0,
                  filled |-> 0, status |-> "OPEN"]
  /\ placed    = 0

---------------------------------------------------------------------------
(* risk_engine.check_pre_trade                                             *)
InvestedLong(a) ==
  MapThenSumSet(LAMBDA i : positions[a, i].net * positions[a, i].entry,
                {i \in Instruments : positions[a, i].net > 0})

Margin(i, qty) == MarginScaled(Strike[i], LotSize, ShortMarginPercent, MinMarginPerLot, qty)

MarginUsed(a) ==
  MapThenSumSet(LAMBDA i : Margin(i, -positions[a, i].net),
                {i \in Instruments : positions[a, i].net < 0})

(* Both sides of the margin comparison are scaled by 100 * LotSize.        *)
Scaled(amount) == amount * 100 * LotSize

CoversCost(a, qty, ltp) == accounts[a].equity - InvestedLong(a) >= qty * ltp

(* Fault: the margin of the open shorts is not subtracted.                 *)
CoversOwnMargin(a, i, qty) ==
  LET opening == Greater(0, qty - Greater(0, positions[a, i].net))
  IN  opening > 0 => Scaled(accounts[a].equity) >= Margin(i, opening)

CoversMargin(a, i, qty) ==
  LET opening == Greater(0, qty - Greater(0, positions[a, i].net))
  IN  opening > 0 => Scaled(accounts[a].equity) - MarginUsed(a) >= Margin(i, opening)

PreTradeAllowed(a, i, side, qty, quote) ==
  IF accounts[a].status # "ACTIVE" \/ quote = NoQuote THEN FALSE
  ELSE IF side = "BUY" THEN CoversCost(a, qty, quote.ltp) ELSE CoversMargin(a, i, qty)

---------------------------------------------------------------------------
(* A new order reaches place_order for an account that exists.             *)
Arrives(a) ==
  /\ request = NoRequest /\ placed < MaxOrders
  /\ accounts[a].status # "ABSENT"
  /\ placed' = placed + 1

(* Answer the order at once; nothing but its row is committed.             *)
Reply(a, type, qty, status) ==
  /\ lastOrder' = [account |-> a, type |-> type, quantity |-> qty,
                   filled |-> 0, status |-> status]
  /\ UNCHANGED <<accounts, positions, trades, ledger, request>>

RejectOrder(a, i, side, type, qty) ==
  /\ Arrives(a)
  /\ \E quote \in Quotes \union {NoQuote} : ~PreTradeAllowed(a, i, side, qty, quote)
  /\ Reply(a, type, qty, "REJECTED")

Passes(a, i, side, qty) == \E quote \in Quotes : PreTradeAllowed(a, i, side, qty, quote)

(* The broker of a FUNDED account acknowledges the order and reports no    *)
(* fill.                                                                   *)
RouteToBroker(a, i, side, type, qty) ==
  /\ Arrives(a) /\ Passes(a, i, side, qty)
  /\ accounts[a].type = "FUNDED"
  /\ Reply(a, type, qty, "OPEN")

(* The matching engine leaves LIMIT and stop orders OPEN and unmatched.    *)
LeaveUnmatched(a, i, side, type, qty) ==
  /\ Arrives(a) /\ Passes(a, i, side, qty)
  /\ accounts[a].type = "EVALUATION" /\ type # "MARKET"
  /\ Reply(a, type, qty, "OPEN")

(* The quote is read again to match the order: what filled may be priced   *)
(* from another tick than what was checked.                                *)
Match(quote, side, qty) ==
  IF quote = NoQuote THEN [qty |-> 0, value |-> 0]
  ELSE WalkBook(IF side = "BUY" THEN quote.asks ELSE quote.bids, qty)

FindNoLiquidity(a, i, side, qty) ==
  /\ Arrives(a) /\ Passes(a, i, side, qty)
  /\ accounts[a].type = "EVALUATION"
  /\ \E quote \in Quotes \union {NoQuote} : Match(quote, side, qty).qty = 0
  /\ Reply(a, "MARKET", qty, "REJECTED")

(* Trade, position and ledger entry are written to the session; the mark   *)
(* to market is to visit every position that is then open.                 *)
OpenAfter(a, i, position) ==
  {j \in Instruments : (IF j = i THEN position.net ELSE positions[a, j].net) # 0}

FillOrder(a, i, side, qty) ==
  /\ Arrives(a) /\ Passes(a, i, side, qty)
  /\ accounts[a].type = "EVALUATION"
  /\ \E quote \in Quotes :
       LET fill == Match(quote, side, qty)
           old  == positions[a, i]
           new  == PositionAfter(old, side, fill)
       IN  /\ fill.qty # 0
           /\ request' =
                [account |-> a, instrument |-> i,
                 order |-> [account |-> a, type |-> "MARKET", quantity |-> qty,
                            filled |-> fill.qty,
                            status |-> IF fill.qty = qty THEN "FILLED"
                                                         ELSE "PARTIALLY_FILLED"],
                 position |-> new,
                 traded   |-> SignedQuantity(side, fill.qty),
                 qty      |-> fill.qty,
                 delta    |-> RealizedNumerator(old, side, fill),
                 toMark   |-> OpenAfter(a, i, new),
                 floating |-> 0]
  /\ UNCHANGED <<accounts, positions, trades, ledger, lastOrder>>

(* One iteration of the mark-to-market loop; a missing quote skips the     *)
(* position.                                                               *)
MarkPosition ==
  /\ request # NoRequest
  /\ \E i \in request.toMark, quote \in Quotes \union {NoQuote} :
       LET position == IF i = request.instrument THEN request.position
                       ELSE positions[request.account, i]
           pnl == IF quote = NoQuote THEN 0 ELSE PositionPnl(position, quote.ltp)
       IN  request' = [request EXCEPT !.toMark   = @ \ {i},
                                      !.floating = @ + pnl]
  /\ UNCHANGED <<accounts, positions, trades, ledger, lastOrder, placed>>

(* trading_days_count starts at 0 and nothing in the backend advances it.  *)
TradingDays == 0

(* Fault: a loss gets no ledger entry.                                     *)
LedgerOfGains(entry) ==
  IF request.delta <= 0 THEN entry
  ELSE [sum     |-> entry.sum + RoundDiv(request.delta, request.qty),
        entries |-> entry.entries + 1]

LedgerAfter(entry) ==
  IF request.delta = 0 THEN entry
  ELSE [sum     |-> entry.sum + RoundDiv(request.delta, request.qty),
        entries |-> entry.entries + 1]

CommitFill ==
  /\ request # NoRequest /\ request.toMark = {}
  /\ accounts' = [accounts EXCEPT ![request.account] =
                    AccountAfter(@, request.delta, request.qty, request.floating,
                                 Rules, TradingDays)]
  /\ LET key == <<request.account, request.instrument>>
     IN  /\ positions' = [positions EXCEPT ![key] = request.position]
         /\ trades'    = [trades EXCEPT ![key] = @ + request.traded]
  /\ ledger'    = [ledger EXCEPT ![request.account] = LedgerAfter(@)]
  /\ lastOrder' = request.order
  /\ request'   = NoRequest
  /\ UNCHANGED placed

(* The server stops, or the database raises, before the commit: the        *)
(* session closes and its writes are rolled back.                          *)
RollBack ==
  /\ request # NoRequest
  /\ request' = NoRequest
  /\ UNCHANGED <<accounts, positions, trades, ledger, lastOrder, placed>>

(* Fault: the evaluation need not have passed.                             *)
GraduateAny(e, f) ==
  /\ request = NoRequest
  /\ accounts[e].status # "ABSENT" /\ accounts[e].type = "EVALUATION"
  /\ accounts[f].status = "ABSENT"
  /\ accounts' = [accounts EXCEPT
                    ![e].status = "CLOSED",
                    ![f] = NewAccount("ACTIVE", "FUNDED", e, FundedCapital)]
  /\ UNCHANGED <<positions, trades, ledger, request, lastOrder, placed>>

Graduate(e, f) ==
  /\ request = NoRequest
  /\ accounts[e].status = "PASSED" /\ accounts[e].type = "EVALUATION"
  /\ accounts[f].status = "ABSENT"
  /\ accounts' = [accounts EXCEPT
                    ![e].status = "CLOSED",
                    ![f] = NewAccount("ACTIVE", "FUNDED", e, FundedCapital)]
  /\ UNCHANGED <<positions, trades, ledger, request, lastOrder, placed>>

PlaceOrder(a, i, side, type, qty) ==
  \/ RejectOrder(a, i, side, type, qty)
  \/ RouteToBroker(a, i, side, type, qty)
  \/ LeaveUnmatched(a, i, side, type, qty)
  \/ type = "MARKET" /\ FindNoLiquidity(a, i, side, qty)
  \/ type = "MARKET" /\ FillOrder(a, i, side, qty)

Next ==
  \/ \E a \in Accounts, i \in Instruments, side \in Sides, type \in Types, qty \in Quantities :
       PlaceOrder(a, i, side, type, qty)
  \/ MarkPosition
  \/ CommitFill
  \/ RollBack
  \/ \E e, f \in Accounts : Graduate(e, f)

Spec == Init /\ [][Next]_vars

---------------------------------------------------------------------------
(* Every table and the request in progress have their types.               *)
TypeOK ==
  /\ accounts \in [Accounts -> Account]
  /\ positions \in [Keys -> Position]
  /\ trades \in [Keys -> Int]
  /\ ledger \in [Accounts -> [sum : Int, entries : Nat]]
  /\ request \in Request \union {NoRequest}
  /\ lastOrder \in Order
  /\ placed \in Nat

(* The net quantity of a position is what the trades of its account and    *)
(* instrument add up to, through partial fills, reductions, full closes    *)
(* and flips from long to short.                                           *)
PositionsFollowTrades == \A k \in Keys : positions[k].net = trades[k]

(* The realized P&L of an account is what its ledger entries add up to,    *)
(* but for the rounding: the account rounds the sum where the ledger       *)
(* rounds the summand, so each entry may set them one unit further apart.  *)
LedgerTracksRealized ==
  \A a \in Accounts :
    Magnitude(accounts[a].realized - ledger[a].sum) <= ledger[a].entries

(* The equity the account shows is its balance, its realized P&L and its   *)
(* floating P&L, and the daily P&L is what equity gained on the balance,   *)
(* each within the unit the separate roundings may differ by.              *)
EquityExplained ==
  \A a \in Accounts : LET x == accounts[a] IN
    /\ Magnitude(x.equity - (x.balance + x.realized + x.floating)) <= 1
    /\ Magnitude(x.daily - (x.equity - x.balance)) <= 1

(* The high water mark is never below the equity nor below the starting    *)
(* balance, and the drawdown is the distance between mark and equity.      *)
HighWaterMark ==
  \A a \in Accounts : LET x == accounts[a] IN
    /\ x.hwm >= x.equity /\ x.hwm >= x.balance
    /\ x.drawdown >= 0
    /\ Magnitude(x.drawdown - (x.hwm - x.equity)) <= 1

(* The high water mark of an account that exists never falls.              *)
HighWaterMarkRises ==
  [][\A a \in Accounts :
       accounts[a].status # "ABSENT" => accounts'[a].hwm >= accounts[a].hwm]_vars

(* The status of an account is explained by the numbers in its row: FAILED *)
(* shows a breached limit, PASSED and CLOSED an unbreached one and the     *)
(* target reached, ACTIVE neither, up to half a unit of rounding.          *)
ShowsDailyBreach(x, slack) == 100 * x.daily < slack - x.balance * Rules.maxDailyLoss
ShowsTarget(x, slack) ==
  100 * (x.realized + x.floating) + slack >= x.balance * Rules.profitTarget

VerdictExplained ==
  \A a \in Accounts : LET x == accounts[a] IN
    /\ x.status = "FAILED" => \/ x.drawdownPercent >= 100 * Rules.maxDrawdown
                              \/ ShowsDailyBreach(x, 50)
    /\ x.status \in {"ACTIVE", "PASSED", "CLOSED"} =>
         /\ x.drawdownPercent <= 100 * Rules.maxDrawdown
         /\ ~ShowsDailyBreach(x, -50)
    /\ x.status \in {"PASSED", "CLOSED"} => ShowsTarget(x, 50)
    /\ x.status = "ACTIVE" /\ ShowsTarget(x, -50) =>
         Rules.profitTarget = 0 \/ TradingDays < Rules.minTradingDays

(* Only an ACTIVE account trades: whatever else its positions, trades and  *)
(* ledger are left exactly as they are, open positions included.           *)
OnlyActiveTrades ==
  [][\A a \in Accounts : accounts[a].status # "ACTIVE" =>
       /\ \A i \in Instruments : /\ positions'[a, i] = positions[a, i]
                                 /\ trades'[a, i] = trades[a, i]
       /\ ledger'[a] = ledger[a]]_vars

(* A fill that adds to an account's shorts leaves their margin within the  *)
(* equity it was checked against, flips and partial fills included.        *)
ShortsWithinMargin ==
  [][\A a \in Accounts : MarginUsed(a)' > MarginUsed(a) =>
       MarginUsed(a)' <= Scaled(accounts[a].equity)]_vars

(* The accounts live the life AccountLifecycle promises.                   *)
Lifecycle == INSTANCE AccountLifecycle WITH
               status <- [a \in Accounts |-> accounts[a].status],
               source <- [a \in Accounts |-> accounts[a].source]
LifecycleKept == Lifecycle!Spec

(* One evaluation funds at most one account.                               *)
FundedOnce == Lifecycle!FundedOnce
=============================================================================
