-------------------------- MODULE ConcurrentOrders --------------------------
(***************************************************************************)
(* The same requests as OrderFlow, interleaved: one asyncio process serves *)
(* several place_order and graduate_account calls, each in a session and a *)
(* READ COMMITTED transaction of its own, and any of them runs on while    *)
(* another awaits.  One action per stretch between two awaits that touch   *)
(* shared state.                                                           *)
(*                                                                         *)
(* What matters then is what a request remembers: the Account row is read  *)
(* once, at the start, and everything later is computed from that copy; a  *)
(* flush writes the columns whose value changed, as absolute values, and   *)
(* locks the row until the transaction ends; rows of other transactions    *)
(* are seen once committed.  A cycle of lock waits makes PostgreSQL abort  *)
(* one of its transactions.  Only MARKET orders are modelled here: the     *)
(* others commit nothing but their own row.                                *)
(***************************************************************************)
EXTENDS TradeMath, FiniteSetsExt

CONSTANTS
  Requests,                         \* the calls of a behaviour
  MaxInFlight,                      \* bound: calls served at the same time
  Jobs,                             \* what a call may ask for
  Accounts, Evaluations, NoSource, Instruments, Quotes, NoQuote,
  Capital, FundedCapital, Rules, Strike, LotSize, ShortMarginPercent, MinMarginPerLot,
  Holdings,                         \* the positions a behaviour may start from
  NoRow, NoJob, Free

Sides == {"BUY", "SELL"}
OrderJobs    == {job \in Jobs : job.op = "order"}
GraduateJobs == {job \in Jobs : job.op = "graduate"}

ASSUME JobsAssumption ==
  /\ OrderJobs \subseteq [op : {"order"}, account : Accounts, instrument : Instruments,
                          side : Sides, quantity : Nat]
  /\ GraduateJobs \subseteq [op : {"graduate"}, account : Accounts]
  /\ Jobs = OrderJobs \union GraduateJobs
ASSUME InFlightAssumption == MaxInFlight \in Nat \ {0}

Level == [price : Nat \ {0}, quantity : Nat]
Fill  == [qty : Nat \ {0}, value : Nat \ {0}]

ASSUME CapitalAssumption == Capital \in Nat /\ FundedCapital \in Nat
ASSUME QuoteAssumption ==
  /\ Quotes \subseteq [ltp : Nat, asks : Seq(Level), bids : Seq(Level)]
  /\ NoQuote \notin Quotes

VARIABLES
  accounts,   \* committed accounts rows
  rows,       \* committed positions rows: those held at the start by account and
              \* contract, later ones by the request that inserted them
  trades,     \* signed quantity of the committed trades, per account and instrument
  ledger,     \* [sum, entries] of the committed ledger entries, per account
  lastOrder,  \* the order row committed last
  locks,      \* row locks: the request that updated an account or position row
  req,        \* what each request holds in memory
  crossed     \* history: the accounts that one call changed while another for
              \* the same account was in flight

db   == <<accounts, rows, trades, ledger, lastOrder>>
vars == <<accounts, rows, trades, ledger, lastOrder, locks, req, crossed>>

Keys   == Accounts \X Instruments
RowIds == Keys \union Requests

PositionRecord == [net : Int, entry : Int, realized : Int]
PositionRow    == [account : Accounts, instrument : Instruments, at : PositionRecord]

ASSUME HoldingsAssumption == Holdings \subseteq [Keys -> PositionRecord]
(* Accounts, positions and requests are told apart, and so is nothing.     *)
ASSUME NamesAssumption ==
  /\ Accounts \intersect RowIds = {} /\ Requests \intersect Keys = {}
  /\ Free \notin Requests /\ NoRow \notin PositionRow

NewAccount(status, type, source, balance) ==
  [status |-> status, type |-> type, source |-> source, balance |-> balance,
   equity |-> balance, realized |-> 0, floating |-> 0, daily |-> 0,
   hwm |-> balance, drawdown |-> 0, drawdownPercent |-> 0]

FlatPosition == [net |-> 0, entry |-> 0, realized |-> 0]
NoFill       == [qty |-> 0, value |-> 0]

(* The memory of a request at rest: before it starts and after it ends.    *)
Blank(pc) == [pc |-> pc, job |-> NoJob, account |-> NoRow, held |-> 0, ltp |-> 0,
              fill |-> NoFill, row |-> NoRow, old |-> FlatPosition, new |-> FlatPosition,
              delta |-> 0, toMark |-> {}, floating |-> 0, columns |-> {}]

(* Earlier calls may have opened positions, last marked at the price they  *)
(* were filled at: the accounts then still show their starting balance.    *)
Init ==
  /\ accounts = [a \in Accounts |->
                   NewAccount(IF a \in Evaluations THEN "ACTIVE" ELSE "ABSENT",
                              "EVALUATION", NoSource, Capital)]
  /\ \E held \in Holdings :
       /\ rows = [x \in RowIds |->
                    IF x \in Keys /\ held[x] # FlatPosition
                    THEN [account |-> x[1], instrument |-> x[2], at |-> held[x]]
                    ELSE NoRow]
       /\ trades = [k \in Keys |-> held[k].net]
  /\ ledger = [a \in Accounts |-> [sum |-> 0, entries |-> 0]]
  /\ lastOrder = [account |-> NoSource, type |-> "MARKET", quantity |-> 0,
                  filled |-> 0, status |-> "OPEN"]
  /\ locks  = [l \in Accounts \union RowIds |-> Free]
  /\ req    = [r \in Requests |-> Blank("idle")]
  /\ crossed = {}

Ended    == {"rejected", "open", "filled", "graduated", "refused", "dropped", "rolled back"}
Filling  == {"flush account", "flush position", "select open", "mark", "commit"}
InFlight == {r \in Requests : req[r].pc \notin Ended \union {"idle"}}

(* The transaction of r ends: its locks are released, its memory is gone.  *)
EndKeepingLocks(r, outcome) ==  \* fault: the transaction is left open
  req' = [req EXCEPT ![r] = Blank(outcome)] /\ UNCHANGED locks

EndWith(r, outcome) ==
  /\ req'   = [req EXCEPT ![r] = Blank(outcome)]
  /\ locks' = [l \in DOMAIN locks |-> IF locks[l] = r THEN Free ELSE locks[l]]

Lock(r, l) ==
  /\ locks[l] \in {Free, r}
  /\ locks' = [locks EXCEPT ![l] = r]

(* Commit an order that did not fill.                                      *)
CommitUnfilled(r, status) ==
  /\ lastOrder' = [account |-> req[r].job.account, type |-> "MARKET",
                   quantity |-> req[r].job.quantity, filled |-> 0, status |-> status]
  /\ EndWith(r, IF status = "OPEN" THEN "open" ELSE "rejected")
  /\ UNCHANGED <<accounts, rows, trades, ledger>>

(* An exception: the session closes and nothing of it is committed.        *)
GiveUp(r) ==
  /\ EndWith(r, IF req[r].pc \in Filling THEN "rolled back" ELSE "dropped")
  /\ UNCHANGED db

---------------------------------------------------------------------------
(* A call arrives and reads the account row, the copy it works on to the   *)
(* end.                                                                    *)
Arrive(r, job) ==
  /\ req[r].pc = "idle"
  /\ Cardinality(InFlight) < MaxInFlight
  /\ accounts[job.account].status # "ABSENT"

BeginOrder(r) ==
  \E job \in OrderJobs :
    /\ Arrive(r, job)
    /\ req' = [req EXCEPT ![r] = [Blank("select held") EXCEPT
                                    !.job = job, !.account = accounts[job.account]]]
    /\ UNCHANGED <<db, locks>>

(* The positions rows of an account, and those of one of its contracts.    *)
RowsOf(view, a) == {x \in RowIds : view[x] # NoRow /\ view[x].account = a}
RowsFor(view, a, i) == {x \in RowsOf(view, a) : view[x].instrument = i}

(* scalar_one_or_none: the position, or a flat one when there is no row.    *)
PositionIn(view, found) ==
  IF found = {} THEN FlatPosition ELSE view[CHOOSE x \in found : TRUE].at

(* check_pre_trade up to its select of the position, which raises when the *)
(* position has more than one row.                                         *)
SelectHeldAnyStatus(r) ==  \* fault: the status of the account is not looked at
  LET found == RowsFor(rows, req[r].job.account, req[r].job.instrument)
  IN  /\ req[r].pc = "select held"
      /\ \E quote \in Quotes :
           req' = [req EXCEPT ![r].pc   = "select exposure",
                              ![r].ltp  = quote.ltp,
                              ![r].held = Greater(0, PositionIn(rows, found).net)]
      /\ UNCHANGED <<db, locks>>

SelectHeld(r) ==
  LET me    == req[r]
      found == RowsFor(rows, me.job.account, me.job.instrument)
  IN  /\ me.pc = "select held"
      /\ IF me.account.status # "ACTIVE" THEN CommitUnfilled(r, "REJECTED")
         ELSE \E quote \in Quotes \union {NoQuote} :
                IF quote = NoQuote THEN CommitUnfilled(r, "REJECTED")
                ELSE IF Cardinality(found) > 1 THEN GiveUp(r)
                ELSE /\ req' = [req EXCEPT
                                  ![r].pc   = "select exposure",
                                  ![r].ltp  = quote.ltp,
                                  ![r].held = Greater(0, PositionIn(rows, found).net)]
                     /\ UNCHANGED <<db, locks>>

InvestedLong(a) ==
  MapThenSumSet(LAMBDA x : rows[x].at.net * rows[x].at.entry,
                {x \in RowsOf(rows, a) : rows[x].at.net > 0})

Margin(i, qty) == MarginScaled(Strike[i], LotSize, ShortMarginPercent, MinMarginPerLot, qty)

MarginUsed(a) ==
  MapThenSumSet(LAMBDA x : Margin(rows[x].instrument, -rows[x].at.net),
                {x \in RowsOf(rows, a) : rows[x].at.net < 0})

Scaled(amount) == amount * 100 * LotSize

(* The gate: the exposure of this moment against the equity of the copy.   *)
Affordable(r) ==
  LET me      == req[r]
      opening == Greater(0, me.job.quantity - me.held)
  IN  IF me.job.side = "BUY"
      THEN me.account.equity - InvestedLong(me.job.account) >= me.job.quantity * me.ltp
      ELSE opening > 0 => Scaled(me.account.equity) - MarginUsed(me.job.account)
                            >= Margin(me.job.instrument, opening)

SelectExposure(r) ==
  /\ req[r].pc = "select exposure"
  /\ IF Affordable(r)
     THEN req' = [req EXCEPT ![r].pc = "submit"] /\ UNCHANGED <<db, locks>>
     ELSE CommitUnfilled(r, "REJECTED")

Match(quote, side, qty) ==
  IF quote = NoQuote THEN NoFill
  ELSE WalkBook(IF side = "BUY" THEN quote.asks ELSE quote.bids, qty)

(* The order is inserted and submitted; the matching engine reads the      *)
(* quote for itself.                                                       *)
SubmitOrder(r) ==
  /\ req[r].pc = "submit"
  /\ IF req[r].account.type = "FUNDED" THEN CommitUnfilled(r, "OPEN")
     ELSE \E quote \in Quotes \union {NoQuote} :
            LET fill == Match(quote, req[r].job.side, req[r].job.quantity)
            IN  IF fill.qty = 0 THEN CommitUnfilled(r, "REJECTED")
                ELSE /\ req' = [req EXCEPT ![r].pc = "update position", ![r].fill = fill]
                     /\ UNCHANGED <<db, locks>>

(* _update_position reads the position again and computes the new row in   *)
(* memory; without a row it will insert one.                               *)
UpdatePosition(r) ==
  LET me    == req[r]
      found == RowsFor(rows, me.job.account, me.job.instrument)
      old   == PositionIn(rows, found)
  IN  /\ me.pc = "update position"
      /\ IF Cardinality(found) > 1 THEN GiveUp(r)
         ELSE /\ req' = [req EXCEPT
                           ![r].pc    = "flush account",
                           ![r].row   = IF found = {} THEN r ELSE CHOOSE x \in found : TRUE,
                           ![r].old   = old,
                           ![r].new   = PositionAfter(old, me.job.side, me.fill),
                           ![r].delta = RealizedNumerator(old, me.job.side, me.fill)]
              /\ UNCHANGED <<db, locks>>

(* The mark to market's select flushes first: the account, when its        *)
(* realized P&L changed, then the position.  An UPDATE waits for the lock  *)
(* of its row, an INSERT for nothing.                                      *)
Inserts(r) == req[r].row = r

FlushEitherFirst(r) ==  \* fault: the unit of work flushes in no fixed order
  /\ req[r].pc = "flush account"
  /\ req' = [req EXCEPT ![r].pc = "flush position"]
  /\ IF req[r].delta = 0 THEN UNCHANGED locks
     ELSE Lock(r, req[r].job.account) \/ Lock(r, req[r].row)
  /\ UNCHANGED db

FlushAccount(r) ==
  /\ req[r].pc = "flush account"
  /\ req' = [req EXCEPT ![r].pc = "flush position"]
  /\ IF req[r].delta = 0 THEN UNCHANGED locks ELSE Lock(r, req[r].job.account)
  /\ UNCHANGED db

FlushPosition(r) ==
  /\ req[r].pc = "flush position"
  /\ req' = [req EXCEPT ![r].pc = "select open"]
  /\ IF Inserts(r) THEN UNCHANGED locks ELSE Lock(r, req[r].row)
  /\ UNCHANGED db

(* An UPDATE sets the columns whose value in memory, before any rounding,  *)
(* differs from the one loaded; the others keep what the table has by now. *)
Overwrite(row, columns, values) ==
  [c \in DOMAIN row |-> IF c \in columns THEN values[c] ELSE row[c]]

PositionColumns(r) ==
  LET me      == req[r]
      change  == SignedQuantity(me.job.side, me.fill.qty)
      reduces == Reduces(me.old.net, change)
      entrySet == IF reduces /\ Magnitude(change) <= Magnitude(me.old.net)
                  THEN me.new.net = 0 /\ me.old.entry # 0
                  ELSE me.fill.value # me.old.entry * me.fill.qty
  IN  {"net"} \union (IF entrySet THEN {"entry"} ELSE {})
              \union (IF me.delta # 0 THEN {"realized"} ELSE {})

PositionWrittenEarly(r) ==  \* fault: the row is flushed before it is updated
  [account |-> req[r].job.account, instrument |-> req[r].job.instrument,
   at |-> IF Inserts(r) THEN req[r].new
          ELSE Overwrite(rows[req[r].row].at, PositionColumns(r), req[r].old)]

PositionWritten(r) ==
  [account |-> req[r].job.account, instrument |-> req[r].job.instrument,
   at |-> IF Inserts(r) THEN req[r].new
          ELSE Overwrite(rows[req[r].row].at, PositionColumns(r), req[r].new)]

SelectOpen(r) ==
  /\ req[r].pc = "select open"
  /\ LET view == [rows EXCEPT ![req[r].row] = PositionWritten(r)]
         open == {x \in RowsOf(view, req[r].job.account) : view[x].at.net # 0}
     IN  req' = [req EXCEPT
                   ![r].pc     = "mark",
                   ![r].toMark = {[row |-> x, instrument |-> view[x].instrument,
                                   at |-> view[x].at] : x \in open}]
  /\ UNCHANGED <<db, locks>>

MarkPosition(r) ==
  /\ req[r].pc = "mark"
  /\ \E p \in req[r].toMark, quote \in Quotes \union {NoQuote} :
       LET pnl == IF quote = NoQuote THEN 0 ELSE PositionPnl(p.at, quote.ltp)
       IN  req' = [req EXCEPT ![r].toMark = @ \ {p}, ![r].floating = @ + pnl]
  /\ UNCHANGED <<db, locks>>

TradingDays == 0

(* The Account columns the mark to market and the rules have changed in    *)
(* memory, before rounding; marked is what they are stored as.             *)
AllColumns(me, marked) ==  \* fault: every column of the copy is written back
  DOMAIN marked

ColumnsButRealized(me, marked) ==  \* fault: the realized P&L is not saved
  {c \in DOMAIN marked : c = "floating" \/ (c = "status" /\ marked.status # me.account.status)}

AccountColumns(me, marked) ==
  LET was == me.account
      qty == me.fill.qty
      v   == Valuation(was, me.delta, qty, me.floating)
      set == [realized |-> me.delta # 0,
              floating |-> me.floating # was.floating,
              equity   |-> v.equity # was.equity * qty,
              daily    |-> v.daily # was.daily * qty,
              hwm      |-> v.hwm # was.hwm * qty,
              drawdown |-> v.drawdown # was.drawdown * qty,
              drawdownPercent |-> IF v.hwm > 0
                                  THEN v.drawdown * 10000 # was.drawdownPercent * v.hwm
                                  ELSE was.drawdownPercent # 0,
              status   |-> marked.status # was.status]
  IN  {c \in DOMAIN set : set[c]}

(* Every position is marked: equity, drawdown and verdict are set on the   *)
(* copy of the account.                                                    *)
ApplyRules(r) ==
  LET me     == req[r]
      marked == AccountAfter(me.account, me.delta, me.fill.qty, me.floating,
                             Rules, TradingDays)
  IN  /\ me.pc = "mark" /\ me.toMark = {}
      /\ req' = [req EXCEPT ![r].pc      = "commit",
                            ![r].account = marked,
                            ![r].columns = AccountColumns(me, marked)]
      /\ UNCHANGED <<db, locks>>

CommitFill(r) ==
  LET me  == req[r]
      a   == me.job.account
      key == <<a, me.job.instrument>>
  IN  /\ me.pc = "commit"
      /\ me.columns # {} => locks[a] \in {Free, r}
      /\ accounts' = [accounts EXCEPT ![a] = Overwrite(@, me.columns, me.account)]
      /\ rows'     = [rows EXCEPT ![me.row] = PositionWritten(r)]
      /\ trades'   = [trades EXCEPT ![key] = @ + SignedQuantity(me.job.side, me.fill.qty)]
      /\ ledger'   = IF me.delta = 0 THEN ledger
                     ELSE [ledger EXCEPT
                             ![a] = [sum     |-> @.sum + RoundDiv(me.delta, me.fill.qty),
                                     entries |-> @.entries + 1]]
      /\ lastOrder' = [account |-> a, type |-> "MARKET", quantity |-> me.job.quantity,
                       filled |-> me.fill.qty,
                       status |-> IF me.fill.qty = me.job.quantity
                                  THEN "FILLED" ELSE "PARTIALLY_FILLED"]
      /\ EndWith(r, "filled")

---------------------------------------------------------------------------
(* graduate_account: the checks are made on the row as loaded, the rule    *)
(* version is awaited, then the new account is inserted and the old one    *)
(* closed in one commit.                                                   *)
BeginGraduation(r) ==
  \E job \in GraduateJobs :
    /\ Arrive(r, job)
    /\ LET eval == accounts[job.account]
       IN  IF eval.type = "EVALUATION" /\ eval.status = "PASSED"
           THEN req' = [req EXCEPT ![r] = [Blank("graduate") EXCEPT
                                             !.job = job, !.account = eval]]
           ELSE req' = [req EXCEPT ![r] = Blank("refused")]
    /\ UNCHANGED <<db, locks>>

CommitGraduation(r) ==
  LET e == req[r].job.account
  IN  /\ req[r].pc = "graduate"
      /\ locks[e] \in {Free, r}
      /\ \E f \in Accounts :
           /\ accounts[f].status = "ABSENT"
           /\ accounts' = [accounts EXCEPT
                ![e].status = "CLOSED",
                ![f] = NewAccount("ACTIVE", "FUNDED", e, FundedCapital)]
      /\ EndWith(r, "graduated")
      /\ UNCHANGED <<rows, trades, ledger, lastOrder>>

---------------------------------------------------------------------------
(* The row lock the next statement of a request needs.                     *)
Wants(r) ==
  CASE req[r].pc = "flush account" /\ req[r].delta # 0     -> {req[r].job.account}
    [] req[r].pc = "flush position" /\ ~Inserts(r)         -> {req[r].row}
    [] req[r].pc = "commit" /\ req[r].columns # {}         -> {req[r].job.account}
    [] req[r].pc = "graduate"                             -> {req[r].job.account}
    [] OTHER                                              -> {}

WaitsFor(r, s) == r # s /\ \E l \in Wants(r) : locks[l] = s

(* A request waits for one holder at most, so a set in which everyone waits *)
(* for and is awaited by another is made of cycles.                        *)
InCycle(r) ==
  \E cycle \in SUBSET Requests :
    /\ r \in cycle
    /\ \A x \in cycle : /\ \E y \in cycle : WaitsFor(x, y)
                        /\ \E y \in cycle : WaitsFor(y, x)

(* PostgreSQL aborts a transaction of the cycle; place_order raises.       *)
AbortDeadlocked(r) == InCycle(r) /\ GiveUp(r) /\ UNCHANGED crossed

(* The connection drops or the server stops before the commit.             *)
LoseConnection(r) == r \in InFlight /\ GiveUp(r) /\ UNCHANGED crossed

Computes(r) == \/ SelectHeld(r) \/ SelectExposure(r) \/ SubmitOrder(r) \/ UpdatePosition(r)
               \/ FlushAccount(r) \/ FlushPosition(r) \/ SelectOpen(r) \/ MarkPosition(r)
               \/ ApplyRules(r)

(* The account r commits to, if another call has a copy of it.             *)
Crossing(r) == {req[s].job.account : s \in InFlight \ {r}} \intersect {req[r].job.account}

Step(r) == \/ Computes(r) /\ UNCHANGED crossed
           \/ (CommitFill(r) \/ CommitGraduation(r)) /\ crossed' = crossed \union Crossing(r)

Begin(r) == (BeginOrder(r) \/ BeginGraduation(r)) /\ UNCHANGED crossed

Next == \E r \in Requests : Begin(r) \/ Step(r) \/ AbortDeadlocked(r) \/ LoseConnection(r)

(* The event loop resumes every coroutine whose await completes, and the   *)
(* database's deadlock detector runs; nothing obliges a call to arrive.    *)
Fairness == \A r \in Requests : WF_vars(Step(r)) /\ WF_vars(AbortDeadlocked(r))

Spec == Init /\ [][Next]_vars /\ Fairness

---------------------------------------------------------------------------
(* The tables, the locks and every request's memory have their types; only *)
(* requests in flight hold locks.                                          *)
Outcomes == Ended \union Filling \union {"idle", "select held", "select exposure",
                                        "submit", "update position", "graduate"}
TypeOK ==
  /\ \A a \in Accounts :
       /\ accounts[a].status \in {"ABSENT", "ACTIVE", "PASSED", "FAILED", "CLOSED"}
       /\ accounts[a].type \in {"EVALUATION", "FUNDED"}
       /\ accounts[a].source \in Accounts \union {NoSource}
  /\ rows \in [RowIds -> PositionRow \union {NoRow}]
  /\ trades \in [Keys -> Int]
  /\ ledger \in [Accounts -> [sum : Int, entries : Nat]]
  /\ locks \in [Accounts \union RowIds -> InFlight \union {Free}]
  /\ \A r \in Requests : /\ req[r].pc \in Outcomes
                         /\ req[r].old \in PositionRecord /\ req[r].new \in PositionRecord

(* The tables of an account agree with each other, as they do when its     *)
(* requests take turns: one row per contract, its net what the trades add  *)
(* up to, the account's realized P&L what its ledger adds up to.  Calls    *)
(* that are rejected, roll back or only overlap do not disturb that, and   *)
(* nor do other accounts whose calls cross; only a commit to the account   *)
(* itself while another of its calls has a copy.                           *)
PositionsFollowTrades ==
  \A a \in Accounts \ crossed, i \in Instruments :
    /\ Cardinality(RowsFor(rows, a, i)) <= 1
    /\ MapThenSumSet(LAMBDA x : rows[x].at.net, RowsFor(rows, a, i)) = trades[<<a, i>>]

LedgerTracksRealized ==
  \A a \in Accounts \ crossed :
    Magnitude(accounts[a].realized - ledger[a].sum) <= ledger[a].entries

(* An account's equity includes what its closed trades have realized, as   *)
(* the ledger has it: no profitable close vanishes from it.                *)
EquityIncludesRealized ==
  \A a \in Accounts :
    Magnitude(accounts[a].equity - accounts[a].balance - accounts[a].floating - ledger[a].sum)
      <= ledger[a].entries + 1

(* A judged account stays judged, whatever was in flight: a request that   *)
(* loaded it ACTIVE writes back only the columns it changed.               *)
NeverRevived ==
  [][\A a \in Accounts : accounts[a].status \notin {"ACTIVE", "ABSENT"} =>
       accounts'[a].status \notin {"ACTIVE", "ABSENT"}]_vars

(* Requests that all reduce positions, or all increase them, cannot block  *)
(* each other for good: a cycle of waits needs one of each, for the first  *)
(* locks the account before the position and the second after.             *)
DeadlockNeedsBoth ==
  (\E r \in Requests : InCycle(r)) =>
    /\ \E r \in Requests : InCycle(r) /\ req[r].delta = 0
    /\ \E r \in Requests : InCycle(r) /\ req[r].delta # 0

(* Every call that arrived is answered, deadlocks included.                *)
EveryCallAnswered ==
  \A r \in Requests : req[r].pc # "idle" ~> req[r].pc \in Ended

---------------------------------------------------------------------------
(* With one call in flight this is OrderFlow: the request being filled is  *)
(* the one past its position update.                                       *)
Filler == {r \in Requests : req[r].pc \in Filling}

FlowToMark(r) ==
  LET me == req[r]
      a  == me.job.account
  IN  IF me.pc \in {"mark", "commit"} THEN {p.instrument : p \in me.toMark}
      ELSE {i \in Instruments :
              (IF i = me.job.instrument THEN me.new.net
               ELSE PositionIn(rows, RowsFor(rows, a, i)).net) # 0}

FlowRequest(r) ==
  LET me == req[r]
  IN  [account |-> me.job.account, instrument |-> me.job.instrument,
       order |-> [account |-> me.job.account, type |-> "MARKET",
                  quantity |-> me.job.quantity, filled |-> me.fill.qty,
                  status |-> IF me.fill.qty = me.job.quantity
                             THEN "FILLED" ELSE "PARTIALLY_FILLED"],
       position |-> me.new,
       traded   |-> SignedQuantity(me.job.side, me.fill.qty),
       qty      |-> me.fill.qty, delta |-> me.delta,
       toMark   |-> FlowToMark(r), floating |-> me.floating]

OrderOutcomes == {"rejected", "open", "filled", "rolled back"}

Flow == INSTANCE OrderFlow WITH
  NoRequest  <- NoRow,
  Types      <- {"MARKET"},
  Quantities <- {job.quantity : job \in OrderJobs},
  MaxOrders  <- Cardinality(Requests),
  positions  <- [k \in Keys |-> PositionIn(rows, RowsFor(rows, k[1], k[2]))],
  request    <- IF Filler = {} THEN NoRow ELSE FlowRequest(CHOOSE r \in Filler : TRUE),
  placed     <- Cardinality({r \in Requests : req[r].pc \in OrderOutcomes \union Filling})
SerialRequestsAreOrderFlow == Flow!Spec
=============================================================================
