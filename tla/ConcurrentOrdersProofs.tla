------------------------ MODULE ConcurrentOrdersProofs ------------------------
(***************************************************************************)
(* The proofs about ConcurrentOrders, along two inductive invariants.      *)
(*                                                                         *)
(* Served holds for any number of requests in flight: the types, what a    *)
(* request knows at each await and which locks it holds there.  From it    *)
(* follow TypeOK, NeverRevived and DeadlockNeedsBoth.                      *)
(*                                                                         *)
(* InStep is about the accounts that are not crossed, whatever happens to  *)
(* the others: what a request remembers of its account and position is     *)
(* still true when it commits, so the tables of the account agree with     *)
(* each other.                                                             *)
(***************************************************************************)
EXTENDS ConcurrentOrders, TradeMathProofs, FiniteSetTheorems

---------------------------------------------------------------------------
(* What the tables and a request's memory may hold: an account's row, the  *)
(* columns an UPDATE of it may set, an open position a request has still   *)
(* to mark, and everything a request remembers.                            *)
Statuses == {"ABSENT", "ACTIVE", "PASSED", "FAILED", "CLOSED"}
Account  == AccountFigures(Statuses, {"EVALUATION", "FUNDED"}, Accounts \union {NoSource})
Columns  == {"status", "realized", "floating", "equity", "daily", "hwm", "drawdown",
             "drawdownPercent"}
Marks    == [row : RowIds, instrument : Instruments, at : PositionRecord]
Memory   == [pc : Outcomes, job : Jobs \union {NoJob}, account : Account \union {NoRow},
             held : Nat, ltp : Nat, fill : Fill \union {NoFill}, row : RowIds \union {NoRow},
             old : PositionRecord, new : PositionRecord, delta : Int, toMark : SUBSET Marks,
             floating : Int, columns : SUBSET Columns]

(* The rows a transaction may lock.                                        *)
Lockable == Accounts \union RowIds
(* Every variable has its type.                                            *)
Typed ==
  /\ accounts \in [Accounts -> Account]
  /\ rows \in [RowIds -> PositionRow \union {NoRow}]
  /\ trades \in [Keys -> Int]
  /\ ledger \in [Accounts -> [sum : Int, entries : Nat]]
  /\ locks \in [Lockable -> Requests \union {Free}]
  /\ req \in [Requests -> Memory]

(* The places of place_order at which it holds the account row it loaded.  *)
Ordering == {"select held", "select exposure", "submit", "update position"} \union Filling

(* What a request knows at each place of its code: an order has its        *)
(* account's row, from the match on its fill, and from the position update *)
(* on a row it will insert or one of its contract that is committed. The   *)
(* verdict it is about to commit is a judgement, never ACTIVE again.       *)
(* Nothing is committed under a request's own row before it is filled.     *)
Working(r) ==
  /\ req[r].pc \in Ordering => req[r].job \in OrderJobs /\ req[r].account \in Account
  /\ req[r].pc = "graduate" => req[r].job \in GraduateJobs
  /\ req[r].pc \in Filling \union {"update position"} => req[r].fill \in Fill
  /\ req[r].pc \notin Filling => req[r].delta = 0
  /\ req[r].pc \in Filling =>
       /\ req[r].row \in RowIds
       /\ req[r].row # r => /\ rows[req[r].row] # NoRow
                            /\ rows[req[r].row].account = req[r].job.account
                            /\ rows[req[r].row].instrument = req[r].job.instrument
  /\ req[r].pc = "commit" /\ "status" \in req[r].columns =>
       req[r].account.status \in {"PASSED", "FAILED"}
  /\ req[r].pc # "filled" => rows[r] = NoRow

(* After the flush of the account; after that of the position too.         *)
PastAccount  == {"flush position", "select open", "mark", "commit"}
PastPosition == {"select open", "mark", "commit"}
(* The locks a request holds: its account's, once that is flushed with a   *)
(* changed realized P&L, and a position's that was there before, once that *)
(* is flushed. The first it holds to the end.                              *)
Locked(r) ==
  /\ \A l \in Lockable : locks[l] = r =>
       \/ l = req[r].job.account /\ req[r].delta # 0 /\ req[r].pc \in PastAccount
       \/ l = req[r].row /\ l \in RowIds /\ l # r /\ req[r].pc \in PastPosition
  /\ req[r].pc \in PastAccount /\ req[r].delta # 0 => locks[req[r].job.account] = r

(* The inductive invariant, whatever the bounds.                           *)
Served == Typed /\ \A r \in Requests : Working(r) /\ Locked(r)

(* Accounts, rows, requests and nothing are told apart.                    *)
LEMMA NamesDiffer ==
  /\ Accounts \intersect RowIds = {} /\ Free \notin Requests /\ NoRow \notin PositionRow
  /\ Requests \subseteq RowIds /\ Keys \subseteq RowIds /\ RowIds \subseteq Lockable
  /\ Accounts \subseteq Lockable
BY NamesAssumption DEF RowIds, Lockable

(* An order is of an account and a contract, a graduation of an account.   *)
LEMMA JobsTyped ==
  /\ \A job \in Jobs : job.account \in Accounts
  /\ \A job \in OrderJobs : /\ job \in Jobs /\ job.instrument \in Instruments
                            /\ <<job.account, job.instrument>> \in Keys
                            /\ job.quantity \in Nat
  /\ GraduateJobs \subseteq Jobs
<1>1. \A job \in OrderJobs : /\ job.account \in Accounts /\ job.instrument \in Instruments
                             /\ job.quantity \in Nat
  BY JobsAssumption
<1>2. \A job \in GraduateJobs : job.account \in Accounts
  BY JobsAssumption
<1>3. Jobs = OrderJobs \union GraduateJobs
  BY JobsAssumption
<1> QED BY <1>1, <1>2, <1>3 DEF Keys

(* The memory of a request at rest is typed.                               *)
LEMMA BlankTyped ==
  ASSUME NEW pc \in Outcomes
  PROVE  /\ Blank(pc) \in Memory /\ Blank(pc).pc = pc /\ Blank(pc).delta = 0
         /\ Blank(pc).job = NoJob
BY DEF Blank, Memory, FlatPosition, PositionRecord

(* A step that replaces one request's memory leaves the others'.           *)
LEMMA MovedTo ==
  ASSUME Typed, NEW r \in Requests, NEW m \in Memory, req' = [req EXCEPT ![r] = m]
  PROVE  /\ req' \in [Requests -> Memory] /\ req'[r] = m
         /\ \A s \in Requests \ {r} : req'[s] = req[s]
BY DEF Typed

(* What every step of one request guarantees the others: their memory, the *)
(* rows that are committed, every row that is not its own, and every lock  *)
(* that is neither free nor its own.                                       *)
Moves(r) ==
  /\ \A s \in Requests \ {r} : req'[s] = req[s]
  /\ \A x \in RowIds :
       /\ rows[x] # NoRow => /\ rows'[x] # NoRow /\ rows'[x].account = rows[x].account
                             /\ rows'[x].instrument = rows[x].instrument
       /\ rows[x] = NoRow /\ x # r => rows'[x] = NoRow
  /\ \A l \in Lockable : locks'[l] = locks[l] \/ {locks[l], locks'[l]} \subseteq {Free, r}

(* A step of one request that keeps the types, leaves it knowing what it   *)
(* should and holding the locks it should keeps the invariant.             *)
LEMMA StepOf ==
  ASSUME Served, NEW r \in Requests, Typed', Moves(r), Working(r)', Locked(r)'
  PROVE  Served'
<1>1. ASSUME NEW s \in Requests \ {r} PROVE Working(s)'
  <2>1. req'[s] = req[s] /\ s \in RowIds /\ Working(s)
    BY NamesDiffer DEF Served, Moves
  <2>2. rows'[s] = NoRow \/ rows[s] # NoRow
    BY <2>1 DEF Moves
  <2>3. req[s].row \in RowIds /\ rows[req[s].row] # NoRow =>
          /\ rows'[req[s].row] # NoRow
          /\ rows'[req[s].row].account = rows[req[s].row].account
          /\ rows'[req[s].row].instrument = rows[req[s].row].instrument
    BY DEF Moves
  <2> QED BY <2>1, <2>2, <2>3 DEF Working
<1>2. ASSUME NEW s \in Requests \ {r} PROVE Locked(s)'
  <2>1. req'[s] = req[s] /\ Locked(s) /\ Working(s)
    BY DEF Served, Moves
  <2>2. \A l \in Lockable : locks'[l] = s <=> locks[l] = s
    BY NamesDiffer DEF Moves
  <2>3. req[s].pc \in PastAccount => req[s].job.account \in Lockable
    BY <2>1, JobsTyped, NamesDiffer DEF Working, PastAccount, Ordering, Filling
  <2> QED BY <2>1, <2>2, <2>3 DEF Locked
<1> QED BY <1>1, <1>2 DEF Served

(* The end of a transaction blanks the request's memory and frees its      *)
(* locks.                                                                  *)
LEMMA EndEffect ==
  ASSUME Typed, NEW r \in Requests, NEW outcome \in Ended, EndWith(r, outcome)
  PROVE  /\ req' \in [Requests -> Memory] /\ req'[r] = Blank(outcome)
         /\ \A s \in Requests \ {r} : req'[s] = req[s]
         /\ locks' \in [Lockable -> Requests \union {Free}]
         /\ \A l \in Lockable : locks'[l] = IF locks[l] = r THEN Free ELSE locks[l]
<1>1. Blank(outcome) \in Memory
  BY BlankTyped DEF Outcomes
<1>2. req' = [req EXCEPT ![r] = Blank(outcome)]
  BY DEF EndWith
<1>3. locks' = [l \in Lockable |-> IF locks[l] = r THEN Free ELSE locks[l]]
  BY DEF EndWith, Typed
<1>4. locks' \in [Lockable -> Requests \union {Free}]
  BY <1>3 DEF Typed
<1> QED BY <1>1, <1>2, <1>3, <1>4, MovedTo

(* A request that ends keeps the invariant, if what it commits is typed,   *)
(* removes no row and inserts none but its own.                            *)
LEMMA EndKeeps ==
  ASSUME Served, NEW r \in Requests, NEW outcome \in Ended, EndWith(r, outcome),
         accounts' \in [Accounts -> Account],
         rows' \in [RowIds -> PositionRow \union {NoRow}], trades' \in [Keys -> Int],
         ledger' \in [Accounts -> [sum : Int, entries : Nat]],
         \A x \in RowIds :
           /\ rows[x] # NoRow => /\ rows'[x] # NoRow /\ rows'[x].account = rows[x].account
                                 /\ rows'[x].instrument = rows[x].instrument
           /\ rows[x] = NoRow /\ (x # r \/ outcome # "filled") => rows'[x] = NoRow,
         req[r].pc # "filled"
  PROVE  Served'
<1>1. Typed /\ Working(r) /\ Locked(r) /\ r \in RowIds
  BY NamesDiffer DEF Served
<1>2. /\ req' \in [Requests -> Memory] /\ req'[r] = Blank(outcome)
      /\ \A s \in Requests \ {r} : req'[s] = req[s]
      /\ locks' \in [Lockable -> Requests \union {Free}]
      /\ \A l \in Lockable : locks'[l] = IF locks[l] = r THEN Free ELSE locks[l]
  BY <1>1, EndEffect
<1>3. Typed'
  BY <1>2 DEF Typed
<1>4. Moves(r)
  BY <1>2 DEF Moves
<1>5. Blank(outcome).pc = outcome /\ Blank(outcome).delta = 0
  BY BlankTyped DEF Outcomes
<1>6. outcome \notin Ordering \union Filling \union PastAccount
                   \union {"update position", "graduate", "commit"}
  BY DEF Ended, Ordering, Filling, PastAccount
<1>7. Working(r)'
  <2>1. outcome # "filled" => rows'[r] = NoRow
    BY <1>1 DEF Working
  <2>2. req'[r].pc = outcome /\ req'[r].delta = 0
    BY <1>2, <1>5
  <2> QED BY <1>6, <2>1, <2>2 DEF Working
<1>8. Locked(r)'
  <2>1. \A l \in Lockable : locks'[l] # r
    BY <1>2, NamesDiffer
  <2>2. req'[r].pc \notin PastAccount
    BY <1>2, <1>5, <1>6
  <2> QED BY <2>1, <2>2 DEF Locked
<1> QED BY <1>3, <1>4, <1>7, <1>8, StepOf

(* A request that only changes its memory keeps the invariant, if it goes  *)
(* on where it holds no lock, or stays past its flushes with the same      *)
(* locks.                                                                  *)
LEMMA InMemory ==
  ASSUME Served, NEW r \in Requests, NEW m \in Memory, req' = [req EXCEPT ![r] = m],
         UNCHANGED <<db, locks>>,
         req[r].pc # "filled", m.pc # "filled",
         m.pc \in Ordering => m.job \in OrderJobs /\ m.account \in Account,
         m.pc = "graduate" => m.job \in GraduateJobs,
         m.pc \in Filling \union {"update position"} => m.fill \in Fill,
         m.pc \notin Filling => m.delta = 0,
         m.pc \in Filling =>
           /\ m.row \in RowIds
           /\ m.row # r => /\ rows[m.row] # NoRow /\ rows[m.row].account = m.job.account
                           /\ rows[m.row].instrument = m.job.instrument,
         m.pc = "commit" /\ "status" \in m.columns => m.account.status \in {"PASSED", "FAILED"},
         \/ m.pc \notin PastAccount /\ req[r].pc \notin PastAccount
         \/ /\ req[r].pc \in PastPosition /\ m.pc \in PastPosition
            /\ m.job = req[r].job /\ m.delta = req[r].delta /\ m.row = req[r].row
  PROVE  Served'
<1>1. Typed /\ Working(r) /\ Locked(r) /\ r \in RowIds
  BY NamesDiffer DEF Served
<1>2. /\ req' \in [Requests -> Memory] /\ req'[r] = m
      /\ \A s \in Requests \ {r} : req'[s] = req[s]
  BY <1>1, MovedTo
<1>3. Typed'
  BY <1>1, <1>2 DEF Typed, db
<1>4. Moves(r)
  BY <1>2 DEF Moves, db
<1>5. Working(r)'
  BY <1>1, <1>2 DEF Working, db
<1>6. Locked(r)'
  BY <1>1, <1>2 DEF Locked, PastAccount, PastPosition
<1> QED BY <1>3, <1>4, <1>5, <1>6, StepOf

(* A request that raises or is cut off keeps the invariant.                *)
LEMMA GivesUp ==
  ASSUME Served, NEW r \in Requests, req[r].pc # "filled", GiveUp(r)
  PROVE  Served'
<1>1. PICK outcome \in {"rolled back", "dropped"} : EndWith(r, outcome)
  BY DEF GiveUp
<1>2. outcome \in Ended /\ outcome # "filled"
  BY DEF Ended
<1>3. UNCHANGED <<accounts, rows, trades, ledger>> /\ Typed
  BY DEF GiveUp, db, Served
<1> QED BY <1>1, <1>2, <1>3, EndKeeps DEF Typed

(* A commit of an order that did not fill keeps the invariant.             *)
LEMMA EndsUnfilled ==
  ASSUME Served, NEW r \in Requests, req[r].pc # "filled",
         NEW status \in {"OPEN", "REJECTED"}, CommitUnfilled(r, status)
  PROVE  Served'
<1>1. PICK outcome \in {"open", "rejected"} : EndWith(r, outcome)
  BY DEF CommitUnfilled
<1>2. outcome \in Ended /\ outcome # "filled"
  BY DEF Ended
<1>3. UNCHANGED <<accounts, rows, trades, ledger>> /\ Typed
  BY DEF CommitUnfilled, Served
<1> QED BY <1>1, <1>2, <1>3, EndKeeps DEF Typed

(* The fields of a request's memory are typed.                             *)
LEMMA FieldsTyped ==
  ASSUME Typed, NEW r \in Requests
  PROVE  /\ req[r] \in Memory /\ req[r].pc \in Outcomes
         /\ req[r].job \in Jobs \union {NoJob} /\ req[r].old \in PositionRecord
         /\ req[r].new \in PositionRecord /\ req[r].delta \in Int /\ req[r].floating \in Int
         /\ req[r].toMark \subseteq Marks /\ req[r].columns \subseteq Columns
BY DEF Typed, Memory

(* A call that arrives: the copy it reads is an account row.               *)
LEMMA BeginKeeps ==
  ASSUME Served, NEW r \in Requests, Begin(r)
  PROVE  Served'
<1>1. Typed /\ req[r].pc = "idle"
  BY DEF Served, Begin, BeginOrder, BeginGraduation, Arrive
<1>2. ASSUME NEW job \in Jobs, NEW pc \in {"select held", "graduate"}
      PROVE  [Blank(pc) EXCEPT !.job = job, !.account = accounts[job.account]] \in Memory
  <2>1. Blank(pc) \in Memory
    BY BlankTyped DEF Outcomes
  <2>2. accounts[job.account] \in Account
    BY <1>1, JobsTyped DEF Typed
  <2> QED BY <2>1, <2>2 DEF Memory
<1>3. ASSUME BeginOrder(r) PROVE Served'
  <2>1. PICK job \in OrderJobs :
          /\ req' = [req EXCEPT ![r] = [Blank("select held") EXCEPT
                                          !.job = job, !.account = accounts[job.account]]]
          /\ UNCHANGED <<db, locks>>
    BY <1>3 DEF BeginOrder
  <2>2. PICK m : m = [Blank("select held") EXCEPT !.job = job, !.account = accounts[job.account]]
    OBVIOUS
  <2>3. job \in Jobs /\ accounts[job.account] \in Account
    BY <1>1, JobsTyped DEF Typed
  <2>4. /\ m \in Memory /\ m.pc = "select held" /\ m.job = job
        /\ m.account = accounts[job.account] /\ m.delta = 0
    BY <1>2, <2>2, <2>3 DEF Blank
  <2>5. m.pc \notin Filling \union PastAccount
                     \union {"update position", "graduate", "commit", "filled"}
    BY <2>4 DEF Filling, PastAccount
  <2> QED BY <1>1, <2>1, <2>2, <2>3, <2>4, <2>5, InMemory DEF PastAccount
<1>4. ASSUME BeginGraduation(r) PROVE Served'
  <2>1. PICK job \in GraduateJobs :
          /\ \/ req' = [req EXCEPT ![r] = [Blank("graduate") EXCEPT
                                             !.job = job, !.account = accounts[job.account]]]
             \/ req' = [req EXCEPT ![r] = Blank("refused")]
          /\ UNCHANGED <<db, locks>>
    BY <1>4 DEF BeginGraduation
  <2>2. CASE req' = [req EXCEPT ![r] = [Blank("graduate") EXCEPT
                                          !.job = job, !.account = accounts[job.account]]]
    <3>1. PICK m : m = [Blank("graduate") EXCEPT !.job = job, !.account = accounts[job.account]]
      OBVIOUS
    <3>2. job \in Jobs
      BY JobsTyped
    <3>3. m \in Memory /\ m.pc = "graduate" /\ m.job = job /\ m.delta = 0
      BY <1>2, <3>1, <3>2 DEF Blank
    <3>4. m.pc \notin Ordering \union Filling \union PastAccount
                       \union {"update position", "commit", "filled"}
      BY <3>3 DEF Ordering, Filling, PastAccount
    <3> QED BY <1>1, <2>1, <2>2, <3>1, <3>3, <3>4, InMemory DEF PastAccount
  <2>3. CASE req' = [req EXCEPT ![r] = Blank("refused")]
    <3>1. PICK m : m = Blank("refused")
      OBVIOUS
    <3>2. m \in Memory /\ m.pc = "refused" /\ m.delta = 0
      BY <3>1, BlankTyped DEF Outcomes, Ended
    <3>3. m.pc \notin Ordering \union Filling \union PastAccount
                       \union {"update position", "commit", "graduate", "filled"}
      BY <3>2 DEF Ordering, Filling, PastAccount
    <3> QED BY <1>1, <2>1, <2>3, <3>1, <3>2, <3>3, InMemory DEF PastAccount
  <2> QED BY <2>1, <2>2, <2>3
<1> QED BY <1>3, <1>4 DEF Begin

(* check_pre_trade and the match end the order or change memory only.      *)
LEMMA SelectsKeep ==
  ASSUME Served, NEW r \in Requests, SelectHeld(r) \/ SelectExposure(r) \/ SubmitOrder(r)
  PROVE  Served'
<1>1. /\ Typed /\ Working(r) /\ req[r] \in Memory
      /\ req[r].pc \in {"select held", "select exposure", "submit"}
  BY FieldsTyped DEF Served, SelectHeld, SelectExposure, SubmitOrder
<1>2. /\ req[r].pc # "filled" /\ req[r].pc \notin PastAccount /\ req[r].pc \notin Filling
      /\ req[r].job \in OrderJobs /\ req[r].account \in Account /\ req[r].delta = 0
  BY <1>1 DEF PastAccount, Filling, Ordering, Working
<1>3. ASSUME NEW m \in Memory, m.pc \in {"select exposure", "submit", "update position"},
             m.job = req[r].job, m.account = req[r].account, m.delta = req[r].delta,
             m.pc = "update position" => m.fill \in Fill,
             req' = [req EXCEPT ![r] = m], UNCHANGED <<db, locks>>
      PROVE  Served'
  <2>1. m.pc \notin Filling \union {"graduate", "commit", "filled"} \union PastAccount
    BY <1>3 DEF Filling, PastAccount
  <2> QED BY <1>2, <1>3, <2>1, InMemory
<1>4. CASE SelectHeld(r)
  <2>1. PICK found : found = RowsFor(rows, req[r].job.account, req[r].job.instrument)
    OBVIOUS
  <2>2. \/ CommitUnfilled(r, "REJECTED") \/ GiveUp(r)
        \/ \E quote \in Quotes :
             /\ req' = [req EXCEPT ![r].pc   = "select exposure",
                                   ![r].ltp  = quote.ltp,
                                   ![r].held = Greater(0, PositionIn(rows, found).net)]
             /\ UNCHANGED <<db, locks>>
    BY <1>4, <2>1 DEF SelectHeld
  <2>3. ASSUME NEW quote \in Quotes,
               req' = [req EXCEPT ![r].pc   = "select exposure",
                                  ![r].ltp  = quote.ltp,
                                  ![r].held = Greater(0, PositionIn(rows, found).net)],
               UNCHANGED <<db, locks>>
        PROVE  Served'
    <3>1. PICK held : held = Greater(0, PositionIn(rows, found).net)
      OBVIOUS
    <3>2. held \in Nat
      <4>1. PositionIn(rows, found).net \in Int
        <5>1. CASE found = {}
          BY <5>1 DEF PositionIn, FlatPosition
        <5>2. CASE found # {}
          <6>1. PICK x : x = CHOOSE y \in found : TRUE
            OBVIOUS
          <6>2. x \in found
            BY <5>2, <6>1
          <6>3. x \in RowIds /\ rows[x] # NoRow
            BY <2>1, <6>2 DEF RowsFor, RowsOf
          <6>4. rows[x].at \in PositionRecord
            BY <1>1, <6>3 DEF Typed, PositionRow
          <6> QED BY <5>2, <6>1, <6>4 DEF PositionIn, PositionRecord
        <5> QED BY <5>1, <5>2
      <4> QED BY <3>1, <4>1 DEF Greater
    <3>3. quote.ltp \in Nat
      BY QuoteAssumption
    <3>4. PICK m : m = [req[r] EXCEPT !.pc = "select exposure", !.ltp = quote.ltp, !.held = held]
      OBVIOUS
    <3>5. /\ m \in Memory /\ m.pc = "select exposure" /\ m.job = req[r].job
          /\ m.account = req[r].account /\ m.delta = req[r].delta
      BY <1>1, <3>2, <3>3, <3>4 DEF Memory, Outcomes
    <3>6. req' = [req EXCEPT ![r] = m]
      BY <1>1, <2>3, <3>1, <3>4 DEF Typed
    <3> QED BY <1>3, <2>3, <3>5, <3>6
  <2> QED BY <1>2, <2>2, <2>3, GivesUp, EndsUnfilled
<1>5. CASE SelectExposure(r)
  <2>1. \/ CommitUnfilled(r, "REJECTED")
        \/ req' = [req EXCEPT ![r].pc = "submit"] /\ UNCHANGED <<db, locks>>
    BY <1>5 DEF SelectExposure
  <2>2. ASSUME req' = [req EXCEPT ![r].pc = "submit"], UNCHANGED <<db, locks>>
        PROVE  Served'
    <3>1. PICK m : m = [req[r] EXCEPT !.pc = "submit"]
      OBVIOUS
    <3>2. /\ m \in Memory /\ m.pc = "submit" /\ m.job = req[r].job
          /\ m.account = req[r].account /\ m.delta = req[r].delta
      BY <1>1, <3>1 DEF Memory, Outcomes
    <3>3. req' = [req EXCEPT ![r] = m]
      BY <1>1, <2>2, <3>1 DEF Typed
    <3> QED BY <1>3, <2>2, <3>2, <3>3
  <2> QED BY <1>2, <2>1, <2>2, EndsUnfilled
<1>6. CASE SubmitOrder(r)
  <2>1. \/ CommitUnfilled(r, "OPEN") \/ CommitUnfilled(r, "REJECTED")
        \/ \E quote \in Quotes \union {NoQuote} :
             LET fill == Match(quote, req[r].job.side, req[r].job.quantity)
             IN  /\ fill.qty # 0
                 /\ req' = [req EXCEPT ![r].pc = "update position", ![r].fill = fill]
                 /\ UNCHANGED <<db, locks>>
    BY <1>6 DEF SubmitOrder
  <2>2. ASSUME NEW quote \in Quotes \union {NoQuote}, NEW fill,
               fill = Match(quote, req[r].job.side, req[r].job.quantity), fill.qty # 0,
               req' = [req EXCEPT ![r].pc = "update position", ![r].fill = fill],
               UNCHANGED <<db, locks>>
        PROVE  Served'
    <3>1. quote \in Quotes
      BY <2>2 DEF Match, NoFill
    <3>2. fill = WalkBook(IF req[r].job.side = "BUY" THEN quote.asks ELSE quote.bids,
                          req[r].job.quantity)
      BY <2>2, <3>1, QuoteAssumption DEF Match
    <3>3. fill \in Fill
      <4>1. PICK levels \in Seq(PricedLevel) : fill = WalkBook(levels, req[r].job.quantity)
        <5>1. quote.asks \in Seq(PricedLevel) /\ quote.bids \in Seq(PricedLevel)
          BY <3>1, QuoteAssumption DEF Level, PricedLevel
        <5> QED BY <3>2, <5>1
      <4>2. req[r].job.quantity \in Int
        BY <1>2, JobsAssumption
      <4>3. fill.qty = 0 \/ fill \in [qty : Nat \ {0}, value : Nat \ {0}]
        BY <4>1, <4>2, WalkFills
      <4> QED BY <2>2, <4>3 DEF Fill
    <3>4. PICK m : m = [req[r] EXCEPT !.pc = "update position", !.fill = fill]
      OBVIOUS
    <3>5. /\ m \in Memory /\ m.pc = "update position" /\ m.job = req[r].job
          /\ m.account = req[r].account /\ m.delta = req[r].delta /\ m.fill \in Fill
      BY <1>1, <3>3, <3>4 DEF Memory, Outcomes
    <3>6. req' = [req EXCEPT ![r] = m]
      BY <1>1, <2>2, <3>4 DEF Typed
    <3> QED BY <1>3, <2>2, <3>5, <3>6
  <2> QED BY <1>2, <2>1, <2>2, EndsUnfilled
<1> QED BY <1>4, <1>5, <1>6

(* The columns an UPDATE leaves alone keep what the table has.             *)
LEMMA OverwriteTyped ==
  ASSUME NEW columns
  PROVE  /\ \A row \in Account, values \in Account :
              /\ Overwrite(row, columns, values) \in Account
              /\ Overwrite(row, columns, values).status =
                   IF "status" \in columns THEN values.status ELSE row.status
              /\ Overwrite(row, columns, values).realized =
                   IF "realized" \in columns THEN values.realized ELSE row.realized
         /\ \A row \in PositionRecord, values \in PositionRecord :
              /\ Overwrite(row, columns, values) \in PositionRecord
              /\ Overwrite(row, columns, values).net =
                   IF "net" \in columns THEN values.net ELSE row.net
<1>1. ASSUME NEW row \in Account, NEW values \in Account
      PROVE  /\ Overwrite(row, columns, values) \in Account
             /\ Overwrite(row, columns, values).status =
                   IF "status" \in columns THEN values.status ELSE row.status
             /\ Overwrite(row, columns, values).realized =
                   IF "realized" \in columns THEN values.realized ELSE row.realized
  BY DEF Overwrite, Account, AccountFigures
<1>2. ASSUME NEW row \in PositionRecord, NEW values \in PositionRecord
      PROVE  /\ Overwrite(row, columns, values) \in PositionRecord
             /\ Overwrite(row, columns, values).net =
                   IF "net" \in columns THEN values.net ELSE row.net
  BY DEF Overwrite, PositionRecord
<1> QED BY <1>1, <1>2

(* From the match to the commit, what the request is filling is typed.     *)
LEMMA FillingTyped ==
  ASSUME Served, NEW r \in Requests, req[r].pc \in Filling \union {"update position"}
  PROVE  /\ Typed /\ Working(r) /\ Locked(r) /\ req[r] \in Memory /\ req[r].pc # "filled"
         /\ req[r].job \in OrderJobs /\ req[r].account \in Account /\ req[r].fill \in Fill
         /\ req[r].job.account \in Accounts /\ req[r].job.instrument \in Instruments
         /\ <<req[r].job.account, req[r].job.instrument>> \in Keys
         /\ req[r].fill.qty \in Nat \ {0}
         /\ req[r].pc \in Filling => req[r].row \in RowIds
<1>1. Typed /\ Working(r) /\ Locked(r) /\ req[r] \in Memory
  BY FieldsTyped DEF Served
<1>2. /\ req[r].pc \in Ordering /\ req[r].pc # "filled"
  BY DEF Ordering, Filling
<1>3. req[r].job \in OrderJobs /\ req[r].account \in Account /\ req[r].fill \in Fill
  BY <1>1, <1>2 DEF Working
<1>4. req[r].fill.qty \in Nat \ {0}
  BY <1>3 DEF Fill
<1> QED BY <1>1, <1>2, <1>3, <1>4, JobsTyped DEF Working

(* _update_position: the row found is one of the contract, and the new     *)
(* figures are typed.                                                      *)
LEMMA UpdateKeeps ==
  ASSUME Served, NEW r \in Requests, UpdatePosition(r)
  PROVE  Served'
<1> DEFINE found == RowsFor(rows, req[r].job.account, req[r].job.instrument)
           old   == PositionIn(rows, found)
<1>1. /\ req[r].pc = "update position" /\ req[r].pc \in Filling \union {"update position"}
      /\ req[r].pc \notin PastAccount
      /\ \/ GiveUp(r)
         \/ /\ req' = [req EXCEPT
                         ![r].pc    = "flush account",
                         ![r].row   = IF found = {} THEN r ELSE CHOOSE x \in found : TRUE,
                         ![r].old   = old,
                         ![r].new   = PositionAfter(old, req[r].job.side, req[r].fill),
                         ![r].delta = RealizedNumerator(old, req[r].job.side, req[r].fill)]
            /\ UNCHANGED <<db, locks>>
  BY DEF UpdatePosition, PastAccount
<1>2. /\ Typed /\ Working(r) /\ req[r] \in Memory /\ req[r].pc # "filled"
      /\ req[r].job \in OrderJobs /\ req[r].account \in Account /\ req[r].fill \in Fill
  BY <1>1, FillingTyped
<1>3. CASE ~GiveUp(r)
  <2>1. PICK row : row = IF found = {} THEN r ELSE CHOOSE x \in found : TRUE
    OBVIOUS
  <2>2. /\ row \in RowIds /\ old \in PositionRecord
        /\ row # r => /\ rows[row] # NoRow /\ rows[row].account = req[r].job.account
                      /\ rows[row].instrument = req[r].job.instrument
    <3>1. CASE found = {}
      BY <2>1, <3>1, NamesDiffer DEF PositionIn, FlatPosition, PositionRecord
    <3>2. CASE found # {}
      <4>1. row \in found
        BY <2>1, <3>2
      <4>2. /\ row \in RowIds /\ rows[row] # NoRow /\ rows[row].account = req[r].job.account
            /\ rows[row].instrument = req[r].job.instrument
        BY <4>1 DEF RowsFor, RowsOf
      <4>3. rows[row].at \in PositionRecord
        BY <1>2, <4>2 DEF Typed, PositionRow
      <4>4. old = rows[row].at
        BY <2>1, <3>2 DEF PositionIn
      <4> QED BY <4>2, <4>3, <4>4
    <3> QED BY <3>1, <3>2
  <2> HIDE DEF old, found
  <2>3. PICK new : new = PositionAfter(old, req[r].job.side, req[r].fill)
    OBVIOUS
  <2>4. PICK delta : delta = RealizedNumerator(old, req[r].job.side, req[r].fill)
    OBVIOUS
  <2>5. new \in PositionRecord /\ delta \in Int
    <3>1. old \in PositionFigures /\ req[r].fill \in FillFigures
      BY <1>2, <2>2 DEF PositionRecord, PositionFigures, Fill, FillFigures
    <3>2. new \in PositionFigures /\ delta \in Int
      BY <2>3, <2>4, <3>1, PositionFigured
    <3> QED BY <3>2 DEF PositionRecord, PositionFigures
  <2>6. PICK m : m = [req[r] EXCEPT !.pc = "flush account", !.row = row, !.old = old,
                                    !.new = new, !.delta = delta]
    OBVIOUS
  <2>7. /\ m \in Memory /\ m.pc = "flush account" /\ m.job = req[r].job
        /\ m.account = req[r].account /\ m.fill = req[r].fill /\ m.row = row
    BY <1>2, <2>2, <2>5, <2>6 DEF Memory, Outcomes, Filling
  <2>8. req' = [req EXCEPT ![r] = m] /\ UNCHANGED <<db, locks>>
    <3>1. req' = [req EXCEPT ![r].pc = "flush account", ![r].row = row, ![r].old = old,
                             ![r].new = new, ![r].delta = delta]
      BY <1>1, <1>3, <2>1, <2>3, <2>4 DEF found, old
    <3> QED BY <1>1, <1>2, <1>3, <2>6, <3>1 DEF Typed
  <2>9. /\ m.pc \in Filling /\ m.pc \notin {"graduate", "commit", "filled"} \union PastAccount
    BY <2>7 DEF Filling, PastAccount
  <2> QED BY <1>1, <1>2, <2>2, <2>7, <2>8, <2>9, InMemory
<1> QED BY <1>2, <1>3, GivesUp

(* A request that goes on from one place past its position update to the   *)
(* next, and may take one lock.                                            *)
LEMMA GoesOn ==
  ASSUME Served, NEW r \in Requests, req[r].pc \in Filling, NEW pc \in PastAccount,
         req' = [req EXCEPT ![r].pc = pc], UNCHANGED db,
         locks' \in [Lockable -> Requests \union {Free}],
         \A l \in Lockable : locks'[l] = locks[l] \/ {locks[l], locks'[l]} \subseteq {Free, r},
         pc # "commit"
  PROVE  /\ Typed' /\ Moves(r) /\ Working(r)'
         /\ req'[r].pc = pc /\ req'[r].job = req[r].job /\ req'[r].row = req[r].row
         /\ req'[r].delta = req[r].delta
<1>1. /\ Typed /\ Working(r) /\ req[r] \in Memory
      /\ req[r].job \in OrderJobs /\ req[r].account \in Account /\ req[r].fill \in Fill
  BY FillingTyped
<1>2. PICK m : m = [req[r] EXCEPT !.pc = pc]
  OBVIOUS
<1>3. /\ m \in Memory /\ m.pc = pc /\ m.job = req[r].job /\ m.row = req[r].row
      /\ m.delta = req[r].delta /\ m.account = req[r].account /\ m.fill = req[r].fill
  BY <1>1, <1>2 DEF Memory, Outcomes, Filling, PastAccount
<1>4. req' = [req EXCEPT ![r] = m]
  BY <1>1, <1>2 DEF Typed
<1>5. /\ req' \in [Requests -> Memory] /\ req'[r] = m
      /\ \A s \in Requests \ {r} : req'[s] = req[s]
  BY <1>1, <1>3, <1>4, MovedTo
<1>6. pc \in Filling /\ pc \notin {"graduate", "filled", "commit"} /\ pc \in Ordering
  BY DEF PastAccount, Filling, Ordering
<1>7. req[r].pc \notin {"graduate", "filled"}
  BY DEF Filling
<1>8. Working(r)'
  BY <1>1, <1>3, <1>5, <1>6, <1>7 DEF Working, db
<1>9. Typed' /\ Moves(r)
  BY <1>1, <1>5 DEF Typed, Moves, db
<1> QED BY <1>3, <1>5, <1>8, <1>9

(* The flush of the account takes its lock when the realized P&L changed.  *)
LEMMA FlushAccountKeeps ==
  ASSUME Served, NEW r \in Requests, FlushAccount(r)
  PROVE  Served'
<1>1. /\ req[r].pc = "flush account" /\ req' = [req EXCEPT ![r].pc = "flush position"]
      /\ UNCHANGED db /\ req[r].pc \in Filling /\ "flush position" \in PastAccount
  BY DEF FlushAccount, Filling, PastAccount
<1>2. /\ Typed /\ Working(r) /\ Locked(r)
      /\ req[r].job.account \in Accounts /\ req[r].job.account \in Lockable
  BY <1>1, FillingTyped, NamesDiffer
<1>3. \A l \in Lockable : locks[l] # r
  BY <1>1, <1>2 DEF Locked, PastAccount, PastPosition
<1>4. /\ \/ req[r].delta = 0 /\ locks' = locks
         \/ /\ req[r].delta # 0 /\ locks[req[r].job.account] \in {Free, r}
            /\ locks' = [locks EXCEPT ![req[r].job.account] = r]
  BY DEF FlushAccount, Lock
<1>5. /\ locks' \in [Lockable -> Requests \union {Free}]
      /\ \A l \in Lockable : locks'[l] = locks[l] \/ {locks[l], locks'[l]} \subseteq {Free, r}
      /\ \A l \in Lockable : locks'[l] = r => l = req[r].job.account /\ req[r].delta # 0
      /\ req[r].delta # 0 => locks'[req[r].job.account] = r
  BY <1>2, <1>3, <1>4 DEF Typed
<1>6. /\ Typed' /\ Moves(r) /\ Working(r)'
      /\ req'[r].pc = "flush position" /\ req'[r].job = req[r].job
      /\ req'[r].row = req[r].row /\ req'[r].delta = req[r].delta
  BY <1>1, <1>5, GoesOn
<1>7. Locked(r)'
  BY <1>5, <1>6 DEF Locked, PastAccount
<1> QED BY <1>6, <1>7, StepOf

(* The flush of the position takes the lock of a row that is there.        *)
LEMMA FlushPositionKeeps ==
  ASSUME Served, NEW r \in Requests, FlushPosition(r)
  PROVE  Served'
<1>1. /\ req[r].pc = "flush position" /\ req' = [req EXCEPT ![r].pc = "select open"]
      /\ UNCHANGED db /\ req[r].pc \in Filling /\ "select open" \in PastAccount
  BY DEF FlushPosition, Filling, PastAccount
<1>2. /\ Typed /\ Working(r) /\ Locked(r) /\ req[r].row \in RowIds
      /\ req[r].job.account \in Accounts /\ req[r].job.account \in Lockable
      /\ req[r].row \in Lockable
  BY <1>1, FillingTyped, NamesDiffer
<1>3. /\ \A l \in Lockable : locks[l] = r => l = req[r].job.account /\ req[r].delta # 0
      /\ req[r].delta # 0 => locks[req[r].job.account] = r
  BY <1>1, <1>2 DEF Locked, PastAccount, PastPosition
<1>4. /\ \/ req[r].row = r /\ locks' = locks
         \/ /\ req[r].row # r /\ locks[req[r].row] \in {Free, r}
            /\ locks' = [locks EXCEPT ![req[r].row] = r]
  BY DEF FlushPosition, Lock, Inserts
<1>5. /\ locks' \in [Lockable -> Requests \union {Free}]
      /\ \A l \in Lockable : locks'[l] = locks[l] \/ {locks[l], locks'[l]} \subseteq {Free, r}
      /\ \A l \in Lockable : locks'[l] = r =>
           \/ l = req[r].job.account /\ req[r].delta # 0
           \/ l = req[r].row /\ l # r
      /\ req[r].delta # 0 => locks'[req[r].job.account] = r
  BY <1>2, <1>3, <1>4 DEF Typed
<1>6. /\ Typed' /\ Moves(r) /\ Working(r)'
      /\ req'[r].pc = "select open" /\ req'[r].job = req[r].job
      /\ req'[r].row = req[r].row /\ req'[r].delta = req[r].delta
  BY <1>1, <1>5, GoesOn
<1>7. Locked(r)'
  BY <1>2, <1>5, <1>6 DEF Locked, PastAccount, PastPosition
<1> QED BY <1>6, <1>7, StepOf

(* The row the fill writes: of its account and contract, with its figures. *)
LEMMA WrittenTyped ==
  ASSUME Served, NEW r \in Requests, req[r].pc \in Filling
  PROVE  /\ PositionWritten(r) \in PositionRow
         /\ PositionWritten(r).account = req[r].job.account
         /\ PositionWritten(r).instrument = req[r].job.instrument
         /\ PositionWritten(r).at.net = req[r].new.net
<1>1. /\ Typed /\ Working(r) /\ req[r].row \in RowIds /\ req[r].new \in PositionRecord
      /\ req[r].job.account \in Accounts /\ req[r].job.instrument \in Instruments
  BY FillingTyped, FieldsTyped
<1>2. PICK at : at = IF Inserts(r) THEN req[r].new
                     ELSE Overwrite(rows[req[r].row].at, PositionColumns(r), req[r].new)
  OBVIOUS
<1>3. at \in PositionRecord /\ at.net = req[r].new.net
  <2>1. CASE Inserts(r)
    BY <1>1, <1>2, <2>1
  <2>2. CASE ~Inserts(r)
    <3>1. rows[req[r].row] # NoRow
      BY <1>1, <2>2 DEF Inserts, Working
    <3>2. rows[req[r].row].at \in PositionRecord
      BY <1>1, <3>1 DEF Typed, PositionRow
    <3>3. "net" \in PositionColumns(r)
      BY DEF PositionColumns
    <3> QED BY <1>1, <1>2, <2>2, <3>2, <3>3, OverwriteTyped
  <2> QED BY <2>1, <2>2
<1>4. PositionWritten(r) = [account |-> req[r].job.account, instrument |-> req[r].job.instrument,
                            at |-> at]
  BY <1>2 DEF PositionWritten
<1> QED BY <1>1, <1>3, <1>4 DEF PositionRow

(* The select of the open positions: each row found is typed.              *)
LEMMA SelectOpenKeeps ==
  ASSUME Served, NEW r \in Requests, SelectOpen(r)
  PROVE  Served'
<1>1. /\ req[r].pc = "select open" /\ UNCHANGED <<db, locks>> /\ req[r].pc \in Filling
      /\ req[r].pc \in PastPosition
  BY DEF SelectOpen, Filling, PastPosition
<1>2. /\ Typed /\ Working(r) /\ req[r] \in Memory /\ req[r].row \in RowIds
      /\ req[r].job \in OrderJobs /\ req[r].account \in Account /\ req[r].fill \in Fill
      /\ req[r].pc # "filled"
  BY <1>1, FillingTyped
<1> DEFINE view == [rows EXCEPT ![req[r].row] = PositionWritten(r)]
           open == {x \in RowsOf(view, req[r].job.account) : view[x].at.net # 0}
<1>3. PICK marks : marks = {[row |-> x, instrument |-> view[x].instrument,
                             at |-> view[x].at] : x \in open}
  OBVIOUS
<1>4. marks \subseteq Marks
  <2>1. view \in [RowIds -> PositionRow \union {NoRow}]
    BY <1>1, <1>2, WrittenTyped DEF Typed
  <2>2. open \subseteq {x \in RowIds : view[x] # NoRow}
    BY DEF RowsOf
  <2> HIDE DEF view, open
  <2>3. \A x \in open : /\ x \in RowIds /\ view[x].instrument \in Instruments
                        /\ view[x].at \in PositionRecord
    BY <2>1, <2>2 DEF PositionRow
  <2> QED BY <1>3, <2>3 DEF Marks
<1>5. req' = [req EXCEPT ![r].pc = "mark", ![r].toMark = marks]
  BY <1>3 DEF SelectOpen
<1> HIDE DEF view, open
<1>6. PICK m : m = [req[r] EXCEPT !.pc = "mark", !.toMark = marks]
  OBVIOUS
<1>7. /\ m \in Memory /\ m.pc = "mark" /\ m.job = req[r].job /\ m.row = req[r].row
      /\ m.delta = req[r].delta /\ m.account = req[r].account /\ m.fill = req[r].fill
  BY <1>2, <1>4, <1>6 DEF Memory, Outcomes, Filling
<1>8. req' = [req EXCEPT ![r] = m]
  BY <1>2, <1>5, <1>6 DEF Typed
<1>9. m.pc \in Filling /\ m.pc \in PastPosition /\ m.pc \notin {"graduate", "commit", "filled"}
  BY <1>7 DEF Filling, PastPosition
<1> QED BY <1>1, <1>2, <1>7, <1>8, <1>9, InMemory DEF Working

(* Marking one position adds a whole amount to the floating P&L.           *)
LEMMA MarkKeeps ==
  ASSUME Served, NEW r \in Requests, MarkPosition(r)
  PROVE  Served'
<1>1. /\ req[r].pc = "mark" /\ UNCHANGED <<db, locks>> /\ req[r].pc \in Filling
      /\ req[r].pc \in PastPosition
  BY DEF MarkPosition, Filling, PastPosition
<1>2. /\ Typed /\ Working(r) /\ req[r] \in Memory /\ req[r].row \in RowIds
      /\ req[r].job \in OrderJobs /\ req[r].account \in Account /\ req[r].fill \in Fill
      /\ req[r].toMark \subseteq Marks /\ req[r].floating \in Int
  BY <1>1, FillingTyped, FieldsTyped
<1>3. PICK p \in req[r].toMark, quote \in Quotes \union {NoQuote} :
        LET pnl == IF quote = NoQuote THEN 0 ELSE PositionPnl(p.at, quote.ltp)
        IN  req' = [req EXCEPT ![r].toMark = @ \ {p}, ![r].floating = @ + pnl]
  BY DEF MarkPosition
<1>4. PICK pnl : pnl = IF quote = NoQuote THEN 0 ELSE PositionPnl(p.at, quote.ltp)
  OBVIOUS
<1>5. pnl \in Int
  <2>1. p.at \in PositionRecord
    BY <1>2 DEF Marks
  <2>2. p.at.net \in Int /\ p.at.entry \in Int
    BY <2>1 DEF PositionRecord
  <2>3. quote # NoQuote => quote.ltp \in Int
    BY QuoteAssumption
  <2>4. quote # NoQuote => (quote.ltp - p.at.entry) * p.at.net \in Int
    BY <2>2, <2>3
  <2> QED BY <1>4, <2>4 DEF PositionPnl
<1>6. req' = [req EXCEPT ![r].toMark = req[r].toMark \ {p},
                         ![r].floating = req[r].floating + pnl]
  BY <1>2, <1>3, <1>4 DEF Typed
<1>7. PICK m : m = [req[r] EXCEPT !.toMark = req[r].toMark \ {p},
                                  !.floating = req[r].floating + pnl]
  OBVIOUS
<1>8. /\ m \in Memory /\ m.pc = "mark" /\ m.job = req[r].job /\ m.row = req[r].row
      /\ m.delta = req[r].delta /\ m.account = req[r].account /\ m.fill = req[r].fill
  <2>1. req[r].toMark \ {p} \subseteq Marks /\ req[r].floating + pnl \in Int
    BY <1>2, <1>5
  <2> QED BY <1>1, <1>2, <1>7, <2>1 DEF Memory
<1>9. req' = [req EXCEPT ![r] = m]
  BY <1>2, <1>6, <1>7 DEF Typed
<1>10. m.pc \in Filling /\ m.pc \in PastPosition /\ m.pc \notin {"graduate", "commit", "filled"}
  BY <1>8 DEF Filling, PastPosition
<1> QED BY <1>1, <1>2, <1>8, <1>9, <1>10, InMemory DEF Working

(* What the rules leave of the copy: an account's row, whose status is one *)
(* of the columns only when it was judged.                                 *)
LEMMA RulesJudge ==
  ASSUME Served, NEW r \in Requests, req[r].pc \in Filling
  PROVE  LET marked == AccountAfter(req[r].account, req[r].delta, req[r].fill.qty,
                                    req[r].floating, Rules, TradingDays)
             columns == AccountColumns(req[r], marked)
         IN  /\ marked \in Account /\ columns \subseteq Columns
             /\ marked.realized =
                  RoundDiv(req[r].account.realized * req[r].fill.qty + req[r].delta,
                           req[r].fill.qty)
             /\ "status" \in columns => marked.status \in {"PASSED", "FAILED"}
             /\ "realized" \in columns <=> req[r].delta # 0
<1>1. /\ req[r].account \in Account /\ req[r].fill.qty \in Nat \ {0}
      /\ req[r].delta \in Int /\ req[r].floating \in Int
  BY FillingTyped, FieldsTyped
<1>2. PICK marked : marked = AccountAfter(req[r].account, req[r].delta, req[r].fill.qty,
                                          req[r].floating, Rules, TradingDays)
  OBVIOUS
<1>3. PICK v : v = Valuation(req[r].account, req[r].delta, req[r].fill.qty, req[r].floating)
  OBVIOUS
<1>4. /\ marked \in Account /\ marked.status \in {req[r].account.status, "PASSED", "FAILED"}
      /\ marked.realized = RoundDiv(v.realized, req[r].fill.qty)
  BY <1>1, <1>2, <1>3, AccountFigured DEF Account, Statuses
<1>5. v.realized = req[r].account.realized * req[r].fill.qty + req[r].delta
  BY <1>1, <1>3, ValuationFigured DEF Account
<1>6. PICK columns : columns = AccountColumns(req[r], marked)
  OBVIOUS
<1>7. /\ columns \subseteq Columns
      /\ "status" \in columns => marked.status # req[r].account.status
      /\ "realized" \in columns <=> req[r].delta # 0
  <2> DEFINE w == Valuation(req[r].account, req[r].delta, req[r].fill.qty, req[r].floating)
             changed ==
               [realized |-> req[r].delta # 0,
                floating |-> req[r].floating # req[r].account.floating,
                equity   |-> w.equity # req[r].account.equity * req[r].fill.qty,
                daily    |-> w.daily # req[r].account.daily * req[r].fill.qty,
                hwm      |-> w.hwm # req[r].account.hwm * req[r].fill.qty,
                drawdown |-> w.drawdown # req[r].account.drawdown * req[r].fill.qty,
                drawdownPercent |->
                  IF w.hwm > 0
                  THEN w.drawdown * 10000 # req[r].account.drawdownPercent * w.hwm
                  ELSE req[r].account.drawdownPercent # 0,
                status   |-> marked.status # req[r].account.status]
  <2>1. columns = {c \in DOMAIN changed : changed[c]}
    BY <1>6 DEF AccountColumns
  <2>2. DOMAIN changed = Columns
    BY DEF Columns
  <2> HIDE DEF w
  <2>3. changed["status"] = (marked.status # req[r].account.status)
    BY Zenon
  <2>4. changed["realized"] = (req[r].delta # 0)
    BY Zenon
  <2>5. "status" \in Columns /\ "realized" \in Columns
    BY DEF Columns
  <2> HIDE DEF changed
  <2> QED BY <2>1, <2>2, <2>3, <2>4, <2>5, Zenon
<1> QED BY <1>2, <1>4, <1>5, <1>6, <1>7

(* The rules change the copy of the account and nothing committed.         *)
LEMMA RulesKeep ==
  ASSUME Served, NEW r \in Requests, ApplyRules(r)
  PROVE  Served'
<1>1. /\ req[r].pc = "mark" /\ UNCHANGED <<db, locks>> /\ req[r].pc \in Filling
      /\ req[r].pc \in PastPosition
  BY DEF ApplyRules, Filling, PastPosition
<1>2. /\ Typed /\ Working(r) /\ req[r] \in Memory /\ req[r].row \in RowIds
      /\ req[r].job \in OrderJobs /\ req[r].account \in Account /\ req[r].fill \in Fill
  BY <1>1, FillingTyped
<1>3. PICK marked : marked = AccountAfter(req[r].account, req[r].delta, req[r].fill.qty,
                                          req[r].floating, Rules, TradingDays)
  OBVIOUS
<1>4. PICK columns : columns = AccountColumns(req[r], marked)
  OBVIOUS
<1>5. /\ marked \in Account /\ columns \subseteq Columns
      /\ "status" \in columns => marked.status \in {"PASSED", "FAILED"}
  BY <1>1, <1>3, <1>4, RulesJudge
<1>6. req' = [req EXCEPT ![r].pc = "commit", ![r].account = marked, ![r].columns = columns]
  BY <1>3, <1>4 DEF ApplyRules
<1>7. PICK m : m = [req[r] EXCEPT !.pc = "commit", !.account = marked, !.columns = columns]
  OBVIOUS
<1>8. /\ m \in Memory /\ m.pc = "commit" /\ m.job = req[r].job /\ m.row = req[r].row
      /\ m.delta = req[r].delta /\ m.account = marked /\ m.fill = req[r].fill
      /\ m.columns = columns
  BY <1>2, <1>5, <1>7 DEF Memory, Outcomes, Filling
<1>9. req' = [req EXCEPT ![r] = m]
  BY <1>2, <1>6, <1>7 DEF Typed
<1>10. m.pc \in Filling /\ m.pc \in PastPosition /\ m.pc \notin {"graduate", "filled"}
  BY <1>8 DEF Filling, PastPosition
<1> QED BY <1>1, <1>2, <1>5, <1>8, <1>9, <1>10, InMemory DEF Working

(* What a fill's commit writes.                                            *)
LEMMA CommitWrites ==
  ASSUME Served, NEW r \in Requests, CommitFill(r)
  PROVE  LET a == req[r].job.account
             k == <<req[r].job.account, req[r].job.instrument>>
         IN  /\ req[r].pc = "commit" /\ req[r].pc \in Filling /\ EndWith(r, "filled")
             /\ a \in Accounts /\ k \in Keys /\ req[r].row \in RowIds
             /\ accounts[a] \in Account /\ accounts' \in [Accounts -> Account]
             /\ \A b \in Accounts \ {a} : accounts'[b] = accounts[b] /\ ledger'[b] = ledger[b]
             /\ accounts'[a].status = IF "status" \in req[r].columns THEN req[r].account.status
                                      ELSE accounts[a].status
             /\ accounts'[a].realized =
                  IF "realized" \in req[r].columns THEN req[r].account.realized
                  ELSE accounts[a].realized
             /\ rows' \in [RowIds -> PositionRow \union {NoRow}]
             /\ rows'[req[r].row] = PositionWritten(r)
             /\ \A x \in RowIds \ {req[r].row} : rows'[x] = rows[x]
             /\ trades' \in [Keys -> Int]
             /\ trades'[k] = trades[k] + SignedQuantity(req[r].job.side, req[r].fill.qty)
             /\ \A l \in Keys \ {k} : trades'[l] = trades[l]
             /\ ledger' \in [Accounts -> [sum : Int, entries : Nat]]
             /\ req[r].delta = 0 => ledger'[a] = ledger[a]
             /\ req[r].delta # 0 =>
                  /\ ledger'[a].sum = ledger[a].sum + RoundDiv(req[r].delta, req[r].fill.qty)
                  /\ ledger'[a].entries = ledger[a].entries + 1
<1>1. req[r].pc = "commit" /\ req[r].pc \in Filling /\ EndWith(r, "filled")
  BY DEF CommitFill, Filling
<1>2. PICK a : a = req[r].job.account
  OBVIOUS
<1>3. PICK k : k = <<req[r].job.account, req[r].job.instrument>>
  OBVIOUS
<1>4. /\ Typed /\ a \in Accounts /\ k \in Keys /\ req[r].row \in RowIds
      /\ req[r].account \in Account /\ req[r].fill.qty \in Nat \ {0}
      /\ req[r].delta \in Int /\ PositionWritten(r) \in PositionRow
  BY <1>1, <1>2, <1>3, FillingTyped, FieldsTyped, WrittenTyped
<1>5. PICK written : written = Overwrite(accounts[a], req[r].columns, req[r].account)
  OBVIOUS
<1>6. /\ accounts[a] \in Account /\ written \in Account
      /\ written.status = IF "status" \in req[r].columns THEN req[r].account.status
                          ELSE accounts[a].status
      /\ written.realized = IF "realized" \in req[r].columns THEN req[r].account.realized
                            ELSE accounts[a].realized
  <2>1. accounts[a] \in Account
    BY <1>4 DEF Typed
  <2> QED BY <1>4, <1>5, <2>1, OverwriteTyped
<1>7. accounts' = [accounts EXCEPT ![a] = written]
  BY <1>2, <1>5 DEF CommitFill
<1>8. rows' = [rows EXCEPT ![req[r].row] = PositionWritten(r)]
  BY DEF CommitFill
<1>9. PICK change : change = SignedQuantity(req[r].job.side, req[r].fill.qty)
  OBVIOUS
<1>10. change \in Int
  BY <1>4, <1>9 DEF SignedQuantity
<1>11. trades[k] \in Int /\ trades' = [trades EXCEPT ![k] = trades[k] + change]
  BY <1>3, <1>4, <1>9 DEF CommitFill, Typed
<1>12. trades[k] + change \in Int
  BY <1>10, <1>11
<1>13. PICK part : part = RoundDiv(req[r].delta, req[r].fill.qty)
  OBVIOUS
<1>14. part \in Int
  BY <1>4, <1>13, RoundNear
<1>15. PICK entry : entry = [sum |-> ledger[a].sum + part, entries |-> ledger[a].entries + 1]
  OBVIOUS
<1>16. /\ ledger[a] \in [sum : Int, entries : Nat] /\ entry \in [sum : Int, entries : Nat]
       /\ entry.sum = ledger[a].sum + part /\ entry.entries = ledger[a].entries + 1
  <2>1. ledger[a] \in [sum : Int, entries : Nat]
    BY <1>4 DEF Typed
  <2> QED BY <1>14, <1>15, <2>1
<1>17. /\ req[r].delta = 0 => ledger' = ledger
       /\ req[r].delta # 0 => ledger' = [ledger EXCEPT ![a] = entry]
  BY <1>2, <1>4, <1>13, <1>15 DEF CommitFill, Typed
<1>18. /\ accounts' \in [Accounts -> Account] /\ accounts'[a] = written
       /\ \A b \in Accounts \ {a} : accounts'[b] = accounts[b]
  BY <1>4, <1>6, <1>7 DEF Typed
<1>19. /\ rows' \in [RowIds -> PositionRow \union {NoRow}]
       /\ rows'[req[r].row] = PositionWritten(r)
       /\ \A x \in RowIds \ {req[r].row} : rows'[x] = rows[x]
  BY <1>4, <1>8 DEF Typed
<1>20. /\ trades' \in [Keys -> Int] /\ trades'[k] = trades[k] + change
       /\ \A l \in Keys \ {k} : trades'[l] = trades[l]
  BY <1>4, <1>11, <1>12 DEF Typed
<1>21. /\ ledger' \in [Accounts -> [sum : Int, entries : Nat]]
       /\ req[r].delta = 0 => ledger'[a] = ledger[a]
       /\ req[r].delta # 0 => ledger'[a] = entry
       /\ \A b \in Accounts \ {a} : ledger'[b] = ledger[b]
  BY <1>4, <1>16, <1>17 DEF Typed
<1> QED BY <1>1, <1>2, <1>3, <1>4, <1>6, <1>9, <1>13, <1>16, <1>18, <1>19, <1>20, <1>21

(* The commit of a fill: the row it writes is its own, or stays of the     *)
(* contract it was of.                                                     *)
LEMMA CommitKeeps ==
  ASSUME Served, NEW r \in Requests, CommitFill(r)
  PROVE  Served'
<1>1. /\ req[r].pc \in Filling /\ req[r].row \in RowIds /\ EndWith(r, "filled")
      /\ accounts' \in [Accounts -> Account]
      /\ rows' \in [RowIds -> PositionRow \union {NoRow}]
      /\ rows'[req[r].row] = PositionWritten(r)
      /\ \A x \in RowIds \ {req[r].row} : rows'[x] = rows[x]
      /\ trades' \in [Keys -> Int]
      /\ ledger' \in [Accounts -> [sum : Int, entries : Nat]]
  BY CommitWrites
<1>2. /\ PositionWritten(r) \in PositionRow /\ Working(r)
      /\ PositionWritten(r).account = req[r].job.account
      /\ PositionWritten(r).instrument = req[r].job.instrument
      /\ req[r].pc # "filled" /\ "filled" \in Ended
  BY <1>1, WrittenTyped, FillingTyped DEF Ended
<1>3. /\ PositionWritten(r) # NoRow
      /\ req[r].row # r => /\ rows[req[r].row] # NoRow
                           /\ rows[req[r].row].account = req[r].job.account
                           /\ rows[req[r].row].instrument = req[r].job.instrument
  BY <1>1, <1>2, NamesDiffer DEF Working
<1>4. rows[r] = NoRow
  BY <1>2 DEF Working
<1>5. ASSUME NEW x \in RowIds
      PROVE  /\ rows[x] # NoRow => /\ rows'[x] # NoRow /\ rows'[x].account = rows[x].account
                                   /\ rows'[x].instrument = rows[x].instrument
             /\ rows[x] = NoRow /\ (x # r \/ "filled" # "filled") => rows'[x] = NoRow
  <2>1. CASE x # req[r].row
    BY <1>1, <2>1
  <2>2. CASE x = req[r].row
    BY <1>1, <1>2, <1>3, <1>4, <2>2
  <2> QED BY <2>1, <2>2
<1>6. PICK outcome : outcome = "filled"
  OBVIOUS
<1> QED BY <1>1, <1>2, <1>5, <1>6, EndKeeps

(* What a graduation's commit writes.                                      *)
LEMMA GraduationWrites ==
  ASSUME Served, NEW r \in Requests, CommitGraduation(r)
  PROVE  LET e == req[r].job.account
         IN  /\ req[r].pc = "graduate" /\ EndWith(r, "graduated") /\ e \in Accounts
             /\ UNCHANGED <<rows, trades, ledger>>
             /\ accounts' \in [Accounts -> Account]
             /\ \E f \in Accounts :
                  /\ accounts[f].status = "ABSENT"
                  /\ accounts'[f].status = "ACTIVE" /\ accounts'[f].realized = 0
                  /\ e # f => /\ accounts'[e].status = "CLOSED"
                              /\ accounts'[e].realized = accounts[e].realized
                  /\ \A b \in Accounts \ {e, f} : accounts'[b] = accounts[b]
<1>1. PICK e : e = req[r].job.account
  OBVIOUS
<1>2. Typed /\ Working(r) /\ req[r].pc = "graduate"
  BY DEF Served, CommitGraduation
<1>3. e \in Accounts
  BY <1>1, <1>2, JobsTyped DEF Working
<1>4. PICK f \in Accounts :
        /\ accounts[f].status = "ABSENT"
        /\ accounts' = [accounts EXCEPT
                          ![e].status = "CLOSED",
                          ![f] = NewAccount("ACTIVE", "FUNDED", e, FundedCapital)]
  BY <1>1 DEF CommitGraduation
<1>5. PICK new : new = NewAccount("ACTIVE", "FUNDED", e, FundedCapital)
  OBVIOUS
<1>6. new \in Account /\ new.status = "ACTIVE" /\ new.realized = 0
  BY <1>3, <1>5, CapitalAssumption DEF NewAccount, Account, AccountFigures, Statuses
<1>7. PICK closed : closed = [accounts[e] EXCEPT !.status = "CLOSED"]
  OBVIOUS
<1>8. /\ accounts[e] \in Account /\ closed \in Account /\ closed.status = "CLOSED"
      /\ closed.realized = accounts[e].realized
  <2>1. accounts[e] \in Account
    BY <1>2, <1>3 DEF Typed
  <2> QED BY <1>7, <2>1 DEF Account, AccountFigures, Statuses
<1>9. accounts' = [[accounts EXCEPT ![e] = closed] EXCEPT ![f] = new]
  BY <1>2, <1>3, <1>4, <1>5, <1>7 DEF Typed
<1>10. /\ accounts' \in [Accounts -> Account] /\ accounts'[f] = new
       /\ e # f => accounts'[e] = closed
       /\ \A b \in Accounts \ {e, f} : accounts'[b] = accounts[b]
  BY <1>2, <1>3, <1>6, <1>8, <1>9 DEF Typed
<1>11. EndWith(r, "graduated") /\ UNCHANGED <<rows, trades, ledger>>
  BY DEF CommitGraduation
<1> QED BY <1>1, <1>2, <1>3, <1>4, <1>6, <1>8, <1>10, <1>11

(* The commit of a graduation touches two accounts and no position.        *)
LEMMA GraduationKeeps ==
  ASSUME Served, NEW r \in Requests, CommitGraduation(r)
  PROVE  Served'
<1>1. /\ req[r].pc # "filled" /\ EndWith(r, "graduated") /\ accounts' \in [Accounts -> Account]
      /\ UNCHANGED <<rows, trades, ledger>> /\ Typed
  BY GraduationWrites DEF Served
<1>2. PICK outcome : outcome = "graduated"
  OBVIOUS
<1>3. outcome \in Ended /\ outcome # "filled"
  BY <1>2 DEF Ended
<1> QED BY <1>1, <1>2, <1>3, EndKeeps DEF Typed

(* Nothing is in flight at the start and no row is locked.                 *)
LEMMA InitServed == Init => Served
<1> SUFFICES ASSUME Init PROVE Served
  OBVIOUS
<1>1. \A status \in {"ACTIVE", "ABSENT"} :
        NewAccount(status, "EVALUATION", NoSource, Capital) \in Account
  BY CapitalAssumption DEF NewAccount, Account, AccountFigures, Statuses
<1>2. accounts \in [Accounts -> Account]
  BY <1>1 DEF Init
<1>3. PICK held \in Holdings :
        /\ rows = [x \in RowIds |->
                     IF x \in Keys /\ held[x] # FlatPosition
                     THEN [account |-> x[1], instrument |-> x[2], at |-> held[x]]
                     ELSE NoRow]
        /\ trades = [k \in Keys |-> held[k].net]
  BY DEF Init
<1>4. held \in [Keys -> PositionRecord]
  BY HoldingsAssumption
<1>5. \A k \in Keys : held[k] \in PositionRecord /\ held[k].net \in Int
  BY <1>4 DEF PositionRecord
<1>6. \A k \in Keys : [account |-> k[1], instrument |-> k[2], at |-> held[k]] \in PositionRow
  BY <1>5 DEF Keys, PositionRow
<1>7. rows \in [RowIds -> PositionRow \union {NoRow}] /\ trades \in [Keys -> Int]
  BY <1>3, <1>5, <1>6
<1>8. \A r \in Requests : rows[r] = NoRow
  BY <1>3, NamesAssumption, NamesDiffer
<1>9. /\ ledger \in [Accounts -> [sum : Int, entries : Nat]]
      /\ locks \in [Lockable -> Requests \union {Free}]
      /\ \A l \in Lockable : locks[l] = Free
  BY DEF Init, Lockable
<1>10. Blank("idle") \in Memory /\ Blank("idle").pc = "idle" /\ Blank("idle").delta = 0
  BY BlankTyped DEF Outcomes
<1>11. req \in [Requests -> Memory] /\ \A r \in Requests : req[r] = Blank("idle")
  BY <1>10 DEF Init
<1>12. Typed
  BY <1>2, <1>7, <1>9, <1>11 DEF Typed
<1>13. "idle" \notin Ordering \union Filling \union PastAccount
                     \union {"update position", "graduate", "commit"}
  BY DEF Ordering, Filling, PastAccount
<1>14. ASSUME NEW r \in Requests PROVE Working(r) /\ Locked(r)
  <2>1. req[r].pc = "idle" /\ req[r].delta = 0
    BY <1>10, <1>11
  <2>2. Working(r)
    BY <1>8, <1>13, <2>1 DEF Working
  <2>3. Locked(r)
    BY <1>9, <1>13, <2>1, NamesDiffer DEF Locked
  <2> QED BY <2>2, <2>3
<1> QED BY <1>12, <1>14 DEF Served

(* Every step keeps the invariant: one case per action.                    *)
LEMMA StepServed == Served /\ [Next]_vars => Served'
<1> SUFFICES ASSUME Served, [Next]_vars PROVE Served'
  OBVIOUS
<1>1. ASSUME NEW r \in Requests, Begin(r) \/ Step(r) \/ AbortDeadlocked(r) \/ LoseConnection(r)
      PROVE  Served'
  <2>1. CASE Begin(r)
    BY <2>1, BeginKeeps
  <2>2. CASE Step(r)
    BY <2>2, SelectsKeep, UpdateKeeps, FlushAccountKeeps, FlushPositionKeeps, SelectOpenKeeps,
       MarkKeeps, RulesKeep, CommitKeeps, GraduationKeeps DEF Step, Computes
  <2>3. CASE LoseConnection(r)
    BY <2>3, GivesUp DEF LoseConnection, InFlight, Ended
  <2>4. CASE AbortDeadlocked(r)
    <3>1. PICK x \in Requests : WaitsFor(r, x)
      BY <2>4 DEF AbortDeadlocked, InCycle
    <3>2. req[r].pc # "filled"
      BY <3>1 DEF WaitsFor, Wants
    <3> QED BY <2>4, <3>2, GivesUp DEF AbortDeadlocked
  <2> QED BY <1>1, <2>1, <2>2, <2>3, <2>4
<1>2. CASE UNCHANGED vars
  <2>1. /\ accounts' = accounts /\ rows' = rows /\ trades' = trades /\ ledger' = ledger
        /\ locks' = locks /\ req' = req
    BY <1>2 DEF vars
  <2>2. Typed'
    BY <2>1 DEF Served, Typed
  <2>3. ASSUME NEW r \in Requests PROVE Working(r)' /\ Locked(r)'
    <3>1. Working(r) /\ Locked(r)
      BY DEF Served
    <3>2. Working(r)'
      BY <2>1, <3>1 DEF Working
    <3>3. Locked(r)'
      BY <2>1, <3>1 DEF Locked
    <3> QED BY <3>2, <3>3
  <2> QED BY <2>2, <2>3 DEF Served
<1> QED BY <1>1, <1>2 DEF Next

(* The invariant holds in every reachable state.                           *)
LEMMA AlwaysServed == Spec => []Served
BY InitServed, StepServed, PTL DEF Spec

---------------------------------------------------------------------------
(* The type invariant holds for any number of requests in flight: the      *)
(* tables and every request's memory have their types, and a row is locked *)
(* by nobody or by a request still in flight.                              *)
THEOREM RequestsTyped == Spec => []TypeOK
<1>1. Served => TypeOK
  <2> SUFFICES ASSUME Served PROVE TypeOK
    OBVIOUS
  <2>1. Typed /\ \A r \in Requests : Working(r) /\ Locked(r)
    BY DEF Served
  <2>2. ASSUME NEW a \in Accounts
        PROVE  /\ accounts[a].status \in {"ABSENT", "ACTIVE", "PASSED", "FAILED", "CLOSED"}
               /\ accounts[a].type \in {"EVALUATION", "FUNDED"}
               /\ accounts[a].source \in Accounts \union {NoSource}
    <3>1. accounts[a] \in Account
      BY <2>1 DEF Typed
    <3> QED BY <3>1 DEF Account, AccountFigures, Statuses
  <2>3. ASSUME NEW l \in Lockable PROVE locks[l] \in InFlight \union {Free}
    <3>1. CASE locks[l] \in Requests
      <4>1. req[locks[l]].pc \in PastAccount
        BY <2>1, <3>1 DEF Locked, PastAccount, PastPosition
      <4> QED BY <3>1, <4>1 DEF InFlight, Ended, PastAccount
    <3> QED BY <2>1, <3>1 DEF Typed
  <2>4. locks \in [Accounts \union RowIds -> InFlight \union {Free}]
    BY <2>1, <2>3 DEF Typed, Lockable
  <2>5. ASSUME NEW r \in Requests
        PROVE  /\ req[r].pc \in Outcomes
               /\ req[r].old \in PositionRecord /\ req[r].new \in PositionRecord
    BY <2>1, FieldsTyped
  <2> QED BY <2>1, <2>2, <2>4, <2>5 DEF TypeOK, Typed
<1> QED BY <1>1, AlwaysServed, PTL

(* Two commits change an account's status: a fill's writes the status      *)
(* column only when the rules judged the copy, and a graduation's closes   *)
(* the evaluation account and opens one that was not there.                *)
LEMMA JudgedOnce ==
  ASSUME Served, [Next]_vars, NEW a \in Accounts,
         accounts[a].status \notin {"ACTIVE", "ABSENT"}
  PROVE  accounts'[a].status \notin {"ACTIVE", "ABSENT"}
<1>1. ASSUME NEW r \in Requests, CommitFill(r)
      PROVE  accounts'[a].status \notin {"ACTIVE", "ABSENT"}
  <2>1. PICK b : b = req[r].job.account
    OBVIOUS
  <2>2. /\ req[r].pc = "commit" /\ \A c \in Accounts \ {b} : accounts'[c] = accounts[c]
        /\ accounts'[b].status = IF "status" \in req[r].columns THEN req[r].account.status
                                 ELSE accounts[b].status
    BY <1>1, <2>1, CommitWrites
  <2>3. "status" \in req[r].columns => req[r].account.status \in {"PASSED", "FAILED"}
    BY <2>2 DEF Served, Working
  <2> QED BY <2>2, <2>3
<1>2. ASSUME NEW r \in Requests, CommitGraduation(r)
      PROVE  accounts'[a].status \notin {"ACTIVE", "ABSENT"}
  <2>1. PICK e : e = req[r].job.account
    OBVIOUS
  <2>2. PICK f \in Accounts :
          /\ accounts[f].status = "ABSENT"
          /\ e # f => accounts'[e].status = "CLOSED"
          /\ \A b \in Accounts \ {e, f} : accounts'[b] = accounts[b]
    BY <1>2, <2>1, GraduationWrites
  <2> QED BY <2>2
<1>3. ASSUME NEW r \in Requests,
             \/ Begin(r) \/ (Step(r) /\ ~CommitFill(r) /\ ~CommitGraduation(r))
             \/ AbortDeadlocked(r) \/ LoseConnection(r)
      PROVE  accounts' = accounts
  BY <1>3 DEF Begin, BeginOrder, BeginGraduation, Step, Computes, AbortDeadlocked, LoseConnection,
     GiveUp, CommitUnfilled, SelectHeld, SelectExposure, SubmitOrder, UpdatePosition,
     FlushAccount, FlushPosition, SelectOpen, MarkPosition, ApplyRules, db
<1>4. CASE UNCHANGED vars
  BY <1>4 DEF vars
<1> QED BY <1>1, <1>2, <1>3, <1>4 DEF Next, Step

(* No step takes a PASSED, FAILED or CLOSED account back to ACTIVE,        *)
(* whatever was in flight when it was judged: a request that loaded it     *)
(* ACTIVE writes back only the columns it changed.                         *)
THEOREM JudgedStaysJudged == Spec => NeverRevived
<1>1. Served /\ [Next]_vars =>
        [\A a \in Accounts : accounts[a].status \notin {"ACTIVE", "ABSENT"} =>
           accounts'[a].status \notin {"ACTIVE", "ABSENT"}]_vars
  BY JudgedOnce
<1> QED BY <1>1, AlwaysServed, PTL DEF Spec, NeverRevived

(* The places at which a request waits, and the lock it waits for.         *)
LEMMA Waiting ==
  ASSUME Served, NEW x \in Requests, NEW y \in Requests, WaitsFor(x, y)
  PROVE  /\ x # y
         /\ \/ /\ req[x].pc = "flush account" /\ req[x].delta # 0
               /\ locks[req[x].job.account] = y /\ req[x].job.account \in Accounts
            \/ /\ req[x].pc = "flush position" /\ locks[req[x].row] = y
               /\ req[x].row \in RowIds
            \/ /\ req[x].pc = "commit" /\ locks[req[x].job.account] = y
               /\ req[x].job.account \in Accounts
            \/ /\ req[x].pc = "graduate" /\ locks[req[x].job.account] = y
               /\ req[x].job.account \in Accounts
<1>1. PICK l \in Wants(x) : x # y /\ locks[l] = y
  BY DEF WaitsFor
<1>2. req[x].pc \in Filling => req[x].job.account \in Accounts /\ req[x].row \in RowIds
  BY FillingTyped
<1>3. req[x].pc = "graduate" => req[x].job.account \in Accounts
  BY JobsTyped DEF Served, Working
<1>4. CASE req[x].pc = "flush account"
  BY <1>1, <1>2, <1>4 DEF Wants, Filling
<1>5. CASE req[x].pc = "flush position"
  BY <1>1, <1>2, <1>5 DEF Wants, Filling
<1>6. CASE req[x].pc = "commit"
  BY <1>1, <1>2, <1>6 DEF Wants, Filling
<1>7. CASE req[x].pc = "graduate"
  BY <1>1, <1>3, <1>7 DEF Wants
<1>8. CASE req[x].pc \notin {"flush account", "flush position", "commit", "graduate"}
  BY <1>1, <1>8 DEF Wants
<1> QED BY <1>4, <1>5, <1>6, <1>7, <1>8

(* A request that waits and is waited for is at the flush of its position, *)
(* with a changed realized P&L, or at its commit.                          *)
LEMMA Chained ==
  ASSUME Served, NEW x \in Requests, NEW y \in Requests, NEW z \in Requests,
         WaitsFor(x, y), WaitsFor(z, x)
  PROVE  /\ \/ req[x].pc = "flush position" /\ req[x].delta # 0
            \/ req[x].pc = "commit"
         /\ req[x].pc = "flush position" =>
              locks[req[x].row] = y /\ req[x].row \in RowIds
         /\ req[x].pc = "commit" =>
              locks[req[x].job.account] = y /\ req[x].job.account \in Accounts
<1>1. PICK l \in Lockable : locks[l] = x
  <2>1. \/ locks[req[z].job.account] = x /\ req[z].job.account \in Accounts
        \/ locks[req[z].row] = x /\ req[z].row \in RowIds
    BY Waiting
  <2> QED BY <2>1, NamesDiffer
<1>2. Locked(x)
  BY DEF Served
<1>3. \/ req[x].delta # 0 /\ req[x].pc \in PastAccount
      \/ req[x].pc \in PastPosition
  BY <1>1, <1>2 DEF Locked
<1> QED BY <1>3, Waiting DEF PastAccount, PastPosition

(* Of a cycle of waits some request reduces and some does not. If none     *)
(* reduced, each would be at its commit, waiting for an account's lock     *)
(* that nobody took. If all did, each would hold its account's lock        *)
(* already and wait for a position's, which nobody has reached.            *)
LEMMA CycleKinds ==
  ASSUME Served, NEW cycle \in SUBSET Requests, cycle # {},
         \A x \in cycle : /\ \E y \in cycle : WaitsFor(x, y)
                          /\ \E y \in cycle : WaitsFor(y, x)
  PROVE  /\ \E x \in cycle : req[x].delta = 0
         /\ \E x \in cycle : req[x].delta # 0
<1>1. ASSUME \A x \in cycle : req[x].delta = 0 PROVE FALSE
  <2>1. PICK x \in cycle, y \in cycle, z \in cycle :
          WaitsFor(x, y) /\ WaitsFor(z, x)
    OBVIOUS
  <2>2. req[x].pc = "commit" /\ locks[req[x].job.account] = y /\ req[x].job.account \in Accounts
    BY <1>1, <2>1, Chained
  <2>3. Locked(y) /\ req[y].delta = 0
    BY <1>1 DEF Served
  <2>4. req[x].job.account \in RowIds
    BY <2>2, <2>3, NamesDiffer DEF Locked
  <2> QED BY <2>2, <2>4, NamesDiffer
<1>2. ASSUME \A x \in cycle : req[x].delta # 0 PROVE FALSE
  <2>1. ASSUME NEW x \in cycle
        PROVE  req[x].pc = "flush position" /\ \E y \in cycle : locks[req[x].row] = y
    <3>1. PICK y \in cycle, z \in cycle : WaitsFor(x, y) /\ WaitsFor(z, x)
      OBVIOUS
    <3>2. CASE req[x].pc = "commit"
      <4>1. locks[req[x].job.account] = y /\ x # y
        BY <3>1, <3>2, Chained, Waiting
      <4>2. locks[req[x].job.account] = x
        BY <1>2, <3>2 DEF Served, Locked, PastAccount
      <4> QED BY <4>1, <4>2
    <3> QED BY <3>1, <3>2, Chained
  <2>2. PICK x \in cycle, y \in cycle : locks[req[x].row] = y
    BY <2>1
  <2>3. /\ req[x].pc = "flush position" /\ req[y].pc = "flush position"
        /\ Locked(y) /\ req[x].row \in RowIds
    BY <2>1, FillingTyped DEF Served, Filling
  <2>4. req[x].row = req[y].job.account
    BY <2>2, <2>3, NamesDiffer DEF Locked, PastPosition
  <2>5. req[y].job.account \in Accounts
    BY <2>3, FillingTyped DEF Filling
  <2> QED BY <2>3, <2>4, <2>5, NamesDiffer
<1> QED BY <1>1, <1>2

(* Requests that all reduce positions, or all increase them, never block   *)
(* each other for good, however many there are: the unit of work's order   *)
(* of flushes, the account before the position, is one order of locking    *)
(* for all that take both locks early.                                     *)
THEOREM CyclesMix == Spec => []DeadlockNeedsBoth
<1>1. Served => DeadlockNeedsBoth
  <2> SUFFICES ASSUME Served, NEW r \in Requests, InCycle(r)
               PROVE  /\ \E x \in Requests : InCycle(x) /\ req[x].delta = 0
                      /\ \E x \in Requests : InCycle(x) /\ req[x].delta # 0
    BY DEF DeadlockNeedsBoth
  <2>1. PICK cycle \in SUBSET Requests :
          /\ r \in cycle
          /\ \A x \in cycle : /\ \E y \in cycle : WaitsFor(x, y)
                              /\ \E y \in cycle : WaitsFor(y, x)
    BY DEF InCycle
  <2>2. \A x \in cycle : InCycle(x)
    BY <2>1 DEF InCycle
  <2>3. /\ \E x \in cycle : req[x].delta = 0
        /\ \E x \in cycle : req[x].delta # 0
    BY <2>1, CycleKinds
  <2> QED BY <2>2, <2>3
<1> QED BY <1>1, AlwaysServed, PTL

---------------------------------------------------------------------------
(* A request in flight is for an account that exists.                      *)
Present == \A r \in InFlight : accounts[req[r].job.account].status # "ABSENT"

(* The tables of an account agree: its realized P&L is its ledger's sum,   *)
(* up to one rounding per entry, and nothing if it does not exist; it has  *)
(* one row per contract, whose net is what its trades add up to; without a *)
(* row there are no trades.                                                *)
Agreed(a) ==
  /\ Magnitude(accounts[a].realized - ledger[a].sum) <= ledger[a].entries
  /\ accounts[a].status = "ABSENT" => accounts[a].realized = 0 /\ ledger[a].sum = 0
  /\ \A x \in RowIds, y \in RowIds :
       /\ rows[x] # NoRow /\ rows[y] # NoRow /\ rows[x].account = a /\ rows[y].account = a
       /\ rows[x].instrument = rows[y].instrument
       => x = y
  /\ \A x \in RowIds :
       rows[x] # NoRow /\ rows[x].account = a =>
         rows[x].at.net = trades[<<a, rows[x].instrument>>]
  /\ \A i \in Instruments : RowsFor(rows, a, i) = {} => trades[<<a, i>>] = 0

(* What a request remembers is what the table still has: the account's row *)
(* up to its commit, then the realized P&L the fill makes of it, in a      *)
(* column it writes exactly when the fill realized something; and the      *)
(* position's new net is that of the committed trades and of its own.      *)
Fresh(r) ==
  /\ req[r].pc \in Ordering \ {"commit"} => req[r].account = accounts[req[r].job.account]
  /\ req[r].pc = "commit" =>
       /\ req[r].account.realized =
            RoundDiv(accounts[req[r].job.account].realized * req[r].fill.qty + req[r].delta,
                     req[r].fill.qty)
       /\ "realized" \in req[r].columns <=> req[r].delta # 0
  /\ req[r].pc \in Filling =>
       /\ req[r].new.net = trades[<<req[r].job.account, req[r].job.instrument>>]
                             + SignedQuantity(req[r].job.side, req[r].fill.qty)
       /\ req[r].row = r =>
            RowsFor(rows, req[r].job.account, req[r].job.instrument) = {}

(* The inductive invariant, account by account.                            *)
Uncrossed(r) == req[r].job.account \notin crossed

InStep ==
  /\ Served /\ Present
  /\ \A a \in Accounts \ crossed : Agreed(a)
  /\ \A r \in Requests : Uncrossed(r) => Fresh(r)

(* A request in flight is at a place of place_order or of                  *)
(* graduate_account.                                                       *)
LEMMA Flying ==
  ASSUME Served, NEW r \in Requests
  PROVE  /\ r \in InFlight <=> req[r].pc \in Ordering \union {"graduate"}
         /\ r \in InFlight => req[r].job.account \in Accounts
<1>1. req[r].pc \in Outcomes /\ Working(r)
  BY FieldsTyped DEF Served
<1>2. r \in InFlight <=> req[r].pc \in Ordering \union {"graduate"}
  BY <1>1 DEF InFlight, Outcomes, Ended, Ordering, Filling
<1> QED BY <1>1, <1>2, JobsTyped DEF Working

(* The accounts of requests stay present in a step that begins no request  *)
(* and removes no account.                                                 *)
LEMMA PresentStep ==
  ASSUME Present, NEW r \in Requests, \A s \in Requests \ {r} : req'[s] = req[s],
         r \in InFlight' => r \in InFlight /\ req'[r].job = req[r].job,
         \A s \in InFlight : accounts[req[s].job.account].status # "ABSENT" =>
                              accounts'[req[s].job.account].status # "ABSENT"
  PROVE  Present'
<1>1. \A s \in InFlight' : s \in InFlight /\ req'[s].job = req[s].job
  BY DEF InFlight
<1> QED BY <1>1 DEF Present

(* A step of one request that commits nothing the invariant is about keeps *)
(* it, if what that request remembers is still true.                       *)
LEMMA Quiet ==
  ASSUME InStep, NEW r \in Requests, Served', UNCHANGED <<accounts, rows, trades, ledger, crossed>>,
         \A s \in Requests \ {r} : req'[s] = req[s],
         r \in InFlight' => r \in InFlight /\ req'[r].job = req[r].job,
         r \in InFlight' /\ Uncrossed(r) => Fresh(r)'
  PROVE  InStep'
<1>1. /\ accounts' = accounts /\ rows' = rows /\ trades' = trades /\ ledger' = ledger
      /\ crossed' = crossed /\ Present
  BY DEF InStep
<1>2. Present'
  BY <1>1, PresentStep
<1>3. ASSUME NEW a \in Accounts \ crossed' PROVE Agreed(a)'
  <2>1. Agreed(a)
    BY <1>1 DEF InStep
  <2> QED BY <1>1, <2>1 DEF Agreed, RowsFor, RowsOf
<1>4. ASSUME NEW s \in Requests, Uncrossed(s)' PROVE Fresh(s)'
  <2>1. CASE s # r
    <3>1. req'[s] = req[s] /\ Fresh(s)
      BY <1>1, <1>4, <2>1 DEF InStep, Uncrossed
    <3> QED BY <1>1, <3>1 DEF Fresh, RowsFor, RowsOf
  <2>2. CASE s = r /\ r \notin InFlight'
    <3>1. req'[r].pc \notin Ordering
      BY <2>2 DEF InFlight, Ended, Ordering, Filling
    <3> QED BY <2>2, <3>1 DEF Fresh, Ordering, Filling
  <2>3. CASE s = r /\ r \in InFlight'
    BY <1>1, <1>4, <2>3 DEF Uncrossed
  <2> QED BY <2>1, <2>2, <2>3
<1> QED BY <1>2, <1>3, <1>4 DEF InStep

(* A request that ends is not in flight.                                   *)
LEMMA Landed ==
  ASSUME Served, NEW r \in Requests, NEW outcome \in Ended, EndWith(r, outcome)
  PROVE  /\ \A s \in Requests \ {r} : req'[s] = req[s]
         /\ r \notin InFlight'
<1>1. req'[r] = Blank(outcome) /\ \A s \in Requests \ {r} : req'[s] = req[s]
  BY EndEffect DEF Served
<1>2. req'[r].pc = outcome
  BY <1>1, BlankTyped DEF Outcomes
<1> QED BY <1>1, <1>2 DEF InFlight

(* An order that is not filled, and a request that raises, commit nothing  *)
(* the invariant is about.                                                 *)
LEMMA EndsQuietly ==
  ASSUME InStep, Served', UNCHANGED crossed, NEW r \in Requests,
         GiveUp(r) \/ \E status \in {"OPEN", "REJECTED"} : CommitUnfilled(r, status)
  PROVE  InStep'
<1>1. PICK outcome \in {"rolled back", "dropped", "open", "rejected"} : EndWith(r, outcome)
  BY DEF GiveUp, CommitUnfilled
<1>2. outcome \in Ended
  BY DEF Ended
<1>3. UNCHANGED <<accounts, rows, trades, ledger>>
  BY DEF GiveUp, CommitUnfilled, db
<1>4. (\A s \in Requests \ {r} : req'[s] = req[s]) /\ r \notin InFlight'
  BY <1>1, <1>2, Landed DEF InStep
<1> QED BY <1>3, <1>4, Quiet

(* The row a call reads when it arrives is the one the table has.          *)
LEMMA BeginsAgree ==
  ASSUME InStep, Served', NEW r \in Requests, Begin(r)
  PROVE  InStep'
<1>1. /\ Typed /\ Served /\ Present /\ r \notin InFlight /\ Served'
      /\ UNCHANGED <<accounts, rows, trades, ledger>> /\ crossed' = crossed
  BY DEF InStep, Served, Begin, BeginOrder, BeginGraduation, Arrive, InFlight, db
<1>2. PICK job \in Jobs :
        /\ Arrive(r, job)
        /\ \/ \E pc \in {"select held", "graduate"} :
                req' = [req EXCEPT ![r] = [Blank(pc) EXCEPT
                                             !.job = job, !.account = accounts[job.account]]]
           \/ req' = [req EXCEPT ![r] = Blank("refused")]
  BY JobsTyped DEF Begin, BeginOrder, BeginGraduation
<1>3. CASE req' = [req EXCEPT ![r] = Blank("refused")]
  <2>1. req'[r].pc = "refused" /\ \A s \in Requests \ {r} : req'[s] = req[s]
    BY <1>1, <1>3, BlankTyped DEF Typed, Outcomes, Ended
  <2>2. r \notin InFlight'
    BY <2>1 DEF InFlight, Ended
  <2> QED BY <1>1, <2>1, <2>2, Quiet
<1>4. ASSUME NEW pc \in {"select held", "graduate"},
             req' = [req EXCEPT ![r] = [Blank(pc) EXCEPT
                                          !.job = job, !.account = accounts[job.account]]]
      PROVE  InStep'
  <2>1. PICK m : m = [Blank(pc) EXCEPT !.job = job, !.account = accounts[job.account]]
    OBVIOUS
  <2>2. m.pc = pc /\ m.job = job /\ m.account = accounts[job.account]
    BY <2>1 DEF Blank
  <2>3. req'[r] = m /\ \A s \in Requests \ {r} : req'[s] = req[s]
    BY <1>1, <1>4, <2>1 DEF Typed
  <2>4. accounts[job.account].status # "ABSENT"
    BY <1>2 DEF Arrive
  <2>5. Present'
    <3>1. \A s \in InFlight' : s # r => s \in InFlight /\ req'[s] = req[s]
      BY <2>3 DEF InFlight
    <3> QED BY <1>1, <2>2, <2>3, <2>4, <3>1 DEF Present
  <2>6. ASSUME NEW a \in Accounts \ crossed' PROVE Agreed(a)'
    <3>1. Agreed(a)
      BY <1>1 DEF InStep
    <3> QED BY <1>1, <3>1 DEF Agreed, RowsFor, RowsOf
  <2>7. ASSUME NEW s \in Requests, Uncrossed(s)' PROVE Fresh(s)'
    <3>1. CASE s # r
      <4>1. req'[s] = req[s] /\ Fresh(s)
        BY <1>1, <2>3, <2>7, <3>1 DEF InStep, Uncrossed
      <4> QED BY <1>1, <4>1 DEF Fresh, RowsFor, RowsOf
    <3>2. CASE s = r
      BY <1>1, <2>2, <2>3, <3>2 DEF Fresh, Ordering, Filling
    <3> QED BY <3>1, <3>2
  <2> QED BY <1>1, <2>5, <2>6, <2>7 DEF InStep
<1> QED BY <1>2, <1>3, <1>4

(* check_pre_trade and the match leave the copy of the account as it is.   *)
LEMMA SelectsAgree ==
  ASSUME InStep, Served', UNCHANGED crossed, NEW r \in Requests,
         SelectHeld(r) \/ SelectExposure(r) \/ SubmitOrder(r)
  PROVE  InStep'
<1>1. /\ Served /\ Typed /\ r \in Requests /\ req[r] \in Memory /\ (Uncrossed(r) => Fresh(r))
      /\ req[r].pc \in {"select held", "select exposure", "submit"}
  BY FieldsTyped DEF InStep, Served, SelectHeld, SelectExposure, SubmitOrder
<1>2. r \in InFlight /\ (Uncrossed(r) => req[r].account = accounts[req[r].job.account])
  BY <1>1 DEF InFlight, Ended, Fresh, Ordering, Filling
<1>3. CASE GiveUp(r) \/ \E status \in {"OPEN", "REJECTED"} : CommitUnfilled(r, status)
  BY <1>3, EndsQuietly
<1>4. ASSUME NEW m, req' = [req EXCEPT ![r] = m], UNCHANGED db,
             m.pc \in {"select exposure", "submit", "update position"},
             m.job = req[r].job, m.account = req[r].account
      PROVE  InStep'
  <2>1. req'[r] = m /\ \A s \in Requests \ {r} : req'[s] = req[s]
    BY <1>1, <1>4 DEF Typed
  <2>2. UNCHANGED <<accounts, rows, trades, ledger>>
    BY <1>4 DEF db
  <2>3. Uncrossed(r) => Fresh(r)'
    BY <1>2, <1>4, <2>1, <2>2 DEF Fresh, Filling
  <2> QED BY <1>2, <1>4, <2>1, <2>2, <2>3, Quiet
<1>5. CASE /\ SelectHeld(r) /\ ~GiveUp(r)
           /\ ~\E status \in {"OPEN", "REJECTED"} : CommitUnfilled(r, status)
  <2>1. PICK ltp, held :
          /\ req' = [req EXCEPT ![r].pc = "select exposure", ![r].ltp = ltp, ![r].held = held]
          /\ UNCHANGED db
    BY <1>5 DEF SelectHeld
  <2>2. PICK m : m = [req[r] EXCEPT !.pc = "select exposure", !.ltp = ltp, !.held = held]
    OBVIOUS
  <2>3. req' = [req EXCEPT ![r] = m]
    BY <1>1, <2>1, <2>2 DEF Typed
  <2>4. m.pc = "select exposure" /\ m.job = req[r].job /\ m.account = req[r].account
    BY <1>1, <2>2 DEF Memory
  <2> QED BY <1>4, <2>1, <2>3, <2>4
<1>6. CASE SelectExposure(r) /\ ~\E status \in {"OPEN", "REJECTED"} : CommitUnfilled(r, status)
  <2>1. req' = [req EXCEPT ![r].pc = "submit"] /\ UNCHANGED db
    BY <1>6 DEF SelectExposure
  <2>2. PICK m : m = [req[r] EXCEPT !.pc = "submit"]
    OBVIOUS
  <2>3. req' = [req EXCEPT ![r] = m]
    BY <1>1, <2>1, <2>2 DEF Typed
  <2>4. m.pc = "submit" /\ m.job = req[r].job /\ m.account = req[r].account
    BY <1>1, <2>2 DEF Memory
  <2> QED BY <1>4, <2>1, <2>3, <2>4
<1>7. CASE SubmitOrder(r) /\ ~\E status \in {"OPEN", "REJECTED"} : CommitUnfilled(r, status)
  <2>1. PICK fill :
          req' = [req EXCEPT ![r].pc = "update position", ![r].fill = fill] /\ UNCHANGED db
    BY <1>7 DEF SubmitOrder
  <2>2. PICK m : m = [req[r] EXCEPT !.pc = "update position", !.fill = fill]
    OBVIOUS
  <2>3. req' = [req EXCEPT ![r] = m]
    BY <1>1, <2>1, <2>2 DEF Typed
  <2>4. m.pc = "update position" /\ m.job = req[r].job /\ m.account = req[r].account
    BY <1>1, <2>2 DEF Memory
  <2> QED BY <1>4, <2>1, <2>3, <2>4
<1> QED BY <1>3, <1>5, <1>6, <1>7

(* _update_position: the net it reads is the sum of the trades, and what   *)
(* it adds is its own; it inserts a row only when the contract has none.   *)
LEMMA UpdateAgree ==
  ASSUME InStep, Served', UNCHANGED crossed, NEW r \in Requests, UpdatePosition(r)
  PROVE  InStep'
<1> DEFINE a     == req[r].job.account
           i     == req[r].job.instrument
           found == RowsFor(rows, a, i)
           old   == PositionIn(rows, found)
           row   == IF found = {} THEN r ELSE CHOOSE x \in found : TRUE
           new   == PositionAfter(old, req[r].job.side, req[r].fill)
           delta == RealizedNumerator(old, req[r].job.side, req[r].fill)
<1>1. /\ Served /\ Typed /\ req[r] \in Memory
      /\ req[r].pc = "update position" /\ a \in Accounts /\ i \in Instruments
      /\ req[r].fill \in Fill
  BY FillingTyped DEF InStep, UpdatePosition
<1>2. CASE GiveUp(r)
  BY <1>2, EndsQuietly
<1>3. CASE ~GiveUp(r)
  <2>1. /\ req' = [req EXCEPT ![r].pc = "flush account", ![r].row = row, ![r].old = old,
                              ![r].new = new, ![r].delta = delta]
        /\ UNCHANGED db
    BY <1>3 DEF UpdatePosition
  <2>13. Uncrossed(r) => Fresh(r) /\ Agreed(a)
    BY <1>1 DEF InStep, Uncrossed
  <2>2. old \in PositionRecord /\ (Uncrossed(r) => old.net = trades[<<a, i>>])
    <3>1. CASE found = {}
      <4>1. Uncrossed(r) => trades[<<a, i>>] = 0
        BY <1>1, <2>13, <3>1 DEF Agreed
      <4> QED BY <3>1, <4>1 DEF PositionIn, FlatPosition, PositionRecord
    <3>2. CASE found # {}
      <4>1. PICK x \in found : old = rows[x].at
        BY <3>2 DEF PositionIn
      <4>2. /\ x \in RowIds /\ rows[x] # NoRow /\ rows[x].account = a
            /\ rows[x].instrument = i
        BY <4>1 DEF RowsFor, RowsOf
      <4>3. Uncrossed(r) => rows[x].at.net = trades[<<a, i>>]
        BY <2>13, <4>2 DEF Agreed
      <4>4. rows[x].at \in PositionRecord
        BY <1>1, <4>2 DEF Typed, PositionRow
      <4> QED BY <4>1, <4>3, <4>4
    <3> QED BY <3>1, <3>2
  <2>3. new.net = old.net + SignedQuantity(req[r].job.side, req[r].fill.qty)
    <3>1. old \in PositionFigures /\ req[r].fill \in FillFigures
      BY <1>1, <2>2 DEF PositionRecord, PositionFigures, Fill, FillFigures
    <3> QED BY <3>1, PositionFigured
  <2>4. PICK m : m = [req[r] EXCEPT !.pc = "flush account", !.row = row, !.old = old,
                                    !.new = new, !.delta = delta]
    OBVIOUS
  <2>5. req' = [req EXCEPT ![r] = m]
    BY <1>1, <2>1, <2>4 DEF Typed
  <2>6. /\ m.pc = "flush account" /\ m.job = req[r].job /\ m.account = req[r].account
        /\ m.fill = req[r].fill /\ m.row = row /\ m.new = new
    BY <1>1, <2>4 DEF Memory
  <2>7. row = r => found = {}
    <3>1. row # r \/ found = {} \/ r \in found
      OBVIOUS
    <3>2. rows[r] = NoRow
      BY <1>1 DEF Served, Working
    <3> QED BY <3>1, <3>2 DEF RowsFor, RowsOf
  <2>8. Uncrossed(r) => req[r].account = accounts[a]
    BY <1>1, <2>13 DEF Fresh, Ordering, Filling
  <2> HIDE DEF old, new, row
  <2>9. req'[r] = m /\ \A s \in Requests \ {r} : req'[s] = req[s]
    BY <1>1, <2>5 DEF Typed
  <2>10. UNCHANGED <<accounts, rows, trades, ledger>>
    BY <2>1 DEF db
  <2>11. ASSUME Uncrossed(r) PROVE Fresh(r)'
    <3>1. /\ req'[r].account = accounts'[req'[r].job.account] /\ req'[r].pc # "commit"
          /\ req'[r].new.net = trades'[<<req'[r].job.account, req'[r].job.instrument>>]
                                 + SignedQuantity(req'[r].job.side, req'[r].fill.qty)
      BY <2>2, <2>3, <2>6, <2>8, <2>9, <2>10, <2>11
    <3>2. req'[r].row = r =>
            RowsFor(rows', req'[r].job.account, req'[r].job.instrument) = {}
      BY <2>6, <2>7, <2>9, <2>10 DEF RowsFor, RowsOf
    <3> QED BY <3>1, <3>2 DEF Fresh
  <2>12. r \in InFlight
    BY <1>1 DEF InFlight, Ended
  <2> QED BY <2>6, <2>9, <2>10, <2>11, <2>12, Quiet
<1> QED BY <1>2, <1>3

(* The flushes, the select and the marks leave the figures as they are.    *)
LEMMA FlushesAgree ==
  ASSUME InStep, Served', UNCHANGED crossed, NEW r \in Requests,
         FlushAccount(r) \/ FlushPosition(r) \/ SelectOpen(r) \/ MarkPosition(r)
  PROVE  InStep'
<1>1. /\ Served /\ Typed /\ req[r] \in Memory /\ (Uncrossed(r) => Fresh(r))
      /\ req[r].pc \in Filling /\ req[r].pc # "commit"
  BY FieldsTyped DEF InStep, Served, Filling, FlushAccount, FlushPosition, SelectOpen,
     MarkPosition
<1>2. r \in InFlight /\ req[r].pc \in Ordering \ {"commit"}
  BY <1>1 DEF InFlight, Ended, Ordering, Filling
<1>3. ASSUME NEW m, req' = [req EXCEPT ![r] = m], UNCHANGED db,
             m.pc \in {"flush position", "select open", "mark"},
             m.job = req[r].job, m.account = req[r].account, m.row = req[r].row,
             m.fill = req[r].fill, m.new = req[r].new
      PROVE  InStep'
  <2>1. req'[r] = m /\ \A s \in Requests \ {r} : req'[s] = req[s]
    BY <1>1, <1>3 DEF Typed
  <2>2. UNCHANGED <<accounts, rows, trades, ledger>>
    BY <1>3 DEF db
  <2>3. ASSUME Uncrossed(r) PROVE Fresh(r)'
    <3>1. /\ req[r].account = accounts[req[r].job.account]
          /\ req[r].new.net = trades[<<req[r].job.account, req[r].job.instrument>>]
                                + SignedQuantity(req[r].job.side, req[r].fill.qty)
          /\ req[r].row = r =>
               RowsFor(rows, req[r].job.account, req[r].job.instrument) = {}
      BY <1>1, <1>2, <2>3 DEF Fresh
    <3>2. /\ req'[r].account = accounts'[req'[r].job.account] /\ req'[r].pc # "commit"
          /\ req'[r].new.net = trades'[<<req'[r].job.account, req'[r].job.instrument>>]
                                 + SignedQuantity(req'[r].job.side, req'[r].fill.qty)
      BY <1>3, <2>1, <2>2, <3>1
    <3>3. req'[r].row = r =>
            RowsFor(rows', req'[r].job.account, req'[r].job.instrument) = {}
      <4>1. req'[r].row = req[r].row /\ req'[r].job = req[r].job /\ rows' = rows
        BY <1>3, <2>1, <2>2
      <4> QED BY <3>1, <4>1
    <3> QED BY <3>2, <3>3 DEF Fresh
  <2> QED BY <1>2, <1>3, <2>1, <2>2, <2>3, Quiet
<1>4. CASE FlushAccount(r)
  <2>1. req' = [req EXCEPT ![r].pc = "flush position"] /\ UNCHANGED db
    BY <1>4 DEF FlushAccount
  <2>2. PICK m : m = [req[r] EXCEPT !.pc = "flush position"]
    OBVIOUS
  <2>3. req' = [req EXCEPT ![r] = m]
    BY <1>1, <2>1, <2>2 DEF Typed
  <2>4. /\ m.pc = "flush position" /\ m.job = req[r].job /\ m.account = req[r].account
        /\ m.row = req[r].row /\ m.fill = req[r].fill /\ m.new = req[r].new
    BY <1>1, <1>4, <2>2 DEF Memory, FlushAccount
  <2> QED BY <1>3, <2>1, <2>3, <2>4
<1>5. CASE FlushPosition(r)
  <2>1. req' = [req EXCEPT ![r].pc = "select open"] /\ UNCHANGED db
    BY <1>5 DEF FlushPosition
  <2>2. PICK m : m = [req[r] EXCEPT !.pc = "select open"]
    OBVIOUS
  <2>3. req' = [req EXCEPT ![r] = m]
    BY <1>1, <2>1, <2>2 DEF Typed
  <2>4. /\ m.pc = "select open" /\ m.job = req[r].job /\ m.account = req[r].account
        /\ m.row = req[r].row /\ m.fill = req[r].fill /\ m.new = req[r].new
    BY <1>1, <1>5, <2>2 DEF Memory, FlushPosition
  <2> QED BY <1>3, <2>1, <2>3, <2>4
<1>6. CASE SelectOpen(r)
  <2>1. PICK toMark :
          req' = [req EXCEPT ![r].pc = "mark", ![r].toMark = toMark] /\ UNCHANGED db
    BY <1>6 DEF SelectOpen
  <2>2. PICK m : m = [req[r] EXCEPT !.pc = "mark", !.toMark = toMark]
    OBVIOUS
  <2>3. req' = [req EXCEPT ![r] = m]
    BY <1>1, <2>1, <2>2 DEF Typed
  <2>4. /\ m.pc = "mark" /\ m.job = req[r].job /\ m.account = req[r].account
        /\ m.row = req[r].row /\ m.fill = req[r].fill /\ m.new = req[r].new
    BY <1>1, <1>6, <2>2 DEF Memory, SelectOpen
  <2> QED BY <1>3, <2>1, <2>3, <2>4
<1>7. CASE MarkPosition(r)
  <2>1. PICK toMark, floating :
          /\ req' = [req EXCEPT ![r].toMark = toMark, ![r].floating = floating]
          /\ UNCHANGED db
    <3>1. PICK p \in req[r].toMark, quote \in Quotes \union {NoQuote} :
            LET pnl == IF quote = NoQuote THEN 0 ELSE PositionPnl(p.at, quote.ltp)
            IN  req' = [req EXCEPT ![r].toMark = @ \ {p}, ![r].floating = @ + pnl]
      BY <1>7 DEF MarkPosition
    <3>2. PICK toMark : toMark = req[r].toMark \ {p}
      OBVIOUS
    <3>3. PICK floating :
            floating = req[r].floating
                         + (IF quote = NoQuote THEN 0 ELSE PositionPnl(p.at, quote.ltp))
      OBVIOUS
    <3> QED BY <1>1, <1>7, <3>1, <3>2, <3>3 DEF MarkPosition, Typed
  <2>2. PICK m : m = [req[r] EXCEPT !.toMark = toMark, !.floating = floating]
    OBVIOUS
  <2>3. req' = [req EXCEPT ![r] = m]
    BY <1>1, <2>1, <2>2 DEF Typed
  <2>4. /\ m.pc = "mark" /\ m.job = req[r].job /\ m.account = req[r].account
        /\ m.row = req[r].row /\ m.fill = req[r].fill /\ m.new = req[r].new
    BY <1>1, <1>7, <2>2 DEF Memory, MarkPosition
  <2> QED BY <1>3, <2>1, <2>3, <2>4
<1> QED BY <1>4, <1>5, <1>6, <1>7

(* The rules leave the fill's realized P&L on the copy, in a column that   *)
(* is written exactly when the fill realized something.                    *)
LEMMA RulesAgree ==
  ASSUME InStep, Served', UNCHANGED crossed, NEW r \in Requests, ApplyRules(r)
  PROVE  InStep'
<1>1. /\ Served /\ Typed /\ req[r] \in Memory /\ (Uncrossed(r) => Fresh(r)) /\ req[r].pc = "mark"
      /\ UNCHANGED <<accounts, rows, trades, ledger>>
  BY FieldsTyped DEF InStep, Served, ApplyRules, db
<1>2. r \in InFlight /\ req[r].pc \in Ordering \ {"commit"} /\ req[r].pc \in Filling
  BY <1>1 DEF InFlight, Ended, Ordering, Filling
<1>3. PICK marked : marked = AccountAfter(req[r].account, req[r].delta, req[r].fill.qty,
                                          req[r].floating, Rules, TradingDays)
  OBVIOUS
<1>4. PICK columns : columns = AccountColumns(req[r], marked)
  OBVIOUS
<1>5. /\ marked.realized = RoundDiv(req[r].account.realized * req[r].fill.qty + req[r].delta,
                                    req[r].fill.qty)
      /\ "realized" \in columns <=> req[r].delta # 0
  BY <1>1, <1>2, <1>3, <1>4, RulesJudge
<1>6. req' = [req EXCEPT ![r].pc = "commit", ![r].account = marked, ![r].columns = columns]
  BY <1>3, <1>4 DEF ApplyRules
<1>7. PICK m : m = [req[r] EXCEPT !.pc = "commit", !.account = marked, !.columns = columns]
  OBVIOUS
<1>8. /\ m.pc = "commit" /\ m.job = req[r].job /\ m.row = req[r].row /\ m.new = req[r].new
      /\ m.delta = req[r].delta /\ m.account = marked /\ m.fill = req[r].fill
      /\ m.columns = columns
  BY <1>1, <1>7 DEF Memory
<1>9. req'[r] = m /\ \A s \in Requests \ {r} : req'[s] = req[s]
  BY <1>1, <1>6, <1>7 DEF Typed
<1>10. ASSUME Uncrossed(r) PROVE Fresh(r)'
  BY <1>1, <1>2, <1>5, <1>8, <1>9, <1>10 DEF Fresh, RowsFor, RowsOf
<1> QED BY <1>1, <1>2, <1>8, <1>9, <1>10, Quiet

(* The commit of a fill.  If the account is not crossed then, no other     *)
(* request is for it: what requests remember of other accounts stays true. *)
(* The account's new realized P&L differs from the old and the ledger's    *)
(* part by one rounding; the row written is the contract's only one, and   *)
(* its net the sum of the trades.                                          *)
LEMMA CommitsAgree ==
  ASSUME InStep, Served', NEW r \in Requests, CommitFill(r),
         crossed' = crossed \union Crossing(r)
  PROVE  InStep'
<1> DEFINE Row(x) == rows[x] # NoRow
<1>1. PICK a : a = req[r].job.account
  OBVIOUS
<1>2. PICK i : i = req[r].job.instrument
  OBVIOUS
<1>3. PICK row : row = req[r].row
  OBVIOUS
<1>4. PICK change : change = SignedQuantity(req[r].job.side, req[r].fill.qty)
  OBVIOUS
<1>5. /\ Served /\ Typed /\ Present /\ Working(r)
      /\ req[r].pc = "commit" /\ req[r].pc \in Filling /\ r \in InFlight
  BY DEF InStep, Served, CommitFill, Filling, InFlight, Ended
<1>6. /\ a \in Accounts /\ i \in Instruments /\ <<a, i>> \in Keys /\ row \in RowIds
      /\ EndWith(r, "filled")
      /\ \A b \in Accounts \ {a} : accounts'[b] = accounts[b] /\ ledger'[b] = ledger[b]
      /\ accounts'[a].status = IF "status" \in req[r].columns THEN req[r].account.status
                               ELSE accounts[a].status
      /\ accounts'[a].realized = IF "realized" \in req[r].columns THEN req[r].account.realized
                                 ELSE accounts[a].realized
      /\ rows'[row] = PositionWritten(r)
      /\ \A x \in RowIds \ {row} : rows'[x] = rows[x]
      /\ trades'[<<a, i>>] = trades[<<a, i>>] + change
      /\ \A l \in Keys \ {<<a, i>>} : trades'[l] = trades[l]
      /\ req[r].delta = 0 => ledger'[a] = ledger[a]
      /\ req[r].delta # 0 =>
           /\ ledger'[a].sum = ledger[a].sum + RoundDiv(req[r].delta, req[r].fill.qty)
           /\ ledger'[a].entries = ledger[a].entries + 1
  BY <1>1, <1>2, <1>3, <1>4, CommitWrites, FillingTyped DEF InStep
<1>7. /\ PositionWritten(r) # NoRow /\ PositionWritten(r).account = a
      /\ PositionWritten(r).instrument = i /\ PositionWritten(r).at.net = req[r].new.net
  BY <1>1, <1>2, <1>5, WrittenTyped, NamesDiffer
<1>8. row # r => Row(row) /\ rows[row].account = a /\ rows[row].instrument = i
  BY <1>1, <1>2, <1>3, <1>5 DEF Working
<1>9. rows[r] = NoRow
  BY <1>5 DEF Working
<1>10. rows'[row] # NoRow /\ rows'[row].account = a /\ rows'[row].instrument = i
  BY <1>6, <1>7
<1>11. accounts[a].status # "ABSENT" /\ accounts'[a].status # "ABSENT"
  <2>1. accounts[a].status # "ABSENT"
    BY <1>1, <1>5 DEF Present
  <2>2. "status" \in req[r].columns => req[r].account.status # "ABSENT"
    BY <1>5 DEF Working
  <2> QED BY <1>6, <2>1, <2>2
<1>12. (\A s \in Requests \ {r} : req'[s] = req[s]) /\ r \notin InFlight'
  BY <1>5, <1>6, Landed DEF Ended
<1>13. \A s \in InFlight : req[s].job.account \in Accounts
  BY <1>5, Flying DEF InFlight
<1>14. Present'
  BY <1>1, <1>5, <1>6, <1>11, <1>12, <1>13, PresentStep
<1>15. ASSUME a \notin crossed' PROVE Agreed(a)'
  <2>1. Fresh(r) /\ Agreed(a)
    BY <1>1, <1>6, <1>15 DEF InStep, Uncrossed
  <2>2. /\ req[r].new.net = trades[<<a, i>>] + change
        /\ row = r => RowsFor(rows, a, i) = {}
    BY <1>1, <1>2, <1>3, <1>4, <1>5, <2>1 DEF Fresh
  <2>3. rows'[row].at.net = trades'[<<a, i>>]
    BY <1>6, <1>7, <2>2
(* Only the row written is of the contract; every other is as it was.      *)
  <2>4. ASSUME NEW x \in RowIds, x # row, Row(x)
        PROVE  rows[x].account # a \/ rows[x].instrument # i
    <3>1. CASE row = r
      BY <2>2, <2>4, <3>1 DEF RowsFor, RowsOf
    <3>2. CASE row # r
      BY <1>6, <1>8, <2>1, <2>4, <3>2 DEF Agreed
    <3> QED BY <3>1, <3>2
  <2>5. Magnitude(accounts'[a].realized - ledger'[a].sum) <= ledger'[a].entries
    <3>1. /\ accounts[a].realized \in Int /\ ledger[a].sum \in Int /\ ledger[a].entries \in Nat
          /\ req[r].delta \in Int /\ req[r].fill.qty \in Nat \ {0}
      <4>1. accounts[a] \in Account /\ ledger[a] \in [sum : Int, entries : Nat]
        BY <1>5, <1>6 DEF Typed
      <4>2. req[r].delta \in Int /\ req[r].fill.qty \in Nat \ {0}
        BY <1>5, FillingTyped, FieldsTyped
      <4> QED BY <4>1, <4>2 DEF Account, AccountFigures
    <3>2. Magnitude(accounts[a].realized - ledger[a].sum) <= ledger[a].entries
      BY <2>1 DEF Agreed
    <3>3. CASE req[r].delta = 0
      <4>1. accounts'[a].realized = accounts[a].realized
        BY <1>5, <1>6, <2>1, <3>3 DEF Fresh
      <4> QED BY <1>6, <3>2, <3>3, <4>1
    <3>4. CASE req[r].delta # 0
      <4>1. PICK now : now = RoundDiv(accounts[a].realized * req[r].fill.qty + req[r].delta,
                                      req[r].fill.qty)
        OBVIOUS
      <4>2. PICK part : part = RoundDiv(req[r].delta, req[r].fill.qty)
        OBVIOUS
      <4>3. accounts'[a].realized = now
        BY <1>1, <1>5, <1>6, <2>1, <3>4, <4>1 DEF Fresh
      <4>4. -1 <= now - accounts[a].realized - part /\ now - accounts[a].realized - part <= 1
        BY <3>1, <4>1, <4>2, RoundSum
      <4>5. part \in Int /\ now \in Int
        <5>1. accounts[a].realized * req[r].fill.qty + req[r].delta \in Int
          BY <3>1
        <5> QED BY <3>1, <4>1, <4>2, <5>1, RoundNear
      <4>6. Magnitude(now - (ledger[a].sum + part)) <= ledger[a].entries + 1
        BY <3>1, <3>2, <4>4, <4>5 DEF Magnitude
      <4> QED BY <1>6, <3>4, <4>2, <4>3, <4>6
    <3> QED BY <3>3, <3>4
  <2>6. ASSUME NEW x \in RowIds, NEW y \in RowIds, rows'[x] # NoRow, rows'[y] # NoRow,
               rows'[x].account = a, rows'[y].account = a,
               rows'[x].instrument = rows'[y].instrument
        PROVE  x = y
    <3>1. CASE x = row
      BY <1>6, <1>10, <2>4, <2>6, <3>1
    <3>2. CASE y = row
      BY <1>6, <1>10, <2>4, <2>6, <3>2
    <3>3. CASE x # row /\ y # row
      BY <1>6, <2>1, <2>6, <3>3 DEF Agreed
    <3> QED BY <3>1, <3>2, <3>3
  <2>7. ASSUME NEW x \in RowIds, rows'[x] # NoRow, rows'[x].account = a
        PROVE  rows'[x].at.net = trades'[<<a, rows'[x].instrument>>]
    <3>1. CASE x = row
      BY <1>10, <2>3, <3>1
    <3>2. CASE x # row
      <4>1. rows'[x] = rows[x] /\ rows[x] \in PositionRow
        BY <1>5, <1>6, <2>7, <3>2 DEF Typed
      <4>2. <<a, rows[x].instrument>> \in Keys /\ <<a, rows[x].instrument>> # <<a, i>>
        BY <1>6, <2>4, <2>7, <3>2, <4>1 DEF Keys, PositionRow
      <4>3. rows[x].at.net = trades[<<a, rows[x].instrument>>]
        BY <2>1, <2>7, <4>1 DEF Agreed
      <4> QED BY <1>6, <4>1, <4>2, <4>3
    <3> QED BY <3>1, <3>2
  <2>8. ASSUME NEW j \in Instruments, RowsFor(rows', a, j) = {}
        PROVE  trades'[<<a, j>>] = 0
    <3>1. \A x \in RowIds : rows'[x] = NoRow \/ rows'[x].account # a \/ rows'[x].instrument # j
      BY <2>8 DEF RowsFor, RowsOf
    <3>2. j # i
      BY <1>6, <1>10, <3>1
    <3>3. \A x \in RowIds : rows[x] = NoRow \/ rows[x].account # a \/ rows[x].instrument # j
      BY <1>6, <1>8, <1>9, <3>1, <3>2
    <3>4. RowsFor(rows, a, j) = {}
      BY <3>3 DEF RowsFor, RowsOf
    <3>5. trades[<<a, j>>] = 0 /\ <<a, j>> \in Keys /\ <<a, j>> # <<a, i>>
      BY <1>6, <2>1, <3>2, <3>4 DEF Agreed, Keys
    <3> QED BY <1>6, <3>5
  <2> QED BY <1>11, <2>5, <2>6, <2>7, <2>8 DEF Agreed
(* Another account's rows, trades and ledger are untouched.                *)
<1>16. ASSUME NEW b \in Accounts \ {a}
       PROVE  /\ accounts'[b] = accounts[b] /\ ledger'[b] = ledger[b]
              /\ \A j \in Instruments : /\ trades'[<<b, j>>] = trades[<<b, j>>]
                                       /\ RowsFor(rows', b, j) = RowsFor(rows, b, j)
              /\ \A x \in RowIds : /\ rows'[x] # NoRow /\ rows'[x].account = b
                                   => rows'[x] = rows[x]
  <2>1. \A j \in Instruments : <<b, j>> \in Keys /\ <<b, j>> # <<a, i>>
    BY DEF Keys
  <2>2. \A x \in RowIds : rows'[x] # NoRow /\ rows'[x].account = b => rows'[x] = rows[x]
    BY <1>6, <1>10
  <2>3. \A x \in RowIds : rows[x] # NoRow /\ rows[x].account = b => rows'[x] = rows[x]
    BY <1>6, <1>8, <1>9
  <2>4. \A j \in Instruments : RowsFor(rows', b, j) = RowsFor(rows, b, j)
    BY <2>2, <2>3 DEF RowsFor, RowsOf
  <2> QED BY <1>6, <2>1, <2>2, <2>4
<1>17. ASSUME NEW b \in Accounts \ crossed', b # a PROVE Agreed(b)'
  <2>1. Agreed(b)
    BY <1>17 DEF InStep
  <2>2. /\ accounts'[b] = accounts[b] /\ ledger'[b] = ledger[b]
        /\ \A x \in RowIds : rows'[x] # NoRow /\ rows'[x].account = b => rows'[x] = rows[x]
        /\ \A j \in Instruments : /\ trades'[<<b, j>>] = trades[<<b, j>>]
                                 /\ RowsFor(rows', b, j) = RowsFor(rows, b, j)
    BY <1>16, <1>17
  <2>3. \A x \in RowIds : rows[x] # NoRow => rows[x].instrument \in Instruments
    BY <1>5 DEF Typed, PositionRow
  <2>4. /\ Magnitude(accounts'[b].realized - ledger'[b].sum) <= ledger'[b].entries
        /\ accounts'[b].status = "ABSENT" => accounts'[b].realized = 0 /\ ledger'[b].sum = 0
    BY <2>1, <2>2 DEF Agreed
  <2>5. ASSUME NEW x \in RowIds, NEW y \in RowIds, rows'[x] # NoRow, rows'[y] # NoRow,
               rows'[x].account = b, rows'[y].account = b,
               rows'[x].instrument = rows'[y].instrument
        PROVE  x = y
    BY <2>1, <2>2, <2>5 DEF Agreed
  <2>6. ASSUME NEW x \in RowIds, rows'[x] # NoRow, rows'[x].account = b
        PROVE  rows'[x].at.net = trades'[<<b, rows'[x].instrument>>]
    BY <2>1, <2>2, <2>3, <2>6 DEF Agreed
  <2>7. \A j \in Instruments : RowsFor(rows', b, j) = {} => trades'[<<b, j>>] = 0
    BY <2>1, <2>2 DEF Agreed
  <2> QED BY <2>4, <2>5, <2>6, <2>7 DEF Agreed
<1>18. ASSUME NEW s \in Requests, Uncrossed(s)' PROVE Fresh(s)'
  <2>1. CASE s \notin InFlight'
    <3>1. req'[s].pc \notin Ordering /\ req'[s].pc \notin Filling /\ req'[s].pc # "commit"
      BY <2>1 DEF InFlight, Ended, Ordering, Filling
    <3> QED BY <3>1 DEF Fresh
  <2>2. CASE s \in InFlight'
    <3>1. s # r /\ req'[s] = req[s] /\ s \in InFlight
      BY <1>12, <2>2 DEF InFlight
    <3>2. PICK b : b = req[s].job.account
      OBVIOUS
    <3>3. PICK j : j = req[s].job.instrument
      OBVIOUS
    <3>4. b \in Accounts /\ b # a /\ Fresh(s)
      BY <1>1, <1>13, <1>18, <3>1, <3>2 DEF Crossing, InStep, Uncrossed
    <3>5. req[s].pc \in Filling => j \in Instruments
      BY <1>5, <3>3, FillingTyped
    <3>6. accounts'[b] = accounts[b]
      BY <1>16, <3>4
    <3>7. req[s].pc \in Filling => /\ trades'[<<b, j>>] = trades[<<b, j>>]
                                   /\ RowsFor(rows', b, j) = RowsFor(rows, b, j)
      BY <1>16, <3>4, <3>5
    <3> QED BY <3>1, <3>2, <3>3, <3>4, <3>6, <3>7 DEF Fresh
  <2> QED BY <2>1, <2>2
<1> QED BY <1>14, <1>15, <1>17, <1>18 DEF InStep

(* The commit of a graduation: if the evaluation account is not crossed    *)
(* then it is its own; the funded one was nobody's and starts with nothing *)
(* realized and no ledger.                                                 *)
LEMMA GraduatesAgree ==
  ASSUME InStep, Served', NEW r \in Requests, CommitGraduation(r),
         crossed' = crossed \union Crossing(r)
  PROVE  InStep'
<1>1. PICK e : e = req[r].job.account
  OBVIOUS
<1>2. /\ Served /\ Typed /\ Present /\ r \in InFlight /\ EndWith(r, "graduated")
      /\ rows' = rows /\ trades' = trades /\ ledger' = ledger /\ e \in Accounts
  BY <1>1, GraduationWrites DEF InStep, Served, CommitGraduation, InFlight, Ended
<1>3. PICK f \in Accounts :
        /\ accounts[f].status = "ABSENT"
        /\ accounts'[f].status = "ACTIVE" /\ accounts'[f].realized = 0
        /\ e # f => /\ accounts'[e].status = "CLOSED"
                    /\ accounts'[e].realized = accounts[e].realized
        /\ \A b \in Accounts \ {e, f} : accounts'[b] = accounts[b]
  BY <1>1, <1>2, GraduationWrites DEF InStep
<1>4. e # f
  BY <1>1, <1>2, <1>3 DEF Present
<1>5. (\A s \in Requests \ {r} : req'[s] = req[s]) /\ r \notin InFlight'
  BY <1>2, Landed DEF Ended
<1>6. \A s \in InFlight : req[s].job.account \in Accounts \ {f}
  BY <1>2, <1>3, Flying DEF Present, InFlight
<1>7. Present'
  BY <1>2, <1>3, <1>4, <1>5, <1>6, PresentStep
<1>8. ASSUME NEW b \in Accounts \ crossed' PROVE Agreed(b)'
  <2>1. Agreed(b)
    BY <1>8 DEF InStep
  <2>2. /\ Magnitude(accounts[b].realized - ledger[b].sum) <= ledger[b].entries
        /\ accounts[b].status = "ABSENT" => accounts[b].realized = 0 /\ ledger[b].sum = 0
    BY <2>1 DEF Agreed
  <2>3. /\ Magnitude(accounts'[b].realized - ledger'[b].sum) <= ledger'[b].entries
        /\ accounts'[b].status = "ABSENT" => accounts'[b].realized = 0 /\ ledger'[b].sum = 0
    <3>1. CASE b = f
      BY <1>2, <1>3, <2>2, <3>1
    <3>2. CASE b = e
      BY <1>2, <1>3, <1>4, <2>2, <3>2
    <3>3. CASE b \notin {e, f}
      BY <1>2, <1>3, <2>2, <3>3
    <3> QED BY <3>1, <3>2, <3>3
  <2> QED BY <1>2, <2>1, <2>3 DEF Agreed, RowsFor, RowsOf
<1>9. ASSUME NEW s \in Requests, Uncrossed(s)' PROVE Fresh(s)'
  <2>1. CASE s \notin InFlight'
    <3>1. req'[s].pc \notin Ordering /\ req'[s].pc \notin Filling /\ req'[s].pc # "commit"
      BY <2>1 DEF InFlight, Ended, Ordering, Filling
    <3> QED BY <3>1 DEF Fresh
  <2>2. CASE s \in InFlight'
    <3>1. req'[s] = req[s] /\ s \in InFlight \ {r}
      BY <1>5, <2>2 DEF InFlight
    <3>2. Fresh(s) /\ req[s].job.account \in Accounts \ {e, f}
      BY <1>1, <1>6, <1>9, <3>1 DEF Crossing, InStep, Uncrossed
    <3>3. accounts'[req[s].job.account] = accounts[req[s].job.account]
      BY <1>3, <3>2
    <3> QED BY <1>2, <3>1, <3>2, <3>3 DEF Fresh, RowsFor, RowsOf
  <2> QED BY <2>1, <2>2
<1> QED BY <1>7, <1>8, <1>9 DEF InStep

(* At the start nothing is in flight, and the trades are those of the rows *)
(* held.                                                                   *)
LEMMA InitInStep == Init => InStep
<1> SUFFICES ASSUME Init PROVE InStep
  OBVIOUS
<1>1. Served /\ Typed
  BY InitServed DEF Served
<1>2. \A r \in Requests : req[r].pc = "idle"
  <2>1. "idle" \in Outcomes
    BY DEF Outcomes
  <2> QED BY <2>1, BlankTyped DEF Init
<1>3. InFlight = {}
  BY <1>2 DEF InFlight
<1>4. Present
  BY <1>3 DEF Present
<1>5. \A a \in Accounts : accounts[a].realized = 0 /\ ledger[a].sum = 0 /\ ledger[a].entries = 0
  BY DEF Init, NewAccount
<1>6. PICK held \in Holdings :
        /\ rows = [x \in RowIds |->
                     IF x \in Keys /\ held[x] # FlatPosition
                     THEN [account |-> x[1], instrument |-> x[2], at |-> held[x]]
                     ELSE NoRow]
        /\ trades = [k \in Keys |-> held[k].net]
  BY DEF Init
<1>7. ASSUME NEW x \in RowIds, rows[x] # NoRow
      PROVE  /\ x \in Keys /\ x = <<rows[x].account, rows[x].instrument>>
             /\ rows[x].at.net = trades[x]
  <2>1. x \in Keys /\ rows[x] = [account |-> x[1], instrument |-> x[2], at |-> held[x]]
    BY <1>6, <1>7
  <2>2. x = <<x[1], x[2]>>
    BY <2>1 DEF Keys
  <2> QED BY <1>6, <2>1, <2>2
<1>8. ASSUME NEW a \in Accounts, NEW i \in Instruments, RowsFor(rows, a, i) = {}
      PROVE  trades[<<a, i>>] = 0
  <2>1. <<a, i>> \in Keys /\ <<a, i>> \in RowIds
    BY NamesDiffer DEF Keys
  <2>2. CASE held[<<a, i>>] = FlatPosition
    BY <1>6, <2>1, <2>2 DEF FlatPosition
  <2>3. CASE held[<<a, i>>] # FlatPosition
    <3>1. PICK row : row = [account |-> a, instrument |-> i, at |-> held[<<a, i>>]]
      OBVIOUS
    <3>2. rows[<<a, i>>] = row /\ row.account = a /\ row.instrument = i
      BY <1>6, <2>1, <2>3, <3>1
    <3>3. row \in PositionRow
      BY <2>1, <3>1, HoldingsAssumption DEF PositionRow
    <3>4. <<a, i>> \in RowsFor(rows, a, i)
      BY <2>1, <3>2, <3>3, NamesDiffer DEF RowsFor, RowsOf
    <3> QED BY <1>8, <3>4
  <2> QED BY <2>2, <2>3
<1>9. ASSUME NEW a \in Accounts PROVE Agreed(a)
  <2>1. Magnitude(accounts[a].realized - ledger[a].sum) <= ledger[a].entries
    BY <1>5 DEF Magnitude
  <2>2. ASSUME NEW x \in RowIds, NEW y \in RowIds, rows[x] # NoRow, rows[y] # NoRow,
               rows[x].account = a, rows[y].account = a, rows[x].instrument = rows[y].instrument
        PROVE  x = y
    BY <1>7, <2>2
  <2>3. \A x \in RowIds : rows[x] # NoRow /\ rows[x].account = a =>
                           rows[x].at.net = trades[<<a, rows[x].instrument>>]
    BY <1>7
  <2> QED BY <1>5, <1>8, <2>1, <2>2, <2>3 DEF Agreed
<1>10. \A r \in Requests : Fresh(r)
  BY <1>2 DEF Fresh, Ordering, Filling
<1> QED BY <1>1, <1>4, <1>9, <1>10 DEF InStep

(* Every step keeps the second invariant: one case per action.             *)
LEMMA StepInStep == InStep /\ [Next]_vars => InStep'
<1> SUFFICES ASSUME InStep, [Next]_vars PROVE InStep'
  OBVIOUS
<1>1. Served'
  BY StepServed DEF InStep
<1>2. ASSUME NEW r \in Requests, Begin(r) \/ Step(r) \/ AbortDeadlocked(r) \/ LoseConnection(r)
      PROVE  InStep'
  <2>1. CASE Begin(r)
    BY <1>1, <2>1, BeginsAgree
  <2>2. CASE Computes(r) /\ UNCHANGED crossed
    BY <1>1, <2>2, SelectsAgree, UpdateAgree, FlushesAgree, RulesAgree DEF Computes
  <2>3. CASE (CommitFill(r) \/ CommitGraduation(r)) /\ crossed' = crossed \union Crossing(r)
    BY <1>1, <2>3, CommitsAgree, GraduatesAgree
  <2>4. CASE AbortDeadlocked(r) \/ LoseConnection(r)
    BY <1>1, <2>4, EndsQuietly DEF AbortDeadlocked, LoseConnection
  <2> QED BY <1>2, <2>1, <2>2, <2>3, <2>4 DEF Step
<1>3. CASE UNCHANGED vars
  <2>1. /\ accounts' = accounts /\ rows' = rows /\ trades' = trades /\ ledger' = ledger
        /\ req' = req /\ crossed' = crossed
    BY <1>3 DEF vars
  <2>2. Present'
    BY <2>1 DEF InStep, Present, InFlight
  <2>3. ASSUME NEW a \in Accounts \ crossed' PROVE Agreed(a)'
    <3>1. Agreed(a)
      BY <2>1 DEF InStep
    <3> QED BY <2>1, <3>1 DEF Agreed, RowsFor, RowsOf
  <2>4. ASSUME NEW r \in Requests, Uncrossed(r)' PROVE Fresh(r)'
    <3>1. Fresh(r)
      BY <2>1, <2>4 DEF InStep, Uncrossed
    <3> QED BY <2>1, <3>1 DEF Fresh, RowsFor, RowsOf
  <2> QED BY <1>1, <2>2, <2>3, <2>4 DEF InStep
<1> QED BY <1>2, <1>3 DEF Next

(* An account's realized P&L is its ledger's sum, within a unit per entry, *)
(* however many requests interleave, for it or for others, are rejected,   *)
(* fail or graduate - until one commits to the account while another of    *)
(* its requests holds a copy of the row.                                   *)
THEOREM OnlyCrossingBreaksLedger == Spec => []LedgerTracksRealized
<1>1. InStep => LedgerTracksRealized
  BY DEF InStep, Agreed, LedgerTracksRealized
<1> QED BY <1>1, InitInStep, StepInStep, PTL DEF Spec

(* The nets of no rows add up to nothing: the recursive function the fold  *)
(* is defined by exists, and is 0 there.                                   *)
LEMMA SumOfNone ==
  MapThenSumSet(LAMBDA x : rows[x].at.net, {}) = 0
<1> DEFINE step(f, s) == IF s = {} THEN 0
                         ELSE rows[CHOOSE x \in s : TRUE].at.net + f[s \ {CHOOSE x \in s : TRUE}]
           sum == CHOOSE f : f = [s \in SUBSET {} |-> step(f, s)]
<1>1. MapThenSumSet(LAMBDA x : rows[x].at.net, {}) = sum[{}]
  BY DEF MapThenSumSet, MapThenFoldSet
<1>2. PICK f : f = [s \in SUBSET {} |-> 0]
  OBVIOUS
<1>3. f = [s \in SUBSET {} |-> step(f, s)]
  BY <1>2
<1>4. sum = [s \in SUBSET {} |-> step(sum, s)]
  BY <1>3
<1>5. sum[{}] = step(sum, {})
  BY <1>4
<1> QED BY <1>1, <1>5

(* The nets of one row add up to its own, by the same argument.            *)
LEMMA SumOfOne ==
  ASSUME NEW row, rows[row].at.net \in Int
  PROVE  MapThenSumSet(LAMBDA x : rows[x].at.net, {row}) = rows[row].at.net
<1> DEFINE step(f, s) == IF s = {} THEN 0
                         ELSE rows[CHOOSE x \in s : TRUE].at.net + f[s \ {CHOOSE x \in s : TRUE}]
           sum == CHOOSE f : f = [s \in SUBSET {row} |-> step(f, s)]
<1>1. MapThenSumSet(LAMBDA x : rows[x].at.net, {row}) = sum[{row}]
  BY DEF MapThenSumSet, MapThenFoldSet
<1>2. PICK f : f = [s \in SUBSET {row} |-> IF s = {} THEN 0 ELSE rows[row].at.net]
  OBVIOUS
<1>3. ASSUME NEW s \in SUBSET {row}, NEW g, g[{}] = 0
      PROVE  step(g, s) = IF s = {} THEN 0 ELSE rows[row].at.net
  <2>1. CASE s = {}
    BY <2>1
  <2>2. CASE s # {}
    <3>1. s = {row} /\ (CHOOSE x \in s : TRUE) = row
      BY <2>2
    <3>2. s \ {CHOOSE x \in s : TRUE} = {}
      BY <3>1
    <3>3. step(g, s) = rows[row].at.net + g[{}]
      BY <2>2, <3>1, <3>2
    <3> QED BY <1>3, <2>2, <3>3
  <2> QED BY <2>1, <2>2
<1>4. f[{}] = 0
  BY <1>2
<1> HIDE DEF step
<1>5. f = [s \in SUBSET {row} |-> step(f, s)]
  BY <1>2, <1>3, <1>4
<1>6. sum = [s \in SUBSET {row} |-> step(sum, s)]
  BY <1>5
<1> HIDE DEF sum
<1>7. sum[{}] = 0
  BY <1>6 DEF step
<1>8. sum[{row}] = step(sum, {row})
  BY <1>6
<1> QED BY <1>1, <1>3, <1>7, <1>8

(* An account has one row per contract, its net what the committed trades  *)
(* add up to, until one call commits to it while another is in flight: an  *)
(* insert that another call has not seen is the only way to a second row.  *)
THEOREM OnlyCrossingBreaksPositions == Spec => []PositionsFollowTrades
<1>1. InStep => PositionsFollowTrades
  <2> DEFINE total(a, i) == MapThenSumSet(LAMBDA x : rows[x].at.net, RowsFor(rows, a, i))
  <2> SUFFICES ASSUME InStep, NEW a \in Accounts \ crossed, NEW i \in Instruments
               PROVE  Cardinality(RowsFor(rows, a, i)) <= 1 /\ total(a, i) = trades[<<a, i>>]
    BY Zenon DEF PositionsFollowTrades
  <2>1. Agreed(a) /\ Typed
    BY DEF InStep, Served
  <2>2. CASE RowsFor(rows, a, i) = {}
    <3>1. trades[<<a, i>>] = 0
      BY <2>1, <2>2 DEF Agreed
    <3>2. Cardinality(RowsFor(rows, a, i)) = 0
      BY <2>2, FS_EmptySet
    <3>3. MapThenSumSet(LAMBDA x : rows[x].at.net, {}) = 0
      BY SumOfNone
    <3>4. total(a, i) = 0
      BY <2>2, <3>3
    <3> HIDE DEF total
    <3> QED BY <3>1, <3>2, <3>4
  <2>3. CASE RowsFor(rows, a, i) # {}
    <3>1. PICK row : row \in RowsFor(rows, a, i)
      BY <2>3
    <3>2. /\ row \in RowIds /\ rows[row] # NoRow /\ rows[row].account = a
          /\ rows[row].instrument = i
      BY <3>1 DEF RowsFor, RowsOf
    <3>3. RowsFor(rows, a, i) = {row}
      BY <2>1, <3>1, <3>2 DEF RowsFor, RowsOf, Agreed
    <3>4. rows[row].at.net = trades[<<a, i>>]
      BY <2>1, <3>2 DEF Agreed
    <3>5. rows[row].at.net \in Int
      BY <2>1, <3>2 DEF Typed, PositionRow, PositionRecord
    <3>6. Cardinality(RowsFor(rows, a, i)) = 1
      BY <3>3, FS_Singleton
    <3>7. MapThenSumSet(LAMBDA x : rows[x].at.net, {row}) = rows[row].at.net
      BY <3>5, SumOfOne
    <3>8. total(a, i) = rows[row].at.net
      BY <3>3, <3>7
    <3> HIDE DEF total
    <3> QED BY <3>4, <3>6, <3>8
  <2> QED BY <2>2, <2>3
<1> QED BY <1>1, InitInStep, StepInStep, PTL DEF Spec
===============================================================================
