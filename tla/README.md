# Verification of the prop-trading platform

TLA+ models of the platform's backend, the TLC runs that check them on small
instances, and TLAPS proofs of the properties that matter most for every
instance. The reference is the code: every definition that stands for code is
listed with its lines in `PROJECT.json` under `map`.

## 1. The system

A FastAPI process (one asyncio event loop) serves a React terminal. PostgreSQL
keeps users, challenges, accounts, orders, trades, positions and ledger entries;
Redis keeps the latest quote per symbol, with a fallback to process memory. Quotes
come from a simulator (indices only) or from Upstox (a socket thread, a polling
task and the option-chain requests).

| Part | State | Operations | Talks to | What makes it correct |
|---|---|---|---|---|
| Order service (`services/order_service.py`) | orders, trades, positions, ledger | `place_order`, `_update_position` | all of the next six | positions follow trades; realized P&L is in the ledger once; all or nothing per request |
| Risk engine (`risk/engine.py`, `services/account_service.py`) | account status | `check_pre_trade`, `check_post_trade`, `margin_for_lots`, `compute_open_exposure` | positions, rule version | only ACTIVE accounts trade; exposure within equity; a verdict the figures explain |
| Matching engine (`execution/matching_engine.py`) | the order in hand | `submit_order`, `cancel_order` | quote cache | fills add up, at prices of the book, best first |
| Upstox broker (`execution/upstox_broker.py`) | the order in hand | `submit_order`, `cancel_order` | nothing yet (a stub) | the order's status says what is known of it |
| P&L engine (`services/pnl_service.py`) | account figures | `mark_to_market_account` | quote cache, positions | equity explained; the high water mark never falls |
| Graduation (`services/graduation_service.py`) | accounts | `graduate_account` | rule version | one funded account per passed evaluation |
| Session and database (`db/database.py`, `models/`) | committed rows, open transactions | begin, flush, commit, close | PostgreSQL | no lost update, no permanent wait |
| Quote cache (`market_data/redis_cache.py`) | memory, Redis, availability latch | `set_quote`, `get_quote` | Redis | a quote that was shown can be read back; once Redis has failed nothing old returns |
| Simulator (`market_data/simulator.py`) | prices, tick count | `connect`, `disconnect`, the loop | cache, manager, candles, broadcast | every symbol is served every tick |
| WebSocket manager and endpoint (`market_data/websocket_manager.py`, `api/market_data.py`) | connections and their symbols | connect, disconnect, (un)subscribe, broadcasts | sockets | a subscriber gets what it subscribed to; one bad socket harms no other |
| Account broadcast (`services/broadcast_service.py`) | sockets per account and back, last push | (un)subscribe, disconnect, `on_order_event`, `on_quote_tick` | positions, sockets | the two maps agree; an order event reaches every subscriber |
| Upstox feed (`market_data/upstox.py`) | socket state, pending symbols, last ticks | connect, callbacks, poll, staleness, registration | Upstox, cache, manager | one symbol's failure stops no other; a symbol gone silent ends up flagged |
| Candles (`services/candle_service.py`) | minute buckets per symbol | `ingest_quote`, `get_candles` | none | a candle is the quotes of its minute, however late; closed candles stay |
| Option chain (`services/option_chain_service.py`) | instruments | `get_option_chain` | Upstox, cache | one instrument per broker key |
| Purchases (`api/admin.py`, `api/challenges.py`) and registration (`api/auth.py`) | users, challenges, rules, purchases, accounts | purchase, approve, register, login | database | an approved purchase has its account; no account without its rule and user |
| Bootstrap (`db/bootstrap.py`, `main.py`) | seed rows, the running provider | start, seed, stop | all | seeding twice is seeding once |
| Terminal (`frontend/src`) | socket, subscriptions, form state | connect, reconnect, subscribe, order, close position | REST, socket | one socket; subscriptions survive a reconnect |

**What is hard here.** Every `await` in a request lets other requests and the feed
run. A request reads its account once and works on that copy to its end, while the
gates count rows others may be about to change. Quotes are read again and again
within one request and may differ each time. Amounts are exact in memory and
rounded column by column when stored. The feed and the sockets interleave with
client connects and disconnects. Requests that look for a row and make it when it is
missing overlap with others that do the same. `PROJECT.json` lists each such place under
`hazards`, with the properties that watch it or the reason why none does.

## 2. The modules

| Module | What it is | Code |
|---|---|---|
| `TradeMath` | arithmetic as operators: rounding, the book walk, the position update, margin, valuation, verdict | the pure parts of the services |
| `MatchingEngine` | one order in the simulated provider, one action per loop iteration | `execution/matching_engine.py` |
| `AccountLifecycle` | abstract: what is promised of accounts and graduation | status changes of `risk/engine.py`, `graduation_service.py` |
| `OrderFlow` | all of `place_order` and `graduate_account`, one request at a time; implements `AccountLifecycle` | order, risk, P&L, graduation services, both providers |
| `ConcurrentOrders` | the same requests interleaved await by await over a READ COMMITTED database; with one call in flight it implements `OrderFlow` | the same, with session and locks |
| `QuoteCache` | the cache's memory, Redis and availability latch; the outcomes of a call as sets | `market_data/redis_cache.py` |
| `QuoteFeed` | socket messages, polling task and a reading request, interleaved between awaits; EXTENDS `QuoteCache` | `market_data/upstox.py` |
| `CandleService` | the candles of one symbol, the longer timeframes computed from them | `services/candle_service.py`, `api/market.py` |
| `MarketStream` | the simulator's loop broadcasting through the WebSocket manager while endpoints connect, subscribe and end | `market_data/simulator.py`, `market_data/websocket_manager.py`, `api/market_data.py` |
| `AccountBroadcast` | the two dictionaries, order events, throttled ticks, each push send by send | `services/broadcast_service.py` |
| `Onboarding` | seeding, login, registration, new users, purchase, approval as concurrent transactions | `db/bootstrap.py`, `api/auth.py`, `api/admin.py`, `api/challenges.py` |
| `MC*` | instances for TLC | |
| `*Proofs` | theorems and proofs about the module they extend; `MarketDataProofs` extends two, `MarketStream` and `CandleService` | |
| `TradeMathProofs` | lemmas about the arithmetic, the book walk as a fold, sums over finite sets, and induction on natural numbers | |

How they build on each other: `MatchingEngine` shows that the loop computes the
fold `WalkBook` (`WalkIsFold`), which `OrderFlow` and `ConcurrentOrders` use in its place; that
a walk which fills something returns a positive quantity at a positive price, no more than was asked
for, is a lemma about the fold (`WalkFills`). `OrderFlow` refines
`AccountLifecycle` through the mapping of each account to its status and source.
`ConcurrentOrders` refines `OrderFlow` when `MaxInFlight = 1`: the one request past
its position update is `OrderFlow`'s `request`. `QuoteFeed` runs its tasks over `QuoteCache`;
a broadcast in it either ends or raises, which is what `MarketStream` shows a broadcast to do.
`CandleService` takes minutes in any order because `QuoteFeed`'s tasks overtake each other.
`MarketStream` and `AccountBroadcast` share the endpoint: the first has its market data
subscriptions, the second its account subscriptions.

### Correspondence with the code

- *Money* is counted in the smallest stored unit; a `Decimal` in memory is kept exact as
  a numerator over the quantity of the fill, and `RoundDiv` is what a
  `Numeric(14, 2)` column keeps. Python's `Decimal` has 28 digits, more than these
  quotients need to land on the same side of a half unit, so exact rationals stand for it.
- *Quotes* are not state in the order modules: the feed writes the cache between any two
  awaits, so each read returns any member of `Quotes`, or nothing. Nothing is possible on
  a second read too: after a Redis error the cache reads process memory, which may not
  have the symbol. The prices of a book are positive; the last price may be 0, as the option
  chain caches it of a contract that has not traded.
- *One LotSize* for all contracts; it only scales the margin.
- *`request`* (OrderFlow) and *`req`* (ConcurrentOrders) are the local variables of a call
  together with its uncommitted writes. `RollBack`, `GiveUp` and `LoseConnection` are the
  session closing without a commit: `get_db` leaves it to the context manager.
- *`trades`* keeps per account and contract the signed sum of the `trades` rows,
  *`ledger`* the sum and number of the `ledger_entries` rows.
- *`trading_days_count`* is the constant 0 (`TradingDays`): no code advances it, so a rule
  with `min_trading_days > 0` never passes anyone.
- *Accounts* exist from the start or are `ABSENT` ids that graduation uses.
- *The database* of `ConcurrentOrders` is the PostgreSQL of `docker-compose.yml` at its
  default isolation. An UPDATE writes only changed columns, as absolute values, and holds
  the row lock to the end of the transaction; a SELECT sees committed rows and one's own.
  A request flushes the account before the position when the fill realized P&L, because
  autoflush at the mark to market's select writes both in the order of their tables'
  dependency, and the account's other columns at commit. A cycle of lock waits aborts one
  member. The SQLite file of a local `.env` is not modelled.
- *One event loop*: in the feed, stream and broadcast models an action is a stretch of one
  task between two awaits, so what has no `await` in it (a section under the broadcast
  service's lock, for one) is one step.
- *Redis* applies commands of different tasks in any order and may fail before or after it
  applied one. A quote is told apart by the order it was built in, not by its price.
- *A dictionary that is iterated* is Python's: entries in order of insertion, a deleted one
  leaving a gap, and a `RuntimeError` when the size differs from the one at the start or an
  entry comes after as many as there were. Hence a client that goes and another that comes
  within one send are not noticed by their number, only by what is left to iterate. An
  insertion that finds the table full rebuilds it without its gaps (the first table has room for
  five entries, deleted ones included) and leaves the iterator's position as it was, which may
  then be past entries not yielded yet. `Earlier` is how many connections have come and gone before,
  each a deleted entry.
- *A client* that is gone makes a send raise at the latest when its endpoint notices; a send
  to a gone client may also still succeed, as a write to a closing connection does.
- *Time* in `AccountBroadcast` is `time.monotonic()` in units in which the throttle interval is
  `Interval`. It is at least one interval when the service starts (`TimeAssumption`): the
  clock counts from the boot of the machine.
- *Transactions* of `Onboarding` are the rows a request has written (`own`) next to the
  committed ones (`db`). An insert waits while another transaction holds a row with the same unique value, and
  raises once that one commits: users on their email, the instruments of the seed on their symbol
  (flushed as the login commits, after everything else it wrote). The second approval of a purchase waits for its row,
  which the first has updated. An exception or a crash forgets `own`. A row is identified by the request that
  made it (`by`). The option chain inserts instruments too (`option_chain_service.py:230`), of
  other contracts, which are not modelled.
- *`overlapped`, `crossed`, `owed`, `packed`, `pushes`, `shown`, `ingested`* are history: but for the bound on
  the length of `ingested` no guard reads them.

## 3. Runs

| Run | Checks | Instance |
|---|---|---|
| `matching_engine` | `FillAccounted`, `NoBetterFill`, `WalkIsFold` | every book of up to 2 levels (and a third fixed one) of 0..2 units at 3 prices; quantities -1..6, so below zero to beyond the book |
| `order_flow` | `PositionsFollowTrades`, `LedgerTracksRealized`, `EquityExplained`, `VerdictExplained`, `ShortsWithinMargin`, `LifecycleKept` | 2 contracts, 3 orders, 3 quotes, 2 funded ids |
| `concurrent_same` | types, `DeadlockNeedsBoth`, `NeverRevived`, `PositionsFollowTrades` (in one row each), `LedgerTracksRealized` | 3 calls at once on one account, holding 2 units or nothing yet |
| `concurrent_live` | `EveryCallAnswered` | 2 calls at once |
| `concurrent_serial` | `SerialRequestsAreOrderFlow` | 3 calls in turn on 2 contracts, with flips and graduation |
| `quote_feed` | types, `ShownCanBeRead`, `SilenceIsFlagged` | 1 symbol, 2 messages, the poll and a reader, 2 quotes built, an earlier one perhaps left in Redis |
| `candles` | `CandlesMatchQuotes`, `LatestMinutesKept`, `ClosedIsFinal`, `TimeframesAgree` | 5 quotes in 4 minutes of which 3 are kept, groups of 2 and 3 minutes |
| `market_stream` | types, `BroadcastReachesAll`, `LiveStaysConnected`, `TicksAreWhole`, `EverySymbolServed` | 3 clients, 2 symbols, 0 or 3 earlier connections |
| `account_broadcast` | `MapsAgree`, `GoneLeavesNothing`, `TicksThrottled`, `OrderReachesSubscribers` | 2 clients, 2 accounts, an order, 2 ticks, 2 instants |
| `onboarding` | types, `SeededOnce`, `RegistrationsWhole`, `AccountsFit`, `ApprovalsFunded`, `SequentialNeverRaises`, `EveryWaitEnds` | up to 5 of 2 logins, 2 registrations, a new user, a purchase, 3 approvals, all with the two seeded emails, and a crash anywhere |
| `poll_survives` | `PollSurvives`, which is violated | as `quote_feed` |
| `equity_realized` | `EquityIncludesRealized`, which is violated | 2 closes at once of one account holding 2 units |

Together the passing runs fire every action. Each property is paired in `PROJECT.json`
with a plausible fault of the code that TLC finds to break it. The runs leave out what is proved
for every instance and says less than their other properties: the types of the matching engine,
the order flow and the broadcast service, the price bounds of a fill, the high water mark,
`OnlyActiveTrades`, and `FundedOnce`, which `LifecycleKept` implies. A candle's types follow from
`CandlesMatchQuotes`.

**Bounds.** `MaxOrders` bounds the orders of a behaviour, `Requests` and
`MaxInFlight` the calls. Capital is 40 units and prices 3..8, so that two or three
orders already meet a half-unit average, a partial fill, a flip, a breach of each limit
and the target; the quotes `Calm`, `Risen` and `Fallen` have thin, uneven and empty sides.
Three orders over two contracts reach open, add, reduce, flip and close, with the second
contract open or not when an account is valued. Three
concurrent calls suffice for the longest chain the code has (a waiter, a holder, and one that
committed in between), and to have a call in turn before or after two that overlap; starting with
nothing held, first orders insert their row. Calls of different accounts share no row. `MaxQuotes` bounds the quotes built (feed) or ingested (candles). In the feed
two quotes and the one left in Redis suffice for an older one over a newer one and a flag over a
tick; a second symbol would only be polled in turn, and `Next` can pass over the one there is.
The stream needs three clients: one that goes, one that comes, and one the iteration has still to
reach. A client there asks for all symbols or none, so each symbol has subscribers and
bystanders. After three earlier connections (`Earlier`) the third client finds the table full; after none
it does not. `MaxTime` is one interval after the start, so that an account can be pushed twice
and must be refused a third time. `MaxRequests` of onboarding lets two requests race, and two
more and a third find what they left behind; the emails given to registrations and new users are the two
seeded ones, for no other collides with a seeding. Request, tick and user ids are interchangeable, and
symmetry is used for safety only. The runs that end because calls run out, clients are gone or
time is up say `CHECK_DEADLOCK FALSE`.

**Fairness.** In `ConcurrentOrders` each
request's own steps are weakly fair (the event loop resumes what can run; PostgreSQL
grants a lock when its holder ends), and so is the abort of a deadlocked transaction
(the detector runs after `deadlock_timeout`). Nothing obliges a call to arrive, a
connection to be lost, or an order to be cancelled. In
`QuoteFeed` the loop resumes every task, Redis answers a call or its
connection breaks, and a tick grows old; no message has to come, and no poll has to fail. In
`MarketStream` the loop resumes the simulator after each await, a send ends, and the `receive` of a
gone client raises; no client has to come or go. `MatchingEngine`, `OrderFlow`,
`CandleService`, `AccountBroadcast` and `Onboarding` are checked for safety only: what they promise to do in the
end follows as soon as each request is resumed to its end, which `EveryWaitEnds` shows nothing
to prevent in `Onboarding`.

### What the repository says and the code does not do

Two runs expect a violation.

- `poll_survives`: the comment at `upstox.py:256` says that one
  symbol's failure must not stop the others from being polled. The handler of the failure
  itself awaits a broadcast, which raises when a client connects or leaves within one of its
  sends; nothing catches it, and the polling task is over for every symbol.
- `equity_realized`: the comment at `pnl_service.py:59` says that equity must include the realized P&L, or
  a profitable close vanishes from it. Of two closes of one account at once the later commit
  writes the realized P&L and equity of its own copy over the other's: both profits are in the ledger, one is in the equity.

The models show more that a reader should know of, where the repository states nothing that
a run could refute, or where the properties hold under a condition that the runs make explicit:

- *Requests of one account at once.* Two first orders insert two position rows, after which no order of that
  contract gets past its select (`scalar_one_or_none`); one realized P&L overwrites another
  (`equity_realized`); two shorts exceed the margin together; two graduations fund two accounts.
  `PositionsFollowTrades` and `LedgerTracksRealized` in `concurrent_same` say what it takes: an account's books are right
  until one call commits to it while another of its calls is in flight (`crossed`). Calls that
  overlap and are rejected, rolled back, aborted or lost do no harm, and nor do those of other accounts.
  Without `crossed` both are violated in the same run.
- *A broadcast may miss a live subscriber.* When a client leaves and another connects within one send, and
  the insertion rebuilds the dictionary, the iteration ends without an exception and without those whose entries
  moved up past its position. `BroadcastReachesAll` excepts this case (`packed`), and without the exception
  `market_stream` violates it. Nobody loses its connection by it (`LiveStaysConnected`), and the next tick is sent again.
- *The rules of a registration* have limits of 0.00 (`auth.py:77`), and `drawdown >= limit` then
  fails the account on its first fill (`risk/engine.py:102`), a losing one or not.
- *Approvals.* Two at once of one purchase open two accounts, of which the purchase names one. Two
  first approvals of one size, or two first registrations, at once make its challenge twice,
  and every later one raises (`scalar_one_or_none` finds two). `SequentialNeverRaises` says that this
  takes an overlap.
- *Two first logins at once.* The unique symbol of the instruments makes the second seeding wait, raise and roll
  back, so that instruments and the demo account are seeded once, always. Packages have no unique
  column. If strangers have registered both seeded emails before, the second login inserts no user that would make it wait; it
  may count the packages before the first login commits and the instruments after (each SELECT
  sees what is committed by then), find these there, flush none, and commit its packages beside the first's. This is the
  exception in `SeededOnce`, and without it `onboarding` violates the property.
- *Seeding* with a changed `DEMO_TRADER_EMAIL` makes a second challenge beside the first.
- *An older quote over a newer one.* Redis applies two writes of one symbol in either order, and the
  stale flag is built from a quote read before an await, so it can replace a tick that came
  meanwhile. The next tick repairs both; `SilenceIsFlagged` shows that a silent
  symbol is flagged in the end all the same.
- *The simulator* loses the rest of a tick when a broadcast raises, and the next tick begins with the
  first symbol again and the same `tick_count`. `EverySymbolServed` holds because each socket
  connects once and the clients are finitely many: a tick is disturbed only by a client that
  comes or goes, and clients that never stop coming would starve the last symbol.

Three smaller disagreements have no run, for the actions show them at sight: a LIMIT order is left
OPEN (`LeaveUnmatched`) where the comment at `matching_engine.py:111` and
`08_SAAS_READINESS.md:40` say it is rejected; the order of a funded account is left OPEN and
unfilled (`RouteToBroker`) where `README.md:102` says it is assumed filled; and a BUY is gated at
the last price of one quote but filled at the asks of another (`Passes` and `Match` choose
separately), so "cash-secured" in `risk/engine.py:30` holds up to that difference only.

## 4. Proofs

For all accounts, contracts, quotes, books, quantities, sockets, symbols, emails, requests and
bounds that satisfy the named assumptions of the modules. Those of the order modules say that
accounts, requests and "nothing" are told apart (`AccountAssumption`, `JobsAssumption`,
`NamesAssumption`), that money, quantities and prices are of the kinds the schemas accept
(`RulesAssumption`, `CapitalAssumption`, `BoundAssumption`, `QuoteAssumption`, `HoldingsAssumption`,
`InFlightAssumption`) and that the contracts are finitely many (`InstrumentAssumption`: a sum runs over them).
The engine has `BookAssumption` and `QuantityAssumption`, the broadcast service `TimeAssumption` and `JobAssumption`,
the feed `CallersAssumption`, `TasksAssumption`, `WatchlistAssumption` and `QuotesAssumption`, the stream
`TopicsAssumption`, `WatchedAssumption`, `GapAssumption` and `EarlierAssumption`, the candles
`HistoryAssumption`, `GroupAssumption` and their own `QuoteAssumption`, onboarding `RequestKinds` and `SomethingOnSale`. One
theorem, `FillsAreBest`, has a hypothesis of its own, which is needed.

| Module | Theorem | States |
|---|---|---|
| `MatchingEngineProofs` | `TypeCorrect`, `FillsAccounted`, `PricesWithinBook` | types, `FillAccounted`, the price bounds |
| | `LoopIsFold` | `WalkIsFold` |
| | `FillsAreBest` | `NoBetterFill`, when the books come best level first (`BestFirst`) |
| `OrderFlowProofs` | `OneAccountPerEvaluation` | `FundedOnce` of the abstract lifecycle |
| | `LifecycleImplemented`, `FundedOnceHolds` | `OrderFlow` implements `AccountLifecycle`, hence `FundedOnce` |
| | `TypesKept`, `NetIsTraded`, `JudgedNeverTrade` | types, `PositionsFollowTrades`, `OnlyActiveTrades` |
| | `EquityIsExplained`, `MarkIsHigh`, `MarkNeverFalls` | `EquityExplained`, `HighWaterMark`, `HighWaterMarkRises` |
| | `RealizedIsLedgered`, `VerdictsExplained` | `LedgerTracksRealized`, `VerdictExplained` |
| | `ShortsCovered` | `ShortsWithinMargin` |
| `ConcurrentOrdersProofs` | `RequestsTyped` | `TypeOK`, with any number of requests in flight |
| | `JudgedStaysJudged`, `CyclesMix` | `NeverRevived`, `DeadlockNeedsBoth` |
| | `OnlyCrossingBreaksLedger`, `OnlyCrossingBreaksPositions` | `LedgerTracksRealized`, `PositionsFollowTrades`, of the accounts on which no calls have crossed |
| `QuoteFeedProofs` | `QuoteFeedTyped`, `ShownIsReadable` | `TypeOK`, `ShownCanBeRead` |
| `MarketDataProofs` | `StreamTyped`, `LiveStay` | `TypeOK`, `LiveStaysConnected` |
| | `BroadcastReaches`, `TicksWhole` | `BroadcastReachesAll` (of broadcasts whose dictionary kept its gaps), `TicksAreWhole` |
| | `CandlesTellQuotes`, `LatestAreKept` | `CandlesMatchQuotes`, `LatestMinutesKept` |
| | `ClosedStay`, `FramesAgree` | `ClosedIsFinal`, `TimeframesAgree` |
| `AccountBroadcastProofs` | `TypeCorrect`, `MapsAlwaysAgree`, `GoneLeaves` | types, `MapsAgree`, `GoneLeavesNothing` |
| | `TicksAlwaysThrottled`, `OrderAlwaysReaches` | `TicksThrottled`, `OrderReachesSubscribers` |
| `OnboardingProofs` | `TypesHold`, `WaitsEnd` | `TypeOK`, `EveryWaitEnds` |
| | `RegistrationsAreWhole`, `ApprovalsAreFunded`, `AccountsAlwaysFit` | `RegistrationsWhole`, `ApprovalsFunded`, `AccountsFit` |
| | `SeedIsOne` | `SeededOnce`: instruments and demo challenge always, packages unless strangers have registered both seeded emails |
| | `OneByOneNeverRaises` | `SequentialNeverRaises` |

### The argument, component by component

*Arithmetic and induction.* `RoundDiv` is within half a unit (`RoundNear`), keeps order and sign, and is
within one unit of adding a rounded summand (`RoundSum`, `RoundDifference`). What a fold or a
sum over a set computes is an induction over data. The library's induction theorems take an operator as
their parameter, which no prover here instantiates, so the step is taken with *sets* of numbers: every
set of naturals that is not empty has a least member (`NatLeast`, from the well-foundedness of `<`), hence a set
with 0 that is closed under successor is all of them (`NatSetInduction`). With it the
book walk is a sequence of states, one for each level (`WalkBookWalks`), and a sum of finitely
many terms exists, is unique, and changes by what one term changes (`SumExists`, `AddsUp`,
`SumChanges`).

*Matching engine.* `WalkedSoFar` says that what is filled so far is the walk of the levels passed;
at the end the rest of the walk is idle. `FillsAreBest` is an exchange argument without an exchange: at every level the
walk has taken at least as much as any other way to the same total (`WalkIsAhead`), and when prices
never fall from level to level, what is taken earlier is cheaper (`EarlierIsCheaper`,
`EarlierIsDearer` for a sale). `BestFirst` is how the simulator builds its depth and Upstox sends it; the
engine does not sort, so without it the theorem is false.

*Order flow.* None of the invariants is inductive alone.
`ServingInv` adds to the types what a request in progress remembers: its account is ACTIVE
(so that commit judges only active accounts) and its new position moves the old one
by what it traded. `RowsInv` says of one accounts row, whoever wrote it last, that equity, mark and
drawdown agree: every step either keeps a row, marks it (`MarkedRowSound`) or
creates it (`NewRowSound`), and an ABSENT row is as fresh. `LedgerInv` adds that an absent account has no ledger
and no trades, so that the row graduation overwrites owes nothing. For the refinement,
`EvaluationUnfunded` says that the source of an evaluation is `NoSource`, which the
lifecycle's guards ask; then `CommitFill` maps to `Judge` or a stutter and `Graduate` to
`Graduate`. `VerdictExplained` compares the exact figures the rules used with the
rounded ones in the row through `RoundAgainstLimit`. `ShortsWithinMargin` needs `MarginCovered`: while a fill that leaves its position shorter is not committed yet,
the margin in use with it is within the equity. It holds because the fill is no larger than the quantity that was
checked (`FillCovers`), and it suffices because a fill moves one term of the sum (`MarginMoves`) and
more margin means a shorter position (`MoreMarginIsShorter`).

*Concurrent orders.* With any number of requests in flight, `Served` holds: types, what each request
knows at its place in the code (`Working`), and who holds which lock (`Locked`). A request that writes the
status column writes PASSED or FAILED, for an unchanged column is not written: so no judged account
becomes ACTIVE again. A request whose fill realized something holds its account's lock before it asks for a position's, any
other the reverse, so a cycle of waits has one of each. `InStep` adds, of every account on which no
calls have crossed, that its rows agree with trades and ledger (`Agreed`) and that the copies its requests hold are
what the tables still have (`Fresh`): a request holds uncommitted values, not the tables, so only a commit can make them
disagree, and a commit with another request of the account in flight is what puts the account into `crossed`.
Both theorems are false of accounts that are: `equity_realized` is the counterexample for the ledger.

*Quote feed.* `Remembered` is the types, what each task awaits and carries (`Awaiting`: between caching
its quote and showing it, a task finds something in memory under that symbol), and what is known of
the cache (`Known`: memory has a quote of every symbol that was shown). Memory is written before Redis and
never loses an entry, so it answers when Redis does not.

*Market stream.* `StreamInv` says that each connection is listed once and receiving, that whoever a broadcast
still owes lies ahead of its iterator or is being sent to, until a rebuild moves the entries (`packed`), that no client noted as dead
is alive, and that the symbols behind the loop have moved.

*Candles.* `HistoryInv`: every candle kept tells the quotes of its minute (`Telling`), the minutes kept are
the latest ones seen (`Recent`), and while quotes come in order the last alone is open (`Closing`).
The heart is `KeptAgain`: cutting after each quote leaves what one cut at the end would, so a minute that was cut never comes back with a candle
that has lost its first quotes. For `TimeframesAgree` the groups are shown to cover every position once,
whatever the remainder (`GroupsCover`), and a candle made of candles to be determined by
what it says of them (`OneSum`).

*Broadcast service.* The two dictionaries are compared as sets (`DiscardedSets`,
`ForgottenSets`), so that an account without a key and one with an empty set are the same, and
each step is classified once by what it does to them (`MapSteps`). `TicksThrottled` is not
inductive: `ThrottleInv` adds that the pushes of an account so far fit into the time up to
its last one, and that a tick still under way took its time between the start and now. `OrderReachesSubscribers`
needs `EventInv`: while an order's event is pushed, what a client is still owed is the number of
messages left, plus one if it is among those the current message has still to reach; and a client
that is owed anything is alive and listed, so no failed send can discard it.

*Onboarding.* The invariants are over committed and uncommitted rows together, each row under the request that made
it: what a request has written by the time it reaches a place (`own`), and what a commit
therefore adds to `db`. Waits have three kinds and cannot form a cycle. An approval waits only for another that
has updated its purchase, and such a one waits for nothing more. A login waits for another's instruments only when those
are flushed, which is the last thing before its commit (`Flushed`). And for a user's row only a
seeding login waits with one of its own, for the demo user's, which no request that waits for a user holds; so
a request that waits for an email may wait for one that waits for instruments, and never the reverse.
`SeedIsOne`: uncommitted instruments are in one transaction at most (`Flushed`), and a demo challenge comes with the demo
user. For packages the argument is made for each seeded email (`OneSeed`): until somebody else takes it,
whoever has added packages has inserted that user in the same transaction, so no other transaction with packages can commit.

### Only model-checked

Liveness (`EveryCallAnswered`, `SilenceIsFlagged`, `EverySymbolServed`): these rest on fairness and
`ENABLED`, which the prover does not treat. `SerialRequestsAreOrderFlow`, the refinement of `OrderFlow` by one call
at a time, is not proved yet. Every other property of the passing runs is a theorem.

## 5. Not modelled, and the plan

Left out for good: password hashing and tokens, JSON shapes, read-only endpoints, styling,
migrations and logging; `modify_order`, which changes nothing; the `domain_events` and
`audit_events` tables, which nothing writes.

Left out of modelled parts, with what it would take:

- The Upstox socket's connecting and reconnecting, and the option symbols waiting for it
  (`register_option_symbols`, `_pending_symbols`), together with the option chain service that
  calls it: what they share is the set of subscribed keys, a module of its own.
- Start and stop of the provider with the application (`main.py`): one step before and one after
  everything else.
- The browser's socket client: reconnects and resubscription against the endpoint of
  `MarketStream`, and an order submitted again after a lost reply.

To be proved next: the refinement `SerialRequestsAreOrderFlow`, action by action from `InStep` (with one
call in flight a request's steps up to its position update are stutters, and the rest are `OrderFlow`'s in
order).
