------------------------------- MODULE QuoteFeed -------------------------------
(***************************************************************************)
(* What UpstoxMarketDataProvider does with quotes once it is connected:    *)
(* the socket thread turns messages into coroutines of the event loop, the *)
(* polling task asks for the last price of one symbol after the other, and *)
(* each quote is cached, broadcast, made part of a candle (CandleService)  *)
(* and pushed.  A symbol whose poll fails and that has not ticked for a    *)
(* while is flagged stale in the cache.  Orders read the cache meanwhile.  *)
(*                                                                         *)
(* One action is one stretch of a task between two awaits.                 *)
(***************************************************************************)
EXTENDS QuoteCache, Sequences, Functions

CONSTANTS
  Watchlist,     \* instrument_keys, as a sequence of symbols
  Messages,      \* the coroutines of the socket's messages
  Poll, Reader,  \* the polling task and a request that reads a quote
  MaxQuotes      \* bound: quotes built in a behaviour

ASSUME CallersAssumption == Callers = Messages \union {Poll, Reader}
ASSUME TasksAssumption ==
  Poll # Reader /\ Poll \notin Messages /\ Reader \notin Messages
ASSUME WatchlistAssumption ==
  Watchlist \in Seq(Symbols) /\ Range(Watchlist) = Symbols /\ Len(Watchlist) >= 1
ASSUME QuotesAssumption ==
  MaxQuotes \in Nat /\ NoQuote \notin [id : Nat, symbol : Symbols, stale : BOOLEAN]

VARIABLES
  task,       \* [pc, quote] of each task
  position,   \* place in the watchlist of the symbol being polled
  recent,     \* symbols that ticked in the last STALE_AFTER_SECONDS
  built,      \* quotes built so far
  shown       \* history: symbols of which clients were sent a quote

vars == <<cache, call, task, position, recent, built, shown>>
feed == <<task, position, recent, built, shown>>

(* Quotes are told apart by the order they were built in.                  *)
NewQuote(symbol) == [id |-> built + 1, symbol |-> symbol, stale |-> FALSE]
(* A quote the process before this one left in Redis.                      *)
OldQuote(symbol) == [id |-> 0, symbol |-> symbol, stale |-> FALSE]

At(pc, quote) == [pc |-> pc, quote |-> quote]
Goto(t, pc, quote) == task' = [task EXCEPT ![t] = At(pc, quote)]

Init ==
  /\ CacheInit([s \in Symbols |-> OldQuote(s)])
  /\ task = [t \in Callers |-> At(IF t = Poll THEN "fetch" ELSE "idle", NoQuote)]
  /\ position = 1
  /\ recent = {}
  /\ built = 0
  /\ shown = {}

---------------------------------------------------------------------------
(* set_quote from the state the task has brought the cache to: what comes  *)
(* after it happens at once when Redis is not asked.                       *)
SetThen(t, now, quote, awaiting, done) ==
  LET after == Remember(now, quote)
  IN  /\ cache' = after
      /\ IF Down(after)
         THEN call' = [call EXCEPT ![t] = NoCall] /\ Goto(t, done, quote)
         ELSE Send(t, "set sent", quote.symbol, quote) /\ Goto(t, awaiting, quote)

(* _handle_quote_update up to its first await.                             *)
HandleUpdate(t, quote) ==
  /\ recent' = recent \union {quote.symbol}
  /\ SetThen(t, cache, quote, "set", "broadcast")

(* The socket thread parses a message and posts its coroutine to the loop, *)
(* which starts them in that order.                                        *)
OnMessage(m) ==
  /\ task[m].pc = "idle"
  /\ built < MaxQuotes
  /\ \E s \in Symbols : Goto(m, "posted", NewQuote(s))
  /\ built' = built + 1
  /\ UNCHANGED <<cache, call, position, recent, shown>>

StartMessage(m) ==
  /\ task[m].pc = "posted"
  /\ \A n \in Messages : task[n].pc = "posted" => task[m].quote.id <= task[n].quote.id
  /\ HandleUpdate(m, task[m].quote)
  /\ UNCHANGED <<position, built, shown>>

---------------------------------------------------------------------------
(* The polling task: on to the next symbol, after the last one to the      *)
(* first; the sleep in between changes nothing.                            *)
NextPositionLate == IF position > Len(Watchlist) THEN 1 ELSE position + 1  \* fault: wraps late
NextPosition == IF position = Len(Watchlist) THEN 1 ELSE position + 1
PollNext == Goto(Poll, "fetch", NoQuote) /\ position' = NextPosition
Polled == Watchlist[position]

(* The ltp call returns a price, or data without one.                      *)
PollAnswers ==
  /\ task[Poll].pc = "fetch"
  /\ \/ /\ built < MaxQuotes
        /\ HandleUpdate(Poll, NewQuote(Polled))
        /\ built' = built + 1
        /\ UNCHANGED position
     \/ PollNext /\ UNCHANGED <<cache, call, recent, built>>
  /\ UNCHANGED <<shown>>

(* _mark_stale_if_overdue, with the quote the cache returned: flagged in   *)
(* the cache and broadcast, unless there is nothing to flag.               *)
MarkStaleUnsaved(now, quote) ==  \* fault: the flag is broadcast and not cached
  /\ cache' = now
  /\ call' = [call EXCEPT ![Poll] = NoCall]
  /\ IF quote = NoQuote \/ quote.stale THEN PollNext
     ELSE Goto(Poll, "announce", [quote EXCEPT !.stale = TRUE]) /\ UNCHANGED position

MarkStale(now, quote) ==
  IF quote = NoQuote \/ quote.stale
  THEN cache' = now /\ call' = [call EXCEPT ![Poll] = NoCall] /\ PollNext
  ELSE /\ SetThen(Poll, now, [quote EXCEPT !.stale = TRUE], "mark", "announce")
       /\ UNCHANGED position

MarkIfOverdue ==
  IF Polled \in recent THEN PollNext /\ UNCHANGED <<cache, call>>
  ELSE IF Down(cache) THEN MarkStale(cache, cache.memory[Polled])
  ELSE /\ Send(Poll, "get sent", Polled, NoQuote)
       /\ Goto(Poll, "get", NoQuote)
       /\ UNCHANGED <<cache, position>>

PollFails ==
  /\ task[Poll].pc = "fetch"
  /\ MarkIfOverdue
  /\ UNCHANGED <<recent, built, shown>>

MarkAfterGet ==
  /\ task[Poll].pc = "get"
  /\ \E outcome \in GetOutcomes(Poll) : MarkStale(outcome.now, outcome.quote)
  /\ UNCHANGED <<recent, built, shown>>

(* An exception while the flag is broadcast is not caught by the loop.     *)
Announced ==
  /\ task[Poll].pc = "announce"
  /\ \/ PollNext
     \/ Goto(Poll, "dead", NoQuote) /\ UNCHANGED position
  /\ UNCHANGED <<cache, call, recent, built, shown>>

---------------------------------------------------------------------------
(* A task whose set_quote returns goes on to its broadcast.                *)
SetDone(t) ==
  /\ task[t].pc \in {"set", "mark"}
  /\ cache' \in SetOutcomes(t)
  /\ call' = [call EXCEPT ![t] = NoCall]
  /\ Goto(t, IF task[t].pc = "set" THEN "broadcast" ELSE "announce", task[t].quote)
  /\ UNCHANGED <<position, recent, built, shown>>

(* The end of _handle_quote_update, and its exceptions: those of a message *)
(* are lost with its coroutine, those of the polling task are caught.      *)
HandlerReturns(t) ==
  /\ IF t = Poll THEN PollNext ELSE Goto(t, "idle", NoQuote) /\ UNCHANGED position
  /\ UNCHANGED <<cache, call>>

HandlerRaises(t) ==
  IF t = Poll THEN MarkIfOverdue ELSE HandlerReturns(t)

BroadcastDone(t) ==
  /\ task[t].pc = "broadcast"
  /\ \/ /\ shown' = shown \union {task[t].quote.symbol}
        /\ Goto(t, "push", task[t].quote)
        /\ UNCHANGED <<cache, call, position>>
     \/ HandlerRaises(t) /\ UNCHANGED shown
  /\ UNCHANGED <<recent, built>>

Pushed(t) ==
  /\ task[t].pc = "push"
  /\ HandlerReturns(t) \/ HandlerRaises(t)
  /\ UNCHANGED <<recent, built, shown>>

---------------------------------------------------------------------------
(* A request reads the quote of a symbol, as a pre-trade check does.       *)
BeginRead ==
  /\ task[Reader].pc = "idle"
  /\ ~Down(cache)
  /\ \E s \in Symbols : Send(Reader, "get sent", s, NoQuote)
  /\ Goto(Reader, "get", NoQuote)
  /\ UNCHANGED <<cache, position, recent, built, shown>>

EndRead ==
  /\ task[Reader].pc = "get"
  /\ \E outcome \in GetOutcomes(Reader) : cache' = outcome.now
  /\ call' = [call EXCEPT ![Reader] = NoCall]
  /\ Goto(Reader, "idle", NoQuote)
  /\ UNCHANGED <<position, recent, built, shown>>

(* Redis, and time.                                                        *)
RedisStep(t) ==
  (RedisStores(t) \/ RedisAnswers(t)) /\ UNCHANGED feed

GrowsStale(s) ==
  /\ recent' = recent \ {s}
  /\ UNCHANGED <<cache, call, task, position, built, shown>>

Resume(t) == RedisStep(t) \/ SetDone(t) \/ BroadcastDone(t) \/ Pushed(t)
PollStep  == PollAnswers \/ PollFails \/ MarkAfterGet \/ Announced \/ Resume(Poll)

Next ==
  \/ \E m \in Messages : OnMessage(m) \/ StartMessage(m) \/ Resume(m)
  \/ PollStep
  \/ BeginRead \/ EndRead \/ RedisStep(Reader)
  \/ \E s \in recent : GrowsStale(s)

(* The loop resumes every task, Redis answers or fails, time passes.       *)
Fairness ==
  /\ \A m \in Messages : WF_vars(StartMessage(m) \/ Resume(m))
  /\ WF_vars(PollStep)
  /\ WF_vars(EndRead \/ RedisStep(Reader))
  /\ \A s \in Symbols : WF_vars(s \in recent /\ GrowsStale(s))

Spec == Init /\ [][Next]_vars /\ Fairness
---------------------------------------------------------------------------
(* The cache and every task have their types; a task awaits the cache      *)
(* exactly while its call is under way.                                    *)
Quotes == [id : 0..MaxQuotes, symbol : Symbols, stale : BOOLEAN]
TypeOK ==
  /\ \A s \in Symbols : {cache.memory[s], cache.redis[s]} \subseteq Quotes \union {NoQuote}
  /\ cache.available \in {"unknown", "yes", "no"}
  /\ \A t \in Callers : call[t] # NoCall <=> task[t].pc \in {"set", "mark", "get"}
  /\ position \in DOMAIN Watchlist /\ recent \subseteq Symbols

(* What clients have been shown can be read back: once a quote of a symbol *)
(* was broadcast, no get_quote comes back empty, whatever Redis does.  An  *)
(* order of a symbol on the screen is not rejected for want of a quote.    *)
ShownCanBeRead ==
  \A s \in shown :
    /\ Visible(s) # NoQuote
    /\ \A c \in Callers : call[c].symbol = s =>
         \A outcome \in GetOutcomes(c) : outcome.quote # NoQuote

(* A symbol whose polls keep failing ends up flagged in what readers of    *)
(* the cache see, whatever Redis did to the quote and to the flag before   *)
(* it came to rest, up or down, unless polling has died.                   *)
PollFailsFor(s) == Polled = s /\ PollFails
RedisSettles == <>[](cache.available = "no") \/ <>[](cache.available # "no")
SilenceIsFlagged ==
  \A s \in Symbols :
    RedisSettles /\ []<><<PollFailsFor(s)>>_vars =>
      <>[](task[Poll].pc = "dead" \/ Visible(s) = NoQuote \/ Visible(s).stale)

(* "One symbol failing (rate limit, transient network error) must not      *)
(* block the rest of the watchlist from refreshing." (upstox.py:256)       *)
PollSurvives == task[Poll].pc # "dead"
=============================================================================
