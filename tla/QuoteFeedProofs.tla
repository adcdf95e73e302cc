---------------------------- MODULE QuoteFeedProofs ----------------------------
(***************************************************************************)
(* The proofs about QuoteFeed: the types, and that what clients were shown *)
(* can be read back.  The second needs to know, at every await of every    *)
(* task, that the quote the task is about to show is in memory already.    *)
(* Each lemma below Others(t) is about one stretch of a task; Goes(t) is   *)
(* what every such stretch guarantees.                                     *)
(***************************************************************************)
EXTENDS QuoteFeed, TLAPS

(* What a read of one symbol can find; then the types of the cache, of a   *)
(* call to Redis and of a task.                                            *)
Found       == Quotes \union {NoQuote}
CacheStates == [memory : [Symbols -> Found], redis : [Symbols -> Found],
                available : {"unknown", "yes", "no"}]
Calls       == [pc : {"none", "set sent", "set applied", "get sent", "get answered"},
                symbol : Symbols \union {NoQuote}, quote : Found]
Tasks       == [pc : {"idle", "posted", "fetch", "get", "set", "broadcast", "push",
                      "mark", "announce", "dead"},
                quote : Found]

(* Every variable has its type.                                            *)
Typed ==
  /\ cache \in CacheStates
  /\ call \in [Callers -> Calls]
  /\ task \in [Callers -> Tasks]
  /\ position \in 1..Len(Watchlist)
  /\ recent \subseteq Symbols /\ shown \subseteq Symbols
  /\ built \in 0..MaxQuotes

(* At these places of its code a task holds the quote it is handling.      *)
Carrying == {"posted", "set", "broadcast", "push", "mark", "announce"}
(* A task at an await of set_quote or get_quote has a call under way, any  *)
(* other has none; and a task that has cached its quote and not yet shown  *)
(* it finds something in memory under that symbol.                         *)
Awaiting(t) ==
  /\ task[t].pc \in {"set", "mark"} => call[t].pc \in {"set sent", "set applied"}
  /\ task[t].pc = "get" => call[t].pc \in {"get sent", "get answered"}
  /\ task[t].pc \notin {"set", "mark", "get"} => call[t] = NoCall
  /\ call[t].pc # "none" => call[t].symbol \in Symbols
  /\ task[t].pc \in Carrying => task[t].quote \in Quotes
  /\ task[t].pc \in {"set", "broadcast"} => cache.memory[task[t].quote.symbol] # NoQuote

(* The memory holds a quote of every symbol clients were shown: _memory is *)
(* written before Redis and nothing ever removes an entry of it.           *)
Known == \A s \in shown : cache.memory[s] # NoQuote
(* The inductive invariant.                                                *)
Remembered == Typed /\ (\A t \in Callers : Awaiting(t)) /\ Known

(* No quote is the None that get_quote returns, and every quote is of a    *)
(* symbol.                                                                 *)
LEMMA NoQuoteDiffers ==
  NoQuote \notin Quotes /\ \A q \in Quotes : q # NoQuote /\ q.symbol \in Symbols
<1>1. Quotes \subseteq [id : Nat, symbol : Symbols, stale : BOOLEAN]
  BY QuotesAssumption DEF Quotes
<1>2. \A q \in Quotes : q.symbol \in Symbols
  BY DEF Quotes
<1> QED BY <1>1, <1>2, QuotesAssumption

(* The state of a task that has no call under way is a call state.         *)
LEMMA NoCallTyped == NoCall \in Calls /\ NoCall.pc = "none"
BY DEF NoCall, Calls, Found

(* The poll walks round the watchlist: the place it polls and the one it   *)
(* goes to hold symbols.                                                   *)
LEMMA NextPositionTyped ==
  ASSUME Typed
  PROVE  Polled \in Symbols /\ NextPosition \in 1..Len(Watchlist)
<1>1. Len(Watchlist) \in Nat /\ Len(Watchlist) >= 1 /\ Watchlist \in Seq(Symbols)
  BY WatchlistAssumption
<1>2. position \in 1..Len(Watchlist)
  BY DEF Typed
<1> QED BY <1>1, <1>2 DEF Polled, NextPosition

(* A step of one task leaves the others where they are, and no symbol      *)
(* loses its last quote in memory.                                         *)
Others(t) == \A u \in Callers \ {t} : task'[u] = task[u] /\ call'[u] = call[u]
Keeps(memory, later) == \A s \in Symbols : memory[s] # NoQuote => later[s] # NoQuote

(* A step of one task that keeps the types, leaves that task where it      *)
(* should be and forgets nothing keeps the invariant: what another task    *)
(* has cached is still found.                                              *)
LEMMA StepOf ==
  ASSUME Remembered, NEW t \in Callers, Typed', Others(t), Awaiting(t)',
         Keeps(cache.memory, cache'.memory), Known'
  PROVE  Remembered'
<1>1. ASSUME NEW u \in Callers \ {t} PROVE Awaiting(u)'
  <2>1. Awaiting(u) /\ task'[u] = task[u] /\ call'[u] = call[u]
    BY DEF Remembered, Others
  <2>2. task[u].pc \in {"set", "broadcast"} => task[u].quote.symbol \in Symbols
    BY <2>1, NoQuoteDiffers DEF Awaiting, Carrying
  <2> QED BY <2>1, <2>2 DEF Awaiting, Keeps
<1> QED BY <1>1 DEF Remembered

(* A step that forgets nothing and shows nothing keeps what was shown in   *)
(* memory.                                                                 *)
LEMMA KnownKept ==
  ASSUME Remembered, Keeps(cache.memory, cache'.memory), shown' = shown
  PROVE  Known'
BY DEF Remembered, Typed, Known, Keeps

(* Goto moves one task, to the place and with the quote it names.          *)
LEMMA GotoEffect ==
  ASSUME Typed, NEW t \in Callers, NEW pc, NEW quote \in Found, At(pc, quote) \in Tasks,
         Goto(t, pc, quote)
  PROVE  /\ task' \in [Callers -> Tasks]
         /\ task'[t].pc = pc /\ task'[t].quote = quote
         /\ \A u \in Callers \ {t} : task'[u] = task[u]
BY DEF Typed, Goto, At, Tasks

(* The places of the code, with a quote or with none, are states of a      *)
(* task.                                                                   *)
LEMMA AtTyped ==
  /\ \A pc \in {"idle", "posted", "fetch", "get", "set", "broadcast", "push", "mark",
                "announce", "dead"}, quote \in Found : At(pc, quote) \in Tasks
  /\ NoQuote \in Found /\ Quotes \subseteq Found
BY DEF At, Tasks, Found

(* Beginning or ending a call is typed and changes only the call of its    *)
(* task.                                                                   *)
LEMMA CallEffect ==
  ASSUME Typed, NEW t \in Callers, NEW new \in Calls, call' = [call EXCEPT ![t] = new]
  PROVE  /\ call' \in [Callers -> Calls] /\ call'[t] = new
         /\ \A u \in Callers \ {t} : call'[u] = call[u]
BY DEF Typed

(* A request on its way to Redis: typed, of the symbol it names, and of    *)
(* one task only.                                                          *)
LEMMA SendEffect ==
  ASSUME Typed, NEW t \in Callers, NEW op \in {"set sent", "get sent"}, NEW s \in Symbols,
         NEW quote \in Found, Send(t, op, s, quote)
  PROVE  /\ call' \in [Callers -> Calls] /\ call'[t].pc = op /\ call'[t].symbol = s
         /\ \A u \in Callers \ {t} : call'[u] = call[u]
<1>1. PICK new : new = [pc |-> op, symbol |-> s, quote |-> quote]
  OBVIOUS
<1>2. new \in Calls /\ new.pc = op /\ new.symbol = s
  BY <1>1 DEF Calls
<1>3. call' = [call EXCEPT ![t] = new]
  BY <1>1 DEF Send
<1> QED BY <1>2, <1>3, CallEffect

(* What a step of t does to t and to the cache.                            *)
Goes(t) ==
  /\ cache' \in CacheStates /\ call' \in [Callers -> Calls] /\ task' \in [Callers -> Tasks]
  /\ Others(t) /\ Awaiting(t)' /\ Keeps(cache.memory, cache'.memory)

(* set_quote up to its await: the memory holds the quote whether Redis is  *)
(* asked or not, and the task is where its call says.                      *)
LEMMA SetThenGoes ==
  ASSUME Remembered, NEW t \in Callers, NEW now \in CacheStates, now.memory = cache.memory,
         NEW quote \in Quotes, NEW awaiting \in {"set", "mark"},
         NEW done \in {"broadcast", "announce"},
         SetThen(t, now, quote, awaiting, done)
  PROVE  Goes(t)
<1>1. PICK after : after = Remember(now, quote)
  OBVIOUS
<1>2. quote.symbol \in Symbols /\ quote # NoQuote /\ quote \in Found
  BY NoQuoteDiffers, AtTyped
<1>3. /\ after \in CacheStates /\ after.memory[quote.symbol] = quote
      /\ Keeps(cache.memory, after.memory)
  BY <1>1, <1>2 DEF Remember, CacheStates, Keeps
<1>4. cache' = after
  BY <1>1 DEF SetThen
<1>5. CASE Down(after)
  <2>1. call' = [call EXCEPT ![t] = NoCall] /\ Goto(t, done, quote)
    BY <1>1, <1>5 DEF SetThen
  <2>2. At(done, quote) \in Tasks /\ Typed
    BY <1>2, AtTyped DEF Remembered
  <2>3. /\ task' \in [Callers -> Tasks] /\ task'[t].pc = done /\ task'[t].quote = quote
        /\ \A u \in Callers \ {t} : task'[u] = task[u]
    BY <1>2, <2>1, <2>2, GotoEffect
  <2>4. /\ call' \in [Callers -> Calls] /\ call'[t] = NoCall
        /\ \A u \in Callers \ {t} : call'[u] = call[u]
    BY <2>1, <2>2, NoCallTyped, CallEffect
  <2> QED BY <1>2, <1>3, <1>4, <2>3, <2>4, NoCallTyped DEF Goes, Others, Awaiting
<1>6. CASE ~Down(after)
  <2>1. Send(t, "set sent", quote.symbol, quote) /\ Goto(t, awaiting, quote)
    BY <1>1, <1>6 DEF SetThen
  <2>2. At(awaiting, quote) \in Tasks /\ Typed
    BY <1>2, AtTyped DEF Remembered
  <2>3. /\ task' \in [Callers -> Tasks] /\ task'[t].pc = awaiting /\ task'[t].quote = quote
        /\ \A u \in Callers \ {t} : task'[u] = task[u]
    BY <1>2, <2>1, <2>2, GotoEffect
  <2>4. /\ call' \in [Callers -> Calls]
        /\ call'[t].pc = "set sent" /\ call'[t].symbol = quote.symbol
        /\ \A u \in Callers \ {t} : call'[u] = call[u]
    BY <1>2, <2>1, <2>2, SendEffect
  <2> QED BY <1>2, <1>3, <1>4, <2>3, <2>4 DEF Goes, Others, Awaiting
<1> QED BY <1>5, <1>6

(* A task whose call is over, or that had none, goes on.                   *)
LEMMA GoesOn ==
  ASSUME Remembered, NEW t \in Callers, NEW quote \in Found,
         NEW pc \in {"idle", "posted", "fetch", "push", "announce", "dead"},
         pc \in Carrying => quote \in Quotes,
         cache' \in CacheStates, cache'.memory = cache.memory,
         call' = [call EXCEPT ![t] = NoCall] \/ (UNCHANGED call /\ call[t] = NoCall),
         Goto(t, pc, quote)
  PROVE  Goes(t)
<1>1. At(pc, quote) \in Tasks /\ Typed
  BY AtTyped DEF Remembered
<1>2. /\ task' \in [Callers -> Tasks] /\ task'[t].pc = pc /\ task'[t].quote = quote
      /\ \A u \in Callers \ {t} : task'[u] = task[u]
  BY <1>1, GotoEffect
<1>3. /\ call' \in [Callers -> Calls] /\ call'[t] = NoCall
      /\ \A u \in Callers \ {t} : call'[u] = call[u]
  BY <1>1, NoCallTyped, CallEffect DEF Typed
<1> QED BY <1>2, <1>3, NoCallTyped DEF Goes, Others, Awaiting, Keeps

(* get_quote up to its await changes nothing but its own task and call.    *)
LEMMA BeginsGet ==
  ASSUME Remembered, NEW t \in Callers, NEW s \in Symbols,
         Send(t, "get sent", s, NoQuote), Goto(t, "get", NoQuote), UNCHANGED cache
  PROVE  Goes(t)
<1>1. At("get", NoQuote) \in Tasks /\ Typed /\ NoQuote \in Found
  BY AtTyped DEF Remembered
<1>2. /\ task' \in [Callers -> Tasks] /\ task'[t].pc = "get"
      /\ \A u \in Callers \ {t} : task'[u] = task[u]
  BY <1>1, GotoEffect
<1>3. /\ call' \in [Callers -> Calls] /\ call'[t].pc = "get sent" /\ call'[t].symbol = s
      /\ \A u \in Callers \ {t} : call'[u] = call[u]
  BY <1>1, SendEffect
<1> QED BY <1>1, <1>2, <1>3 DEF Goes, Others, Awaiting, Keeps, Carrying, Typed

(* The end of get_quote: the memory is as it was, and a symbol the memory  *)
(* knows is never answered with None, whatever Redis said.                 *)
LEMMA GetReturns ==
  ASSUME Typed, NEW t \in Callers, call[t].pc # "none" => call[t].symbol \in Symbols,
         NEW outcome \in GetOutcomes(t)
  PROVE  /\ outcome.now \in CacheStates /\ outcome.now.memory = cache.memory
         /\ outcome.quote \in Found
         /\ call[t].symbol \in Symbols
         /\ cache.memory[call[t].symbol] # NoQuote => outcome.quote # NoQuote
<1> DEFINE answer == call[t].quote
           own    == cache.memory[call[t].symbol]
           failed == [now |-> [cache EXCEPT !.available = "no"], quote |-> own]
           hit    == [now |-> [cache EXCEPT !.available = "yes"], quote |-> answer]
           miss   == [now |-> cache, quote |-> own]
<1>1. call[t].pc \in {"get sent", "get answered"}
  BY DEF GetOutcomes
<1>2. call[t].symbol \in Symbols /\ answer \in Found /\ own \in Found
  BY <1>1 DEF Typed, Calls, CacheStates
<1>3. outcome = failed \/ outcome = miss \/ (outcome = hit /\ answer # NoQuote)
  BY <1>1 DEF GetOutcomes
<1>4. ASSUME NEW a \in {"yes", "no"}
      PROVE  /\ [cache EXCEPT !.available = a] \in CacheStates
             /\ [cache EXCEPT !.available = a].memory = cache.memory
  BY DEF Typed, CacheStates
<1>5. CASE outcome = failed
  BY <1>2, <1>4, <1>5
<1>6. CASE outcome = miss
  BY <1>2, <1>6 DEF Typed
<1>7. CASE outcome = hit /\ answer # NoQuote
  BY <1>2, <1>4, <1>7
<1> QED BY <1>3, <1>5, <1>6, <1>7

(* The end of set_quote may change what is thought of Redis, never the     *)
(* memory.                                                                 *)
LEMMA SetReturns ==
  ASSUME Typed, NEW t \in Callers, NEW now \in SetOutcomes(t)
  PROVE  now \in CacheStates /\ now.memory = cache.memory
BY DEF Typed, SetOutcomes, CacheStates

(* _mark_stale_if_overdue with the quote the cache returned: the flagged   *)
(* quote replaces one of the same symbol, and the poll goes on within its  *)
(* watchlist.                                                              *)
LEMMA MarksStale ==
  ASSUME Remembered, Poll \in Callers, NEW now \in CacheStates, now.memory = cache.memory,
         NEW quote \in Found, MarkStale(now, quote)
  PROVE  Goes(Poll) /\ position' \in 1..Len(Watchlist)
<1>0. Typed /\ NoQuote \in Found
  BY AtTyped DEF Remembered
<1>1. CASE quote = NoQuote \/ quote.stale
  <2>1. cache' = now /\ call' = [call EXCEPT ![Poll] = NoCall] /\ PollNext
    BY <1>1 DEF MarkStale
  <2> QED BY <1>0, <2>1, GoesOn, NextPositionTyped DEF PollNext, Carrying
<1>2. CASE ~(quote = NoQuote \/ quote.stale)
  <2>1. PICK flagged : flagged = [quote EXCEPT !.stale = TRUE]
    OBVIOUS
  <2>2. flagged \in Quotes
    BY <1>2, <2>1 DEF Found, Quotes
  <2>3. SetThen(Poll, now, flagged, "mark", "announce") /\ UNCHANGED position
    BY <1>2, <2>1 DEF MarkStale
  <2> QED BY <1>0, <2>2, <2>3, SetThenGoes DEF Typed
<1> QED BY <1>1, <1>2

(* A poll that failed: the next symbol, the flag at once, or a read of the *)
(* cache first.                                                            *)
LEMMA MarksIfOverdue ==
  ASSUME Remembered, Poll \in Callers, call[Poll] = NoCall, MarkIfOverdue
  PROVE  Goes(Poll) /\ position' \in 1..Len(Watchlist)
<1>0. Typed /\ NoQuote \in Found /\ cache \in CacheStates /\ position \in 1..Len(Watchlist)
  BY AtTyped DEF Remembered, Typed
<1>1. CASE PollNext /\ UNCHANGED <<cache, call>>
  BY <1>0, <1>1, GoesOn, NextPositionTyped DEF PollNext, Carrying
<1>2. CASE MarkStale(cache, cache.memory[Polled])
  BY <1>0, <1>2, MarksStale, NextPositionTyped DEF CacheStates
<1>3. CASE Send(Poll, "get sent", Polled, NoQuote) /\ Goto(Poll, "get", NoQuote)
           /\ UNCHANGED <<cache, position>>
  BY <1>0, <1>3, BeginsGet, NextPositionTyped
<1> QED BY <1>1, <1>2, <1>3 DEF MarkIfOverdue

(* A provider that has just connected satisfies the invariant, whatever an *)
(* earlier process left in Redis.                                          *)
LEMMA InitRemembered == Init => Remembered
<1> SUFFICES ASSUME Init PROVE Remembered
  OBVIOUS
<1>1. NoQuote \in Found /\ \A s \in Symbols : OldQuote(s) \in Found
  BY QuotesAssumption DEF Found, OldQuote, Quotes
<1>2. cache \in CacheStates
  <2>1. PICK kept \in SUBSET Symbols :
          cache = [memory    |-> [s \in Symbols |-> NoQuote],
                   redis     |-> [s \in Symbols |->
                                   IF s \in kept THEN [x \in Symbols |-> OldQuote(x)][s]
                                   ELSE NoQuote],
                   available |-> "unknown"]
    BY DEF Init, CacheInit
  <2> QED BY <1>1, <2>1 DEF CacheStates
<1>3. /\ call \in [Callers -> Calls] /\ \A t \in Callers : call[t] = NoCall
  BY NoCallTyped DEF Init, CacheInit
<1>4. /\ task \in [Callers -> Tasks]
      /\ \A t \in Callers : task[t].pc \in {"fetch", "idle"}
  BY AtTyped DEF Init, At
<1>5. position \in 1..Len(Watchlist) /\ recent = {} /\ shown = {} /\ built \in 0..MaxQuotes
  BY WatchlistAssumption, QuotesAssumption DEF Init
<1> QED BY <1>2, <1>3, <1>4, <1>5, NoCallTyped DEF Remembered, Typed, Awaiting, Known, Carrying

(* The polling task, the reader and the messages are different tasks.      *)
LEMMA TasksTyped ==
  /\ Poll \in Callers /\ Reader \in Callers /\ Messages \subseteq Callers
  /\ Poll # Reader /\ Poll \notin Messages /\ Reader \notin Messages
BY CallersAssumption, TasksAssumption

(* Every step of the feed keeps the invariant: one case per action.        *)
LEMMA StepRemembered == Remembered /\ [Next]_vars => Remembered'
<1> SUFFICES ASSUME Remembered, [Next]_vars PROVE Remembered'
  OBVIOUS
<1> USE TasksTyped
<1>0. Typed /\ NoQuote \in Found /\ Quotes \subseteq Found /\ cache \in CacheStates
  BY AtTyped DEF Remembered, Typed
<1>g. ASSUME NEW t \in Callers, Goes(t), position' \in 1..Len(Watchlist),
             recent' \subseteq Symbols, built' \in 0..MaxQuotes, UNCHANGED shown
      PROVE  Remembered'
  <2>1. Typed'
    BY <1>0, <1>g DEF Typed, Goes
  <2> QED BY <1>g, <2>1, StepOf, KnownKept DEF Goes
<1>q. ASSUME NEW s \in Symbols, built < MaxQuotes
      PROVE  /\ NewQuote(s) \in Quotes /\ NewQuote(s).symbol = s
             /\ built + 1 \in 0..MaxQuotes
  BY <1>0, <1>q, QuotesAssumption DEF NewQuote, Quotes, Typed
<1>h. ASSUME NEW t \in Callers, NEW quote \in Quotes, HandleUpdate(t, quote)
      PROVE  Goes(t) /\ recent' \subseteq Symbols
  <2>1. quote.symbol \in Symbols /\ recent' = recent \union {quote.symbol}
    BY <1>h, NoQuoteDiffers DEF HandleUpdate
  <2> QED BY <1>0, <1>h, <2>1, SetThenGoes DEF HandleUpdate, Typed
<1>r. ASSUME NEW t \in Callers, HandlerReturns(t), call[t] = NoCall
      PROVE  Goes(t) /\ position' \in 1..Len(Watchlist)
  BY <1>0, <1>r, GoesOn, NextPositionTyped DEF HandlerReturns, PollNext, Typed, Carrying
<1>s. ASSUME NEW t \in Callers, HandlerRaises(t), call[t] = NoCall
      PROVE  Goes(t) /\ position' \in 1..Len(Watchlist)
  BY <1>r, <1>s, MarksIfOverdue DEF HandlerRaises
<1>1. ASSUME NEW m \in Messages, OnMessage(m) PROVE Remembered'
  <2>1. PICK s \in Symbols : Goto(m, "posted", NewQuote(s))
    BY <1>1 DEF OnMessage
  <2>2. /\ built < MaxQuotes /\ built' = built + 1 /\ task[m].pc = "idle"
        /\ UNCHANGED <<cache, call, position, recent, shown>>
    BY <1>1 DEF OnMessage
  <2>3. call[m] = NoCall
    BY <2>2 DEF Remembered, Awaiting
  <2>4. Goes(m)
    BY <1>0, <1>q, <2>1, <2>2, <2>3, GoesOn
  <2> QED BY <1>0, <1>g, <1>q, <2>1, <2>2, <2>4 DEF Typed
<1>2. ASSUME NEW m \in Messages, StartMessage(m) PROVE Remembered'
  <2>1. /\ task[m].quote \in Quotes /\ HandleUpdate(m, task[m].quote)
        /\ UNCHANGED <<position, built, shown>>
    BY <1>2 DEF StartMessage, Remembered, Awaiting, Carrying
  <2> QED BY <1>0, <1>g, <1>h, <2>1 DEF Typed
<1>3. ASSUME NEW t \in Callers, RedisStep(t) PROVE Remembered'
  <2>1. /\ call[t].pc \in {"set sent", "get sent"} /\ UNCHANGED feed
        /\ call[t].symbol \in Symbols /\ call[t] \in Calls
    BY <1>0, <1>3 DEF RedisStep, RedisStores, RedisAnswers, Remembered, Awaiting, Typed
  <2>2. CASE RedisStores(t)
    <3>1. PICK new : new = [call[t] EXCEPT !.pc = "set applied"]
      OBVIOUS
    <3>2. /\ new \in Calls /\ new.pc = "set applied" /\ new.symbol = call[t].symbol
          /\ call[t].pc = "set sent"
      BY <2>1, <2>2, <3>1 DEF Calls, RedisStores
    <3>3. call' = [call EXCEPT ![t] = new]
      BY <1>0, <2>2, <3>1 DEF RedisStores, Typed
    <3>4. /\ call' \in [Callers -> Calls] /\ call'[t] = new
          /\ \A u \in Callers \ {t} : call'[u] = call[u]
      BY <1>0, <3>2, <3>3, CallEffect
    <3>5. cache' \in CacheStates /\ cache'.memory = cache.memory
      BY <1>0, <2>1, <2>2 DEF RedisStores, CacheStates, Calls
    <3>6. Goes(t)
      BY <1>0, <2>1, <3>2, <3>4, <3>5, NoCallTyped
         DEF Goes, Others, Awaiting, Keeps, feed, Remembered, Typed
    <3> QED BY <1>0, <1>g, <2>1, <3>6 DEF Typed, feed
  <2>3. CASE RedisAnswers(t)
    <3>1. PICK new : new = [call[t] EXCEPT !.pc = "get answered",
                                           !.quote = cache.redis[call[t].symbol]]
      OBVIOUS
    <3>2. /\ new \in Calls /\ new.pc = "get answered" /\ new.symbol = call[t].symbol
          /\ call[t].pc = "get sent"
      BY <1>0, <2>1, <2>3, <3>1 DEF Calls, CacheStates, RedisAnswers
    <3>3. call' = [call EXCEPT ![t] = new] /\ UNCHANGED cache
      BY <1>0, <2>3, <3>1 DEF RedisAnswers, Typed
    <3>4. /\ call' \in [Callers -> Calls] /\ call'[t] = new
          /\ \A u \in Callers \ {t} : call'[u] = call[u]
      BY <1>0, <3>2, <3>3, CallEffect
    <3>6. Goes(t)
      BY <1>0, <2>1, <3>2, <3>3, <3>4, NoCallTyped
         DEF Goes, Others, Awaiting, Keeps, feed, Remembered, Typed
    <3> QED BY <1>0, <1>g, <2>1, <3>6 DEF Typed, feed
  <2> QED BY <1>3, <2>2, <2>3 DEF RedisStep
<1>4. ASSUME NEW t \in Callers, SetDone(t) PROVE Remembered'
  <2>1. /\ task[t].pc \in {"set", "mark"} /\ task[t].quote \in Quotes
        /\ task[t].pc = "set" => cache.memory[task[t].quote.symbol] # NoQuote
    BY <1>4 DEF SetDone, Remembered, Awaiting, Carrying
  <2>2. PICK now \in SetOutcomes(t) : cache' = now
    BY <1>4 DEF SetDone
  <2>3. cache' \in CacheStates /\ cache'.memory = cache.memory
    BY <1>0, <2>2, SetReturns
  <2>4. PICK pc : pc = IF task[t].pc = "set" THEN "broadcast" ELSE "announce"
    OBVIOUS
  <2>5. PICK quote : quote = task[t].quote
    OBVIOUS
  <2>6. /\ call' = [call EXCEPT ![t] = NoCall] /\ Goto(t, pc, quote)
        /\ UNCHANGED <<position, recent, built, shown>>
    BY <1>4, <2>4, <2>5 DEF SetDone
  <2>7. At(pc, quote) \in Tasks /\ quote \in Found
    BY <1>0, <2>1, <2>4, <2>5, AtTyped
  <2>8. /\ task' \in [Callers -> Tasks] /\ task'[t].pc = pc /\ task'[t].quote = quote
        /\ \A u \in Callers \ {t} : task'[u] = task[u]
    BY <1>0, <2>6, <2>7, GotoEffect
  <2>9. /\ call' \in [Callers -> Calls] /\ call'[t] = NoCall
        /\ \A u \in Callers \ {t} : call'[u] = call[u]
    BY <1>0, <2>6, NoCallTyped, CallEffect
  <2>10. Goes(t)
    BY <2>1, <2>3, <2>4, <2>5, <2>8, <2>9, NoCallTyped DEF Goes, Others, Awaiting, Keeps
  <2> QED BY <1>0, <1>g, <2>6, <2>10 DEF Typed
<1>5. ASSUME NEW t \in Callers, BroadcastDone(t) PROVE Remembered'
  <2>1. /\ task[t].pc = "broadcast" /\ UNCHANGED <<recent, built>> /\ call[t] = NoCall
        /\ task[t].quote \in Quotes /\ cache.memory[task[t].quote.symbol] # NoQuote
    BY <1>5 DEF BroadcastDone, Remembered, Awaiting, Carrying
  <2>2. CASE /\ shown' = shown \union {task[t].quote.symbol}
             /\ Goto(t, "push", task[t].quote)
             /\ UNCHANGED <<cache, call, position>>
    <3>1. Goes(t)
      BY <1>0, <2>1, <2>2, GoesOn
    <3>2. Typed'
      BY <1>0, <2>1, <2>2, <3>1, NoQuoteDiffers DEF Goes, Typed
    <3>3. Known'
      BY <2>1, <2>2 DEF Remembered, Known
    <3> QED BY <3>1, <3>2, <3>3, StepOf DEF Goes
  <2>3. CASE HandlerRaises(t) /\ UNCHANGED shown
    BY <1>0, <1>g, <1>s, <2>1, <2>3 DEF Typed
  <2> QED BY <1>5, <2>2, <2>3 DEF BroadcastDone
<1>6. ASSUME NEW t \in Callers, Pushed(t) PROVE Remembered'
  <2>1. /\ UNCHANGED <<recent, built, shown>> /\ call[t] = NoCall
        /\ HandlerReturns(t) \/ HandlerRaises(t)
    BY <1>6 DEF Pushed, Remembered, Awaiting
  <2> QED BY <1>0, <1>g, <1>r, <1>s, <2>1 DEF Typed
<1>7. CASE PollAnswers
  <2>1. task[Poll].pc = "fetch" /\ UNCHANGED shown /\ call[Poll] = NoCall
    BY <1>7 DEF PollAnswers, Remembered, Awaiting
  <2>2. CASE /\ built < MaxQuotes /\ HandleUpdate(Poll, NewQuote(Polled))
             /\ built' = built + 1 /\ UNCHANGED position
    <3>1. NewQuote(Polled) \in Quotes /\ built' \in 0..MaxQuotes
      BY <1>0, <1>q, <2>2, NextPositionTyped
    <3> QED BY <1>0, <1>g, <1>h, <2>1, <2>2, <3>1 DEF Typed
  <2>3. CASE PollNext /\ UNCHANGED <<cache, call, recent, built>>
    <3>1. Goes(Poll) /\ position' \in 1..Len(Watchlist)
      BY <1>0, <2>1, <2>3, GoesOn, NextPositionTyped DEF PollNext, Carrying
    <3> QED BY <1>0, <1>g, <2>1, <2>3, <3>1 DEF Typed
  <2> QED BY <1>7, <2>2, <2>3 DEF PollAnswers
<1>8. CASE PollFails
  <2>1. /\ call[Poll] = NoCall /\ MarkIfOverdue /\ UNCHANGED <<recent, built, shown>>
    BY <1>8 DEF PollFails, Remembered, Awaiting
  <2> QED BY <1>0, <1>g, <2>1, MarksIfOverdue DEF Typed
<1>9. CASE MarkAfterGet
  <2>1. PICK outcome \in GetOutcomes(Poll) : MarkStale(outcome.now, outcome.quote)
    BY <1>9 DEF MarkAfterGet
  <2>2. call[Poll].pc # "none" => call[Poll].symbol \in Symbols
    BY DEF Remembered, Awaiting
  <2>3. /\ outcome.now \in CacheStates /\ outcome.now.memory = cache.memory
        /\ outcome.quote \in Found /\ UNCHANGED <<recent, built, shown>>
    BY <1>0, <1>9, <2>1, <2>2, GetReturns DEF MarkAfterGet
  <2> QED BY <1>0, <1>g, <2>1, <2>3, MarksStale DEF Typed
<1>10. CASE Announced
  <2>1. /\ UNCHANGED <<cache, call, recent, built, shown>> /\ call[Poll] = NoCall
        /\ PollNext \/ (Goto(Poll, "dead", NoQuote) /\ UNCHANGED position)
    BY <1>10 DEF Announced, Remembered, Awaiting
  <2>2. Goes(Poll) /\ position' \in 1..Len(Watchlist)
    BY <1>0, <2>1, GoesOn, NextPositionTyped DEF PollNext, Carrying, Typed
  <2> QED BY <1>0, <1>g, <2>1, <2>2 DEF Typed
<1>11. CASE BeginRead
  <2>1. PICK s \in Symbols : Send(Reader, "get sent", s, NoQuote)
    BY <1>11 DEF BeginRead
  <2>2. Goto(Reader, "get", NoQuote) /\ UNCHANGED <<cache, position, recent, built, shown>>
    BY <1>11 DEF BeginRead
  <2> QED BY <1>0, <1>g, <2>1, <2>2, BeginsGet DEF Typed
<1>12. CASE EndRead
  <2>1. PICK outcome \in GetOutcomes(Reader) : cache' = outcome.now
    BY <1>12 DEF EndRead
  <2>2. call[Reader].pc # "none" => call[Reader].symbol \in Symbols
    BY DEF Remembered, Awaiting
  <2>3. /\ cache' \in CacheStates /\ cache'.memory = cache.memory
        /\ call' = [call EXCEPT ![Reader] = NoCall] /\ Goto(Reader, "idle", NoQuote)
        /\ UNCHANGED <<position, recent, built, shown>>
    BY <1>0, <1>12, <2>1, <2>2, GetReturns DEF EndRead
  <2>4. Goes(Reader)
    BY <1>0, <2>3, GoesOn DEF Carrying
  <2> QED BY <1>0, <1>g, <2>3, <2>4 DEF Typed
<1>13. ASSUME NEW s \in recent, GrowsStale(s) PROVE Remembered'
  BY <1>0, <1>13 DEF GrowsStale, Remembered, Typed, Awaiting, Known
<1>14. CASE UNCHANGED vars
  BY <1>14 DEF vars, Remembered, Typed, Awaiting, Known
<1> QED
  <2>1. ASSUME NEW t \in Callers, Resume(t) PROVE Remembered'
    BY <2>1, <1>3, <1>4, <1>5, <1>6 DEF Resume
  <2> QED BY <2>1, <1>1, <1>2, <1>3, <1>7, <1>8, <1>9, <1>10, <1>11, <1>12, <1>13, <1>14
          DEF Next, PollStep

(* The type invariant holds for every watchlist and any number of          *)
(* messages; its third part says that a task awaits the cache exactly      *)
(* while its call is under way.                                            *)
THEOREM QuoteFeedTyped == Spec => []TypeOK
<1>1. Remembered => TypeOK
  <2> SUFFICES ASSUME Remembered PROVE TypeOK
    OBVIOUS
  <2>1. Typed
    BY DEF Remembered
  <2>2. \A s \in Symbols : {cache.memory[s], cache.redis[s]} \subseteq Quotes \union {NoQuote}
    BY <2>1 DEF Typed, CacheStates, Found
  <2>3. \A t \in Callers : call[t] # NoCall <=> task[t].pc \in {"set", "mark", "get"}
    BY NoCallTyped DEF Remembered, Awaiting
  <2>4. DOMAIN Watchlist = 1..Len(Watchlist)
    BY WatchlistAssumption
  <2> QED BY <2>1, <2>2, <2>3, <2>4 DEF Typed, CacheStates, TypeOK
<1> QED BY <1>1, InitRemembered, StepRemembered, PTL DEF Spec

(* Once clients were shown a quote of a symbol no get_quote of that symbol *)
(* comes back empty: set_quote fills the memory before its await,          *)
(* get_quote falls back on the memory, and no interleaving of messages,    *)
(* polls, reads and answers or failures of Redis empties it.               *)
THEOREM ShownIsReadable == Spec => []ShownCanBeRead
<1>1. Remembered => ShownCanBeRead
  <2> SUFFICES ASSUME Remembered, NEW s \in shown
               PROVE  /\ Visible(s) # NoQuote
                      /\ \A c \in Callers : call[c].symbol = s =>
                           \A outcome \in GetOutcomes(c) : outcome.quote # NoQuote
    BY DEF ShownCanBeRead
  <2>1. cache.memory[s] # NoQuote /\ Typed
    BY DEF Remembered, Known
  <2>2. Visible(s) # NoQuote
    BY <2>1 DEF Visible
  <2>3. ASSUME NEW c \in Callers, call[c].symbol = s, NEW outcome \in GetOutcomes(c)
        PROVE  outcome.quote # NoQuote
    <3>1. call[c].pc # "none" => call[c].symbol \in Symbols
      BY DEF Remembered, Awaiting
    <3> QED BY <2>1, <2>3, <3>1, GetReturns
  <2> QED BY <2>2, <2>3
<1> QED BY <1>1, InitRemembered, StepRemembered, PTL DEF Spec
=============================================================================
