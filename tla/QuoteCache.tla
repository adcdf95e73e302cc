------------------------------ MODULE QuoteCache ------------------------------
(***************************************************************************)
(* MarketDataCache: the last quote of a symbol, written to the process's   *)
(* memory and then to Redis, read from Redis and, failing that, from       *)
(* memory.  Redis is awaited, so the calls of several tasks overlap;       *)
(* commands travel on different connections, so Redis may apply them in an *)
(* order of its own, and each may fail before or after it is applied.      *)
(*                                                                         *)
(* One failure makes the class answer from memory only (_redis_available); *)
(* a call that was already on its way can still succeed and undo that.     *)
(* When a call returns, its task goes on in the same step, so the outcomes *)
(* of a call are given as sets for the caller's action to choose from.     *)
(***************************************************************************)
EXTENDS Integers

CONSTANTS
  Symbols,
  Callers,     \* the tasks that call the cache, one call at a time each
  NoQuote

VARIABLES
  cache,       \* [memory, redis, available]: _memory_quotes, the keys of Redis
               \* and _redis_available ("unknown" for None, "yes", "no")
  call         \* [pc, quote] of the call each caller awaits, NoCall without one

NoCall == [pc |-> "none", symbol |-> NoQuote, quote |-> NoQuote]

(* Redis may still hold quotes of the process before this one.             *)
CacheInit(earlier) ==
  /\ \E kept \in SUBSET Symbols :
       cache = [memory    |-> [s \in Symbols |-> NoQuote],
                redis     |-> [s \in Symbols |-> IF s \in kept THEN earlier[s] ELSE NoQuote],
                available |-> "unknown"]
  /\ call = [c \in Callers |-> NoCall]

Down(now) == now.available = "no"

(* set_quote up to its await: memory is written first and always, Redis is *)
(* sent the quote unless it has failed before.                             *)
RememberInMemoryOnlyWhenDown(now, quote) ==  \* fault: memory is only the fallback
  IF Down(now) THEN [now EXCEPT !.memory[quote.symbol] = quote] ELSE now

Remember(now, quote) == [now EXCEPT !.memory[quote.symbol] = quote]

Send(c, op, symbol, quote) ==
  call' = [call EXCEPT ![c] = [pc |-> op, symbol |-> symbol, quote |-> quote]]

RedisStores(c) ==
  /\ call[c].pc = "set sent"
  /\ cache' = [cache EXCEPT !.redis[call[c].symbol] = call[c].quote]
  /\ call'  = [call EXCEPT ![c].pc = "set applied"]

SetOutcomes(c) ==
  IF call[c].pc = "set applied" THEN {[cache EXCEPT !.available = a] : a \in {"yes", "no"}}
  ELSE IF call[c].pc = "set sent" THEN {[cache EXCEPT !.available = "no"]} ELSE {}

(* get_quote: a miss and an error fall back to what memory has by then.    *)
RedisAnswers(c) ==
  /\ call[c].pc = "get sent"
  /\ call' = [call EXCEPT ![c].pc = "get answered", ![c].quote = cache.redis[call[c].symbol]]
  /\ UNCHANGED cache

GetOutcomes(c) ==
  LET answer == call[c].quote
      own    == cache.memory[call[c].symbol]
      failed == [now |-> [cache EXCEPT !.available = "no"], quote |-> own]
      hit    == [now |-> [cache EXCEPT !.available = "yes"], quote |-> answer]
      miss   == [now |-> cache, quote |-> own]
  IN  CASE call[c].pc = "get sent"     -> {failed}
        [] call[c].pc = "get answered" -> {failed, IF answer = NoQuote THEN miss ELSE hit}
        [] OTHER                       -> {}

(* What a call of get_quote made now would return, if Redis answers.       *)
Visible(s) ==
  IF Down(cache) \/ cache.redis[s] = NoQuote THEN cache.memory[s] ELSE cache.redis[s]
=============================================================================
