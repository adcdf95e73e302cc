----------------------------- MODULE MarketStream -----------------------------
(***************************************************************************)
(* The market simulator's loop and the WebSocketManager it broadcasts      *)
(* through, while clients of /ws/market-data come, subscribe and go.       *)
(*                                                                         *)
(* A broadcast iterates over the dictionary of connections and awaits each *)
(* send, so connections change under it.  The dictionary is kept as        *)
(* CPython keeps it: entries in the order of insertion, a deleted one      *)
(* leaving a gap.  An insertion that finds the table full rebuilds it      *)
(* without its gaps, and an iterator under way keeps its position.  The    *)
(* iterator raises when the size differs from the one it started with, or  *)
(* when it meets an entry after as many as it was to yield; past the last  *)
(* entry it just ends.                                                     *)
(***************************************************************************)
EXTENDS Integers, Sequences, FiniteSetsExt

CONSTANTS
  Sockets,        \* the connections of a behaviour; each connects once
  Gap,            \* a deleted entry
  Watched,        \* market_state's keys, in order
  Topics,         \* the sets of symbols a client may ask for
  Earlier         \* how many connections may have come and gone before

Symbols == {Watched[i] : i \in DOMAIN Watched}
ASSUME TopicsAssumption == Topics \subseteq SUBSET Symbols
ASSUME WatchedAssumption == Watched \in Seq(Symbols) /\ Watched # <<>>
ASSUME GapAssumption == Gap \notin Sockets
ASSUME EarlierAssumption == Earlier \subseteq 0..5  \* the first table's room

VARIABLES
  entries,        \* active_connections: sockets and gaps, in order of insertion
  room,           \* the entries its table can hold
  subscriptions,  \* its values
  endpoint,       \* the endpoint of each socket: "out", "receiving" or "over"
  alive,          \* sockets whose client is still there
  loop,           \* the simulator: [pc, at], at the place in Watched
  walk,           \* the broadcast under way: [pos, left, size, to, dead]
  moved,          \* symbols whose price has moved since tick_count last grew
  owed,           \* history: sockets the broadcast has still to reach, of those
                  \* connected, subscribed and alive from its start on
  packed          \* history: gaps were removed under the broadcast

dict  == <<entries, room>>
conns == <<dict, subscriptions, endpoint, alive>>
sim   == <<loop, walk, moved>>
vars  == <<conns, sim, owed, packed>>

Symbol == Watched[loop.at]   \* of the quote under way
Present(ws) == \E i \in DOMAIN entries : entries[i] = ws
Filled == {i \in DOMAIN entries : entries[i] # Gap}
Size == Cardinality(Filled)
Without(gone) ==
  [i \in DOMAIN entries |-> IF entries[i] \in gone THEN Gap ELSE entries[i]]

(* A rebuilt table has a power of two of slots, at least 8 and thrice the  *)
(* entries, and room for two thirds of them.  Its entries keep their order *)
(* but not their places.                                                   *)
RoomFor(used) == ((2 * Min({2^k : k \in {n \in 3..(3 + used) : 2^n >= 3 * used}})) \div 3)
Packed ==
  [n \in 1..Size |-> entries[CHOOSE i \in Filled : Cardinality({j \in Filled : j < i}) = n - 1]]

NoWalk == [pos |-> 1, left |-> 0, size |-> 0, to |-> Gap, dead |-> {}]

Init ==
  /\ \E n \in Earlier : entries = [i \in 1..n |-> Gap]
  /\ room = 5
  /\ subscriptions = [ws \in Sockets |-> {}]
  /\ endpoint = [ws \in Sockets |-> "out"]
  /\ alive = Sockets
  /\ loop = [pc |-> "price", at |-> 1]
  /\ walk = NoWalk
  /\ moved = {}
  /\ owed = {}
  /\ packed = FALSE

---------------------------------------------------------------------------
(* The endpoint: connect, subscribe and unsubscribe, and the end of the    *)
(* receive loop, once the client is gone or over what a live one sends.    *)
Insert(ws) ==
  IF Len(entries) < room
  THEN /\ entries' = Append(entries, ws)
       /\ UNCHANGED <<room, packed>>
  ELSE /\ entries' = Append(Packed, ws)
       /\ room' = RoomFor(Size)
       /\ packed' = (packed \/ Size < Len(entries))

Connect(ws) ==
  /\ endpoint[ws] = "out"
  /\ endpoint' = [endpoint EXCEPT ![ws] = "receiving"]
  /\ Insert(ws)
  /\ UNCHANGED <<subscriptions, alive, sim, owed>>

(* A socket a failed send has removed is no longer listened to.            *)
Subscribe(ws, symbols) ==
  /\ endpoint[ws] = "receiving" /\ Present(ws)
  /\ subscriptions' = [subscriptions EXCEPT ![ws] = @ \union symbols]
  /\ UNCHANGED <<dict, endpoint, alive, sim, owed, packed>>

Unsubscribe(ws, symbols) ==
  /\ endpoint[ws] = "receiving" /\ Present(ws)
  /\ subscriptions' = [subscriptions EXCEPT ![ws] = @ \ symbols]
  /\ owed' = IF Symbol \in symbols THEN owed \ {ws} ELSE owed
  /\ UNCHANGED <<dict, endpoint, alive, sim, packed>>

ClientGoes(ws) ==
  /\ endpoint[ws] = "receiving"
  /\ alive' = alive \ {ws}
  /\ owed'  = owed \ {ws}
  /\ UNCHANGED <<dict, subscriptions, endpoint, sim, packed>>

EndReceivingLeaving(ws) ==  \* fault: the manager is not told
  /\ endpoint[ws] = "receiving" /\ ws \notin alive
  /\ endpoint' = [endpoint EXCEPT ![ws] = "over"]
  /\ UNCHANGED <<dict, subscriptions, alive, sim, owed, packed>>

EndReceiving(ws) ==
  /\ endpoint[ws] = "receiving" /\ ws \notin alive
  /\ endpoint' = [endpoint EXCEPT ![ws] = "over"]
  /\ entries'  = Without({ws})
  /\ UNCHANGED <<room, subscriptions, alive, sim, owed, packed>>

(* A message the endpoint cannot read ends a live client's connection too. *)
EndpointFails(ws) ==
  /\ endpoint[ws] = "receiving" /\ ws \in alive
  /\ endpoint' = [endpoint EXCEPT ![ws] = "over"]
  /\ entries'  = Without({ws})
  /\ alive' = alive \ {ws}
  /\ owed'  = owed \ {ws}
  /\ UNCHANGED <<room, subscriptions, sim, packed>>

---------------------------------------------------------------------------
(* One symbol of a tick: the price moves by what tick_count says, the      *)
(* quote is cached, broadcast, made a candle which is broadcast, and the   *)
(* accounts are told.                                                      *)
Go(pc) == loop' = [loop EXCEPT !.pc = pc]

MovePrice ==
  /\ loop.pc = "price"
  /\ moved' = moved \union {Symbol}
  /\ Go("cache")
  /\ UNCHANGED <<conns, walk, owed, packed>>

(* An exception ends the tick; the next one starts with the first symbol   *)
(* and the same tick_count.                                                *)
RaiseUncaught ==  \* fault: the loop does not catch it
  /\ loop' = [loop EXCEPT !.pc = "crashed"]
  /\ walk' = NoWalk
  /\ UNCHANGED entries

Raise ==
  /\ loop' = [pc |-> "asleep", at |-> 1]
  /\ walk' = NoWalk
  /\ UNCHANGED entries

(* The steps of the iterator up to the next subscriber, which is sent to,  *)
(* or to the end, where the connections whose send failed are removed.     *)
Advance(w, pc, done) ==
  LET live   == {i \in DOMAIN entries : i >= w.pos /\ entries[i] # Gap}
      wanted == {i \in live : Symbol \in subscriptions[entries[i]]}
      yields == IF wanted = {} THEN live ELSE {i \in live : i <= Min(wanted)}
  IN  IF Size # w.size \/ Cardinality(yields) > w.left THEN Raise
      ELSE IF wanted = {}
      THEN entries' = Without(w.dead) /\ walk' = NoWalk /\ Go(done)
      ELSE /\ walk' = [w EXCEPT !.pos  = Min(wanted) + 1,
                                !.left = @ - Cardinality(yields),
                                !.to   = entries[Min(wanted)]]
           /\ Go(pc)
           /\ UNCHANGED entries

(* A broadcast begins once the await before it is over.                    *)
Begin(before, pc, done) ==
  /\ loop.pc = before
  /\ Advance([NoWalk EXCEPT !.left = Size, !.size = Size], pc, done)
  /\ owed' = {ws \in alive : Present(ws) /\ Symbol \in subscriptions[ws]}
  /\ packed' = FALSE
  /\ UNCHANGED <<room, subscriptions, endpoint, alive, moved>>

BroadcastQuote  == Begin("cache", "quote", "ingest")
BroadcastCandle == Begin("ingest", "candle", "push")

(* A send succeeds, or raises as the client is gone.                       *)
SendStopping(pc, done) ==  \* fault: the first failed send ends the broadcast
  /\ loop.pc = pc
  /\ IF walk.to \in alive
     THEN owed' = owed \ {walk.to} /\ Advance(walk, pc, done)
     ELSE /\ entries' = Without({walk.to}) /\ walk' = NoWalk /\ Go(done)
          /\ UNCHANGED owed
  /\ UNCHANGED <<room, subscriptions, endpoint, alive, moved, packed>>

SendMarkingAll(pc, done) ==  \* fault: every socket is noted as dead
  /\ loop.pc = pc
  /\ Advance([walk EXCEPT !.dead = @ \union {walk.to}], pc, done)
  /\ owed' = owed \ {walk.to}
  /\ UNCHANGED <<room, subscriptions, endpoint, alive, moved, packed>>

Send(pc, done) ==
  /\ loop.pc = pc
  /\ \/ Advance(walk, pc, done) /\ owed' = owed \ {walk.to}
     \/ /\ walk.to \notin alive
        /\ Advance([walk EXCEPT !.dead = @ \union {walk.to}], pc, done)
        /\ UNCHANGED owed
  /\ UNCHANGED <<room, subscriptions, endpoint, alive, moved, packed>>

(* on_quote_tick catches its own exceptions; after the last symbol the     *)
(* loop counts the tick and sleeps.                                        *)
NextSymbolCounting ==  \* fault: the tick is counted with each symbol
  /\ loop.pc = "push"
  /\ loop' = IF loop.at < Len(Watched) THEN [pc |-> "price", at |-> loop.at + 1]
             ELSE [pc |-> "asleep", at |-> 1]
  /\ moved' = {}
  /\ UNCHANGED <<conns, walk, owed, packed>>

NextSymbol ==
  /\ loop.pc = "push"
  /\ IF loop.at < Len(Watched)
     THEN loop' = [pc |-> "price", at |-> loop.at + 1] /\ UNCHANGED moved
     ELSE loop' = [pc |-> "asleep", at |-> 1] /\ moved' = {}
  /\ UNCHANGED <<conns, walk, owed, packed>>

Wake ==
  /\ loop.pc = "asleep"
  /\ Go("price")
  /\ UNCHANGED <<conns, walk, moved, owed, packed>>

LoopStep == \/ MovePrice \/ BroadcastQuote \/ Send("quote", "ingest")
            \/ BroadcastCandle \/ Send("candle", "push") \/ NextSymbol \/ Wake

(* disconnect cancels the loop at whatever it awaits.                      *)
Stop ==
  /\ loop.pc \notin {"price", "stopped"}
  /\ loop' = [loop EXCEPT !.pc = "stopped"]
  /\ walk' = NoWalk
  /\ UNCHANGED <<conns, moved, owed, packed>>

Next ==
  \/ \E ws \in Sockets :
       \/ Connect(ws) \/ ClientGoes(ws) \/ EndReceiving(ws) \/ EndpointFails(ws)
       \/ \E symbols \in Topics : Subscribe(ws, symbols) \/ Unsubscribe(ws, symbols)
  \/ LoopStep \/ Stop

(* The event loop resumes the simulator after each await; a send ends,     *)
(* with a gone client by an exception; a receive notices a gone client.    *)
Fairness == WF_vars(LoopStep) /\ \A ws \in Sockets : WF_vars(EndReceiving(ws))

Spec == Init /\ [][Next]_vars /\ Fairness

---------------------------------------------------------------------------
(* The dictionary holds a socket once; the broadcast never sends past the  *)
(* entries it may yield.                                                   *)
TypeOK ==
  /\ \A i, j \in DOMAIN entries : entries[i] = entries[j] /\ entries[i] # Gap => i = j
  /\ \A ws \in Sockets : subscriptions[ws] \subseteq Symbols
  /\ \A ws \in Sockets : Present(ws) => endpoint[ws] = "receiving"
  /\ loop.at \in DOMAIN Watched /\ moved \subseteq Symbols
  /\ (walk = NoWalk) = (loop.pc \notin {"quote", "candle"})
  /\ walk.left \in 0..walk.size

(* A broadcast that ends without an exception was sent to every client     *)
(* that was connected, subscribed and alive throughout, whoever came and   *)
(* went meanwhile, unless the dictionary lost its gaps under it.           *)
Ends(done) == loop.pc # done /\ loop'.pc = done
BroadcastReachesAll ==
  [][(Ends("ingest") \/ Ends("push")) /\ ~packed' => owed' = {}]_vars

(* A send that fails, or a dictionary that is rebuilt, costs no client its *)
(* place unless that client is gone: no live one silently stops receiving. *)
LiveStaysConnected ==
  [][\A ws \in alive' : Present(ws) => Present(ws)']_vars

(* tick_count grows only over a tick in which every symbol moved: an       *)
(* exception between them leaves the count, and so the prices' direction.  *)
TicksAreWhole == [][moved' = {} /\ moved # {} => moved = Symbols]_vars

(* However clients come and go, the loop serves every symbol again and     *)
(* again, until the server stops it.                                       *)
EverySymbolServed ==
  \A n \in DOMAIN Watched :
    []<>(loop.pc = "stopped" \/ (loop.pc = "push" /\ loop.at = n))
=============================================================================
