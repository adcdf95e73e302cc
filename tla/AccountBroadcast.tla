--------------------------- MODULE AccountBroadcast ---------------------------
(***************************************************************************)
(* AccountBroadcastService: which websocket wants to hear of which         *)
(* account, the push after an order and the throttled push after a tick.   *)
(*                                                                         *)
(* Everything runs on one event loop.  No section under the lock awaits,   *)
(* so each is one step; a push awaits each of its sends, and subscribers,  *)
(* other orders and other ticks run in between.                            *)
(***************************************************************************)
EXTENDS Integers, Sequences

CONSTANTS
  Sockets,    \* open connections to /ws/market-data
  Accounts,
  Shown,      \* the accounts each client may show
  Orders,     \* calls of on_order_event
  AccountOf,  \* the account of each
  Ticks,      \* calls of on_quote_tick
  Interval,   \* _MIN_BROADCAST_INTERVAL_SECONDS
  Start,      \* time.monotonic() when the service starts
  MaxTime,    \* bound on it
  NoAccount

Jobs == Orders \union Ticks

ASSUME TimeAssumption ==
  /\ Interval \in Nat \ {0} /\ Start \in Nat /\ MaxTime \in Nat
  /\ Interval <= Start
ASSUME JobAssumption ==
  /\ Orders \intersect Ticks = {} /\ NoAccount \notin Accounts
  /\ AccountOf \in [Orders -> Accounts] /\ Shown \in [Sockets -> SUBSET Accounts]

VARIABLES
  accountSockets,  \* _account_sockets and _socket_accounts: functions whose
  socketAccounts,  \* domains are the keys
  lastBroadcast,   \* _last_broadcast, 0 where it has no key
  receiving,       \* sockets whose endpoint still receives
  alive,           \* sockets whose client is still there
  clock,
  jobs,            \* each call: [pc, now, left, account, topics, to, dead]
  owed,            \* history: per order and socket, the messages still due to
                   \* a client subscribed and there since the order's event
  pushes           \* history: tick-driven pushes begun, per account

maps    == <<accountSockets, socketAccounts>>
clients == <<receiving, alive>>
history == <<owed, pushes>>
vars    == <<maps, lastBroadcast, clients, clock, jobs, history>>

OrderTopics == <<"orders", "positions", "pnl">>
TickTopics  == <<"pnl", "positions">>
Topics      == {"orders", "positions", "pnl"}

Job == [pc : {"waiting", "lookup", "sending", "over"}, now : Nat, left : SUBSET Accounts,
        account : Accounts \union {NoAccount}, topics : Seq(Topics),
        to : SUBSET Sockets, dead : SUBSET Sockets]

Waiting ==
  [pc |-> "waiting", now |-> 0, left |-> {}, account |-> NoAccount,
   topics |-> <<>>, to |-> {}, dead |-> {}]

Over == [Waiting EXCEPT !.pc = "over"]

Init ==
  /\ accountSockets = [a \in {} |-> {}]
  /\ socketAccounts = [ws \in {} |-> {}]
  /\ lastBroadcast  = [a \in Accounts |-> 0]
  /\ receiving = Sockets
  /\ alive = Sockets
  /\ clock = Start
  /\ jobs = [j \in Jobs |-> Waiting]
  /\ owed = [j \in Orders |-> [ws \in Sockets |-> 0]]
  /\ pushes = [a \in Accounts |-> 0]

SocketsOf(m, a) == IF a \in DOMAIN m THEN m[a] ELSE {}

---------------------------------------------------------------------------
(* The two dictionaries.                                                   *)
Added(m, k, x) ==
  [y \in DOMAIN m \union {k} |-> IF y = k THEN SocketsOf(m, k) \union {x} ELSE m[y]]

(* _discard of sockets from accounts, in either dictionary; an account     *)
(* left without sockets goes too.                                          *)
Discarded(m, accounts, sockets) ==
  LET left(a) == IF a \in accounts THEN m[a] \ sockets ELSE m[a]
  IN  [a \in {b \in DOMAIN m : left(b) # {}} |-> left(a)]

ForgottenNot(m, accounts, sockets) == m  \* fault: only one side is updated

Forgotten(m, accounts, sockets) ==
  [ws \in DOMAIN m |-> IF ws \in sockets THEN m[ws] \ accounts ELSE m[ws]]

Subscribe(ws, a) ==
  /\ ws \in receiving
  /\ accountSockets' = Added(accountSockets, a, ws)
  /\ socketAccounts' = Added(socketAccounts, ws, a)
  /\ UNCHANGED <<lastBroadcast, clients, clock, jobs, history>>

Unsubscribe(ws, a) ==
  /\ ws \in receiving
  /\ accountSockets' = Discarded(accountSockets, {a}, {ws})
  /\ socketAccounts' = Forgotten(socketAccounts, {a}, {ws})
  /\ owed' = [j \in Orders |-> IF AccountOf[j] = a THEN [owed[j] EXCEPT ![ws] = 0] ELSE owed[j]]
  /\ UNCHANGED <<lastBroadcast, clients, clock, jobs, pushes>>

ClientGoes(ws) ==
  /\ ws \in alive
  /\ alive' = alive \ {ws}
  /\ owed'  = [j \in Orders |-> [owed[j] EXCEPT ![ws] = 0]]
  /\ UNCHANGED <<maps, lastBroadcast, receiving, clock, jobs, pushes>>

(* The receive of a gone client raises and the endpoint disconnects it.    *)
DisconnectPopping(ws) ==  \* fault: only the socket's own entry is dropped
  /\ ws \in receiving \ alive
  /\ receiving' = receiving \ {ws}
  /\ socketAccounts' = [w \in DOMAIN socketAccounts \ {ws} |-> socketAccounts[w]]
  /\ UNCHANGED <<accountSockets, lastBroadcast, alive, clock, jobs, history>>

Disconnect(ws) ==
  /\ ws \in receiving \ alive
  /\ receiving' = receiving \ {ws}
  /\ accountSockets' = Discarded(accountSockets, SocketsOf(socketAccounts, ws), {ws})
  /\ socketAccounts' = [w \in DOMAIN socketAccounts \ {ws} |-> socketAccounts[w]]
  /\ UNCHANGED <<lastBroadcast, alive, clock, jobs, history>>

---------------------------------------------------------------------------
(* What a call does from the end of one send to the next, or to its end.   *)
(* m is _account_sockets then.                                             *)
SendNext(j, job, m) ==
  jobs' = [jobs EXCEPT ![j] =
             [job EXCEPT !.pc = "sending", !.topics = Tail(@),
                         !.to = SocketsOf(m, job.account), !.dead = {}]]

(* A tick goes on to an account that has subscribers and is due.  The rows *)
(* come in any order, so any of those it has to skip may come before it.   *)
VisitNextStampingAfter(j, job, m) ==  \* fault: stamped when the push is over
  LET due == {a \in job.left : a \in DOMAIN m /\ job.now - lastBroadcast[a] >= Interval}
  IN  /\ lastBroadcast' = IF j \in Ticks /\ job.account # NoAccount
                          THEN [lastBroadcast EXCEPT ![job.account] = job.now]
                          ELSE lastBroadcast
      /\ \/ /\ due = {}
            /\ jobs' = [jobs EXCEPT ![j] = Over]
            /\ UNCHANGED pushes
         \/ \E a \in due, skipped \in SUBSET (job.left \ due) :
              /\ pushes' = [pushes EXCEPT ![a] = @ + 1]
              /\ SendNext(j, [job EXCEPT !.left = @ \ (skipped \union {a}),
                                         !.account = a, !.topics = TickTopics], m)

VisitNext(j, job, m) ==
  LET due == {a \in job.left : a \in DOMAIN m /\ job.now - lastBroadcast[a] >= Interval}
  IN  \/ /\ due = {}
         /\ jobs' = [jobs EXCEPT ![j] = Over]
         /\ UNCHANGED <<lastBroadcast, pushes>>
      \/ \E a \in due, skipped \in SUBSET (job.left \ due) :
           /\ lastBroadcast' = [lastBroadcast EXCEPT ![a] = job.now]
           /\ pushes' = [pushes EXCEPT ![a] = @ + 1]
           /\ SendNext(j, [job EXCEPT !.left = @ \ (skipped \union {a}),
                                      !.account = a, !.topics = TickTopics], m)

Proceed(j, job, m) ==
  LET more == job.topics # <<>> /\ SocketsOf(m, job.account) # {}
  IN  \/ more /\ SendNext(j, job, m) /\ UNCHANGED <<lastBroadcast, pushes>>
      \/ ~more /\ VisitNext(j, job, m)

(* on_order_event: the throttle is set, then the three topics are sent.    *)
OnOrderEvent(j) ==
  LET told == SocketsOf(accountSockets, AccountOf[j])
      job  == [Waiting EXCEPT !.account = AccountOf[j], !.topics = OrderTopics]
  IN  /\ jobs[j].pc = "waiting"
      /\ lastBroadcast' = [lastBroadcast EXCEPT ![AccountOf[j]] = clock]
      /\ IF told # {} THEN SendNext(j, job, accountSockets)
         ELSE jobs' = [jobs EXCEPT ![j] = Over]
      /\ owed' = [owed EXCEPT ![j] = [ws \in Sockets |->
                    IF ws \in told \intersect alive THEN Len(OrderTopics) ELSE 0]]
      /\ UNCHANGED <<maps, clients, clock, pushes>>

(* on_quote_tick: nothing without a subscriber; the accounts holding the   *)
(* symbol are looked up, which may fail.                                   *)
OnQuoteTick(j) ==
  /\ jobs[j].pc = "waiting"
  /\ jobs' = [jobs EXCEPT ![j].pc = IF DOMAIN accountSockets = {} THEN "over" ELSE "lookup"]
  /\ UNCHANGED <<maps, lastBroadcast, clients, clock, history>>

Lookup(j) ==
  /\ jobs[j].pc = "lookup"
  /\ \E accounts \in SUBSET Accounts :
       VisitNext(j, [jobs[j] EXCEPT !.now = clock, !.left = accounts], accountSockets)
  /\ UNCHANGED <<maps, clients, clock, owed>>

LookupFails(j) ==
  /\ jobs[j].pc = "lookup"
  /\ jobs' = [jobs EXCEPT ![j].pc = "over"]
  /\ UNCHANGED <<maps, lastBroadcast, clients, clock, history>>

(* A send is over.  It raises only if the client is gone; once the message *)
(* went to all of the copied sockets, those that raised are discarded.     *)
SendOverStopping(j, ws, raised) ==  \* fault: one that raises ends the message
  LET job == [jobs[j] EXCEPT !.to = IF raised THEN {} ELSE @ \ {ws},
                             !.dead = IF raised THEN @ \union {ws} ELSE @]
  IN  IF job.to # {}
      THEN /\ jobs' = [jobs EXCEPT ![j] = job]
           /\ UNCHANGED <<maps, lastBroadcast, pushes>>
      ELSE /\ accountSockets' = Discarded(accountSockets, {job.account}, job.dead)
           /\ socketAccounts' = Forgotten(socketAccounts, {job.account}, job.dead)
           /\ Proceed(j, job, accountSockets')

SendOver(j, ws, raised) ==
  LET job == [jobs[j] EXCEPT !.to = @ \ {ws},
                             !.dead = IF raised THEN @ \union {ws} ELSE @]
  IN  IF job.to # {}
      THEN /\ jobs' = [jobs EXCEPT ![j] = job]
           /\ UNCHANGED <<maps, lastBroadcast, pushes>>
      ELSE /\ accountSockets' = Discarded(accountSockets, {job.account}, job.dead)
           /\ socketAccounts' = Forgotten(socketAccounts, {job.account}, job.dead)
           /\ Proceed(j, job, accountSockets')

Sent(j, ws) ==
  /\ jobs[j].pc = "sending" /\ ws \in jobs[j].to
  /\ SendOver(j, ws, FALSE)
  /\ owed' = IF j \in Orders /\ owed[j][ws] > 0 THEN [owed EXCEPT ![j][ws] = @ - 1] ELSE owed
  /\ UNCHANGED <<clients, clock>>

SendRaises(j, ws) ==
  /\ jobs[j].pc = "sending" /\ ws \in jobs[j].to \ alive
  /\ SendOver(j, ws, TRUE)
  /\ UNCHANGED <<clients, clock, owed>>

Elapse ==
  /\ clock < MaxTime
  /\ clock' = clock + 1
  /\ UNCHANGED <<maps, lastBroadcast, clients, jobs, history>>

Send(j) == \E ws \in Sockets : Sent(j, ws) \/ SendRaises(j, ws)

Next ==
  \/ \E ws \in Sockets :
       \/ ClientGoes(ws) \/ Disconnect(ws)
       \/ \E a \in Shown[ws] : Subscribe(ws, a) \/ Unsubscribe(ws, a)
  \/ \E j \in Orders : OnOrderEvent(j)
  \/ \E j \in Ticks : OnQuoteTick(j) \/ Lookup(j) \/ LookupFails(j)
  \/ \E j \in Jobs : Send(j)
  \/ Elapse

Spec == Init /\ [][Next]_vars

---------------------------------------------------------------------------
(* An account is a key only while a socket listens to it, so that a tick   *)
(* without subscribers asks nothing of the database.                       *)
TypeOK ==
  /\ DOMAIN accountSockets \subseteq Accounts
  /\ \A a \in DOMAIN accountSockets :
       accountSockets[a] \subseteq Sockets /\ accountSockets[a] # {}
  /\ DOMAIN socketAccounts \subseteq Sockets
  /\ \A ws \in DOMAIN socketAccounts : socketAccounts[ws] \subseteq Accounts
  /\ receiving \subseteq Sockets /\ alive \subseteq Sockets
  /\ lastBroadcast \in [Accounts -> Nat] /\ clock \in Nat
  /\ pushes \in [Accounts -> Nat] /\ owed \in [Orders -> [Sockets -> Nat]]
  /\ jobs \in [Jobs -> Job]
  /\ \A j \in Jobs :
       jobs[j].pc = "sending" => jobs[j].to # {} /\ jobs[j].account \in Accounts

(* The two dictionaries say the same, whatever failed sends, unsubscribes  *)
(* and disconnects of the same socket come in whatever order.              *)
MapsAgree ==
  \A ws \in Sockets, a \in Accounts :
    ws \in SocketsOf(accountSockets, a) <=> a \in SocketsOf(socketAccounts, ws)

(* After its endpoint is over nothing of a socket is left behind: no later *)
(* push tries it, no account is kept busy for it.                          *)
GoneLeavesNothing ==
  \A ws \in Sockets \ receiving :
    /\ ws \notin DOMAIN socketAccounts
    /\ \A a \in DOMAIN accountSockets : ws \notin accountSockets[a]

(* However many ticks run at once and however slow the sends, ticks begin  *)
(* no more pushes for an account than one at first and one per interval.   *)
TicksThrottled ==
  \A a \in Accounts : pushes[a] * Interval <= clock - Start + Interval

(* A client that stays subscribed and connected while an order's event is  *)
(* pushed gets its three messages, whichever other clients fail.           *)
OrderReachesSubscribers ==
  \A j \in Orders :
    jobs[j].pc = "over" => \A ws \in Sockets : owed[j][ws] = 0
=============================================================================
