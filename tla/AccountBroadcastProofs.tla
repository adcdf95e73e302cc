------------------------ MODULE AccountBroadcastProofs ------------------------
(***************************************************************************)
(* The service's dictionaries agree and are left clean, its throttle       *)
(* counts, and an order's event reaches its subscribers, whatever the      *)
(* numbers of clients, accounts, orders and ticks.                         *)
(***************************************************************************)
EXTENDS AccountBroadcast, TLAPS

---------------------------------------------------------------------------
(* What the operators on the dictionaries do to the sets they hold.        *)
LEMMA DiscardedSets ==
  ASSUME NEW m, NEW A, NEW W
  PROVE  /\ DOMAIN Discarded(m, A, W) \subseteq DOMAIN m
         /\ \A y : SocketsOf(Discarded(m, A, W), y) =
                     SocketsOf(m, y) \ (IF y \in A THEN W ELSE {})
         /\ \A y \in DOMAIN Discarded(m, A, W) : Discarded(m, A, W)[y] # {}
BY DEF Discarded, SocketsOf

LEMMA ForgottenSets ==
  ASSUME NEW m, NEW A, NEW W
  PROVE  /\ DOMAIN Forgotten(m, A, W) = DOMAIN m
         /\ \A y : SocketsOf(Forgotten(m, A, W), y) =
                     SocketsOf(m, y) \ (IF y \in W THEN A ELSE {})
BY DEF Forgotten, SocketsOf

LEMMA SetsOfKeys ==
  ASSUME NEW m, NEW y \in DOMAIN m
  PROVE  m[y] = SocketsOf(m, y)
BY DEF SocketsOf

---------------------------------------------------------------------------
(* _account_sockets, as a push reads it.                                   *)
MapOK(m) ==
  /\ DOMAIN m \subseteq Accounts
  /\ \A a \in DOMAIN m : m[a] \subseteq Sockets /\ m[a] # {}

LEMMA DiscardedTyped ==
  ASSUME NEW m, NEW A, NEW W, MapOK(m)
  PROVE  MapOK(Discarded(m, A, W))
BY DEF MapOK, Discarded

(* A call sent on to a message stays well formed, and no other is touched. *)
LEMMA SendNextTyped ==
  ASSUME TypeOK, NEW j \in Jobs, NEW job \in Job, NEW m, MapOK(m),
         job.topics # <<>>, SocketsOf(m, job.account) # {}, SendNext(j, job, m)
  PROVE  /\ jobs' \in [Jobs -> Job]
         /\ \A i \in Jobs \ {j} : jobs'[i] = jobs[i]
         /\ jobs'[j].pc = "sending" /\ jobs'[j].account = job.account
         /\ jobs'[j].to = SocketsOf(m, job.account) /\ jobs'[j].dead = {}
         /\ jobs'[j].topics = Tail(job.topics)
         /\ jobs'[j].left = job.left /\ jobs'[j].now = job.now
         /\ job.account \in Accounts
<1> DEFINE new == [job EXCEPT !.pc = "sending", !.topics = Tail(@),
                              !.to = SocketsOf(m, job.account), !.dead = {}]
<1>1. job.account \in DOMAIN m /\ SocketsOf(m, job.account) \subseteq Sockets
  BY DEF SocketsOf, MapOK
<1>2. Tail(job.topics) \in Seq(Topics)
  BY DEF Job
<1>3. new \in Job
  BY <1>1, <1>2 DEF Job
<1>4. jobs' = [jobs EXCEPT ![j] = new]
  BY DEF SendNext
<1>5. /\ new.pc = "sending" /\ new.account = job.account
      /\ new.to = SocketsOf(m, job.account) /\ new.dead = {}
      /\ new.topics = Tail(job.topics) /\ new.left = job.left /\ new.now = job.now
  BY DEF Job
<1> HIDE DEF new
<1> QED BY <1>1, <1>3, <1>4, <1>5 DEF TypeOK, MapOK

LEMMA TopicsTyped ==
  /\ <<>> \in Seq(Topics)
  /\ TickTopics \in Seq(Topics) /\ TickTopics # <<>>
  /\ OrderTopics \in Seq(Topics) /\ OrderTopics # <<>> /\ Len(OrderTopics) = 3
<1>1. <<>> \in Seq(Topics)
  OBVIOUS
<1>2. TickTopics \in Seq(Topics)
  BY DEF TickTopics, Topics
<1>3. OrderTopics \in Seq(Topics)
  BY DEF OrderTopics, Topics
<1>4. TickTopics # <<>> /\ OrderTopics # <<>> /\ Len(OrderTopics) = 3
  BY DEF TickTopics, OrderTopics
<1> QED BY <1>1, <1>2, <1>3, <1>4

LEMMA WaitingTyped ==
  /\ Waiting \in Job /\ Waiting.pc = "waiting" /\ Waiting.left = {} /\ Waiting.dead = {}
  /\ Over \in Job /\ Over.pc = "over" /\ Over.left = {} /\ Over.dead = {}
<1> DEFINE none == <<>>
<1>1. none \in Seq(Topics)
  BY TopicsTyped
<1>2. Waiting = [pc |-> "waiting", now |-> 0, left |-> {}, account |-> NoAccount,
                 topics |-> none, to |-> {}, dead |-> {}]
  BY DEF Waiting
<1> HIDE DEF none
<1>3. Waiting \in Job /\ Waiting.pc = "waiting" /\ Waiting.left = {} /\ Waiting.dead = {}
  BY <1>1, <1>2 DEF Job
<1>4. Over \in Job /\ Over.pc = "over" /\ Over.left = {} /\ Over.dead = {}
  BY <1>3 DEF Over, Job
<1> QED BY <1>3, <1>4

(* The other calls stay, and this one ends or begins the push to the next  *)
(* of the accounts in left, which is due at now.                           *)
Alone(j) == jobs' \in [Jobs -> Job] /\ \A i \in Jobs \ {j} : jobs'[i] = jobs[i]

Visits(j, left, now) ==
  /\ jobs'[j].dead = {}
  /\ \/ jobs'[j] = Over /\ UNCHANGED <<lastBroadcast, pushes>>
     \/ /\ jobs'[j].pc = "sending" /\ jobs'[j].account \in Accounts
        /\ jobs'[j].to # {} /\ jobs'[j].now = now /\ jobs'[j].left \subseteq left
        /\ \E a \in left : /\ a \in Accounts /\ now - lastBroadcast[a] >= Interval
                          /\ lastBroadcast' = [lastBroadcast EXCEPT ![a] = now]
                          /\ pushes' = [pushes EXCEPT ![a] = @ + 1]

LEMMA VisitNextTyped ==
  ASSUME TypeOK, NEW j \in Jobs, NEW job \in Job, NEW m, MapOK(m), VisitNext(j, job, m)
  PROVE  Alone(j) /\ Visits(j, job.left, job.now)
<1> DEFINE due == {a \in job.left : a \in DOMAIN m /\ job.now - lastBroadcast[a] >= Interval}
<1>1. CASE due = {}
  <2>1. jobs' = [jobs EXCEPT ![j] = Over] /\ UNCHANGED <<lastBroadcast, pushes>>
    BY <1>1 DEF VisitNext
  <2> QED BY <2>1, WaitingTyped DEF TypeOK, Alone, Visits
<1>2. ASSUME NEW a \in due, NEW skipped \in SUBSET (job.left \ due),
             lastBroadcast' = [lastBroadcast EXCEPT ![a] = job.now],
             pushes' = [pushes EXCEPT ![a] = @ + 1],
             SendNext(j, [job EXCEPT !.left = @ \ (skipped \union {a}),
                                     !.account = a, !.topics = TickTopics], m)
      PROVE  /\ jobs' \in [Jobs -> Job]
             /\ \A i \in Jobs \ {j} : jobs'[i] = jobs[i]
             /\ jobs'[j].dead = {}
             /\ jobs'[j].pc = "sending" /\ jobs'[j].account \in Accounts
             /\ jobs'[j].to # {} /\ jobs'[j].now = job.now
             /\ jobs'[j].left \subseteq job.left
             /\ a \in job.left /\ a \in Accounts /\ job.now - lastBroadcast[a] >= Interval
  <2> DEFINE next == [job EXCEPT !.left = @ \ (skipped \union {a}),
                                 !.account = a, !.topics = TickTopics]
  <2>1. a \in DOMAIN m /\ a \in Accounts /\ SocketsOf(m, a) # {}
    BY <1>2 DEF MapOK, SocketsOf
  <2>2. /\ next \in Job /\ next.topics # <<>> /\ next.account = a
        /\ next.left \subseteq job.left /\ next.now = job.now
    BY <2>1, TopicsTyped DEF Job
  <2> HIDE DEF next
  <2>3. SendNext(j, next, m)
    BY <1>2 DEF next
  <2> QED BY <2>1, <2>2, <2>3, SendNextTyped, <1>2
<1> HIDE DEF due
<1>3. CASE due # {}
  <2>1. PICK a \in due, skipped \in SUBSET (job.left \ due) :
          /\ lastBroadcast' = [lastBroadcast EXCEPT ![a] = job.now]
          /\ pushes' = [pushes EXCEPT ![a] = @ + 1]
          /\ SendNext(j, [job EXCEPT !.left = @ \ (skipped \union {a}),
                                     !.account = a, !.topics = TickTopics], m)
    BY <1>3 DEF VisitNext, due
  <2> QED BY <1>2, <2>1 DEF Alone, Visits, due
<1> QED BY <1>1, <1>3

(* One send is over: there are more of the message, or the message ends    *)
(* and those it failed for are discarded.                                  *)
SendEnds(j, ws, raised) ==
  LET job  == jobs[j]
      dead == IF raised THEN job.dead \union {ws} ELSE job.dead
  IN  \/ /\ job.to \ {ws} # {}
         /\ jobs'[j] = [job EXCEPT !.to = @ \ {ws}, !.dead = dead]
         /\ UNCHANGED <<maps, lastBroadcast, pushes>>
      \/ /\ job.to \ {ws} = {}
         /\ accountSockets' = Discarded(accountSockets, {job.account}, dead)
         /\ socketAccounts' = Forgotten(socketAccounts, {job.account}, dead)
         /\ \/ /\ job.topics # <<>>
               /\ jobs'[j].pc = "sending" /\ jobs'[j].account = job.account
               /\ jobs'[j].to = SocketsOf(accountSockets', job.account)
               /\ jobs'[j].to # {} /\ jobs'[j].dead = {}
               /\ jobs'[j].topics = Tail(job.topics)
               /\ jobs'[j].left = job.left /\ jobs'[j].now = job.now
               /\ UNCHANGED <<lastBroadcast, pushes>>
            \/ /\ job.topics = <<>> \/ SocketsOf(accountSockets', job.account) = {}
               /\ Visits(j, job.left, job.now)

LEMMA SendOverTyped ==
  ASSUME TypeOK, NEW j \in Jobs, NEW ws \in Sockets, NEW raised \in BOOLEAN,
         SendOver(j, ws, raised)
  PROVE  Alone(j) /\ SendEnds(j, ws, raised)
<1> DEFINE dead == IF raised THEN jobs[j].dead \union {ws} ELSE jobs[j].dead
           job == [jobs[j] EXCEPT !.to = @ \ {ws}, !.dead = dead]
<1>1. /\ job \in Job /\ job.to = jobs[j].to \ {ws} /\ job.dead = dead
      /\ job.account = jobs[j].account /\ job.topics = jobs[j].topics
      /\ job.left = jobs[j].left /\ job.now = jobs[j].now
  BY DEF TypeOK, Job
<1>2. job = [jobs[j] EXCEPT !.to = @ \ {ws},
                            !.dead = IF raised THEN @ \union {ws} ELSE @]
  OBVIOUS
<1>3. IF job.to # {}
      THEN jobs' = [jobs EXCEPT ![j] = job] /\ UNCHANGED <<maps, lastBroadcast, pushes>>
      ELSE /\ accountSockets' = Discarded(accountSockets, {job.account}, job.dead)
           /\ socketAccounts' = Forgotten(socketAccounts, {job.account}, job.dead)
           /\ Proceed(j, job, accountSockets')
  BY <1>2 DEF SendOver
<1>4. CASE job.to # {}
  <2>1. job = [jobs[j] EXCEPT !.to = @ \ {ws}, !.dead = dead]
    OBVIOUS
  <2> HIDE DEF job
  <2>2. jobs' = [jobs EXCEPT ![j] = job] /\ UNCHANGED <<maps, lastBroadcast, pushes>>
    BY <1>3, <1>4
  <2>3. Alone(j) /\ jobs'[j] = job
    BY <1>1, <2>2 DEF Alone, TypeOK
  <2> QED BY <1>1, <1>4, <2>1, <2>2, <2>3 DEF SendEnds
<1> HIDE DEF job
<1>5. CASE job.to = {}
  <2>1. MapOK(accountSockets')
    BY <1>3, <1>5, DiscardedTyped DEF TypeOK, MapOK
  <2>2. CASE job.topics # <<>> /\ SocketsOf(accountSockets', job.account) # {}
    <3>1. SendNext(j, job, accountSockets') /\ UNCHANGED <<lastBroadcast, pushes>>
      BY <1>3, <1>5, <2>2 DEF Proceed
    <3> QED BY <1>1, <1>3, <1>5, <2>1, <2>2, <3>1, SendNextTyped DEF SendEnds, Alone
  <2>3. CASE ~(job.topics # <<>> /\ SocketsOf(accountSockets', job.account) # {})
    <3>1. VisitNext(j, job, accountSockets')
      BY <1>3, <1>5, <2>3 DEF Proceed
    <3>2. Alone(j) /\ Visits(j, job.left, job.now)
      BY <1>1, <2>1, <3>1, VisitNextTyped
    <3> QED BY <1>1, <1>3, <1>5, <2>3, <3>2 DEF SendEnds
  <2> QED BY <2>2, <2>3
<1> QED BY <1>4, <1>5

(* A tick's visit keeps the tables of times and pushes, and its call, well *)
(* formed.                                                                 *)
LEMMA VisitsTyped ==
  ASSUME TypeOK, NEW j \in Jobs, NEW left, NEW now \in Nat, Visits(j, left, now)
  PROVE  /\ lastBroadcast' \in [Accounts -> Nat] /\ pushes' \in [Accounts -> Nat]
         /\ jobs'[j].pc = "sending" => jobs'[j].to # {} /\ jobs'[j].account \in Accounts
BY WaitingTyped DEF Visits, TypeOK

LEMMA TablesTyped ==
  ASSUME TypeOK, NEW j \in Jobs, NEW ws \in Sockets, NEW raised \in BOOLEAN,
         jobs[j].pc = "sending", SendOver(j, ws, raised)
  PROVE  /\ MapOK(accountSockets')
         /\ DOMAIN socketAccounts' \subseteq Sockets
         /\ \A w \in DOMAIN socketAccounts' : socketAccounts'[w] \subseteq Accounts
         /\ lastBroadcast' \in [Accounts -> Nat] /\ pushes' \in [Accounts -> Nat]
         /\ jobs'[j].pc = "sending" => jobs'[j].to # {} /\ jobs'[j].account \in Accounts
<1>1. SendEnds(j, ws, raised)
  BY SendOverTyped
<1>2. jobs[j] \in Job /\ jobs[j].now \in Nat /\ jobs[j].account \in Accounts
  BY DEF TypeOK, Job
<1>3. MapOK(accountSockets)
  BY DEF TypeOK, MapOK
<1>4. CASE jobs[j].to \ {ws} # {}
  <2>1. UNCHANGED <<maps, lastBroadcast, pushes>>
    BY <1>1, <1>4 DEF SendEnds
  <2>2. jobs'[j].to # {} /\ jobs'[j].account = jobs[j].account
    BY <1>1, <1>2, <1>4 DEF SendEnds, Job
  <2> QED BY <1>2, <1>3, <2>1, <2>2 DEF TypeOK, maps
<1>5. CASE jobs[j].to \ {ws} = {}
  <2>1. PICK A, W : /\ accountSockets' = Discarded(accountSockets, A, W)
                    /\ socketAccounts' = Forgotten(socketAccounts, A, W)
    BY <1>1, <1>5 DEF SendEnds
  <2>2. MapOK(accountSockets')
    BY <1>3, <2>1, DiscardedTyped
  <2>3. /\ DOMAIN socketAccounts' \subseteq Sockets
        /\ \A w \in DOMAIN socketAccounts' : socketAccounts'[w] \subseteq Accounts
    BY <2>1 DEF Forgotten, TypeOK
  <2>4. CASE Visits(j, jobs[j].left, jobs[j].now)
    BY <1>2, <2>2, <2>3, <2>4, VisitsTyped
  <2>5. CASE ~Visits(j, jobs[j].left, jobs[j].now)
    <3>1. /\ jobs'[j].account = jobs[j].account /\ jobs'[j].to # {}
          /\ UNCHANGED <<lastBroadcast, pushes>>
      BY <1>1, <1>5, <2>5 DEF SendEnds
    <3> QED BY <1>2, <2>2, <2>3, <3>1 DEF TypeOK
  <2> QED BY <2>4, <2>5
<1> QED BY <1>4, <1>5

LEMMA OwedTyped ==
  ASSUME TypeOK
  PROVE  /\ \A ws \in Sockets, j \in Orders : [owed[j] EXCEPT ![ws] = 0] \in [Sockets -> Nat]
         /\ \A ws \in Sockets, j \in Orders : owed[j][ws] > 0 =>
              [owed EXCEPT ![j][ws] = @ - 1] \in [Orders -> [Sockets -> Nat]]
<1>1. ASSUME NEW ws \in Sockets, NEW j \in Orders, owed[j][ws] > 0
      PROVE  [owed EXCEPT ![j][ws] = @ - 1] \in [Orders -> [Sockets -> Nat]]
  <2>1. [owed[j] EXCEPT ![ws] = @ - 1] \in [Sockets -> Nat]
    BY <1>1 DEF TypeOK
  <2> QED BY <2>1 DEF TypeOK
<1> QED BY <1>1 DEF TypeOK

---------------------------------------------------------------------------
(* Type correctness.                                                       *)
LEMMA TypeInit == Init => TypeOK
<1> SUFFICES ASSUME Init PROVE TypeOK
  OBVIOUS
<1>1. jobs \in [Jobs -> Job] /\ \A j \in Jobs : jobs[j].pc # "sending"
  BY WaitingTyped DEF Init
<1>2. /\ DOMAIN accountSockets = {} /\ DOMAIN socketAccounts = {}
      /\ lastBroadcast \in [Accounts -> Nat] /\ pushes \in [Accounts -> Nat]
      /\ owed \in [Orders -> [Sockets -> Nat]]
      /\ clock \in Nat /\ receiving \subseteq Sockets /\ alive \subseteq Sockets
  BY TimeAssumption DEF Init
<1> QED BY <1>1, <1>2 DEF TypeOK

LEMMA TypeSteps == TypeOK /\ [Next]_vars => TypeOK'
<1> SUFFICES ASSUME TypeOK, [Next]_vars PROVE TypeOK'
  OBVIOUS
<1>m. MapOK(accountSockets)
  BY DEF TypeOK, MapOK
<1>1. ASSUME NEW ws \in Sockets, NEW a \in Shown[ws], Subscribe(ws, a) PROVE TypeOK'
  <2>1. a \in Accounts
    BY JobAssumption
  <2>2. MapOK(accountSockets')
    BY <1>m, <1>1, <2>1 DEF Subscribe, Added, MapOK, SocketsOf
  <2>3. /\ DOMAIN socketAccounts' \subseteq Sockets
        /\ \A w \in DOMAIN socketAccounts' : socketAccounts'[w] \subseteq Accounts
    BY <1>1, <2>1 DEF Subscribe, Added, SocketsOf, TypeOK
  <2> QED BY <1>1, <2>2, <2>3 DEF Subscribe, TypeOK, MapOK, clients, history
<1>2. ASSUME NEW ws \in Sockets, NEW a \in Shown[ws], Unsubscribe(ws, a) PROVE TypeOK'
  <2>1. MapOK(accountSockets')
    BY <1>m, <1>2, DiscardedTyped DEF Unsubscribe
  <2>2. /\ DOMAIN socketAccounts' \subseteq Sockets
        /\ \A w \in DOMAIN socketAccounts' : socketAccounts'[w] \subseteq Accounts
    BY <1>2 DEF Unsubscribe, Forgotten, TypeOK
  <2>3. owed' \in [Orders -> [Sockets -> Nat]]
    BY <1>2, OwedTyped DEF Unsubscribe, TypeOK
  <2> QED BY <1>2, <2>1, <2>2, <2>3 DEF Unsubscribe, TypeOK, MapOK, clients
<1>3. ASSUME NEW ws \in Sockets, ClientGoes(ws) PROVE TypeOK'
  <2>1. owed' \in [Orders -> [Sockets -> Nat]]
    BY <1>3, OwedTyped DEF ClientGoes
  <2> QED BY <1>3, <2>1 DEF ClientGoes, TypeOK, maps
<1>4. ASSUME NEW ws \in Sockets, Disconnect(ws) PROVE TypeOK'
  <2>1. MapOK(accountSockets')
    BY <1>m, <1>4, DiscardedTyped DEF Disconnect
  <2> QED BY <1>4, <2>1 DEF Disconnect, TypeOK, MapOK, history
<1>5. ASSUME NEW j \in Orders, OnOrderEvent(j) PROVE TypeOK'
  <2> DEFINE told == SocketsOf(accountSockets, AccountOf[j])
             job == [Waiting EXCEPT !.account = AccountOf[j], !.topics = OrderTopics]
  <2>1. AccountOf[j] \in Accounts /\ j \in Jobs
    BY JobAssumption DEF Jobs
  <2>2. job \in Job /\ job.topics # <<>> /\ job.account = AccountOf[j]
    BY <2>1, WaitingTyped, TopicsTyped DEF Job
  <2>3. /\ lastBroadcast' \in [Accounts -> Nat]
        /\ owed' \in [Orders -> [Sockets -> Nat]]
    BY <1>5, <2>1, TopicsTyped DEF OnOrderEvent, TypeOK
  <2>4. IF told # {} THEN SendNext(j, job, accountSockets)
        ELSE jobs' = [jobs EXCEPT ![j] = Over]
    BY <1>5 DEF OnOrderEvent
  <2> HIDE DEF job
  <2>5. jobs' \in [Jobs -> Job] /\ \A i \in Jobs :
          jobs'[i].pc = "sending" => jobs'[i].to # {} /\ jobs'[i].account \in Accounts
    <3>1. CASE told # {}
      <4>1. SendNext(j, job, accountSockets) /\ SocketsOf(accountSockets, job.account) # {}
        BY <2>2, <2>4, <3>1
      <4>2. /\ jobs' \in [Jobs -> Job]
            /\ \A i \in Jobs \ {j} : jobs'[i] = jobs[i]
            /\ jobs'[j].to # {} /\ jobs'[j].account \in Accounts
        BY <1>m, <2>1, <2>2, <4>1, SendNextTyped
      <4> QED BY <4>2 DEF TypeOK
    <3>2. CASE told = {}
      BY <2>1, <2>4, <3>2, WaitingTyped DEF TypeOK
    <3> QED BY <3>1, <3>2
  <2> QED BY <1>5, <2>3, <2>5 DEF OnOrderEvent, TypeOK, maps, clients
<1>6. ASSUME NEW j \in Ticks, OnQuoteTick(j) \/ LookupFails(j) PROVE TypeOK'
  <2>1. PICK pc \in {"over", "lookup"} : jobs' = [jobs EXCEPT ![j].pc = pc]
    BY <1>6 DEF OnQuoteTick, LookupFails
  <2>2. j \in Jobs
    BY DEF Jobs
  <2>3. [jobs[j] EXCEPT !.pc = pc] \in Job /\ [jobs[j] EXCEPT !.pc = pc].pc = pc
    BY <2>2 DEF TypeOK, Job
  <2>4. jobs' \in [Jobs -> Job] /\ \A i \in Jobs : jobs'[i] = jobs[i] \/ jobs'[i].pc = pc
    BY <2>1, <2>2, <2>3 DEF TypeOK
  <2> QED BY <1>6, <2>4 DEF OnQuoteTick, LookupFails, TypeOK, maps, clients, history
<1>7. ASSUME NEW j \in Ticks, Lookup(j) PROVE TypeOK'
  <2>1. PICK accounts \in SUBSET Accounts :
          VisitNext(j, [jobs[j] EXCEPT !.now = clock, !.left = accounts], accountSockets)
    BY <1>7 DEF Lookup
  <2> DEFINE job == [jobs[j] EXCEPT !.now = clock, !.left = accounts]
  <2>2. job \in Job /\ job.now \in Nat /\ j \in Jobs
    BY DEF TypeOK, Job, Jobs
  <2> HIDE DEF job
  <2>3. Alone(j) /\ Visits(j, job.left, job.now)
    BY <1>m, <2>1, <2>2, VisitNextTyped DEF job
  <2>4. /\ lastBroadcast' \in [Accounts -> Nat] /\ pushes' \in [Accounts -> Nat]
        /\ jobs'[j].pc = "sending" => jobs'[j].to # {} /\ jobs'[j].account \in Accounts
    BY <2>2, <2>3, VisitsTyped
  <2> QED BY <1>7, <2>3, <2>4 DEF Lookup, TypeOK, Alone, maps, clients
<1>8. ASSUME NEW j \in Jobs, NEW ws \in Sockets, Sent(j, ws) \/ SendRaises(j, ws)
      PROVE  TypeOK'
  <2>1. jobs[j].pc = "sending"
    BY <1>8 DEF Sent, SendRaises
  <2>2. PICK raised \in BOOLEAN : SendOver(j, ws, raised)
    BY <1>8 DEF Sent, SendRaises
  <2>3. owed' \in [Orders -> [Sockets -> Nat]]
    <3>1. \/ owed' = owed
          \/ /\ j \in Orders /\ owed[j][ws] > 0
             /\ owed' = [owed EXCEPT ![j][ws] = @ - 1]
      BY <1>8 DEF Sent, SendRaises
    <3>2. owed \in [Orders -> [Sockets -> Nat]]
      BY DEF TypeOK
    <3> QED BY <3>1, <3>2, OwedTyped
  <2>4. Alone(j)
    BY <2>2, SendOverTyped
  <2>5. /\ MapOK(accountSockets')
        /\ DOMAIN socketAccounts' \subseteq Sockets
        /\ \A w \in DOMAIN socketAccounts' : socketAccounts'[w] \subseteq Accounts
        /\ lastBroadcast' \in [Accounts -> Nat] /\ pushes' \in [Accounts -> Nat]
        /\ jobs'[j].pc = "sending" => jobs'[j].to # {} /\ jobs'[j].account \in Accounts
    BY <2>1, <2>2, TablesTyped
  <2>6. UNCHANGED <<clients, clock>>
    BY <1>8 DEF Sent, SendRaises
  <2> QED BY <2>3, <2>4, <2>5, <2>6 DEF Alone, TypeOK, MapOK, clients
<1>9. CASE Elapse
  BY <1>9 DEF Elapse, TypeOK, maps, clients, history
<1>10. CASE UNCHANGED vars
  BY <1>10 DEF vars, TypeOK, maps, clients, history
<1> QED BY <1>1, <1>2, <1>3, <1>4, <1>5, <1>6, <1>7, <1>8, <1>9, <1>10 DEF Next, Send

(* Every state of the service is well formed, and an account is a key only *)
(* while a socket listens to it.                                           *)
THEOREM TypeCorrect == Spec => []TypeOK
<1> QED BY TypeInit, TypeSteps, PTL DEF Spec

---------------------------------------------------------------------------
(* What a step does to the two dictionaries.                               *)
LEMMA MapSteps ==
  ASSUME TypeOK, [Next]_vars
  PROVE  \/ UNCHANGED <<maps, receiving>>
         \/ \E ws \in Sockets, a \in Accounts : Subscribe(ws, a)
         \/ \E ws \in Sockets : Disconnect(ws)
         \/ /\ UNCHANGED receiving
            /\ \E A, W : /\ accountSockets' = Discarded(accountSockets, A, W)
                        /\ socketAccounts' = Forgotten(socketAccounts, A, W)
<1>1. ASSUME NEW j \in Jobs, NEW ws \in Sockets, Sent(j, ws) \/ SendRaises(j, ws)
      PROVE  /\ UNCHANGED receiving
             /\ \/ UNCHANGED maps
                \/ \E A, W : /\ accountSockets' = Discarded(accountSockets, A, W)
                            /\ socketAccounts' = Forgotten(socketAccounts, A, W)
  <2>1. PICK raised \in BOOLEAN : SendOver(j, ws, raised)
    BY <1>1 DEF Sent, SendRaises
  <2>2. SendEnds(j, ws, raised)
    BY <2>1, SendOverTyped
  <2>3. UNCHANGED receiving
    BY <1>1 DEF Sent, SendRaises, clients
  <2> QED BY <2>2, <2>3 DEF SendEnds
<1>2. ASSUME NEW ws \in Sockets, NEW a \in Shown[ws], Unsubscribe(ws, a)
      PROVE  /\ UNCHANGED receiving
             /\ accountSockets' = Discarded(accountSockets, {a}, {ws})
             /\ socketAccounts' = Forgotten(socketAccounts, {a}, {ws})
  BY <1>2 DEF Unsubscribe, clients
<1>3. ASSUME NEW ws \in Sockets, NEW a \in Shown[ws] PROVE a \in Accounts
  BY JobAssumption
<1>4. ASSUME NEW j \in Jobs,
             OnOrderEvent(j) \/ OnQuoteTick(j) \/ Lookup(j) \/ LookupFails(j)
      PROVE  UNCHANGED <<maps, receiving>>
  BY <1>4 DEF OnOrderEvent, OnQuoteTick, Lookup, LookupFails, clients
<1>5. ASSUME NEW ws \in Sockets, ClientGoes(ws) PROVE UNCHANGED <<maps, receiving>>
  BY <1>5 DEF ClientGoes
<1>6. Elapse \/ UNCHANGED vars => UNCHANGED <<maps, receiving>>
  BY DEF Elapse, vars, clients
<1> QED BY <1>1, <1>2, <1>3, <1>4, <1>5, <1>6 DEF Next, Send, Jobs

LEMMA SubscribeSets ==
  ASSUME NEW ws, NEW a, Subscribe(ws, a)
  PROVE  /\ DOMAIN socketAccounts' = DOMAIN socketAccounts \union {ws}
         /\ \A b, w : w \in SocketsOf(accountSockets', b) <=>
                       w \in SocketsOf(accountSockets, b) \/ (b = a /\ w = ws)
         /\ \A w, b : b \in SocketsOf(socketAccounts', w) <=>
                       b \in SocketsOf(socketAccounts, w) \/ (b = a /\ w = ws)
BY DEF Subscribe, Added, SocketsOf

LEMMA AgreeSteps == TypeOK /\ MapsAgree /\ [Next]_vars => MapsAgree'
<1> SUFFICES ASSUME TypeOK, MapsAgree, [Next]_vars,
                    NEW w \in Sockets, NEW b \in Accounts
             PROVE  w \in SocketsOf(accountSockets', b) <=> b \in SocketsOf(socketAccounts', w)
  BY DEF MapsAgree
<1>0. w \in SocketsOf(accountSockets, b) <=> b \in SocketsOf(socketAccounts, w)
  BY DEF MapsAgree
<1>1. CASE UNCHANGED <<maps, receiving>>
  BY <1>0, <1>1 DEF maps
<1>2. ASSUME NEW ws \in Sockets, NEW a \in Accounts, Subscribe(ws, a)
      PROVE  w \in SocketsOf(accountSockets', b) <=> b \in SocketsOf(socketAccounts', w)
  BY <1>0, <1>2, SubscribeSets
<1>3. ASSUME NEW ws \in Sockets, Disconnect(ws)
      PROVE  w \in SocketsOf(accountSockets', b) <=> b \in SocketsOf(socketAccounts', w)
  <2>1. SocketsOf(accountSockets', b) = SocketsOf(accountSockets, b) \
          (IF b \in SocketsOf(socketAccounts, ws) THEN {ws} ELSE {})
    BY <1>3, DiscardedSets DEF Disconnect
  <2>2. SocketsOf(socketAccounts', w) = IF w = ws THEN {} ELSE SocketsOf(socketAccounts, w)
    BY <1>3 DEF Disconnect, SocketsOf
  <2> QED BY <1>0, <2>1, <2>2
<1>4. ASSUME NEW A, NEW W, accountSockets' = Discarded(accountSockets, A, W),
             socketAccounts' = Forgotten(socketAccounts, A, W)
      PROVE  w \in SocketsOf(accountSockets', b) <=> b \in SocketsOf(socketAccounts', w)
  BY <1>0, <1>4, DiscardedSets, ForgottenSets
<1> QED BY <1>1, <1>2, <1>3, <1>4, MapSteps

(* Whatever order subscriptions, failed sends and disconnects come in, a   *)
(* socket listens to an account in one dictionary as in the other.         *)
THEOREM MapsAlwaysAgree == Spec => []MapsAgree
<1>1. Init => MapsAgree
  BY DEF Init, MapsAgree, SocketsOf
<1> QED BY <1>1, TypeCorrect, AgreeSteps, PTL DEF Spec

LEMMA GoneSteps ==
  TypeOK /\ MapsAgree /\ GoneLeavesNothing /\ [Next]_vars => GoneLeavesNothing'
<1> SUFFICES ASSUME TypeOK, MapsAgree, GoneLeavesNothing, [Next]_vars,
                    NEW w \in Sockets \ receiving'
             PROVE  /\ w \notin DOMAIN socketAccounts'
                    /\ \A b \in DOMAIN accountSockets' : w \notin accountSockets'[b]
  BY DEF GoneLeavesNothing
<1>0. w \notin receiving => /\ w \notin DOMAIN socketAccounts
                           /\ \A b \in Accounts : w \notin SocketsOf(accountSockets, b)
  BY DEF GoneLeavesNothing, SocketsOf
<1>1. SUFFICES /\ w \notin DOMAIN socketAccounts'
               /\ \A b \in Accounts : w \notin SocketsOf(accountSockets', b)
  <2>1. DOMAIN accountSockets' \subseteq Accounts
    BY TypeSteps DEF TypeOK
  <2> QED BY <1>1, <2>1, SetsOfKeys
<1>2. CASE UNCHANGED <<maps, receiving>>
  BY <1>0, <1>2 DEF maps
<1>3. ASSUME NEW ws \in Sockets, NEW a \in Accounts, Subscribe(ws, a)
      PROVE  /\ w \notin DOMAIN socketAccounts'
             /\ \A b \in Accounts : w \notin SocketsOf(accountSockets', b)
  <2>1. w # ws /\ w \notin receiving
    BY <1>3 DEF Subscribe, clients
  <2> QED BY <1>0, <1>3, <2>1, SubscribeSets
<1>4. ASSUME NEW ws \in Sockets, Disconnect(ws)
      PROVE  /\ w \notin DOMAIN socketAccounts'
             /\ \A b \in Accounts : w \notin SocketsOf(accountSockets', b)
  <2>1. /\ DOMAIN socketAccounts' = DOMAIN socketAccounts \ {ws}
        /\ w = ws \/ w \notin receiving
    BY <1>4 DEF Disconnect
  <2>2. \A b : SocketsOf(accountSockets', b) = SocketsOf(accountSockets, b) \
                 (IF b \in SocketsOf(socketAccounts, ws) THEN {ws} ELSE {})
    BY <1>4, DiscardedSets DEF Disconnect
  <2> QED BY <1>0, <2>1, <2>2 DEF MapsAgree
<1>5. ASSUME UNCHANGED receiving, NEW A, NEW W,
             accountSockets' = Discarded(accountSockets, A, W),
             socketAccounts' = Forgotten(socketAccounts, A, W)
      PROVE  /\ w \notin DOMAIN socketAccounts'
             /\ \A b \in Accounts : w \notin SocketsOf(accountSockets', b)
  BY <1>0, <1>5, DiscardedSets, ForgottenSets
<1> QED BY <1>2, <1>3, <1>4, <1>5, MapSteps

(* A closed connection leaves nothing in either dictionary.                *)
THEOREM GoneLeaves == Spec => []GoneLeavesNothing
<1>1. Init => GoneLeavesNothing
  BY DEF Init, GoneLeavesNothing
<1> QED BY <1>1, TypeCorrect, MapsAlwaysAgree, GoneSteps, PTL DEF Spec

---------------------------------------------------------------------------
(* The throttle.  A stamp is never of the future and an account has had at *)
(* most one push per interval up to its stamp; a tick's own time is that   *)
(* of its lookup.                                                          *)
Stamped(a) ==
  /\ lastBroadcast[a] <= clock
  /\ pushes[a] = 0 \/ pushes[a] * Interval <= lastBroadcast[a] - Start + Interval

ThrottleInv ==
  /\ Start <= clock
  /\ \A a \in Accounts : Stamped(a)
  /\ \A j \in Jobs : jobs[j].left # {} => Start <= jobs[j].now /\ jobs[j].now <= clock

LEMMA OneMore ==
  ASSUME NEW n \in Nat
  PROVE  (n + 1) * Interval = n * Interval + Interval
BY TimeAssumption

(* A visit at a time between the start and now keeps the throttle.         *)
LEMMA VisitThrottled ==
  ASSUME TypeOK, ThrottleInv, NEW j \in Jobs, NEW left \in SUBSET Accounts, NEW now \in Nat,
         Alone(j), Visits(j, left, now), UNCHANGED clock,
         left # {} => Start <= now /\ now <= clock
  PROVE  ThrottleInv'
<1>1. CASE jobs'[j] = Over /\ UNCHANGED <<lastBroadcast, pushes>>
  BY <1>1, WaitingTyped DEF ThrottleInv, Stamped, Alone
<1>2. CASE ~(jobs'[j] = Over /\ UNCHANGED <<lastBroadcast, pushes>>)
  <2>1. PICK a \in left :
          /\ a \in Accounts /\ now - lastBroadcast[a] >= Interval
          /\ lastBroadcast' = [lastBroadcast EXCEPT ![a] = now]
          /\ pushes' = [pushes EXCEPT ![a] = @ + 1]
    BY <1>2 DEF Visits
  <2>2. Start <= now /\ now <= clock
    BY <2>1
  <2>3. jobs'[j].now = now /\ jobs'[j].left \subseteq left
    BY <1>2 DEF Visits
  <2>4. Stamped(a)'
    <3>1. pushes'[a] = pushes[a] + 1 /\ lastBroadcast'[a] = now
      BY <2>1 DEF TypeOK
    <3>2. /\ pushes[a] \in Nat /\ lastBroadcast[a] \in Nat
          /\ pushes[a] = 0 \/ pushes[a] * Interval <= lastBroadcast[a] - Start + Interval
          /\ Interval \in Nat /\ Start \in Nat /\ pushes[a] * Interval \in Nat
      BY <2>1, TimeAssumption DEF TypeOK, ThrottleInv, Stamped
    <3>3. pushes'[a] * Interval = pushes[a] * Interval + Interval
      BY <3>1, <3>2, OneMore
    <3>4. pushes[a] = 0 => pushes[a] * Interval = 0
      BY <3>2
    <3>5. pushes'[a] * Interval <= now - Start + Interval
      BY <2>1, <2>2, <3>2, <3>3, <3>4
    <3> QED BY <2>2, <3>1, <3>5 DEF Stamped
  <2>5. \A b \in Accounts \ {a} : Stamped(b)'
    BY <2>1 DEF TypeOK, ThrottleInv, Stamped
  <2> QED BY <2>2, <2>3, <2>4, <2>5 DEF ThrottleInv, Alone
<1> QED BY <1>1, <1>2

(* A tick begins, finds no subscriber or fails to look up.                 *)
LEMMA OnlyPc ==
  ASSUME TypeOK, NEW j \in Ticks, OnQuoteTick(j) \/ LookupFails(j)
  PROVE  \A i \in Jobs : /\ jobs'[i].left = jobs[i].left /\ jobs'[i].now = jobs[i].now
                         /\ jobs'[i].dead = jobs[i].dead
                         /\ i # j => jobs'[i] = jobs[i]
<1>1. PICK pc \in {"over", "lookup"} : jobs' = [jobs EXCEPT ![j].pc = pc]
  BY DEF OnQuoteTick, LookupFails
<1> DEFINE job == [jobs[j] EXCEPT !.pc = pc]
<1>2. j \in Jobs
  BY DEF Jobs
<1>3. job.left = jobs[j].left /\ job.now = jobs[j].now /\ job.dead = jobs[j].dead
  BY <1>2 DEF TypeOK, Job
<1>4. jobs' = [jobs EXCEPT ![j] = job]
  BY <1>1
<1> HIDE DEF job
<1> QED BY <1>2, <1>3, <1>4 DEF TypeOK

LEMMA ThrottleSteps == TypeOK /\ ThrottleInv /\ [Next]_vars => ThrottleInv'
<1> SUFFICES ASSUME TypeOK, ThrottleInv, [Next]_vars PROVE ThrottleInv'
  OBVIOUS
<1>1. CASE UNCHANGED <<lastBroadcast, pushes, jobs, clock>>
  BY <1>1 DEF ThrottleInv, Stamped
<1>2. CASE Elapse
  <2>1. /\ clock' = clock + 1 /\ clock \in Nat /\ Start \in Nat
        /\ UNCHANGED <<lastBroadcast, pushes, jobs>>
    BY <1>2, TimeAssumption DEF Elapse, history, TypeOK
  <2>2. \A j \in Jobs : jobs[j].now \in Nat
    BY DEF TypeOK, Job
  <2>3. \A a \in Accounts : lastBroadcast[a] \in Nat
    BY DEF TypeOK
  <2> QED BY <2>1, <2>2, <2>3 DEF ThrottleInv, Stamped
<1>3. ASSUME NEW j \in Orders, OnOrderEvent(j) PROVE ThrottleInv'
  <2> DEFINE a == AccountOf[j]
             told == SocketsOf(accountSockets, a)
             job == [Waiting EXCEPT !.account = a, !.topics = OrderTopics]
  <2>1. a \in Accounts /\ j \in Jobs
    BY JobAssumption DEF Jobs
  <2>2. job \in Job /\ job.topics # <<>> /\ job.account = a /\ job.left = {}
    BY <2>1, WaitingTyped, TopicsTyped DEF Job
  <2>3. /\ IF told # {} THEN SendNext(j, job, accountSockets)
           ELSE jobs' = [jobs EXCEPT ![j] = Over]
        /\ lastBroadcast' = [lastBroadcast EXCEPT ![a] = clock]
        /\ UNCHANGED <<clock, pushes>>
    BY <1>3 DEF OnOrderEvent
  <2> HIDE DEF job
  <2>4. Alone(j) /\ jobs'[j].left = {}
    <3>1. CASE told # {}
      <4>1. SendNext(j, job, accountSockets) /\ SocketsOf(accountSockets, job.account) # {}
        BY <2>2, <2>3, <3>1
      <4>2. MapOK(accountSockets)
        BY DEF TypeOK, MapOK
      <4> QED BY <2>1, <2>2, <4>1, <4>2, SendNextTyped DEF Alone
    <3>2. CASE told = {}
      BY <2>1, <2>3, <3>2, WaitingTyped DEF TypeOK, Alone
    <3> QED BY <3>1, <3>2
  <2>5. Stamped(a)'
    <3>1. /\ pushes[a] \in Nat /\ lastBroadcast[a] \in Nat /\ clock \in Nat
          /\ Start \in Nat /\ Interval \in Nat /\ pushes[a] * Interval \in Nat
          /\ lastBroadcast'[a] = clock /\ pushes'[a] = pushes[a] /\ clock' = clock
      BY <2>1, <2>3, TimeAssumption DEF TypeOK
    <3>2. Stamped(a)
      BY <2>1 DEF ThrottleInv
    <3> QED BY <3>1, <3>2 DEF Stamped
  <2>6. \A b \in Accounts \ {a} : Stamped(b)'
    BY <2>3 DEF TypeOK, ThrottleInv, Stamped
  <2> QED BY <2>1, <2>3, <2>4, <2>5, <2>6 DEF ThrottleInv, Alone
<1>4. ASSUME NEW j \in Ticks, OnQuoteTick(j) \/ LookupFails(j) PROVE ThrottleInv'
  <2>1. UNCHANGED <<lastBroadcast, pushes, clock>>
    BY <1>4 DEF OnQuoteTick, LookupFails, history
  <2>2. \A i \in Jobs : jobs'[i].left = jobs[i].left /\ jobs'[i].now = jobs[i].now
    BY <1>4, OnlyPc
  <2> QED BY <2>1, <2>2 DEF ThrottleInv, Stamped
<1>5. ASSUME NEW j \in Ticks, Lookup(j) PROVE ThrottleInv'
  <2>1. PICK accounts \in SUBSET Accounts :
          VisitNext(j, [jobs[j] EXCEPT !.now = clock, !.left = accounts], accountSockets)
    BY <1>5 DEF Lookup
  <2> DEFINE job == [jobs[j] EXCEPT !.now = clock, !.left = accounts]
  <2>2. /\ job \in Job /\ job.now = clock /\ job.left = accounts /\ j \in Jobs
        /\ clock \in Nat /\ Start <= clock
    BY DEF TypeOK, Job, Jobs, ThrottleInv
  <2>3. MapOK(accountSockets)
    BY DEF TypeOK, MapOK
  <2> HIDE DEF job
  <2>4. Alone(j) /\ Visits(j, accounts, clock)
    BY <2>1, <2>2, <2>3, VisitNextTyped DEF job
  <2>5. UNCHANGED clock
    BY <1>5 DEF Lookup
  <2> QED BY <2>2, <2>4, <2>5, VisitThrottled
<1>6. ASSUME NEW j \in Jobs, NEW ws \in Sockets, Sent(j, ws) \/ SendRaises(j, ws)
      PROVE  ThrottleInv'
  <2>1. PICK raised \in BOOLEAN : SendOver(j, ws, raised)
    BY <1>6 DEF Sent, SendRaises
  <2>2. Alone(j) /\ SendEnds(j, ws, raised)
    BY <2>1, SendOverTyped
  <2>3. UNCHANGED clock
    BY <1>6 DEF Sent, SendRaises
  <2>4. /\ jobs[j] \in Job /\ jobs[j].left \in SUBSET Accounts /\ jobs[j].now \in Nat
        /\ jobs[j].left # {} => Start <= jobs[j].now /\ jobs[j].now <= clock
    BY DEF TypeOK, Job, ThrottleInv
  <2>5. CASE Visits(j, jobs[j].left, jobs[j].now)
    BY <2>2, <2>3, <2>4, <2>5, VisitThrottled
  <2>6. CASE ~Visits(j, jobs[j].left, jobs[j].now)
    <3>1. /\ jobs'[j].left = jobs[j].left /\ jobs'[j].now = jobs[j].now
          /\ UNCHANGED <<lastBroadcast, pushes>>
      BY <2>2, <2>4, <2>6 DEF SendEnds, Job
    <3> QED BY <2>2, <2>3, <2>4, <3>1 DEF ThrottleInv, Stamped, Alone
  <2> QED BY <2>5, <2>6
<1>7. ASSUME NEW ws \in Sockets,
             ClientGoes(ws) \/ Disconnect(ws) \/
               \E a \in Shown[ws] : Subscribe(ws, a) \/ Unsubscribe(ws, a)
      PROVE  UNCHANGED <<lastBroadcast, pushes, jobs, clock>>
  BY <1>7 DEF ClientGoes, Disconnect, Subscribe, Unsubscribe, history
<1>8. UNCHANGED vars => UNCHANGED <<lastBroadcast, pushes, jobs, clock>>
  BY DEF vars, history
<1> QED BY <1>1, <1>2, <1>3, <1>4, <1>5, <1>6, <1>7, <1>8 DEF Next, Send

(* However many ticks run at once, and however long their sends take, the  *)
(* pushes begun for an account are at most one at first and one per        *)
(* interval since.                                                         *)
THEOREM TicksAlwaysThrottled == Spec => []TicksThrottled
<1>1. Init => ThrottleInv
  <2> SUFFICES ASSUME Init PROVE ThrottleInv
    OBVIOUS
  <2>1. \A j \in Jobs : jobs[j].left = {}
    BY WaitingTyped DEF Init
  <2>2. Start \in Nat /\ clock = Start /\ \A a \in Accounts : lastBroadcast[a] = 0 /\ pushes[a] = 0
    BY TimeAssumption DEF Init
  <2> QED BY <2>1, <2>2 DEF ThrottleInv, Stamped
<1>2. TypeOK /\ ThrottleInv => TicksThrottled
  <2> SUFFICES ASSUME TypeOK, ThrottleInv, NEW a \in Accounts
               PROVE  pushes[a] * Interval <= clock - Start + Interval
    BY DEF TicksThrottled
  <2>1. /\ pushes[a] \in Nat /\ lastBroadcast[a] \in Nat /\ clock \in Nat
        /\ Start \in Nat /\ Interval \in Nat /\ Start <= clock /\ Stamped(a)
        /\ pushes[a] * Interval \in Nat
    BY TimeAssumption DEF TypeOK, ThrottleInv
  <2>2. pushes[a] = 0 => pushes[a] * Interval = 0
    BY <2>1
  <2> QED BY <2>1, <2>2 DEF Stamped
<1> QED BY <1>1, <1>2, TypeCorrect, ThrottleSteps, PTL DEF Spec

---------------------------------------------------------------------------
(* An order's event.  What is still owed to a client is one message per    *)
(* topic to come, and the one under way unless it has had it; and nobody   *)
(* but itself can take it out of the subscribers: the sockets a push will  *)
(* discard belong to clients that are gone.                                *)
ToCome(job, ws) == Len(job.topics) + IF ws \in job.to THEN 1 ELSE 0

EventInv ==
  /\ \A j \in Jobs : jobs[j].dead \intersect alive = {}
  /\ \A j \in Orders :
       /\ jobs[j].left = {} /\ jobs[j].pc # "lookup"
       /\ jobs[j].pc = "sending" => jobs[j].account = AccountOf[j]
  /\ \A j \in Orders, ws \in Sockets : owed[j][ws] # 0 =>
       /\ jobs[j].pc = "sending" /\ ws \in alive
       /\ ws \in SocketsOf(accountSockets, AccountOf[j])
       /\ owed[j][ws] = ToCome(jobs[j], ws)

LEMMA EventInit == Init => EventInv
<1> SUFFICES ASSUME Init PROVE EventInv
  OBVIOUS
<1>1. \A j \in Jobs : jobs[j].left = {} /\ jobs[j].dead = {} /\ jobs[j].pc = "waiting"
  BY WaitingTyped DEF Init
<1>2. \A j \in Orders, ws \in Sockets : owed[j][ws] = 0
  BY DEF Init
<1> QED BY <1>1, <1>2 DEF EventInv, Jobs

LEMMA OnOrderEventKeeps ==
  ASSUME TypeOK, EventInv, NEW j \in Orders, OnOrderEvent(j)
  PROVE  EventInv'
<1> DEFINE a == AccountOf[j]
           told == SocketsOf(accountSockets, a)
           job == [Waiting EXCEPT !.account = a, !.topics = OrderTopics]
<1>1. a \in Accounts /\ j \in Jobs
  BY JobAssumption DEF Jobs
<1>2. job \in Job /\ job.topics = OrderTopics /\ job.account = a /\ job.left = {}
  BY <1>1, WaitingTyped, TopicsTyped DEF Job
<1>3. /\ IF told # {} THEN SendNext(j, job, accountSockets)
         ELSE jobs' = [jobs EXCEPT ![j] = Over]
      /\ UNCHANGED <<accountSockets, alive>>
      /\ owed' = [owed EXCEPT ![j] = [ws \in Sockets |->
                    IF ws \in told \intersect alive THEN Len(OrderTopics) ELSE 0]]
  BY DEF OnOrderEvent, maps, clients
<1> HIDE DEF job
<1>4. /\ \A i \in Orders \ {j} : owed'[i] = owed[i]
      /\ \A ws \in Sockets : owed'[j][ws] = IF ws \in told \intersect alive THEN 3 ELSE 0
  BY <1>3, TopicsTyped DEF TypeOK
<1>5. CASE told # {}
  <2>1. SendNext(j, job, accountSockets) /\ SocketsOf(accountSockets, job.account) # {}
    BY <1>2, <1>3, <1>5
  <2>2. MapOK(accountSockets)
    BY DEF TypeOK, MapOK
  <2>3. job.topics # <<>>
    BY <1>2, TopicsTyped
  <2>4. /\ \A i \in Jobs \ {j} : jobs'[i] = jobs[i]
        /\ jobs'[j].pc = "sending" /\ jobs'[j].account = job.account
        /\ jobs'[j].to = SocketsOf(accountSockets, job.account)
        /\ jobs'[j].dead = {} /\ jobs'[j].left = job.left /\ jobs'[j].topics = Tail(job.topics)
    BY <1>1, <1>2, <2>1, <2>2, <2>3, SendNextTyped
  <2>5. ASSUME NEW ws \in Sockets, owed'[j][ws] # 0
        PROVE  ws \in told /\ ws \in alive /\ owed'[j][ws] = ToCome(jobs'[j], ws)
    <3>1. ws \in told /\ ws \in alive /\ owed'[j][ws] = 3
      BY <1>4, <2>5
    <3>2. Len(jobs'[j].topics) = 2 /\ ws \in jobs'[j].to
      BY <1>2, <2>4, <3>1 DEF OrderTopics
    <3> QED BY <3>1, <3>2 DEF ToCome
  <2> QED BY <1>2, <1>3, <1>4, <2>4, <2>5 DEF EventInv, Jobs
<1>6. CASE told = {}
  <2>1. jobs'[j] = Over /\ \A i \in Jobs \ {j} : jobs'[i] = jobs[i]
    BY <1>1, <1>3, <1>6 DEF TypeOK
  <2>2. \A ws \in Sockets : owed'[j][ws] = 0
    BY <1>4, <1>6
  <2> QED BY <1>3, <1>4, <2>1, <2>2, WaitingTyped DEF EventInv, Jobs
<1> QED BY <1>5, <1>6

(* A send's end, of whichever call.                                        *)
LEMMA SendKeeps ==
  ASSUME TypeOK, EventInv, NEW j \in Jobs, NEW ws \in Sockets,
         Sent(j, ws) \/ SendRaises(j, ws)
  PROVE  EventInv'
<1>1. PICK raised \in BOOLEAN :
        /\ SendOver(j, ws, raised)
        /\ raised => ws \notin alive
        /\ owed' = IF ~raised /\ j \in Orders /\ owed[j][ws] > 0
                   THEN [owed EXCEPT ![j][ws] = @ - 1] ELSE owed
  <2>1. CASE Sent(j, ws)
    BY <2>1 DEF Sent
  <2>2. CASE SendRaises(j, ws)
    BY <2>2 DEF SendRaises
  <2> QED BY <2>1, <2>2
<1>2. /\ jobs[j].pc = "sending" /\ ws \in jobs[j].to /\ UNCHANGED alive
  BY DEF Sent, SendRaises, clients
<1>3. Alone(j) /\ SendEnds(j, ws, raised)
  BY <1>1, SendOverTyped
<1> DEFINE job == jobs[j]
           dead == IF raised THEN job.dead \union {ws} ELSE job.dead
<1>4. job \in Job /\ job.topics \in Seq(Topics) /\ dead \intersect alive = {}
  BY <1>1 DEF TypeOK, Job, EventInv
(* The subscribers that are alive stay.                                    *)
<1>5. \A a \in Accounts : SocketsOf(accountSockets', a) \intersect alive =
                           SocketsOf(accountSockets, a) \intersect alive
  BY <1>3, <1>4, DiscardedSets DEF SendEnds, maps
<1>6. jobs'[j].dead \intersect alive = {}
  BY <1>3, <1>4 DEF SendEnds, Visits, Job
(* What is owed to the others stays; to the one sent to, one less.         *)
<1>7. /\ \A i \in Orders, w \in Sockets : owed[i][w] \in Nat
      /\ \A i \in Orders, w \in Sockets :
           owed'[i][w] = IF i = j /\ w = ws /\ ~raised /\ owed[i][w] > 0
                         THEN owed[i][w] - 1 ELSE owed[i][w]
  <2>1. \A i \in Orders, w \in Sockets : owed[i][w] \in Nat
    BY DEF TypeOK
  <2>2. CASE ~raised /\ j \in Orders /\ owed[j][ws] > 0
    <3>1. owed' = [owed EXCEPT ![j] = [owed[j] EXCEPT ![ws] = @ - 1]]
      BY <1>1, <2>2
    <3> QED BY <2>1, <2>2, <3>1 DEF TypeOK
  <2>3. CASE ~(~raised /\ j \in Orders /\ owed[j][ws] > 0)
    BY <1>1, <2>1, <2>3
  <2> QED BY <2>1, <2>2, <2>3
<1>8. \A i \in Orders : AccountOf[i] \in Accounts
  BY JobAssumption
<1>9. ASSUME NEW i \in Orders, i # j, NEW w \in Sockets, owed'[i][w] # 0
      PROVE  /\ jobs'[i].pc = "sending" /\ w \in alive'
             /\ w \in SocketsOf(accountSockets', AccountOf[i])
             /\ owed'[i][w] = ToCome(jobs'[i], w)
  <2>1. jobs'[i] = jobs[i] /\ owed'[i][w] = owed[i][w]
    BY <1>3, <1>7, <1>9 DEF Alone, Jobs
  <2>2. w \in alive /\ w \in SocketsOf(accountSockets, AccountOf[i])
    BY <1>9, <2>1 DEF EventInv
  <2> QED BY <1>2, <1>5, <1>8, <1>9, <2>1, <2>2 DEF EventInv
<1>10. ASSUME j \in Orders
       PROVE  /\ jobs'[j].left = {} /\ jobs'[j].pc # "lookup"
              /\ jobs'[j].pc = "sending" => jobs'[j].account = AccountOf[j]
              /\ \A w \in Sockets : owed'[j][w] # 0 =>
                   /\ jobs'[j].pc = "sending" /\ w \in alive'
                   /\ w \in SocketsOf(accountSockets', AccountOf[j])
                   /\ owed'[j][w] = ToCome(jobs'[j], w)
  <2>1. job.left = {} /\ job.account = AccountOf[j]
    BY <1>2, <1>10 DEF EventInv
  (* A client still owed something is a subscriber that is alive.          *)
  <2>2. ASSUME NEW w \in Sockets, owed'[j][w] # 0
        PROVE  /\ w \in alive /\ w \in SocketsOf(accountSockets', AccountOf[j])
               /\ owed'[j][w] = Len(job.topics) + IF w \in job.to \ {ws} THEN 1 ELSE 0
    <3>1. owed[j][w] # 0
      BY <1>7, <1>10, <2>2
    <3>2. /\ w \in alive /\ w \in SocketsOf(accountSockets, AccountOf[j])
          /\ owed[j][w] = Len(job.topics) + IF w \in job.to THEN 1 ELSE 0
      BY <1>10, <3>1 DEF EventInv, ToCome
    <3>3. w = ws => ~raised
      BY <1>1, <3>2
    <3>4. Len(job.topics) \in Nat /\ owed[j][w] > 0
      BY <1>4, <1>7, <1>10, <3>1
    <3>5. owed'[j][w] = Len(job.topics) + IF w \in job.to \ {ws} THEN 1 ELSE 0
      <4>1. CASE w = ws
        <5>1. owed'[j][w] = owed[j][w] - 1 /\ owed[j][w] = Len(job.topics) + 1
          BY <1>2, <1>7, <1>10, <3>2, <3>3, <3>4, <4>1
        <5> QED BY <3>4, <4>1, <5>1
      <4>2. CASE w # ws
        <5>1. owed'[j][w] = owed[j][w]
          BY <1>7, <1>10, <4>2
        <5> QED BY <3>2, <4>2, <5>1
      <4> QED BY <4>1, <4>2
    <3> QED BY <1>5, <1>8, <1>10, <3>2, <3>5
  <2>3. CASE job.to \ {ws} # {}
    <3>1. jobs'[j] = [job EXCEPT !.to = @ \ {ws}, !.dead = dead]
      BY <1>3, <2>3 DEF SendEnds
    <3>2. /\ jobs'[j].to = job.to \ {ws} /\ jobs'[j].topics = job.topics
          /\ jobs'[j].pc = "sending" /\ jobs'[j].account = job.account
          /\ jobs'[j].left = job.left
      BY <1>2, <1>4, <3>1 DEF Job
    <3> QED BY <1>2, <2>1, <2>2, <3>2 DEF ToCome
  <2>4. CASE job.to \ {ws} = {} /\ job.topics # <<>> /\ SocketsOf(accountSockets', job.account) # {}
    <3>1. ~Visits(j, job.left, job.now) \/ jobs'[j].pc = "sending"
      BY <1>3, <2>4 DEF SendEnds
    <3>2. /\ jobs'[j].pc = "sending" /\ jobs'[j].account = job.account
          /\ jobs'[j].to = SocketsOf(accountSockets', job.account)
          /\ jobs'[j].topics = Tail(job.topics) /\ jobs'[j].left = job.left
      BY <1>3, <2>4 DEF SendEnds
    <3>3. Len(Tail(job.topics)) = Len(job.topics) - 1 /\ Len(job.topics) \in Nat
      BY <1>4, <2>4
    <3>4. ASSUME NEW w \in Sockets, owed'[j][w] # 0 PROVE owed'[j][w] = ToCome(jobs'[j], w)
      <4>1. w \notin job.to \ {ws} /\ owed'[j][w] = Len(job.topics) + 0
        BY <2>2, <2>4, <3>4
      <4>2. w \in jobs'[j].to
        BY <2>1, <2>2, <3>2, <3>4
      <4> QED BY <3>2, <3>3, <4>1, <4>2 DEF ToCome
    <3> QED BY <1>2, <2>1, <2>2, <3>2, <3>4
  <2>5. CASE job.to \ {ws} = {} /\ (job.topics = <<>> \/ SocketsOf(accountSockets', job.account) = {})
    <3>1. Visits(j, job.left, job.now)
      BY <1>3, <2>5 DEF SendEnds
    <3>2. jobs'[j] = Over
      BY <2>1, <3>1 DEF Visits
    <3>3. \A w \in Sockets : owed'[j][w] = 0
      <4> SUFFICES ASSUME NEW w \in Sockets, owed'[j][w] # 0 PROVE FALSE
        OBVIOUS
      <4>0. w \notin job.to \ {ws} /\ Len(job.topics) \in Nat
        BY <1>4, <2>5
      <4>1. /\ w \in SocketsOf(accountSockets', AccountOf[j])
            /\ owed'[j][w] = Len(job.topics) + 0
        BY <2>2, <4>0
      <4>3. w \in SocketsOf(accountSockets', job.account) /\ owed'[j][w] = Len(job.topics)
        BY <2>1, <4>0, <4>1
      <4>2. job.topics = <<>> => Len(job.topics) = 0
        OBVIOUS
      <4> QED BY <2>5, <4>2, <4>3
    <3> QED BY <3>2, <3>3, WaitingTyped
  <2> QED BY <2>3, <2>4, <2>5
<1>11. \A i \in Jobs \ {j} : jobs'[i] = jobs[i]
  BY <1>3 DEF Alone
<1> HIDE DEF job, dead
<1> QED BY <1>2, <1>6, <1>9, <1>10, <1>11 DEF EventInv, Jobs

(* The orders' calls are where they were, while clients come and go and    *)
(* ticks run.                                                              *)
LEMMA OthersKeep ==
  ASSUME EventInv, alive' \subseteq alive,
         \A i \in Orders : jobs'[i] = jobs[i],
         \A i \in Jobs : jobs'[i].dead = jobs[i].dead \/ jobs'[i].dead = {},
         \A i \in Orders, w \in Sockets :
           owed'[i][w] # 0 =>
             /\ owed'[i][w] = owed[i][w]
             /\ w \in alive => w \in alive'
             /\ w \in SocketsOf(accountSockets, AccountOf[i]) =>
                 w \in SocketsOf(accountSockets', AccountOf[i])
  PROVE  EventInv'
<1>1. ASSUME NEW i \in Orders, NEW w \in Sockets, owed'[i][w] # 0
      PROVE  /\ jobs'[i].pc = "sending" /\ w \in alive'
             /\ w \in SocketsOf(accountSockets', AccountOf[i])
             /\ owed'[i][w] = ToCome(jobs'[i], w)
  <2>1. /\ owed[i][w] # 0 /\ owed'[i][w] = owed[i][w] /\ jobs'[i] = jobs[i]
        /\ w \in alive => w \in alive'
        /\ w \in SocketsOf(accountSockets, AccountOf[i]) =>
            w \in SocketsOf(accountSockets', AccountOf[i])
    BY <1>1
  <2>2. /\ jobs[i].pc = "sending" /\ w \in alive
        /\ w \in SocketsOf(accountSockets, AccountOf[i])
        /\ owed[i][w] = ToCome(jobs[i], w)
    BY <2>1 DEF EventInv
  <2> QED BY <2>1, <2>2
<1>2. \A j \in Jobs : jobs'[j].dead \intersect alive' = {}
  BY DEF EventInv
<1>3. \A j \in Orders : /\ jobs'[j].left = {} /\ jobs'[j].pc # "lookup"
                        /\ jobs'[j].pc = "sending" => jobs'[j].account = AccountOf[j]
  BY DEF EventInv
<1> QED BY <1>1, <1>2, <1>3 DEF EventInv

LEMMA EventSteps == TypeOK /\ EventInv /\ [Next]_vars => EventInv'
<1> SUFFICES ASSUME TypeOK, EventInv, [Next]_vars PROVE EventInv'
  OBVIOUS
<1>0. \A i \in Orders : AccountOf[i] \in Accounts
  BY JobAssumption
<1>1. ASSUME NEW ws \in Sockets, NEW a \in Shown[ws], Subscribe(ws, a) PROVE EventInv'
  <2>1. UNCHANGED <<alive, jobs, owed>>
    BY <1>1 DEF Subscribe, clients, history
  <2>2. \A b, w : w \in SocketsOf(accountSockets, b) => w \in SocketsOf(accountSockets', b)
    BY <1>1, SubscribeSets
  <2> QED BY <2>1, <2>2, OthersKeep
<1>2. ASSUME NEW ws \in Sockets, NEW a \in Shown[ws], Unsubscribe(ws, a) PROVE EventInv'
  <2>1. UNCHANGED <<alive, jobs>>
    BY <1>2 DEF Unsubscribe, clients
  <2>2. \A i \in Orders, w \in Sockets :
          owed'[i][w] = IF AccountOf[i] = a /\ w = ws THEN 0 ELSE owed[i][w]
    BY <1>2 DEF Unsubscribe, TypeOK
  <2>3. \A b, w : (b # a \/ w # ws) /\ w \in SocketsOf(accountSockets, b) =>
                   w \in SocketsOf(accountSockets', b)
    BY <1>2, DiscardedSets DEF Unsubscribe
  <2> QED BY <2>1, <2>2, <2>3, OthersKeep
<1>3. ASSUME NEW ws \in Sockets, ClientGoes(ws) PROVE EventInv'
  <2>1. UNCHANGED <<accountSockets, jobs>> /\ alive' = alive \ {ws}
    BY <1>3 DEF ClientGoes, maps
  <2>2. \A i \in Orders, w \in Sockets : owed'[i][w] = IF w = ws THEN 0 ELSE owed[i][w]
    BY <1>3 DEF ClientGoes, TypeOK
  <2> QED BY <2>1, <2>2, OthersKeep
<1>4. ASSUME NEW ws \in Sockets, Disconnect(ws) PROVE EventInv'
  <2>1. UNCHANGED <<alive, jobs, owed>> /\ ws \notin alive
    BY <1>4 DEF Disconnect, history
  <2>2. \A b, w : w # ws /\ w \in SocketsOf(accountSockets, b) =>
                   w \in SocketsOf(accountSockets', b)
    BY <1>4, DiscardedSets DEF Disconnect
  <2>3. \A i \in Orders : owed[i][ws] = 0
    BY <2>1 DEF EventInv
  <2> QED BY <2>1, <2>2, <2>3, OthersKeep
<1>5. ASSUME NEW j \in Ticks, OnQuoteTick(j) \/ LookupFails(j) PROVE EventInv'
  <2>1. UNCHANGED <<accountSockets, alive, owed>> /\ j \notin Orders
    BY <1>5, JobAssumption DEF OnQuoteTick, LookupFails, maps, clients, history
  <2>2. \A i \in Jobs : jobs'[i].dead = jobs[i].dead /\ (i # j => jobs'[i] = jobs[i])
    BY <1>5, OnlyPc
  <2> QED BY <2>1, <2>2, OthersKeep DEF Jobs
<1>6. ASSUME NEW j \in Ticks, Lookup(j) PROVE EventInv'
  <2>1. PICK accounts \in SUBSET Accounts :
          VisitNext(j, [jobs[j] EXCEPT !.now = clock, !.left = accounts], accountSockets)
    BY <1>6 DEF Lookup
  <2> DEFINE job == [jobs[j] EXCEPT !.now = clock, !.left = accounts]
  <2>2. job \in Job /\ j \in Jobs
    BY DEF TypeOK, Job, Jobs
  <2>3. MapOK(accountSockets)
    BY DEF TypeOK, MapOK
  <2> HIDE DEF job
  <2>4. Alone(j) /\ jobs'[j].dead = {}
    BY <2>1, <2>2, <2>3, VisitNextTyped DEF job, Visits
  <2>5. UNCHANGED <<accountSockets, alive, owed>> /\ j \notin Orders
    BY <1>6, JobAssumption DEF Lookup, maps, clients
  <2>6. \A i \in Jobs \ {j} : jobs'[i] = jobs[i]
    BY <2>4 DEF Alone
  <2> QED BY <2>4, <2>5, <2>6, OthersKeep DEF Jobs
<1>7. Elapse \/ UNCHANGED vars => UNCHANGED <<accountSockets, alive, jobs, owed>>
  BY DEF Elapse, vars, maps, clients, history
<1>8. UNCHANGED <<accountSockets, alive, jobs, owed>> => EventInv'
  BY DEF EventInv, ToCome
<1> QED BY <1>1, <1>2, <1>3, <1>4, <1>5, <1>6, <1>7, <1>8, OnOrderEventKeeps, SendKeeps
        DEF Next, Send

(* A client subscribed and there from an order's event to its end got all  *)
(* of its messages, whatever the other clients, orders and ticks did.      *)
THEOREM OrderAlwaysReaches == Spec => []OrderReachesSubscribers
<1>1. EventInv => OrderReachesSubscribers
  BY DEF EventInv, OrderReachesSubscribers
<1> QED BY <1>1, EventInit, TypeCorrect, EventSteps, PTL DEF Spec
=============================================================================
