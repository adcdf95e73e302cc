--------------------------- MODULE MarketDataProofs ---------------------------
(***************************************************************************)
(* The simulator's loop and its broadcasts, for any clients, symbols and   *)
(* subscriptions; then the candles, for any quotes in any order.  The two  *)
(* components share no state.                                              *)
(***************************************************************************)
EXTENDS MarketStream, CandleService, FiniteSetTheorems, WellFoundedInduction, TLAPS

(* A set of natural numbers that is not empty has a least one. *)
LEMMA NatLeast ==
  ASSUME NEW S \in SUBSET Nat, S # {}
  PROVE  \E m \in S : \A n \in S : m <= n
<1>1. PICK less : less = OpToRel(<, Nat)
  OBVIOUS
<1>2. IsWellFoundedOn(less, Nat)
  BY <1>1, NatLessThanWellFounded
<1>3. PICK m \in S : \A n \in S : ~ (<<n, m>> \in less)
  BY <1>2, WFMin
<1>4. \A m1, n1 \in Nat : n1 < m1 => <<n1, m1>> \in less
  BY <1>1 DEF OpToRel
<1>5. ASSUME NEW n \in S PROVE m <= n
  <2>1. ~ (n < m)
    BY <1>3, <1>4
  <2> QED BY <2>1
<1> QED BY <1>5

LEMMA MinIsLeast ==
  ASSUME NEW S \in SUBSET Nat, S # {}
  PROVE  Min(S) \in S /\ \A n \in S : Min(S) <= n
BY NatLeast DEF Min

(* The members of a finite set of numbers are told apart by how many are   *)
(* below them, from none to all but one.                                   *)
Below(S, m) == {n \in S : n < m}

LEMMA Ranked ==
  ASSUME NEW S \in SUBSET Int, IsFiniteSet(S)
  PROVE  /\ \A i \in 1..Cardinality(S) : \E m \in S : Cardinality(Below(S, m)) = i - 1
         /\ \A m, k \in S : Cardinality(Below(S, m)) = Cardinality(Below(S, k)) => m = k
         /\ \A m \in S : Cardinality(Below(S, m)) + 1 \in 1..Cardinality(S)
<1> DEFINE f == [m \in S |-> Cardinality(Below(S, m))]
<1>1. PICK n \in Nat : n = Cardinality(S)
  BY FS_CardinalityType
<1>2. \A m \in S : Below(S, m) \in SUBSET S /\ IsFiniteSet(Below(S, m))
                   /\ Cardinality(Below(S, m)) \in Nat
  <2>1. \A m \in S : Below(S, m) \in SUBSET S
    BY DEF Below
  <2> QED BY <2>1, FS_Subset, FS_CardinalityType
<1>3. ASSUME NEW m \in S, NEW k \in S, m < k
      PROVE  Cardinality(Below(S, m)) < Cardinality(Below(S, k))
  <2>1. ASSUME NEW z \in Below(S, m) PROVE z \in Below(S, k) \ {m}
    <3>1. m \in Int /\ k \in Int /\ z \in Int /\ z \in S /\ z < m
      BY DEF Below
    <3> QED BY <1>3, <3>1 DEF Below
  <2>2. Below(S, m) \in SUBSET (Below(S, k) \ {m})
    BY <2>1
  <2>3. m \in Below(S, k)
    BY <1>3 DEF Below
  <2>4. /\ IsFiniteSet(Below(S, k) \ {m})
        /\ Cardinality(Below(S, k) \ {m}) = Cardinality(Below(S, k)) - 1
    BY <1>2, <2>3, FS_RemoveElement
  <2>5. Cardinality(Below(S, m)) <= Cardinality(Below(S, k) \ {m})
    BY <2>2, <2>4, FS_Subset
  <2> QED BY <1>2, <2>4, <2>5
<1>4. ASSUME NEW m \in S PROVE Cardinality(Below(S, m)) \in 0..(n - 1)
  <2>1. Below(S, m) \in SUBSET (S \ {m})
    BY DEF Below
  <2>2. IsFiniteSet(S \ {m}) /\ Cardinality(S \ {m}) = n - 1
    BY <1>1, FS_RemoveElement
  <2>3. Cardinality(Below(S, m)) <= n - 1
    BY <2>1, <2>2, FS_Subset
  <2> QED BY <1>1, <1>2, <2>3
<1>5. f \in [S -> 0..(n - 1)]
  BY <1>4
<1>6. ASSUME NEW m \in S, NEW k \in S, f[m] = f[k] PROVE m = k
  <2>1. m \in Int /\ k \in Int /\ f[m] \in Int /\ f[k] \in Int
    BY <1>2
  <2>2. ~(m < k) /\ ~(k < m)
    BY <1>3, <1>6, <2>1
  <2> QED BY <2>1, <2>2
<1>7. f \in Injection(S, 0..(n - 1))
  <2> HIDE DEF f
  <2> QED BY <1>5, <1>6 DEF Injection, IsInjective
<1>8. IsFiniteSet(0..(n - 1)) /\ Cardinality(0..(n - 1)) = n
  <2>1. 0 \in Int /\ n - 1 \in Int
    BY <1>1
  <2>2. IsFiniteSet(0..(n - 1)) /\ Cardinality(0..(n - 1)) = IF 0 > n - 1 THEN 0 ELSE n - 1 - 0 + 1
    BY <2>1, FS_Interval
  <2> QED BY <1>1, <2>2
<1>9. f \in Surjection(S, 0..(n - 1))
  <2> HIDE DEF f
  <2> QED BY <1>1, <1>7, <1>8, FS_Injection
<1>10. ASSUME NEW i \in 1..n PROVE \E m \in S : f[m] = i - 1
  <2>1. i - 1 \in 0..(n - 1)
    OBVIOUS
  <2> HIDE DEF f
  <2> QED BY <1>9, <2>1 DEF Surjection
<1>11. \A m \in S : Cardinality(Below(S, m)) + 1 \in 1..n
  BY <1>4
<1> QED BY <1>1, <1>6, <1>10, <1>11

---------------------------------------------------------------------------
Entry == Sockets \union {Gap}
Walk  == [pos : Nat \ {0}, left : Nat, size : Nat, to : Entry, dead : SUBSET Sockets]
Pcs   == {"price", "cache", "quote", "ingest", "candle", "push", "asleep", "stopped"}
Sending == loop.pc \in {"quote", "candle"}

Typed ==
  /\ entries \in Seq(Entry)
  /\ subscriptions \in [Sockets -> SUBSET Symbols]
  /\ endpoint \in [Sockets -> {"out", "receiving", "over"}]
  /\ alive \subseteq Sockets /\ owed \subseteq alive
  /\ loop \in [pc : Pcs, at : DOMAIN Watched]
  /\ walk \in Walk /\ walk.left <= walk.size
  /\ moved \subseteq Symbols /\ packed \in BOOLEAN

(* A connection is listed once, while its endpoint receives.               *)
Listed ==
  /\ \A i, j \in DOMAIN entries : entries[i] = entries[j] /\ entries[i] # Gap => i = j
  /\ \A ws \in Sockets : Present(ws) => endpoint[ws] = "receiving"

Dead == walk.dead \intersect alive = {}

(* What a broadcast still owes lies ahead of it, or is what it sends now,  *)
(* unless the entries were moved up under it.                              *)
Ahead(ws, pos) ==
  \E i \in DOMAIN entries : i >= pos /\ entries[i] = ws /\ Symbol \in subscriptions[ws]
Owing ==
  /\ Sending /\ ~packed => \A ws \in owed : ws = walk.to \/ Ahead(ws, walk.pos)
  /\ loop.pc \in {"ingest", "push"} /\ ~packed => owed = {}

(* The symbols behind the loop have moved since the tick began.            *)
Moved ==
  \A i \in DOMAIN Watched :
    i < loop.at \/ (i = loop.at /\ loop.pc \in {"cache", "quote", "ingest", "candle", "push"})
      => Watched[i] \in moved

(* A broadcast under way is at a connection.                               *)
Places == (walk = NoWalk <=> ~Sending) /\ (Sending => walk.to \in Sockets)

StreamInv == Typed /\ Listed /\ Places /\ Dead /\ Owing /\ Moved

---------------------------------------------------------------------------
LEMMA EntriesTyped ==
  ASSUME Typed
  PROVE  /\ DOMAIN entries \in SUBSET (Nat \ {0}) /\ IsFiniteSet(DOMAIN entries)
         /\ \A i \in DOMAIN entries : entries[i] \in Entry
         /\ \A i \in DOMAIN entries : entries[i] # Gap => entries[i] \in Sockets
<1>1. Len(entries) \in Nat /\ DOMAIN entries = 1..Len(entries)
  BY DEF Typed
<1>2. IsFiniteSet(1..Len(entries))
  BY <1>1, FS_Interval
<1>3. \A i \in DOMAIN entries : entries[i] \in Entry
  BY <1>1 DEF Typed
<1> QED BY <1>1, <1>2, <1>3 DEF Entry

LEMMA SizeTyped ==
  ASSUME Typed
  PROVE  Size \in Nat
<1>1. {i \in DOMAIN entries : entries[i] # Gap} \in SUBSET DOMAIN entries
  OBVIOUS
<1>2. IsFiniteSet({i \in DOMAIN entries : entries[i] # Gap})
  BY <1>1, EntriesTyped, FS_Subset
<1> QED BY <1>2, FS_CardinalityType DEF Size, Filled

(* Removing connections leaves gaps and the others where they were.        *)
LEMMA WithoutKeeps ==
  ASSUME Typed, NEW gone \in SUBSET Sockets
  PROVE  /\ Without(gone) \in Seq(Entry)
         /\ DOMAIN Without(gone) = DOMAIN entries
         /\ \A i \in DOMAIN entries :
              Without(gone)[i] = IF entries[i] \in gone THEN Gap ELSE entries[i]
<1>1. DOMAIN entries = 1..Len(entries) /\ Len(entries) \in Nat
  BY DEF Typed
<1>2. \A i \in 1..Len(entries) : (IF entries[i] \in gone THEN Gap ELSE entries[i]) \in Entry
  BY <1>1, EntriesTyped DEF Entry
<1>3. Without(gone) = [i \in 1..Len(entries) |-> IF entries[i] \in gone THEN Gap ELSE entries[i]]
  BY <1>1 DEF Without
<1> QED BY <1>1, <1>2, <1>3

---------------------------------------------------------------------------
(* A broadcast moves on in one of three ways: it raises, it comes to its   *)
(* end past every subscriber, or it stops at the next one.                 *)
Raises == loop' = [pc |-> "asleep", at |-> 1] /\ walk' = NoWalk /\ entries' = entries

Wants(i) == entries[i] # Gap /\ Symbol \in subscriptions[entries[i]]

Finishes(w, done) ==
  /\ loop' = [loop EXCEPT !.pc = done] /\ walk' = NoWalk /\ entries' = Without(w.dead)
  /\ \A i \in DOMAIN entries : i >= w.pos => ~Wants(i)

Reaches(w, pc) ==
  /\ loop' = [loop EXCEPT !.pc = pc] /\ entries' = entries
  /\ walk' \in Walk /\ walk'.left <= walk'.size /\ walk'.dead = w.dead
  /\ \E i \in DOMAIN entries :
       /\ i >= w.pos /\ Wants(i)
       /\ walk'.pos = i + 1 /\ walk'.to = entries[i]
       /\ \A j \in DOMAIN entries : j >= w.pos /\ Wants(j) => i <= j

LEMMA AdvanceKinds ==
  ASSUME Typed, NEW w \in Walk, w.left <= w.size, NEW pc, NEW done, Advance(w, pc, done)
  PROVE  Raises \/ Finishes(w, done) \/ Reaches(w, pc)
<1> DEFINE live == {i \in DOMAIN entries : i >= w.pos /\ entries[i] # Gap}
           wanted == {i \in live : Symbol \in subscriptions[entries[i]]}
           yields == IF wanted = {} THEN live ELSE {i \in live : i <= Min(wanted)}
<1>0. \A i \in DOMAIN entries : i \in wanted <=> i >= w.pos /\ Wants(i)
  BY DEF Wants
<1>1. CASE Size # w.size \/ Cardinality(yields) > w.left
  BY <1>1 DEF Advance, Raise, Raises
<1>2. CASE ~(Size # w.size \/ Cardinality(yields) > w.left) /\ wanted = {}
  <2>1. entries' = Without(w.dead) /\ walk' = NoWalk /\ Go(done)
    BY <1>2 DEF Advance
  <2> QED BY <2>1, <1>0, <1>2 DEF Go, Finishes
<1>3. CASE ~(Size # w.size \/ Cardinality(yields) > w.left) /\ wanted # {}
  <2>1. /\ walk' = [w EXCEPT !.pos  = Min(wanted) + 1,
                             !.left = @ - Cardinality(yields),
                             !.to   = entries[Min(wanted)]]
        /\ Go(pc)
        /\ entries' = entries
    BY <1>3 DEF Advance
  <2>2. wanted \in SUBSET Nat /\ yields \in SUBSET DOMAIN entries
    BY EntriesTyped
  <2>3. Min(wanted) \in wanted /\ \A n \in wanted : Min(wanted) <= n
    BY <2>2, <1>3, MinIsLeast
  <2>4. IsFiniteSet(yields)
    BY <2>2, EntriesTyped, FS_Subset
  <2>5. Cardinality(yields) \in Nat
    BY <2>4, FS_CardinalityType
  <2>6. PICK n : n = Cardinality(yields)
    OBVIOUS
  <2>7. ~(n > w.left)
    BY <1>3, <2>6
  <2>8. PICK i : i = Min(wanted)
    OBVIOUS
  <2>9. i \in DOMAIN entries /\ i \in Nat /\ i >= w.pos /\ Wants(i) /\ entries[i] \in Entry
    BY <2>3, <2>8, <1>0, EntriesTyped
  <2>10. \A j \in DOMAIN entries : j >= w.pos /\ Wants(j) => i <= j
    BY <2>3, <2>8, <1>0
  <2>11. walk' = [w EXCEPT !.pos = i + 1, !.left = @ - n, !.to = entries[i]]
    BY <2>1, <2>6, <2>8
  <2> HIDE DEF live, wanted, yields
  <2>12. /\ walk' \in Walk /\ walk'.left <= walk'.size /\ walk'.dead = w.dead
         /\ walk'.pos = i + 1 /\ walk'.to = entries[i]
    <3>1. n \in Nat /\ n <= w.left /\ w.left \in Nat /\ w.size \in Nat
      BY <2>5, <2>6, <2>7 DEF Walk
    <3>2. w.left - n \in Nat /\ w.left - n <= w.size /\ i + 1 \in Nat \ {0}
      BY <3>1, <2>9
    <3>3. PICK left : left = w.left - n
      OBVIOUS
    <3>4. walk' = [w EXCEPT !.pos = i + 1, !.left = left, !.to = entries[i]]
      BY <2>11, <3>3
    <3> QED BY <2>9, <3>2, <3>3, <3>4 DEF Walk
  <2> QED BY <2>1, <2>9, <2>10, <2>12 DEF Go, Reaches
<1> QED BY <1>1, <1>2, <1>3

---------------------------------------------------------------------------
(* What of the entries stays when connections other than those in gone     *)
(* are kept where they were.                                               *)
LEMMA WithoutLists ==
  ASSUME Typed, Listed, NEW gone \in SUBSET Sockets, entries' = Without(gone)
  PROVE  /\ \A i, j \in DOMAIN entries' : entries'[i] = entries'[j] /\ entries'[i] # Gap => i = j
         /\ \A ws \in Sockets : Present(ws)' => Present(ws) /\ ws \notin gone
         /\ \A ws \in Sockets : Present(ws) /\ ws \notin gone => Present(ws)'
<1>1. /\ DOMAIN entries' = DOMAIN entries
      /\ \A i \in DOMAIN entries :
           entries'[i] = IF entries[i] \in gone THEN Gap ELSE entries[i]
  BY WithoutKeeps
<1> QED BY <1>1, GapAssumption DEF Listed, Present

(* Appending a connection leaves the earlier ones where they were.         *)
LEMMA AppendKeeps ==
  ASSUME NEW s \in Seq(Entry), NEW ws \in Sockets
  PROVE  /\ Append(s, ws) \in Seq(Entry) /\ DOMAIN s \subseteq DOMAIN Append(s, ws)
         /\ \A i \in DOMAIN s : Append(s, ws)[i] = s[i]
         /\ \A i \in DOMAIN Append(s, ws) \ DOMAIN s :
              i = Len(s) + 1 /\ Append(s, ws)[i] = ws
         /\ \E i \in DOMAIN Append(s, ws) : Append(s, ws)[i] = ws
<1>1. s \in Seq(Entry) /\ ws \in Entry /\ Len(s) \in Nat
  BY DEF Entry
<1>2. PICK t : t = Append(s, ws)
  OBVIOUS
<1>3. /\ t \in Seq(Entry) /\ Len(t) = Len(s) + 1
      /\ \A i \in 1..Len(s) : t[i] = s[i]
      /\ t[Len(s) + 1] = ws
  BY <1>1, <1>2
<1>4. DOMAIN s = 1..Len(s) /\ DOMAIN t = 1..(Len(s) + 1)
  BY <1>1, <1>3
<1> QED BY <1>1, <1>2, <1>3, <1>4

(* The entries without their gaps list the same connections, once each.    *)
LEMMA PackedLists ==
  ASSUME Typed, Listed
  PROVE  /\ Packed \in Seq(Entry)
         /\ \A m, n \in DOMAIN Packed : Packed[m] = Packed[n] => m = n
         /\ \A ws \in Sockets : Present(ws) <=> \E n \in DOMAIN Packed : Packed[n] = ws
<1>1. Filled \in SUBSET Int /\ IsFiniteSet(Filled) /\ Filled \subseteq DOMAIN entries
  <2>1. Filled \in SUBSET DOMAIN entries
    BY DEF Filled
  <2> QED BY <2>1, EntriesTyped, FS_Subset
<1>2. PICK size \in Nat : size = Size
  BY SizeTyped
<1>3. /\ \A n \in 1..size : \E i \in Filled : Cardinality(Below(Filled, i)) = n - 1
      /\ \A i, j \in Filled : Cardinality(Below(Filled, i)) = Cardinality(Below(Filled, j)) => i = j
      /\ \A i \in Filled : Cardinality(Below(Filled, i)) + 1 \in 1..size
  BY <1>1, <1>2, Ranked DEF Size
<1> DEFINE at(n) == CHOOSE i \in Filled : Cardinality(Below(Filled, i)) = n - 1
<1>4. Packed = [n \in 1..size |-> entries[at(n)]]
  BY <1>2 DEF Packed, Below
<1>5. ASSUME NEW n \in 1..size
      PROVE  at(n) \in Filled /\ Cardinality(Below(Filled, at(n))) = n - 1
  BY <1>3
<1>6. ASSUME NEW i \in Filled
      PROVE  \E n \in 1..size : at(n) = i
  <2>1. PICK n \in 1..size : n = Cardinality(Below(Filled, i)) + 1
    BY <1>3
  <2>2. IsFiniteSet(Below(Filled, i)) /\ Cardinality(Below(Filled, i)) \in Nat
    <3>1. Below(Filled, i) \in SUBSET Filled
      BY DEF Below
    <3> QED BY <3>1, <1>1, FS_Subset, FS_CardinalityType
  <2>3. Cardinality(Below(Filled, at(n))) = Cardinality(Below(Filled, i))
    BY <1>5, <2>1, <2>2
  <2> QED BY <1>3, <1>5, <2>3
<1> HIDE DEF at
<1>7. \A n \in 1..size : entries[at(n)] \in Entry /\ entries[at(n)] # Gap
  BY <1>1, <1>5, EntriesTyped DEF Filled
<1>8. PICK t : t = Packed
  OBVIOUS
<1>9. t = [n \in 1..size |-> entries[at(n)]]
  BY <1>4, <1>8
<1>10. t \in Seq(Entry) /\ DOMAIN t = 1..size
  BY <1>7, <1>9
<1>11. ASSUME NEW m \in 1..size, NEW n \in 1..size, t[m] = t[n] PROVE m = n
  <2>1. at(m) \in DOMAIN entries /\ at(n) \in DOMAIN entries
        /\ entries[at(m)] = entries[at(n)] /\ entries[at(m)] # Gap
    BY <1>1, <1>5, <1>7, <1>9, <1>11
  <2>2. at(m) = at(n)
    BY <2>1 DEF Listed
  <2>3. m - 1 = n - 1
    BY <1>5, <2>2
  <2> QED BY <2>3
<1>12. ASSUME NEW ws \in Sockets
       PROVE  Present(ws) <=> \E n \in 1..size : t[n] = ws
  <2>1. ASSUME Present(ws) PROVE \E n \in 1..size : t[n] = ws
    <3>1. PICK i \in Filled : entries[i] = ws
      BY <2>1, GapAssumption DEF Present, Filled
    <3> QED BY <1>6, <1>9, <3>1
  <2>2. ASSUME NEW n \in 1..size, t[n] = ws PROVE Present(ws)
    BY <1>1, <1>5, <1>9, <2>2 DEF Present
  <2> QED BY <2>1, <2>2
<1> QED BY <1>8, <1>10, <1>11, <1>12

(* A connection that comes is listed beside the others, whether or not the *)
(* table is rebuilt for it.                                                *)
LEMMA InsertLists ==
  ASSUME Typed, Listed, NEW ws \in Sockets, ~Present(ws), Insert(ws)
  PROVE  /\ entries' \in Seq(Entry) /\ packed' \in BOOLEAN
         /\ \A i, j \in DOMAIN entries' : entries'[i] = entries'[j] /\ entries'[i] # Gap => i = j
         /\ \A c \in Sockets : Present(c)' <=> Present(c) \/ c = ws
<1>1. ASSUME NEW s \in Seq(Entry), entries' = Append(s, ws),
             \A i, j \in DOMAIN s : s[i] = s[j] /\ s[i] # Gap => i = j,
             \A c \in Sockets : Present(c) <=> \E i \in DOMAIN s : s[i] = c
      PROVE  /\ entries' \in Seq(Entry)
             /\ \A i, j \in DOMAIN entries' : entries'[i] = entries'[j] /\ entries'[i] # Gap => i = j
             /\ \A c \in Sockets : Present(c)' <=> Present(c) \/ c = ws
  <2>1. /\ entries' \in Seq(Entry) /\ DOMAIN s \subseteq DOMAIN entries'
        /\ \A i \in DOMAIN s : entries'[i] = s[i]
        /\ \A i \in DOMAIN entries' \ DOMAIN s : i = Len(s) + 1 /\ entries'[i] = ws
        /\ \E i \in DOMAIN entries' : entries'[i] = ws
    BY <1>1, AppendKeeps
  <2>2. \A i \in DOMAIN s : s[i] # ws
    BY <1>1
  <2>3. \A i, j \in DOMAIN entries' : entries'[i] = entries'[j] /\ entries'[i] # Gap => i = j
    BY <1>1, <2>1, <2>2
  <2>4. \A c \in Sockets : Present(c)' <=> Present(c) \/ c = ws
    BY <1>1, <2>1 DEF Present
  <2> QED BY <2>1, <2>3, <2>4
<1>2. CASE Len(entries) < room
  <2>1. entries' = Append(entries, ws) /\ packed' = packed
    BY <1>2 DEF Insert
  <2>2. entries \in Seq(Entry) /\ packed \in BOOLEAN
    BY DEF Typed
  <2> QED BY <1>1, <2>1, <2>2 DEF Listed, Present
<1>3. CASE ~(Len(entries) < room)
  <2>1. entries' = Append(Packed, ws) /\ packed' \in BOOLEAN
    BY <1>3 DEF Insert, Typed
  <2> QED BY <1>1, <2>1, PackedLists
<1> QED BY <1>2, <1>3

(* Unless it is rebuilt without its gaps, the dictionary keeps its         *)
(* connections' places, a table full of connections included.              *)
LEMMA InsertStays ==
  ASSUME Typed, NEW ws \in Sockets, Insert(ws), ~packed'
  PROVE  /\ ~packed /\ DOMAIN entries \subseteq DOMAIN entries'
         /\ \A i \in DOMAIN entries : entries'[i] = entries[i]
<1>1. PICK len \in Nat : len = Len(entries) /\ DOMAIN entries = 1..len
  BY DEF Typed
<1>2. entries \in Seq(Entry)
  BY DEF Typed
<1>3. CASE Len(entries) < room
  <2>1. entries' = Append(entries, ws) /\ packed' = packed
    BY <1>3 DEF Insert
  <2> QED BY <1>2, <2>1, AppendKeeps
<1>4. CASE ~(Len(entries) < room)
  <2>1. entries' = Append(Packed, ws) /\ packed' = (packed \/ Size < Len(entries))
    BY <1>4 DEF Insert
  <2>2. ~packed /\ ~(Size < Len(entries))
    BY <2>1
  <2>3. PICK size \in Nat : size = Size /\ size = Cardinality(Filled)
    BY SizeTyped DEF Size
  <2>4. IsFiniteSet(1..len) /\ Cardinality(1..len) = len
    <3>1. 1 \in Int /\ len \in Int
      OBVIOUS
    <3>2. IsFiniteSet(1..len) /\ Cardinality(1..len) = IF 1 > len THEN 0 ELSE len - 1 + 1
      BY <3>1, FS_Interval
    <3> QED BY <3>2
  <2>5. Filled \in SUBSET (1..len)
    BY <1>1 DEF Filled
  <2>6. size <= len /\ (size = len => Filled = 1..len)
    BY <2>3, <2>4, <2>5, FS_Subset
  <2>7. size = len /\ Filled = 1..len
    BY <1>1, <2>2, <2>3, <2>6
  <2>8. ASSUME NEW i \in 1..len PROVE Cardinality(Below(Filled, i)) = i - 1
    <3>1. Below(Filled, i) = 1..(i - 1)
      BY <2>7 DEF Below
    <3>2. Cardinality(1..(i - 1)) = IF 1 > i - 1 THEN 0 ELSE (i - 1) - 1 + 1
      BY FS_Interval
    <3> QED BY <3>1, <3>2
  <2>9. \A i, j \in Filled : Cardinality(Below(Filled, i)) = Cardinality(Below(Filled, j)) => i = j
    BY <2>7, <2>8
  <2> DEFINE at(n) == CHOOSE i \in Filled : Cardinality(Below(Filled, i)) = n - 1
  <2>10. Packed = [n \in 1..len |-> entries[at(n)]]
    BY <2>3, <2>7 DEF Packed, Below
  <2>11. ASSUME NEW n \in 1..len PROVE at(n) = n
    BY <2>7, <2>8, <2>9
  <2> HIDE DEF at
  <2>12. PICK t : t = Packed
    OBVIOUS
  <2>13. t = [n \in 1..len |-> entries[n]]
    BY <2>10, <2>11, <2>12
  <2>14. t \in Seq(Entry) /\ DOMAIN t = 1..len /\ \A n \in 1..len : t[n] = entries[n]
    BY <1>1, <1>2, <2>13
  <2>15. entries' = Append(t, ws)
    BY <2>1, <2>12
  <2> QED BY <1>1, <2>2, <2>14, <2>15, AppendKeeps
<1> QED BY <1>3, <1>4

(* Clients that connect, subscribe or go disturb no broadcast.             *)
LEMMA ClientsKeep ==
  ASSUME StreamInv, NEW ws \in Sockets,
         \/ Connect(ws) \/ ClientGoes(ws) \/ EndReceiving(ws) \/ EndpointFails(ws)
         \/ \E symbols \in Topics : Subscribe(ws, symbols) \/ Unsubscribe(ws, symbols)
  PROVE  StreamInv'
<1> USE DEF StreamInv
<1>1. CASE Connect(ws)
  <2>1. /\ endpoint[ws] = "out" /\ endpoint' = [endpoint EXCEPT ![ws] = "receiving"]
        /\ Insert(ws)
        /\ subscriptions' = subscriptions /\ alive' = alive /\ owed' = owed
        /\ loop' = loop /\ walk' = walk /\ moved' = moved
    BY <1>1 DEF Connect, sim
  <2>2. ~Present(ws)
    BY <2>1 DEF Listed
  <2>3. /\ entries' \in Seq(Entry) /\ packed' \in BOOLEAN
        /\ \A i, j \in DOMAIN entries' : entries'[i] = entries'[j] /\ entries'[i] # Gap => i = j
        /\ \A c \in Sockets : Present(c)' <=> Present(c) \/ c = ws
    BY <2>1, <2>2, InsertLists
  <2>4. Typed'
    BY <2>1, <2>3 DEF Typed
  <2>5. Listed'
    BY <2>1, <2>3 DEF Listed, Typed
  <2>6. ~packed' => ~packed /\ \A c, pos : Ahead(c, pos) => Ahead(c, pos)'
    <3>1. ASSUME ~packed'
          PROVE  /\ ~packed /\ DOMAIN entries \subseteq DOMAIN entries'
                 /\ \A i \in DOMAIN entries : entries'[i] = entries[i]
      BY <2>1, <3>1, InsertStays
    <3> QED BY <2>1, <3>1 DEF Ahead, Symbol
  <2>7. Owing'
    BY <2>1, <2>6 DEF Owing, Sending
  <2> QED BY <2>1, <2>4, <2>5, <2>7 DEF Places, Sending, Dead, Moved, NoWalk
<1>2. CASE ClientGoes(ws)
  <2>1. /\ alive' = alive \ {ws} /\ owed' = owed \ {ws} /\ entries' = entries
        /\ subscriptions' = subscriptions /\ endpoint' = endpoint /\ packed' = packed
        /\ loop' = loop /\ walk' = walk /\ moved' = moved
    BY <1>2 DEF ClientGoes, dict, sim
  <2>2. Typed' /\ Listed' /\ Dead' /\ Moved'
    BY <2>1 DEF Typed, Listed, Present, Dead, Moved
  <2>3. Owing'
    BY <2>1 DEF Owing, Sending, Ahead, Symbol
  <2> QED BY <2>1, <2>2, <2>3 DEF Places, Sending, NoWalk
<1>3. CASE EndReceiving(ws) \/ EndpointFails(ws)
  <2>1. /\ endpoint' = [endpoint EXCEPT ![ws] = "over"] /\ entries' = Without({ws})
        /\ subscriptions' = subscriptions /\ packed' = packed
        /\ loop' = loop /\ walk' = walk /\ moved' = moved
        /\ alive' = alive \ {ws} /\ owed' = owed \ {ws}
    <3>1. CASE EndReceiving(ws)
      <4>1. ws \notin alive /\ ws \notin owed
        BY <3>1 DEF EndReceiving, Typed
      <4> QED BY <3>1, <4>1 DEF EndReceiving, sim
    <3>2. CASE EndpointFails(ws)
      BY <3>2 DEF EndpointFails, sim
    <3> QED BY <1>3, <3>1, <3>2
  <2>2. /\ entries' \in Seq(Entry) /\ DOMAIN entries' = DOMAIN entries
        /\ \A i \in DOMAIN entries : entries'[i] = IF entries[i] = ws THEN Gap ELSE entries[i]
    BY <2>1, WithoutKeeps
  <2>3. Typed' /\ Dead' /\ Moved'
    BY <2>1, <2>2 DEF Typed, Dead, Moved
  <2>4. Listed'
    <3>1. PICK gone \in SUBSET Sockets : gone = {ws}
      OBVIOUS
    <3>2. entries' = Without(gone)
      BY <2>1, <3>1
    <3>3. /\ \A i, j \in DOMAIN entries' : entries'[i] = entries'[j] /\ entries'[i] # Gap => i = j
          /\ \A c \in Sockets : Present(c)' => Present(c) /\ c \notin gone
      BY <3>2, WithoutLists
    <3> QED BY <2>1, <3>1, <3>3 DEF Listed, Typed
  <2>5. \A c \in owed' : c # ws
    BY <2>1
  <2>6. \A pos : \A c \in owed' : Ahead(c, pos) => Ahead(c, pos)'
    BY <2>1, <2>2, <2>5 DEF Ahead, Symbol
  <2>7. Owing'
    BY <2>1, <2>6 DEF Owing, Sending
  <2> QED BY <2>1, <2>3, <2>4, <2>7 DEF Places, Sending, NoWalk
<1>4. ASSUME NEW symbols \in Topics, Subscribe(ws, symbols)
      PROVE  StreamInv'
  <2>1. /\ subscriptions' = [subscriptions EXCEPT ![ws] = @ \union symbols]
        /\ entries' = entries /\ endpoint' = endpoint /\ alive' = alive /\ owed' = owed
        /\ loop' = loop /\ walk' = walk /\ moved' = moved /\ packed' = packed
    BY <1>4 DEF Subscribe, dict, sim
  <2>2. symbols \subseteq Symbols
    BY TopicsAssumption
  <2>3. \A c \in Sockets : subscriptions'[c] \in SUBSET Symbols
                           /\ subscriptions[c] \subseteq subscriptions'[c]
    BY <2>1, <2>2 DEF Typed
  <2>4. Typed' /\ Listed' /\ Dead' /\ Moved'
    BY <2>1, <2>3 DEF Typed, Listed, Present, Dead, Moved
  <2>5. \A pos : \A c \in owed : Ahead(c, pos) => Ahead(c, pos)'
    BY <2>1, <2>3 DEF Ahead, Symbol, Typed
  <2>6. Owing'
    BY <2>1, <2>5 DEF Owing, Sending
  <2> QED BY <2>1, <2>4, <2>6 DEF Places, Sending, NoWalk
<1>5. ASSUME NEW symbols \in Topics, Unsubscribe(ws, symbols)
      PROVE  StreamInv'
  <2>1. /\ subscriptions' = [subscriptions EXCEPT ![ws] = @ \ symbols]
        /\ owed' = IF Symbol \in symbols THEN owed \ {ws} ELSE owed
        /\ entries' = entries /\ endpoint' = endpoint /\ alive' = alive
        /\ loop' = loop /\ walk' = walk /\ moved' = moved /\ packed' = packed
    BY <1>5 DEF Unsubscribe, dict, sim
  <2>2. Typed' /\ Listed' /\ Dead' /\ Moved'
    BY <2>1 DEF Typed, Listed, Present, Dead, Moved
  <2>3. \A c \in owed' : Symbol \in subscriptions[c] => Symbol \in subscriptions'[c]
    BY <2>1 DEF Typed
  <2>4. \A pos : \A c \in owed' : Ahead(c, pos) => Ahead(c, pos)'
    BY <2>1, <2>3 DEF Ahead, Symbol
  <2>5. Owing'
    BY <2>1, <2>4 DEF Owing, Sending
  <2> QED BY <2>1, <2>2, <2>5 DEF Places, Sending, NoWalk
<1> QED BY <1>1, <1>2, <1>3, <1>4, <1>5

---------------------------------------------------------------------------
(* A broadcast that moves on owes what is still ahead of it, and nothing   *)
(* once it is over; the clients it removes are gone ones.                  *)
LEMMA AdvanceKeeps ==
  ASSUME StreamInv, NEW w \in Walk, w.left <= w.size, w.dead \intersect alive = {},
         NEW pc, NEW done,
         (pc = "quote" /\ done = "ingest") \/ (pc = "candle" /\ done = "push"),
         loop.pc \in {"cache", "quote", "ingest", "candle"},
         Advance(w, pc, done),
         owed' \subseteq alive, packed' \in BOOLEAN,
         ~packed' => \A ws \in owed' : Ahead(ws, w.pos),
         UNCHANGED <<subscriptions, endpoint, alive, moved>>
  PROVE  StreamInv'
<1> USE DEF StreamInv
<1>1. /\ subscriptions' = subscriptions /\ endpoint' = endpoint
      /\ alive' = alive /\ moved' = moved
  OBVIOUS
<1>2. w.dead \in SUBSET Sockets
  BY DEF Walk
<1>3. NoWalk \in Walk /\ NoWalk.left <= NoWalk.size /\ NoWalk.dead = {} /\ NoWalk.pos = 1
  BY DEF NoWalk, Walk, Entry
<1>4. 1 \in DOMAIN Watched
  BY WatchedAssumption
<1>5. CASE Raises
  <2>1. loop' = [pc |-> "asleep", at |-> 1] /\ walk' = NoWalk /\ entries' = entries
    BY <1>5 DEF Raises
  <2>2. Typed'
    BY <2>1, <1>1, <1>3, <1>4 DEF Typed, Pcs
  <2>3. Listed' /\ Dead'
    BY <2>1, <1>1, <1>3 DEF Listed, Present, Dead
  <2>4. Owing' /\ ~Sending'
    BY <2>1 DEF Owing, Sending
  <2>5. Moved'
    BY <2>1, <1>1, WatchedAssumption DEF Moved
  <2>6. Places'
    BY <2>1, <2>4 DEF Places, NoWalk
  <2> QED BY <2>2, <2>3, <2>4, <2>5, <2>6
<1>6. CASE Finishes(w, done)
  <2>1. /\ loop' = [loop EXCEPT !.pc = done] /\ walk' = NoWalk /\ entries' = Without(w.dead)
        /\ \A i \in DOMAIN entries : i >= w.pos => ~Wants(i)
    BY <1>6 DEF Finishes
  <2>2. loop' \in [pc : Pcs, at : DOMAIN Watched] /\ loop'.pc = done /\ loop'.at = loop.at
    BY <2>1 DEF Typed, Pcs
  <2>3. entries' \in Seq(Entry)
    BY <2>1, <1>2, WithoutKeeps
  <2>4. Typed'
    BY <2>1, <2>2, <2>3, <1>1, <1>3 DEF Typed
  <2>5. Listed'
    BY <2>1, <1>1, <1>2, WithoutLists DEF Listed
  <2>6. ~packed' => owed' = {}
    BY <2>1, GapAssumption DEF Ahead, Wants, Typed
  <2>7. Owing' /\ Dead' /\ ~Sending'
    BY <2>1, <2>2, <2>6, <1>3 DEF Owing, Dead, Sending
  <2>8. Moved'
    BY <2>2, <1>1 DEF Moved
  <2>9. Places'
    BY <2>1, <2>7 DEF Places, NoWalk
  <2> QED BY <2>4, <2>5, <2>7, <2>8, <2>9
<1>7. CASE Reaches(w, pc)
  <2>1. /\ loop' = [loop EXCEPT !.pc = pc] /\ entries' = entries
        /\ walk' \in Walk /\ walk'.left <= walk'.size /\ walk'.dead = w.dead
    BY <1>7 DEF Reaches
  <2>2. PICK i \in DOMAIN entries :
          /\ i >= w.pos /\ Wants(i)
          /\ walk'.pos = i + 1 /\ walk'.to = entries[i]
          /\ \A j \in DOMAIN entries : j >= w.pos /\ Wants(j) => i <= j
    BY <1>7 DEF Reaches
  <2>3. loop' \in [pc : Pcs, at : DOMAIN Watched] /\ loop'.pc = pc /\ loop'.at = loop.at
    BY <2>1 DEF Typed, Pcs
  <2>4. Typed'
    BY <2>1, <2>3, <1>1 DEF Typed
  <2>5. Listed' /\ Dead' /\ Sending'
    BY <2>1, <2>3, <1>1 DEF Listed, Present, Dead, Sending
  <2>6. Moved'
    BY <2>3, <1>1 DEF Moved
  <2>7. i \in Nat /\ i > 0 /\ w.pos \in Nat
    BY EntriesTyped DEF Walk
  <2>8. walk'.pos # 1
    BY <2>2, <2>7
  <2>9. Places'
    <3>1. ~(walk = NoWalk)'
      BY <2>8 DEF NoWalk
    <3>2. walk'.to \in Sockets
      BY <2>2, EntriesTyped DEF Wants
    <3> QED BY <2>5, <3>1, <3>2 DEF Places
  <2>10. ASSUME ~packed', NEW ws \in owed', ws # walk'.to
         PROVE  Ahead(ws, walk.pos)'
    <3>1. PICK j \in DOMAIN entries :
            j >= w.pos /\ entries[j] = ws /\ Symbol \in subscriptions[ws]
      BY <2>10 DEF Ahead
    <3>2. Wants(j) /\ j \in Nat
      BY <3>1, GapAssumption, EntriesTyped DEF Wants, Typed
    <3>3. i <= j /\ i # j
      BY <2>2, <3>1, <3>2, <2>10
    <3>4. j >= i + 1
      BY <3>2, <3>3, <2>7
    <3> QED BY <2>1, <2>2, <2>3, <3>1, <3>4, <1>1 DEF Ahead, Symbol
  <2>11. Owing'
    BY <2>3, <2>10 DEF Owing
  <2> QED BY <2>4, <2>5, <2>6, <2>9, <2>11
<1> QED BY <1>5, <1>6, <1>7, AdvanceKinds

---------------------------------------------------------------------------
LEMMA StreamStart == Init => StreamInv
<1> SUFFICES ASSUME Init PROVE StreamInv
  OBVIOUS
<1>1. NoWalk \in Walk /\ NoWalk.left <= NoWalk.size /\ NoWalk.dead = {}
  BY DEF NoWalk, Walk, Entry
<1>2. 1 \in DOMAIN Watched /\ DOMAIN Watched \subseteq Nat \ {0}
  BY WatchedAssumption
<1>3. entries \in Seq(Entry) /\ \A i \in DOMAIN entries : entries[i] = Gap
  <2>1. PICK n \in Nat : entries = [i \in 1..n |-> Gap]
    BY EarlierAssumption DEF Init
  <2> QED BY <2>1 DEF Entry
<1>4. Typed
  BY <1>1, <1>2, <1>3 DEF Init, Typed, Pcs
<1>5. Listed
  BY <1>3, GapAssumption DEF Listed, Present
<1>6. Dead /\ Owing /\ Places
  BY <1>1 DEF Init, Dead, Owing, Sending, Places
<1>7. Moved
  BY <1>2 DEF Init, Moved
<1> QED BY <1>4, <1>5, <1>6, <1>7 DEF StreamInv

(* A broadcast that begins owes each connected subscriber that is alive.   *)
LEMMA BeginKeeps ==
  ASSUME StreamInv, NEW before, NEW pc, NEW done,
         \/ before = "cache" /\ pc = "quote" /\ done = "ingest"
         \/ before = "ingest" /\ pc = "candle" /\ done = "push",
         Begin(before, pc, done)
  PROVE  StreamInv'
<1> USE DEF StreamInv
<1>1. PICK w : w = [NoWalk EXCEPT !.left = Size, !.size = Size]
  OBVIOUS
<1>2. PICK size \in Nat : size = Size
  BY SizeTyped
<1>3. w = [pos |-> 1, left |-> size, size |-> size, to |-> Gap, dead |-> {}]
  BY <1>1, <1>2 DEF NoWalk
<1>4. w \in Walk /\ w.left <= w.size /\ w.dead = {} /\ w.pos = 1
  BY <1>3 DEF Walk, Entry
<1>5. /\ loop.pc = before /\ Advance(w, pc, done)
      /\ owed' = {ws \in alive : Present(ws) /\ Symbol \in subscriptions[ws]}
      /\ packed' \in BOOLEAN /\ UNCHANGED <<subscriptions, endpoint, alive, moved>>
  BY <1>1 DEF Begin
<1>6. \A ws \in owed' : Ahead(ws, w.pos)
  BY <1>4, <1>5, EntriesTyped DEF Ahead, Present
<1>7. owed' \subseteq alive /\ w.dead \intersect alive = {}
  BY <1>4, <1>5
<1> HIDE DEF StreamInv
<1> QED BY <1>4, <1>5, <1>6, <1>7, AdvanceKeeps

(* A send that is over is owed no longer; one that failed was to a client  *)
(* that is gone, to which nothing was owed.                                *)
LEMMA SendKeeps ==
  ASSUME StreamInv, NEW pc, NEW done,
         (pc = "quote" /\ done = "ingest") \/ (pc = "candle" /\ done = "push"),
         Send(pc, done)
  PROVE  StreamInv'
<1> USE DEF StreamInv
<1>1. loop.pc = pc /\ packed' = packed /\ UNCHANGED <<subscriptions, endpoint, alive, moved>>
  BY DEF Send
<1>2. /\ packed \in BOOLEAN
      /\ ~packed => \A ws \in owed : ws = walk.to \/ Ahead(ws, walk.pos)
      /\ walk \in Walk /\ walk.left <= walk.size /\ owed \subseteq alive
      /\ walk.dead \intersect alive = {}
  BY <1>1 DEF Owing, Sending, Typed, Dead
<1>3. CASE Advance(walk, pc, done) /\ owed' = owed \ {walk.to}
  <2>1. /\ owed' \subseteq alive /\ packed' \in BOOLEAN
        /\ ~packed' => \A ws \in owed' : Ahead(ws, walk.pos)
    BY <1>1, <1>2, <1>3
  <2> HIDE DEF StreamInv
  <2> QED BY <1>1, <1>2, <1>3, <2>1, AdvanceKeeps
<1>4. CASE /\ walk.to \notin alive
           /\ Advance([walk EXCEPT !.dead = @ \union {walk.to}], pc, done)
           /\ owed' = owed
  <2>1. PICK w : w = [walk EXCEPT !.dead = @ \union {walk.to}]
    OBVIOUS
  <2>2. walk.to \in Sockets
    BY <1>1 DEF Places, Sending
  <2>3. PICK dead \in SUBSET Sockets : dead = walk.dead \union {walk.to}
    BY <1>2, <2>2 DEF Walk
  <2>4. w = [walk EXCEPT !.dead = dead]
    BY <2>1, <2>3
  <2>5. w \in Walk /\ w.left <= w.size /\ w.dead = dead /\ w.pos = walk.pos
    BY <1>2, <2>4 DEF Walk
  <2>6. w.dead \intersect alive = {}
    BY <1>2, <1>4, <2>3, <2>5
  <2>7. /\ owed' \subseteq alive /\ packed' \in BOOLEAN
        /\ ~packed' => \A ws \in owed' : Ahead(ws, w.pos)
    <3>1. \A ws \in owed' : ws # walk.to
      BY <1>2, <1>4
    <3> QED BY <1>1, <1>2, <1>4, <2>5, <3>1
  <2>8. Advance(w, pc, done)
    BY <1>4, <2>1
  <2> HIDE DEF StreamInv
  <2> QED BY <1>1, <2>5, <2>6, <2>7, <2>8, AdvanceKeeps
<1> QED BY <1>3, <1>4 DEF Send

(* The loop's other steps leave the connections alone; Stop ends whatever  *)
(* broadcast is under way.                                                 *)
LEMMA OthersKeep ==
  ASSUME StreamInv, MovePrice \/ NextSymbol \/ Wake \/ Stop
  PROVE  StreamInv'
<1> USE DEF StreamInv
<1>1. DOMAIN Watched \subseteq Nat /\ DOMAIN Watched = 1..Len(Watched) /\ 1 \in DOMAIN Watched
      /\ Len(Watched) \in Nat
  BY WatchedAssumption
<1>2. loop.at \in DOMAIN Watched /\ loop.at \in Nat /\ Symbol \in Symbols
  BY <1>1, WatchedAssumption DEF Typed, Symbol, Symbols
<1>3. NoWalk \in Walk /\ NoWalk.left <= NoWalk.size /\ NoWalk.dead = {}
  BY DEF NoWalk, Walk, Entry
<1>4. /\ entries' = entries /\ subscriptions' = subscriptions /\ endpoint' = endpoint
      /\ alive' = alive /\ owed' = owed /\ packed' = packed
  BY DEF MovePrice, NextSymbol, Wake, Stop, conns, dict
<1>5. Listed'
  BY <1>4 DEF Listed, Present
<1>6. CASE MovePrice
  <2>1. /\ loop.pc = "price" /\ loop' = [loop EXCEPT !.pc = "cache"]
        /\ moved' = moved \union {Symbol} /\ walk' = walk
    BY <1>6 DEF MovePrice, Go
  <2>2. loop' \in [pc : Pcs, at : DOMAIN Watched] /\ loop'.pc = "cache" /\ loop'.at = loop.at
    BY <2>1 DEF Typed, Pcs
  <2>3. Typed' /\ Dead'
    BY <2>1, <2>2, <1>2, <1>4 DEF Typed, Dead
  <2>4. Places' /\ Owing'
    BY <2>1, <2>2 DEF Places, Owing, Sending, NoWalk
  <2>5. Moved'
    BY <2>1, <2>2, <1>1, <1>2 DEF Moved, Symbol
  <2> QED BY <1>5, <2>3, <2>4, <2>5
<1>7. CASE NextSymbol
  <2>1. loop.pc = "push" /\ walk' = walk
    BY <1>7 DEF NextSymbol
  <2>2. CASE loop.at < Len(Watched)
    <3>1. loop' = [pc |-> "price", at |-> loop.at + 1] /\ moved' = moved
      BY <1>7, <2>2 DEF NextSymbol
    <3>2. loop' \in [pc : Pcs, at : DOMAIN Watched]
      BY <1>1, <1>2, <2>2, <3>1 DEF Pcs
    <3>3. Typed' /\ Dead'
      BY <2>1, <3>1, <3>2, <1>4 DEF Typed, Dead
    <3>4. Places' /\ Owing'
      BY <2>1, <3>1 DEF Places, Owing, Sending, NoWalk
    <3>5. Moved'
      BY <2>1, <3>1, <1>1, <1>2 DEF Moved
    <3> QED BY <1>5, <3>3, <3>4, <3>5
  <2>3. CASE ~(loop.at < Len(Watched))
    <3>1. loop' = [pc |-> "asleep", at |-> 1] /\ moved' = {}
      BY <1>7, <2>3 DEF NextSymbol
    <3>2. loop' \in [pc : Pcs, at : DOMAIN Watched]
      BY <1>1, <3>1 DEF Pcs
    <3>3. Typed' /\ Dead'
      BY <2>1, <3>1, <3>2, <1>4 DEF Typed, Dead
    <3>4. Places' /\ Owing'
      BY <2>1, <3>1 DEF Places, Owing, Sending, NoWalk
    <3>5. Moved'
      BY <3>1, <1>1 DEF Moved
    <3> QED BY <1>5, <3>3, <3>4, <3>5
  <2> QED BY <2>2, <2>3
<1>8. CASE Wake
  <2>1. /\ loop.pc = "asleep" /\ loop' = [loop EXCEPT !.pc = "price"]
        /\ walk' = walk /\ moved' = moved
    BY <1>8 DEF Wake, Go
  <2>2. loop' \in [pc : Pcs, at : DOMAIN Watched] /\ loop'.pc = "price" /\ loop'.at = loop.at
    BY <2>1 DEF Typed, Pcs
  <2>3. Typed' /\ Dead'
    BY <2>1, <2>2, <1>4 DEF Typed, Dead
  <2>4. Places' /\ Owing' /\ Moved'
    BY <2>1, <2>2 DEF Places, Owing, Sending, NoWalk, Moved
  <2> QED BY <1>5, <2>3, <2>4
<1>9. CASE Stop
  <2>1. /\ loop' = [loop EXCEPT !.pc = "stopped"] /\ walk' = NoWalk /\ moved' = moved
    BY <1>9 DEF Stop
  <2>2. loop' \in [pc : Pcs, at : DOMAIN Watched] /\ loop'.pc = "stopped" /\ loop'.at = loop.at
    BY <2>1 DEF Typed, Pcs
  <2>3. Typed' /\ Dead'
    BY <2>1, <2>2, <1>3, <1>4 DEF Typed, Dead
  <2>4. Places' /\ Owing' /\ Moved'
    BY <2>1, <2>2 DEF Places, Owing, Sending, NoWalk, Moved
  <2> QED BY <1>5, <2>3, <2>4
<1> QED BY <1>6, <1>7, <1>8, <1>9

(* Each step of the loop, clients' or server's, keeps the invariant.       *)
LEMMA StreamStep ==
  ASSUME StreamInv, [Next]_vars
  PROVE  StreamInv'
<1>1. ASSUME NEW ws \in Sockets,
             \/ Connect(ws) \/ ClientGoes(ws) \/ EndReceiving(ws) \/ EndpointFails(ws)
             \/ \E symbols \in Topics : Subscribe(ws, symbols) \/ Unsubscribe(ws, symbols)
      PROVE  StreamInv'
  BY <1>1, ClientsKeep
<1>2. CASE Begin("cache", "quote", "ingest")
  BY <1>2, BeginKeeps
<1>3. CASE Begin("ingest", "candle", "push")
  BY <1>3, BeginKeeps
<1>4. CASE Send("quote", "ingest")
  BY <1>4, SendKeeps
<1>5. CASE Send("candle", "push")
  BY <1>5, SendKeeps
<1>6. CASE MovePrice \/ NextSymbol \/ Wake \/ Stop
  BY <1>6, OthersKeep
<1>7. CASE UNCHANGED vars
  <2>1. /\ entries' = entries /\ subscriptions' = subscriptions /\ endpoint' = endpoint
        /\ alive' = alive /\ owed' = owed /\ loop' = loop /\ walk' = walk /\ moved' = moved
        /\ packed' = packed
    BY <1>7 DEF vars, conns, dict, sim
  <2>2. Typed' /\ Listed'
    BY <2>1 DEF StreamInv, Typed, Listed, Present
  <2>3. Places' /\ Dead' /\ Moved'
    BY <2>1 DEF StreamInv, Places, Dead, Moved, Sending, NoWalk
  <2>4. Owing'
    BY <2>1 DEF StreamInv, Owing, Sending, Ahead, Symbol
  <2> QED BY <2>2, <2>3, <2>4 DEF StreamInv
<1> QED BY <1>1, <1>2, <1>3, <1>4, <1>5, <1>6, <1>7
        DEF Next, LoopStep, BroadcastQuote, BroadcastCandle

LEMMA StreamAlways == Spec => []StreamInv
BY StreamStart, StreamStep, PTL DEF Spec

---------------------------------------------------------------------------
(* However clients come and go, a connection is listed once, and a         *)
(* broadcast under way never yields more than it was to.                   *)
THEOREM StreamTyped == Spec => []TypeOK
<1>1. StreamInv => TypeOK
  <2> SUFFICES ASSUME StreamInv PROVE TypeOK
    OBVIOUS
  <2>1. loop.at \in DOMAIN Watched /\ moved \subseteq Symbols
        /\ \A ws \in Sockets : subscriptions[ws] \subseteq Symbols
    BY DEF StreamInv, Typed
  <2>2. walk.left \in 0..walk.size
    BY DEF StreamInv, Typed, Walk
  <2>3. (walk = NoWalk) = (loop.pc \notin {"quote", "candle"})
    BY DEF StreamInv, Places, Sending
  <2> QED BY <2>1, <2>2, <2>3 DEF StreamInv, Listed, TypeOK
<1>2. QED
  BY <1>1, StreamAlways, PTL

(* A step that leaves the list of connections alone, but for a newcomer or *)
(* clients that are gone, or one that moves a broadcast on.                *)
LEMMA ListSteps ==
  ASSUME StreamInv, [Next]_vars
  PROVE  \/ entries' = entries
         \/ \E ws \in Sockets : ~Present(ws) /\ Insert(ws)
         \/ \E gone \in SUBSET Sockets : gone \intersect alive' = {} /\ entries' = Without(gone)
<1> USE DEF StreamInv
<1>1. ASSUME NEW ws \in Sockets, EndReceiving(ws) \/ EndpointFails(ws)
      PROVE  \E gone \in SUBSET Sockets :
               gone \intersect alive' = {} /\ entries' = Without(gone)
  BY <1>1 DEF EndReceiving, EndpointFails
<1>2. ASSUME NEW w \in Walk, w.left <= w.size, w.dead \intersect alive = {},
             NEW pc, NEW done, Advance(w, pc, done), alive' = alive
      PROVE  \/ entries' = entries
             \/ \E gone \in SUBSET Sockets :
                  gone \intersect alive' = {} /\ entries' = Without(gone)
  <2>1. Raises \/ Finishes(w, done) \/ Reaches(w, pc)
    BY <1>2, AdvanceKinds
  <2>2. w.dead \in SUBSET Sockets
    BY DEF Walk
  <2> QED BY <2>1, <2>2, <1>2 DEF Raises, Finishes, Reaches
<1>3. ASSUME NEW before, NEW pc, NEW done, Begin(before, pc, done)
      PROVE  \/ entries' = entries
             \/ \E gone \in SUBSET Sockets :
                  gone \intersect alive' = {} /\ entries' = Without(gone)
  <2>1. PICK w : w = [NoWalk EXCEPT !.left = Size, !.size = Size]
    OBVIOUS
  <2>2. PICK size \in Nat : size = Size
    BY SizeTyped
  <2>3. w = [pos |-> 1, left |-> size, size |-> size, to |-> Gap, dead |-> {}]
    BY <2>1, <2>2 DEF NoWalk
  <2>4. w \in Walk /\ w.left <= w.size /\ w.dead \intersect alive = {}
    BY <2>3 DEF Walk, Entry
  <2> QED BY <1>3, <2>1, <2>4, <1>2 DEF Begin
<1>4. ASSUME NEW pc \in {"quote", "candle"}, NEW done, Send(pc, done)
      PROVE  \/ entries' = entries
             \/ \E gone \in SUBSET Sockets :
                  gone \intersect alive' = {} /\ entries' = Without(gone)
  <2>1. walk \in Walk /\ walk.left <= walk.size /\ walk.dead \intersect alive = {}
        /\ walk.to \in Sockets /\ alive' = alive
    BY <1>4 DEF Typed, Dead, Places, Sending, Send
  <2>2. CASE Advance(walk, pc, done)
    BY <2>1, <2>2, <1>2
  <2>3. CASE /\ walk.to \notin alive
             /\ Advance([walk EXCEPT !.dead = @ \union {walk.to}], pc, done)
    <3>1. PICK w : w = [walk EXCEPT !.dead = @ \union {walk.to}]
      OBVIOUS
    <3>2. PICK dead \in SUBSET Sockets : dead = walk.dead \union {walk.to}
      BY <2>1 DEF Walk
    <3>3. w = [walk EXCEPT !.dead = dead]
      BY <3>1, <3>2
    <3>4. w \in Walk /\ w.left <= w.size /\ w.dead = dead
      BY <2>1, <3>3 DEF Walk
    <3>5. w.dead \intersect alive = {}
      BY <2>1, <2>3, <3>2, <3>4
    <3>6. Advance(w, pc, done)
      BY <2>3, <3>1
    <3> QED BY <2>1, <3>4, <3>5, <3>6, <1>2
  <2> QED BY <1>4, <2>2, <2>3 DEF Send
<1>5. CASE MovePrice \/ NextSymbol \/ Wake \/ Stop
  BY <1>5 DEF MovePrice, NextSymbol, Wake, Stop, conns, dict
<1>6. CASE UNCHANGED vars
  BY <1>6 DEF vars, conns, dict
<1>7. ASSUME NEW ws \in Sockets,
             \/ Connect(ws) \/ ClientGoes(ws)
             \/ \E symbols \in Topics : Subscribe(ws, symbols) \/ Unsubscribe(ws, symbols)
      PROVE  entries' = entries \/ (~Present(ws) /\ Insert(ws))
  BY <1>7 DEF Connect, ClientGoes, Subscribe, Unsubscribe, dict, Listed
<1> HIDE DEF StreamInv
<1> QED BY <1>1, <1>3, <1>4, <1>5, <1>6, <1>7
        DEF Next, LoopStep, BroadcastQuote, BroadcastCandle

(* No live client silently stops receiving: a failed send, or an endpoint  *)
(* that ends, takes gone clients off the list and no others.               *)
THEOREM LiveStay == Spec => LiveStaysConnected
<1>1. ASSUME StreamInv, [Next]_vars
      PROVE  \A ws \in alive' : Present(ws) => Present(ws)'
  <2> USE <1>1
  <2>1. Typed /\ Listed /\ alive' \subseteq Sockets
    <3>1. StreamInv'
      BY StreamStep
    <3> QED BY <3>1 DEF StreamInv, Typed
  <2>2. CASE entries' = entries
    BY <2>2 DEF Present
  <2>3. ASSUME NEW c \in Sockets, ~Present(c), Insert(c)
        PROVE  \A ws \in alive' : Present(ws) => Present(ws)'
    BY <2>1, <2>3, InsertLists
  <2>4. ASSUME NEW gone \in SUBSET Sockets, gone \intersect alive' = {}, entries' = Without(gone)
        PROVE  \A ws \in alive' : Present(ws) => Present(ws)'
    BY <2>1, <2>4, WithoutLists
  <2> QED BY <2>2, <2>3, <2>4, ListSteps
<1>2. StreamInv /\ [Next]_vars => [\A ws \in alive' : Present(ws) => Present(ws)']_vars
  BY <1>1
<1>3. QED
  BY <1>2, StreamAlways, PTL DEF Spec, LiveStaysConnected

(* A broadcast that ends without an exception was sent to every client     *)
(* that was connected, subscribed and alive from its start to its end,     *)
(* unless an insertion rebuilt the dictionary without its gaps under it.   *)
THEOREM BroadcastReaches == Spec => BroadcastReachesAll
<1>1. StreamInv' => [(Ends("ingest") \/ Ends("push")) /\ ~packed' => owed' = {}]_vars
  BY DEF StreamInv, Owing, Ends
<1>2. QED
  BY <1>1, StreamAlways, PTL DEF BroadcastReachesAll

(* tick_count grows once every symbol has moved, and not before.           *)
THEOREM TicksWhole == Spec => TicksAreWhole
<1>1. ASSUME StreamInv, [Next]_vars, moved' = {}, moved # {}
      PROVE  moved = Symbols
  <2> USE <1>1 DEF StreamInv
  <2>1. ASSUME NEW ws \in Sockets,
               \/ Connect(ws) \/ ClientGoes(ws) \/ EndReceiving(ws) \/ EndpointFails(ws)
               \/ \E symbols \in Topics : Subscribe(ws, symbols) \/ Unsubscribe(ws, symbols)
        PROVE  moved' = moved
    BY <2>1 DEF Connect, ClientGoes, EndReceiving, EndpointFails, Subscribe, Unsubscribe, sim
  <2>2. Begin("cache", "quote", "ingest") \/ Begin("ingest", "candle", "push")
          \/ Send("quote", "ingest") \/ Send("candle", "push") => moved' = moved
    BY DEF Begin, Send
  <2>3. MovePrice => moved' # {}
    BY DEF MovePrice
  <2>4. Wake \/ Stop \/ UNCHANGED vars => moved' = moved
    BY DEF Wake, Stop, vars, sim
  <2>5. NextSymbol
    BY <2>1, <2>2, <2>3, <2>4 DEF Next, LoopStep, BroadcastQuote, BroadcastCandle
  <2>6. loop.pc = "push" /\ ~(loop.at < Len(Watched))
    BY <2>5 DEF NextSymbol
  <2>7. DOMAIN Watched = 1..Len(Watched) /\ Len(Watched) \in Nat /\ loop.at \in DOMAIN Watched
    BY WatchedAssumption DEF Typed
  <2>8. loop.at = Len(Watched)
    BY <2>6, <2>7
  <2>9. \A i \in DOMAIN Watched : Watched[i] \in moved
    BY <2>6, <2>7, <2>8 DEF Moved
  <2> QED BY <2>9 DEF Symbols, Typed
<1>2. StreamInv /\ [Next]_vars => [moved' = {} /\ moved # {} => moved = Symbols]_vars
  BY <1>1
<1>3. QED
  BY <1>2, StreamAlways, PTL DEF Spec, TicksAreWhole

---------------------------------------------------------------------------
(* The candles.  The minutes after m.                                      *)
Above(minutes, m) == {n \in minutes : n > m}

LEMMA AboveCounted ==
  ASSUME NEW S \in SUBSET Int, IsFiniteSet(S), NEW m \in Int
  PROVE  IsFiniteSet(Above(S, m)) /\ Cardinality(Above(S, m)) \in Nat
<1>1. Above(S, m) \in SUBSET S
  BY DEF Above
<1>2. IsFiniteSet(Above(S, m))
  BY <1>1, FS_Subset
<1> QED BY <1>2, FS_CardinalityType

(* Finitely many minutes, if any, have a last one: with fewest after it.   *)
LEMMA LastMinute ==
  ASSUME NEW S \in SUBSET Int, IsFiniteSet(S), S # {}
  PROVE  \E m \in S : \A n \in S : n <= m
<1> DEFINE Counts == {Cardinality(Above(S, m)) : m \in S}
<1>1. Counts \in SUBSET Nat /\ Counts # {}
  BY AboveCounted
<1>2. PICK c \in Counts : \A d \in Counts : c <= d
  <2> HIDE DEF Counts
  <2> QED BY <1>1, NatLeast
<1>3. PICK m \in S : c = Cardinality(Above(S, m))
  OBVIOUS
<1>4. ASSUME NEW n \in S, n > m PROVE FALSE
  <2>1. Above(S, n) \in SUBSET (Above(S, m) \ {n})
    <3>1. m \in Int /\ n \in Int
      OBVIOUS
    <3>2. ASSUME NEW z \in Above(S, n) PROVE z \in Above(S, m) \ {n}
      <4>1. z \in S /\ z \in Int /\ z > n
        BY DEF Above
      <4> QED BY <3>1, <4>1, <1>4 DEF Above
    <3> QED BY <3>2
  <2>2. n \in Above(S, m) /\ IsFiniteSet(Above(S, m)) /\ Cardinality(Above(S, m)) \in Nat
    BY <1>4, AboveCounted DEF Above
  <2>3. /\ IsFiniteSet(Above(S, m) \ {n})
        /\ Cardinality(Above(S, m) \ {n}) = Cardinality(Above(S, m)) - 1
    BY <2>2, FS_RemoveElement
  <2>4. Cardinality(Above(S, n)) <= Cardinality(Above(S, m) \ {n})
    BY <2>1, <2>3, FS_Subset
  <2>5. Cardinality(Above(S, n)) \in Nat /\ Cardinality(Above(S, m)) <= Cardinality(Above(S, n))
    BY <1>2, <1>3, AboveCounted
  <2> QED BY <2>2, <2>3, <2>4, <2>5
<1>5. \A n \in S : n <= m
  BY <1>4
<1> QED BY <1>5

LEMMA KeptAbove ==
  ASSUME NEW S \in SUBSET Int
  PROVE  Kept(S) = {m \in S : Cardinality(Above(S, m)) < MaxHistory}
BY DEF Kept, Above

(* Cutting the history before a minute is added and again after it leaves  *)
(* what one cut at the end leaves.                                         *)
LEMMA KeptAgain ==
  ASSUME NEW A \in SUBSET Int, IsFiniteSet(A), NEW t \in Int
  PROVE  Kept(Kept(A) \union {t}) = Kept(A \union {t})
<1> DEFINE B == A \union {t}
           K == Kept(A) \union {t}
<1>1. PICK a : a = Kept(A)
  OBVIOUS
<1>2. a = {m \in A : Cardinality(Above(A, m)) < MaxHistory}
  BY <1>1, KeptAbove
<1>3. a \in SUBSET A /\ K = a \union {t} /\ K \in SUBSET B /\ B \in SUBSET Int /\ K \in SUBSET Int
  BY <1>1, <1>2
<1>4. IsFiniteSet(B) /\ IsFiniteSet(K)
  <2>1. IsFiniteSet(B)
    BY FS_AddElement
  <2> QED BY <2>1, <1>3, FS_Subset
<1>5. Kept(K) = {m \in K : Cardinality(Above(K, m)) < MaxHistory}
  BY <1>3, KeptAbove
<1>6. Kept(B) = {m \in B : Cardinality(Above(B, m)) < MaxHistory}
  BY <1>3, KeptAbove
<1> HIDE DEF B, K
<1>7. MaxHistory \in Nat
  BY HistoryAssumption
<1>8. ASSUME NEW m \in Kept(B) PROVE m \in Kept(K)
  <2>1. m \in B /\ m \in Int /\ Cardinality(Above(B, m)) < MaxHistory
    BY <1>3, <1>6
  <2>2. Cardinality(Above(B, m)) \in Nat /\ IsFiniteSet(Above(B, m))
    BY <1>3, <1>4, <2>1, AboveCounted
  <2>3. m \in K
    <3>1. CASE m = t
      BY <3>1, <1>3
    <3>2. CASE m # t
      <4>1. m \in A /\ Above(A, m) \in SUBSET Above(B, m)
        BY <3>2, <2>1 DEF B, Above
      <4>2. Cardinality(Above(A, m)) <= Cardinality(Above(B, m)) /\ Cardinality(Above(A, m)) \in Nat
        BY <4>1, <2>1, <2>2, FS_Subset, AboveCounted
      <4> QED BY <4>1, <4>2, <2>1, <2>2, <1>2, <1>3, <1>7
    <3> QED BY <3>1, <3>2
  <2>4. Above(K, m) \in SUBSET Above(B, m)
    BY <1>3 DEF Above
  <2>5. Cardinality(Above(K, m)) <= Cardinality(Above(B, m)) /\ Cardinality(Above(K, m)) \in Nat
    BY <2>1, <2>2, <2>4, <1>3, <1>4, FS_Subset, AboveCounted
  <2> QED BY <1>5, <1>7, <2>1, <2>2, <2>3, <2>5
<1>9. ASSUME NEW m \in Kept(K) PROVE m \in Kept(B)
  <2>1. m \in K /\ m \in B /\ m \in Int /\ Cardinality(Above(K, m)) < MaxHistory
    BY <1>3, <1>5
  <2>2. Above(B, m) = Above(K, m)
    <3> DEFINE Lost == Above(B, m) \ K
    <3>1. CASE Lost = {}
      BY <3>1, <1>3 DEF Above
    <3>2. CASE Lost # {}
      <4>1. Lost \in SUBSET B /\ Lost \in SUBSET Int
        BY <1>3 DEF Above
      <4>2. IsFiniteSet(Lost)
        BY <4>1, <1>4, FS_Subset
      <4>3. PICK y \in Lost : \A z \in Lost : z <= y
        <5> HIDE DEF Lost
        <5> QED BY <3>2, <4>1, <4>2, LastMinute
      <4>4. y \in A /\ y \in Int /\ y > m /\ y \notin K
        BY <1>3, <4>1 DEF Above, B
      <4>5. ASSUME NEW z \in Above(A, y) PROVE z \in Above(K, m)
        <5>1. z \in A /\ z \in Int /\ z > y
          BY DEF Above
        <5>2. z \in B /\ z > m
          BY <5>1, <4>4, <2>1 DEF B
        <5>3. z \in K
          BY <5>1, <5>2, <4>3, <4>4 DEF Above
        <5> QED BY <5>2, <5>3 DEF Above
      <4>6. Above(A, y) \in SUBSET Above(K, m)
        BY <4>5
      <4>7. IsFiniteSet(Above(K, m)) /\ Cardinality(Above(K, m)) \in Nat
        BY <1>3, <1>4, <2>1, AboveCounted
      <4>8. Cardinality(Above(A, y)) <= Cardinality(Above(K, m)) /\ Cardinality(Above(A, y)) \in Nat
        BY <4>4, <4>6, <4>7, FS_Subset, AboveCounted
      <4> QED BY <1>2, <1>3, <1>7, <2>1, <4>4, <4>7, <4>8
    <3> QED BY <3>1, <3>2
  <2> QED BY <1>6, <2>1, <2>2
<1>10. Kept(K) = Kept(B)
  BY <1>5, <1>6, <1>8, <1>9
<1> QED BY <1>10 DEF K, B

---------------------------------------------------------------------------
(* What a candle says of the quotes of its minute in the log.              *)
CandleRecords == [o : Int, h : Int, l : Int, c : Int, v : Int, closed : BOOLEAN]
Of(log, m) == {i \in DOMAIN log : log[i].minute = m}
Tells(k, log, m) ==
  /\ \E i \in Of(log, m) : k.o = log[i].ltp /\ \A j \in Of(log, m) : i <= j
  /\ \E i \in Of(log, m) : k.c = log[i].ltp /\ \A j \in Of(log, m) : j <= i
  /\ \E i \in Of(log, m) : k.h = log[i].ltp /\ \A j \in Of(log, m) : log[j].ltp <= k.h
  /\ \E i \in Of(log, m) : k.l = log[i].ltp /\ \A j \in Of(log, m) : k.l <= log[j].ltp
  /\ \E i \in Of(log, m) : k.v = log[i].volume /\ \A j \in Of(log, m) : log[j].volume <= k.v

LEMMA QuoteTyped ==
  ASSUME NEW q \in Quotes
  PROVE  q.minute \in Int /\ q.ltp \in Int /\ q.volume \in Int
<1>1. q.minute \in Minutes /\ q.ltp \in Prices /\ q.volume \in Volumes
  BY DEF Quotes
<1>2. q.volume \in Nat
  BY <1>1, QuoteAssumption
<1>3. \A m \in Minutes : m \in Int
  BY QuoteAssumption
<1>4. \A p \in Prices : p \in Int
  BY QuoteAssumption
<1> QED BY <1>1, <1>2, <1>3, <1>4

LEMMA LogTyped ==
  ASSUME NEW log \in Seq(Quotes)
  PROVE  /\ Len(log) \in Nat /\ DOMAIN log = 1..Len(log)
         /\ \A i \in DOMAIN log : /\ i \in Int /\ i <= Len(log) /\ log[i] \in Quotes
                                  /\ log[i].minute \in Int /\ log[i].ltp \in Int
                                  /\ log[i].volume \in Int
<1>1. Len(log) \in Nat /\ DOMAIN log = 1..Len(log)
  OBVIOUS
<1>2. ASSUME NEW i \in DOMAIN log
      PROVE  i \in Int /\ i <= Len(log) /\ log[i] \in Quotes
  BY <1>1
<1> QED BY <1>1, <1>2, QuoteTyped

LEMMA LogGrows ==
  ASSUME NEW log \in Seq(Quotes), NEW q \in Quotes
  PROVE  /\ Append(log, q) \in Seq(Quotes)
         /\ Len(Append(log, q)) = Len(log) + 1
         /\ \A i \in DOMAIN log : Append(log, q)[i] = log[i]
         /\ Append(log, q)[Len(log) + 1] = q
         /\ DOMAIN Append(log, q) = DOMAIN log \union {Len(log) + 1}
         /\ Len(log) + 1 \notin DOMAIN log
         /\ \A m : Of(Append(log, q), m) =
                     IF m = q.minute THEN Of(log, m) \union {Len(log) + 1} ELSE Of(log, m)
<1>1. Len(log) \in Nat /\ DOMAIN log = 1..Len(log)
  OBVIOUS
<1>2. /\ Append(log, q) \in Seq(Quotes)
      /\ Len(Append(log, q)) = Len(log) + 1
      /\ \A i \in DOMAIN log : Append(log, q)[i] = log[i]
      /\ Append(log, q)[Len(log) + 1] = q
  BY <1>1
<1>3. PICK more : more = Append(log, q)
  OBVIOUS
<1>4. DOMAIN more = 1..(Len(log) + 1)
  BY <1>2, <1>3
<1>5. DOMAIN more = DOMAIN log \union {Len(log) + 1} /\ Len(log) + 1 \notin DOMAIN log
  BY <1>1, <1>4
<1>6. ASSUME NEW m
      PROVE  Of(more, m) = IF m = q.minute THEN Of(log, m) \union {Len(log) + 1} ELSE Of(log, m)
  BY <1>2, <1>3, <1>5 DEF Of
<1> QED BY <1>2, <1>3, <1>5, <1>6

LEMMA PairExtremes ==
  ASSUME NEW a \in Int, NEW b \in Int
  PROVE  /\ Max({a, b}) = IF a >= b THEN a ELSE b
         /\ Min({a, b}) = IF a <= b THEN a ELSE b
<1>1. \E x \in {a, b} : \A y \in {a, b} : x >= y
  OBVIOUS
<1>2. \E x \in {a, b} : \A y \in {a, b} : x <= y
  OBVIOUS
<1>3. Max({a, b}) \in {a, b} /\ \A y \in {a, b} : Max({a, b}) >= y
  BY <1>1 DEF Max
<1>4. Min({a, b}) \in {a, b} /\ \A y \in {a, b} : Min({a, b}) <= y
  BY <1>2 DEF Min
<1>5. PICK x : x = Max({a, b})
  OBVIOUS
<1>6. PICK z : z = Min({a, b})
  OBVIOUS
<1>7. x \in {a, b} /\ x >= a /\ x >= b
  BY <1>3, <1>5
<1>8. z \in {a, b} /\ z <= a /\ z <= b
  BY <1>4, <1>6
<1>9. x = IF a >= b THEN a ELSE b
  BY <1>7
<1>10. z = IF a <= b THEN a ELSE b
  BY <1>8
<1> QED BY <1>5, <1>6, <1>9, <1>10

LEMMA ExtremesAre ==
  ASSUME NEW S \in SUBSET Int, NEW x \in S
  PROVE  /\ (\A y \in S : y <= x) => Max(S) = x
         /\ (\A y \in S : x <= y) => Min(S) = x
<1>1. ASSUME \A y \in S : y <= x PROVE Max(S) = x
  <2>1. \E u \in S : \A y \in S : u >= y
    BY <1>1
  <2>2. Max(S) \in S /\ \A y \in S : Max(S) >= y
    BY <2>1 DEF Max
  <2>3. PICK z : z = Max(S)
    OBVIOUS
  <2>4. z \in Int /\ x \in Int /\ z >= x /\ z <= x
    BY <1>1, <2>2, <2>3
  <2> QED BY <2>3, <2>4
<1>2. ASSUME \A y \in S : x <= y PROVE Min(S) = x
  <2>1. \E u \in S : \A y \in S : u <= y
    BY <1>2
  <2>2. Min(S) \in S /\ \A y \in S : Min(S) <= y
    BY <2>1 DEF Min
  <2>3. PICK z : z = Min(S)
    OBVIOUS
  <2>4. z \in Int /\ x \in Int /\ z >= x /\ z <= x
    BY <1>2, <2>2, <2>3
  <2> QED BY <2>3, <2>4
<1> QED BY <1>1, <1>2

(* The three ways a candle goes on: new, extended, another's turn.         *)
LEMMA NewTells ==
  ASSUME NEW log \in Seq(Quotes), NEW q \in Quotes, Of(log, q.minute) = {}
  PROVE  NewCandle(q) \in CandleRecords /\ Tells(NewCandle(q), Append(log, q), q.minute)
<1>1. PICK k : k = NewCandle(q)
  OBVIOUS
<1>2. k \in CandleRecords /\ k.o = q.ltp /\ k.h = q.ltp /\ k.l = q.ltp /\ k.c = q.ltp /\ k.v = q.volume
  BY <1>1, QuoteTyped DEF NewCandle, CandleRecords
<1>3. Of(Append(log, q), q.minute) = {Len(log) + 1} /\ Append(log, q)[Len(log) + 1] = q
  BY LogGrows
<1>4. Len(log) + 1 \in Int /\ q.ltp \in Int /\ q.volume \in Int
  BY LogTyped, QuoteTyped
<1>5. Tells(k, Append(log, q), q.minute)
  BY <1>2, <1>3, <1>4 DEF Tells
<1> QED BY <1>1, <1>2, <1>5

LEMMA ExtendedTells ==
  ASSUME NEW log \in Seq(Quotes), NEW q \in Quotes, NEW k \in CandleRecords,
         Tells(k, log, q.minute)
  PROVE  /\ Extended(k, q) \in CandleRecords /\ Extended(k, q).closed = k.closed
         /\ Tells(Extended(k, q), Append(log, q), q.minute)
<1>1. PICK x : x = Extended(k, q)
  OBVIOUS
<1>2. q.ltp \in Int /\ q.volume \in Int /\ q.minute \in Int
  BY QuoteTyped
<1>3. k.o \in Int /\ k.h \in Int /\ k.l \in Int /\ k.c \in Int /\ k.v \in Int /\ k.closed \in BOOLEAN
  BY DEF CandleRecords
<1>4. PICK h \in Int : h = Max({k.h, q.ltp}) /\ h \in {k.h, q.ltp} /\ h >= k.h /\ h >= q.ltp
  <2>1. PICK y : y = Max({k.h, q.ltp})
    OBVIOUS
  <2>2. y = IF k.h >= q.ltp THEN k.h ELSE q.ltp
    BY <1>2, <1>3, <2>1, PairExtremes
  <2>3. y \in Int /\ y \in {k.h, q.ltp} /\ y >= k.h /\ y >= q.ltp
    BY <1>2, <1>3, <2>2
  <2> QED BY <2>1, <2>3
<1>5. PICK l \in Int : l = Min({k.l, q.ltp}) /\ l \in {k.l, q.ltp} /\ l <= k.l /\ l <= q.ltp
  <2>1. PICK y : y = Min({k.l, q.ltp})
    OBVIOUS
  <2>2. y = IF k.l <= q.ltp THEN k.l ELSE q.ltp
    BY <1>2, <1>3, <2>1, PairExtremes
  <2>3. y \in Int /\ y \in {k.l, q.ltp} /\ y <= k.l /\ y <= q.ltp
    BY <1>2, <1>3, <2>2
  <2> QED BY <2>1, <2>3
<1>6. PICK v \in Int : v = Max({k.v, q.volume}) /\ v \in {k.v, q.volume} /\ v >= k.v /\ v >= q.volume
  <2>1. PICK y : y = Max({k.v, q.volume})
    OBVIOUS
  <2>2. y = IF k.v >= q.volume THEN k.v ELSE q.volume
    BY <1>2, <1>3, <2>1, PairExtremes
  <2>3. y \in Int /\ y \in {k.v, q.volume} /\ y >= k.v /\ y >= q.volume
    BY <1>2, <1>3, <2>2
  <2> QED BY <2>1, <2>3
<1>7. x = [k EXCEPT !.h = h, !.l = l, !.c = q.ltp, !.v = v]
  BY <1>1, <1>4, <1>5, <1>6 DEF Extended
<1>8. /\ x \in CandleRecords /\ x.closed = k.closed
      /\ x.o = k.o /\ x.h = h /\ x.l = l /\ x.c = q.ltp /\ x.v = v
  BY <1>2, <1>7 DEF CandleRecords
<1>9. PICK n \in Int : n = Len(log) + 1 /\ \A i \in DOMAIN log : i < n /\ i \in Int
  BY LogTyped
<1>10. PICK more : more = Append(log, q)
  OBVIOUS
<1>11. PICK old : old = Of(log, q.minute)
  OBVIOUS
<1>12. /\ Of(more, q.minute) = old \union {n} /\ more[n] = q
       /\ \A i \in old : more[i] = log[i] /\ i \in DOMAIN log
  BY <1>9, <1>10, <1>11, LogGrows DEF Of
<1>13. \A i \in old : i \in Int /\ i < n /\ log[i].ltp \in Int /\ log[i].volume \in Int
  BY <1>9, <1>12, LogTyped
<1>14. \E i \in old \union {n} : x.o = more[i].ltp /\ \A j \in old \union {n} : i <= j
  <2>1. PICK i \in old : k.o = log[i].ltp /\ \A j \in old : i <= j
    BY <1>11 DEF Tells
  <2> QED BY <2>1, <1>8, <1>12, <1>13
<1>15. \E i \in old \union {n} : x.c = more[i].ltp /\ \A j \in old \union {n} : j <= i
  BY <1>8, <1>12, <1>13
<1>16. \E i \in old \union {n} : x.h = more[i].ltp /\ \A j \in old \union {n} : more[j].ltp <= x.h
  <2>1. PICK i \in old : k.h = log[i].ltp /\ \A j \in old : log[j].ltp <= k.h
    BY <1>11 DEF Tells
  <2>2. \A j \in old : more[j].ltp <= h
    BY <2>1, <1>3, <1>4, <1>12, <1>13
  <2>3. \A j \in old \union {n} : more[j].ltp <= x.h
    BY <2>2, <1>4, <1>8, <1>12
  <2>4. CASE h = k.h
    BY <2>1, <2>3, <2>4, <1>8, <1>12
  <2>5. CASE h = q.ltp
    BY <2>3, <2>5, <1>8, <1>12
  <2> QED BY <1>4, <2>4, <2>5
<1>17. \E i \in old \union {n} : x.l = more[i].ltp /\ \A j \in old \union {n} : x.l <= more[j].ltp
  <2>1. PICK i \in old : k.l = log[i].ltp /\ \A j \in old : k.l <= log[j].ltp
    BY <1>11 DEF Tells
  <2>2. \A j \in old : l <= more[j].ltp
    BY <2>1, <1>3, <1>5, <1>12, <1>13
  <2>3. \A j \in old \union {n} : x.l <= more[j].ltp
    BY <2>2, <1>5, <1>8, <1>12
  <2>4. CASE l = k.l
    BY <2>1, <2>3, <2>4, <1>8, <1>12
  <2>5. CASE l = q.ltp
    BY <2>3, <2>5, <1>8, <1>12
  <2> QED BY <1>5, <2>4, <2>5
<1>18. \E i \in old \union {n} : x.v = more[i].volume /\ \A j \in old \union {n} : more[j].volume <= x.v
  <2>1. PICK i \in old : k.v = log[i].volume /\ \A j \in old : log[j].volume <= k.v
    BY <1>11 DEF Tells
  <2>2. \A j \in old : more[j].volume <= v
    BY <2>1, <1>3, <1>6, <1>12, <1>13
  <2>3. \A j \in old \union {n} : more[j].volume <= x.v
    BY <2>2, <1>6, <1>8, <1>12
  <2>4. CASE v = k.v
    BY <2>1, <2>3, <2>4, <1>8, <1>12
  <2>5. CASE v = q.volume
    BY <2>3, <2>5, <1>8, <1>12
  <2> QED BY <1>6, <2>4, <2>5
<1>19. Tells(x, more, q.minute)
  BY <1>12, <1>14, <1>15, <1>16, <1>17, <1>18 DEF Tells
<1> QED BY <1>1, <1>8, <1>10, <1>19

LEMMA ClosedTells ==
  ASSUME NEW log \in Seq(Quotes), NEW q \in Quotes, NEW k \in CandleRecords,
         NEW m, m # q.minute, Tells(k, log, m)
  PROVE  /\ [k EXCEPT !.closed = TRUE] \in CandleRecords
         /\ Tells([k EXCEPT !.closed = TRUE], Append(log, q), m)
<1>1. PICK x : x = [k EXCEPT !.closed = TRUE]
  OBVIOUS
<1>2. x \in CandleRecords /\ x.o = k.o /\ x.h = k.h /\ x.l = k.l /\ x.c = k.c /\ x.v = k.v
  BY <1>1 DEF CandleRecords
<1>3. PICK more : more = Append(log, q)
  OBVIOUS
<1>4. Of(more, m) = Of(log, m) /\ \A i \in Of(log, m) : more[i] = log[i]
  BY <1>3, LogGrows DEF Of
<1>5. Tells(x, more, m)
  BY <1>2, <1>4 DEF Tells
<1> QED BY <1>1, <1>2, <1>3, <1>5

---------------------------------------------------------------------------
(* The history: a candle of each minute kept, which tells its quotes, and  *)
(* while minutes come in order all of them closed but the last.            *)
Seen == {ingested[i].minute : i \in DOMAIN ingested}
Records ==
  /\ candles = [m \in DOMAIN candles |-> candles[m]]
  /\ DOMAIN candles \in SUBSET Int
  /\ \A m \in DOMAIN candles : candles[m] \in CandleRecords
  /\ ingested \in Seq(Quotes)
Telling == \A m \in DOMAIN candles : Tells(candles[m], ingested, m)
Recent == IsFiniteSet(Seen) /\ DOMAIN candles = Kept(Seen)
Closing ==
  InOrder(ingested) =>
    \A m \in DOMAIN candles : /\ m <= ingested[Len(ingested)].minute
                              /\ candles[m].closed = (m # ingested[Len(ingested)].minute)
HistoryInv == Records /\ Telling /\ Recent /\ Closing

LEMMA HistoryStart == CandleInit => HistoryInv
<1> SUFFICES ASSUME CandleInit PROVE HistoryInv
  OBVIOUS
<1>1. DOMAIN candles = {} /\ ingested = <<>> /\ DOMAIN ingested = {}
  BY DEF CandleInit, NoCandles
<1>2. Seen = {} /\ Kept(Seen) = {}
  BY <1>1 DEF Seen, Kept
<1>3. IsFiniteSet(Seen)
  BY <1>2, FS_EmptySet
<1>4. Records
  <2>1. candles = [m \in {} |-> 0]
    BY DEF CandleInit, NoCandles
  <2> QED BY <1>1, <2>1 DEF Records
<1> QED BY <1>1, <1>2, <1>3, <1>4 DEF HistoryInv, Telling, Recent, Closing

LEMMA SeenGrows ==
  ASSUME HistoryInv, NEW q \in Quotes, IngestQuote(q)
  PROVE  /\ ingested' = Append(ingested, q) /\ ingested' \in Seq(Quotes)
         /\ Seen \in SUBSET Int /\ IsFiniteSet(Seen)
         /\ Seen' = Seen \union {q.minute} /\ IsFiniteSet(Seen')
<1>1. ingested \in Seq(Quotes) /\ IsFiniteSet(Seen)
  BY DEF HistoryInv, Records, Recent
<1>2. ingested' = Append(ingested, q)
  BY DEF IngestQuote
<1>3. PICK more : more = Append(ingested, q)
  OBVIOUS
<1>4. PICK n : n = Len(ingested) + 1
  OBVIOUS
<1>5. /\ DOMAIN more = DOMAIN ingested \union {n} /\ more[n] = q
      /\ \A i \in DOMAIN ingested : more[i] = ingested[i]
      /\ more \in Seq(Quotes)
  BY <1>1, <1>3, <1>4, LogGrows
<1>6. Seen' = {more[i].minute : i \in DOMAIN more}
  BY <1>2, <1>3 DEF Seen
<1>7. Seen' = Seen \union {q.minute}
  <2>1. \A i \in DOMAIN ingested : more[i].minute = ingested[i].minute
    BY <1>5
  <2>2. {more[i].minute : i \in DOMAIN more} = {more[i].minute : i \in DOMAIN ingested} \union {q.minute}
    BY <1>5
  <2>3. {more[i].minute : i \in DOMAIN ingested} = Seen
    BY <2>1 DEF Seen
  <2> QED BY <1>6, <2>2, <2>3
<1>8. Seen \in SUBSET Int
  BY <1>1, LogTyped DEF Seen
<1>9. IsFiniteSet(Seen \union {q.minute})
  BY <1>1, FS_AddElement
<1> QED BY <1>1, <1>2, <1>3, <1>5, <1>7, <1>8, <1>9

(* What a quote does to the candles.                                       *)
LEMMA CandlesGo ==
  ASSUME HistoryInv, NEW q \in Quotes, IngestQuote(q)
  PROVE  /\ candles' = [m \in DOMAIN candles' |-> candles'[m]]
         /\ DOMAIN candles' = Kept(DOMAIN candles \union {q.minute})
         /\ DOMAIN candles' = Kept(Seen')
         /\ DOMAIN candles' \in SUBSET (DOMAIN candles \union {q.minute})
         /\ \A m \in DOMAIN candles' :
              candles'[m] = IF m # q.minute THEN [candles[m] EXCEPT !.closed = TRUE]
                            ELSE IF m \in DOMAIN candles THEN Extended(candles[m], q)
                            ELSE NewCandle(q)
<1> DEFINE All == DOMAIN candles \union {q.minute}
<1>1. candles' = [m \in Kept(All) |-> WithQuote(candles, q)[m]] /\ DOMAIN WithQuote(candles, q) = All
  BY DEF IngestQuote, Ingest, WithQuote
<1>2. Kept(All) \in SUBSET All
  BY DEF Kept
<1>3. \A m \in All : WithQuote(candles, q)[m] =
                       IF m # q.minute THEN [candles[m] EXCEPT !.closed = TRUE]
                       ELSE IF m \in DOMAIN candles THEN Extended(candles[m], q)
                       ELSE NewCandle(q)
  BY DEF WithQuote
<1>4. DOMAIN candles = Kept(Seen) /\ Seen \in SUBSET Int /\ IsFiniteSet(Seen)
      /\ Seen' = Seen \union {q.minute}
  BY SeenGrows DEF HistoryInv, Recent
<1>5. Kept(All) = Kept(Seen')
  BY <1>4, KeptAgain, QuoteTyped
<1> HIDE DEF All
<1>6. DOMAIN candles' = Kept(All) /\ \A m \in Kept(All) : candles'[m] = WithQuote(candles, q)[m]
  BY <1>1
<1>7. \A m \in DOMAIN candles' : candles'[m] = WithQuote(candles, q)[m] /\ m \in All
  BY <1>2, <1>6
<1>8. \A m \in DOMAIN candles' :
        candles'[m] = IF m # q.minute THEN [candles[m] EXCEPT !.closed = TRUE]
                      ELSE IF m \in DOMAIN candles THEN Extended(candles[m], q)
                      ELSE NewCandle(q)
  BY <1>3, <1>7
<1>9. candles' = [m \in DOMAIN candles' |-> candles'[m]]
  BY <1>1
<1> QED BY <1>2, <1>5, <1>6, <1>8, <1>9 DEF All

(* A minute without a candle that is kept now had no quote before.         *)
LEMMA NewHadNone ==
  ASSUME HistoryInv, NEW q \in Quotes, IngestQuote(q),
         q.minute \in DOMAIN candles', q.minute \notin DOMAIN candles
  PROVE  Of(ingested, q.minute) = {}
<1>1. q.minute \in Kept(Seen') /\ q.minute \notin Kept(Seen) /\ Seen' = Seen \union {q.minute}
  BY CandlesGo, SeenGrows DEF HistoryInv, Recent
<1>2. ASSUME q.minute \in Seen PROVE FALSE
  <2>1. Seen' = Seen
    BY <1>1, <1>2
  <2> QED BY <1>1, <2>1
<1> QED BY <1>2 DEF Of, Seen

LEMMA IngestTells ==
  ASSUME HistoryInv, NEW q \in Quotes, IngestQuote(q), NEW m \in DOMAIN candles'
  PROVE  candles'[m] \in CandleRecords /\ Tells(candles'[m], ingested', m)
<1>1. /\ ingested \in Seq(Quotes) /\ ingested' = Append(ingested, q)
      /\ \A n \in DOMAIN candles : candles[n] \in CandleRecords /\ Tells(candles[n], ingested, n)
  BY SeenGrows DEF HistoryInv, Records, Telling
<1>2. m \in DOMAIN candles \/ m = q.minute
  BY CandlesGo
<1>3. CASE m # q.minute
  <2>1. candles'[m] = [candles[m] EXCEPT !.closed = TRUE] /\ m \in DOMAIN candles
    BY <1>2, <1>3, CandlesGo
  <2> QED BY <1>1, <1>3, <2>1, ClosedTells
<1>4. CASE m = q.minute /\ m \in DOMAIN candles
  <2>1. candles'[m] = Extended(candles[m], q)
    BY <1>4, CandlesGo
  <2> QED BY <1>1, <1>4, <2>1, ExtendedTells
<1>5. CASE m = q.minute /\ m \notin DOMAIN candles
  <2>1. candles'[m] = NewCandle(q)
    BY <1>5, CandlesGo
  <2>2. Of(ingested, q.minute) = {}
    BY <1>5, NewHadNone
  <2> QED BY <1>1, <1>5, <2>1, <2>2, NewTells
<1> QED BY <1>3, <1>4, <1>5

(* The last quote of a log in order is of the last minute with a candle,   *)
(* whose candle alone is open.                                             *)
LEMMA IngestInOrder ==
  ASSUME HistoryInv, NEW q \in Quotes, IngestQuote(q), InOrder(ingested')
  PROVE  /\ q.minute \in DOMAIN candles'
         /\ \A m \in DOMAIN candles' : m <= q.minute /\ candles'[m].closed = (m # q.minute)
         /\ \A m \in DOMAIN candles \intersect DOMAIN candles' :
              candles[m].closed => candles'[m] = candles[m]
         /\ ingested'[Len(ingested')].minute = q.minute
<1>1. /\ ingested \in Seq(Quotes) /\ ingested' = Append(ingested, q)
      /\ \A n \in DOMAIN candles : candles[n] \in CandleRecords
      /\ DOMAIN candles \in SUBSET Int /\ q.minute \in Int
  BY SeenGrows, QuoteTyped DEF HistoryInv, Records
<1>2. PICK n \in Nat : n = Len(ingested) /\ DOMAIN ingested = 1..n
  BY <1>1
<1>3. PICK more : more = Append(ingested, q)
  OBVIOUS
<1>4. Len(more) = n + 1 /\ more[n + 1] = q /\ \A i \in 1..n : more[i] = ingested[i]
  BY <1>1, <1>2, <1>3, LogGrows
<1>5. \A i \in 1..n : more[i].minute <= more[i + 1].minute
  BY <1>1, <1>3, <1>4 DEF InOrder
<1>6. InOrder(ingested)
  <2>1. ASSUME NEW i \in 1..(n - 1) PROVE ingested[i].minute <= ingested[i + 1].minute
    BY <1>4, <1>5
  <2> QED BY <1>2, <2>1 DEF InOrder
<1>7. \A m \in DOMAIN candles : /\ m <= ingested[n].minute
                                /\ candles[m].closed = (m # ingested[n].minute)
  BY <1>2, <1>6 DEF HistoryInv, Closing
<1>8. ASSUME NEW m \in DOMAIN candles PROVE m <= q.minute
  <2>1. m \in Seen
    BY DEF HistoryInv, Recent, Kept
  <2>2. n > 0
    BY <1>2, <2>1 DEF Seen
  <2>3. ingested[n].minute <= q.minute /\ ingested[n].minute \in Int
    BY <1>1, <1>2, <1>4, <1>5, <2>2, LogTyped
  <2> QED BY <1>1, <1>7, <2>3
<1>9. \A m \in DOMAIN candles : candles[m].closed = FALSE => m = ingested[n].minute
  BY <1>7
<1>10. ASSUME NEW m \in DOMAIN candles' PROVE m <= q.minute
  <2>1. m \in DOMAIN candles \/ m = q.minute
    BY CandlesGo
  <2> QED BY <1>1, <1>8, <2>1
<1>11. q.minute \in DOMAIN candles'
  <2> DEFINE All == DOMAIN candles \union {q.minute}
  <2>1. {k \in All : k > q.minute} = {}
    BY <1>1, <1>8
  <2>2. Cardinality({k \in All : k > q.minute}) < MaxHistory
    BY <2>1, FS_EmptySet, HistoryAssumption
  <2>3. q.minute \in Kept(All)
    BY <2>2 DEF Kept
  <2> QED BY <2>3, CandlesGo
<1>12. ASSUME q.minute \in DOMAIN candles PROVE candles[q.minute].closed = FALSE
  <2>1. q.minute \in Seen
    BY <1>12 DEF HistoryInv, Recent, Kept
  <2>2. n > 0
    BY <1>2, <2>1 DEF Seen
  <2>3. ingested[n].minute <= q.minute /\ ingested[n].minute \in Int
    BY <1>1, <1>2, <1>4, <1>5, <2>2, LogTyped
  <2>4. q.minute <= ingested[n].minute
    BY <1>7, <1>12
  <2>5. q.minute = ingested[n].minute
    BY <1>1, <2>3, <2>4
  <2> QED BY <1>7, <1>12, <2>5
<1>13. ASSUME NEW m \in DOMAIN candles' PROVE candles'[m].closed = (m # q.minute)
  <2>1. CASE m # q.minute
    <3>1. candles'[m] = [candles[m] EXCEPT !.closed = TRUE] /\ m \in DOMAIN candles
      BY <2>1, CandlesGo
    <3>2. candles[m] \in CandleRecords
      BY <1>1, <3>1
    <3> QED BY <2>1, <3>1, <3>2 DEF CandleRecords
  <2>2. CASE m = q.minute /\ m \in DOMAIN candles
    <3>1. candles'[m] = Extended(candles[m], q)
      BY <2>2, CandlesGo
    <3>2. candles'[m].closed = candles[m].closed
      BY <2>2, <3>1, <1>1, ExtendedTells DEF HistoryInv, Telling
    <3> QED BY <1>12, <2>2, <3>2
  <2>3. CASE m = q.minute /\ m \notin DOMAIN candles
    <3>1. candles'[m] = NewCandle(q)
      BY <2>3, CandlesGo
    <3>2. NewCandle(q).closed = FALSE
      BY DEF NewCandle
    <3>3. candles'[m].closed = FALSE
      BY <3>1, <3>2
    <3> QED BY <2>3, <3>3
  <2> QED BY <2>1, <2>2, <2>3
<1>14. ASSUME NEW m \in DOMAIN candles \intersect DOMAIN candles', candles[m].closed
       PROVE  candles'[m] = candles[m]
  <2>1. m # q.minute
    BY <1>12, <1>14
  <2>2. candles'[m] = [candles[m] EXCEPT !.closed = TRUE]
    BY <2>1, CandlesGo
  <2>3. candles[m] \in CandleRecords
    BY <1>1
  <2> QED BY <1>14, <2>2, <2>3 DEF CandleRecords
<1> QED BY <1>1, <1>3, <1>4, <1>10, <1>11, <1>13, <1>14

LEMMA HistoryKept ==
  ASSUME HistoryInv, NEW q \in Quotes, IngestQuote(q)
  PROVE  HistoryInv'
<1>1. Records'
  <2>1. DOMAIN candles' \in SUBSET Int
    <3>1. DOMAIN candles \in SUBSET Int
      BY DEF HistoryInv, Records
    <3>2. DOMAIN candles' \in SUBSET (DOMAIN candles \union {q.minute})
      BY CandlesGo
    <3> QED BY <3>1, <3>2, QuoteTyped
  <2>2. candles' = [m \in DOMAIN candles' |-> candles'[m]]
    BY CandlesGo
  <2>3. \A m \in DOMAIN candles' : candles'[m] \in CandleRecords
    BY IngestTells
  <2>4. ingested' \in Seq(Quotes)
    BY SeenGrows
  <2> QED BY <2>1, <2>2, <2>3, <2>4 DEF Records
<1>2. Telling'
  BY IngestTells DEF Telling
<1>3. Recent'
  BY SeenGrows, CandlesGo DEF Recent
<1>4. Closing'
  BY IngestInOrder DEF Closing
<1> QED BY <1>1, <1>2, <1>3, <1>4 DEF HistoryInv

LEMMA StepIngests ==
  ASSUME CandleNext
  PROVE  \E q \in Quotes : IngestQuote(q)
BY DEF CandleNext, RequestCandles

LEMMA HistoryAlways == CandleSpec => []HistoryInv
<1>1. ASSUME HistoryInv, [CandleNext]_candleVars PROVE HistoryInv'
  <2>1. CASE CandleNext
    BY <1>1, <2>1, StepIngests, HistoryKept
  <2>2. CASE UNCHANGED candleVars
    <3>1. candles' = candles /\ ingested' = ingested
      BY <2>2 DEF candleVars
    <3>2. Records'
      BY <1>1, <3>1 DEF HistoryInv, Records
    <3>3. Telling'
      BY <1>1, <3>1 DEF HistoryInv, Telling
    <3>4. Recent'
      BY <1>1, <3>1 DEF HistoryInv, Recent, Seen
    <3>5. Closing'
      BY <1>1, <3>1 DEF HistoryInv, Closing
    <3> QED BY <3>2, <3>3, <3>4, <3>5 DEF HistoryInv
  <2> QED BY <1>1, <2>1, <2>2
<1> QED BY <1>1, HistoryStart, PTL DEF CandleSpec

(* The history is the latest MaxHistory minutes that had a quote, in       *)
(* whatever order their quotes came.                                       *)
THEOREM LatestAreKept == CandleSpec => []LatestMinutesKept
<1>1. HistoryInv => LatestMinutesKept
  BY DEF HistoryInv, Recent, Seen, LatestMinutesKept
<1> QED BY <1>1, HistoryAlways, PTL

(* A candle that is kept is the open, high, low, close and volume of all   *)
(* the quotes of its minute.                                               *)
THEOREM CandlesTellQuotes == CandleSpec => []CandlesMatchQuotes
<1>1. ASSUME HistoryInv, NEW m \in DOMAIN candles
      PROVE  LET mine   == QuotesOf(m)
                 prices == {ingested[i].ltp : i \in mine}
                 k      == candles[m]
             IN  mine # {} /\ <<k.o, k.h, k.l, k.c, k.v>> =
                       <<ingested[Min(mine)].ltp, Max(prices), Min(prices),
                         ingested[Max(mine)].ltp, Max({ingested[i].volume : i \in mine})>>
  <2>1. PICK k : k = candles[m]
    OBVIOUS
  <2>2. PICK mine : mine = QuotesOf(m)
    OBVIOUS
  <2>3. mine = Of(ingested, m) /\ Tells(k, ingested, m) /\ ingested \in Seq(Quotes)
    BY <1>1, <2>1, <2>2 DEF HistoryInv, Records, Telling, Of, QuotesOf
  <2>4. \A i \in mine : i \in Int /\ ingested[i].ltp \in Int /\ ingested[i].volume \in Int
    BY <2>3, LogTyped DEF Of
  <2>5. PICK prices : prices = {ingested[i].ltp : i \in mine}
    OBVIOUS
  <2>6. PICK volumes : volumes = {ingested[i].volume : i \in mine}
    OBVIOUS
  <2>7. mine \in SUBSET Int /\ prices \in SUBSET Int /\ volumes \in SUBSET Int
    BY <2>4, <2>5, <2>6
  <2>8. k.o = ingested[Min(mine)].ltp /\ mine # {}
    <3>1. PICK i \in mine : k.o = ingested[i].ltp /\ \A j \in mine : i <= j
      BY <2>3 DEF Tells
    <3>2. Min(mine) = i
      BY <2>7, <3>1, ExtremesAre
    <3> QED BY <3>1, <3>2
  <2>9. k.c = ingested[Max(mine)].ltp
    <3>1. PICK i \in mine : k.c = ingested[i].ltp /\ \A j \in mine : j <= i
      BY <2>3 DEF Tells
    <3>2. Max(mine) = i
      BY <2>7, <3>1, ExtremesAre
    <3> QED BY <3>1, <3>2
  <2>10. k.h = Max(prices)
    <3>1. k.h \in prices /\ \A y \in prices : y <= k.h
      BY <2>3, <2>5 DEF Tells
    <3> QED BY <2>7, <3>1, ExtremesAre
  <2>11. k.l = Min(prices)
    <3>1. k.l \in prices /\ \A y \in prices : k.l <= y
      BY <2>3, <2>5 DEF Tells
    <3> QED BY <2>7, <3>1, ExtremesAre
  <2>12. k.v = Max(volumes)
    <3>1. k.v \in volumes /\ \A y \in volumes : y <= k.v
      BY <2>3, <2>6 DEF Tells
    <3> QED BY <2>7, <3>1, ExtremesAre
  <2> QED BY <2>1, <2>2, <2>5, <2>6, <2>8, <2>9, <2>10, <2>11, <2>12
<1>2. HistoryInv => CandlesMatchQuotes
  BY <1>1 DEF CandlesMatchQuotes
<1> QED BY <1>2, HistoryAlways, PTL

(* While quotes come in the order of their minutes a closed candle is      *)
(* final, and every candle but the last is closed.                         *)
THEOREM ClosedStay == CandleSpec => ClosedIsFinal
<1> DEFINE Final ==
      InOrder(ingested') =>
        /\ \A m \in DOMAIN candles \intersect DOMAIN candles' :
             candles[m].closed => candles'[m] = candles[m]
        /\ \A m \in DOMAIN candles' : candles'[m].closed = (m # Max(DOMAIN candles'))
<1>1. ASSUME HistoryInv, NEW q \in Quotes, IngestQuote(q), InOrder(ingested')
      PROVE  Max(DOMAIN candles') = q.minute
  <2>1. PICK S : S = DOMAIN candles'
    OBVIOUS
  <2>2. S \in SUBSET Int
    BY <1>1, <2>1, HistoryKept DEF HistoryInv, Records
  <2>3. q.minute \in S /\ \A m \in S : m <= q.minute
    BY <1>1, <2>1, IngestInOrder
  <2> QED BY <2>1, <2>2, <2>3, ExtremesAre
<1>2. ASSUME HistoryInv, CandleNext PROVE Final
  <2>1. PICK q \in Quotes : IngestQuote(q)
    BY <1>2, StepIngests
  <2> QED BY <1>1, <1>2, <2>1, IngestInOrder
<1> HIDE DEF Final
<1>3. HistoryInv /\ [CandleNext]_candleVars => [Final]_candleVars
  BY <1>2
<1>4. CandleSpec => [][Final]_candleVars
  BY <1>3, HistoryAlways, PTL DEF CandleSpec
<1> QED BY <1>4 DEF Final, ClosedIsFinal

---------------------------------------------------------------------------
(* The timeframes.  A product with a natural number keeps the order, and   *)
(* \div lies between two multiples.                                        *)
LEMMA ProductOrder ==
  ASSUME NEW a \in Int, NEW b \in Int, NEW n \in Nat, a <= b
  PROVE  a * n <= b * n
BY SMT

LEMMA QuotientBounds ==
  ASSUME NEW a \in Nat, NEW b \in Nat \ {0}
  PROVE  /\ a \div b \in Nat
         /\ (a \div b) * b <= a /\ a < (a \div b) * b + b
BY SMT

(* n positions in groups of size: the last group may be shorter.           *)
From(g, size) == (g - 1) * size + 1
To(g, size, n) == Min({g * size, n})
Groups(n, size) == (n + size - 1) \div size

LEMMA GroupsCover ==
  ASSUME NEW n \in Nat \ {0}, NEW size \in Nat \ {0}
  PROVE  /\ Groups(n, size) \in 1..n
         /\ From(1, size) = 1 /\ To(Groups(n, size), size, n) = n
         /\ \A g \in 1..Groups(n, size) :
              /\ From(g, size) \in 1..n /\ To(g, size, n) \in 1..n
              /\ From(g, size) <= To(g, size, n)
         /\ \A i \in 1..n : \E g \in 1..Groups(n, size) :
              From(g, size) <= i /\ i <= To(g, size, n)
<1>1. PICK G : G = Groups(n, size)
  OBVIOUS
<1>2. n + size - 1 \in Nat
  OBVIOUS
<1>3. G \in Nat /\ G * size <= n + size - 1 /\ n + size - 1 < G * size + size
  BY <1>1, <1>2, QuotientBounds DEF Groups
<1>4. PICK p \in Int : p = G * size
  BY <1>3
<1>5. p <= n + size - 1 /\ n <= p
  BY <1>3, <1>4
<1>6. G >= 1
  <2>1. CASE G = 0
    <3>1. p = 0
      BY <1>4, <2>1
    <3> QED BY <1>5, <3>1
  <2> QED BY <1>3, <2>1
<1>7. (G - 1) * size = p - size
  BY <1>3, <1>4
<1>8. G <= n
  <2>1. PICK k \in Nat : k = G - 1
    BY <1>3, <1>6
  <2>2. k * 1 <= k * size
    <3>1. 1 * k <= size * k
      BY <2>1, ProductOrder
    <3> QED BY <2>1, <3>1
  <2>3. k * size = p - size
    BY <1>7, <2>1
  <2> QED BY <1>3, <1>5, <2>1, <2>2, <2>3
<1>9. ASSUME NEW g \in 1..G
      PROVE  /\ From(g, size) \in 1..n /\ To(g, size, n) \in 1..n
             /\ From(g, size) <= To(g, size, n)
             /\ To(g, size, n) = IF g * size <= n THEN g * size ELSE n
  <2>1. g \in Int /\ 0 <= g - 1 /\ g - 1 \in Nat /\ g - 1 <= G - 1 /\ G - 1 \in Nat
    BY <1>3, <1>6
  <2>2. PICK e \in Int : e = (g - 1) * size
    BY <2>1
  <2>3. g * size = e + size
    BY <2>1, <2>2
  <2>4. e <= p - size
    BY <1>7, <2>1, <2>2, ProductOrder
  <2>5. 0 <= e
    <3>1. 0 * size <= (g - 1) * size
      BY <2>1, ProductOrder
    <3> QED BY <2>2, <3>1
  <2>6. PICK t : t = To(g, size, n)
    OBVIOUS
  <2>7. e + size \in Int
    BY <2>2
  <2>8. t = IF e + size <= n THEN e + size ELSE n
    <3>1. PICK u \in Int : u = e + size
      BY <2>7
    <3>2. t = Min({u, n})
      BY <2>3, <2>6, <3>1 DEF To
    <3>3. t = IF u <= n THEN u ELSE n
      BY <3>2, PairExtremes
    <3> QED BY <3>1, <3>3
  <2>9. From(g, size) = e + 1
    BY <2>2 DEF From
  <2>10. e + 1 <= n
    BY <1>5, <2>4
  <2>11. e + 1 \in 1..n /\ t \in 1..n /\ e + 1 <= t
    BY <2>5, <2>8, <2>10
  <2> QED BY <2>3, <2>6, <2>8, <2>9, <2>11
<1>10. From(1, size) = 1
  BY DEF From
<1>11. To(G, size, n) = n
  <2>1. G \in 1..G
    BY <1>3, <1>6
  <2>2. To(G, size, n) = IF p <= n THEN p ELSE n
    BY <1>4, <1>9, <2>1
  <2> QED BY <1>5, <2>2
<1>12. ASSUME NEW i \in 1..n
       PROVE  \E g \in 1..G : From(g, size) <= i /\ i <= To(g, size, n)
  <2>1. i - 1 \in Nat
    OBVIOUS
  <2>2. PICK d : d = (i - 1) \div size
    OBVIOUS
  <2>3. d \in Nat /\ d * size <= i - 1 /\ i - 1 < d * size + size
    BY <2>1, <2>2, QuotientBounds
  <2>4. PICK e \in Int : e = d * size
    BY <2>3
  <2>5. d + 1 <= G
    <3>1. CASE G <= d
      <4>1. p <= e
        BY <1>3, <1>4, <2>3, <2>4, <3>1, ProductOrder
      <4> QED BY <1>5, <2>3, <2>4, <4>1
    <3> QED BY <1>3, <2>3, <3>1
  <2>6. d + 1 \in 1..G
    BY <2>3, <2>5
  <2>7. (d + 1) * size = e + size /\ (d + 1) - 1 = d
    BY <2>3, <2>4
  <2>8. From(d + 1, size) = e + 1
    BY <2>4, <2>7 DEF From
  <2>9. To(d + 1, size, n) = IF e + size <= n THEN e + size ELSE n
    BY <1>9, <2>6, <2>7
  <2>10. e + 1 <= i /\ i <= (IF e + size <= n THEN e + size ELSE n)
    BY <2>3, <2>4
  <2> QED BY <2>6, <2>8, <2>9, <2>10
<1> QED BY <1>1, <1>3, <1>6, <1>8, <1>9, <1>10, <1>11, <1>12

---------------------------------------------------------------------------
(* What a candle says of a sequence of candles.                            *)
Sums(k, s) ==
  /\ k.o = s[1].o /\ k.c = s[Len(s)].c /\ k.closed = s[Len(s)].closed
  /\ \E i \in DOMAIN s : k.h = s[i].h
  /\ \E i \in DOMAIN s : k.l = s[i].l
  /\ \E i \in DOMAIN s : k.v = s[i].v
  /\ \A i \in DOMAIN s : s[i].h <= k.h /\ k.l <= s[i].l /\ s[i].v <= k.v

LEMMA SequenceTyped ==
  ASSUME NEW s \in Seq(CandleRecords), s # <<>>
  PROVE  /\ Len(s) \in Nat /\ Len(s) >= 1 /\ DOMAIN s = 1..Len(s)
         /\ 1 \in DOMAIN s /\ Len(s) \in DOMAIN s
         /\ IsFiniteSet(DOMAIN s)
         /\ \A i \in DOMAIN s : s[i] \in CandleRecords
         /\ \A i \in DOMAIN s : /\ s[i].h \in Int /\ s[i].l \in Int /\ s[i].v \in Int
                                /\ s[i].o \in Int /\ s[i].c \in Int /\ s[i].closed \in BOOLEAN
<1>1. Len(s) \in Nat /\ Len(s) >= 1 /\ DOMAIN s = 1..Len(s)
  OBVIOUS
<1>2. 1 \in DOMAIN s /\ Len(s) \in DOMAIN s
  BY <1>1
<1>3. \A i \in DOMAIN s : s[i] \in CandleRecords
  BY <1>1
<1>4. IsFiniteSet(DOMAIN s)
  BY <1>1, FS_Interval
<1>5. \A i \in DOMAIN s : /\ s[i].h \in Int /\ s[i].l \in Int /\ s[i].v \in Int
                          /\ s[i].o \in Int /\ s[i].c \in Int /\ s[i].closed \in BOOLEAN
  BY <1>3 DEF CandleRecords
<1> QED BY <1>1, <1>2, <1>3, <1>4, <1>5

LEMMA OneSum ==
  ASSUME NEW s \in Seq(CandleRecords), s # <<>>,
         NEW j \in CandleRecords, NEW k \in CandleRecords, Sums(j, s), Sums(k, s)
  PROVE  j = k
<1>1. \A i \in DOMAIN s : s[i].h \in Int /\ s[i].l \in Int /\ s[i].v \in Int
  BY SequenceTyped
<1>2. /\ j.h \in Int /\ j.l \in Int /\ j.v \in Int
      /\ k.h \in Int /\ k.l \in Int /\ k.v \in Int
  BY DEF CandleRecords
<1>3. j.o = k.o /\ j.c = k.c /\ j.closed = k.closed
  BY DEF Sums
<1>4. j.h <= k.h /\ k.h <= j.h
  BY DEF Sums
<1>5. j.l <= k.l /\ k.l <= j.l
  BY DEF Sums
<1>6. j.v <= k.v /\ k.v <= j.v
  BY DEF Sums
<1>7. j.h = k.h /\ j.l = k.l /\ j.v = k.v
  BY <1>2, <1>4, <1>5, <1>6
<1>8. \A r \in CandleRecords :
        r = [o |-> r.o, h |-> r.h, l |-> r.l, c |-> r.c, v |-> r.v, closed |-> r.closed]
  BY DEF CandleRecords
<1>9. j = [o |-> j.o, h |-> j.h, l |-> j.l, c |-> j.c, v |-> j.v, closed |-> j.closed]
  BY <1>8
<1>10. k = [o |-> k.o, h |-> k.h, l |-> k.l, c |-> k.c, v |-> k.v, closed |-> k.closed]
  BY <1>8
<1> QED BY <1>3, <1>7, <1>9, <1>10

(* Finitely many numbers, listed by a function, have extremes.             *)
Ranges(S, f) == S = {f[i] : i \in DOMAIN f}

LEMMA Extremes ==
  ASSUME NEW D, IsFiniteSet(D), D # {}, NEW f \in [D -> Int], NEW S, Ranges(S, f)
  PROVE  /\ S \in SUBSET Int
         /\ Max(S) \in S /\ \A y \in S : y <= Max(S)
         /\ Min(S) \in S /\ \A y \in S : Min(S) <= y
<1> DEFINE minus == [i \in D |-> - f[i]]
           T == {minus[i] : i \in D}
<1>0. S = {f[i] : i \in D}
  BY DEF Ranges
<1>1. S \in SUBSET Int /\ S # {} /\ T \in SUBSET Int /\ T # {}
  BY <1>0
<1>2. IsFiniteSet(S) /\ IsFiniteSet(T)
  <2>1. f \in Surjection(D, S)
    BY <1>0 DEF Surjection
  <2>2. minus \in Surjection(D, T)
    BY DEF Surjection
  <2> HIDE DEF T, minus
  <2> QED BY <2>1, <2>2, FS_Surjection
<1>3. \E x \in S : \A y \in S : y <= x
  <2> QED BY <1>1, <1>2, LastMinute
<1>4. \E x \in T : \A y \in T : y <= x
  <2> HIDE DEF T
  <2> QED BY <1>1, <1>2, LastMinute
<1>5. \E x \in S : \A y \in S : x <= y
  <2>1. PICK i \in D : \A j \in D : - f[j] <= - f[i]
    BY <1>4
  <2>2. \A j \in D : f[i] <= f[j]
    BY <2>1
  <2> QED BY <1>0, <2>2
<1>6. PICK x \in S : \A y \in S : y <= x
  BY <1>3
<1>7. Max(S) = x
  BY <1>1, <1>6, ExtremesAre
<1>8. PICK z \in S : \A y \in S : z <= y
  BY <1>5
<1>9. Min(S) = z
  BY <1>1, <1>8, ExtremesAre
<1> QED BY <1>1, <1>6, <1>7, <1>8, <1>9

LEMMA MergedSums ==
  ASSUME NEW s \in Seq(CandleRecords), s # <<>>
  PROVE  Merged(s) \in CandleRecords /\ Sums(Merged(s), s)
<1> DEFINE hs == [i \in DOMAIN s |-> s[i].h]
           ls == [i \in DOMAIN s |-> s[i].l]
           us == [i \in DOMAIN s |-> s[i].v]
<1>1. hs \in [DOMAIN s -> Int] /\ ls \in [DOMAIN s -> Int] /\ us \in [DOMAIN s -> Int]
  BY SequenceTyped
<1>2. DOMAIN s # {} /\ IsFiniteSet(DOMAIN s)
  BY SequenceTyped
<1>3. PICK H : H = {s[i].h : i \in DOMAIN s}
  OBVIOUS
<1>4. PICK L : L = {s[i].l : i \in DOMAIN s}
  OBVIOUS
<1>5. PICK V : V = {s[i].v : i \in DOMAIN s}
  OBVIOUS
<1>6. H = {hs[i] : i \in DOMAIN s} /\ L = {ls[i] : i \in DOMAIN s} /\ V = {us[i] : i \in DOMAIN s}
  BY <1>3, <1>4, <1>5
<1> HIDE DEF hs, ls, us
<1>7. H \in SUBSET Int /\ Max(H) \in H /\ \A y \in H : y <= Max(H)
  <2>1. hs \in [DOMAIN s -> Int] /\ Ranges(H, hs)
    BY <1>1, <1>6 DEF Ranges
  <2> QED BY <1>2, <2>1, Extremes
<1>8. L \in SUBSET Int /\ Min(L) \in L /\ \A y \in L : Min(L) <= y
  <2>1. ls \in [DOMAIN s -> Int] /\ Ranges(L, ls)
    BY <1>1, <1>6 DEF Ranges
  <2> QED BY <1>2, <2>1, Extremes
<1>9. V \in SUBSET Int /\ Max(V) \in V /\ \A y \in V : y <= Max(V)
  <2>1. us \in [DOMAIN s -> Int] /\ Ranges(V, us)
    BY <1>1, <1>6 DEF Ranges
  <2> QED BY <1>2, <2>1, Extremes
<1>10. PICK h \in Int : h = Max(H)
  BY <1>7
<1>11. PICK l \in Int : l = Min(L)
  BY <1>8
<1>12. PICK v \in Int : v = Max(V)
  BY <1>9
<1>13. PICK k : k = Merged(s)
  OBVIOUS
<1>14. Head(s) = s[1]
  BY DEF Head
<1>15. k = [o |-> s[1].o, c |-> s[Len(s)].c, closed |-> s[Len(s)].closed,
            h |-> h, l |-> l, v |-> v]
  BY <1>3, <1>4, <1>5, <1>10, <1>11, <1>12, <1>13, <1>14 DEF Merged, Last
<1>16. k \in CandleRecords
  BY <1>15, SequenceTyped DEF CandleRecords
<1>17. \A i \in DOMAIN s : s[i].h <= k.h /\ k.l <= s[i].l /\ s[i].v <= k.v
  BY <1>3, <1>4, <1>5, <1>7, <1>8, <1>9, <1>10, <1>11, <1>12, <1>15
<1>18. /\ \E i \in DOMAIN s : k.h = s[i].h
       /\ \E i \in DOMAIN s : k.l = s[i].l
       /\ \E i \in DOMAIN s : k.v = s[i].v
  BY <1>3, <1>4, <1>5, <1>7, <1>8, <1>9, <1>10, <1>11, <1>12, <1>15
<1>19. Sums(k, s)
  BY <1>15, <1>17, <1>18 DEF Sums
<1> QED BY <1>13, <1>16, <1>19

LEMMA SubSeqIs ==
  ASSUME NEW s \in Seq(CandleRecords), NEW a \in 1..Len(s), NEW b \in 1..Len(s), a <= b
  PROVE  /\ SubSeq(s, a, b) \in Seq(CandleRecords) /\ SubSeq(s, a, b) # <<>>
         /\ Len(SubSeq(s, a, b)) = b - a + 1
         /\ \A i \in 1..(b - a + 1) : SubSeq(s, a, b)[i] = s[a + i - 1]
<1>1. Len(s) \in Nat /\ a \in Int /\ b \in Int
  OBVIOUS
<1>2. SubSeq(s, a, b) = [i \in 1..(b - a + 1) |-> s[a + i - 1]]
  BY <1>1
<1>3. ASSUME NEW i \in 1..(b - a + 1) PROVE s[a + i - 1] \in CandleRecords
  <2>1. a + i - 1 \in 1..Len(s)
    BY <1>1
  <2> QED BY <2>1
<1>4. b - a + 1 \in Nat /\ b - a + 1 >= 1
  BY <1>1
<1>5. PICK sub : sub = [i \in 1..(b - a + 1) |-> s[a + i - 1]]
  OBVIOUS
<1>6. sub \in Seq(CandleRecords) /\ Len(sub) = b - a + 1
  BY <1>3, <1>4, <1>5
<1>7. sub # <<>>
  BY <1>4, <1>6
<1> QED BY <1>2, <1>5, <1>6, <1>7

(* The candles of a longer timeframe say together what the shorter ones    *)
(* they are made of say.                                                   *)
LEMMA GroupsAgree ==
  ASSUME NEW s \in Seq(CandleRecords), s # <<>>, NEW size \in Nat \ {0}
  PROVE  /\ Aggregated(s, size) \in Seq(CandleRecords) /\ Aggregated(s, size) # <<>>
         /\ Len(Aggregated(s, size)) <= Len(s)
         /\ Merged(Aggregated(s, size)) = Merged(s)
<1>1. PICK n \in Nat \ {0} : n = Len(s) /\ DOMAIN s = 1..n
  BY SequenceTyped
<1>2. PICK G : G = Groups(n, size)
  OBVIOUS
<1>3. /\ G \in 1..n /\ From(1, size) = 1 /\ To(G, size, n) = n
      /\ \A g \in 1..G : /\ From(g, size) \in 1..n /\ To(g, size, n) \in 1..n
                         /\ From(g, size) <= To(g, size, n)
      /\ \A i \in 1..n : \E g \in 1..G : From(g, size) <= i /\ i <= To(g, size, n)
  BY <1>2, GroupsCover
<1> DEFINE Chunk(g) == SubSeq(s, From(g, size), To(g, size, n))
<1>4. Aggregated(s, size) = [g \in 1..G |-> Merged(Chunk(g))]
  BY <1>1, <1>2 DEF Aggregated, From, To, Groups
<1>5. ASSUME NEW g \in 1..G
      PROVE  /\ Chunk(g) \in Seq(CandleRecords) /\ Chunk(g) # <<>>
             /\ Len(Chunk(g)) = To(g, size, n) - From(g, size) + 1
             /\ \A i \in 1..(To(g, size, n) - From(g, size) + 1) :
                  Chunk(g)[i] = s[From(g, size) + i - 1]
  BY <1>1, <1>3, SubSeqIs
<1> HIDE DEF Chunk
<1>6. ASSUME NEW g \in 1..G
      PROVE  Merged(Chunk(g)) \in CandleRecords /\ Sums(Merged(Chunk(g)), Chunk(g))
  BY <1>5, MergedSums
<1>7. PICK a : a = Aggregated(s, size)
  OBVIOUS
<1>8. /\ a \in Seq(CandleRecords) /\ Len(a) = G /\ DOMAIN a = 1..G
      /\ \A g \in 1..G : a[g] = Merged(Chunk(g))
  BY <1>3, <1>4, <1>6, <1>7
<1>9. a # <<>>
  BY <1>3, <1>8
<1>10. PICK k : k = Merged(a)
  OBVIOUS
<1>11. k \in CandleRecords /\ Sums(k, a)
  BY <1>8, <1>9, <1>10, MergedSums
(* Each of a group's positions is one of the sequence, and each of the     *)
(* sequence's is in a group.                                               *)
<1>12. ASSUME NEW g \in 1..G, NEW i \in DOMAIN Chunk(g)
       PROVE  \E j \in 1..n : Chunk(g)[i] = s[j]
  <2>1. PICK f \in 1..n : f = From(g, size)
    BY <1>3
  <2>2. PICK t \in 1..n : t = To(g, size, n)
    BY <1>3
  <2>3. f <= t
    BY <1>3, <2>1, <2>2
  <2>4. DOMAIN Chunk(g) = 1..(t - f + 1)
    BY <1>5, <2>1, <2>2
  <2>5. i \in 1..(t - f + 1) /\ Chunk(g)[i] = s[f + i - 1]
    BY <1>5, <2>1, <2>2, <2>4
  <2>6. f + i - 1 \in 1..n
    BY <2>3, <2>5
  <2> QED BY <2>5, <2>6
<1>13. ASSUME NEW j \in 1..n
       PROVE  \E g \in 1..G : \E i \in DOMAIN Chunk(g) : Chunk(g)[i] = s[j]
  <2>1. PICK g \in 1..G : From(g, size) <= j /\ j <= To(g, size, n)
    BY <1>3
  <2>2. PICK f \in 1..n : f = From(g, size)
    BY <1>3
  <2>3. PICK t \in 1..n : t = To(g, size, n)
    BY <1>3
  <2>4. DOMAIN Chunk(g) = 1..(t - f + 1)
    BY <1>5, <2>2, <2>3
  <2>5. j - f + 1 \in 1..(t - f + 1) /\ f + (j - f + 1) - 1 = j
    BY <2>1, <2>2, <2>3
  <2>6. Chunk(g)[j - f + 1] = s[f + (j - f + 1) - 1]
    BY <1>5, <2>2, <2>3, <2>5
  <2> QED BY <2>4, <2>5, <2>6
<1>14. k.o = s[1].o
  <2>1. k.o = a[1].o /\ 1 \in 1..G
    BY <1>3, <1>11 DEF Sums
  <2>2. a[1].o = Chunk(1)[1].o
    BY <1>6, <1>8, <2>1 DEF Sums
  <2>3. PICK t \in 1..n : t = To(1, size, n) /\ 1 <= t
    BY <1>3, <2>1
  <2>4. 1 \in 1..(t - 1 + 1)
    BY <2>3
  <2>5. Chunk(1)[1] = s[1 + 1 - 1]
    BY <1>3, <1>5, <2>1, <2>3, <2>4
  <2> QED BY <2>1, <2>2, <2>5
<1>15. k.c = s[n].c /\ k.closed = s[n].closed
  <2>1. k.c = a[G].c /\ k.closed = a[G].closed /\ G \in 1..G
    BY <1>3, <1>8, <1>11 DEF Sums
  <2>2. PICK f \in 1..n : f = From(G, size)
    BY <1>3, <2>1
  <2>3. Len(Chunk(G)) = n - f + 1
    BY <1>3, <1>5, <2>1, <2>2
  <2>4. a[G].c = Chunk(G)[n - f + 1].c /\ a[G].closed = Chunk(G)[n - f + 1].closed
    BY <1>6, <1>8, <2>1, <2>3 DEF Sums
  <2>5. n - f + 1 \in 1..(n - f + 1) /\ f + (n - f + 1) - 1 = n
    BY <2>2
  <2>6. Chunk(G)[n - f + 1] = s[f + (n - f + 1) - 1]
    BY <1>3, <1>5, <2>1, <2>2, <2>5
  <2> QED BY <2>1, <2>4, <2>5, <2>6
<1>16. /\ \E j \in 1..n : k.h = s[j].h
       /\ \E j \in 1..n : k.l = s[j].l
       /\ \E j \in 1..n : k.v = s[j].v
  <2>1. \E j \in 1..n : k.h = s[j].h
    <3>1. PICK g \in 1..G : k.h = a[g].h
      BY <1>8, <1>11 DEF Sums
    <3>2. PICK i \in DOMAIN Chunk(g) : a[g].h = Chunk(g)[i].h
      BY <1>6, <1>8 DEF Sums
    <3> QED BY <1>12, <3>1, <3>2
  <2>2. \E j \in 1..n : k.l = s[j].l
    <3>1. PICK g \in 1..G : k.l = a[g].l
      BY <1>8, <1>11 DEF Sums
    <3>2. PICK i \in DOMAIN Chunk(g) : a[g].l = Chunk(g)[i].l
      BY <1>6, <1>8 DEF Sums
    <3> QED BY <1>12, <3>1, <3>2
  <2>3. \E j \in 1..n : k.v = s[j].v
    <3>1. PICK g \in 1..G : k.v = a[g].v
      BY <1>8, <1>11 DEF Sums
    <3>2. PICK i \in DOMAIN Chunk(g) : a[g].v = Chunk(g)[i].v
      BY <1>6, <1>8 DEF Sums
    <3> QED BY <1>12, <3>1, <3>2
  <2> QED BY <2>1, <2>2, <2>3
<1>17. ASSUME NEW j \in 1..n
       PROVE  s[j].h <= k.h /\ k.l <= s[j].l /\ s[j].v <= k.v
  <2>1. PICK g \in 1..G : \E i \in DOMAIN Chunk(g) : Chunk(g)[i] = s[j]
    BY <1>13
  <2>2. PICK i \in DOMAIN Chunk(g) : Chunk(g)[i] = s[j]
    BY <2>1
  <2>3. s[j].h <= a[g].h /\ a[g].l <= s[j].l /\ s[j].v <= a[g].v
    BY <1>6, <1>8, <2>2 DEF Sums
  <2>4. a[g].h <= k.h /\ k.l <= a[g].l /\ a[g].v <= k.v
    BY <1>8, <1>11 DEF Sums
  <2>5. /\ s[j].h \in Int /\ s[j].l \in Int /\ s[j].v \in Int
        /\ k.h \in Int /\ k.l \in Int /\ k.v \in Int
    BY <1>1, <1>11, SequenceTyped DEF CandleRecords
  <2>6. a[g] \in CandleRecords
    BY <1>6, <1>8
  <2>7. a[g].h \in Int /\ a[g].l \in Int /\ a[g].v \in Int
    BY <2>6 DEF CandleRecords
  <2>8. s[j].h <= k.h
    BY <2>3, <2>4, <2>5, <2>7
  <2>9. k.l <= s[j].l
    BY <2>3, <2>4, <2>5, <2>7
  <2>10. s[j].v <= k.v
    BY <2>3, <2>4, <2>5, <2>7
  <2> QED BY <2>8, <2>9, <2>10
<1>18. Sums(k, s)
  BY <1>1, <1>14, <1>15, <1>16, <1>17 DEF Sums
<1>19. Merged(s) \in CandleRecords /\ Sums(Merged(s), s)
  BY MergedSums
<1>20. k = Merged(s)
  BY <1>11, <1>18, <1>19, OneSum
<1> QED BY <1>1, <1>3, <1>7, <1>8, <1>9, <1>10, <1>20

---------------------------------------------------------------------------
(* The history in the order of time.                                       *)
LEMMA NthIs ==
  ASSUME NEW S \in SUBSET Int, IsFiniteSet(S), NEW i \in 1..Cardinality(S)
  PROVE  Nth(S, i) \in S
<1>1. PICK m \in S : Cardinality(Below(S, m)) = i - 1
  BY Ranked
<1>2. Cardinality({k \in S : k < m}) = i - 1
  BY <1>1 DEF Below
<1> QED BY <1>2 DEF Nth

(* No more than MaxHistory minutes are kept.                               *)
LEMMA KeptFew ==
  ASSUME NEW S \in SUBSET Int, IsFiniteSet(S)
  PROVE  /\ Kept(S) \in SUBSET S /\ IsFiniteSet(Kept(S))
         /\ Cardinality(Kept(S)) \in Nat /\ Cardinality(Kept(S)) <= MaxHistory
<1>1. PICK k : k = Kept(S)
  OBVIOUS
<1>2. k = {m \in S : Cardinality(Above(S, m)) < MaxHistory}
  BY <1>1, KeptAbove
<1>3. k \in SUBSET S /\ k \in SUBSET Int
  BY <1>2
<1>4. IsFiniteSet(k) /\ Cardinality(k) \in Nat /\ MaxHistory \in Nat
  BY <1>3, FS_Subset, FS_CardinalityType, HistoryAssumption
<1>5. ASSUME k # {} PROVE Cardinality(k) <= MaxHistory
  <2>1. PICK m \in k : \A n \in k : m <= n
    <3> DEFINE f == [n \in k |-> n]
    <3>1. f \in [k -> Int] /\ Ranges(k, f)
      BY <1>3 DEF Ranges
    <3>2. Min(k) \in k /\ \A n \in k : Min(k) <= n
      <4> HIDE DEF f
      <4> QED BY <1>4, <1>5, <3>1, Extremes
    <3> QED BY <3>2
  <2>2. ASSUME NEW z \in k \ {m} PROVE z \in Above(S, m)
    <3>1. z \in Int /\ m \in Int /\ z \in S /\ m <= z /\ z # m
      BY <1>3, <2>1
    <3> QED BY <3>1 DEF Above
  <2>3. k \ {m} \in SUBSET Above(S, m)
    BY <2>2
  <2>4. IsFiniteSet(Above(S, m)) /\ Cardinality(Above(S, m)) \in Nat
    BY <1>3, AboveCounted
  <2>5. Cardinality(k \ {m}) <= Cardinality(Above(S, m))
    BY <2>3, <2>4, FS_Subset
  <2>6. Cardinality(k \ {m}) = Cardinality(k) - 1
    BY <1>4, FS_RemoveElement
  <2>7. Cardinality(Above(S, m)) < MaxHistory
    BY <1>2
  <2> QED BY <1>4, <2>4, <2>5, <2>6, <2>7
<1>6. CASE k = {}
  <2>1. Cardinality(k) = 0
    BY <1>6, FS_EmptySet
  <2> QED BY <1>1, <1>3, <1>4, <2>1
<1> QED BY <1>1, <1>3, <1>4, <1>5, <1>6

LEMMA OrderedIs ==
  ASSUME HistoryInv, candles # NoCandles
  PROVE  /\ Ordered(candles) \in Seq(CandleRecords) /\ Ordered(candles) # <<>>
         /\ Len(Ordered(candles)) <= MaxHistory
<1>1. PICK D : D = DOMAIN candles
  OBVIOUS
<1>2. Seen \in SUBSET Int
  BY LogTyped DEF HistoryInv, Records, Seen
<1>3. D \in SUBSET Int /\ IsFiniteSet(D) /\ Cardinality(D) \in Nat /\ Cardinality(D) <= MaxHistory
  <2>1. IsFiniteSet(Seen) /\ D = Kept(Seen)
    BY <1>1 DEF HistoryInv, Recent
  <2>2. Kept(Seen) \in SUBSET Seen /\ IsFiniteSet(Kept(Seen))
        /\ Cardinality(Kept(Seen)) \in Nat /\ Cardinality(Kept(Seen)) <= MaxHistory
    BY <1>2, <2>1, KeptFew
  <2> QED BY <1>2, <2>1, <2>2
<1>4. PICK n \in Nat : n = Cardinality(D)
  BY <1>3
<1>5. \A i \in 1..n : candles[Nth(D, i)] \in CandleRecords
  BY <1>1, <1>3, <1>4, NthIs DEF HistoryInv, Records
<1>6. PICK s : s = Ordered(candles)
  OBVIOUS
<1>7. s = [i \in 1..n |-> candles[Nth(D, i)]]
  BY <1>1, <1>4, <1>6 DEF Ordered
<1>8. s \in Seq(CandleRecords) /\ Len(s) = n
  BY <1>4, <1>5, <1>7
<1>9. n # 0
  <2>1. ASSUME D = {} PROVE FALSE
    <3>1. candles = [m \in {} |-> 0]
      BY <1>1, <2>1 DEF HistoryInv, Records
    <3> QED BY <3>1 DEF NoCandles
  <2> QED BY <1>3, <1>4, <2>1, FS_EmptySet
<1>10. s # <<>>
  BY <1>8, <1>9
<1> QED BY <1>3, <1>4, <1>6, <1>8, <1>10

(* Asking for as many candles as there are at least gives all of them.     *)
LEMMA LatestIsAll ==
  ASSUME NEW s \in Seq(CandleRecords), s # <<>>, Len(s) <= MaxHistory
  PROVE  Latest(s, MaxHistory) = s
<1>1. PICK n \in Nat : n = Len(s) /\ n >= 1
  BY SequenceTyped
<1>2. PICK d \in Int : d = n - MaxHistory + 1
  <2>1. n - MaxHistory + 1 \in Int
    BY <1>1, HistoryAssumption
  <2> QED BY <2>1
<1>3. d <= 1
  BY <1>1, <1>2, HistoryAssumption
<1>4. Max({1, d}) = 1
  <2>1. Max({1, d}) = IF 1 >= d THEN 1 ELSE d
    BY PairExtremes
  <2> QED BY <1>3, <2>1
<1>5. Latest(s, MaxHistory) = SubSeq(s, 1, n)
  BY <1>1, <1>2, <1>4 DEF Latest
<1> QED BY <1>1, <1>5

(* Every timeframe tells the same story: together its candles open, close, *)
(* peak and trough where the one minute candles do.                        *)
THEOREM FramesAgree == CandleSpec => []TimeframesAgree
<1>1. ASSUME HistoryInv, candles # NoCandles, NEW size \in GroupSizes
      PROVE  Merged(GetCandles(candles, size, MaxHistory)) = Merged(GetCandles(candles, 1, MaxHistory))
  <2>1. PICK s : s = Ordered(candles)
    OBVIOUS
  <2>2. s \in Seq(CandleRecords) /\ s # <<>> /\ Len(s) <= MaxHistory /\ Len(s) \in Nat
    BY <1>1, <2>1, OrderedIs
  <2>3. size \in Nat \ {0}
    BY GroupAssumption
  <2>4. GetCandles(candles, 1, MaxHistory) = s
    BY <2>1, <2>2, LatestIsAll DEF GetCandles
  <2>5. CASE size = 1
    BY <2>5
  <2>6. CASE size # 1
    <3>1. PICK a : a = Aggregated(s, size)
      OBVIOUS
    <3>2. a \in Seq(CandleRecords) /\ a # <<>> /\ Len(a) <= Len(s) /\ Merged(a) = Merged(s)
      BY <2>2, <2>3, <3>1, GroupsAgree
    <3>3. Len(a) <= MaxHistory
      BY <2>2, <3>2, HistoryAssumption
    <3>4. GetCandles(candles, size, MaxHistory) = a
      BY <2>1, <2>6, <3>1, <3>2, <3>3, LatestIsAll DEF GetCandles
    <3> QED BY <2>4, <3>2, <3>4
  <2> QED BY <2>5, <2>6
<1>2. HistoryInv => TimeframesAgree
  BY <1>1 DEF TimeframesAgree
<1> QED BY <1>2, HistoryAlways, PTL
=============================================================================
