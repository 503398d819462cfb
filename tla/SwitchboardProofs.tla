-------------------------- MODULE SwitchboardProofs --------------------------
(***************************************************************************)
(* Proofs about Switchboard, for every number of clients, addresses,       *)
(* topics and rows: the type invariant, that no cursor ever passes an event *)
(* its address has not read, and what becomes of direct messages.          *)
(***************************************************************************)
EXTENDS Switchboard, FiniteSetTheorems, TLAPS

(***************************************************************************)
(* What a page of a query contains.                                        *)
(***************************************************************************)

(* The size of an interval of row ids. *)
LEMMA IntervalSize ==
    ASSUME NEW a \in Int, NEW b \in Int, a <= b + 1
    PROVE  IsFiniteSet(a..b) /\ Cardinality(a..b) = b - a + 1
<1>1. IsFiniteSet(a..b) /\ Cardinality(a..b) = IF a > b THEN 0 ELSE b - a + 1
  BY FS_Interval
<1>2. CASE a > b
  <2>1. b - a + 1 = 0
    BY <1>2
  <2> QED BY <1>1, <1>2, <2>1
<1>3. CASE ~(a > b)
  BY <1>1, <1>3
<1> QED BY <1>2, <1>3

(* A set of row ids strictly between two bounds has no more elements than   *)
(* there are row ids between them.                                          *)
LEMMA BetweenSize ==
    ASSUME NEW T, NEW low \in Nat, NEW high \in Nat, low <= high,
           T \subseteq Nat, \A r \in T : low < r /\ r <= high
    PROVE  /\ IsFiniteSet(T)
           /\ Cardinality(T) \in Nat
           /\ low + Cardinality(T) <= high
<1>1. low + 1 \in Int /\ high \in Int /\ low + 1 <= high + 1
  OBVIOUS
<1>2. high - (low + 1) + 1 = high - low
  OBVIOUS
<1>3. IsFiniteSet((low+1)..high) /\ Cardinality((low+1)..high) = high - low
  BY <1>1, <1>2, IntervalSize
<1>4. T \subseteq (low+1)..high
  OBVIOUS
<1>5. IsFiniteSet(T) /\ Cardinality(T) <= high - low
  BY <1>3, <1>4, FS_Subset
<1>6. Cardinality(T) \in Nat
  BY <1>5, FS_CardinalityType
<1> QED BY <1>5, <1>6

(* A page of rows after `base' is short enough that counting its rows from  *)
(* base reaches neither past a row it left out nor past the last row.       *)
LEMMA PageReach ==
    ASSUME NEW S \in SUBSET Nat, NEW n \in Nat, NEW base \in Nat,
           NEW last \in Nat, base <= last,
           \A r \in S : base < r /\ r <= last
    PROVE  /\ Cardinality(Oldest(S, n)) \in Nat
           /\ base + Cardinality(Oldest(S, n)) <= last
           /\ \A r \in S : r <= base + Cardinality(Oldest(S, n))
                              => r \in Oldest(S, n)
<1> DEFINE Below(r) == {p \in S : p < r}
           T == Oldest(S, n)
<1>1. T = {r \in S : Cardinality(Below(r)) < n}
  BY DEF Oldest
<1>2. T \subseteq S
  BY <1>1
<1> HIDE DEF T
<1>3. /\ Cardinality(T) \in Nat
      /\ base + Cardinality(T) <= last
  BY <1>2, BetweenSize
<1>4. ASSUME NEW r \in S, r <= base + Cardinality(T), r \notin T
      PROVE  FALSE
  <2>1. ASSUME NEW q \in T, r < q PROVE FALSE
    <3>1. q \in S /\ q \in Nat /\ r \in Nat
      BY <1>2
    <3>2. ASSUME NEW p \in S, p < r PROVE p < q
      <4>1. p \in Nat
        OBVIOUS
      <4> QED BY <4>1, <3>1, <3>2, <2>1
    <3>3. Below(r) \subseteq Below(q)
      BY <3>2, Zenon
    <3>4. Below(q) \subseteq Nat /\ \A p \in Below(q) : base < p /\ p <= last
      OBVIOUS
    <3> HIDE DEF Below
    <3>5. IsFiniteSet(Below(q)) /\ Cardinality(Below(q)) \in Nat
      BY <3>4, BetweenSize
    <3>6. /\ IsFiniteSet(Below(r))
          /\ Cardinality(Below(r)) <= Cardinality(Below(q))
      BY <3>3, <3>5, FS_Subset
    <3>7. Cardinality(Below(r)) \in Nat
      BY <3>6, FS_CardinalityType
    <3>8. Cardinality(Below(q)) < n /\ ~ (Cardinality(Below(r)) < n)
      BY <1>1, <1>4, <2>1
    <3> QED BY <3>5, <3>6, <3>7, <3>8
  <2>2. \A q \in T : base < q /\ q <= r - 1
    <3> TAKE q \in T
    <3>1. q \in Nat /\ r \in Nat /\ base < q /\ q # r
      BY <1>2, <1>4
    <3> QED BY <2>1, <3>1
  <2>3. r - 1 \in Nat /\ base <= r - 1 /\ T \subseteq Nat
    BY <1>2
  <2>4. base + Cardinality(T) <= r - 1
    BY <2>2, <2>3, BetweenSize
  <2>5. r \in Nat
    OBVIOUS
  <2> QED BY <2>4, <2>5, <1>3, <1>4
<1>5. \A r \in S : r <= base + Cardinality(T) => r \in T
  BY <1>4
<1> QED BY <1>3, <1>5 DEF T

(***************************************************************************)
(* Type correctness.                                                       *)
(***************************************************************************)

LEMMA InitTypeOK == Init => TypeOK
BY ConstantsAssumption
DEF Init, TypeOK, StoreTypeOK, Row, Status, Sync, Idle, Section, Message, NoMessage

(* The statements of the store keep its columns typed. *)
LEMMA MarkTypes ==
    ASSUME StoreTypeOK, NEW r \in Row, markDelivered(r) \/ markFailed(r)
    PROVE  StoreTypeOK'
<1>1. status' \in [Row -> Status]
  BY DEF StoreTypeOK, Status, markDelivered, markFailed
<1>2. deliveredAt' \in [Row -> 0..MaxClock]
  BY DEF StoreTypeOK, markDelivered, markFailed
<1> QED BY <1>1, <1>2 DEF StoreTypeOK, markDelivered, markFailed

LEMMA SweepTypes ==
    ASSUME StoreTypeOK, expireMessages \/ \E S : Purge(S)
    PROVE  StoreTypeOK'
<1>1. status' \in [Row -> Status]
  BY DEF StoreTypeOK, Status, expireMessages, Purge
<1> QED BY <1>1 DEF StoreTypeOK, expireMessages, Purge

LEMMA EnqueueTypes ==
    ASSUME StoreTypeOK, NEW m \in Message, enqueue(m)
    PROVE  StoreTypeOK' /\ lastRow' \in Row /\ lastRow' = lastRow + 1
<1>1. lastRow' \in 0..MaxRow /\ lastRow' \in Row /\ lastRow' = lastRow + 1
  BY ConstantsAssumption DEF StoreTypeOK, enqueue, Row
<1>2. status' \in [Row -> Status] /\ msg' \in [Row -> Message \cup {NoMessage}]
  BY DEF StoreTypeOK, Status, enqueue
<1> QED BY <1>1, <1>2 DEF StoreTypeOK, enqueue

(* A page is a set of rows. *)
LEMMA PagesAreRows ==
    ASSUME StoreTypeOK
    PROVE  /\ \A a, n : getPendingFor(a, n) \subseteq Row
           /\ \A t, k, n : getPendingEvents(t, k, n) \subseteq Row
           /\ \A r : getReply(r) \subseteq Row
           /\ \A S, n : Newest(S, n) \subseteq S /\ Oldest(S, n) \subseteq S
BY DEF getPendingFor, getPendingEvents, getReply, Oldest, Newest, Pending,
       PendingEvents

LEMMA NewMessageType ==
    ASSUME StoreTypeOK, NEW p \in Pattern, NEW c \in Client,
           NEW to \in Address \cup {NoAddress}, NEW t \in Topic \cup {NoTopic},
           NEW r \in 0..MaxRow
    PROVE  NewMessage(p, c, to, t, r) \in Message
BY ConstantsAssumption DEF NewMessage, Message, StoreTypeOK

LEMMA SendTypes ==
    ASSUME TypeOK, NEW c \in Client, Send(c)
    PROVE  TypeOK'
<1> USE DEF TypeOK
<1>1. CASE \E a \in Address : cast(c, a)
  <2>1. StoreTypeOK'
    BY <1>1, NewMessageType, EnqueueTypes, ConstantsAssumption
    DEF cast, Pattern
  <2> QED BY <1>1, <2>1 DEF cast, clientVars, daemonVars, history
<1>2. CASE \E a \in Address : call(c, a)
  <2>1. PICK a \in Address : call(c, a)
    BY <1>2
  <2>2. StoreTypeOK' /\ lastRow + 1 \in Row
    BY <2>1, NewMessageType, EnqueueTypes, ConstantsAssumption
    DEF call, Pattern
  <2>3. calls' \in [Client -> 0..MaxRow]
    BY <2>1, <2>2, ConstantsAssumption DEF call, Row
  <2> QED BY <2>1, <2>2, <2>3 DEF call, daemonVars, history
<1>3. CASE \E r \in Row : reply(c, r)
  <2>1. PICK r \in Row : reply(c, r)
    BY <1>3
  <2>2. msg[r].from \in Address /\ r \in 0..MaxRow
    BY <2>1, ConstantsAssumption
    DEF reply, StoreTypeOK, Message, NoMessage, Row
  <2>3. StoreTypeOK'
    BY <2>1, <2>2, NewMessageType, EnqueueTypes, ConstantsAssumption
    DEF reply, Pattern
  <2> QED BY <2>1, <2>3 DEF reply, clientVars, daemonVars, history
<1>4. CASE \E t \in Topic : publish(c, t)
  <2>1. PICK t \in Topic : publish(c, t)
    BY <1>4
  <2>2. StoreTypeOK'
    BY <2>1, NewMessageType, EnqueueTypes, ConstantsAssumption
    DEF publish, Pattern
  <2>3. audience' \in [Row -> SUBSET Address]
    BY <2>1 DEF publish
  <2> QED BY <2>1, <2>2, <2>3 DEF publish, clientVars, daemonVars
<1> QED BY <1>1, <1>2, <1>3, <1>4 DEF Send

(* Going on with the loop of pollEvents neither holds rows nor a cursor.     *)
LEMMA OnwardsHoldsNothing ==
    ASSUME NEW rest
    PROVE  Onwards(rest).op \in {"none", "topics"} /\ Onwards(rest).rows = {}
BY DEF Onwards, Idle, Section

LEMMA ReceiveTypes ==
    ASSUME TypeOK, NEW c \in Client,
           AwaitReply(c) \/ PollRead(c) \/ PollMark(c) \/ Deliver(c) \/ Crash(c)
    PROVE  TypeOK'
<1> USE DEF TypeOK, history, daemonVars
<1>1. CASE CallSeesReply(c)
  <2>1. sync' \in [Client -> Sync]
    BY <1>1, PagesAreRows DEF CallSeesReply, Sync, Idle, Section
  <2>2. StoreTypeOK'
    BY <1>1 DEF CallSeesReply, db, StoreTypeOK
  <2> QED BY <1>1, <2>1, <2>2 DEF CallSeesReply
<1>2. CASE CallReturns(c)
  <2>1. PICK r \in Row : markDelivered(r) /\ collected' = collected \cup {r}
    BY <1>2 DEF CallReturns, Sync
  <2>2. StoreTypeOK'
    BY <2>1, MarkTypes
  <2>3. sync' \in [Client -> Sync] /\ calls' \in [Client -> 0..MaxRow]
    BY <1>2, ConstantsAssumption DEF CallReturns, Sync, Idle, Section
  <2> QED BY <1>2, <2>1, <2>2, <2>3
          DEF CallReturns, markDelivered
<1>3. CASE CallTimesOut(c)
  <2>1. calls[c] \in Row
    BY <1>3, ConstantsAssumption DEF CallTimesOut, Row
  <2>2. StoreTypeOK'
    BY <1>3, <2>1, MarkTypes DEF CallTimesOut
  <2>3. calls' \in [Client -> 0..MaxRow]
    BY <1>3, ConstantsAssumption DEF CallTimesOut
  <2> QED BY <1>3, <2>2, <2>3 DEF CallTimesOut
<1>4. CASE PollRead(c)
  <2>1. sync' \in [Client -> Sync]
    BY <1>4, PagesAreRows DEF PollRead, Sync, Idle, Section
  <2>2. StoreTypeOK'
    BY <1>4 DEF PollRead, db, StoreTypeOK
  <2> QED BY <1>4, <2>1, <2>2 DEF PollRead
<1>5. CASE PollMark(c)
  <2>1. PICK r \in sync[c].rows :
           /\ markDelivered(r)
           /\ inbox' = [inbox EXCEPT ![c] = @ \cup {r}]
           /\ sync' = [sync EXCEPT ![c] =
                         IF sync[c].rows = {r} THEN Idle
                         ELSE Section("poll", sync[c].rows \ {r}, NoTopic, 0)]
    BY <1>5, PagesAreRows DEF PollMark
  <2>2. r \in Row
    BY DEF Sync
  <2>3. StoreTypeOK'
    BY <2>1, <2>2, MarkTypes
  <2>4. inbox' \in [Client -> SUBSET Row]
    BY <2>1, <2>2
  <2>5. sync' \in [Client -> Sync]
    <3>1. Idle \in Sync
      BY DEF Sync, Idle, Section
    <3>2. sync[c].rows \ {r} \in SUBSET Row
      BY DEF Sync
    <3>3. Section("poll", sync[c].rows \ {r}, NoTopic, 0) \in Sync
      BY <3>2 DEF Sync, Section
    <3>4. sync' = [sync EXCEPT ![c] =
                     IF sync[c].rows = {r} THEN Idle
                     ELSE Section("poll", sync[c].rows \ {r}, NoTopic, 0)]
      BY <2>1
    <3> HIDE DEF TypeOK
    <3>5. sync \in [Client -> Sync]
      BY DEF TypeOK
    <3> QED BY <3>1, <3>3, <3>4, <3>5
  <2> QED BY <1>5, <2>3, <2>4, <2>5 DEF PollMark
<1>6. CASE Deliver(c)
  <2>1. PICK r \in Row : onMessage(c, r)
    BY <1>6 DEF Deliver
  <2>2. StoreTypeOK'
    BY <2>1 DEF onMessage, db, StoreTypeOK
  <2> QED BY <2>1, <2>2 DEF onMessage
<1>7. CASE Crash(c)
  <2>1. StoreTypeOK'
    BY <1>7 DEF Crash, db, StoreTypeOK
  <2>2. sync' \in [Client -> Sync] /\ calls' \in [Client -> 0..MaxRow]
    BY <1>7, ConstantsAssumption DEF Crash, Sync, Idle, Section
  <2>3. crashes' \in 0..MaxCrash
    BY <1>7, ConstantsAssumption DEF Crash
  <2>4. inbox' \in [Client -> SUBSET Row] /\ lost' \in [Client -> SUBSET Row]
    BY <1>7 DEF Crash
  <2> QED BY <1>7, <2>1, <2>2, <2>3, <2>4 DEF Crash
<1> QED BY <1>1, <1>2, <1>3, <1>4, <1>5, <1>6, <1>7 DEF AwaitReply

LEMMA EventTypes ==
    ASSUME TypeOK, NEW c \in Client, PollEvents(c) \/ Membership(c)
    PROVE  TypeOK'
<1> USE DEF TypeOK, history, daemonVars, clientVars
<1>0. \A rest \in SUBSET Topic : Onwards(rest) \in Sync
  BY DEF Onwards, Idle, Section, Sync
<1>5. CASE EventsTopics(c)
  <2>1. sync' \in [Client -> Sync]
    <3>1. PICK rest \in SUBSET Topic :
             sync' = [sync EXCEPT ![c] = Onwards(rest)]
      BY <1>5 DEF EventsTopics
    <3> QED BY <3>1, <1>0
  <2>2. StoreTypeOK'
    BY <1>5 DEF EventsTopics, db, StoreTypeOK
  <2> QED BY <1>5, <2>1, <2>2 DEF EventsTopics
<1>1. CASE \E t \in Topic : EventsCursor(c, t)
  <2>1. PICK t \in Topic : EventsCursor(c, t)
    BY <1>1
  <2>2. <<AddressOf[c], t>> \in Address \X Topic
    BY ConstantsAssumption
  <2>3. cursor[<<AddressOf[c], t>>] \in Nat
    BY <2>2 DEF StoreTypeOK
  <2>4. sync' \in [Client -> Sync]
    <3>1. [Section("cursor", {}, t, cursor[<<AddressOf[c], t>>])
              EXCEPT !.rest = sync[c].rest \ {t}] \in Sync
      BY <2>3 DEF Sync, Section
    <3> QED BY <2>1, <3>1 DEF EventsCursor
  <2>5. StoreTypeOK'
    BY <2>1 DEF EventsTopics, EventsCursor, db, StoreTypeOK
  <2> QED BY <2>1, <2>4, <2>5 DEF EventsCursor
<1>2. CASE EventsRead(c)
  <2>1. sync' \in [Client -> Sync]
    <3>1. PICK rows : /\ rows \subseteq Row
                      /\ \/ sync' = [sync EXCEPT ![c] = Onwards(sync[c].rest)]
                         \/ sync' = [sync EXCEPT ![c] = [sync[c] EXCEPT
                                        !.op = "advance", !.rows = rows]]
      BY <1>2, PagesAreRows DEF EventsRead
    <3>2. sync[c].rest \in SUBSET Topic
      BY DEF Sync
    <3>3. [sync[c] EXCEPT !.op = "advance", !.rows = rows] \in Sync
      <4>1. sync[c] \in Sync
        OBVIOUS
      <4> HIDE DEF TypeOK
      <4> QED BY <3>1, <4>1 DEF Sync
    <3> QED BY <1>0, <3>1, <3>2, <3>3
  <2>2. StoreTypeOK'
    BY <1>2 DEF EventsRead, db, StoreTypeOK
  <2> QED BY <1>2, <2>1, <2>2 DEF EventsRead
<1>3. CASE advanceCursor(c)
  <2>1. PICK k : cursor' = [cursor EXCEPT
                    ![<<AddressOf[c], sync[c].topic>>] =
                       sync[c].base + Cardinality(sync[c].rows)]
    BY <1>3 DEF advanceCursor
  <2>2. sync[c].rows \subseteq Nat /\ \A r \in sync[c].rows : 0 < r /\ r <= MaxRow
    BY ConstantsAssumption DEF Sync, Row
  <2>3. Cardinality(sync[c].rows) \in Nat
    BY <2>2, BetweenSize, ConstantsAssumption
  <2>4. sync[c].base + Cardinality(sync[c].rows) \in Nat
    BY <2>3 DEF Sync
  <2>5. cursor' \in [Address \X Topic -> Nat]
    BY <2>1, <2>4 DEF StoreTypeOK
  <2>6. StoreTypeOK'
    BY <1>3, <2>5 DEF advanceCursor, StoreTypeOK
  <2>7. inbox' \in [Client -> SUBSET Row] /\ sync' \in [Client -> Sync]
    <3>1. sync[c].rest \in SUBSET Topic /\ sync[c].rows \in SUBSET Row
      BY DEF Sync
    <3> QED BY <1>0, <1>3, <3>1 DEF advanceCursor
  <2> QED BY <1>3, <2>6, <2>7 DEF advanceCursor
<1>4. CASE Membership(c)
  <2>1. CASE \E t \in Topic : subscribe(c, t)
    <3>1. PICK t \in Topic, base \in {0, 1} :
             sync' = [sync EXCEPT ![c] = Section("subscribe", {}, t, base)]
      BY <2>1 DEF subscribe
    <3>2. Section("subscribe", {}, t, base) \in Sync
      BY <3>1 DEF Section, Sync
    <3>3. StoreTypeOK'
      BY <2>1 DEF subscribe, db, StoreTypeOK
    <3> QED BY <2>1, <3>1, <3>2, <3>3 DEF subscribe
  <2>2. CASE \E t \in Topic : unsubscribe(c, t)
    <3>1. subs' \in [Address \X Topic -> {"none", "active", "inactive"}]
      BY <2>2 DEF unsubscribe, StoreTypeOK
    <3>2. StoreTypeOK'
      BY <2>2, <3>1 DEF unsubscribe, StoreTypeOK
    <3> QED BY <2>2, <3>2 DEF unsubscribe
  <2>3. CASE SubscribeWrites(c)
    <3>1. subs' \in [Address \X Topic -> {"none", "active", "inactive"}]
      BY <2>3 DEF SubscribeWrites, StoreTypeOK
    <3>2. StoreTypeOK'
      BY <2>3, <3>1 DEF SubscribeWrites, StoreTypeOK
    <3>3. sync' \in [Client -> Sync]
      BY <2>3 DEF SubscribeWrites, Idle, Section, Sync
    <3> QED BY <2>3, <3>2, <3>3 DEF SubscribeWrites
  <2> QED BY <1>4, <2>1, <2>2, <2>3 DEF Membership
<1> QED BY <1>1, <1>2, <1>3, <1>4, <1>5 DEF PollEvents

LEMMA DaemonTypes ==
    ASSUME TypeOK, Router \/ runCycle \/ Tick
    PROVE  TypeOK'
<1> USE DEF TypeOK, history, clientVars
<1>1. CASE RouterExpire
  <2>1. StoreTypeOK'
    BY <1>1, SweepTypes DEF RouterExpire
  <2> QED BY <1>1, <2>1 DEF RouterExpire
<1>2. CASE RouterList
  <2>1. StoreTypeOK'
    BY <1>2 DEF RouterList, db, StoreTypeOK
  <2>2. router' \in [pc : {"idle", "list", "mark"}, rows : SUBSET Row]
    BY <1>2, PagesAreRows DEF RouterList, Pending
  <2> QED BY <1>2, <2>1, <2>2 DEF RouterList
<1>3. CASE RouterMark
  <2>1. PICK r \in router.rows :
           /\ markDelivered(r)
           /\ router' = [pc |-> IF router.rows = {r} THEN "idle" ELSE "mark",
                         rows |-> router.rows \ {r}]
    BY <1>3, PagesAreRows DEF RouterMark
  <2>2. r \in Row
    OBVIOUS
  <2>3. StoreTypeOK'
    BY <2>1, <2>2, MarkTypes
  <2>4. router' \in [pc : {"idle", "list", "mark"}, rows : SUBSET Row]
    BY <2>1
  <2> QED BY <1>3, <2>3, <2>4 DEF RouterMark
<1>4. CASE runCycle
  <2>1. StoreTypeOK'
    <3>1. CASE expireMessages \/ purgeDelivered \/ purgeOld("expired")
                  \/ purgeOld("failed")
      BY <3>1, SweepTypes DEF purgeDelivered, purgeOld
    <3>2. CASE purgeInactiveSubscriptions
      <4>1. subs' \in [Address \X Topic -> {"none", "active", "inactive"}]
        BY <3>2 DEF purgeInactiveSubscriptions, StoreTypeOK
      <4> QED BY <3>2, <4>1 DEF purgeInactiveSubscriptions, StoreTypeOK
    <3> QED BY <1>4, <3>1, <3>2 DEF runCycle, gcStatement
  <2>2. gcStep' \in 0..4
    BY <1>4 DEF runCycle
  <2> QED BY <1>4, <2>1, <2>2 DEF runCycle
<1>5. CASE Tick
  <2>1. clock' \in 0..MaxClock
    BY <1>5, ConstantsAssumption DEF Tick, StoreTypeOK
  <2>2. StoreTypeOK'
    BY <1>5, <2>1 DEF Tick, db, StoreTypeOK
  <2> QED BY <1>5, <2>2 DEF Tick, daemonVars
<1> QED BY <1>1, <1>2, <1>3, <1>4, <1>5 DEF Router

(* Every state of every behaviour is well typed: rows, clocks, cursors and  *)
(* the sections of the clients stay in their ranges.                        *)
THEOREM TypeCorrect == Spec => []TypeOK
<1>1. Init => TypeOK
  BY InitTypeOK
<1>2. TypeOK /\ [Next]_vars => TypeOK'
  <2> SUFFICES ASSUME TypeOK, [Next]_vars PROVE TypeOK'
    OBVIOUS
  <2>1. CASE UNCHANGED vars
    BY <2>1
    DEF vars, db, history, clientVars, daemonVars, TypeOK, StoreTypeOK
  <2>2. ASSUME NEW c \in Client, ClientStep(c) PROVE TypeOK'
    BY <2>2, SendTypes, ReceiveTypes, EventTypes DEF ClientStep
  <2>3. CASE Router \/ runCycle \/ Tick
    BY <2>3, DaemonTypes
  <2> QED BY <2>1, <2>2, <2>3 DEF Next
<1> QED BY <1>1, <1>2, PTL DEF Spec

(***************************************************************************)
(* No event is skipped.                                                    *)
(***************************************************************************)

(* What any step does to the log: it grows at the end, and the only rows    *)
(* pending afterwards were pending before, unchanged, or are new.           *)
LogStep ==
    /\ lastRow <= lastRow' /\ lastRow' \in Nat
    /\ LogInv'
    /\ \A r \in Row : status'[r] = "pending" =>
          \/ status[r] = "pending" /\ msg'[r] = msg[r]
          \/ lastRow < r

LEMMA StoreLogStep ==
    ASSUME StoreTypeOK, LogInv,
           \/ UNCHANGED <<msg, status, lastRow>>
           \/ \E r \in Row : markDelivered(r) \/ markFailed(r)
           \/ expireMessages
           \/ \E S : Purge(S) /\ \A r \in S : status[r] # "none"
           \/ \E m : enqueue(m)
    PROVE  LogStep
<1> USE DEF StoreTypeOK, LogInv, LogStep
<1>0. lastRow \in Nat /\ Row \subseteq Nat
  BY ConstantsAssumption DEF Row
<1>1. CASE UNCHANGED <<msg, status, lastRow>>
  BY <1>0, <1>1
<1>2. CASE \E r \in Row : markDelivered(r) \/ markFailed(r)
  BY <1>0, <1>2 DEF markDelivered, markFailed, Present
<1>3. CASE expireMessages
  BY <1>0, <1>3 DEF expireMessages
<1>4. ASSUME NEW S, Purge(S), \A r \in S : status[r] # "none"
      PROVE  LogStep
  <2>1. LogInv'
    <3> SUFFICES ASSUME NEW r \in Row, lastRow < r PROVE status'[r] = "none"
      BY <1>4 DEF Purge
    <3> QED BY <1>4 DEF Purge
  <2> QED BY <1>0, <1>4, <2>1 DEF Purge
<1>5. ASSUME NEW m, enqueue(m) PROVE LogStep
  BY <1>0, <1>5 DEF enqueue
<1> QED BY <1>1, <1>2, <1>3, <1>4, <1>5

LEMMA NextLogStep ==
    ASSUME TypeOK, LogInv, [Next]_vars
    PROVE  LogStep
<1> USE DEF TypeOK
<1>1. ASSUME NEW c \in Client, ClientStep(c) PROVE LogStep
  <2>1. CASE Send(c)
    BY <2>1, StoreLogStep DEF Send, cast, call, reply, publish
  <2>2. CASE CallSeesReply(c) \/ PollRead(c) \/ PollEvents(c) \/ Deliver(c)
                \/ Membership(c) \/ Crash(c)
    <3>1. UNCHANGED <<msg, status, lastRow>>
      BY <2>2 DEF CallSeesReply, PollRead, PollEvents, EventsTopics,
       EventsCursor,
                  EventsRead, advanceCursor, Deliver, onMessage, Membership,
                  subscribe, SubscribeWrites, unsubscribe, Crash, db
    <3> QED BY <3>1, StoreLogStep
  <2>3. CASE CallReturns(c)
    <3>1. PICK r \in sync[c].rows : markDelivered(r)
      BY <2>3 DEF CallReturns
    <3>2. r \in Row
      BY DEF Sync
    <3> QED BY <3>1, <3>2, StoreLogStep
  <2>4. CASE CallTimesOut(c)
    <3>1. calls[c] \in Row
      BY <2>4, ConstantsAssumption DEF CallTimesOut, Row
    <3> QED BY <2>4, <3>1, StoreLogStep DEF CallTimesOut
  <2>5. CASE PollMark(c)
    <3>1. PICK r \in sync[c].rows : markDelivered(r)
      BY <2>5, PagesAreRows DEF PollMark
    <3>2. r \in Row
      BY DEF Sync
    <3> QED BY <3>1, <3>2, StoreLogStep
  <2> QED BY <1>1, <2>1, <2>2, <2>3, <2>4, <2>5 DEF ClientStep, AwaitReply
<1>2. CASE RouterExpire
  BY <1>2, StoreLogStep DEF RouterExpire
<1>3. CASE RouterList \/ Tick \/ UNCHANGED vars
  <2>1. UNCHANGED <<msg, status, lastRow>>
    BY <1>3 DEF RouterList, Tick, vars, db
  <2> QED BY <2>1, StoreLogStep
<1>4. CASE RouterMark
  <2>1. PICK r \in router.rows : markDelivered(r)
    BY <1>4, PagesAreRows DEF RouterMark
  <2> QED BY <2>1, StoreLogStep
<1>5. CASE runCycle
  <2>1. CASE purgeDelivered \/ purgeOld("expired") \/ purgeOld("failed")
    <3>1. PICK S : Purge(S) /\ \A r \in S : status[r] # "none"
      BY <2>1 DEF purgeDelivered, purgeOld
    <3> QED BY <3>1, StoreLogStep
  <2>2. CASE expireMessages \/ purgeInactiveSubscriptions
    BY <2>2, StoreLogStep DEF purgeInactiveSubscriptions
  <2> QED BY <1>5, <2>1, <2>2 DEF runCycle, gcStatement
<1> QED BY <1>1, <1>2, <1>3, <1>4, <1>5 DEF Next, Router

(* No step makes a process forget a row it has read. *)
LEMMA KeptGrows ==
    ASSUME TypeOK, [Next]_vars
    PROVE  \A c \in Client : Kept(c) \subseteq Kept(c)'
<1> USE DEF TypeOK, Kept
<1>1. ASSUME NEW d \in Client, ClientStep(d)
      PROVE  \A c \in Client : Kept(c) \subseteq Kept(c)'
  <2>1. CASE UNCHANGED <<inbox, handed, lost>>
    BY <2>1
  <2>2. CASE PollMark(d)
    BY <2>2 DEF PollMark, history
  <2>3. CASE advanceCursor(d)
    BY <2>3 DEF advanceCursor, history
  <2>4. CASE Deliver(d)
    BY <2>4 DEF Deliver, onMessage, history
  <2>5. CASE Crash(d)
    BY <2>5 DEF Crash
  <2>6. CASE Send(d) \/ AwaitReply(d) \/ PollRead(d) \/ EventsRead(d)
                \/ Membership(d) \/ EventsTopics(d) \/ \E t \in Topic : EventsCursor(d, t)
    <3>1. UNCHANGED <<inbox, handed, lost>>
      BY <2>6 DEF Send, cast, call, reply, publish, AwaitReply, CallSeesReply,
                  CallReturns, CallTimesOut, PollRead, EventsRead, Membership,
                  subscribe, SubscribeWrites, unsubscribe, db,
                  EventsTopics, EventsCursor, clientVars, history
    <3> QED BY <2>1, <3>1
  <2> QED BY <1>1, <2>2, <2>3, <2>4, <2>5, <2>6 DEF ClientStep, PollEvents
<1>2. CASE Router \/ runCycle \/ Tick \/ UNCHANGED vars
  <2>1. UNCHANGED <<inbox, handed, lost>>
    BY <1>2 DEF Router, RouterExpire, RouterList, RouterMark, runCycle, Tick,
                vars, clientVars, history
  <2> QED BY <2>1
<1> QED BY <1>1, <1>2 DEF Next

LEMMA SeenGrows ==
    ASSUME TypeOK, [Next]_vars, NEW a
    PROVE  Seen(a) \subseteq Seen(a)'
BY KeptGrows DEF Seen

(* What is covered stays covered, and what the address has read by the end  *)
(* of the step no longer needs the page.                                    *)
LEMMA CoveredStays ==
    ASSUME TypeOK, LogInv, [Next]_vars,
           NEW a, NEW t, NEW n \in Nat, n <= lastRow, NEW page,
           \A r \in PendingEvents(t, 0) : r <= n => r \in Seen(a) \cup page
    PROVE  \A r \in PendingEvents(t, 0)' : r <= n => r \in Seen(a)' \cup page
<1> SUFFICES ASSUME NEW r \in PendingEvents(t, 0)', r <= n
             PROVE  r \in Seen(a)' \cup page
  OBVIOUS
<1>1. LogStep
  BY NextLogStep
<1>2. r \in Row /\ status'[r] = "pending" /\ msg'[r].pattern = "event"
      /\ msg'[r].topic = t /\ r > 0
  BY DEF PendingEvents, Pending
<1>3. ~ (lastRow < r)
  BY <1>2, ConstantsAssumption DEF TypeOK, StoreTypeOK, Row
<1>4. status[r] = "pending" /\ msg'[r] = msg[r]
  BY <1>1, <1>2, <1>3 DEF LogStep
<1>5. r \in PendingEvents(t, 0)
  BY <1>2, <1>4 DEF PendingEvents, Pending
<1> QED BY <1>5, SeenGrows

(* Only advanceCursor moves a cursor. *)
LEMMA CursorMoves ==
    ASSUME TypeOK, [Next]_vars, NEW a \in Address, NEW t \in Topic,
           cursor'[<<a, t>>] # cursor[<<a, t>>]
    PROVE  \E c \in Client : /\ advanceCursor(c)
                             /\ AddressOf[c] = a /\ sync[c].topic = t
<1> USE DEF TypeOK
<1>1. ASSUME UNCHANGED cursor PROVE FALSE
  BY <1>1
<1>2. ASSUME NEW c \in Client, ClientStep(c), ~advanceCursor(c) PROVE FALSE
  <2>1. UNCHANGED cursor
    BY <1>2 DEF ClientStep, Send, cast, call, reply, publish, enqueue,
                AwaitReply, CallSeesReply, CallReturns, CallTimesOut,
                markDelivered, markFailed, PollRead, PollMark, PollEvents,
                EventsTopics, EventsCursor, EventsRead, Deliver, onMessage, Membership,
                subscribe, SubscribeWrites, unsubscribe, Crash, db
  <2> QED BY <2>1, <1>1
<1>3. ASSUME Router \/ runCycle \/ Tick \/ UNCHANGED vars PROVE FALSE
  <2>1. UNCHANGED cursor
    BY <1>3 DEF Router, RouterExpire, RouterList, RouterMark, runCycle,
                gcStatement, expireMessages, purgeDelivered, purgeOld, Purge,
                purgeInactiveSubscriptions, markDelivered, Tick, vars, db
  <2> QED BY <2>1, <1>1
<1>4. PICK c \in Client : advanceCursor(c)
  BY <1>2, <1>3 DEF Next
<1>5. AddressOf[c] = a /\ sync[c].topic = t
  BY <1>4 DEF advanceCursor, StoreTypeOK
<1> QED BY <1>4, <1>5

(* Only two actions of a client begin a section with a cursor in it. *)
LEMMA SectionMoves ==
    ASSUME TypeOK, [Next]_vars, NEW c \in Client, sync'[c] # sync[c],
           sync'[c].op \in {"cursor", "advance"}
    PROVE  (\E t \in Topic : EventsCursor(c, t)) \/ EventsRead(c)
<1> USE DEF TypeOK
<1>1. ASSUME UNCHANGED sync PROVE FALSE
  BY <1>1
<1>2. ASSUME Router \/ runCycle \/ Tick \/ UNCHANGED vars PROVE FALSE
  <2>1. UNCHANGED sync
    BY <1>2 DEF Router, RouterExpire, RouterList, RouterMark, runCycle, Tick,
                vars, clientVars
  <2> QED BY <2>1, <1>1
<1>3. PICK d \in Client : ClientStep(d)
  BY <1>2 DEF Next
<1>4. ASSUME \/ Send(d) \/ Deliver(d) \/ CallTimesOut(d)
             \/ \E t \in Topic : unsubscribe(d, t)
      PROVE  FALSE
  <2>1. UNCHANGED sync
    BY <1>4 DEF Send, cast, call, reply, publish, Deliver, onMessage,
                unsubscribe, CallTimesOut, clientVars
  <2> QED BY <2>1, <1>1
<1>5. ASSUME \/ CallSeesReply(d) \/ CallReturns(d) \/ PollRead(d)
             \/ PollMark(d) \/ EventsTopics(d) \/ advanceCursor(d)
             \/ Crash(d) \/ SubscribeWrites(d)
             \/ \E t \in Topic : subscribe(d, t)
      PROVE  FALSE
  <2>1. PICK x : sync' = [sync EXCEPT ![d] = x]
                 /\ x.op \notin {"cursor", "advance"}
    <3>1. CASE EventsTopics(d) \/ advanceCursor(d)
      <4>1. PICK rest : sync' = [sync EXCEPT ![d] = Onwards(rest)]
        BY <3>1 DEF EventsTopics, advanceCursor
      <4> QED BY <4>1, OnwardsHoldsNothing
    <3>2. CASE CallSeesReply(d) \/ CallReturns(d) \/ PollRead(d) \/ PollMark(d)
                  \/ Crash(d) \/ SubscribeWrites(d)
      BY <3>2 DEF CallSeesReply, CallReturns, PollRead, PollMark, Crash,
                  SubscribeWrites, Idle, Section
    <3>3. ASSUME NEW t \in Topic, subscribe(d, t)
          PROVE  \E x : /\ sync' = [sync EXCEPT ![d] = x]
                        /\ x.op \notin {"cursor", "advance"}
      <4>1. PICK base : sync' = [sync EXCEPT ![d] =
                                   Section("subscribe", {}, t, base)]
        BY <3>3 DEF subscribe
      <4> QED BY <4>1 DEF Section
    <3> QED BY <1>5, <3>1, <3>2, <3>3
  <2> QED BY <2>1
<1>6. EventsRead(d) \/ \E t \in Topic : EventsCursor(d, t)
  BY <1>3, <1>4, <1>5 DEF ClientStep, AwaitReply, PollEvents, Membership
<1>7. c = d
  <2>1. PICK x : sync' = [sync EXCEPT ![d] = x]
    BY <1>6 DEF EventsRead, EventsCursor
  <2> QED BY <2>1, <1>1
<1> QED BY <1>6, <1>7

LEMMA CursorInvStep ==
    ASSUME TypeOK, NoEventSkippedInv, [Next]_vars
    PROVE  CursorInv'
<1> SUFFICES ASSUME NEW a \in Address, NEW t \in Topic
             PROVE  /\ cursor'[<<a, t>>] <= lastRow'
                    /\ \A r \in PendingEvents(t, 0)' :
                          r <= cursor'[<<a, t>>] => r \in Seen(a)' \cup {}
  BY DEF CursorInv, Covered
<1>1. LogStep /\ LogInv /\ lastRow \in Nat
  BY NextLogStep DEF NoEventSkippedInv, TypeOK, StoreTypeOK
<1>2. <<a, t>> \in Address \X Topic /\ cursor[<<a, t>>] \in Nat
  BY DEF TypeOK, StoreTypeOK
<1>3. CASE cursor'[<<a, t>>] = cursor[<<a, t>>]
  <2>1. /\ cursor[<<a, t>>] <= lastRow
        /\ \A r \in PendingEvents(t, 0) :
              r <= cursor[<<a, t>>] => r \in Seen(a) \cup {}
    BY DEF NoEventSkippedInv, CursorInv, Covered
  <2>2. \A r \in PendingEvents(t, 0)' :
           r <= cursor[<<a, t>>] => r \in Seen(a)' \cup {}
    BY <2>1, <1>1, <1>2, CoveredStays
  <2> QED BY <1>1, <1>2, <1>3, <2>1, <2>2 DEF LogStep
<1>4. CASE cursor'[<<a, t>>] # cursor[<<a, t>>]
  <2>1. PICK c \in Client : /\ advanceCursor(c)
                            /\ AddressOf[c] = a /\ sync[c].topic = t
    BY <1>4, CursorMoves
  <2> DEFINE next == sync[c].base + Cardinality(sync[c].rows)
  <2>2. cursor'[<<a, t>>] = next
    BY <2>1, <1>2 DEF advanceCursor, TypeOK, StoreTypeOK
  <2>3. /\ next \in Nat /\ next <= lastRow
        /\ \A r \in PendingEvents(t, 0) :
              r <= next => r \in Seen(a) \cup sync[c].rows
    BY <2>1 DEF advanceCursor, NoEventSkippedInv, SectionInv, Covered
  <2> HIDE DEF next
  <2>4. \A r \in PendingEvents(t, 0)' :
           r <= next => r \in Seen(a)' \cup sync[c].rows
    BY <2>3, <1>1, CoveredStays
  <2>5. sync[c].rows \subseteq Seen(a)'
    <3>1. sync[c].rows \subseteq inbox'[c]
      BY <2>1 DEF advanceCursor, TypeOK
    <3> QED BY <2>1, <3>1 DEF Seen, Kept
  <2> QED BY <1>1, <2>2, <2>3, <2>4, <2>5 DEF LogStep
<1> QED BY <1>3, <1>4

(* A read of events ends the topic or leaves its page to be counted.        *)
LEMMA EventsReadEnds ==
    ASSUME TypeOK, NEW c \in Client, EventsRead(c)
    PROVE  sync'[c].op \in {"none", "topics", "advance"}
<1>1. PICK rows :
         sync'[c] = IF rows = {} THEN Onwards(sync[c].rest)
                    ELSE [sync[c] EXCEPT !.op = "advance", !.rows = rows]
  BY DEF EventsRead, TypeOK
<1>2. sync[c] \in Sync
  BY DEF TypeOK
<1> QED BY <1>1, <1>2, OnwardsHoldsNothing DEF Sync

LEMMA SectionInvStep ==
    ASSUME TypeOK, NoEventSkippedInv, [Next]_vars
    PROVE  SectionInv'
<1>1. LogStep /\ LogInv /\ lastRow \in Nat /\ lastRow <= lastRow'
      /\ lastRow' \in Nat
  BY NextLogStep DEF NoEventSkippedInv, TypeOK, StoreTypeOK, LogStep
<1>2. ASSUME NEW c \in Client, sync'[c].op = "cursor"
      PROVE  /\ sync'[c].topic \in Topic
             /\ sync'[c].base <= lastRow'
             /\ \A r \in PendingEvents(sync[c].topic, 0)' :
                   r <= sync'[c].base => r \in Seen(AddressOf[c])' \cup {}
  <2>1. PICK topic, base : topic = sync'[c].topic /\ base = sync'[c].base
    OBVIOUS
  <2>2. /\ topic \in Topic
        /\ base <= lastRow /\ base \in Nat
        /\ \A r \in PendingEvents(topic, 0) :
              r <= base => r \in Seen(AddressOf[c]) \cup {}
    <3>1. CASE sync'[c] = sync[c]
      BY <3>1, <2>1, <1>2
      DEF NoEventSkippedInv, SectionInv, Covered, TypeOK, Sync
    <3>2. CASE sync'[c] # sync[c]
      <4>1. ASSUME EventsRead(c) PROVE FALSE
        BY <4>1, <1>2, OnwardsHoldsNothing DEF EventsRead, TypeOK
      <4>2. PICK t \in Topic : EventsCursor(c, t)
        BY <3>2, <4>1, <1>2, SectionMoves
      <4>3. topic = t /\ base = cursor[<<AddressOf[c], t>>]
        BY <4>2, <2>1 DEF EventsTopics, EventsCursor, TypeOK, Section
      <4>4. AddressOf[c] \in Address
        BY ConstantsAssumption
      <4> QED BY <4>3, <4>4
              DEF NoEventSkippedInv, CursorInv, Covered, TypeOK, StoreTypeOK
    <3> QED BY <3>1, <3>2
  <2>3. \A r \in PendingEvents(topic, 0)' :
              r <= base => r \in Seen(AddressOf[c])' \cup {}
    BY <2>2, <1>1, CoveredStays
  <2>4. base <= lastRow'
    BY <2>2, <1>1
  <2>5. PendingEvents(sync[c].topic, 0)' = PendingEvents(topic, 0)'
    BY <2>1 DEF PendingEvents, Pending
  <2> QED BY <2>1, <2>2, <2>3, <2>4, <2>5
<1>3. ASSUME NEW c \in Client, sync'[c].op = "advance"
      PROVE  /\ sync'[c].topic \in Topic
             /\ sync'[c].base + Cardinality(sync'[c].rows) \in Nat
             /\ sync'[c].base + Cardinality(sync'[c].rows) <= lastRow'
             /\ \A r \in PendingEvents(sync[c].topic, 0)' :
                   r <= sync'[c].base + Cardinality(sync'[c].rows) =>
                      r \in Seen(AddressOf[c])' \cup sync'[c].rows
  <2>1. PICK topic, next, page :
           /\ topic = sync'[c].topic /\ page = sync'[c].rows
           /\ next = sync'[c].base + Cardinality(sync'[c].rows)
    OBVIOUS
  <2>2. /\ topic \in Topic
        /\ next <= lastRow /\ next \in Nat
        /\ \A r \in PendingEvents(topic, 0) :
              r <= next => r \in Seen(AddressOf[c]) \cup page
    <3>1. CASE sync'[c] = sync[c]
      BY <3>1, <2>1, <1>3 DEF NoEventSkippedInv, SectionInv, Covered
    <3>2. CASE sync'[c] # sync[c]
      <4>1. ASSUME NEW t \in Topic, EventsCursor(c, t) PROVE FALSE
        BY <4>1, <1>3 DEF EventsTopics, EventsCursor, TypeOK, Section
      <4>2. EventsRead(c)
        BY <3>2, <4>1, <1>3, SectionMoves
      <4>3. PICK base : base = sync[c].base
        OBVIOUS
      <4>4. /\ topic = sync[c].topic
            /\ page = Oldest(PendingEvents(topic, base), EventLimit)
            /\ next = base + Cardinality(page)
        <5>1. sync[c] \in Sync
          BY DEF TypeOK
        <5>2. PICK rows : /\ rows = getPendingEvents(sync[c].topic, base, EventLimit)
                          /\ sync'[c] = IF rows = {} THEN Onwards(sync[c].rest)
                                        ELSE [sync[c] EXCEPT !.op = "advance",
                                                             !.rows = rows]
          BY <4>2, <4>3 DEF EventsRead, TypeOK
        <5>3. sync'[c] = [sync[c] EXCEPT !.op = "advance", !.rows = rows]
          BY <5>2, <1>3, OnwardsHoldsNothing
        <5>4. /\ sync'[c].topic = sync[c].topic /\ sync'[c].rows = rows
              /\ sync'[c].base = base
          BY <5>1, <5>3, <4>3 DEF Sync
        <5> QED BY <5>2, <5>4, <2>1 DEF getPendingEvents
      <4>5. /\ topic \in Topic /\ base \in Nat /\ base <= lastRow
            /\ \A r \in PendingEvents(topic, 0) :
                  r <= base => r \in Seen(AddressOf[c])
        BY <4>2, <4>3, <4>4
        DEF EventsRead, NoEventSkippedInv, SectionInv, Covered, TypeOK, Sync
      <4>6. /\ PendingEvents(topic, base) \in SUBSET Nat
            /\ \A r \in PendingEvents(topic, base) : base < r /\ r <= lastRow
        BY <4>5, <1>1, ConstantsAssumption
        DEF PendingEvents, Pending, Row, LogInv
      <4>7. /\ Cardinality(page) \in Nat
            /\ next <= lastRow
            /\ \A r \in PendingEvents(topic, base) : r <= next => r \in page
        BY <4>4, <4>5, <4>6, <1>1, PageReach, ConstantsAssumption
      <4>8. ASSUME NEW r \in PendingEvents(topic, 0), r <= next
            PROVE  r \in Seen(AddressOf[c]) \cup page
        <5>1. CASE r <= base
          BY <5>1, <4>5
        <5>2. CASE ~ (r <= base)
          <6>1. r > base
            BY <5>2, <4>5, ConstantsAssumption DEF PendingEvents, Pending, Row
          <6>2. r \in PendingEvents(topic, base)
            BY <6>1 DEF PendingEvents
          <6> QED BY <6>2, <4>7, <4>8
        <5> QED BY <5>1, <5>2
      <4> QED BY <4>4, <4>5, <4>7, <4>8
    <3> QED BY <3>1, <3>2
  <2>3. \A r \in PendingEvents(topic, 0)' :
              r <= next => r \in Seen(AddressOf[c])' \cup page
    BY <2>2, <1>1, CoveredStays
  <2>4. next <= lastRow'
    BY <2>2, <1>1
  <2>5. PendingEvents(sync[c].topic, 0)' = PendingEvents(topic, 0)'
    BY <2>1 DEF PendingEvents, Pending
  <2> QED BY <2>1, <2>2, <2>3, <2>4, <2>5
<1> QED BY <1>2, <1>3 DEF SectionInv, Covered

(* Whatever the router, the collector, other processes and crashes do, a    *)
(* cursor never passes a pending event its address has not read.            *)
THEOREM EventsAreNeverSkipped == Spec => []NoEventSkipped
<1>1. Init => NoEventSkippedInv
  BY ConstantsAssumption
  DEF Init, NoEventSkippedInv, LogInv, CursorInv, SectionInv, Covered,
      PendingEvents, Pending, Idle, Section
<1>2. TypeOK /\ NoEventSkippedInv /\ [Next]_vars => NoEventSkippedInv'
  <2>1. TypeOK /\ NoEventSkippedInv /\ [Next]_vars => LogInv'
    BY NextLogStep DEF NoEventSkippedInv, LogStep
  <2> QED BY <2>1, CursorInvStep, SectionInvStep DEF NoEventSkippedInv
<1>3. NoEventSkippedInv => NoEventSkipped
  BY DEF NoEventSkippedInv, CursorInv, Covered, NoEventSkipped
<1> QED BY <1>1, <1>2, <1>3, TypeCorrect, PTL DEF Spec

(***************************************************************************)
(* What becomes of direct messages.  No process takes one twice, none is    *)
(* marked delivered that nobody took, and the call a client awaits is its   *)
(* own and has not been failed.                                            *)
(***************************************************************************)

(***************************************************************************)
(* The inductive invariant.                                                *)
(***************************************************************************)

(* Rows up to the last one are messages, and an event has no addressee.     *)
RowInv ==
    \A r \in Row : r <= lastRow =>
        /\ msg[r] \in Message
        /\ msg[r].pattern = "event" => msg[r].to = NoAddress

(* A direct message a process has taken is pending no more.                 *)
KeptInv ==
    \A c \in Client : \A r \in Kept(c) :
        r <= lastRow /\ (Direct(r) => status[r] # "pending")

(* A poll is about to take direct messages its process has not yet taken,   *)
(* pollEvents no direct message at all.                                     *)
PageInv ==
    \A c \in Client : \A r \in sync[c].rows :
        /\ r <= lastRow
        /\ sync[c].op = "poll" => Direct(r) /\ r \notin Kept(c)
        /\ sync[c].op = "advance" => ~Direct(r)

(* The router marks no direct message.                                      *)
RouterInv == \A r \in router.rows : r <= lastRow /\ ~Direct(r)

(* Every awaited call is live, and nobody else awaits it.                   *)
CallInv ==
    \A c \in Client : calls[c] # 0 =>
        /\ calls[c] <= lastRow
        /\ msg[calls[c]].pattern = "call"
        /\ msg[calls[c]].from = AddressOf[c]
        /\ status[calls[c]] # "failed"
        /\ \A d \in Client : calls[d] = calls[c] => d = c

DeliveryInv ==
    /\ LogInv /\ RowInv /\ KeptInv /\ PageInv /\ RouterInv /\ CallInv
    /\ DeliveredIsAccountedFor

(***************************************************************************)
(* What one step may do to the columns.                                    *)
(***************************************************************************)

(* The log only grows, and by a message as the senders build them.          *)
Grows(m) == enqueue(m) /\ m \in Message /\ (m.pattern = "event" => m.to = NoAddress)

LEMMA RowsStep ==
    ASSUME TypeOK, [Next]_vars
    PROVE  UNCHANGED <<msg, lastRow>> \/ \E m : Grows(m)
<1> USE DEF TypeOK
<1>1. ASSUME NEW c \in Client, Send(c) PROVE \E m : Grows(m)
  <2>1. ASSUME NEW a \in Address, cast(c, a) PROVE \E m : Grows(m)
    <3> DEFINE m == NewMessage("cast", c, a, NoTopic, 0)
    <3>1. m \in Message
      BY NewMessageType, ConstantsAssumption DEF Pattern
    <3>2. enqueue(m) /\ m.pattern # "event"
      BY <2>1 DEF cast, NewMessage
    <3> QED BY <3>1, <3>2 DEF Grows
  <2>2. ASSUME NEW a \in Address, call(c, a) PROVE \E m : Grows(m)
    <3> DEFINE m == NewMessage("call", c, a, NoTopic, 0)
    <3>1. m \in Message
      BY NewMessageType, ConstantsAssumption DEF Pattern
    <3>2. enqueue(m) /\ m.pattern # "event"
      BY <2>2 DEF call, NewMessage
    <3> QED BY <3>1, <3>2 DEF Grows
  <2>3. ASSUME NEW r \in Row, reply(c, r) PROVE \E m : Grows(m)
    <3> DEFINE m == NewMessage("reply", c, msg[r].from, NoTopic, r)
    <3>1. msg[r].from \in Address /\ r \in 0..MaxRow
      BY <2>3, ConstantsAssumption
      DEF reply, StoreTypeOK, Message, NoMessage, Row
    <3>2. m \in Message
      BY <3>1, NewMessageType, ConstantsAssumption DEF Pattern
    <3>3. enqueue(m) /\ m.pattern # "event"
      BY <2>3 DEF reply, NewMessage
    <3> QED BY <3>2, <3>3 DEF Grows
  <2>4. ASSUME NEW t \in Topic, publish(c, t) PROVE \E m : Grows(m)
    <3> DEFINE m == NewMessage("event", c, NoAddress, t, 0)
    <3>1. m \in Message
      BY NewMessageType, ConstantsAssumption DEF Pattern
    <3>2. enqueue(m) /\ m.to = NoAddress
      BY <2>4 DEF publish, NewMessage
    <3> QED BY <3>1, <3>2 DEF Grows
  <2> QED BY <1>1, <2>1, <2>2, <2>3, <2>4 DEF Send
<1>2. ASSUME NEW c \in Client, ClientStep(c), ~Send(c)
      PROVE  UNCHANGED <<msg, lastRow>>
  BY <1>2 DEF ClientStep, AwaitReply, CallSeesReply, CallReturns, CallTimesOut,
       markDelivered, markFailed, PollRead, PollMark, PollEvents, EventsTopics,
       EventsCursor,
       EventsRead, advanceCursor, Deliver, onMessage, Membership, subscribe, SubscribeWrites,
       unsubscribe, Crash, db
<1>3. ASSUME Router \/ runCycle \/ Tick \/ UNCHANGED vars
      PROVE  UNCHANGED <<msg, lastRow>>
  BY <1>3 DEF Router, RouterExpire, RouterList, RouterMark, runCycle,
       gcStatement, expireMessages, purgeDelivered, purgeOld, Purge,
       purgeInactiveSubscriptions, markDelivered, Tick, vars, db
<1> QED BY <1>1, <1>2, <1>3 DEF Next

(* A row that is there keeps its message, and is never pending again.       *)
LEMMA OldRows ==
    ASSUME TypeOK, LogInv, [Next]_vars
    PROVE  /\ lastRow \in Nat /\ lastRow' \in Nat /\ lastRow <= lastRow'
           /\ LogInv'
           /\ \A r \in Row : r <= lastRow =>
                 /\ msg'[r] = msg[r]
                 /\ status'[r] = "pending" => status[r] = "pending"
<1>1. LogStep /\ lastRow \in Nat
  BY NextLogStep DEF TypeOK, StoreTypeOK
<1>2. ASSUME NEW r \in Row, r <= lastRow PROVE msg'[r] = msg[r]
  <2>1. r # lastRow + 1
    BY <1>1, <1>2, ConstantsAssumption DEF Row
  <2>2. CASE \E m : Grows(m)
    BY <2>1, <2>2 DEF Grows, enqueue, TypeOK, StoreTypeOK
  <2> QED BY <2>2, RowsStep
<1>3. ASSUME NEW r \in Row, r <= lastRow, status'[r] = "pending"
      PROVE  status[r] = "pending"
  <2>1. ~ (lastRow < r)
    BY <1>1, <1>3, ConstantsAssumption DEF Row
  <2> QED BY <1>1, <1>3, <2>1 DEF LogStep
<1> QED BY <1>1, <1>2, <1>3 DEF LogStep

LEMMA RowInvStep ==
    ASSUME TypeOK, LogInv, RowInv, [Next]_vars
    PROVE  RowInv'
<1> SUFFICES ASSUME NEW r \in Row, r <= lastRow'
             PROVE  /\ msg'[r] \in Message
                    /\ msg'[r].pattern = "event" => msg'[r].to = NoAddress
  BY DEF RowInv
<1>1. CASE r <= lastRow
  BY <1>1, OldRows DEF RowInv
<1>2. CASE ~ (r <= lastRow)
  <2>1. PICK m : Grows(m)
    BY <1>2, RowsStep
  <2>2. lastRow' = lastRow + 1 /\ msg'[lastRow + 1] = m
    BY <2>1, <1>2, OldRows, ConstantsAssumption
    DEF Grows, enqueue, TypeOK, StoreTypeOK, Row
  <2>3. r = lastRow + 1
    BY <2>2, <1>2, OldRows, ConstantsAssumption DEF Row
  <2> QED BY <2>1, <2>2, <2>3 DEF Grows
<1> QED BY <1>1, <1>2

(* Rows are taken by a poll that marks them, or by pollEvents.              *)
LEMMA KeptStep ==
    ASSUME TypeOK, [Next]_vars,
           NEW c \in Client, NEW r \in Kept(c)', r \notin Kept(c)
    PROVE  /\ r \in sync[c].rows
           /\ \/ advanceCursor(c)
              \/ PollMark(c) /\ markDelivered(r)
                 /\ \/ sync'[c] = Idle
                    \/ sync'[c] = Section("poll", sync[c].rows \ {r}, NoTopic, 0)
<1> USE DEF TypeOK
<1>1. ASSUME Kept(c)' \subseteq Kept(c) PROVE FALSE
  BY <1>1
<1>2. ASSUME UNCHANGED <<inbox, handed, lost>> PROVE FALSE
  BY <1>2, <1>1 DEF Kept
<1>3. ASSUME Router \/ runCycle \/ Tick \/ UNCHANGED vars PROVE FALSE
  <2>1. UNCHANGED <<inbox, handed, lost>>
    BY <1>3 DEF Router, RouterExpire, RouterList, RouterMark, runCycle, Tick,
                vars, clientVars, history
  <2> QED BY <2>1, <1>2
<1>4. PICK d \in Client : ClientStep(d)
  BY <1>3 DEF Next
<1>5. ASSUME Send(d) \/ AwaitReply(d) \/ PollRead(d) \/ EventsRead(d)
             \/ Membership(d) \/ EventsTopics(d) \/ \E t \in Topic : EventsCursor(d, t)
      PROVE  FALSE
  <2>1. UNCHANGED <<inbox, handed, lost>>
    BY <1>5 DEF Send, cast, call, reply, publish, AwaitReply, CallSeesReply,
                CallReturns, CallTimesOut, PollRead, EventsRead, Membership,
                subscribe, SubscribeWrites, unsubscribe, db,
                  EventsTopics, EventsCursor, clientVars, history
  <2> QED BY <2>1, <1>2
<1>6. ASSUME Deliver(d) \/ Crash(d) PROVE FALSE
  <2>1. Kept(c)' \subseteq Kept(c)
    BY <1>6 DEF Kept, Deliver, onMessage, Crash, history
  <2> QED BY <2>1, <1>1
<1>7. CASE advanceCursor(d)
  <2>1. inbox' = [inbox EXCEPT ![d] = @ \cup sync[d].rows]
        /\ UNCHANGED <<handed, lost>>
    BY <1>7 DEF advanceCursor, history
  <2>2. c = d /\ r \in sync[d].rows
    BY <2>1 DEF Kept
  <2> QED BY <1>7, <2>2
<1>8. CASE PollMark(d)
  <2>1. PICK q \in sync[d].rows :
           /\ markDelivered(q)
           /\ inbox' = [inbox EXCEPT ![d] = @ \cup {q}]
           /\ sync' = [sync EXCEPT ![d] =
                         IF sync[d].rows = {q} THEN Idle
                         ELSE Section("poll", sync[d].rows \ {q}, NoTopic, 0)]
    BY <1>8, PagesAreRows DEF PollMark
  <2>2. UNCHANGED <<handed, lost>>
    BY <1>8 DEF PollMark, history
  <2>3. c = d /\ r = q
    BY <2>1, <2>2 DEF Kept
  <2>4. sync'[d] = Idle \/ sync'[d] = Section("poll", sync[d].rows \ {q}, NoTopic, 0)
    BY <2>1
  <2> QED BY <1>8, <2>1, <2>3, <2>4
<1> QED BY <1>4, <1>5, <1>6, <1>7, <1>8 DEF ClientStep, PollEvents

(* What a process has taken stays taken, and a direct message among it is   *)
(* not pending.                                                             *)
LEMMA KeptInvStep ==
    ASSUME TypeOK, DeliveryInv, [Next]_vars
    PROVE  KeptInv'
<1> USE DEF DeliveryInv
<1> SUFFICES ASSUME NEW c \in Client, NEW r \in Kept(c)'
             PROVE  r <= lastRow' /\ (Direct(r)' => status'[r] # "pending")
  BY DEF KeptInv
<1>1. r \in Row
  <2>1. Kept(c)' \subseteq Row
    <3>1. TypeOK'
      BY SendTypes, ReceiveTypes, EventTypes, DaemonTypes
      DEF Next, ClientStep, vars, db, history, clientVars, daemonVars, TypeOK,
          StoreTypeOK
    <3> QED BY <3>1 DEF TypeOK, Kept
  <2> QED BY <2>1
<1>2. ASSUME r <= lastRow PROVE r <= lastRow' /\ (Direct(r)' <=> Direct(r))
  BY <1>1, <1>2, OldRows, ConstantsAssumption DEF Direct, Row
<1>3. CASE r \in Kept(c)
  BY <1>1, <1>2, <1>3, OldRows DEF KeptInv
<1>4. CASE r \notin Kept(c)
  <2>1. r \in sync[c].rows /\ r <= lastRow
    BY <1>4, KeptStep DEF PageInv
  <2>2. CASE advanceCursor(c)
    BY <2>1, <2>2, <1>2 DEF PageInv, advanceCursor
  <2>3. CASE markDelivered(r)
    BY <2>1, <2>3, <1>1, <1>2 DEF markDelivered, Present, TypeOK, StoreTypeOK
  <2> QED BY <1>4, <2>2, <2>3, KeptStep
<1> QED BY <1>3, <1>4

(* Three actions put rows into a section; otherwise they were there.        *)
LEMMA PageStep ==
    ASSUME TypeOK, [Next]_vars, NEW c \in Client, NEW r \in sync'[c].rows
    PROVE  \/ r \in sync[c].rows /\ sync'[c].op = sync[c].op
           \/ CallSeesReply(c) \/ PollRead(c) \/ EventsRead(c)
<1> USE DEF TypeOK
<1> SUFFICES ASSUME ~ (r \in sync[c].rows /\ sync'[c].op = sync[c].op)
             PROVE  CallSeesReply(c) \/ PollRead(c) \/ EventsRead(c)
  OBVIOUS
<1>1. ASSUME sync'[c] = sync[c] PROVE FALSE
  BY <1>1
<1>2. ASSUME Router \/ runCycle \/ Tick \/ UNCHANGED vars PROVE FALSE
  <2>1. UNCHANGED sync
    BY <1>2 DEF Router, RouterExpire, RouterList, RouterMark, runCycle, Tick,
                vars, clientVars
  <2> QED BY <2>1, <1>1
<1>3. PICK d \in Client : ClientStep(d)
  BY <1>2 DEF Next
<1>4. ASSUME \/ Send(d) \/ Deliver(d) \/ CallTimesOut(d)
             \/ \E t \in Topic : unsubscribe(d, t)
      PROVE  FALSE
  <2>1. UNCHANGED sync
    BY <1>4 DEF Send, cast, call, reply, publish, Deliver, onMessage,
                unsubscribe, CallTimesOut, clientVars
  <2> QED BY <2>1, <1>1
<1>5. ASSUME \/ CallReturns(d) \/ advanceCursor(d) \/ Crash(d)
             \/ EventsTopics(d) \/ SubscribeWrites(d)
             \/ \E t \in Topic : EventsCursor(d, t) \/ subscribe(d, t)
      PROVE  FALSE
  <2>1. PICK x : sync' = [sync EXCEPT ![d] = x] /\ x.rows = {}
    <3>1. CASE CallReturns(d) \/ Crash(d) \/ SubscribeWrites(d)
      <4>1. sync' = [sync EXCEPT ![d] = Idle] /\ Idle.rows = {}
        BY <3>1 DEF CallReturns, Crash, SubscribeWrites, Idle, Section
      <4> QED BY <4>1
    <3>2. ASSUME NEW t \in Topic, EventsCursor(d, t) \/ subscribe(d, t)
          PROVE  \E x : sync' = [sync EXCEPT ![d] = x] /\ x.rows = {}
      BY <3>2 DEF EventsCursor, subscribe, Section
    <3>3. CASE EventsTopics(d) \/ advanceCursor(d)
      BY <3>3, OnwardsHoldsNothing DEF EventsTopics, advanceCursor
    <3> QED BY <1>5, <3>1, <3>2, <3>3
  <2>2. c # d
    BY <2>1
  <2> QED BY <2>1, <2>2, <1>1
<1>6. ASSUME PollMark(d) PROVE FALSE
  <2>1. PICK q : sync' = [sync EXCEPT ![d] =
                    IF sync[d].rows = {q} THEN Idle
                    ELSE Section("poll", sync[d].rows \ {q}, NoTopic, 0)]
    BY <1>6 DEF PollMark
  <2>2. CASE c # d
    BY <2>1, <2>2, <1>1
  <2>3. CASE c = d
    <3>1. sync'[c] = IF sync[c].rows = {q} THEN Idle
                     ELSE Section("poll", sync[c].rows \ {q}, NoTopic, 0)
      BY <2>1, <2>3
    <3>2. sync[c].op = "poll"
      BY <1>6, <2>3 DEF PollMark
    <3>3. sync[c].rows # {q}
      BY <3>1 DEF Idle, Section
    <3> QED BY <3>1, <3>2, <3>3 DEF Section
  <2> QED BY <2>2, <2>3
<1>7. CallSeesReply(d) \/ PollRead(d) \/ EventsRead(d)
  BY <1>3, <1>4, <1>5, <1>6 DEF ClientStep, AwaitReply, PollEvents, Membership
<1>8. c = d
  <2>1. PICK x : sync' = [sync EXCEPT ![d] = x]
    BY <1>7 DEF CallSeesReply, PollRead, EventsRead
  <2> QED BY <2>1, <1>1
<1> QED BY <1>7, <1>8

LEMMA PageInvStep ==
    ASSUME TypeOK, DeliveryInv, [Next]_vars
    PROVE  PageInv'
<1> USE DEF DeliveryInv
<1> SUFFICES ASSUME NEW c \in Client, NEW r \in sync'[c].rows
             PROVE  /\ r <= lastRow'
                    /\ sync'[c].op = "poll" => Direct(r)' /\ r \notin Kept(c)'
                    /\ sync'[c].op = "advance" => ~ Direct(r)'
  BY DEF PageInv
<1>1. ASSUME r \in Row, r <= lastRow
      PROVE  r <= lastRow' /\ (Direct(r)' <=> Direct(r))
  BY <1>1, OldRows, ConstantsAssumption DEF Direct, Row
<1>2. ASSUME r \in Row, status[r] # "none" PROVE r <= lastRow
  BY <1>2, OldRows, ConstantsAssumption DEF LogInv, Row
<1>3. CASE r \in sync[c].rows /\ sync'[c].op = sync[c].op
  <2>1. r \in Row /\ r <= lastRow
    BY <1>3 DEF PageInv, TypeOK, Sync
  <2>2. ASSUME sync[c].op = "poll", r \in Kept(c)' PROVE FALSE
    <3>1. r \notin Kept(c)
      BY <1>3, <2>2 DEF PageInv
    <3>2. ~ advanceCursor(c)
      BY <2>2 DEF advanceCursor
    <3>3. \/ sync'[c] = Idle
          \/ sync'[c] = Section("poll", sync[c].rows \ {r}, NoTopic, 0)
      BY <2>2, <3>1, <3>2, KeptStep
    <3> QED BY <3>3 DEF Idle, Section
  <2> QED BY <1>1, <1>3, <2>1, <2>2 DEF PageInv
<1>4. CASE CallSeesReply(c)
  <2>1. r \in getReply(calls[c]) /\ sync'[c].op = "reply"
    BY <1>4 DEF CallSeesReply, Section, TypeOK
  <2>2. r \in Row /\ status[r] # "none"
    BY <2>1, PagesAreRows DEF getReply, Present, TypeOK, Newest
  <2> QED BY <1>1, <1>2, <2>1, <2>2
<1>5. CASE PollRead(c)
  <2>1. r \in getPendingFor(AddressOf[c], PollLimit) /\ sync'[c].op = "poll"
    BY <1>5 DEF PollRead, Section, TypeOK
  <2>2. r \in Row /\ status[r] = "pending" /\ msg[r].to = AddressOf[c]
    BY <2>1 DEF getPendingFor, Oldest, Pending
  <2>3. r <= lastRow /\ msg[r].pattern \in Pattern /\ msg[r].pattern # "event"
    BY <1>2, <2>2, ConstantsAssumption DEF RowInv, Message
  <2>4. Direct(r)
    BY <2>3 DEF Direct, Pattern
  <2>5. r \notin Kept(c)
    BY <2>2, <2>4 DEF KeptInv
  <2>6. Kept(c)' = Kept(c)
    BY <1>5 DEF PollRead, Kept, history
  <2> QED BY <1>1, <2>1, <2>2, <2>3, <2>4, <2>5, <2>6
<1>6. CASE EventsRead(c)
  <2>1. r \in getPendingEvents(sync[c].topic, sync[c].base, EventLimit)
        /\ sync'[c].op = "advance"
    <3>1. sync[c] \in Sync
      BY DEF TypeOK
    <3>2. PICK rows :
             /\ rows = getPendingEvents(sync[c].topic, sync[c].base, EventLimit)
             /\ sync'[c] = IF rows = {} THEN Onwards(sync[c].rest)
                           ELSE [sync[c] EXCEPT !.op = "advance", !.rows = rows]
      BY <1>6 DEF EventsRead, TypeOK
    <3>3. sync'[c] = [sync[c] EXCEPT !.op = "advance", !.rows = rows]
      BY <3>2, OnwardsHoldsNothing
    <3> QED BY <3>1, <3>2, <3>3 DEF Sync
  <2>2. r \in Row /\ status[r] = "pending" /\ msg[r].pattern = "event"
    BY <2>1 DEF getPendingEvents, PendingEvents, Oldest, Pending
  <2> QED BY <1>1, <1>2, <2>1, <2>2 DEF Direct
<1> QED BY <1>3, <1>4, <1>5, <1>6, PageStep

LEMMA RouterInvStep ==
    ASSUME TypeOK, DeliveryInv, [Next]_vars
    PROVE  RouterInv'
<1> USE DEF DeliveryInv
<1>1. ASSUME NEW r \in Row, r <= lastRow
      PROVE  r <= lastRow' /\ (Direct(r)' <=> Direct(r))
  BY <1>1, OldRows, ConstantsAssumption DEF Direct, Row
<1>2. CASE router'.rows \subseteq router.rows
  BY <1>1, <1>2 DEF RouterInv, TypeOK
<1>3. CASE RouterList
  <2>1. ASSUME NEW r \in router'.rows
        PROVE  r \in Row /\ status[r] = "pending" /\ msg[r].pattern = "event"
    BY <1>3 DEF RouterList, Newest, Pending
  <2>2. ASSUME NEW r \in router'.rows PROVE r <= lastRow /\ ~Direct(r)
    BY <2>1, <2>2, OldRows, ConstantsAssumption DEF LogInv, Row, Direct
  <2> QED BY <1>1, <2>1, <2>2 DEF RouterInv
<1>4. ASSUME ~RouterList PROVE router'.rows \subseteq router.rows
  <2>1. CASE RouterExpire \/ RouterMark
    BY <2>1 DEF RouterExpire, RouterMark, TypeOK
  <2>2. CASE runCycle \/ Tick \/ UNCHANGED vars
    BY <2>2 DEF runCycle, Tick, vars, daemonVars
  <2>3. ASSUME NEW c \in Client, ClientStep(c)
        PROVE  router'.rows \subseteq router.rows
    <3>1. UNCHANGED router
      BY <2>3 DEF ClientStep, Send, cast, call, reply, publish, AwaitReply,
         CallSeesReply, CallReturns, CallTimesOut, PollRead, PollMark,
         PollEvents, EventsTopics, EventsCursor, EventsRead, advanceCursor, Deliver,
         onMessage, Membership, subscribe, SubscribeWrites, unsubscribe, Crash, daemonVars
    <3> QED BY <3>1
  <2> QED BY <1>4, <2>1, <2>2, <2>3 DEF Next, Router
<1> QED BY <1>2, <1>3, <1>4

(* A message becomes failed by the deadline of the call it is.              *)
LEMMA FailedStep ==
    ASSUME TypeOK, [Next]_vars, NEW r \in Row,
           status'[r] = "failed", status[r] # "failed"
    PROVE  \E c \in Client : CallTimesOut(c) /\ r = calls[c]
<1> USE DEF TypeOK
<1>1. ASSUME UNCHANGED status PROVE FALSE
  BY <1>1
<1>2. ASSUME NEW q, markDelivered(q) PROVE FALSE
  BY <1>2 DEF markDelivered, StoreTypeOK
<1>3. ASSUME expireMessages \/ \E S : Purge(S) PROVE FALSE
  BY <1>3 DEF expireMessages, Purge
<1>4. ASSUME NEW m, enqueue(m) PROVE FALSE
  BY <1>4 DEF enqueue, StoreTypeOK
<1>5. ASSUME Router \/ runCycle \/ Tick \/ UNCHANGED vars PROVE FALSE
  <2>1. UNCHANGED status \/ expireMessages \/ (\E S : Purge(S))
        \/ \E q : markDelivered(q)
    BY <1>5 DEF Router, RouterExpire, RouterList, RouterMark, runCycle,
         gcStatement, purgeDelivered, purgeOld, purgeInactiveSubscriptions,
         Tick, vars, db
  <2> QED BY <2>1, <1>1, <1>2, <1>3
<1>6. PICK c \in Client : ClientStep(c)
  BY <1>5 DEF Next
<1>7. ASSUME ~ CallTimesOut(c) PROVE FALSE
  <2>1. UNCHANGED status \/ (\E m : enqueue(m)) \/ \E q : markDelivered(q)
    BY <1>6, <1>7 DEF ClientStep, Send, cast, call, reply, publish, AwaitReply,
         CallSeesReply, CallReturns, PollRead, PollMark, PollEvents,
         EventsTopics, EventsCursor, EventsRead, advanceCursor, Deliver, onMessage,
         Membership, subscribe, SubscribeWrites, unsubscribe, Crash, db
  <2> QED BY <2>1, <1>1, <1>2, <1>4
<1>8. r = calls[c]
  BY <1>7 DEF CallTimesOut, markFailed, StoreTypeOK
<1> QED BY <1>7, <1>8

(* A client begins to await a call by sending it.                           *)
LEMMA CallStep ==
    ASSUME TypeOK, [Next]_vars, NEW c \in Client,
           calls'[c] # calls[c], calls'[c] # 0
    PROVE  \E a \in Address : call(c, a)
<1> USE DEF TypeOK
<1>1. ASSUME UNCHANGED calls PROVE FALSE
  BY <1>1
<1>2. ASSUME Router \/ runCycle \/ Tick \/ UNCHANGED vars PROVE FALSE
  <2>1. UNCHANGED calls
    BY <1>2 DEF Router, RouterExpire, RouterList, RouterMark, runCycle, Tick,
                vars, clientVars
  <2> QED BY <2>1, <1>1
<1>3. PICK d \in Client : ClientStep(d)
  BY <1>2 DEF Next
<1>4. ASSUME CallReturns(d) \/ CallTimesOut(d) \/ Crash(d) PROVE FALSE
  <2>1. calls' = [calls EXCEPT ![d] = 0]
    BY <1>4 DEF CallReturns, CallTimesOut, Crash
  <2> QED BY <2>1
<1>5. PICK a \in Address : call(d, a)
  <2>1. ASSUME \A a \in Address : ~ call(d, a),
               ~ (CallReturns(d) \/ CallTimesOut(d) \/ Crash(d))
        PROVE  UNCHANGED calls
    BY <1>3, <2>1 DEF ClientStep, Send, cast, reply, publish, AwaitReply,
         CallSeesReply, PollRead, PollMark, PollEvents, EventsTopics,
       EventsCursor,
         EventsRead, advanceCursor, Deliver, onMessage, Membership,
         subscribe, SubscribeWrites, unsubscribe, clientVars
  <2> QED BY <2>1, <1>1, <1>4
<1>6. c = d
  BY <1>5 DEF call
<1> QED BY <1>5, <1>6

(* Calls of two clients are two rows, so the deadline of one never fails    *)
(* what the other awaits.                                                   *)
LEMMA CallInvStep ==
    ASSUME TypeOK, DeliveryInv, [Next]_vars
    PROVE  CallInv'
<1> USE DEF DeliveryInv
<1>1. ASSUME NEW c \in Client, calls'[c] # 0, calls'[c] = calls[c]
      PROVE  /\ calls[c] \in Row /\ calls[c] <= lastRow /\ calls[c] <= lastRow'
             /\ msg'[calls[c]].pattern = "call"
             /\ msg'[calls[c]].from = AddressOf[c]
             /\ status'[calls[c]] # "failed"
  <2>1. calls[c] \in Row /\ calls[c] <= lastRow
    BY <1>1, ConstantsAssumption DEF CallInv, TypeOK, Row
  <2>2. msg'[calls[c]] = msg[calls[c]] /\ calls[c] <= lastRow'
    BY <2>1, OldRows, ConstantsAssumption DEF Row
  <2>3. ASSUME status'[calls[c]] = "failed" PROVE FALSE
    <3>1. status[calls[c]] # "failed"
      BY <1>1 DEF CallInv
    <3>2. PICK d \in Client : CallTimesOut(d) /\ calls[c] = calls[d]
      BY <2>1, <2>3, <3>1, FailedStep
    <3>3. c = d
      BY <1>1, <3>2 DEF CallInv
    <3>4. calls'[c] = 0
      BY <3>2, <3>3 DEF CallTimesOut, TypeOK
    <3> QED BY <1>1, <3>4
  <2> QED BY <1>1, <2>1, <2>2, <2>3 DEF CallInv
<1>2. ASSUME NEW c \in Client, calls'[c] # 0, calls'[c] # calls[c]
      PROVE  /\ calls'[c] = lastRow + 1 /\ calls'[c] <= lastRow'
             /\ msg'[calls'[c]].pattern = "call"
             /\ msg'[calls'[c]].from = AddressOf[c]
             /\ status'[calls'[c]] # "failed"
             /\ \A d \in Client : d # c => calls'[d] = calls[d]
  <2>1. PICK a \in Address : call(c, a)
    BY <1>2, CallStep
  <2>2. /\ calls' = [calls EXCEPT ![c] = lastRow + 1]
        /\ enqueue(NewMessage("call", c, a, NoTopic, 0))
    BY <2>1 DEF call
  <2>3. lastRow + 1 \in Row
    BY <2>2, OldRows, ConstantsAssumption DEF enqueue, Row
  <2>4. /\ msg'[lastRow + 1] = NewMessage("call", c, a, NoTopic, 0)
        /\ status'[lastRow + 1] = "pending" /\ lastRow' = lastRow + 1
    BY <2>2, <2>3 DEF enqueue, TypeOK, StoreTypeOK
  <2> QED BY <2>2, <2>4, OldRows DEF NewMessage, TypeOK
<1>3. ASSUME NEW c \in Client, NEW d \in Client,
             calls'[c] # 0, calls'[d] = calls'[c], d # c
      PROVE  FALSE
  <2>1. calls'[c] = calls[c] \/ calls'[d] = calls[d]
    BY <1>2, <1>3
  <2>2. CASE calls'[c] = calls[c] /\ calls'[d] = calls[d]
    BY <1>3, <2>2 DEF CallInv
  <2>3. CASE calls'[c] # calls[c]
    <3>1. calls'[c] = lastRow + 1 /\ calls[d] <= lastRow /\ calls[d] \in Row
      BY <1>1, <1>2, <1>3, <2>1, <2>3
    <3> QED BY <3>1, <1>3, <2>1, <2>3, OldRows, ConstantsAssumption DEF Row
  <2>4. CASE calls'[d] # calls[d]
    <3>1. calls'[d] = lastRow + 1 /\ calls[c] <= lastRow /\ calls[c] \in Row
      BY <1>1, <1>2, <1>3, <2>1, <2>4
    <3> QED BY <3>1, <1>3, <2>1, <2>4, OldRows, ConstantsAssumption DEF Row
  <2> QED BY <2>1, <2>2, <2>3, <2>4
<1>4. ASSUME NEW c \in Client, calls'[c] # 0
      PROVE  /\ calls'[c] <= lastRow'
             /\ msg'[calls'[c]].pattern = "call"
             /\ msg'[calls'[c]].from = AddressOf[c]
             /\ status'[calls'[c]] # "failed"
             /\ \A d \in Client : calls'[d] = calls'[c] => d = c
  BY <1>1, <1>2, <1>3, <1>4
<1> QED BY <1>4 DEF CallInv

(* Three actions mark a message delivered; the router's marks no direct one.*)
LEMMA DeliveredStep ==
    ASSUME TypeOK, RouterInv, [Next]_vars, NEW r \in Row, Direct(r),
           status'[r] = "delivered", status[r] # "delivered"
    PROVE  r \in collected' \/ \E c \in Client : r \in Kept(c)'
<1> USE DEF TypeOK
<1>1. ASSUME UNCHANGED status PROVE FALSE
  BY <1>1
<1>2. ASSUME NEW q, markDelivered(q) PROVE r = q
  BY <1>2 DEF markDelivered, StoreTypeOK
<1>3. ASSUME expireMessages \/ \E S : Purge(S) PROVE FALSE
  BY <1>3 DEF expireMessages, Purge
<1>4. ASSUME NEW m, enqueue(m) PROVE FALSE
  BY <1>4 DEF enqueue, StoreTypeOK
<1>5. ASSUME NEW q, markFailed(q) PROVE FALSE
  BY <1>5 DEF markFailed, StoreTypeOK
<1>6. ASSUME RouterMark PROVE FALSE
  <2>1. PICK q \in router.rows : markDelivered(q)
    BY <1>6, PagesAreRows DEF RouterMark
  <2> QED BY <2>1, <1>2 DEF RouterInv
<1>7. ASSUME RouterExpire \/ RouterList \/ runCycle \/ Tick \/ UNCHANGED vars
      PROVE  FALSE
  <2>1. UNCHANGED status \/ expireMessages \/ \E S : Purge(S)
    BY <1>7 DEF RouterExpire, RouterList, runCycle, gcStatement,
         purgeDelivered, purgeOld, purgeInactiveSubscriptions, Tick, vars, db
  <2> QED BY <2>1, <1>1, <1>3
<1>8. PICK c \in Client : ClientStep(c)
  BY <1>6, <1>7 DEF Next, Router
<1>9. CASE CallReturns(c)
  <2>1. PICK q : markDelivered(q) /\ collected' = collected \cup {q}
    BY <1>9 DEF CallReturns
  <2> QED BY <2>1, <1>2
<1>10. CASE PollMark(c)
  <2>1. PICK q : markDelivered(q) /\ inbox' = [inbox EXCEPT ![c] = @ \cup {q}]
    BY <1>10 DEF PollMark
  <2>2. r \in inbox'[c]
    BY <2>1, <1>2
  <2> QED BY <2>2 DEF Kept
<1>11. ASSUME ~ CallReturns(c), ~ PollMark(c) PROVE FALSE
  <2>1. \/ UNCHANGED status
        \/ \E m : enqueue(m)
        \/ \E q : markFailed(q)
    BY <1>8, <1>11 DEF ClientStep, Send, cast, call, reply, publish,
         AwaitReply, CallSeesReply, CallTimesOut, PollRead, PollEvents,
         EventsTopics, EventsCursor, EventsRead, advanceCursor, Deliver, onMessage,
         Membership, subscribe, SubscribeWrites, unsubscribe, Crash, db
  <2> QED BY <2>1, <1>1, <1>4, <1>5
<1> QED BY <1>9, <1>10, <1>11

(* Nothing that a call returned is forgotten.                               *)
LEMMA CollectedGrows ==
    ASSUME [Next]_vars
    PROVE  collected \subseteq collected'
<1>1. ASSUME NEW c \in Client, ClientStep(c), ~ CallReturns(c)
      PROVE  UNCHANGED collected
  BY <1>1 DEF ClientStep, Send, cast, call, reply, publish, AwaitReply,
       CallSeesReply, CallTimesOut, PollRead, PollMark, PollEvents,
       EventsTopics, EventsCursor, EventsRead, advanceCursor, Deliver, onMessage,
       Membership, subscribe, SubscribeWrites, unsubscribe, Crash, history
<1>2. ASSUME NEW c \in Client, CallReturns(c)
      PROVE  collected \subseteq collected'
  BY <1>2 DEF CallReturns
<1>3. ASSUME Router \/ runCycle \/ Tick \/ UNCHANGED vars
      PROVE  UNCHANGED collected
  BY <1>3 DEF Router, RouterExpire, RouterList, RouterMark, runCycle, Tick,
       vars, history
<1> QED BY <1>1, <1>2, <1>3 DEF Next

LEMMA DeliveredInvStep ==
    ASSUME TypeOK, DeliveryInv, [Next]_vars
    PROVE  DeliveredIsAccountedFor'
<1> USE DEF DeliveryInv
<1> SUFFICES ASSUME NEW r \in Row, status'[r] = "delivered", Direct(r)'
             PROVE  r \in collected' \/ \E c \in Client : r \in Kept(c)'
  BY DEF DeliveredIsAccountedFor
<1>1. r <= lastRow
  <2>1. ASSUME \E m : Grows(m), r = lastRow + 1 PROVE FALSE
    BY <2>1 DEF Grows, enqueue, TypeOK, StoreTypeOK
  <2>2. ~ (lastRow' < r)
    BY OldRows DEF LogInv
  <2>3. CASE UNCHANGED lastRow
    BY <2>2, <2>3, OldRows, ConstantsAssumption DEF Row
  <2>4. ASSUME NEW m, Grows(m) PROVE r <= lastRow
    <3>1. lastRow' = lastRow + 1 /\ r # lastRow + 1
      BY <2>1, <2>4 DEF Grows, enqueue
    <3> QED BY <3>1, <2>2, OldRows, ConstantsAssumption DEF Row
  <2> QED BY <2>3, <2>4, RowsStep
<1>2. Direct(r)
  BY <1>1, OldRows DEF Direct
<1>3. CASE status[r] = "delivered"
  BY <1>2, <1>3, KeptGrows, CollectedGrows DEF DeliveredIsAccountedFor
<1>4. CASE status[r] # "delivered"
  BY <1>2, <1>4, DeliveredStep
<1> QED BY <1>3, <1>4

(***************************************************************************)
(* The theorems.                                                           *)
(***************************************************************************)

LEMMA DeliveryCorrect == Spec => [](TypeOK /\ DeliveryInv)
<1>1. Init => TypeOK /\ DeliveryInv
  <2>1. Init => DeliveryInv
    BY ConstantsAssumption
    DEF Init, DeliveryInv, LogInv, RowInv, KeptInv, PageInv, RouterInv,
        CallInv, DeliveredIsAccountedFor, Kept, Idle, Section, Row
  <2> QED BY <2>1, InitTypeOK
<1>2. TypeOK /\ DeliveryInv /\ [Next]_vars => DeliveryInv'
  <2> SUFFICES ASSUME TypeOK, DeliveryInv, [Next]_vars PROVE DeliveryInv'
    OBVIOUS
  <2>1. LogInv' /\ RowInv'
    BY OldRows, RowInvStep DEF DeliveryInv
  <2>2. KeptInv' /\ PageInv' /\ RouterInv' /\ CallInv'
        /\ DeliveredIsAccountedFor'
    BY KeptInvStep, PageInvStep, RouterInvStep, CallInvStep, DeliveredInvStep
  <2> QED BY <2>1, <2>2 DEF DeliveryInv
<1> QED BY <1>1, <1>2, TypeCorrect, PTL DEF Spec

(* However the polls, handlers, processes and crashes interleave, no        *)
(* process polls a direct message that it has taken before.                 *)
THEOREM NothingHandedTwice == Spec => []HandedAtMostOnce
<1>1. TypeOK /\ DeliveryInv => HandedAtMostOnce
  BY DEF DeliveryInv, PageInv, HandedAtMostOnce
<1> QED BY <1>1, DeliveryCorrect, PTL

(* A direct message marked delivered was taken by a process or returned by  *)
(* a call(): neither the router nor the collector marks one nobody has.     *)
THEOREM NothingDeliveredUnseen == Spec => []DeliveredIsAccountedFor
<1>1. TypeOK /\ DeliveryInv => DeliveredIsAccountedFor
  BY DEF DeliveryInv
<1> QED BY <1>1, DeliveryCorrect, PTL

(* A client waits only for its own call, and for none that has failed.      *)
THEOREM AwaitedCallsLive == Spec => []AwaitedCallIsLive
<1>1. TypeOK /\ DeliveryInv => AwaitedCallIsLive
  BY DEF DeliveryInv, CallInv, AwaitedCallIsLive
<1> QED BY <1>1, DeliveryCorrect, PTL

(***************************************************************************)
(* The life of a message.                                                  *)
(***************************************************************************)

(* What one step may make of the status of a row.                           *)
StatusMove(r) ==
    \/ status[r] = "none" /\ status'[r] = "pending"
    \/ status[r] = "pending" /\ status'[r] \in {"delivered", "expired"}
    \/ status[r] \in {"expired", "failed"}
          /\ status'[r] \in {"delivered", "purged"}
    \/ status[r] = "delivered" /\ status'[r] = "purged"
    \/ status'[r] = "failed" /\ msg[r].pattern = "call"

LEMMA PurgeStep ==
    ASSUME TypeOK, DeliveryInv, NEW r \in Row, status'[r] # status[r],
           purgeDelivered \/ purgeOld("expired") \/ purgeOld("failed")
    PROVE  StatusMove(r)
<1> USE DEF TypeOK, StoreTypeOK
<1>1. clock \in Nat /\ deliveredAt[r] \in Nat
  BY ConstantsAssumption
<1>2. CASE purgeDelivered
  <2>1. /\ status[r] = "delivered" /\ status'[r] = "purged"
        /\ deliveredAt[r] + DeliveredRetention <= clock
    BY <1>2 DEF purgeDelivered, Purge
  <2> QED BY <1>1, <2>1, ConstantsAssumption DEF StatusMove
<1>3. ASSUME NEW s \in {"expired", "failed"}, purgeOld(s)
      PROVE  StatusMove(r)
  <2>1. /\ status[r] = s /\ status'[r] = "purged"
        /\ msg[r].created + FailedRetention <= clock
    BY <1>3 DEF purgeOld, Purge
  <2>2. ~ (lastRow < r)
    BY <2>1 DEF DeliveryInv, LogInv
  <2>3. msg[r].created \in Nat
    BY <2>2, ConstantsAssumption DEF DeliveryInv, RowInv, Message, Row
  <2> QED BY <1>1, <2>1, <2>3, ConstantsAssumption DEF StatusMove
<1> QED BY <1>2, <1>3

LEMMA StatusStep ==
    ASSUME TypeOK, DeliveryInv, [Next]_vars, NEW r \in Row,
           status'[r] # status[r]
    PROVE  StatusMove(r)
<1> USE DEF TypeOK, StoreTypeOK
<1>1. ASSUME UNCHANGED status PROVE FALSE
  BY <1>1
<1>2. ASSUME NEW q, markDelivered(q)
      PROVE  StatusMove(r)
  <2>1. status'[r] = "delivered" /\ Present(r) /\ status[r] \in Status
    BY <1>2 DEF markDelivered
  <2> QED BY <2>1 DEF StatusMove, Present, Status
<1>3. ASSUME expireMessages PROVE StatusMove(r)
  BY <1>3 DEF expireMessages, StatusMove
<1>4. ASSUME NEW m, enqueue(m) PROVE StatusMove(r)
  <2>1. r = lastRow + 1 /\ status'[r] = "pending"
    BY <1>4 DEF enqueue
  <2>2. status[r] = "none"
    BY <2>1, OldRows DEF DeliveryInv, LogInv
  <2> QED BY <2>1, <2>2 DEF StatusMove
<1>5. ASSUME NEW c \in Client, CallTimesOut(c)
      PROVE  StatusMove(r)
  <2>1. r = calls[c] /\ status'[r] = "failed" /\ calls[c] # 0
    BY <1>5 DEF CallTimesOut, markFailed
  <2> QED BY <2>1 DEF DeliveryInv, CallInv, StatusMove
<1>6. ASSUME NEW c \in Client, ClientStep(c), ~ CallTimesOut(c)
      PROVE  StatusMove(r)
  <2>1. UNCHANGED status \/ (\E m : enqueue(m)) \/ \E q : markDelivered(q)
    BY <1>6 DEF ClientStep, Send, cast, call, reply, publish, AwaitReply,
         CallSeesReply, CallReturns, PollRead, PollMark, PollEvents,
         EventsTopics, EventsCursor, EventsRead, advanceCursor, Deliver, onMessage,
         Membership, subscribe, SubscribeWrites, unsubscribe, Crash, db
  <2> QED BY <2>1, <1>1, <1>2, <1>4
<1>7. ASSUME Router \/ runCycle \/ Tick \/ UNCHANGED vars
      PROVE  StatusMove(r)
  <2>1. \/ UNCHANGED status \/ expireMessages \/ \E q : markDelivered(q)
        \/ purgeDelivered \/ purgeOld("expired") \/ purgeOld("failed")
    BY <1>7 DEF Router, RouterExpire, RouterList, RouterMark, runCycle,
         gcStatement, purgeInactiveSubscriptions, Tick, vars, db
  <2> QED BY <2>1, <1>1, <1>2, <1>3, PurgeStep
<1> QED BY <1>5, <1>6, <1>7 DEF Next

(* No message is pending again, deleted while pending, expired after its    *)
(* delivery, or failed unless it is a call.                                 *)
THEOREM StatusNeverMovesBack == Spec => StatusMovesForward
<1>1. TypeOK /\ DeliveryInv /\ [Next]_vars =>
         [\A r \in Row : status'[r] # status[r] => StatusMove(r)]_status
  BY StatusStep
<1> QED BY <1>1, DeliveryCorrect, PTL DEF Spec, StatusMovesForward, StatusMove

(***************************************************************************)
(* The mailbox.  Its steps need more of the rows: to whom those on a page   *)
(* and those a process has are addressed, that a reply answers a call its   *)
(* sender was sent, and that nobody waits for a call that returned.         *)
(***************************************************************************)

(* Rows up to the last one were sent.                                       *)
SentInv == \A r \in Row : r <= lastRow => status[r] # "none"

(* A process takes direct messages of its own address.                      *)
BoxInv ==
    \A c \in Client :
        /\ \A r \in Kept(c) : Direct(r) => msg[r].to = AddressOf[c]
        /\ \A r \in sync[c].rows : sync[c].op = "poll" => msg[r].to = AddressOf[c]

(* A reply is the callee's to the caller.                                   *)
Answers(m) ==
    /\ m.call \in Row /\ m.call <= lastRow
    /\ msg[m.call].pattern = "call"
    /\ msg[m.call].from = m.to /\ msg[m.call].to = m.from

ReplyInv == \A r \in Row : r <= lastRow /\ msg[r].pattern = "reply" => Answers(msg[r])

(* The reply a call is about to return is one to it; the one it returned    *)
(* was the last thing anybody waited for.                                   *)
ReturnInv ==
    /\ \A c \in Client : \A r \in sync[c].rows : sync[c].op = "reply" =>
          calls[c] # 0 /\ msg[r].pattern = "reply" /\ msg[r].call = calls[c]
    /\ \A r \in collected :
          /\ r \in Row /\ r <= lastRow /\ msg[r].pattern = "reply"
          /\ \A c \in Client : calls[c] # msg[r].call

MailInv == SentInv /\ BoxInv /\ ReplyInv /\ ReturnInv

LEMMA SentStep ==
    ASSUME TypeOK, DeliveryInv, SentInv, [Next]_vars PROVE SentInv'
<1> SUFFICES ASSUME NEW r \in Row, r <= lastRow', status'[r] = "none" PROVE FALSE
  BY DEF SentInv
<1>1. status'[r] = status[r]
  BY StatusStep DEF StatusMove
<1>2. ~ (r <= lastRow)
  BY <1>1 DEF SentInv
<1>3. PICK m : Grows(m)
  BY <1>2, RowsStep
<1>4. lastRow' = lastRow + 1 /\ status' = [status EXCEPT ![lastRow + 1] = "pending"]
  BY <1>3 DEF Grows, enqueue
<1>5. r = lastRow + 1
  BY <1>2, <1>4, OldRows, ConstantsAssumption DEF DeliveryInv, Row
<1> QED BY <1>4, <1>5 DEF TypeOK, StoreTypeOK

LEMMA BoxStep ==
    ASSUME TypeOK, DeliveryInv, BoxInv, [Next]_vars PROVE BoxInv'
<1> USE DEF DeliveryInv
<1>1. ASSUME NEW r \in Row, r <= lastRow
      PROVE  msg'[r] = msg[r] /\ (Direct(r)' <=> Direct(r))
  BY <1>1, OldRows DEF Direct
<1>2. ASSUME NEW c \in Client, NEW r \in Kept(c)', Direct(r)'
      PROVE  msg'[r].to = AddressOf[c]
  <2>1. CASE r \in Kept(c)
    <3>1. r \in Row /\ r <= lastRow
      BY <2>1 DEF KeptInv, Kept, TypeOK
    <3> QED BY <1>1, <1>2, <2>1, <3>1 DEF BoxInv
  <2>2. CASE r \notin Kept(c)
    <3>1. r \in sync[c].rows /\ (advanceCursor(c) \/ PollMark(c))
      BY <1>2, <2>2, KeptStep
    <3>2. r \in Row /\ r <= lastRow
      BY <3>1 DEF PageInv, TypeOK, Sync
    <3>3. ~ advanceCursor(c)
      BY <1>1, <1>2, <3>1, <3>2 DEF PageInv, advanceCursor
    <3>4. sync[c].op = "poll"
      BY <3>1, <3>3 DEF PollMark
    <3> QED BY <1>1, <3>1, <3>2, <3>4 DEF BoxInv
  <2> QED BY <2>1, <2>2
<1>3. ASSUME NEW c \in Client, NEW r \in sync'[c].rows, sync'[c].op = "poll"
      PROVE  msg'[r].to = AddressOf[c]
  <2>1. CASE r \in sync[c].rows /\ sync'[c].op = sync[c].op
    <3>1. r \in Row /\ r <= lastRow
      BY <2>1 DEF PageInv, TypeOK, Sync
    <3> QED BY <1>1, <1>3, <2>1, <3>1 DEF BoxInv
  <2>2. CASE PollRead(c)
    <3>1. r \in getPendingFor(AddressOf[c], PollLimit) /\ UNCHANGED msg
      BY <1>3, <2>2 DEF PollRead, Section, TypeOK, db
    <3> QED BY <3>1 DEF getPendingFor, Oldest
  <2>3. ~ CallSeesReply(c) /\ ~ EventsRead(c)
    BY <1>3, EventsReadEnds DEF CallSeesReply, Section, TypeOK
  <2> QED BY <1>3, <2>1, <2>2, <2>3, PageStep
<1> QED BY <1>2, <1>3 DEF BoxInv

(* A reply is sent by who has taken the call.                               *)
LEMMA ReplySent ==
    ASSUME TypeOK, DeliveryInv, [Next]_vars, NEW m, Grows(m), m.pattern = "reply"
    PROVE  \E c \in Client : \E r \in Row : reply(c, r)
<1> USE DEF TypeOK, StoreTypeOK
<1>1. /\ lastRow' = lastRow + 1 /\ lastRow + 1 \in Row
      /\ msg'[lastRow + 1] = m
  <2>1. lastRow + 1 \in Row
    BY ConstantsAssumption DEF Grows, enqueue, Row
  <2> QED BY <2>1 DEF Grows, enqueue
<1>2. ASSUME UNCHANGED lastRow PROVE FALSE
  BY <1>1, <1>2, ConstantsAssumption
<1>3. ASSUME Router \/ runCycle \/ Tick \/ UNCHANGED vars PROVE FALSE
  <2>1. UNCHANGED lastRow
    BY <1>3 DEF Router, RouterExpire, RouterList, RouterMark, runCycle,
       gcStatement, expireMessages, purgeDelivered, purgeOld, Purge,
       purgeInactiveSubscriptions, markDelivered, Tick, vars, db
  <2> QED BY <2>1, <1>2
<1>4. PICK c \in Client : ClientStep(c)
  BY <1>3 DEF Next
<1>5. ASSUME ~ Send(c) PROVE FALSE
  <2>1. UNCHANGED lastRow
    BY <1>4, <1>5 DEF ClientStep, AwaitReply, CallSeesReply, CallReturns, CallTimesOut,
       markDelivered, markFailed, PollRead, PollMark, PollEvents, EventsTopics,
       EventsCursor,
       EventsRead, advanceCursor, Deliver, onMessage, Membership, subscribe, SubscribeWrites,
       unsubscribe, Crash, db
  <2> QED BY <2>1, <1>2
<1>6. ASSUME NEW x, enqueue(x) PROVE x.pattern = "reply"
  BY <1>1, <1>6 DEF enqueue
<1>7. ASSUME \E a \in Address : cast(c, a) \/ call(c, a) PROVE FALSE
  BY <1>6, <1>7 DEF cast, call, NewMessage
<1>8. ASSUME \E t \in Topic : publish(c, t) PROVE FALSE
  BY <1>6, <1>8 DEF publish, NewMessage
<1> QED BY <1>5, <1>7, <1>8 DEF Send

LEMMA ReplyAnswers ==
    ASSUME TypeOK, DeliveryInv, BoxInv, NEW c \in Client, NEW r \in Row, reply(c, r)
    PROVE  Answers(NewMessage("reply", c, msg[r].from, NoTopic, r))
<1>1. r \in Kept(c) /\ msg[r].pattern = "call"
  BY DEF reply, Kept
<1>2. r <= lastRow /\ msg[r].to = AddressOf[c]
  BY <1>1 DEF DeliveryInv, KeptInv, BoxInv, Direct
<1> QED BY <1>1, <1>2 DEF Answers, NewMessage

LEMMA AnswersStay ==
    ASSUME TypeOK, DeliveryInv, [Next]_vars, NEW m, Answers(m)
    PROVE  Answers(m)'
<1>1. m.call \in Row /\ m.call <= lastRow' /\ msg'[m.call] = msg[m.call]
  BY OldRows, ConstantsAssumption DEF Answers, DeliveryInv, Row
<1> QED BY <1>1 DEF Answers

LEMMA ReplyStep ==
    ASSUME TypeOK, DeliveryInv, BoxInv, ReplyInv, [Next]_vars PROVE ReplyInv'
<1> USE DEF DeliveryInv
<1> SUFFICES ASSUME NEW r \in Row, r <= lastRow', msg'[r].pattern = "reply"
             PROVE  Answers(msg[r])'
  BY DEF ReplyInv
<1>1. PICK x : x = msg'[r]
  OBVIOUS
<1>2. Answers(x)
  <2>1. CASE r <= lastRow
    BY <1>1, <2>1, OldRows DEF ReplyInv
  <2>2. CASE ~ (r <= lastRow)
    <3>1. PICK m : Grows(m)
      BY <2>2, RowsStep
    <3>2. r = lastRow + 1 /\ msg'[r] = m
      BY <3>1, <2>2, OldRows, ConstantsAssumption
      DEF Grows, enqueue, Row, TypeOK, StoreTypeOK
    <3>3. PICK c \in Client, q \in Row : reply(c, q)
      BY <3>1, <3>2, ReplySent
    <3>4. msg' = [msg EXCEPT ![lastRow + 1] = NewMessage("reply", c, msg[q].from, NoTopic, q)]
      BY <3>3 DEF reply, enqueue
    <3>5. x = NewMessage("reply", c, msg[q].from, NoTopic, q)
      BY <1>1, <3>2, <3>4 DEF TypeOK, StoreTypeOK
    <3> QED BY <3>3, <3>5, ReplyAnswers
  <2> QED BY <2>1, <2>2
<1>3. Answers(x)'
  BY <1>2, AnswersStay
<1> QED BY <1>1, <1>3 DEF Answers

(* What a step returns, the caller no longer waits for.                     *)
LEMMA CollectedStep ==
    ASSUME TypeOK, [Next]_vars, NEW r \in collected', r \notin collected
    PROVE  \E c \in Client : /\ CallReturns(c) /\ r \in sync[c].rows
                             /\ sync[c].op = "reply" /\ calls' = [calls EXCEPT ![c] = 0]
<1>1. ASSUME UNCHANGED collected PROVE FALSE
  BY <1>1
<1>2. ASSUME Router \/ runCycle \/ Tick \/ UNCHANGED vars PROVE FALSE
  <2>1. UNCHANGED collected
    BY <1>2 DEF Router, RouterExpire, RouterList, RouterMark, runCycle, Tick,
         vars, history
  <2> QED BY <2>1, <1>1
<1>3. PICK c \in Client : ClientStep(c)
  BY <1>2 DEF Next
<1>4. ASSUME ~ CallReturns(c) PROVE FALSE
  <2>1. UNCHANGED collected
    BY <1>3, <1>4 DEF ClientStep, Send, cast, call, reply, publish, AwaitReply,
       CallSeesReply, CallTimesOut, PollRead, PollMark, PollEvents, EventsTopics,
       EventsCursor,
       EventsRead, advanceCursor, Deliver, onMessage, Membership, subscribe, SubscribeWrites,
       unsubscribe, Crash, history
  <2> QED BY <2>1, <1>1
<1> QED BY <1>4 DEF CallReturns

LEMMA ReturnStep ==
    ASSUME TypeOK, DeliveryInv, MailInv, [Next]_vars PROVE ReturnInv'
<1> USE DEF DeliveryInv, MailInv
<1>1. ASSUME NEW r \in Row, r <= lastRow PROVE msg'[r] = msg[r] /\ r <= lastRow'
  BY <1>1, OldRows, ConstantsAssumption DEF Row
<1>2. ASSUME NEW c \in Client, NEW r \in sync'[c].rows, sync'[c].op = "reply"
      PROVE  calls'[c] # 0 /\ msg'[r].pattern = "reply" /\ msg'[r].call = calls'[c]
  <2>1. CASE CallSeesReply(c)
    <3>1. /\ r \in getReply(calls[c]) /\ calls[c] # 0
          /\ UNCHANGED <<msg, calls>>
      BY <1>2, <2>1 DEF CallSeesReply, Section, TypeOK, db
    <3> QED BY <3>1 DEF getReply, Newest
  <2>2. CASE r \in sync[c].rows /\ sync'[c].op = sync[c].op
    <3>1. r \in Row /\ r <= lastRow /\ sync[c].op = "reply"
      BY <1>2, <2>2 DEF PageInv, TypeOK, Sync
    <3>2. calls[c] # 0 /\ msg[r].pattern = "reply" /\ msg[r].call = calls[c]
      BY <2>2, <3>1 DEF ReturnInv
    <3>3. ASSUME calls'[c] # calls[c] PROVE FALSE
      <4>1. sync[c] # Idle
        BY <3>1 DEF Idle, Section
      <4>2. ASSUME calls'[c] # 0 PROVE FALSE
        BY <3>3, <4>1, <4>2, CallStep DEF call, Free
      <4>3. ASSUME sync'[c] = Idle PROVE FALSE
        BY <2>2, <4>3 DEF Idle, Section
      <4>4. ASSUME UNCHANGED calls PROVE FALSE
        BY <3>3, <4>4
      <4>5. ASSUME Router \/ runCycle \/ Tick \/ UNCHANGED vars PROVE FALSE
        <5>1. UNCHANGED calls
          BY <4>5 DEF Router, RouterExpire, RouterList, RouterMark, runCycle, Tick,
               vars, clientVars
        <5> QED BY <5>1, <4>4
      <4>6. PICK d \in Client : ClientStep(d)
        BY <4>5 DEF Next
      <4>7. PICK x : calls' = [calls EXCEPT ![d] = x]
        <5>1. CASE \E a \in Address : call(d, a)
          BY <5>1 DEF call
        <5>2. CASE CallReturns(d) \/ CallTimesOut(d) \/ Crash(d)
          BY <5>2 DEF CallReturns, CallTimesOut, Crash
        <5>3. ASSUME \A a \in Address : ~ call(d, a),
                     ~ (CallReturns(d) \/ CallTimesOut(d) \/ Crash(d))
              PROVE  UNCHANGED calls
          BY <4>6, <5>3 DEF ClientStep, Send, cast, reply, publish, AwaitReply,
               CallSeesReply, PollRead, PollMark, PollEvents, EventsTopics,
       EventsCursor,
               EventsRead, advanceCursor, Deliver, onMessage, Membership,
               subscribe, SubscribeWrites, unsubscribe, clientVars
        <5> QED BY <5>1, <5>2, <5>3, <4>4
      <4>8. c = d
        BY <3>3, <4>7 DEF TypeOK
      <4>9. ~ CallTimesOut(c)
        BY <4>1 DEF CallTimesOut, Free
      <4>10. ~ CallReturns(c) /\ ~ Crash(c)
        BY <4>3 DEF CallReturns, Crash, TypeOK
      <4>11. \A a \in Address : ~ call(c, a)
        BY <4>1 DEF call, Free
      <4>12. UNCHANGED calls
        BY <4>6, <4>8, <4>9, <4>10, <4>11
        DEF ClientStep, Send, cast, reply, publish, AwaitReply,
             CallSeesReply, PollRead, PollMark, PollEvents, EventsTopics,
       EventsCursor,
             EventsRead, advanceCursor, Deliver, onMessage, Membership,
             subscribe, SubscribeWrites, unsubscribe, clientVars
      <4> QED BY <4>4, <4>12
    <3> QED BY <1>1, <3>1, <3>2, <3>3
  <2>3. ~ PollRead(c) /\ ~ EventsRead(c)
    BY <1>2, EventsReadEnds DEF PollRead, Section, TypeOK
  <2> QED BY <1>2, <2>1, <2>2, <2>3, PageStep
<1>3. ASSUME NEW r \in collected'
      PROVE  /\ r \in Row /\ r <= lastRow' /\ msg'[r].pattern = "reply"
             /\ \A c \in Client : calls'[c] # msg'[r].call
  <2>1. /\ r \in Row /\ r <= lastRow /\ msg[r].pattern = "reply"
        /\ \A c \in Client : calls[c] = msg[r].call => calls'[c] = 0
    <3>1. CASE r \in collected
      BY <3>1 DEF ReturnInv
    <3>2. CASE r \notin collected
      <4>1. PICK c \in Client : /\ r \in sync[c].rows /\ sync[c].op = "reply"
                                /\ calls' = [calls EXCEPT ![c] = 0]
        BY <1>3, <3>2, CollectedStep
      <4>2. r \in Row /\ r <= lastRow
        BY <4>1 DEF PageInv, TypeOK, Sync
      <4>3. calls[c] # 0 /\ msg[r].pattern = "reply" /\ msg[r].call = calls[c]
        BY <4>1 DEF ReturnInv
      <4>4. \A d \in Client : calls[d] = calls[c] => d = c
        BY <4>3 DEF CallInv
      <4> QED BY <4>1, <4>2, <4>3, <4>4 DEF TypeOK
    <3> QED BY <3>1, <3>2
  <2>2. msg[r].call \in Row /\ msg[r].call <= lastRow
    BY <2>1 DEF ReplyInv, Answers
  <2>3. ASSUME NEW c \in Client, calls'[c] = msg[r].call PROVE FALSE
    <3>1. calls'[c] # 0
      BY <2>2, <2>3, ConstantsAssumption DEF Row
    <3>2. calls'[c] # calls[c]
      BY <2>1, <2>3, <3>1
    <3>3. PICK a \in Address : call(c, a)
      BY <3>1, <3>2, CallStep
    <3>4. calls'[c] = lastRow + 1
      BY <3>3 DEF call, TypeOK
    <3> QED BY <2>2, <2>3, <3>4, OldRows, ConstantsAssumption DEF Row
  <2> QED BY <1>1, <2>1, <2>3
<1> QED BY <1>2, <1>3 DEF ReturnInv

LEMMA MailCorrect == Spec => [](TypeOK /\ DeliveryInv /\ MailInv)
<1>1. Init => MailInv
  BY ConstantsAssumption
  DEF Init, MailInv, SentInv, BoxInv, ReplyInv, ReturnInv, Kept, Idle, Section, Row
<1>2. TypeOK /\ DeliveryInv /\ MailInv /\ [Next]_vars => MailInv'
  BY SentStep, BoxStep, ReplyStep, ReturnStep DEF MailInv
<1> QED BY <1>1, <1>2, DeliveryCorrect, PTL DEF Spec

(***************************************************************************)
(* The refinement: each step is one of the mailbox, or none.                *)
(***************************************************************************)

Mails == [Mail!Next]_(Mail!mailVars)

LEMMA MailSame ==
    ASSUME UNCHANGED <<msg, status, inbox, handed, lost, collected>>
    PROVE  Mails
BY DEF Mails, Mail!mailVars, Kept

(* One process has more rows than before.                                   *)
LEMMA TakenBy ==
    ASSUME NEW c \in Client, NEW R, Kept(c)' = Kept(c) \cup R,
           \A d \in Client \ {c} : Kept(d)' = Kept(d)
    PROVE  [d \in Client |-> Kept(d)]' =
              [[d \in Client |-> Kept(d)] EXCEPT ![c] = @ \cup R]
OBVIOUS

LEMMA InboxTaken ==
    ASSUME TypeOK, NEW c \in Client, NEW R,
           inbox' = [inbox EXCEPT ![c] = @ \cup R], UNCHANGED <<handed, lost>>
    PROVE  [d \in Client |-> Kept(d)]' =
              [[d \in Client |-> Kept(d)] EXCEPT ![c] = @ \cup R]
<1>1. inbox'[c] = inbox[c] \cup R /\ \A d \in Client \ {c} : inbox'[d] = inbox[d]
  BY DEF TypeOK
<1> QED BY <1>1, TakenBy DEF Kept

LEMMA TakenSame ==
    ASSUME UNCHANGED <<inbox, handed, lost>>
    PROVE  [d \in Client |-> Kept(d)]' = [d \in Client |-> Kept(d)]
BY DEF Kept

LEMMA MarkedDelivered ==
    ASSUME TypeOK, NEW r \in Row, status[r] # "none", markDelivered(r)
    PROVE  Mail!Marked(r, "delivered") /\ UNCHANGED msg
BY DEF TypeOK, StoreTypeOK, markDelivered, Present, Mail!Marked, Mail!Becomes

LEMMA MarkedFailed ==
    ASSUME TypeOK, NEW r \in Row, status[r] # "none", markFailed(r)
    PROVE  Mail!Marked(r, "failed") /\ UNCHANGED msg
BY DEF TypeOK, StoreTypeOK, markFailed, Present, Mail!Marked, Mail!Becomes

LEMMA EnqueueSends ==
    ASSUME TypeOK, DeliveryInv, NEW c \in Client, NEW m, Grows(m), m.from = AddressOf[c],
           m.pattern = "reply" => /\ m.call \in Kept(c)
                                  /\ msg[m.call].pattern = "call"
                                  /\ msg[m.call].from = m.to,
           UNCHANGED <<inbox, handed, lost, collected>>
    PROVE  Mails
<1>1. lastRow + 1 \in Row /\ status[lastRow + 1] = "none"
  <2>1. lastRow \in Nat /\ lastRow < MaxRow
    BY ConstantsAssumption DEF Grows, enqueue, TypeOK, StoreTypeOK
  <2>2. lastRow + 1 \in Row /\ lastRow < lastRow + 1
    BY <2>1, ConstantsAssumption DEF Row
  <2> QED BY <2>2 DEF DeliveryInv, LogInv
<1>2. Mail!Becomes({lastRow + 1}, "pending")
  BY <1>1 DEF Grows, enqueue, Mail!Becomes, TypeOK, StoreTypeOK
<1>3. UNCHANGED <<[d \in Client |-> Kept(d)], collected>>
  BY TakenSame
<1>4. msg' = [msg EXCEPT ![lastRow + 1] = m] /\ m \in Message
  BY DEF Grows, enqueue
<1>5. m.pattern = "event" => m.to = NoAddress
  BY DEF Grows
<1>6. Mail!Sends(c, lastRow + 1)
  BY <1>1, <1>2, <1>3, <1>4, <1>5 DEF Mail!Sends
<1> QED BY <1>1, <1>6 DEF Mails, Mail!Next

LEMMA SendMails ==
    ASSUME TypeOK, DeliveryInv, NEW c \in Client, Send(c) PROVE Mails
<1> USE DEF TypeOK
<1>1. ASSUME NEW p \in {"cast", "call"}, NEW a \in Address,
             enqueue(NewMessage(p, c, a, NoTopic, 0)),
             UNCHANGED <<inbox, handed, lost, collected>>
      PROVE  Mails
  <2>1. PICK m : m = NewMessage(p, c, a, NoTopic, 0)
    OBVIOUS
  <2>2. m \in Message
    BY <2>1, NewMessageType, ConstantsAssumption DEF Pattern
  <2>3. m.pattern = p /\ m.from = AddressOf[c]
    BY <2>1 DEF NewMessage
  <2>4. Grows(m)
    BY <1>1, <2>1, <2>2, <2>3 DEF Grows
  <2> QED BY <1>1, <2>3, <2>4, EnqueueSends
<1>2. ASSUME NEW a \in Address, cast(c, a) \/ call(c, a) PROVE Mails
  BY <1>1, <1>2 DEF cast, call, clientVars, history
<1>3. ASSUME NEW r \in Row, reply(c, r) PROVE Mails
  <2>1. PICK m : m = NewMessage("reply", c, msg[r].from, NoTopic, r)
    OBVIOUS
  <2>2. r \in Kept(c) /\ msg[r].pattern = "call" /\ enqueue(m)
        /\ UNCHANGED <<inbox, handed, lost, collected>>
    BY <1>3, <2>1 DEF reply, Kept, clientVars, history
  <2>3. msg[r].from \in Address /\ r \in 0..MaxRow
    BY <2>2, ConstantsAssumption DEF StoreTypeOK, Message, NoMessage, Row
  <2>4. m \in Message
    BY <2>1, <2>3, NewMessageType, ConstantsAssumption DEF Pattern
  <2>5. /\ m.pattern = "reply" /\ m.from = AddressOf[c]
        /\ m.call = r /\ m.to = msg[r].from
    BY <2>1 DEF NewMessage
  <2>6. Grows(m)
    BY <2>2, <2>4, <2>5 DEF Grows
  <2> QED BY <2>2, <2>5, <2>6, EnqueueSends
<1>4. ASSUME NEW t \in Topic, publish(c, t) PROVE Mails
  <2>1. PICK m : m = NewMessage("event", c, NoAddress, t, 0)
    OBVIOUS
  <2>2. m \in Message
    BY <2>1, NewMessageType, ConstantsAssumption DEF Pattern
  <2>3. m.pattern = "event" /\ m.from = AddressOf[c] /\ m.to = NoAddress
    BY <2>1 DEF NewMessage
  <2>4. Grows(m) /\ UNCHANGED <<inbox, handed, lost, collected>>
    BY <1>4, <2>1, <2>2, <2>3 DEF Grows, publish, clientVars
  <2> QED BY <2>3, <2>4, EnqueueSends
<1> QED BY <1>2, <1>3, <1>4 DEF Send

LEMMA CallMails ==
    ASSUME TypeOK, DeliveryInv, MailInv, NEW c \in Client, AwaitReply(c) PROVE Mails
<1> USE DEF DeliveryInv, MailInv
<1>1. CASE CallSeesReply(c)
  BY <1>1, MailSame DEF CallSeesReply, db, history
<1>2. CASE CallReturns(c)
  <2>1. PICK r \in sync[c].rows : markDelivered(r) /\ collected' = collected \cup {r}
    BY <1>2 DEF CallReturns
  <2>2. sync[c].op = "reply" /\ UNCHANGED <<inbox, handed, lost>>
    BY <1>2 DEF CallReturns
  <2>3. r \in Row /\ r <= lastRow
    BY <2>1 DEF PageInv, TypeOK, Sync
  <2>4. calls[c] # 0 /\ msg[r].pattern = "reply" /\ msg[r].call = calls[c]
    BY <2>1, <2>2 DEF ReturnInv
  <2>5. PICK k : k = calls[c]
    OBVIOUS
  <2>6. /\ msg[k].pattern = "call" /\ msg[k].from = AddressOf[c]
        /\ status[k] # "failed"
    BY <2>4, <2>5 DEF CallInv
  <2>7. msg[k].from = msg[r].to /\ msg[k].to = msg[r].from
    BY <2>3, <2>4, <2>5 DEF ReplyInv, Answers
  <2>8. \A q \in collected : msg[q].call # k
    BY <2>5 DEF ReturnInv
  <2>9. status[r] # "none"
    BY <2>3 DEF SentInv
  <2>10. Mail!Marked(r, "delivered") /\ UNCHANGED msg
    BY <2>1, <2>3, <2>9, MarkedDelivered
  <2>11. UNCHANGED [d \in Client |-> Kept(d)]
    BY <2>2, TakenSame
  <2>12. Mail!Returns(c, r)
    BY <2>1, <2>4, <2>5, <2>6, <2>7, <2>8, <2>9, <2>10, <2>11
    DEF Mail!Returns, Mail!Unanswered
  <2> QED BY <2>3, <2>12 DEF Mails, Mail!Next
<1>3. CASE CallTimesOut(c)
  <2>1. PICK k : k = calls[c]
    OBVIOUS
  <2>2. k # 0 /\ markFailed(k) /\ UNCHANGED <<inbox, handed, lost, collected>>
    BY <1>3, <2>1 DEF CallTimesOut, history
  <2>3. /\ k \in Row /\ msg[k].pattern = "call" /\ msg[k].from = AddressOf[c]
        /\ status[k] # "failed" /\ k <= lastRow
    BY <2>1, <2>2, ConstantsAssumption DEF CallInv, TypeOK, Row
  <2>4. \A q \in collected : msg[q].call # k
    BY <2>1 DEF ReturnInv
  <2>5. status[k] # "none"
    BY <2>3 DEF SentInv
  <2>6. Mail!Marked(k, "failed") /\ UNCHANGED msg
    BY <2>2, <2>3, <2>5, MarkedFailed
  <2>7. UNCHANGED [d \in Client |-> Kept(d)]
    BY <2>2, TakenSame
  <2>8. Mail!Fails(c, k)
    BY <2>2, <2>3, <2>4, <2>5, <2>6, <2>7 DEF Mail!Fails, Mail!Unanswered
  <2> QED BY <2>3, <2>8 DEF Mails, Mail!Next
<1> QED BY <1>1, <1>2, <1>3 DEF AwaitReply

LEMMA PollMails ==
    ASSUME TypeOK, DeliveryInv, MailInv, NEW c \in Client, PollRead(c) \/ PollMark(c)
    PROVE  Mails
<1> USE DEF DeliveryInv, MailInv
<1>1. CASE PollRead(c)
  BY <1>1, MailSame DEF PollRead, db, history
<1>2. CASE PollMark(c)
  <2>1. PICK r \in sync[c].rows :
           markDelivered(r) /\ inbox' = [inbox EXCEPT ![c] = @ \cup {r}]
    BY <1>2, PagesAreRows DEF PollMark, TypeOK
  <2>2. sync[c].op = "poll" /\ UNCHANGED <<handed, lost, collected>>
    BY <1>2 DEF PollMark, history
  <2>3. r \in Row /\ r <= lastRow /\ r \notin Kept(c)
    BY <2>1, <2>2 DEF PageInv, TypeOK, Sync
  <2>4. msg[r].to = AddressOf[c]
    BY <2>1, <2>2 DEF BoxInv
  <2>5. status[r] # "none"
    BY <2>3 DEF SentInv
  <2>6. Mail!Marked(r, "delivered") /\ UNCHANGED msg
    BY <2>1, <2>3, <2>5, MarkedDelivered
  <2>7. [d \in Client |-> Kept(d)]' =
           [[d \in Client |-> Kept(d)] EXCEPT ![c] = @ \cup {r}]
    BY <2>1, <2>2, InboxTaken
  <2>8. Mail!Takes(c, r)
    BY <2>2, <2>3, <2>4, <2>5, <2>6, <2>7 DEF Mail!Takes
  <2> QED BY <2>3, <2>8 DEF Mails, Mail!Next
<1> QED BY <1>1, <1>2

LEMMA EventMails ==
    ASSUME TypeOK, DeliveryInv, MailInv, NEW c \in Client, PollEvents(c) PROVE Mails
<1> USE DEF DeliveryInv, MailInv
<1>1. CASE EventsRead(c) \/ EventsTopics(c) \/ \E t \in Topic : EventsCursor(c, t)
  BY <1>1, MailSame DEF EventsRead, EventsTopics, EventsCursor, db, history
<1>2. CASE advanceCursor(c)
  <2>1. PICK R : R = sync[c].rows
    OBVIOUS
  <2>2. /\ inbox' = [inbox EXCEPT ![c] = @ \cup R]
        /\ UNCHANGED <<msg, status, handed, lost, collected>>
    BY <1>2, <2>1 DEF advanceCursor, history
  <2>3. R \in SUBSET Row /\ \A r \in R : r <= lastRow /\ ~ Direct(r)
    BY <1>2, <2>1 DEF advanceCursor, PageInv, TypeOK, Sync
  <2>4. \A r \in R : status[r] # "none" /\ msg[r].pattern = "event"
    BY <2>3 DEF SentInv, RowInv, Message, Pattern, Direct
  <2>5. [d \in Client |-> Kept(d)]' =
           [[d \in Client |-> Kept(d)] EXCEPT ![c] = @ \cup R]
    BY <2>2, InboxTaken
  <2>6. Mail!Reads(c, R)
    BY <2>2, <2>4, <2>5 DEF Mail!Reads
  <2> QED BY <2>3, <2>6 DEF Mails, Mail!Next
<1> QED BY <1>1, <1>2 DEF PollEvents

(* What a process does with what it has.                                    *)
LEMMA HandlingMails ==
    ASSUME TypeOK, NEW c \in Client, Deliver(c) \/ Membership(c) \/ Crash(c)
    PROVE  Mails
<1>1. CASE Membership(c)
  BY <1>1, MailSame DEF Membership, subscribe, SubscribeWrites, unsubscribe,
       db, clientVars, history
<1>2. CASE Deliver(c) \/ Crash(c)
  <2>1. \A d \in Client : Kept(d)' = Kept(d)
    <3>1. CASE Deliver(c)
      <4>1. PICK r \in Row : r \in inbox[c]
                /\ inbox' = [inbox EXCEPT ![c] = @ \ {r}]
                /\ handed' = [handed EXCEPT ![c] = @ \cup {r}] /\ UNCHANGED lost
        BY <3>1 DEF Deliver, onMessage, history
      <4> QED BY <4>1 DEF Kept, TypeOK
    <3>2. CASE Crash(c)
      BY <3>2 DEF Crash, Kept, TypeOK
    <3> QED BY <1>2, <3>1, <3>2
  <2>2. UNCHANGED <<msg, status, collected>>
    BY <1>2 DEF Deliver, onMessage, Crash, db, history
  <2> QED BY <2>1, <2>2 DEF Mails, Mail!mailVars
<1> QED BY <1>1, <1>2

LEMMA ExpireMails ==
    ASSUME TypeOK, expireMessages, UNCHANGED <<inbox, handed, lost, collected>>
    PROVE  Mails
<1>1. PICK R : R = {r \in Row : status[r] = "pending"
                                /\ msg[r].created + TTL[msg[r].pattern] < clock}
  OBVIOUS
<1>2. R \in SUBSET Row /\ \A r \in R : status[r] = "pending"
  BY <1>1
<1>3. Mail!Becomes(R, "expired") /\ UNCHANGED msg
  BY <1>1 DEF expireMessages, Mail!Becomes
<1>4. UNCHANGED <<[d \in Client |-> Kept(d)], collected>>
  BY TakenSame
<1>5. Mail!Expires(R)
  BY <1>2, <1>3, <1>4 DEF Mail!Expires
<1> QED BY <1>2, <1>5 DEF Mails, Mail!Next

LEMMA PurgeMails ==
    ASSUME TypeOK, UNCHANGED <<inbox, handed, lost, collected>>,
           purgeDelivered \/ purgeOld("expired") \/ purgeOld("failed")
    PROVE  Mails
<1>1. PICK R \in SUBSET Row :
         /\ Purge(R) /\ \A r \in R : status[r] \in {"delivered", "expired", "failed"}
  <2>1. ASSUME NEW R, R \subseteq Row, Purge(R),
               \A r \in R : status[r] \in {"delivered", "expired", "failed"}
        PROVE  \E S \in SUBSET Row :
                  /\ Purge(S) /\ \A r \in S : status[r] \in {"delivered", "expired", "failed"}
    BY <2>1
  <2>2. CASE purgeDelivered
    BY <2>1, <2>2 DEF purgeDelivered
  <2>3. ASSUME NEW s \in {"expired", "failed"}, purgeOld(s)
        PROVE  \E S \in SUBSET Row :
                  /\ Purge(S) /\ \A r \in S : status[r] \in {"delivered", "expired", "failed"}
    BY <2>1, <2>3 DEF purgeOld
  <2> QED BY <2>2, <2>3
<1>2. Mail!Becomes(R, "purged") /\ UNCHANGED msg
  BY <1>1 DEF Purge, Mail!Becomes
<1>3. UNCHANGED <<[d \in Client |-> Kept(d)], collected>>
  BY TakenSame
<1>4. Mail!Purges(R)
  BY <1>1, <1>2, <1>3 DEF Mail!Purges
<1> QED BY <1>1, <1>4 DEF Mails, Mail!Next

LEMMA DaemonMails ==
    ASSUME TypeOK, DeliveryInv, MailInv, Router \/ runCycle \/ Tick PROVE Mails
<1> USE DEF DeliveryInv, MailInv
<1>1. UNCHANGED <<inbox, handed, lost, collected>>
  BY DEF Router, RouterExpire, RouterList, RouterMark, runCycle, Tick, clientVars, history
<1>2. CASE RouterList \/ Tick \/ purgeInactiveSubscriptions
  BY <1>1, <1>2, MailSame DEF RouterList, Tick, purgeInactiveSubscriptions, db
<1>3. CASE RouterMark
  <2>1. PICK r \in router.rows : markDelivered(r)
    BY <1>3, PagesAreRows DEF RouterMark, TypeOK
  <2>2. r \in Row /\ r <= lastRow /\ ~ Direct(r)
    BY <2>1 DEF RouterInv, TypeOK
  <2>3. status[r] # "none" /\ msg[r].pattern = "event"
    BY <2>2 DEF SentInv, RowInv, Message, Pattern, Direct
  <2>4. Mail!Marked(r, "delivered") /\ UNCHANGED msg
    BY <2>1, <2>2, <2>3, MarkedDelivered
  <2>5. UNCHANGED <<[d \in Client |-> Kept(d)], collected>>
    BY <1>1, TakenSame
  <2>6. Mail!Settles(r)
    BY <2>3, <2>4, <2>5 DEF Mail!Settles
  <2> QED BY <2>2, <2>6 DEF Mails, Mail!Next
<1> QED BY <1>1, <1>2, <1>3, ExpireMails, PurgeMails
    DEF Router, RouterExpire, runCycle, gcStatement

(* However polls, calls, deadlines, the router, the collector and crashes   *)
(* interleave, what the clients see is a mailbox: a process takes a direct  *)
(* message of its address, once; who replies has taken the call; a call     *)
(* returns one reply, of the callee, or fails.                              *)
THEOREM IsAMailbox == Spec => ImplementsMailbox
<1>1. Init => Mail!Init
  BY DEF Init, Mail!Init, Kept
<1>2. TypeOK /\ DeliveryInv /\ MailInv /\ [Next]_vars => Mails
  <2> SUFFICES ASSUME TypeOK, DeliveryInv, MailInv, [Next]_vars PROVE Mails
    OBVIOUS
  <2>1. CASE UNCHANGED vars
    BY <2>1, MailSame DEF vars, db, history
  <2>2. ASSUME NEW c \in Client, ClientStep(c) PROVE Mails
    BY <2>2, SendMails, CallMails, PollMails, EventMails, HandlingMails DEF ClientStep
  <2>3. CASE Router \/ runCycle \/ Tick
    BY <2>3, DaemonMails
  <2> QED BY <2>1, <2>2, <2>3 DEF Next
<1>3. Spec => [][Mail!Next]_(Mail!mailVars)
  BY <1>2, MailCorrect, PTL DEF Spec, Mails
<1> QED BY <1>1, <1>3, PTL DEF Spec, ImplementsMailbox, Mail!Spec
=============================================================================
