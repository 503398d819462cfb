----------------------------- MODULE Switchboard -----------------------------
(***************************************************************************)
(* The switchboard: the durable message queue in switchboard.db, the       *)
(* client processes that send and poll, the router and the garbage         *)
(* collector of the daemon (apps/cli/src/lib/switchboard).                 *)
(*                                                                         *)
(* The processes share nothing but SQLite, where one statement is one      *)
(* atomic step.  A poll is a SELECT followed by one UPDATE per row, so     *)
(* the statements of different processes interleave; within one process    *)
(* JavaScript runs a poll to its end before anything else (`sync' below    *)
(* is that section), while the handlers it feeds run asynchronously and    *)
(* overlap with later polls.                                               *)
(*                                                                         *)
(* Abstracted: payloads, types and ids (a message is its rowid), wall      *)
(* clock time (a small counter `clock'), wakeups (polling happens anyway). *)
(***************************************************************************)
EXTENDS Naturals, FiniteSets

CONSTANTS
    Client,              \* client processes
    Address,             \* kind:id addresses
    AddressOf,           \* the address a client polls
    Topic,               \* event topics
    NoAddress, NoTopic,  \* SQL NULL in to_kind/to_id and in topic
    TTL,                 \* ttl_seconds of each pattern, in clock ticks
    DeliveredRetention, FailedRetention,   \* in clock ticks
    PollLimit, EventLimit, RouterLimit,    \* LIMIT of the three queries
    Casters, Callers, Publishers, Subscribers,  \* which clients do what
    Daemons,             \* which of "router" and "gc" the daemon runs
    MaxRow, MaxClock, MaxCrash             \* bounds of the model

Pattern == {"cast", "call", "reply", "event"}

ASSUME ConstantsAssumption ==
    /\ AddressOf \in [Client -> Address]
    /\ NoAddress \notin Address /\ NoTopic \notin Topic
    /\ TTL \in [Pattern -> Nat]
    /\ DeliveredRetention \in Nat /\ FailedRetention \in Nat
    /\ PollLimit \in Nat \ {0} /\ EventLimit \in Nat \ {0}
    /\ RouterLimit \in Nat \ {0}
    /\ {Casters, Callers, Publishers, Subscribers} \subseteq SUBSET Client
    /\ Daemons \subseteq {"router", "gc"}
    /\ MaxRow \in Nat /\ MaxClock \in Nat /\ MaxCrash \in Nat

VARIABLES
    msg,          \* messages table: the columns fixed at INSERT
    status,       \* messages.status; "none" before INSERT, "purged" after DELETE
    deliveredAt,  \* messages.delivered_at
    lastRow,      \* the AUTOINCREMENT counter
    clock,        \* wall clock
    subs,         \* subscriptions table
    cursor,       \* cursors table, keyed by address and topic
    sync,         \* the section of statements a client is in
    inbox,        \* rows a client polled and has not yet handed to onMessage
    handed,       \* rows a client handed to onMessage
    calls,        \* the row of the call a client is waiting on, 0 if none
    router,       \* where processMessages is, and the events it has to mark
    gcStep,       \* next statement of the garbage collector, 0 when it sleeps
    crashes,      \* bound on Crash
    audience,     \* history: who was subscribed when an event was published
    collected,    \* history: replies returned by call()
    lost          \* history: rows a client held when its process died

db == <<msg, status, deliveredAt, lastRow, subs, cursor>>
history == <<audience, collected, lost>>
vars == <<db, clock, sync, inbox, handed, calls, router, gcStep, crashes,
          history>>

Row == 1..MaxRow
Status == {"none", "pending", "delivered", "expired", "failed", "purged"}

Message == [pattern : Pattern, from : Address, to : Address \cup {NoAddress},
            topic : Topic \cup {NoTopic}, call : 0..MaxRow,
            created : 0..MaxClock]
NoMessage == [pattern |-> "none"]

Section(op, rows, topic, base) ==
    [op |-> op, rows |-> rows, topic |-> topic, base |-> base, rest |-> {}]
Idle == Section("none", {}, NoTopic, 0)
Sync == [op : {"none", "poll", "reply", "topics", "cursor", "advance",
               "subscribe"},
         rows : SUBSET Row, topic : Topic \cup {NoTopic}, base : Nat,
         rest : SUBSET Topic]

Present(r) == status[r] \notin {"none", "purged"}
Pending == {r \in Row : status[r] = "pending"}
PendingEvents(t, after) ==
    {r \in Pending : /\ msg[r].pattern = "event"
                     /\ msg[r].topic = t
                     /\ r > after}

(* ORDER BY rowid ASC LIMIT n and ORDER BY rowid DESC LIMIT n. *)
Oldest(S, n) == {r \in S : Cardinality({q \in S : q < r}) < n}
Newest(S, n) == {r \in S : Cardinality({q \in S : q > r}) < n}

(***************************************************************************)
(* Statements of SwitchboardDB.                                            *)
(***************************************************************************)

enqueue(m) ==
    /\ lastRow < MaxRow
    /\ lastRow' = lastRow + 1
    /\ msg' = [msg EXCEPT ![lastRow + 1] = m]
    /\ status' = [status EXCEPT ![lastRow + 1] = "pending"]
    /\ UNCHANGED <<deliveredAt, subs, cursor, clock>>

(* Mutants: the status filter forgotten; the sender's address queried.      *)
getPendingForAnyStatus(a, limit) ==
    Oldest({r \in Row : Present(r) /\ msg[r].to = a}, limit)
getPendingFromAddress(a, limit) ==
    Oldest({r \in Pending : msg[r].to # NoAddress /\ msg[r].from = a}, limit)

getPendingFor(a, limit) == Oldest({r \in Pending : msg[r].to = a}, limit)

getPendingEvents(t, after, limit) == Oldest(PendingEvents(t, after), limit)

getReply(call) ==
    Newest({r \in Row : /\ Present(r)
                        /\ msg[r].pattern = "reply"
                        /\ msg[r].call = call}, 1)

markDelivered(r) ==
    /\ status' = [status EXCEPT ![r] = IF Present(r) THEN "delivered" ELSE @]
    /\ deliveredAt' = [deliveredAt EXCEPT ![r] = IF Present(r) THEN clock ELSE @]
    /\ UNCHANGED <<msg, lastRow, subs, cursor, clock>>

markFailed(r) ==
    /\ status' = [status EXCEPT ![r] = IF Present(r) THEN "failed" ELSE @]
    /\ UNCHANGED <<msg, deliveredAt, lastRow, subs, cursor, clock>>

expireMessages ==
    /\ status' = [r \in Row |->
                    IF /\ status[r] = "pending"
                       /\ msg[r].created + TTL[msg[r].pattern] < clock
                    THEN "expired" ELSE status[r]]
    /\ UNCHANGED <<msg, deliveredAt, lastRow, subs, cursor, clock>>

Purge(S) ==
    /\ status' = [r \in Row |-> IF r \in S THEN "purged" ELSE status[r]]
    /\ UNCHANGED <<msg, deliveredAt, lastRow, subs, cursor, clock>>

purgeDelivered ==
    Purge({r \in Row : /\ status[r] = "delivered"
                       /\ deliveredAt[r] + DeliveredRetention <= clock})

purgeOld(s) ==
    Purge({r \in Row : /\ status[r] = s
                       /\ msg[r].created + FailedRetention <= clock})

(* The retention of 30 days is left open: any set of inactive ones may go. *)
purgeInactiveSubscriptions ==
    /\ \E gone \in SUBSET {p \in Address \X Topic : subs[p] = "inactive"} :
          subs' = [p \in Address \X Topic |->
                     IF p \in gone THEN "none" ELSE subs[p]]
    /\ UNCHANGED <<msg, status, deliveredAt, lastRow, cursor, clock>>

(***************************************************************************)
(* Sending.  A client runs one synchronous section at a time, so nothing   *)
(* of its own starts while sync is not idle.                               *)
(***************************************************************************)

Free(c) == sync[c] = Idle
clientVars == <<sync, inbox, handed, calls>>
daemonVars == <<router, gcStep>>

NewMessage(pattern, c, to, topic, call) ==
    [pattern |-> pattern, from |-> AddressOf[c], to |-> to, topic |-> topic,
     call |-> call, created |-> clock]

cast(c, to) ==
    /\ c \in Casters /\ Free(c)
    /\ enqueue(NewMessage("cast", c, to, NoTopic, 0))
    /\ UNCHANGED <<clientVars, daemonVars, crashes, history>>

reply(c, r) ==
    /\ Free(c)
    /\ r \in handed[c] /\ msg[r].pattern = "call"
    /\ enqueue(NewMessage("reply", c, msg[r].from, NoTopic, r))
    /\ UNCHANGED <<clientVars, daemonVars, crashes, history>>

publish(c, t) ==
    /\ c \in Publishers /\ Free(c)
    /\ enqueue(NewMessage("event", c, NoAddress, t, 0))
    /\ audience' = [audience EXCEPT ![lastRow + 1] =
                       {a \in Address : subs[<<a, t>>] = "active"}]
    /\ UNCHANGED <<clientVars, daemonVars, crashes, collected, lost>>

(* call() enqueues, then looks for the reply every pollMs until the         *)
(* deadline; between two looks the process runs its other work.             *)
call(c, to) ==
    /\ c \in Callers /\ Free(c) /\ calls[c] = 0
    /\ enqueue(NewMessage("call", c, to, NoTopic, 0))
    /\ calls' = [calls EXCEPT ![c] = lastRow + 1]
    /\ UNCHANGED <<sync, inbox, handed, daemonVars, crashes, history>>

CallSeesReply(c) ==
    /\ Free(c) /\ calls[c] # 0
    /\ getReply(calls[c]) # {}
    /\ sync' = [sync EXCEPT ![c] = Section("reply", getReply(calls[c]), NoTopic, 0)]
    /\ UNCHANGED <<db, clock, inbox, handed, calls, daemonVars, crashes,
                   history>>

(* Mutant: the deadline of a call that returned still runs. *)
CallReturnsAndWaits(c) ==
    /\ sync[c].op = "reply"
    /\ \E r \in sync[c].rows :
          /\ markDelivered(r)
          /\ collected' = collected \cup {r}
    /\ sync' = [sync EXCEPT ![c] = Idle]
    /\ UNCHANGED <<inbox, handed, calls, daemonVars, crashes, audience, lost>>

CallReturns(c) ==
    /\ sync[c].op = "reply"
    /\ \E r \in sync[c].rows :
          /\ markDelivered(r)
          /\ collected' = collected \cup {r}
    /\ sync' = [sync EXCEPT ![c] = Idle]
    /\ calls' = [calls EXCEPT ![c] = 0]
    /\ UNCHANGED <<inbox, handed, daemonVars, crashes, audience, lost>>

(* Mutant: the timed-out call stays awaited. *)
CallStaysAwaited(c) ==
    /\ Free(c) /\ calls[c] # 0
    /\ markFailed(calls[c])
    /\ UNCHANGED <<clientVars, daemonVars, crashes, history>>

(* The deadline passes during a sleep: there is no last look.               *)
CallTimesOut(c) ==
    /\ Free(c) /\ calls[c] # 0
    /\ markFailed(calls[c])
    /\ calls' = [calls EXCEPT ![c] = 0]
    /\ UNCHANGED <<sync, inbox, handed, daemonVars, crashes, history>>

(***************************************************************************)
(* Receiving: poll() reads the pending rows of the address, then marks     *)
(* them one after the other; the handlers run when all are marked.         *)
(***************************************************************************)

PollRead(c) ==
    LET rows == getPendingFor(AddressOf[c], PollLimit) IN
    /\ Free(c) /\ rows # {}
    /\ sync' = [sync EXCEPT ![c] = Section("poll", rows, NoTopic, 0)]
    /\ UNCHANGED <<db, clock, inbox, handed, calls, daemonVars, crashes,
                   history>>

PollMark(c) ==
    /\ sync[c].op = "poll"
    /\ \E r \in Oldest(sync[c].rows, 1) :
          /\ markDelivered(r)
          /\ inbox' = [inbox EXCEPT ![c] = @ \cup {r}]
          /\ sync' = [sync EXCEPT ![c] =
                        IF sync[c].rows = {r} THEN Idle
                        ELSE Section("poll", sync[c].rows \ {r}, NoTopic, 0)]
    /\ UNCHANGED <<handed, calls, daemonVars, crashes, history>>

(* pollEvents(): the active subscriptions, then for each of them, in some   *)
(* order, the cursor, the events after it, and the cursor moved on by the   *)
(* NUMBER of events read.  `rest' is what the loop still has to go through. *)
Onwards(rest) ==
    IF rest = {} THEN Idle
    ELSE [Section("topics", {}, NoTopic, 0) EXCEPT !.rest = rest]

EventsTopics(c) ==
    LET topics == {t \in Topic : subs[<<AddressOf[c], t>>] = "active"} IN
    /\ Free(c) /\ topics # {}
    /\ sync' = [sync EXCEPT ![c] = Onwards(topics)]
    /\ UNCHANGED <<db, clock, inbox, handed, calls, daemonVars, crashes,
                   history>>

EventsCursor(c, t) ==
    /\ sync[c].op = "topics" /\ t \in sync[c].rest
    /\ sync' = [sync EXCEPT ![c] =
                  [Section("cursor", {}, t, cursor[<<AddressOf[c], t>>])
                      EXCEPT !.rest = sync[c].rest \ {t}]]
    /\ UNCHANGED <<db, clock, inbox, handed, calls, daemonVars, crashes,
                   history>>

EventsRead(c) ==
    LET rows == getPendingEvents(sync[c].topic, sync[c].base, EventLimit) IN
    /\ sync[c].op = "cursor"
    /\ sync' = [sync EXCEPT ![c] =
                  IF rows = {} THEN Onwards(sync[c].rest)
                  ELSE [sync[c] EXCEPT !.op = "advance", !.rows = rows]]
    /\ UNCHANGED <<db, clock, inbox, handed, calls, daemonVars, crashes,
                   history>>

(* Mutant: the cursor jumps to the end of the log. *)
AdvanceToEnd(c) ==
    /\ sync[c].op = "advance"
    /\ cursor' = [cursor EXCEPT ![<<AddressOf[c], sync[c].topic>>] = lastRow]
    /\ inbox' = [inbox EXCEPT ![c] = @ \cup sync[c].rows]
    /\ sync' = [sync EXCEPT ![c] = Onwards(sync[c].rest)]
    /\ UNCHANGED <<msg, status, deliveredAt, lastRow, subs, clock, handed,
                   calls, daemonVars, crashes, history>>

advanceCursor(c) ==
    /\ sync[c].op = "advance"
    /\ cursor' = [cursor EXCEPT ![<<AddressOf[c], sync[c].topic>>] =
                    sync[c].base + Cardinality(sync[c].rows)]
    /\ inbox' = [inbox EXCEPT ![c] = @ \cup sync[c].rows]
    /\ sync' = [sync EXCEPT ![c] = Onwards(sync[c].rest)]
    /\ UNCHANGED <<msg, status, deliveredAt, lastRow, subs, clock, handed,
                   calls, daemonVars, crashes, history>>

(* onMessage takes a row; a handler that throws is swallowed, so it counts. *)
onMessage(c, r) ==
    /\ Free(c) /\ r \in inbox[c]
    /\ inbox' = [inbox EXCEPT ![c] = @ \ {r}]
    /\ handed' = [handed EXCEPT ![c] = @ \cup {r}]
    /\ UNCHANGED <<db, clock, sync, calls, daemonVars, crashes, history>>

(* subscribe() selects a row (`base' is whether there is one), then         *)
(* reactivates it by its id, which finds nothing when it was deleted in     *)
(* between, or inserts one, beside any inserted meanwhile: no constraint    *)
(* keeps them apart.  The rows of an address and topic count as one here,   *)
(* active when one of them is: a second row only repeats the poll.          *)
subscribe(c, t) ==
    /\ c \in Subscribers /\ Free(c)
    /\ sync' = [sync EXCEPT ![c] =
                  Section("subscribe", {}, t,
                          IF subs[<<AddressOf[c], t>>] = "none" THEN 0 ELSE 1)]
    /\ UNCHANGED <<db, clock, inbox, handed, calls, daemonVars, crashes,
                   history>>

SubscribeWrites(c) ==
    LET pair == <<AddressOf[c], sync[c].topic>> IN
    /\ sync[c].op = "subscribe"
    /\ subs' = IF sync[c].base = 1 /\ subs[pair] = "none" THEN subs
               ELSE [subs EXCEPT ![pair] = "active"]
    /\ sync' = [sync EXCEPT ![c] = Idle]
    /\ UNCHANGED <<msg, status, deliveredAt, lastRow, cursor, clock, inbox,
                   handed, calls, daemonVars, crashes, history>>

unsubscribe(c, t) ==
    /\ c \in Subscribers /\ Free(c)
    /\ subs[<<AddressOf[c], t>>] # "none"
    /\ subs' = [subs EXCEPT ![<<AddressOf[c], t>>] = "inactive"]
    /\ UNCHANGED <<msg, status, deliveredAt, lastRow, cursor, clock,
                   clientVars, daemonVars, crashes, history>>

(* The process dies and comes back: what it held in memory is gone.         *)
Crash(c) ==
    /\ crashes < MaxCrash
    /\ crashes' = crashes + 1
    /\ lost' = [lost EXCEPT ![c] = @ \cup inbox[c]]
    /\ sync' = [sync EXCEPT ![c] = Idle]
    /\ inbox' = [inbox EXCEPT ![c] = {}]
    /\ calls' = [calls EXCEPT ![c] = 0]
    /\ UNCHANGED <<db, clock, handed, daemonVars, audience, collected>>

(***************************************************************************)
(* The daemon.  The router's timer runs processMessages: expire, list the  *)
(* pending events newest first, mark each of them delivered.  (Its pass    *)
(* over direct messages only sends wakeups.)  The collector's timer runs   *)
(* five statements in a row.                                               *)
(***************************************************************************)

RouterExpire ==
    /\ "router" \in Daemons /\ router.pc = "idle"
    /\ expireMessages
    /\ router' = [router EXCEPT !.pc = "list"]
    /\ UNCHANGED <<clientVars, gcStep, crashes, history>>

(* Mutant: every pending message is listed, not the events alone. *)
RouterListsAll ==
    /\ router.pc = "list"
    /\ router' = [pc |-> IF Pending = {} THEN "idle" ELSE "mark",
                  rows |-> Newest(Pending, RouterLimit)]
    /\ UNCHANGED <<db, clock, clientVars, gcStep, crashes, history>>

RouterList ==
    LET rows == Newest({r \in Pending : msg[r].pattern = "event"}, RouterLimit)
    IN
    /\ router.pc = "list"
    /\ router' = [pc |-> IF rows = {} THEN "idle" ELSE "mark", rows |-> rows]
    /\ UNCHANGED <<db, clock, clientVars, gcStep, crashes, history>>

RouterMark ==
    /\ router.pc = "mark"
    /\ \E r \in Newest(router.rows, 1) :
          /\ markDelivered(r)
          /\ router' = [pc |-> IF router.rows = {r} THEN "idle" ELSE "mark",
                        rows |-> router.rows \ {r}]
    /\ UNCHANGED <<clientVars, gcStep, crashes, history>>

gcStatement ==
    \/ gcStep = 0 /\ expireMessages
    \/ gcStep = 1 /\ purgeDelivered
    \/ gcStep = 2 /\ purgeOld("expired")
    \/ gcStep = 3 /\ purgeOld("failed")
    \/ gcStep = 4 /\ purgeInactiveSubscriptions

(* Mutant: the step counter is never reset. *)
runCycleOnce ==
    /\ "gc" \in Daemons
    /\ gcStatement
    /\ gcStep' = gcStep + 1
    /\ UNCHANGED <<clientVars, router, crashes, history>>

runCycle ==
    /\ "gc" \in Daemons
    /\ gcStatement
    /\ gcStep' = (gcStep + 1) % 5
    /\ UNCHANGED <<clientVars, router, crashes, history>>

Tick ==
    /\ clock < MaxClock
    /\ clock' = clock + 1
    /\ UNCHANGED <<db, clientVars, daemonVars, crashes, history>>

(***************************************************************************)
(* Specification.                                                          *)
(***************************************************************************)

Init ==
    /\ msg = [r \in Row |-> NoMessage]
    /\ status = [r \in Row |-> "none"]
    /\ deliveredAt = [r \in Row |-> 0]
    /\ lastRow = 0
    /\ clock = 0
    /\ subs = [p \in Address \X Topic |-> "none"]
    /\ cursor = [p \in Address \X Topic |-> 0]
    /\ sync = [c \in Client |-> Idle]
    /\ inbox = [c \in Client |-> {}]
    /\ handed = [c \in Client |-> {}]
    /\ calls = [c \in Client |-> 0]
    /\ router = [pc |-> "idle", rows |-> {}]
    /\ gcStep = 0
    /\ crashes = 0
    /\ audience = [r \in Row |-> {}]
    /\ collected = {}
    /\ lost = [c \in Client |-> {}]

Send(c) ==
    \/ \E a \in Address : cast(c, a) \/ call(c, a)
    \/ \E r \in Row : reply(c, r)
    \/ \E t \in Topic : publish(c, t)

AwaitReply(c) == CallSeesReply(c) \/ CallReturns(c) \/ CallTimesOut(c)

PollEvents(c) ==
    \/ EventsTopics(c)
    \/ \E t \in Topic : EventsCursor(c, t)
    \/ EventsRead(c)
    \/ advanceCursor(c)

Deliver(c) == \E r \in Row : onMessage(c, r)

Membership(c) ==
    \/ \E t \in Topic : subscribe(c, t) \/ unsubscribe(c, t)
    \/ SubscribeWrites(c)

ClientStep(c) ==
    \/ Send(c) \/ AwaitReply(c) \/ PollRead(c) \/ PollMark(c)
    \/ PollEvents(c) \/ Deliver(c) \/ Membership(c) \/ Crash(c)

Router == RouterExpire \/ RouterList \/ RouterMark

Next == (\E c \in Client : ClientStep(c)) \/ Router \/ runCycle \/ Tick

Spec == Init /\ [][Next]_vars

(***************************************************************************)
(* The timers keep firing: a client goes on polling (doPollCycle polls the *)
(* direct messages first, so no other section can starve that poll: strong *)
(* fairness), a section that began ends, the router's timer fires.         *)
(***************************************************************************)
ClientFairness ==
    \A c \in Client : /\ SF_vars(PollRead(c))
                      /\ WF_vars(PollMark(c))
                      /\ SF_vars(Deliver(c))
                      /\ WF_vars(\E t \in Topic : EventsCursor(c, t))
                      /\ WF_vars(EventsRead(c))
                      /\ WF_vars(advanceCursor(c))
                      /\ WF_vars(CallReturns(c))
                      /\ WF_vars(SubscribeWrites(c))

Fairness == ClientFairness /\ WF_vars(Router)

FairSpec == Spec /\ Fairness

(***************************************************************************)
(* Properties.                                                             *)
(***************************************************************************)

StoreTypeOK ==
    /\ msg \in [Row -> Message \cup {NoMessage}]
    /\ status \in [Row -> Status]
    /\ deliveredAt \in [Row -> 0..MaxClock]
    /\ lastRow \in 0..MaxRow
    /\ clock \in 0..MaxClock
    /\ subs \in [Address \X Topic -> {"none", "active", "inactive"}]
    /\ cursor \in [Address \X Topic -> Nat]

TypeOK ==
    /\ StoreTypeOK
    /\ sync \in [Client -> Sync]
    /\ inbox \in [Client -> SUBSET Row]
    /\ handed \in [Client -> SUBSET Row]
    /\ calls \in [Client -> 0..MaxRow]
    /\ router \in [pc : {"idle", "list", "mark"}, rows : SUBSET Row]
    /\ gcStep \in 0..4
    /\ crashes \in 0..MaxCrash
    /\ audience \in [Row -> SUBSET Address]
    /\ collected \in SUBSET Row
    /\ lost \in [Client -> SUBSET Row]

Kept(c) == inbox[c] \cup handed[c] \cup lost[c]
Seen(a) == UNION {Kept(c) : c \in {d \in Client : AddressOf[d] = a}}
Direct(r) == msg[r].pattern \in {"cast", "call", "reply"}

(* However polls and handlers of a process overlap, and whatever the        *)
(* router, the collector and a crash do meanwhile, a process never polls a  *)
(* direct message again that it has already taken (client.ts poll marks     *)
(* before it returns, and nothing makes a row pending again).               *)
HandedAtMostOnce ==
    \A c \in Client : sync[c].op = "poll" => sync[c].rows \cap Kept(c) = {}

(* A direct message that is marked delivered is accounted for: some process *)
(* has it in its inbox, has handed it to onMessage or died with it, or a    *)
(* call() returned it.  No other step of any process marks it.              *)
DeliveredIsAccountedFor ==
    \A r \in Row : status[r] = "delivered" /\ Direct(r) =>
        r \in collected \/ \E c \in Client : r \in Kept(c)

(* A cursor never passes a pending event that no process of its address     *)
(* has read: pollEvents moves the cursor by the number of events read,      *)
(* which rowid gaps, crashes between the read and the move, and a second    *)
(* process on the same cursor never turn into a skipped event.              *)
NoEventSkipped ==
    \A a \in Address, t \in Topic :
        \A r \in PendingEvents(t, 0) : r <= cursor[<<a, t>>] => r \in Seen(a)

(* Its inductive strengthening.  Pending events up to n are Covered when a  *)
(* process of the address has read them, or `page' holds them; the page of  *)
(* a section covers what the cursor is about to be set to.                  *)
Covered(a, t, n, page) ==
    \A r \in PendingEvents(t, 0) : r <= n => r \in Seen(a) \cup page

LogInv == \A r \in Row : lastRow < r => status[r] = "none"

CursorInv ==
    \A a \in Address, t \in Topic :
        /\ cursor[<<a, t>>] <= lastRow
        /\ Covered(a, t, cursor[<<a, t>>], {})

SectionInv ==
    \A c \in Client :
        /\ sync[c].op = "cursor" =>
              /\ sync[c].topic \in Topic
              /\ sync[c].base <= lastRow
              /\ Covered(AddressOf[c], sync[c].topic, sync[c].base, {})
        /\ sync[c].op = "advance" =>
              LET next == sync[c].base + Cardinality(sync[c].rows) IN
              /\ sync[c].topic \in Topic
              /\ next \in Nat /\ next <= lastRow
              /\ Covered(AddressOf[c], sync[c].topic, next, sync[c].rows)

NoEventSkippedInv == LogInv /\ CursorInv /\ SectionInv

(* The call a client is waiting on is its own and has not been failed: only *)
(* its own deadline fails it, and then nobody waits for it any more.        *)
AwaitedCallIsLive ==
    \A c \in Client : calls[c] # 0 =>
        /\ msg[calls[c]].pattern = "call"
        /\ msg[calls[c]].from = AddressOf[c]
        /\ status[calls[c]] # "failed"

(* No step takes a message back to pending, deletes it while it is pending, *)
(* expires it after it was delivered, or fails it unless it is a call.      *)
StatusMovesForward ==
    [][\A r \in Row : status'[r] # status[r] =>
          \/ status[r] = "none" /\ status'[r] = "pending"
          \/ status[r] = "pending" /\ status'[r] \in {"delivered", "expired"}
          \/ status[r] \in {"expired", "failed"}
                /\ status'[r] \in {"delivered", "purged"}
          \/ status[r] = "delivered" /\ status'[r] = "purged"
          \/ status'[r] = "failed" /\ msg[r].pattern = "call"]_status

(* A direct message to an address some client polls does not stay pending:  *)
(* it reaches a handler of that address or a caller, dies with a process,   *)
(* or its TTL or the deadline of the call ends it.                          *)
Recipients(r) == {c \in Client : status[r] # "none" /\ AddressOf[c] = msg[r].to}
DirectMessageSettles ==
    \A r \in Row :
        (status[r] = "pending" /\ Recipients(r) # {})
        ~> \/ r \in collected
           \/ \E c \in Recipients(r) : r \in handed[c] \cup lost[c]
           \/ status[r] \in {"expired", "failed", "purged"}

(* An event does not stay pending while the router runs.                    *)
EventSettles ==
    \A r \in Row : (status[r] = "pending" /\ msg[r].pattern = "event")
                       ~> status[r] # "pending"

(* No message stays pending for ever: neither of the two kinds.             *)
MessageSettles == DirectMessageSettles /\ EventSettles

(* What the comments promise.                                               *)

(* "When an event message is published to a topic, all active subscribers   *)
(* receive a copy of the message" (types.ts:95), "subscribers read it via   *)
(* cursor-based polling" (router.ts:144): an event marked delivered was     *)
(* read by each address subscribed since before it was published.           *)
EventReachesSubscribers ==
    \A r \in Row : status[r] = "delivered" /\ msg[r].pattern = "event" =>
        \A a \in audience[r] :
            subs[<<a, msg[r].topic>>] = "active" =>
                r \in Seen(a) \cup UNION {sync[c].rows :
                          c \in {d \in Client : AddressOf[d] = a}}

(***************************************************************************)
(* What all of it promises, as a mailbox states it (Mailbox.tla): a poll    *)
(* takes a row when it marks it, pollEvents when it moves the cursor, and   *)
(* clocks, cursors, pages and the lists of the daemon are out of sight.     *)
(***************************************************************************)
Mail == INSTANCE Mailbox WITH letter <- msg, stage <- status,
                              taken <- [c \in Client |-> Kept(c)],
                              returned <- collected

(* However polls, calls, deadlines, the router, the collector and crashes   *)
(* interleave, a process takes a direct message of its address, once; who   *)
(* replies has taken the call; a call returns one reply, of the callee, or  *)
(* fails and then returns none; no row moves back or goes before its end.   *)
ImplementsMailbox == Mail!Spec
=============================================================================
