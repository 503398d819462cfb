---------------------------- MODULE GatewayProofs ----------------------------
(***************************************************************************)
(* What holds of the gateway for any number of users, messages, processes,  *)
(* starts and failures.                                                    *)
(***************************************************************************)
EXTENDS Gateway, SequenceTheorems, TLAPS

(***************************************************************************)
(* Types.                                                                  *)
(***************************************************************************)

Outcome == [start : 1..MaxStart, what : {"poked", "rejected", "failed"}]
Loop == [pc : {"loop", "asked", "update", "bind", "poked"}, running : BOOLEAN,
         start : 1..MaxStart, offset : 1..(MaxUpdate + 1),
         next : 1..(MaxUpdate + 1), last : 0..MaxUpdate]

Types == /\ update \in Seq(User) /\ Len(update) <= MaxUpdate
         /\ confirmed \in 0..Len(update)
         /\ gateway \in [Gateway -> Loop \cup {Off}]
         /\ starts \in 0..MaxStart
         /\ heard \in [Update -> Seq(Outcome)]

(***************************************************************************)
(* Every process has heard all that is below its offset and below the       *)
(* update it is at; and what has been heard was heard in order.  (The       *)
(* history and the number of updates are parameters: a step changes them.)  *)
(***************************************************************************)

Below(h, n) == \A j \in Update : j < n => h[j] # <<>>

InOrder(h) == \A i \in Update : h[i] # <<>> => Below(h, i)

AtUpdate(state) == state.pc \in {"update", "bind", "poked"}

Read(state, h, n) ==
    state.pc # "off" =>
        /\ state.offset <= n + 1 /\ Below(h, state.offset)
        /\ AtUpdate(state) => /\ state.next <= state.last /\ state.last <= n
                              /\ Below(h, state.next)
        /\ state.pc = "poked" => h[state.next] # <<>>

IInv ==
    /\ Types
    /\ Below(heard, confirmed + 1) /\ InOrder(heard)
    /\ \A g \in Gateway : Read(gateway[g], heard, Len(update))

LEMMA IInvInit == GatewayInit => IInv
<1> SUFFICES ASSUME GatewayInit PROVE IInv
  OBVIOUS
<1>1. Types
  BY GatewayAssumption DEF GatewayInit, Types
<1> QED BY <1>1 DEF GatewayInit, IInv, Below, InOrder, Read, Off, Update

LEMMA NextIsUpdate ==
    ASSUME NEW state \in Loop, NEW h, NEW n, Read(state, h, n), AtUpdate(state)
    PROVE  state.next \in Update
<1>1. state.pc # "off"
  BY DEF AtUpdate
<1>2. state.next <= state.last
  BY <1>1 DEF Read
<1>3. state.next \in 1..(MaxUpdate + 1) /\ state.last \in 0..MaxUpdate
  BY DEF Loop
<1> QED BY <1>2, <1>3, GatewayAssumption DEF Update

(* A process goes on, and the history at most grows.                        *)
LEMMA StepKeeps ==
    ASSUME IInv, NEW g \in Gateway, NEW state \in Loop \cup {Off}, Goes(g, state),
           UNCHANGED update, starts' \in 0..MaxStart,
           confirmed' \in 0..Len(update), Below(heard', confirmed' + 1),
           heard' \in [Update -> Seq(Outcome)], InOrder(heard'),
           \A i \in Update : Heard(i) => Heard(i)',
           Read(state, heard', Len(update))
    PROVE  IInv'
<1>1. gateway' = [gateway EXCEPT ![g] = state]
  BY DEF Goes
<1>2. Types'
  BY <1>1 DEF IInv, Types
<1>3. ASSUME NEW f \in Gateway, f # g PROVE Read(gateway'[f], heard', Len(update))
  <2>1. gateway'[f] = gateway[f] /\ gateway[f] \in Loop \cup {Off}
    BY <1>1, <1>3 DEF IInv, Types
  <2>2. CASE gateway[f] = Off
    BY <2>1, <2>2 DEF Read, Off
  <2>3. CASE gateway[f] \in Loop
    <3>1. Read(gateway[f], heard, Len(update))
      BY DEF IInv
    <3>2. AtUpdate(gateway[f]) => gateway[f].next \in Update
      BY <2>3, <3>1, NextIsUpdate
    <3> QED BY <2>1, <3>1, <3>2 DEF Read, Below, Heard, AtUpdate
  <2> QED BY <2>1, <2>2, <2>3
<1>4. gateway'[g] = state
  BY <1>1 DEF IInv, Types
<1>5. \A f \in Gateway : Read(gateway'[f], heard', Len(update))
  BY <1>3, <1>4
<1> QED BY <1>2, <1>5 DEF IInv

(* A process goes on and nothing is heard.                                  *)
LEMMA SilentStep ==
    ASSUME IInv, NEW g \in Gateway, NEW state \in Loop \cup {Off}, Goes(g, state),
           UNCHANGED <<update, confirmed, heard>>, starts' \in 0..MaxStart,
           Read(state, heard, Len(update))
    PROVE  IInv'
<1>1. /\ confirmed' \in 0..Len(update) /\ Below(heard', confirmed' + 1)
      /\ heard' \in [Update -> Seq(Outcome)] /\ InOrder(heard')
      /\ \A i \in Update : Heard(i) => Heard(i)'
  BY DEF IInv, Types, Heard
<1> QED BY <1>1, StepKeeps

LEMMA StateOf ==
    ASSUME IInv, NEW g \in Gateway, gateway[g].pc # "off"
    PROVE  gateway[g] \in Loop /\ Read(gateway[g], heard, Len(update))
BY DEF IInv, Types, Off

LEMMA StartsKeeps == ASSUME IInv, NEW g \in Gateway, Starts(g) PROVE IInv'
<1> DEFINE state == [pc |-> "loop", running |-> TRUE, start |-> starts + 1,
                     offset |-> 1, next |-> 1, last |-> 0]
<1>1. starts + 1 \in 1..MaxStart /\ starts' = starts + 1
  BY GatewayAssumption DEF Starts, IInv, Types
<1>2. state \in Loop
  BY <1>1, GatewayAssumption DEF Loop
<1>3. Goes(g, state)
  BY <1>1 DEF Starts
<1>4. Read(state, heard, Len(update))
  BY DEF Read, AtUpdate, Below, Update, IInv, Types
<1>5. UNCHANGED <<update, confirmed, heard>> /\ starts' \in 0..MaxStart
  BY <1>1 DEF Starts
<1> HIDE DEF state
<1> QED BY <1>2, <1>3, <1>4, <1>5, SilentStep

(* Telegram may forget what is below the offset: it was heard.              *)
LEMMA AsksKeeps == ASSUME IInv, NEW g \in Gateway, Asks(g) PROVE IInv'
<1> DEFINE state == [gateway[g] EXCEPT !.pc = "asked"]
<1>1. gateway[g] \in Loop /\ Read(gateway[g], heard, Len(update))
  BY StateOf DEF Asks
<1>2. state \in Loop /\ Read(state, heard, Len(update))
  BY <1>1 DEF Loop, Read, Asks, AtUpdate
<1>3. Goes(g, state)
  BY DEF Asks, At
<1>4. confirmed' \in 0..Len(update) /\ Below(heard, confirmed' + 1)
  <2>1. gateway[g].offset \in 1..(Len(update) + 1) /\ Below(heard, gateway[g].offset)
    BY <1>1 DEF Loop, Read, Asks, IInv, Types
  <2> QED BY <2>1 DEF Asks, IInv, Types
<1>5. /\ UNCHANGED <<update, heard>> /\ starts' \in 0..MaxStart
      /\ heard' \in [Update -> Seq(Outcome)] /\ InOrder(heard')
      /\ \A i \in Update : Heard(i) => Heard(i)'
  BY DEF Asks, IInv, Types, Heard
<1> HIDE DEF state
<1> QED BY <1>2, <1>3, <1>4, <1>5, StepKeeps

LEMMA AnsweredKeeps == ASSUME IInv, NEW g \in Gateway, Answered(g) PROVE IInv'
<1> DEFINE first == IF gateway[g].offset > confirmed THEN gateway[g].offset
                    ELSE confirmed + 1
           state == [gateway[g] EXCEPT !.next = first, !.last = Len(update),
                        !.pc = IF first <= Len(update) THEN "update" ELSE "loop"]
<1>1. gateway[g] \in Loop /\ Read(gateway[g], heard, Len(update))
  BY StateOf DEF Answered
<1>2. /\ gateway[g].offset \in 1..(Len(update) + 1)
      /\ Below(heard, gateway[g].offset)
  BY <1>1 DEF Loop, Read, Answered, IInv, Types
<1>3. confirmed \in 0..Len(update) /\ Len(update) \in 0..MaxUpdate
  BY GatewayAssumption DEF IInv, Types
<1>4. first \in 1..(Len(update) + 1) /\ Below(heard, first)
  BY <1>2, <1>3 DEF IInv
<1>5. state \in Loop
  <2>1. first \in 1..(MaxUpdate + 1)
    BY <1>3, <1>4, GatewayAssumption
  <2>2. (IF first <= Len(update) THEN "update" ELSE "loop")
          \in {"loop", "asked", "update", "bind", "poked"}
    OBVIOUS
  <2> HIDE DEF first
  <2> QED BY <1>1, <1>3, <2>1, <2>2 DEF Loop
<1>6. Read(state, heard, Len(update))
  <2> HIDE DEF first
  <2>1. state.offset = gateway[g].offset /\ state.next = first
        /\ state.last = Len(update)
        /\ state.pc = IF first <= Len(update) THEN "update" ELSE "loop"
    BY <1>1 DEF Loop
  <2> QED BY <1>2, <1>3, <1>4, <2>1 DEF Read, AtUpdate
<1>7. Goes(g, state) /\ UNCHANGED <<update, confirmed, heard>> /\ starts' \in 0..MaxStart
  BY DEF Answered, IInv, Types
<1> HIDE DEF state
<1> QED BY <1>5, <1>6, <1>7, SilentStep

(* What has heard its update goes beyond it.                                *)
LEMMA AdvancedReads ==
    ASSUME NEW state \in Loop, NEW h, NEW n \in 0..MaxUpdate, Read(state, h, n),
           AtUpdate(state), h[state.next] # <<>>
    PROVE  Advanced(state) \in Loop /\ Read(Advanced(state), h, n)
<1> DEFINE after == Advanced(state)
<1>1. /\ state.next <= state.last /\ state.last <= n /\ Below(h, state.next)
      /\ state.next \in 1..MaxUpdate /\ state.last \in 0..MaxUpdate
  <2>1. state.pc # "off"
    BY DEF AtUpdate
  <2>2. state.next \in Update
    BY NextIsUpdate
  <2> QED BY <2>1, <2>2 DEF Read, Loop, Update
<1>2. /\ after.offset = state.next + 1 /\ after.next = state.next + 1
      /\ after.last = state.last
      /\ after.pc = IF state.next < state.last THEN "update" ELSE "loop"
  BY DEF Advanced, Loop
<1>3. after \in Loop
  <2>1. state.next + 1 \in 1..(MaxUpdate + 1)
    BY <1>1, GatewayAssumption
  <2>2. (IF state.next < state.last THEN "update" ELSE "loop")
          \in {"loop", "asked", "update", "bind", "poked"}
    OBVIOUS
  <2> QED BY <2>1, <2>2 DEF Advanced, Loop
<1>4. Below(h, state.next + 1)
  BY <1>1 DEF Below, Update
<1>5. Read(after, h, n)
  <2> HIDE DEF after
  <2> QED BY <1>1, <1>2, <1>4 DEF Read, AtUpdate
<1> QED BY <1>3, <1>5

(* What the process at an update hears keeps the order.                     *)
LEMMA HearsInOrder ==
    ASSUME IInv, NEW g \in Gateway, AtUpdate(gateway[g]),
           NEW what \in {"poked", "rejected", "failed"}, Hears(g, what)
    PROVE  /\ heard' \in [Update -> Seq(Outcome)]
           /\ \A i \in Update : Heard(i) => Heard(i)'
           /\ InOrder(heard')
           /\ heard'[gateway[g].next] # <<>>
           /\ Read(gateway[g], heard', Len(update))
           /\ Below(heard', confirmed + 1)
<1> DEFINE k == gateway[g].next
           told == [start |-> gateway[g].start, what |-> what]
<1>1. gateway[g] \in Loop /\ Read(gateway[g], heard, Len(update))
  BY StateOf DEF AtUpdate
<1>2. k \in Update
  BY <1>1, NextIsUpdate
<1>3. Below(heard, k)
  BY <1>1 DEF Read, AtUpdate
<1>4. told \in Outcome
  BY <1>1 DEF Loop, Outcome
<1>5. heard' = [heard EXCEPT ![k] = Append(heard[k], told)]
  BY DEF Hears
<1>6. heard \in [Update -> Seq(Outcome)]
  BY DEF IInv, Types
<1> HIDE DEF k, told
<1>7. heard[k] \in Seq(Outcome)
  BY <1>2, <1>6
<1>8. Append(heard[k], told) \in Seq(Outcome) /\ Append(heard[k], told) # <<>>
  BY <1>4, <1>7, AppendProperties
<1>9. /\ heard' \in [Update -> Seq(Outcome)] /\ heard'[k] # <<>>
      /\ \A i \in Update : i # k => heard'[i] = heard[i]
  BY <1>2, <1>5, <1>6, <1>8
<1>10. \A i \in Update : heard[i] # <<>> => heard'[i] # <<>>
  BY <1>9
<1>11. \A n : Below(heard, n) => Below(heard', n)
  BY <1>10 DEF Below
<1>12. InOrder(heard')
  BY <1>3, <1>9, <1>11 DEF InOrder, IInv
<1>13. Read(gateway[g], heard', Len(update))
  BY <1>1, <1>9, <1>11 DEF Read, k
<1> QED BY <1>9, <1>10, <1>11, <1>12, <1>13 DEF Heard, IInv, k

LEMMA HearsKeeps ==
    ASSUME IInv, NEW g \in Gateway, AtUpdate(gateway[g]),
           NEW what \in {"poked", "rejected", "failed"}, Hears(g, what),
           \/ Goes(g, Advanced(gateway[g]))
           \/ gateway[g].pc = "update" /\ At(g, "poked"),
           UNCHANGED <<update, confirmed, starts>>
    PROVE  IInv'
<1>1. /\ heard' \in [Update -> Seq(Outcome)] /\ InOrder(heard')
      /\ \A i \in Update : Heard(i) => Heard(i)'
      /\ heard'[gateway[g].next] # <<>> /\ Below(heard', confirmed' + 1)
      /\ Read(gateway[g], heard', Len(update))
  BY HearsInOrder
<1>2. gateway[g] \in Loop
  BY StateOf DEF AtUpdate
<1>3. Len(update) \in 0..MaxUpdate /\ starts' \in 0..MaxStart
      /\ confirmed' \in 0..Len(update)
  BY GatewayAssumption DEF IInv, Types
<1>4. CASE Goes(g, Advanced(gateway[g]))
  <2>1. Advanced(gateway[g]) \in Loop /\ Read(Advanced(gateway[g]), heard', Len(update))
    BY <1>1, <1>2, <1>3, AdvancedReads
  <2> QED BY <1>1, <1>3, <1>4, <2>1, StepKeeps
<1>5. CASE gateway[g].pc = "update" /\ At(g, "poked")
  <2> DEFINE state == [gateway[g] EXCEPT !.pc = "poked"]
  <2>1. /\ state \in Loop /\ state.next = gateway[g].next
        /\ state.offset = gateway[g].offset /\ state.last = gateway[g].last
    BY <1>2 DEF Loop
  <2>2. Read(state, heard', Len(update))
    BY <1>1, <1>5, <2>1 DEF Read, AtUpdate
  <2>3. Goes(g, state)
    BY <1>5 DEF At
  <2> HIDE DEF state
  <2> QED BY <1>1, <1>3, <2>1, <2>2, <2>3, StepKeeps
<1> QED BY <1>4, <1>5

LEMMA PokeReturnsKeeps ==
    ASSUME IInv, NEW g \in Gateway, PokeReturns(g) PROVE IInv'
<1>1. gateway[g] \in Loop /\ Read(gateway[g], heard, Len(update))
  BY StateOf DEF PokeReturns
<1>2. AtUpdate(gateway[g]) /\ heard[gateway[g].next] # <<>>
  BY <1>1 DEF PokeReturns, Read, AtUpdate
<1>3. Len(update) \in 0..MaxUpdate
  BY GatewayAssumption DEF IInv, Types
<1>4. Advanced(gateway[g]) \in Loop /\ Read(Advanced(gateway[g]), heard, Len(update))
  BY <1>1, <1>2, <1>3, AdvancedReads
<1>5. /\ Goes(g, Advanced(gateway[g])) /\ UNCHANGED <<update, confirmed, heard>>
      /\ starts' \in 0..MaxStart
  BY DEF PokeReturns, IInv, Types
<1> QED BY <1>4, <1>5, SilentStep

(* A process changes its place without hearing, or ends.                    *)
LEMMA MovesKeep ==
    ASSUME IInv, NEW g \in Gateway,
           BacksOff(g) \/ FindsNoRoute(g) \/ upsertMessagingRoute(g) \/ Stops(g)
    PROVE  IInv'
<1> DEFINE state == [gateway[g] EXCEPT !.running = FALSE]
           moved(pc) == [gateway[g] EXCEPT !.pc = pc]
<1>1. gateway[g] \in Loop /\ Read(gateway[g], heard, Len(update))
  BY StateOf DEF BacksOff, FindsNoRoute, upsertMessagingRoute, Stops
<1>2. UNCHANGED <<update, confirmed, heard>> /\ starts' \in 0..MaxStart
  BY DEF BacksOff, FindsNoRoute, upsertMessagingRoute, Stops, IInv, Types
<1>3. CASE Stops(g)
  <2>1. state \in Loop /\ Read(state, heard, Len(update))
    BY <1>1 DEF Loop, Read, AtUpdate
  <2>2. Goes(g, state)
    BY <1>3 DEF Stops
  <2> HIDE DEF state
  <2> QED BY <1>2, <2>1, <2>2, SilentStep
<1>4. CASE BacksOff(g)
  <2>1. moved("loop") \in Loop /\ Read(moved("loop"), heard, Len(update))
    BY <1>1, <1>4 DEF Loop, Read, AtUpdate, BacksOff
  <2>2. Goes(g, moved("loop"))
    BY <1>4 DEF BacksOff, At
  <2> HIDE DEF moved
  <2> QED BY <1>2, <2>1, <2>2, SilentStep
<1>5. CASE FindsNoRoute(g)
  <2>1. moved("bind") \in Loop /\ Read(moved("bind"), heard, Len(update))
    BY <1>1, <1>5 DEF Loop, Read, AtUpdate, FindsNoRoute
  <2>2. Goes(g, moved("bind"))
    BY <1>5 DEF FindsNoRoute, At
  <2> HIDE DEF moved
  <2> QED BY <1>2, <2>1, <2>2, SilentStep
<1>6. CASE upsertMessagingRoute(g)
  <2>1. moved("update") \in Loop /\ Read(moved("update"), heard, Len(update))
    BY <1>1, <1>6 DEF Loop, Read, AtUpdate, upsertMessagingRoute
  <2>2. Goes(g, moved("update"))
    BY <1>6 DEF upsertMessagingRoute, At
  <2> HIDE DEF moved
  <2> QED BY <1>2, <2>1, <2>2, SilentStep
<1> QED BY <1>3, <1>4, <1>5, <1>6

LEMMA EndsKeep == ASSUME IInv, NEW g \in Gateway, Exits(g) \/ Dies(g) PROVE IInv'
<1>1. Goes(g, Off) /\ Off \in Loop \cup {Off} /\ Read(Off, heard, Len(update))
  BY DEF Exits, Dies, Off, Read
<1>2. UNCHANGED <<update, confirmed, heard>> /\ starts' \in 0..MaxStart
  BY DEF Exits, Dies, IInv, Types
<1> QED BY <1>1, <1>2, SilentStep

(* A new message leaves everything else as it is.                           *)
LEMMA WritesKeeps == ASSUME IInv, NEW u \in User, Writes(u) PROVE IInv'
<1>1. update \in Seq(User) /\ update' = Append(update, u)
  BY DEF Writes, IInv, Types
<1>2. update' \in Seq(User) /\ Len(update') = Len(update) + 1
  BY <1>1, AppendProperties
<1>3. Len(update) \in 0..MaxUpdate /\ Len(update) < MaxUpdate
  BY GatewayAssumption DEF Writes, IInv, Types
<1>4. Types'
  BY <1>2, <1>3, GatewayAssumption DEF Types, IInv, Writes
<1>5. \A g \in Gateway : Read(gateway[g], heard, Len(update) + 1)
  <2> SUFFICES ASSUME NEW g \in Gateway PROVE Read(gateway[g], heard, Len(update) + 1)
    OBVIOUS
  <2>1. Read(gateway[g], heard, Len(update)) /\ gateway[g] \in Loop \cup {Off}
    BY DEF IInv, Types
  <2> QED BY <1>3, <2>1 DEF Read, Loop, Off, AtUpdate
<1> QED BY <1>2, <1>4, <1>5 DEF IInv, Writes

LEMMA IInvStep == IInv /\ [GatewayNext]_gatewayVars => IInv'
<1> SUFFICES ASSUME IInv, [GatewayNext]_gatewayVars PROVE IInv'
  OBVIOUS
<1>1. ASSUME NEW g \in Gateway, RunsLoop(g) PROVE IInv'
  <2>1. CASE Rejects(g) \/ Pokes(g) \/ HandlerFails(g)
    <3>1. AtUpdate(gateway[g])
      BY <2>1 DEF AtUpdate, Rejects, Pokes, HandlerFails
    <3>2. PICK what \in {"poked", "rejected", "failed"} : Hears(g, what)
      BY <2>1 DEF Rejects, Pokes, HandlerFails
    <3>3. /\ \/ Goes(g, Advanced(gateway[g]))
             \/ gateway[g].pc = "update" /\ At(g, "poked")
          /\ UNCHANGED <<update, confirmed, starts>>
      BY <2>1 DEF Rejects, Pokes, HandlerFails
    <3> QED BY <3>1, <3>2, <3>3, HearsKeeps
  <2> QED BY <1>1, <2>1, AsksKeeps, AnsweredKeeps, MovesKeep, EndsKeep,
             PokeReturnsKeeps DEF RunsLoop
<1>2. ASSUME NEW g \in Gateway, Starts(g) \/ Stops(g) \/ Dies(g) PROVE IInv'
  BY <1>2, StartsKeeps, MovesKeep, EndsKeep
<1>3. ASSUME NEW u \in User, Writes(u) PROVE IInv'
  BY <1>3, WritesKeeps
<1>4. CASE UNCHANGED gatewayVars
  BY <1>4 DEF gatewayVars, IInv, Types
<1> QED BY <1>1, <1>2, <1>3, <1>4 DEF GatewayNext

(* Telegram never forgets an update that no process has made something of,  *)
(* and none is heard before an earlier one, whatever dies, is stopped or    *)
(* runs beside another.                                                    *)
THEOREM UpdatesAreHeard == GatewaySpec => []NothingSkipped
<1>1. IInv => NothingSkipped
  <2> SUFFICES ASSUME IInv, NEW i \in Update, i <= confirmed \/ Heard(i),
                      NEW j \in 1..i
               PROVE  Heard(j)
    BY DEF NothingSkipped
  <2>1. j \in Update /\ confirmed \in Nat
    BY GatewayAssumption DEF Update, IInv, Types
  <2>2. CASE i <= confirmed
    BY <2>1, <2>2 DEF IInv, Below, Heard, Update
  <2>3. CASE Heard(i)
    BY <2>1, <2>3 DEF IInv, InOrder, Below, Heard, Update
  <2> QED BY <2>2, <2>3
<1> QED BY <1>1, IInvInit, IInvStep, PTL DEF GatewaySpec

(***************************************************************************)
(* No start hears an update twice: what it has heard lies below the place   *)
(* it is at, and no two starts have the same number.                        *)
(***************************************************************************)

Place(state) == IF state.pc = "poked" THEN state.next + 1
                ELSE IF state.pc \in {"update", "bind"} THEN state.next
                ELSE state.offset

HeardBy(h, i, s) == \E m \in DOMAIN h[i] : h[i][m].start = s

On(g) == gateway[g].pc # "off"

Numbers ==
    /\ \A i \in Update, s \in 1..MaxStart : HeardBy(heard, i, s) => s <= starts
    /\ \A g \in Gateway : On(g) => gateway[g].start <= starts
    /\ \A f, g \in Gateway :
          On(f) /\ On(g) /\ gateway[f].start = gateway[g].start => f = g

Places ==
    \A g \in Gateway, i \in Update :
        On(g) /\ i >= Place(gateway[g]) => ~ HeardBy(heard, i, gateway[g].start)

Once == Numbers /\ Places /\ HeardOncePerStart

LEMMA OnceInit == GatewayInit => Once
  BY DEF GatewayInit, Once, Numbers, Places, On, Off, HeardBy, HeardOncePerStart, Update

LEMMA OnceSilent ==
    ASSUME IInv, Once, NEW g \in Gateway, NEW state, Goes(g, state),
           UNCHANGED <<starts, heard>>,
           state.pc # "off" =>
               /\ On(g) /\ state.start = gateway[g].start
               /\ \A i \in Update : i >= Place(state) => i >= Place(gateway[g])
    PROVE  Once'
<1>1. \A f \in Gateway : f # g => gateway'[f] = gateway[f]
  BY DEF Goes, IInv, Types
<1>2. gateway'[g] = state
  BY DEF Goes, IInv, Types
<1>3. Numbers'
  BY <1>1, <1>2 DEF Once, Numbers, On, HeardBy
<1>4. Places'
  <2> SUFFICES ASSUME NEW f \in Gateway, NEW i \in Update, On(f)',
                      i >= Place(gateway[f])'
               PROVE  ~ HeardBy(heard, i, gateway'[f].start)
    BY DEF Places, HeardBy
  <2>1. CASE f # g
    BY <1>1, <2>1 DEF Once, Places, On, Place
  <2>2. CASE f = g
    <3>1. i >= Place(state) /\ state.pc # "off"
      BY <1>2, <2>2 DEF On, Place
    <3> QED BY <1>2, <2>2, <3>1 DEF Once, Places
  <2> QED BY <2>1, <2>2
<1> QED BY <1>3, <1>4 DEF Once, HeardOncePerStart

LEMMA OnceStarts == ASSUME IInv, Once, NEW g \in Gateway, Starts(g) PROVE Once'
<1>1. starts \in Nat /\ starts' = starts + 1 /\ heard' = heard
  BY DEF Starts, IInv, Types
<1>2. \A f \in Gateway : f # g => gateway'[f] = gateway[f]
  BY DEF Starts, Goes, IInv, Types
<1>3. gateway'[g].start = starts + 1
  BY <1>1 DEF Starts, Goes, IInv, Types
<1>4. \A f \in Gateway : f # g /\ On(f)' =>
        On(f) /\ gateway'[f].start \in Nat /\ gateway'[f].start <= starts
  BY <1>2, StateOf DEF Once, Numbers, On, Loop
<1>5. \A i \in Update : ~ HeardBy(heard, i, starts + 1)
  BY <1>1, GatewayAssumption DEF Once, Numbers, Starts
<1>6. Numbers'
  <2>1. \A f \in Gateway : On(f)' => gateway'[f].start <= starts'
    BY <1>1, <1>3, <1>4
  <2>2. \A i \in Update, s \in 1..MaxStart : HeardBy(heard', i, s) => s <= starts'
    BY <1>1 DEF Once, Numbers
  <2>3. \A e, f \in Gateway : On(e)' /\ On(f)' /\ gateway'[e].start = gateway'[f].start
          => e = f
    <3> SUFFICES ASSUME NEW e \in Gateway, NEW f \in Gateway, On(e)', On(f)',
                        gateway'[e].start = gateway'[f].start
                 PROVE  e = f
      OBVIOUS
    <3>1. CASE e = g \/ f = g
      BY <1>1, <1>3, <1>4, <3>1
    <3>2. CASE e # g /\ f # g
      BY <1>2, <1>4, <3>2 DEF Once, Numbers
    <3> QED BY <3>1, <3>2
  <2> QED BY <2>1, <2>2, <2>3 DEF Numbers, HeardBy
<1>7. Places'
  <2> SUFFICES ASSUME NEW f \in Gateway, NEW i \in Update, On(f)',
                      i >= Place(gateway[f])'
               PROVE  ~ HeardBy(heard, i, gateway'[f].start)
    BY <1>1 DEF Places, HeardBy
  <2>1. CASE f # g
    BY <1>2, <1>4, <2>1 DEF Once, Places, Place
  <2>2. CASE f = g
    BY <1>3, <1>5, <2>2
  <2> QED BY <2>1, <2>2
<1> QED BY <1>1, <1>6, <1>7 DEF Once, HeardOncePerStart

LEMMA OnceHears ==
    ASSUME IInv, Once, NEW g \in Gateway, gateway[g].pc \in {"update", "bind"},
           NEW what, Hears(g, what), NEW state, Goes(g, state), UNCHANGED starts,
           state.pc # "off", state.start = gateway[g].start,
           \A i \in Update : i >= Place(state) => i > gateway[g].next
    PROVE  Once'
<1> DEFINE k == gateway[g].next
           own == gateway[g].start
           told == [start |-> own, what |-> what]
<1>1. gateway[g] \in Loop /\ Read(gateway[g], heard, Len(update)) /\ AtUpdate(gateway[g])
  BY StateOf DEF AtUpdate
<1>2. k \in Update /\ own \in 1..MaxStart
  BY <1>1, NextIsUpdate DEF Loop
<1>3. heard \in [Update -> Seq(Outcome)] /\ heard[k] \in Seq(Outcome)
  BY <1>2 DEF IInv, Types
<1>4. heard' = [heard EXCEPT ![k] = Append(heard[k], told)]
  BY DEF Hears
<1>5. ~ HeardBy(heard, k, own)
  BY <1>1, <1>2 DEF Once, Places, On, Place, Update
<1>6. told.start = own
  OBVIOUS
<1>7. On(g) /\ own <= starts
  BY DEF On, Once, Numbers
<1> HIDE DEF k, own, told
<1>8. /\ \A i \in Update : i # k => heard'[i] = heard[i]
      /\ heard'[k] = Append(heard[k], told)
  BY <1>2, <1>3, <1>4
<1>9. /\ DOMAIN heard'[k] = 1..(Len(heard[k]) + 1) /\ DOMAIN heard[k] = 1..Len(heard[k])
      /\ Len(heard[k]) \in Nat
      /\ \A m \in 1..Len(heard[k]) : heard'[k][m] = heard[k][m]
      /\ heard'[k][Len(heard[k]) + 1] = told
  BY <1>3, <1>8, AppendProperties, LenProperties
<1>10. \A i \in Update : \A r : HeardBy(heard', i, r) =>
          HeardBy(heard, i, r) \/ (i = k /\ r = own)
  <2> SUFFICES ASSUME NEW i \in Update, NEW r, NEW m \in DOMAIN heard'[i],
                      heard'[i][m].start = r
               PROVE  HeardBy(heard, i, r) \/ (i = k /\ r = own)
    BY DEF HeardBy
  <2>1. CASE i # k
    BY <1>8, <2>1 DEF HeardBy
  <2>2. CASE i = k
    <3>1. m \in 1..Len(heard[k]) \/ m = Len(heard[k]) + 1
      BY <1>9, <2>2
    <3> QED BY <1>6, <1>9, <2>2, <3>1 DEF HeardBy
  <2> QED BY <2>1, <2>2
<1>11. \A f \in Gateway : f # g => gateway'[f] = gateway[f]
  BY DEF Goes, IInv, Types
<1>12. gateway'[g] = state /\ state.start = own
  BY DEF Goes, IInv, Types, own
<1>13. \A f \in Gateway : On(f)' => On(f) /\ gateway'[f].start = gateway[f].start
  BY <1>7, <1>11, <1>12 DEF On, own
<1>14. Numbers'
  BY <1>7, <1>10, <1>13 DEF Once, Numbers
<1>15. Places'
  <2> SUFFICES ASSUME NEW f \in Gateway, NEW i \in Update, On(f)',
                      i >= Place(gateway[f])', HeardBy(heard', i, gateway'[f].start)
               PROVE  FALSE
    BY DEF Places, HeardBy
  <2>1. CASE f # g
    <3>1. ~ HeardBy(heard, i, gateway[f].start)
      BY <1>11, <1>13, <2>1 DEF Once, Places, Place
    <3>2. gateway[f].start = own
      BY <1>10, <1>13, <3>1
    <3> QED BY <1>7, <1>13, <2>1, <3>2 DEF Once, Numbers, own
  <2>2. CASE f = g
    <3>1. i > k
      BY <1>12, <2>2 DEF Place, k
    <3>2. i >= k /\ i # k
      BY <1>2, <3>1 DEF Update
    <3>3. ~ HeardBy(heard, i, own)
      BY <1>1, <1>7, <3>2 DEF Once, Places, Place, k, own
    <3> QED BY <1>10, <1>12, <2>2, <3>2, <3>3
  <2> QED BY <2>1, <2>2
<1>16. HeardOncePerStart'
  <2> SUFFICES ASSUME NEW i \in Update, NEW m \in DOMAIN heard'[i],
                      NEW n \in DOMAIN heard'[i],
                      heard'[i][m].start = heard'[i][n].start
               PROVE  m = n
    BY DEF HeardOncePerStart
  <2>1. CASE i # k
    BY <1>8, <2>1 DEF Once, HeardOncePerStart
  <2>2. CASE i = k
    <3>1. \A l \in 1..Len(heard[k]) : heard[k][l].start # own
      BY <1>5, <1>9 DEF HeardBy
    <3>2. CASE m \in 1..Len(heard[k]) /\ n \in 1..Len(heard[k])
      BY <1>2, <1>9, <2>2, <3>2 DEF Once, HeardOncePerStart
    <3>3. CASE m = Len(heard[k]) + 1 /\ n \in 1..Len(heard[k])
      BY <1>6, <1>9, <2>2, <3>1, <3>3
    <3>4. CASE n = Len(heard[k]) + 1 /\ m \in 1..Len(heard[k])
      BY <1>6, <1>9, <2>2, <3>1, <3>4
    <3> QED BY <1>9, <2>2, <3>2, <3>3, <3>4
  <2> QED BY <2>1, <2>2
<1> QED BY <1>14, <1>15, <1>16 DEF Once

LEMMA OnceLoop == ASSUME IInv, Once, NEW g \in Gateway, RunsLoop(g) PROVE Once'
<1>1. gateway[g] \in Loop
  BY StateOf DEF RunsLoop, Asks, Answered, BacksOff, Exits, Rejects, FindsNoRoute,
                 upsertMessagingRoute, Pokes, PokeReturns, HandlerFails
<1>2. On(g)
  BY <1>1 DEF On, Loop
<1> DEFINE moved(pc) == [gateway[g] EXCEPT !.pc = pc]
<1>3. \A pc : /\ moved(pc).pc = pc /\ moved(pc).start = gateway[g].start
              /\ moved(pc).offset = gateway[g].offset
              /\ moved(pc).next = gateway[g].next
  BY <1>1 DEF Loop
<1>4. LET after == Advanced(gateway[g]) IN
      /\ after.pc \in {"update", "loop"} /\ after.start = gateway[g].start
      /\ Place(after) = gateway[g].next + 1 /\ gateway[g].next \in Nat
  BY <1>1, GatewayAssumption DEF Advanced, Loop, Place
<1>5. CASE Asks(g) \/ BacksOff(g) \/ FindsNoRoute(g) \/ upsertMessagingRoute(g)
  <2>1. PICK pc \in {"asked", "loop", "bind", "update"} :
          /\ Goes(g, moved(pc)) /\ UNCHANGED <<starts, heard>>
          /\ pc \in {"asked", "loop"} <=> gateway[g].pc \in {"asked", "loop"}
          /\ gateway[g].pc # "poked"
    BY <1>5 DEF Asks, BacksOff, FindsNoRoute, upsertMessagingRoute, At
  <2>2. moved(pc).start = gateway[g].start
    BY <1>3
  <2>3. Place(moved(pc)) = Place(gateway[g])
    <3> HIDE DEF moved
    <3> QED BY <1>1, <1>3, <2>1 DEF Place, Loop
  <2> HIDE DEF moved
  <2> QED BY <1>2, <2>1, <2>2, <2>3, OnceSilent
<1>6. CASE Answered(g)
  <2> DEFINE first == IF gateway[g].offset > confirmed THEN gateway[g].offset
                      ELSE confirmed + 1
             state == [gateway[g] EXCEPT !.next = first, !.last = Len(update),
                          !.pc = IF first <= Len(update) THEN "update" ELSE "loop"]
  <2>1. Goes(g, state) /\ UNCHANGED <<starts, heard>> /\ gateway[g].pc = "asked"
    BY <1>6 DEF Answered
  <2>2. /\ first \in Nat /\ gateway[g].offset \in Nat
        /\ first >= gateway[g].offset
    BY <1>1, GatewayAssumption DEF Loop, IInv, Types
  <2>3. /\ state.start = gateway[g].start /\ state.offset = gateway[g].offset
        /\ state.next = first /\ state.pc \in {"update", "loop"}
    BY <1>1 DEF Loop
  <2> HIDE DEF first, state
  <2>4. \A i \in Update : i >= Place(state) => i >= Place(gateway[g])
    BY <2>1, <2>2, <2>3 DEF Place, Update
  <2> QED BY <1>2, <2>1, <2>3, <2>4, OnceSilent
<1>7. CASE Exits(g)
  BY <1>7, OnceSilent DEF Exits, Off
<1>8. CASE Rejects(g) \/ HandlerFails(g)
  <2>1. PICK what : Hears(g, what)
    BY <1>8 DEF Rejects, HandlerFails
  <2>2. /\ gateway[g].pc \in {"update", "bind"} /\ UNCHANGED starts
        /\ Goes(g, Advanced(gateway[g]))
    BY <1>8 DEF Rejects, HandlerFails
  <2>3. \A i \in Update : i >= Place(Advanced(gateway[g])) => i > gateway[g].next
    BY <1>4 DEF Update
  <2> QED BY <1>4, <2>1, <2>2, <2>3, OnceHears
<1>9. CASE Pokes(g)
  <2>1. PICK what : Hears(g, what)
    BY <1>9 DEF Pokes
  <2>2. gateway[g].pc = "update" /\ UNCHANGED starts /\ Goes(g, moved("poked"))
    BY <1>9 DEF Pokes, At
  <2>3. \A i \in Update : i >= Place(moved("poked")) => i > gateway[g].next
    <3> HIDE DEF moved
    <3> QED BY <1>3, <1>4 DEF Place, Update
  <2>4. moved("poked").pc # "off" /\ moved("poked").start = gateway[g].start
    BY <1>3
  <2> HIDE DEF moved
  <2> QED BY <2>1, <2>2, <2>3, <2>4, OnceHears
<1>10. CASE PokeReturns(g)
  <2>1. /\ Goes(g, Advanced(gateway[g])) /\ UNCHANGED <<starts, heard>>
        /\ Place(gateway[g]) = gateway[g].next + 1
    BY <1>10 DEF PokeReturns, Place
  <2> QED BY <1>2, <1>4, <2>1, OnceSilent
<1> QED BY <1>5, <1>6, <1>7, <1>8, <1>9, <1>10 DEF RunsLoop

LEMMA OnceStep == IInv /\ Once /\ [GatewayNext]_gatewayVars => Once'
<1> SUFFICES ASSUME IInv, Once, [GatewayNext]_gatewayVars PROVE Once'
  OBVIOUS
<1>1. ASSUME NEW g \in Gateway, Stops(g) PROVE Once'
  <2> DEFINE state == [gateway[g] EXCEPT !.running = FALSE]
  <2>1. gateway[g] \in Loop /\ On(g)
    BY <1>1, StateOf DEF Stops, On
  <2>2. Place(state) = Place(gateway[g]) /\ state.start = gateway[g].start
    BY <2>1 DEF Loop, Place
  <2>3. Goes(g, state) /\ UNCHANGED <<starts, heard>>
    BY <1>1 DEF Stops
  <2> HIDE DEF state
  <2> QED BY <2>1, <2>2, <2>3, OnceSilent
<1>2. ASSUME NEW g \in Gateway, Dies(g) PROVE Once'
  BY <1>2, OnceSilent DEF Dies, Off
<1>3. ASSUME NEW u \in User, Writes(u) PROVE Once'
  BY <1>3 DEF Writes, Once, Numbers, Places, On, HeardBy, HeardOncePerStart, Place
<1>4. CASE UNCHANGED gatewayVars
  BY <1>4 DEF gatewayVars, Once, Numbers, Places, On, HeardBy, HeardOncePerStart, Place
<1> QED BY <1>1, <1>2, <1>3, <1>4, OnceStarts, OnceLoop DEF GatewayNext

(* No process hears an update twice, however often it is delivered.         *)
THEOREM UpdatesAreHeardOncePerStart == GatewaySpec => []HeardOncePerStart
<1>1. Once => HeardOncePerStart
  BY DEF Once
<1> QED BY <1>1, IInvInit, IInvStep, OnceInit, OnceStep, PTL DEF GatewaySpec
=============================================================================
