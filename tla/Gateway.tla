------------------------------- MODULE Gateway -------------------------------
(***************************************************************************)
(* The messaging gateway (apps/cli/src/lib/gateway): processes of `prlt     *)
(* gateway start' that long-poll one Telegram bot and pass what its users   *)
(* write to agent sessions with `session poke'.                            *)
(*                                                                         *)
(* Telegram keeps an update until a later getUpdates asks from beyond it.   *)
(* A process remembers how far it has come in memory only; nothing keeps a  *)
(* second process from being started.  A stopped process ends its batch     *)
(* first, a dying one does not.                                            *)
(*                                                                         *)
(* Abstracted: texts (an update is its id, update ids have no gaps), the    *)
(* timestamps of channels and routes, and answers: none is ever sent back,  *)
(* because the poker looks for `response' beside `result', where `session   *)
(* poke --json' does not put it (session-poker.ts:68, prompt-json.ts:621).  *)
(***************************************************************************)
EXTENDS Naturals, Sequences

CONSTANTS
    User, Agent,
    Allowed,       \* config.allowlist
    Gateway,       \* processes of `prlt gateway start'
    DefaultAgent,  \* --default-agent of each
    NoSession,
    MaxUpdate,     \* bound of the model: messages of the users
    MaxStart,      \* bound of the model: starts of processes
    MaxFault       \* bound of the model: calls of Telegram and pokes that fail

ASSUME GatewayAssumption ==
    /\ Allowed \subseteq User
    /\ NoSession \notin Agent
    /\ DefaultAgent \in [Gateway -> Agent \cup {NoSession}]
    /\ MaxUpdate \in Nat /\ MaxStart \in Nat /\ MaxFault \in Nat

VARIABLES
    update,     \* the updates of the bot so far: who wrote each
    confirmed,  \* Telegram has forgotten the updates up to this one
    gateway,    \* the processes
    route,      \* table messaging_routes
    starts, faults,
    heard       \* history: what each start of a process made of an update

gatewayVars == <<update, confirmed, gateway, route, starts, faults, heard>>

Update == 1..MaxUpdate
Off == [pc |-> "off"]
Goes(g, state) == gateway' = [gateway EXCEPT ![g] = state]
At(g, pc) == Goes(g, [gateway[g] EXCEPT !.pc = pc])
MayFault(fails) == faults' = faults + (IF fails THEN 1 ELSE 0) /\ faults' <= MaxFault

(***************************************************************************)
(* The read loop of the channel.                                           *)
(***************************************************************************)

Starts(g) ==
    /\ gateway[g].pc = "off" /\ starts < MaxStart
    /\ starts' = starts + 1
    /\ Goes(g, [pc |-> "loop", running |-> TRUE, start |-> starts',
                offset |-> 1, next |-> 1, last |-> 0])
    /\ UNCHANGED <<update, confirmed, route, faults, heard>>

(* getUpdates tells Telegram what need not be kept, and awaits the answer.  *)
Asks(g) ==
    /\ gateway[g].pc = "loop" /\ gateway[g].running
    /\ confirmed' = IF gateway[g].offset > confirmed THEN gateway[g].offset - 1
                    ELSE confirmed
    /\ At(g, "asked")
    /\ UNCHANGED <<update, route, starts, faults, heard>>

Answered(g) ==
    LET first == IF gateway[g].offset > confirmed THEN gateway[g].offset
                 ELSE confirmed + 1 IN
    /\ gateway[g].pc = "asked"
    /\ Goes(g, [gateway[g] EXCEPT !.next = first, !.last = Len(update),
                    !.pc = IF first <= Len(update) THEN "update" ELSE "loop"])
    /\ UNCHANGED <<update, confirmed, route, starts, faults, heard>>

(* Mutant: an error ends the loop, and the process is left without one.     *)
EndsLoop(g) ==
    /\ gateway[g].pc = "asked" /\ MayFault(TRUE) /\ At(g, "ended")
    /\ UNCHANGED <<update, confirmed, route, starts, heard>>

(* An error, or another process that asks at the same time: it backs off.   *)
BacksOff(g) ==
    /\ gateway[g].pc = "asked" /\ MayFault(TRUE) /\ At(g, "loop")
    /\ UNCHANGED <<update, confirmed, route, starts, heard>>

(* Mutants: the update asked for again; the one after it passed over.       *)
AdvancedShort(state) ==
    [state EXCEPT !.offset = state.next, !.next = state.next + 1,
                  !.pc = IF state.next < state.last THEN "update" ELSE "loop"]
AdvancedTooFar(state) ==
    [state EXCEPT !.offset = state.next + 2, !.next = state.next + 1,
                  !.pc = IF state.next < state.last THEN "update" ELSE "loop"]

Advanced(state) ==
    [state EXCEPT !.offset = state.next + 1, !.next = state.next + 1,
                  !.pc = IF state.next < state.last THEN "update" ELSE "loop"]

Exits(g) ==
    /\ gateway[g].pc = "loop" /\ ~ gateway[g].running
    /\ Goes(g, Off)
    /\ UNCHANGED <<update, confirmed, route, starts, faults, heard>>

(***************************************************************************)
(* routeInbound, for the next update of the batch.                         *)
(***************************************************************************)

Author(g) == update[gateway[g].next]
Hears(g, what) ==
    heard' = [heard EXCEPT ![gateway[g].next] =
                 Append(@, [start |-> gateway[g].start, what |-> what])]

(* Who is not on the list is passed over, and who is new when no agent is   *)
(* there for new users.                                                    *)
Rejects(g) ==
    /\ gateway[g].pc = "update"
    /\ \/ Author(g) \notin Allowed
       \/ route[Author(g)] = NoSession /\ DefaultAgent[g] = NoSession
    /\ Hears(g, "rejected")
    /\ Goes(g, Advanced(gateway[g]))
    /\ UNCHANGED <<update, confirmed, route, starts, faults>>

FindsNoRoute(g) ==
    /\ gateway[g].pc = "update"
    /\ Author(g) \in Allowed /\ route[Author(g)] = NoSession
    /\ DefaultAgent[g] # NoSession
    /\ At(g, "bind")
    /\ UNCHANGED <<update, confirmed, route, starts, faults, heard>>

(* The row is read again after it was written, over another's if need be.   *)
upsertMessagingRoute(g) ==
    /\ gateway[g].pc = "bind"
    /\ route' = [route EXCEPT ![Author(g)] = DefaultAgent[g]]
    /\ At(g, "update")
    /\ UNCHANGED <<update, confirmed, starts, faults, heard>>

(* The command reaches the session or fails; it is then awaited.            *)
Pokes(g) ==
    /\ gateway[g].pc = "update"
    /\ Author(g) \in Allowed /\ route[Author(g)] # NoSession
    /\ \E fails \in BOOLEAN :
          MayFault(fails) /\ Hears(g, IF fails THEN "failed" ELSE "poked")
    /\ At(g, "poked")
    /\ UNCHANGED <<update, confirmed, route, starts>>

(* An error of the database ends the handling, and the loop goes on.        *)
HandlerFails(g) ==
    /\ gateway[g].pc \in {"update", "bind"} /\ Author(g) \in Allowed
    /\ MayFault(TRUE) /\ Hears(g, "failed")
    /\ Goes(g, Advanced(gateway[g]))
    /\ UNCHANGED <<update, confirmed, route, starts>>

PokeReturns(g) ==
    /\ gateway[g].pc = "poked"
    /\ Goes(g, Advanced(gateway[g]))
    /\ UNCHANGED <<update, confirmed, route, starts, faults, heard>>

(***************************************************************************)
(* People.                                                                 *)
(***************************************************************************)

Writes(u) ==
    /\ Len(update) < MaxUpdate
    /\ update' = Append(update, u)
    /\ UNCHANGED <<confirmed, gateway, route, starts, faults, heard>>

Stops(g) ==
    /\ gateway[g].pc # "off" /\ gateway[g].running
    /\ Goes(g, [gateway[g] EXCEPT !.running = FALSE])
    /\ UNCHANGED <<update, confirmed, route, starts, faults, heard>>

Dies(g) ==
    /\ gateway[g].pc # "off"
    /\ Goes(g, Off)
    /\ UNCHANGED <<update, confirmed, route, starts, faults, heard>>

(***************************************************************************)
(* Specification.                                                          *)
(***************************************************************************)

GatewayInit ==
    /\ update = <<>> /\ confirmed = 0
    /\ gateway = [g \in Gateway |-> Off]
    /\ route = [u \in User |-> NoSession]
    /\ starts = 0 /\ faults = 0
    /\ heard = [i \in Update |-> <<>>]

RunsLoop(g) ==
    \/ Asks(g) \/ Answered(g) \/ BacksOff(g) \/ Exits(g)
    \/ Rejects(g) \/ FindsNoRoute(g) \/ upsertMessagingRoute(g)
    \/ Pokes(g) \/ PokeReturns(g) \/ HandlerFails(g)

GatewayNext ==
    \/ \E g \in Gateway : Starts(g) \/ RunsLoop(g) \/ Stops(g) \/ Dies(g)
    \/ \E u \in User : Writes(u)

GatewaySpec == GatewayInit /\ [][GatewayNext]_gatewayVars

(* Every call of a process ends, and the loop goes on: getUpdates and the   *)
(* poke have timeouts.  Nobody has to write, to start or to stop one.       *)
FairGatewaySpec ==
    GatewaySpec /\ \A g \in Gateway : WF_gatewayVars(RunsLoop(g))

(***************************************************************************)
(* Properties.                                                             *)
(***************************************************************************)

Heard(i) == heard[i] # <<>>

(* "We acknowledge updates by advancing the offset cursor" after the        *)
(* handling (telegram.ts:151, 249): whatever dies, is stopped or started    *)
(* beside another, Telegram never forgets an update that no process has     *)
(* made something of, and no update is heard before an earlier one.         *)
NothingSkipped ==
    \A i \in Update : i <= confirmed \/ Heard(i) =>
        \A j \in 1..i : Heard(j)

(* An update that is delivered again, because the process that heard it     *)
(* ended before it could ask beyond it or two run at once, is delivered to  *)
(* another start: no process hears an update twice.                         *)
HeardOncePerStart ==
    \A i \in Update : \A m, n \in DOMAIN heard[i] :
        heard[i][m].start = heard[i][n].start => m = n

(* What a user writes is heard, unless all processes are gone for good.     *)
EveryMessageHeard ==
    \A i \in Update :
        i <= Len(update) ~> Heard(i) \/ [](\A g \in Gateway : gateway[g].pc = "off")
=============================================================================
