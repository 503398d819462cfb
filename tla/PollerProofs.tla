----------------------------- MODULE PollerProofs -----------------------------
(***************************************************************************)
(* What holds of the poller for any number of pull requests, tickets, hooks *)
(* and overlapping polls.                                                  *)
(***************************************************************************)
EXTENDS Poller, HookManagerProofs, TLAPS

(***************************************************************************)
(* A conflict is fired once while a resolution is on its way: a ticket with *)
(* a conflict in its history is in activeConflictResolutions, and has one,  *)
(* unless a call of gh that failed has ended a resolution of the ticket.    *)
(***************************************************************************)

OneResolution ==
    \A t \in Ticket \ misled :
        /\ episode[t] # {} => t \in resolving
        /\ \A e, f \in episode[t] : e = f

LEMMA ResolutionInit == PollInit => OneResolution
  BY DEF PollInit, OneResolution

LEMMA ResolutionFrame ==
    OneResolution /\ UNCHANGED conflicts => OneResolution'
  BY DEF OneResolution, conflicts

LEMMA ResolutionRead ==
    ASSUME OneResolution, NEW q \in Poll, ReadsMergeable(q)
    PROVE  OneResolution'
<1> DEFINE ticket == {TicketOf[poll[q].pr]} \ {NoTicket}
           ended(m) == IF m = "MERGEABLE" THEN ticket ELSE {}
           seen(fails, m) == IF fails THEN {} ELSE ended(m)
           new(fails) == /\ NewConflict(q, fails)
                         /\ TicketOf[poll[q].pr] \notin resolving
<1>1. PICK fails \in BOOLEAN : Announces(q, fails, new(fails))
  BY DEF ReadsMergeable
<1> DEFINE m == Mergeable(q, fails)
<1>2. CASE ~ new(fails)
  <2>1. resolving' = resolving \ ended(m)
    BY <1>1, <1>2 DEF Announces
  <2>2. episode' = [t \in Ticket |->
                      IF t \in seen(fails, m) THEN {} ELSE episode[t]]
    BY <1>1, <1>2 DEF Announces
  <2>3. misled' = (misled \cup (ended(m) \cap resolving)) \ seen(fails, m)
    BY <1>1 DEF Announces
  <2> HIDE DEF m, ended, seen
  <2>4. ASSUME NEW t \in Ticket, t \notin misled'
        PROVE  /\ episode'[t] # {} => t \in resolving'
               /\ \A e, f \in episode'[t] : e = f
    <3>1. CASE t \in seen(fails, m)
      BY <2>2, <3>1
    <3>2. CASE t \notin seen(fails, m)
      <4>1. t \notin misled /\ ~ (t \in ended(m) /\ t \in resolving)
        BY <2>3, <2>4, <3>2
      <4>2. episode'[t] = episode[t]
        BY <2>2, <3>2
      <4> QED BY <2>1, <4>1, <4>2 DEF OneResolution
    <3> QED BY <3>1, <3>2
  <2> QED BY <2>4 DEF OneResolution
<1>3. CASE new(fails)
  <2>1. m = "CONFLICTING"
    BY <1>3 DEF NewConflict
  <2>2. resolving' = resolving \cup ticket
    BY <1>1, <1>3, <2>1 DEF Announces
  <2>3. PICK e \in Event : episode' = [t \in Ticket |->
            IF t \in ticket THEN episode[t] \cup {e} ELSE episode[t]]
    BY <1>1, <1>3 DEF Announces
  <2>4. \A t \in ticket : t \notin resolving
    BY <1>3
  <2>5. misled' = misled
    <3>1. ended(m) = {} /\ seen(fails, m) = {}
      BY <2>1
    <3>2. misled' = (misled \cup (ended(m) \cap resolving)) \ seen(fails, m)
      BY <1>1 DEF Announces
    <3> QED BY <3>1, <3>2
  <2> QED BY <2>2, <2>3, <2>4, <2>5 DEF OneResolution
<1> QED BY <1>2, <1>3

LEMMA ResolutionStep == OneResolution /\ [PollNext]_allVars => OneResolution'
<1> SUFFICES ASSUME OneResolution, [PollNext]_allVars PROVE OneResolution'
  OBVIOUS
<1>1. ASSUME NEW q \in Poll, PollActs(q) PROVE OneResolution'
  <2>1. CASE ReadsMergeable(q) BY <2>1, ResolutionRead
  <2>2. CASE \/ Begins(q) \/ RemembersConflict(q) \/ ForgetsMerged(q) \/ Ends(q)
             \/ \E p \in PR : ReadsChecks(q, p) \/ ChecksMerged(q, p)
    BY <2>2, ResolutionFrame DEF Begins, RemembersConflict, ForgetsMerged, Ends,
                                 ReadsChecks, ChecksMerged
  <2> QED BY <1>1, <2>1, <2>2 DEF PollActs
<1>2. ASSUME NEW p \in PR, PullRequestChanges(p) PROVE OneResolution'
  BY <1>2, ResolutionFrame DEF PullRequestChanges
<1>3. CASE HandlersAct \/ UNCHANGED allVars
  BY <1>3, ResolutionFrame DEF HandlersAct, allVars, pollVars
<1>4. CASE AsksForGh
  BY <1>4, ResolutionFrame DEF AsksForGh
<1> QED BY <1>1, <1>2, <1>3, <1>4 DEF PollNext

(* No hook acts twice on the conflict of a ticket before gh has answered    *)
(* that a pull request of the ticket is mergeable, whatever overlaps, as    *)
(* long as no failed call was taken for that answer (poller.ts:366-375).    *)
THEOREM ConflictsResolvedOnce == PollSpec => []ConflictResolvedOnce
<1>1. OneResolution => ConflictResolvedOnce
  BY DEF OneResolution, ConflictResolvedOnce
<1> QED BY <1>1, ResolutionInit, ResolutionStep, PTL DEF PollSpec

(***************************************************************************)
(* Types.  A poll that awaits an event awaits one that was fired for the    *)
(* pull request it visits: no later firing takes the event for another.     *)
(***************************************************************************)

Kind == {"success", "failure", "conflict", "merged"}
News == Kind \X PR
Remembered == TrackedPR \cup {Untracked}
Visit(pcs) == [pc : pcs, open : SUBSET PR, todo : SUBSET PR, pr : PR,
               was : Remembered, ci : {"pending", "success", "failure", "unknown"},
               event : Event \cup {NoEvent}]
PollState ==
    {NotPolling} \cup [pc : {"visit"}, open : SUBSET PR, todo : SUBSET PR]
    \cup Visit({"merge", "ci", "conflict"})
    \cup [pc : {"merged"}, open : SUBSET PR, todo : SUBSET PR, pr : PR,
          event : Event]

Bounds == changes \in 0..MaxChange /\ outages \in 0..MaxOutage
Memory == /\ pull \in [PR -> Pull]
          /\ tracked \in [PR -> Remembered]
          /\ resolving \subseteq Ticket
         /\ ghAvailable \in {"unasked", "yes", "no"}
Polls == poll \in [Poll -> PollState]
Awaits(q) == poll[q].pc \in {"ci", "conflict", "merged"}
Fired == /\ about \in [Event -> News \cup {<<>>}]
         /\ \A q \in Poll : Awaits(q) =>
               /\ poll[q].event \in Event
               /\ about[poll[q].event] \in News
               /\ about[poll[q].event][2] = poll[q].pr
PollTyped == Bounds /\ Memory /\ Polls /\ Fired

LEMMA PollTypedInit == PollInit => PollTyped
<1> SUFFICES ASSUME PollInit PROVE PollTyped
  OBVIOUS
<1>1. Bounds
  BY PollerAssumption DEF PollInit, Bounds
<1>2. Memory
  BY DEF PollInit, Memory, Pull, Remembered
<1>3. Polls /\ \A q \in Poll : ~ Awaits(q)
  BY DEF PollInit, Polls, PollState, NotPolling, Awaits
<1> QED BY <1>1, <1>2, <1>3 DEF PollTyped, Fired, PollInit

LEMMA TypedFrame == PollTyped /\ UNCHANGED pollVars => PollTyped'
  BY DEF PollTyped, Bounds, Memory, Polls, Fired, Awaits, pollVars, github,
                    conflicts

LEMMA OutageBound ==
    ASSUME Bounds, NEW fails \in BOOLEAN, MayFail(fails), UNCHANGED changes
    PROVE  Bounds'
  BY PollerAssumption DEF Bounds, MayFail

(* A poll goes on without an event, or fires one of its own.                *)
LEMMA TurnsQuietly ==
    ASSUME PollTyped, NEW q \in Poll, NEW state \in PollState, Turns(q, state),
           UNCHANGED about, state.pc \notin {"ci", "conflict", "merged"}
    PROVE  Polls' /\ Fired'
  BY DEF PollTyped, Polls, Fired, Awaits, Turns

LEMMA TurnsFiring ==
    ASSUME PollTyped, NEW q \in Poll, NEW state \in PollState, Turns(q, state),
           NEW kind \in Kind, NEW p \in PR, NEW e \in Event,
           Fires(e, <<kind, p>>), state.pr = p, state.event = e
    PROVE  Polls' /\ Fired'
<1>1. about[e] = <<>> /\ about' = [about EXCEPT ![e] = <<kind, p>>]
  BY DEF Fires
<1>2. poll' = [poll EXCEPT ![q] = state]
  BY DEF Turns
<1>3. \A r \in Poll : r # q /\ Awaits(r) => poll[r].event # e
  BY <1>1 DEF PollTyped, Fired, News
<1> QED BY <1>1, <1>2, <1>3 DEF PollTyped, Polls, Fired, Awaits, News

LEMMA TracksTypes ==
    ASSUME PollTyped, NEW q \in Poll, poll[q] \in Visit({"merge", "ci", "conflict"}),
           NEW mergeable \in {"UNKNOWN", "MERGEABLE", "CONFLICTING"},
           Tracks(q, mergeable), UNCHANGED <<pull, about, ghAvailable>>,
           resolving' \subseteq Ticket
    PROVE  Memory' /\ Polls' /\ Fired'
<1>1. [ci |-> poll[q].ci, mergeable |-> mergeable] \in Remembered
  BY DEF Visit, Remembered, TrackedPR
<1>2. [pc |-> "visit", open |-> poll[q].open, todo |-> poll[q].todo] \in PollState
  BY DEF Visit, PollState
<1>3. Polls' /\ Fired'
  BY <1>2, TurnsQuietly DEF Tracks
<1> QED BY <1>1, <1>3 DEF PollTyped, Memory, Tracks

(* At a step of its kind a poll is in a state of the kind.                  *)
LEMMA StateAt ==
    ASSUME PollTyped, NEW q \in Poll
    PROVE  /\ poll[q].pc = "visit" =>
                 poll[q].open \subseteq PR /\ poll[q].todo \subseteq PR
           /\ poll[q].pc \in {"merge", "ci", "conflict"} =>
                 poll[q] \in Visit({"merge", "ci", "conflict"})
           /\ poll[q].pc = "merged" => poll[q].open \subseteq PR /\ poll[q].pr \in PR
<1>1. poll[q] \in PollState
  BY DEF PollTyped, Polls
<1> QED BY <1>1 DEF PollState, Visit, NotPolling

LEMMA BeginsTypes == ASSUME PollTyped, NEW q \in Poll, Begins(q) PROVE PollTyped'
<1>1. PICK fails \in BOOLEAN :
        /\ Turns(q, [pc |-> "visit", open |-> listOpenPRs(fails),
                     todo |-> listOpenPRs(fails)])
        /\ MayFail(fails)
  BY DEF Begins
<1>2. [pc |-> "visit", open |-> listOpenPRs(fails), todo |-> listOpenPRs(fails)]
        \in PollState
  BY DEF PollState, listOpenPRs
<1>3. Polls' /\ Fired'
  BY <1>1, <1>2, TurnsQuietly DEF Begins, Silent
<1>4. Bounds'
  BY <1>1, OutageBound DEF PollTyped, Begins, github
<1> QED BY <1>3, <1>4 DEF PollTyped, Memory, Begins, github, conflicts

LEMMA ReadsChecksTypes ==
    ASSUME PollTyped, NEW q \in Poll, NEW p \in PR, ReadsChecks(q, p) PROVE PollTyped'
<1> DEFINE news(ci) == /\ tracked[p] # Untracked /\ ci # tracked[p].ci
                       /\ ci \in {"success", "failure"}
           state(ci, e) ==
               [pc |-> IF news(ci) THEN "ci" ELSE "merge",
                open |-> poll[q].open, todo |-> poll[q].todo \ {p},
                pr |-> p, was |-> tracked[p], ci |-> ci, event |-> e]
<1>1. PICK fails \in BOOLEAN, e \in Event \cup {NoEvent} :
        /\ MayFail(fails)
        /\ IF news(ciState(p, fails)) THEN e # NoEvent /\ Fires(e, <<ciState(p, fails), p>>)
           ELSE e = NoEvent /\ Silent
        /\ Turns(q, state(ciState(p, fails), e))
  BY DEF ReadsChecks
<1> DEFINE ci == ciState(p, fails)
<1>2. ci \in {"pending", "success", "failure", "unknown"}
  BY DEF ciState, PollTyped, Memory, Pull
<1>3. poll[q].open \subseteq PR /\ poll[q].todo \subseteq PR
  BY StateAt DEF ReadsChecks
<1>4. tracked[p] \in Remembered
  BY DEF PollTyped, Memory
<1>5. state(ci, e) \in Visit({"merge", "ci", "conflict"})
  <2> HIDE DEF ci
  <2> QED BY <1>2, <1>3, <1>4 DEF Visit
<1>6. state(ci, e) \in PollState
  BY <1>5 DEF PollState
<1>7. Polls' /\ Fired'
  <2>1. CASE news(ci)
    <3>1. e \in Event /\ Fires(e, <<ci, p>>)
      BY <1>1, <2>1
    <3>2. state(ci, e).pr = p /\ state(ci, e).event = e
      OBVIOUS
    <3>3. ci \in Kind
      BY <2>1 DEF Kind
    <3> HIDE DEF state, ci
    <3> QED BY <1>1, <1>6, <3>1, <3>2, <3>3, TurnsFiring DEF ci
  <2>2. CASE ~ news(ci)
    <3>1. UNCHANGED about
      BY <1>1, <2>2 DEF Silent
    <3>2. state(ci, e).pc = "merge"
      BY <2>2
    <3> HIDE DEF state, ci, news
    <3> QED BY <1>1, <1>6, <3>1, <3>2, TurnsQuietly DEF ci
  <2> QED BY <2>1, <2>2
<1>8. Bounds'
  BY <1>1, OutageBound DEF PollTyped, ReadsChecks, github
<1> QED BY <1>7, <1>8 DEF PollTyped, Memory, ReadsChecks, github, conflicts

LEMMA MergeableType ==
    ASSUME PollTyped, NEW q \in Poll, NEW fails \in BOOLEAN,
           poll[q] \in Visit({"merge", "ci", "conflict"})
    PROVE  Mergeable(q, fails) \in {"UNKNOWN", "MERGEABLE", "CONFLICTING"}
<1>1. poll[q].pr \in PR /\ poll[q].was \in Remembered
  BY DEF Visit
<1>2. pull[poll[q].pr].mergeable \in {"UNKNOWN", "MERGEABLE", "CONFLICTING"}
  BY <1>1 DEF PollTyped, Memory, Pull
<1>3. poll[q].was # Untracked =>
        poll[q].was.mergeable \in {"UNKNOWN", "MERGEABLE", "CONFLICTING"}
  BY <1>1 DEF Remembered, TrackedPR
<1> QED BY <1>2, <1>3 DEF Mergeable

LEMMA ReadsMergeableTypes ==
    ASSUME PollTyped, NEW q \in Poll, ReadsMergeable(q) PROVE PollTyped'
<1>1. PICK fails \in BOOLEAN, isNew \in BOOLEAN : Announces(q, fails, isNew)
  <2>1. PICK fails \in BOOLEAN :
          Announces(q, fails, /\ NewConflict(q, fails)
                              /\ TicketOf[poll[q].pr] \notin resolving)
    BY DEF ReadsMergeable
  <2> QED BY <2>1 DEF NewConflict
<1>2. poll[q] \in Visit({"merge", "ci", "conflict"})
  BY StateAt DEF ReadsMergeable, Returned
<1>3. poll[q].pr \in PR
  BY <1>2 DEF Visit
<1>4. resolving' \subseteq Ticket
  BY <1>1, <1>3, PollerAssumption DEF Announces, PollTyped, Memory
<1>5. Mergeable(q, fails) \in {"UNKNOWN", "MERGEABLE", "CONFLICTING"}
  BY <1>2, MergeableType
<1>6. Bounds'
  BY <1>1, OutageBound DEF PollTyped, Announces, github
<1>7. CASE ~ isNew
  <2>1. Tracks(q, Mergeable(q, fails)) /\ UNCHANGED <<pull, about, ghAvailable>>
    BY <1>1, <1>7 DEF Announces, Silent, github
  <2>2. Memory' /\ Polls' /\ Fired'
    BY <1>2, <1>4, <1>5, <2>1, TracksTypes
  <2> QED BY <1>6, <2>2 DEF PollTyped
<1>8. CASE isNew
  <2>1. PICK e \in Event :
          /\ Fires(e, <<"conflict", poll[q].pr>>)
          /\ Turns(q, [poll[q] EXCEPT !.pc = "conflict", !.event = e])
    BY <1>1, <1>8 DEF Announces
  <2> DEFINE state == [poll[q] EXCEPT !.pc = "conflict", !.event = e]
  <2>2. state \in PollState /\ state.pr = poll[q].pr /\ state.event = e
    BY <1>2 DEF PollState, Visit
  <2>3. "conflict" \in Kind /\ Turns(q, state)
    BY <2>1 DEF Kind
  <2>5. Polls' /\ Fired'
    <3> HIDE DEF state
    <3> QED BY <1>3, <2>1, <2>2, <2>3, TurnsFiring
  <2>4. Memory'
    BY <1>1, <1>4, <1>8 DEF PollTyped, Memory, Announces, github
  <2> QED BY <1>6, <2>4, <2>5 DEF PollTyped
<1> QED BY <1>7, <1>8

LEMMA RemembersConflictTypes ==
    ASSUME PollTyped, NEW q \in Poll, RemembersConflict(q) PROVE PollTyped'
<1>1. poll[q] \in Visit({"merge", "ci", "conflict"})
  BY StateAt DEF RemembersConflict, Returned
<1>2. Tracks(q, "CONFLICTING") /\ UNCHANGED <<pull, about, ghAvailable>> /\ resolving' \subseteq Ticket
  BY DEF RemembersConflict, Silent, github, conflicts, PollTyped, Memory
<1>3. Memory' /\ Polls' /\ Fired'
  BY <1>1, <1>2, TracksTypes
<1> QED BY <1>3 DEF PollTyped, Bounds, RemembersConflict, github

LEMMA ChecksMergedTypes ==
    ASSUME PollTyped, NEW q \in Poll, NEW p \in PR, ChecksMerged(q, p) PROVE PollTyped'
<1>1. PICK fails \in BOOLEAN :
        /\ MayFail(fails)
        /\ \/ /\ \E e \in Event :
                    /\ Fires(e, <<"merged", p>>)
                    /\ Turns(q, [pc |-> "merged", open |-> poll[q].open,
                                 todo |-> {}, pr |-> p, event |-> e])
              /\ UNCHANGED tracked
           \/ /\ tracked' = [tracked EXCEPT ![p] = Untracked]
              /\ Silent /\ UNCHANGED poll
  BY DEF ChecksMerged
<1>2. Bounds'
  BY <1>1, OutageBound DEF PollTyped, ChecksMerged, github
<1>3. Memory'
  BY <1>1 DEF PollTyped, Memory, Remembered, ChecksMerged, github, conflicts
<1>4. Polls' /\ Fired'
  <2>1. ASSUME NEW e \in Event, Fires(e, <<"merged", p>>),
               Turns(q, [pc |-> "merged", open |-> poll[q].open,
                         todo |-> {}, pr |-> p, event |-> e])
        PROVE  Polls' /\ Fired'
    <3> DEFINE state == [pc |-> "merged", open |-> poll[q].open, todo |-> {},
                         pr |-> p, event |-> e]
    <3>1. poll[q].open \subseteq PR
      BY StateAt DEF ChecksMerged
    <3>2. state \in PollState /\ state.pr = p /\ state.event = e
      BY <3>1 DEF PollState
    <3>3. "merged" \in Kind /\ Turns(q, state)
      BY <2>1 DEF Kind
    <3> HIDE DEF state
    <3> QED BY <2>1, <3>2, <3>3, TurnsFiring
  <2>2. CASE Silent /\ UNCHANGED poll
    BY <2>2 DEF Silent, PollTyped, Polls, Fired, Awaits
  <2> QED BY <1>1, <2>1, <2>2
<1> QED BY <1>2, <1>3, <1>4 DEF PollTyped

LEMMA ForgetsMergedTypes ==
    ASSUME PollTyped, NEW q \in Poll, ForgetsMerged(q) PROVE PollTyped'
<1>1. poll[q].open \subseteq PR /\ poll[q].pr \in PR
  BY StateAt DEF ForgetsMerged, Returned
<1>2. [pc |-> "visit", open |-> poll[q].open, todo |-> {}] \in PollState
  BY <1>1 DEF PollState
<1>3. Polls' /\ Fired'
  BY <1>2, TurnsQuietly DEF ForgetsMerged, Silent
<1> QED BY <1>1, <1>3 DEF PollTyped, Bounds, Memory, Remembered, ForgetsMerged, github,
                     conflicts

LEMMA EndsTypes == ASSUME PollTyped, NEW q \in Poll, Ends(q) PROVE PollTyped'
<1>1. NotPolling \in PollState /\ NotPolling.pc = "idle"
  BY DEF PollState, NotPolling
<1>2. Polls' /\ Fired'
  BY <1>1, TurnsQuietly DEF Ends, Silent
<1> QED BY <1>2 DEF PollTyped, Bounds, Memory, Ends, github, conflicts

LEMMA PullRequestTypes ==
    ASSUME PollTyped, NEW p \in PR, PullRequestChanges(p) PROVE PollTyped'
<1>1. Bounds'
  BY PollerAssumption DEF PollTyped, Bounds, PullRequestChanges
<1>2. Memory'
  BY DEF PollTyped, Memory, Pull, PullRequestChanges, conflicts
<1> QED BY <1>1, <1>2 DEF PollTyped, Polls, Fired, Awaits, PullRequestChanges, Silent

LEMMA AsksTypes == ASSUME PollTyped, AsksForGh PROVE PollTyped'
<1>1. Bounds'
  BY OutageBound DEF PollTyped, AsksForGh, github
<1>2. Memory'
  BY DEF PollTyped, Memory, AsksForGh, github, conflicts
<1> QED BY <1>1, <1>2 DEF PollTyped, Polls, Fired, Awaits, AsksForGh, Silent

LEMMA TypedStep == PollTyped /\ [PollNext]_allVars => PollTyped'
<1> SUFFICES ASSUME PollTyped, [PollNext]_allVars PROVE PollTyped'
  OBVIOUS
<1>1. ASSUME NEW q \in Poll, PollActs(q) PROVE PollTyped'
  BY <1>1, BeginsTypes, ReadsMergeableTypes, RemembersConflictTypes,
     ForgetsMergedTypes, EndsTypes, ReadsChecksTypes, ChecksMergedTypes
     DEF PollActs
<1>2. ASSUME NEW p \in PR, PullRequestChanges(p) PROVE PollTyped'
  BY <1>2, PullRequestTypes
<1>3. CASE HandlersAct \/ UNCHANGED allVars
  BY <1>3, TypedFrame DEF HandlersAct, allVars
<1>4. CASE AsksForGh
  BY <1>4, AsksTypes
<1> QED BY <1>1, <1>2, <1>3, <1>4 DEF PollNext

(* Whatever overlaps, a poll waits for the event that was fired for the     *)
(* pull request it visits, and what is remembered of a pull request is a    *)
(* state a pull request can have.                                          *)
THEOREM PollTypeCorrect == PollSpec => []PollTypeOK
<1>1. PollTyped => PollTypeOK
  BY DEF PollTyped, Bounds, Memory, Fired, Awaits, Remembered, PollTypeOK
<1> QED BY <1>1, PollTypedInit, TypedStep, PTL DEF PollSpec

(***************************************************************************)
(* Beside the hook manager the poller only fires events: what holds of the  *)
(* hook manager alone holds with any number of polls.                       *)
(***************************************************************************)

LEMMA PollsAreHookSteps == [PollNext]_allVars => [Next]_vars
<1> SUFFICES ASSUME [PollNext]_allVars PROVE [Next]_vars
  OBVIOUS
<1>1. ASSUME NEW e \in Event, NEW news, Fires(e, news) PROVE Next
  BY <1>1 DEF Fires, Next, Handles
<1>2. ASSUME NEW q \in Poll, PollActs(q) PROVE [Next]_vars
  <2>1. CASE Begins(q) \/ RemembersConflict(q) \/ ForgetsMerged(q) \/ Ends(q)
    BY <2>1 DEF Begins, RemembersConflict, ForgetsMerged, Ends, Silent
  <2>2. CASE ReadsMergeable(q)
    <3>1. PICK fails, isNew : Announces(q, fails, isNew)
      BY <2>2 DEF ReadsMergeable
    <3> QED BY <1>1, <3>1 DEF Announces, Silent
  <2>3. ASSUME NEW p \in PR, ReadsChecks(q, p) PROVE [Next]_vars
    BY <1>1, <2>3 DEF ReadsChecks, Silent
  <2>4. ASSUME NEW p \in PR, ChecksMerged(q, p) PROVE [Next]_vars
    BY <1>1, <2>4 DEF ChecksMerged, Silent
  <2> QED BY <1>2, <2>1, <2>2, <2>3, <2>4 DEF PollActs
<1>3. ASSUME NEW p \in PR, PullRequestChanges(p) PROVE [Next]_vars
  BY <1>3 DEF PullRequestChanges, Silent
<1>4. CASE HandlersAct \/ UNCHANGED allVars
  BY <1>4 DEF HandlersAct, allVars
<1>5. CASE AsksForGh
  BY <1>5 DEF AsksForGh, Silent
<1> QED BY <1>2, <1>3, <1>4, <1>5 DEF PollNext

LEMMA PollsRunTheHooks == PollSpec => Spec
<1>1. PollInit => Init
  BY DEF PollInit
<1> QED BY <1>1, PollsAreHookSteps, PTL DEF PollSpec, Spec

(* With polls that overlap and fire events at any time, every request is    *)
(* still at one place, and once.                                           *)
THEOREM PollsKeepOneEach == PollSpec => []EveryRequestAtOnePlace
  BY PollsRunTheHooks, OneEach, PTL

(* ... and what the polls fire still goes through the tiers as Approval     *)
(* says: no event of a poll gets an action past the human.                  *)
THEOREM PollsImplement == PollSpec => ImplementsApproval
  BY PollsRunTheHooks, Implements, PTL
=============================================================================
