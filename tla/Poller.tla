-------------------------------- MODULE Poller --------------------------------
(***************************************************************************)
(* The poller of `prlt orchestrate' (apps/cli/src/lib/orchestrate/poller.ts) *)
(* beside the hook manager: what it finds changed at GitHub it fires as an  *)
(* event, and awaits the handler.                                          *)
(*                                                                         *)
(* A timer starts a poll whether or not the one before is over.  They share *)
(* the thread with the handlers: another poll goes on, or begins, only      *)
(* where the one that runs awaits a handler.  GitHub changes at any time.   *)
(*                                                                         *)
(* Abstracted: tickets that become ready, the lifecycle of agents and       *)
(* reviews; checks as one result; the reconciliation, which has no effect.  *)
(***************************************************************************)
EXTENDS HookManager

CONSTANTS
    PR, Ticket,
    TicketOf,   \* the ticket named by the branch of a pull request
    NoTicket,   \* a branch that names none
    Poll,       \* bound of the model: polls that are going on at once
    NoEvent,
    MaxChange,  \* bound of the model: changes at GitHub
    MaxOutage   \* bound of the model: calls of gh that fail

ASSUME PollerAssumption ==
    /\ NoTicket \notin Ticket /\ TicketOf \in [PR -> Ticket \cup {NoTicket}]
    /\ NoEvent \notin Event
    /\ MaxChange \in Nat /\ MaxOutage \in Nat

VARIABLES
    pull,       \* the pull requests at GitHub
    changes, outages,
    tracked,    \* trackedPRs
    resolving,  \* activeConflictResolutions
    ghAvailable,    \* asked for by the first poll, and never again
    poll,       \* the polls
    about,      \* what an event was fired for
    episode,    \* history: conflicts of a ticket fired since it was mergeable
    misled      \* history: tickets taken for mergeable when gh had failed

github == <<pull, changes>>
conflicts == <<resolving, episode, misled>>
pollVars == <<github, outages, tracked, conflicts, ghAvailable, poll, about>>
allVars == <<vars, pollVars>>

Pull == [state : {"open", "merged", "closed"},
         ci : {"pending", "success", "failure"},
         mergeable : {"UNKNOWN", "MERGEABLE", "CONFLICTING"}]
TrackedPR == [ci : {"pending", "success", "failure", "unknown"},
              mergeable : {"UNKNOWN", "MERGEABLE", "CONFLICTING"}]
Untracked == [ci |-> "untracked", mergeable |-> "untracked"]
NotPolling == [pc |-> "idle"]

TrackedPRs == {p \in PR : tracked[p] # Untracked}
Running(q) == poll[q].pc \in {"visit", "merge"}
Free == Quiet /\ \A q \in Poll : ~ Running(q)
Turns(q, state) == poll' = [poll EXCEPT ![q] = state]
MayFail(fails) == outages' = outages + (IF fails THEN 1 ELSE 0)
                  /\ outages' <= MaxOutage
Silent == UNCHANGED <<vars, about>>

(* fireEvent: the handler begins at once, and the poll awaits its end.      *)
Fires(e, news) ==
    /\ about[e] = <<>> /\ about' = [about EXCEPT ![e] = news]
    /\ handleEvent(e)

Returned(q, pc) ==
    /\ poll[q].pc = pc /\ handler[poll[q].event].pc = "done" /\ Free

(***************************************************************************)
(* pollGitHubPRs: first the open pull requests, one after the other.        *)
(***************************************************************************)

listOpenPRs(fails) == IF fails THEN {} ELSE {p \in PR : pull[p].state = "open"}

(* `gh' is installed and logged in, or no poll will ever look at GitHub.    *)
AsksForGh ==
    /\ ghAvailable = "unasked" /\ Free
    /\ \E fails \in BOOLEAN :
          /\ MayFail(fails)
          /\ ghAvailable' = IF fails THEN "no" ELSE "yes"
    /\ Silent /\ UNCHANGED <<github, tracked, conflicts, poll>>

Begins(q) ==
    /\ poll[q].pc = "idle" /\ Free /\ ghAvailable = "yes"
    /\ \E fails \in BOOLEAN :
          /\ Turns(q, [pc |-> "visit", open |-> listOpenPRs(fails),
                       todo |-> listOpenPRs(fails)])
          /\ MayFail(fails)
    /\ Silent /\ UNCHANGED <<github, tracked, conflicts, ghAvailable>>

(* Mutant: a call that failed leaves no result to remember.                 *)
ciError(p, fails) == IF fails THEN "error" ELSE pull[p].ci

ciState(p, fails) == IF fails THEN "unknown" ELSE pull[p].ci

(* on_ci_green or on_ci_failed if the result is another than was remembered. *)
ReadsChecks(q, p) ==
    /\ poll[q].pc = "visit" /\ p \in poll[q].todo
    /\ \E fails \in BOOLEAN, e \in Event \cup {NoEvent} :
          LET ci == ciState(p, fails)
              isNews == /\ tracked[p] # Untracked /\ ci # tracked[p].ci
                        /\ ci \in {"success", "failure"} IN
          /\ MayFail(fails)
          /\ IF isNews THEN e # NoEvent /\ Fires(e, <<ci, p>>)
             ELSE e = NoEvent /\ Silent
          /\ Turns(q, [pc |-> IF isNews THEN "ci" ELSE "merge",
                       open |-> poll[q].open, todo |-> poll[q].todo \ {p},
                       pr |-> p, was |-> tracked[p], ci |-> ci, event |-> e])
    /\ UNCHANGED <<github, tracked, conflicts, ghAvailable>>

(* When gh fails, what was remembered is kept.                              *)
Mergeable(q, fails) ==
    IF ~ fails THEN pull[poll[q].pr].mergeable
    ELSE IF poll[q].was = Untracked THEN "UNKNOWN" ELSE poll[q].was.mergeable

Tracks(q, mergeable) ==
    /\ tracked' = [tracked EXCEPT ![poll[q].pr] =
                      [ci |-> poll[q].ci, mergeable |-> mergeable]]
    /\ Turns(q, [pc |-> "visit", open |-> poll[q].open, todo |-> poll[q].todo])

(* on_pr_conflicting, unless a resolution is on its way for the ticket: it  *)
(* is until a pull request of the ticket is mergeable, or was when it was   *)
(* last remembered and gh fails.                                            *)
Announces(q, fails, isNew) ==
    LET mergeable == Mergeable(q, fails)
        ticket == {TicketOf[poll[q].pr]} \ {NoTicket}
        ended == IF mergeable = "MERGEABLE" THEN ticket ELSE {}
        seen == IF fails THEN {} ELSE ended IN
    /\ MayFail(fails)
    /\ resolving' = (resolving \ ended) \cup (IF isNew THEN ticket ELSE {})
    /\ misled' = (misled \cup (ended \cap resolving)) \ seen
    /\ IF ~ isNew
       THEN /\ Tracks(q, mergeable) /\ Silent
            /\ episode' = [t \in Ticket |-> IF t \in seen THEN {} ELSE episode[t]]
       ELSE \E e \in Event :
            /\ Fires(e, <<"conflict", poll[q].pr>>)
            /\ Turns(q, [poll[q] EXCEPT !.pc = "conflict", !.event = e])
            /\ episode' = [t \in Ticket |-> IF t \in ticket THEN episode[t] \cup {e}
                                            ELSE episode[t]]
            /\ UNCHANGED tracked
    /\ UNCHANGED <<github, ghAvailable>>

NewConflict(q, fails) ==
    /\ Mergeable(q, fails) = "CONFLICTING"
    /\ poll[q].was.mergeable # "CONFLICTING"

(* Mutant: resolutions that are on their way are not asked for.             *)
ReadsMergeableAlone(q) ==
    /\ poll[q].pc = "merge" \/ Returned(q, "ci")
    /\ \E fails \in BOOLEAN : Announces(q, fails, NewConflict(q, fails))

ReadsMergeable(q) ==
    /\ poll[q].pc = "merge" \/ Returned(q, "ci")
    /\ \E fails \in BOOLEAN :
          Announces(q, fails, /\ NewConflict(q, fails)
                              /\ TicketOf[poll[q].pr] \notin resolving)

RemembersConflict(q) ==
    /\ Returned(q, "conflict")
    /\ Tracks(q, "CONFLICTING")
    /\ Silent /\ UNCHANGED <<github, outages, conflicts, ghAvailable>>

(***************************************************************************)
(* Then those that are remembered and were not in the list.                 *)
(***************************************************************************)

Gone(q) == TrackedPRs \ poll[q].open

(* Mutant: what is gone is forgotten without asking why.                    *)
ForgetsUnasked(q, p) ==
    /\ poll[q].pc = "visit" /\ poll[q].todo = {} /\ p \in Gone(q)
    /\ tracked' = [tracked EXCEPT ![p] = Untracked]
    /\ Silent /\ UNCHANGED <<github, outages, poll, conflicts, ghAvailable>>

ChecksMerged(q, p) ==
    /\ poll[q].pc = "visit" /\ poll[q].todo = {} /\ p \in Gone(q)
    /\ \E fails \in BOOLEAN :
          /\ MayFail(fails)
          /\ IF ~ fails /\ pull[p].state = "merged"
             THEN /\ \E e \in Event :
                        /\ Fires(e, <<"merged", p>>)
                        /\ Turns(q, [pc |-> "merged", open |-> poll[q].open,
                                     todo |-> {}, pr |-> p, event |-> e])
                  /\ UNCHANGED tracked
             ELSE /\ tracked' = [tracked EXCEPT ![p] = Untracked]
                  /\ Silent /\ UNCHANGED poll
    /\ UNCHANGED <<github, conflicts, ghAvailable>>

ForgetsMerged(q) ==
    /\ Returned(q, "merged")
    /\ tracked' = [tracked EXCEPT ![poll[q].pr] = Untracked]
    /\ Turns(q, [pc |-> "visit", open |-> poll[q].open, todo |-> {}])
    /\ Silent /\ UNCHANGED <<github, outages, conflicts, ghAvailable>>

Ends(q) ==
    /\ poll[q].pc = "visit" /\ poll[q].todo = {} /\ Gone(q) = {}
    /\ Turns(q, NotPolling)
    /\ Silent /\ UNCHANGED <<github, outages, tracked, conflicts, ghAvailable>>

PollActs(q) ==
    \/ Begins(q) \/ ReadsMergeable(q) \/ RemembersConflict(q)
    \/ ForgetsMerged(q) \/ Ends(q)
    \/ \E p \in PR : ReadsChecks(q, p) \/ ChecksMerged(q, p)

(***************************************************************************)
(* GitHub, and the handlers.                                               *)
(***************************************************************************)

PullRequestChanges(p) ==
    /\ pull[p].state = "open" /\ changes < MaxChange
    /\ \/ \E ci \in {"pending", "success", "failure"} \ {pull[p].ci} :
             pull' = [pull EXCEPT ![p].ci = ci]
       \/ \E m \in {"UNKNOWN", "MERGEABLE", "CONFLICTING"} \ {pull[p].mergeable} :
             pull' = [pull EXCEPT ![p].mergeable = m]
       \/ \E state \in {"merged", "closed"} :
             pull' = [pull EXCEPT ![p].state = state]
    /\ changes' = changes + 1
    /\ Silent /\ UNCHANGED <<outages, tracked, conflicts, ghAvailable, poll>>

HandlersAct ==
    /\ \A q \in Poll : ~ Running(q)
    /\ Next
    /\ UNCHANGED pollVars

(***************************************************************************)
(* Specification.                                                          *)
(***************************************************************************)

PollInit ==
    /\ Init
    /\ pull \in [PR -> {[state |-> "open", ci |-> "pending", mergeable |-> m] :
                           m \in {"UNKNOWN", "MERGEABLE", "CONFLICTING"}}]
    /\ changes = 0 /\ outages = 0
    /\ tracked = [p \in PR |-> Untracked]
    /\ resolving = {} /\ misled = {}
    /\ ghAvailable = "unasked"
    /\ poll = [q \in Poll |-> NotPolling]
    /\ about = [e \in Event |-> <<>>]
    /\ episode = [t \in Ticket |-> {}]

PollNext ==
    \/ AsksForGh
    \/ \E q \in Poll : PollActs(q)
    \/ \E p \in PR : PullRequestChanges(p)
    \/ HandlersAct

PollSpec == PollInit /\ [][PollNext]_allVars

FairPollSpec ==
    /\ PollSpec /\ Fairness
    /\ \A q \in Poll : WF_allVars(PollActs(q))

(***************************************************************************)
(* Properties.                                                             *)
(***************************************************************************)

PollTypeOK ==
    /\ pull \in [PR -> Pull] /\ changes \in 0..MaxChange
    /\ outages \in 0..MaxOutage
    /\ tracked \in [PR -> TrackedPR \cup {Untracked}]
    /\ resolving \subseteq Ticket
    /\ ghAvailable \in {"unasked", "yes", "no"}
    /\ \A q \in Poll : poll[q].pc \in {"ci", "conflict", "merged"} =>
          about[poll[q].event][2] = poll[q].pr

(* "Track tickets with active conflict resolution to prevent duplicate      *)
(* agent spawns" (poller.ts:65): until gh says that a pull request of the   *)
(* ticket is mergeable again, no hook acts on its conflict twice, though    *)
(* polls that overlap find it both and the human may approve long after.    *)
(* A ticket is exempt once a call of gh that failed has ended a resolution: *)
(* the poller then takes the state it remembers for an answer (line 366).   *)
Acted(e, h) ==
    Range(outcome[<<e, h>>]) \cap
        {"executed", "llm approved", "human approved"} # {}
ConflictResolvedOnce ==
    \A t \in Ticket \ misled, h \in Range(Hook) : \A e, f \in episode[t] :
        Acted(e, h) /\ Acted(f, h) => e = f

(* A merge of a pull request that is remembered is announced, whichever     *)
(* polls overlap, if gh answers from then on, unless from some time on      *)
(* handlers hold the polls (or the firings of the instance are used up).    *)
Waiting == \E q \in Poll : poll[q].pc \in {"ci", "conflict", "merged"}
Announced(p) == \E e \in Event : about[e] = <<"merged", p>>
Exhausted == \A e \in Event : about[e] # <<>>
MergedIsAnnounced ==
    \A p \in PR :
        (p \in TrackedPRs /\ pull[p].state = "merged" /\ outages = MaxOutage)
            ~> (Announced(p) \/ Exhausted \/ []Waiting)
=============================================================================
