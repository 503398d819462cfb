------------------------------- MODULE AutoMerge -------------------------------
(***************************************************************************)
(* `prlt work ship' (apps/cli/src/services/work-service.ts, shipWork) and   *)
(* its watch loop for --when-green (lib/shipping/auto-merge.ts), beside the *)
(* merge queue of the sync daemon on the same pull requests.                *)
(*                                                                         *)
(* A ship is one process; every gh and git call of it is one action.  With  *)
(* --when-green it first switches GitHub's own auto-merge on, so that the   *)
(* pull request may be merged by the process, by GitHub, by the merge queue *)
(* or by a person.                                                         *)
(*                                                                         *)
(* Abstracted: the lookup of the pull request, the ticket's move after the  *)
(* merge and the event, messages; the timeout may strike at every turn of   *)
(* the loop.                                                               *)
(***************************************************************************)
EXTENDS MergeQueue

CONSTANTS
    Ship,          \* processes running `prlt work ship'
    ShipOf,        \* the pull request each was called with
    MaxRebases,    \* maxRebasesPerCycle
    MaxOutage      \* bound of the model: gh and git calls of ships that fail

ASSUME ShipAssumption ==
    /\ ShipOf \in [Ship -> PR]
    /\ MaxRebases \in Nat \ {0} /\ MaxOutage \in Nat

VARIABLES
    ship,       \* the processes
    native,     \* pull requests with GitHub's auto-merge on
    outages,    \* calls of ships that have failed
    shipped     \* history: ships whose own `gh pr merge' went through

shipVars == <<ship, native, outages, shipped>>
allVars == <<vars, shipVars>>

Flags == {"now", "wait"}        \* without --when-green: as is, or with --wait
NotStarted == [pc |-> "idle", flag |-> "now", enabled |-> FALSE, rebases |-> 0,
               seen |-> 0, listed |-> {}]

The(s) == ShipOf[s]
Is(s, pc) == ship[s].pc = pc
Goes(s, pc) == ship' = [ship EXCEPT ![s].pc = pc]
Watches(s) == ship[s].flag = "green"
QueueAside == UNCHANGED <<file, daemon, ops, bounds, history>>
OnlyReads == UNCHANGED <<pr, native, shipped>> /\ QueueAside

(* A gh or git call fails without a cause on GitHub. *)
MayFail(fails) == outages' = outages + (IF fails THEN 1 ELSE 0)
                  /\ outages' <= MaxOutage

Merged(s) == pr[The(s)].state = "MERGED"

(***************************************************************************)
(* The command begins; with --when-green it asks for native auto-merge,     *)
(* which GitHub may refuse.                                                *)
(***************************************************************************)

shipWork(s) ==
    /\ Is(s, "idle") /\ The(s) \in Open
    /\ \E flag \in Flags :
          ship' = [ship EXCEPT ![s].pc = "checks", ![s].flag = flag]
    /\ MayFail(FALSE) /\ OnlyReads

enableAutoMerge(s) ==
    /\ Is(s, "idle") /\ The(s) \in Open
    /\ \E works \in BOOLEAN :
          /\ ship' = [ship EXCEPT ![s].pc = "poll", ![s].flag = "green",
                                  ![s].enabled = works]
          /\ native' = IF works THEN native \cup {The(s)} ELSE native
          /\ MayFail(~ works)
    /\ UNCHANGED <<pr, shipped>> /\ QueueAside

(* --all --when-green only switches native auto-merge on; without           *)
(* --when-green it is shipWork for every pull request that is green.        *)
shipAll(s) ==
    /\ Is(s, "idle") /\ The(s) \in Open
    /\ \E works \in BOOLEAN :
          /\ ship' = [ship EXCEPT ![s].pc = "gave up", ![s].flag = "green",
                                  ![s].enabled = works]
          /\ native' = IF works THEN native \cup {The(s)} ELSE native
          /\ MayFail(~ works)
    /\ UNCHANGED <<pr, shipped>> /\ QueueAside

(***************************************************************************)
(* The watch loop.  isPRMerged answers FALSE when gh fails.                 *)
(***************************************************************************)

Polls(s) ==
    /\ Is(s, "poll")
    /\ \E fails \in BOOLEAN :
          /\ Goes(s, IF Merged(s) /\ ~ fails THEN "siblings" ELSE "checks")
          /\ MayFail(fails)
    /\ OnlyReads

TimesOut(s) ==
    /\ \/ Is(s, "poll")
       \/ Is(s, "checks") /\ ~ Watches(s)
    /\ Goes(s, "gave up")
    /\ MayFail(FALSE) /\ OnlyReads

(* Where the ship goes once no check is pending and none has failed: the    *)
(* second time without --when-green it does not look for conflicts again.   *)
AfterGreen(s) == IF ~ Watches(s) /\ ship[s].rebases > 0 THEN "merge"
                 ELSE "conflicts"

(* `seen' is the head a ship last saw, `listed' the checks it saw of it      *)
(* that have not been run again since.                                      *)
Read(s, pc) ==
    ship' = [ship EXCEPT ![s].pc = pc, ![s].seen = pr[The(s)].head,
                         ![s].listed = getPRChecks(The(s))]

(* Mutant: pending checks are not looked for. *)
ReadsFailedOnly(s) ==
    LET p == The(s) IN
    /\ Is(s, "checks") /\ getPRChecks(p) # {}
    /\ Read(s, IF failed(p) # {} THEN "off" ELSE AfterGreen(s))
    /\ MayFail(FALSE) /\ OnlyReads

ReadsChecks(s) ==
    LET p == The(s) IN
    /\ Is(s, "checks") /\ getPRChecks(p) # {}
    /\ \/ /\ pending(p) # {}
          /\ Read(s, IF Watches(s) THEN "poll"
                     ELSE IF ship[s].flag = "wait" \/ ship[s].rebases > 0
                     THEN "checks" ELSE "off")
       \/ /\ pending(p) = {} /\ failed(p) # {}
          /\ Read(s, "off")
       \/ /\ pending(p) = {} /\ failed(p) = {}
          /\ Read(s, AfterGreen(s))
    /\ MayFail(FALSE) /\ OnlyReads

(* No checks on GitHub, or a gh that failed: both count as no CI, and with  *)
(* --when-green the pull request is merged without a look for conflicts.    *)
ReadsNoChecks(s) ==
    /\ Is(s, "checks")
    /\ ship' = [ship EXCEPT ![s].pc = IF Watches(s) THEN "merge" ELSE AfterGreen(s),
                            ![s].seen = 0, ![s].listed = {}]
    /\ MayFail(getPRChecks(The(s)) # {})
    /\ OnlyReads

(* Mutant: the rebases are not counted. *)
FindsConflictsAgain(s) ==
    /\ Is(s, "conflicts") /\ pr[The(s)].conflict
    /\ Goes(s, "rebase")
    /\ MayFail(FALSE) /\ OnlyReads

(* checkMergeConflicts; --no-rebase and the limit end the ship.             *)
FindsConflicts(s) ==
    /\ Is(s, "conflicts") /\ pr[The(s)].conflict
    /\ \/ ship[s].rebases \in {0, MaxRebases} /\ Goes(s, "off")
       \/ ship[s].rebases < MaxRebases /\ Goes(s, "rebase")
    /\ MayFail(FALSE) /\ OnlyReads

FindsNoConflicts(s) ==
    /\ Is(s, "conflicts")
    /\ Goes(s, IF Watches(s) THEN "confirm" ELSE "merge")
    /\ MayFail(pr[The(s)].conflict)
    /\ OnlyReads

(* rebaseOntoBase: fetch, check out, rebase, force-push.  Then CI again, of  *)
(* which the ship has to see every check.                                   *)
rebaseOntoBase(s) ==
    LET p == The(s) IN
    /\ Is(s, "rebase")
    /\ pr' = [BranchUpdated(p) EXCEPT ![p].conflict = @ /\ pr[p].state # "OPEN"]
    /\ ship' = [ship EXCEPT ![s].pc = IF Watches(s) THEN "poll" ELSE "checks",
                            ![s].rebases = @ + 1, ![s].seen = pr'[p].head,
                            ![s].listed = Check]
    /\ MayFail(FALSE)
    /\ UNCHANGED <<native, shipped>> /\ QueueAside

CannotRebase(s) ==
    /\ Is(s, "rebase") /\ Goes(s, "off")
    /\ MayFail(~ pr[The(s)].conflict) /\ OnlyReads

Confirms(s) ==
    /\ Is(s, "confirm") \/ Is(s, "again")
    /\ \E fails \in BOOLEAN :
          /\ Goes(s, IF Merged(s) /\ ~ fails THEN "siblings"
                     ELSE IF Is(s, "again") THEN "gave up" ELSE "merge green")
          /\ MayFail(fails)
    /\ OnlyReads

(* gh pr merge --delete-branch, which also exits non-zero when it has merged *)
(* and the branch could not be deleted.                                     *)
Merges(s) ==
    LET p == The(s) IN
    /\ Is(s, "merge") \/ Is(s, "merge green")
    /\ p \in Open /\ ~ pr[p].refused /\ ~ pr[p].conflict
    /\ \E S \in SUBSET (Open \ {p}) : pr' = MergedOnGitHub(p, S)
    /\ native' = native \ {p}
    /\ shipped' = shipped \cup {s}
    /\ \/ Goes(s, "siblings")
       \/ Goes(s, IF Is(s, "merge") THEN "gave up" ELSE "again")
    /\ MayFail(FALSE) /\ QueueAside

CannotMerge(s) ==
    LET p == The(s) IN
    /\ Is(s, "merge") \/ Is(s, "merge green")
    /\ Goes(s, IF Is(s, "merge") THEN "gave up" ELSE "again")
    /\ MayFail(p \in Open /\ ~ pr[p].refused /\ ~ pr[p].behind
               /\ ~ pr[p].conflict)
    /\ OnlyReads

(* Mutant: the ship ends and leaves GitHub as it is. *)
endsEnabled(s) ==
    /\ Is(s, "off")
    /\ Goes(s, "failed")
    /\ MayFail(FALSE) /\ OnlyReads

(* After a red check or conflicts: what was switched on is switched off;    *)
(* nobody looks whether that worked.                                       *)
disableAutoMerge(s) ==
    /\ Is(s, "off")
    /\ \E fails \in BOOLEAN :
          /\ Goes(s, IF fails THEN "gave up" ELSE "failed")
          /\ fails => ship[s].enabled
          /\ native' = IF ship[s].enabled /\ ~ fails THEN native \ {The(s)}
                       ELSE native
          /\ MayFail(fails)
    /\ UNCHANGED <<pr, shipped>> /\ QueueAside

(* rebaseSiblingPRs after the merge.                                       *)
RebasesSiblings(s) ==
    /\ Is(s, "siblings")
    /\ \E S \in SUBSET {p \in Open \ {The(s)} : pr[p].conflict} :
          pr' = [p \in PR |-> IF p \in S
                              THEN [BranchUpdated(p)[p] EXCEPT !.conflict = FALSE]
                              ELSE pr[p]]
    /\ Goes(s, "done")
    /\ MayFail(FALSE)
    /\ UNCHANGED <<native, shipped>> /\ QueueAside

ShipDies(s) ==
    /\ ship[s].pc \notin {"idle", "done", "failed", "gave up"}
    /\ Goes(s, "gave up")
    /\ MayFail(TRUE) /\ OnlyReads

(***************************************************************************)
(* GitHub merges a pull request on its own once its checks are green.       *)
(***************************************************************************)

NativeMerges(p) ==
    /\ p \in native /\ p \in buildMergeQueue
    /\ ~ pr[p].conflict /\ ~ pr[p].refused
    /\ \E S \in SUBSET (Open \ {p}) : pr' = MergedOnGitHub(p, S)
    /\ native' = native \ {p}
    /\ UNCHANGED <<ship, outages, shipped>> /\ QueueAside

(* What is merged or closed by others has no auto-merge any more.           *)
RunAgain(p) == {c \in Check : /\ pr[p].ci[c] \in AnyConclusion
                              /\ pr'[p].ci[c] = "pending"}

OthersAct ==
    /\ Next
    /\ native' = {p \in native : pr'[p].state = "OPEN"}
    /\ ship' = [s \in Ship |-> [ship[s] EXCEPT !.listed = @ \ RunAgain(The(s))]]
    /\ UNCHANGED <<outages, shipped>>

(***************************************************************************)
(* Specification.                                                          *)
(***************************************************************************)

ShipInit ==
    /\ ship = [s \in Ship |-> NotStarted]
    /\ native = {} /\ outages = 0 /\ shipped = {}

Starts(s) == shipWork(s) \/ enableAutoMerge(s) \/ shipAll(s)

watchAndShip(s) ==
    \/ Polls(s) \/ TimesOut(s) \/ ReadsChecks(s) \/ ReadsNoChecks(s)
    \/ FindsConflicts(s) \/ FindsNoConflicts(s)
    \/ rebaseOntoBase(s) \/ CannotRebase(s)
    \/ Confirms(s) \/ Merges(s) \/ CannotMerge(s)
    \/ disableAutoMerge(s) \/ RebasesSiblings(s)

ShipNext ==
    \/ \E s \in Ship : Starts(s) \/ watchAndShip(s) \/ ShipDies(s)
    \/ \E p \in PR : NativeMerges(p)
    \/ OthersAct

ShipSpec == Init /\ ShipInit /\ [][ShipNext]_allVars

(***************************************************************************)
(* Properties.                                                             *)
(***************************************************************************)

ShipTypeOK ==
    /\ \A s \in Ship :
          /\ ship[s].pc \in {"idle", "poll", "checks", "conflicts", "rebase",
                             "confirm", "merge", "merge green", "again", "off",
                             "siblings", "done", "failed", "gave up"}
          /\ ship[s].rebases \in 0..MaxRebases
          /\ ship[s].enabled => Watches(s)
    /\ native \subseteq Open
    /\ outages \in 0..MaxOutage
    /\ shipped \subseteq Ship

(* A ship merges no commit it knows to be untested: when its merge goes     *)
(* through on the head it last saw, every check it read of it, and after    *)
(* its own rebase every check there is, has ended and has not failed,       *)
(* unless it was run again since, gh told the ship that there are none, or  *)
(* someone else moved the head (auto-merge.ts:208-275).  A check that       *)
(* registers only after the read is not waited for.                         *)
ShippedAsSeen ==
    [][\A s \in shipped' \ shipped : ship[s].seen = pr[The(s)].head =>
          \A c \in ship[s].listed :
             pr[The(s)].ci[c] \notin {"absent", "pending", "FAILURE"}]_shipped

(* GitHub's auto-merge is on only for a ship that still watches, or that    *)
(* ended in a way that leaves it on: a timeout, a refused merge, its death  *)
(* or a gh that failed to switch it off.  After "CI checks failed" or       *)
(* unresolved conflicts nothing merges the pull request behind the user.    *)
NativeOnlyWhileWatched ==
    \A p \in native : \E s \in Ship :
        /\ The(s) = p /\ ship[s].enabled
        /\ ship[s].pc \notin {"idle", "failed", "siblings", "done"}
===============================================================================
