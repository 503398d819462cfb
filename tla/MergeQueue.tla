------------------------------ MODULE MergeQueue ------------------------------
(***************************************************************************)
(* The merge queue of the sync daemon (apps/cli/src/lib/sync/merge-queue.ts *)
(* with shipping/rebase.ts): one cycle per interval takes the best green    *)
(* pull request, rebases it, waits for CI over later cycles, and merges or  *)
(* ejects it.                                                               *)
(*                                                                         *)
(* A cycle is synchronous code in one process, but every call of it leaves  *)
(* the process: GitHub, the authors, CI and the `prlt sync pause' and       *)
(* `resume' commands act between its steps.  The state file is read when a  *)
(* cycle begins and the whole of it is written when the cycle ends.         *)
(*                                                                         *)
(* Abstracted: timestamps, reasons, ticket ids, labels and comments (best   *)
(* effort, nothing reads them back), and the reads of buildMergeQueue are   *)
(* one step; the rebases that use its result are not.                       *)
(***************************************************************************)
EXTENDS Naturals, Sequences, FiniteSets

CONSTANTS
    PR, NoPR,            \* pull requests of the repository, and null
    Priority,            \* branchPriorities, P0 first
    Created,             \* createdAt
    Drafts,              \* the drafts among them
    Blocked,             \* those branch protection may refuse (no review)
    Check,               \* the checks CI runs on a commit
    Conclusions,         \* how a check may end
    Operators,           \* processes running `prlt sync pause' or `resume'
    Torn,                \* a file truncated and not yet written again
    MaxEjected,          \* MAX_EJECTED_HISTORY
    MaxPush,             \* bound of the model: pushes and re-runs of checks
    MaxFailure, MaxCrash \* bounds of the model: failing gh calls, crashes

Green == {"SUCCESS", "NEUTRAL", "SKIPPED"}
AnyConclusion == Green \cup {"FAILURE", "CANCELLED", "TIMED_OUT",
                             "ACTION_REQUIRED"}

ASSUME ConstantsAssumption ==
    /\ NoPR \notin PR
    /\ Priority \in [PR -> 0..3] /\ Created \in [PR -> Nat]
    /\ \A p, q \in PR : Created[p] = Created[q] => p = q
    /\ Drafts \subseteq PR /\ Blocked \subseteq PR
    /\ Check # {}
    /\ Conclusions \subseteq AnyConclusion /\ Conclusions # {}
    /\ MaxEjected \in Nat
    /\ MaxPush \in Nat /\ MaxFailure \in Nat /\ MaxCrash \in Nat

VARIABLES
    file,       \* merge-queue.json
    daemon,     \* the cycle: where it is, its copy of the state, its PR list
    ops,        \* the pause and resume commands under way
    pr,         \* the pull requests on GitHub
    pushes, failures, crashes,    \* bounded events
    rebased,    \* history: PRs whose branch the queue has updated
    merged,     \* history: PRs the queue has merged
    recorded,   \* history: PRs ever saved as lastMergedPR
    tested,     \* history: the head whose checks were last read, and those of
                \* the checks listed then that have not been run again since
    damage      \* history: the mishaps that may cost the file its content

history == <<rebased, merged, recorded, tested, damage>>
bounds == <<pushes, failures, crashes>>
vars == <<file, daemon, ops, pr, bounds, history>>

CI == {"absent", "pending"} \cup AnyConclusion
PullRequest == [state : {"OPEN", "CLOSED", "MERGED"}, head : Nat \ {0},
                ci : [Check -> CI], behind : BOOLEAN, conflict : BOOLEAN,
                refused : BOOLEAN]
State == [paused : BOOLEAN, current : PR \cup {NoPR},
          lastMerged : PR \cup {NoPR}, ejected : Seq(PR)]

ASSUME TornAssumption == Torn \notin State

getDefaultState ==
    [paused |-> FALSE, current |-> NoPR, lastMerged |-> NoPR, ejected |-> <<>>]

(* A file that does not parse reads as the default state. *)
getMergeQueueState == IF file = Torn THEN getDefaultState ELSE file

(***************************************************************************)
(* GitHub, the authors and CI.                                             *)
(***************************************************************************)

Open == {p \in PR : pr[p].state = "OPEN"}
getPRChecks(p) == {c \in Check : pr[p].ci[c] # "absent"}
NoChecks == [c \in Check |-> "absent"]

(* Someone merges p: the others fall behind, and some of them conflict.     *)
MergedOnGitHub(p, conflicting) ==
    [q \in PR |->
       IF q = p THEN [pr[q] EXCEPT !.state = "MERGED"]
       ELSE [pr[q] EXCEPT !.behind = TRUE,
                          !.conflict = @ \/ q \in conflicting]]

(* The branch is rebased; nothing happens to one that is up to date.        *)
BranchUpdated(p) ==
    IF pr[p].behind /\ pr[p].state = "OPEN"
    THEN [pr EXCEPT ![p].head = @ + 1, ![p].ci = NoChecks, ![p].behind = FALSE]
    ELSE pr

(* The jobs of a workflow register one after the other: those that need     *)
(* another (.github/workflows/test.yml) are absent until it has ended.      *)
CIStarts(p, c) ==
    /\ p \in Open /\ pr[p].ci[c] = "absent"
    /\ pr' = [pr EXCEPT ![p].ci[c] = "pending"]
    /\ UNCHANGED <<file, daemon, ops, bounds, history>>

CheckEnds(p, c, conclusion) ==
    /\ p \in Open /\ pr[p].ci[c] = "pending"
    /\ pr' = [pr EXCEPT ![p].ci[c] = conclusion]
    /\ UNCHANGED <<file, daemon, ops, bounds, history>>

CheckReruns(p, c) ==
    /\ p \in Open /\ pr[p].ci[c] \in AnyConclusion
    /\ pushes < MaxPush /\ pushes' = pushes + 1
    /\ pr' = [pr EXCEPT ![p].ci[c] = "pending"]
    /\ tested' = [tested EXCEPT ![p].checks = @ \ {c}]
    /\ UNCHANGED <<file, daemon, ops, failures, crashes, rebased, merged,
                   recorded, damage>>

CIStep(p) == \E c \in Check :
    \/ CIStarts(p, c) \/ CheckReruns(p, c)
    \/ \E k \in Conclusions : CheckEnds(p, c, k)

(* The author pushes a commit, which may also settle the conflicts. *)
Push(p) ==
    /\ p \in Open /\ pushes < MaxPush
    /\ pushes' = pushes + 1
    /\ pr' = [pr EXCEPT ![p].head = @ + 1, ![p].ci = NoChecks,
                        ![p].conflict = FALSE]
    /\ UNCHANGED <<file, daemon, ops, failures, crashes, history>>

HumanCloses(p) ==
    /\ p \in Open
    /\ \/ pr' = [pr EXCEPT ![p].state = "CLOSED"]
       \/ \E S \in SUBSET (Open \ {p}) : pr' = MergedOnGitHub(p, S)
    /\ UNCHANGED <<file, daemon, ops, bounds, history>>

GhFails ==
    /\ failures < MaxFailure
    /\ failures' = failures + 1
    /\ UNCHANGED <<pushes, crashes>>

(***************************************************************************)
(* One cycle of the daemon.                                                *)
(***************************************************************************)

At(step) == daemon.pc = step
Goto(step, state, todo) ==
    daemon' = [pc |-> step, state |-> state, todo |-> todo]
Current == daemon.state.current

Before(p, q) == \/ Priority[p] < Priority[q]
                \/ Priority[p] = Priority[q] /\ Created[p] < Created[q]

allChecksGreen(p) == \A c \in getPRChecks(p) : pr[p].ci[c] \in Green
buildMergeQueue ==
    {p \in Open \ Drafts : getPRChecks(p) # {} /\ allChecksGreen(p)}

(* Mutant: only the list that is one too long already is cut. *)
ejectPRWithoutLimit(state, p) == [state EXCEPT !.ejected = <<p>> \o @]

ejectPR(state, p) ==
    [state EXCEPT !.ejected = SubSeq(<<p>> \o @, 1,
                                 IF Len(@) < MaxEjected THEN Len(@) + 1
                                                        ELSE MaxEjected)]

CycleStarts ==
    LET state == getMergeQueueState IN
    /\ At("idle")
    /\ Goto(IF state.paused THEN "save"
            ELSE IF state.current # NoPR THEN "lookup" ELSE "build", state, {})
    /\ damage' = damage \cup (IF file = Torn THEN {"torn"} ELSE {})
    /\ UNCHANGED <<file, ops, pr, bounds, rebased, merged, recorded, tested>>

(* Step 3: list the queue; a gh call that fails drops pull requests of it.  *)
CycleBuilds ==
    /\ At("build")
    /\ \E listed \in SUBSET buildMergeQueue :
          /\ Goto(IF listed = {} THEN "save" ELSE "rebase", daemon.state, listed)
          /\ IF listed = buildMergeQueue THEN UNCHANGED bounds ELSE GhFails
    /\ UNCHANGED <<file, ops, pr, history>>

First(S) == {p \in S : \A q \in S \ {p} : Before(p, q)}

CycleRebases(p) ==
    /\ At("rebase") /\ p \in First(daemon.todo)
    /\ ~ pr[p].conflict
    /\ pr' = BranchUpdated(p)
    /\ rebased' = rebased \cup {p}
    /\ Goto("save", [daemon.state EXCEPT !.current = p], {})
    /\ UNCHANGED <<file, ops, bounds, merged, recorded, tested, damage>>

(* Mutant: the loop forgets that the rebase failed. *)
CycleTakesAnyway(p) ==
    /\ At("rebase") /\ p \in First(daemon.todo)
    /\ IF pr[p].conflict THEN UNCHANGED bounds ELSE GhFails
    /\ Goto("save", [ejectPR(daemon.state, p) EXCEPT !.current = p], {})
    /\ UNCHANGED <<file, ops, pr, rebased, merged, recorded, tested,
                   damage>>

CycleCannotRebase(p) ==
    /\ At("rebase") /\ p \in First(daemon.todo)
    /\ IF pr[p].conflict THEN UNCHANGED bounds ELSE GhFails
    /\ Goto(IF daemon.todo = {p} THEN "save" ELSE "rebase",
            ejectPR(daemon.state, p), daemon.todo \ {p})
    /\ UNCHANGED <<file, ops, pr, rebased, merged, recorded, tested,
                   damage>>

(* processCurrentPR: getPRByNumber finds it open, or not, or fails.         *)
LookupOpen ==
    /\ At("lookup") /\ pr[Current].state = "OPEN"
    /\ Goto("checks", daemon.state, {})
    /\ UNCHANGED <<file, ops, pr, bounds, history>>

(* Mutant: a pull request found merged is cleared and not recorded. *)
LookupForgetsMerged ==
    /\ At("lookup") /\ pr[Current].state # "OPEN"
    /\ Goto("save", [daemon.state EXCEPT !.current = NoPR], {})
    /\ UNCHANGED <<file, ops, pr, bounds, history>>

LookupDone ==
    /\ At("lookup") /\ pr[Current].state # "OPEN"
    /\ Goto("save",
            [daemon.state EXCEPT
               !.current = NoPR,
               !.lastMerged = IF pr[Current].state = "MERGED" THEN Current
                                                              ELSE @], {})
    /\ UNCHANGED <<file, ops, pr, bounds, history>>

LookupFails ==
    /\ At("lookup") /\ GhFails
    /\ Goto("save", [daemon.state EXCEPT !.current = NoPR], {})
    /\ damage' = damage \cup {"lookup"}
    /\ UNCHANGED <<file, ops, pr, rebased, merged, recorded, tested>>

(* Mutant: CI counts as pending only while every check is. *)
allPending(p) ==
    IF \A c \in getPRChecks(p) : pr[p].ci[c] = "pending" THEN Check ELSE {}

pending(p) == {c \in getPRChecks(p) : pr[p].ci[c] = "pending"}
failed(p) == {c \in getPRChecks(p) : pr[p].ci[c] = "FAILURE"}

ChecksRead ==
    LET p == Current IN
    /\ At("checks")
    /\ tested' = [tested EXCEPT ![p] = [head |-> pr[p].head,
                                        checks |-> getPRChecks(p)]]
    /\ \/ /\ getPRChecks(p) = {} \/ pending(p) # {}
          /\ Goto("save", daemon.state, {})
       \/ /\ pending(p) = {} /\ failed(p) # {}
          /\ Goto("save", [ejectPR(daemon.state, p) EXCEPT !.current = NoPR], {})
       \/ /\ getPRChecks(p) # {} /\ pending(p) = {} /\ failed(p) = {}
          /\ Goto("merge", daemon.state, {})
    /\ UNCHANGED <<file, ops, pr, bounds, rebased, merged, recorded,
                   damage>>

(* A getPRChecks that fails returns no checks: the cycle waits. *)
ChecksFail ==
    /\ At("checks") /\ GhFails
    /\ Goto("save", daemon.state, {})
    /\ UNCHANGED <<file, ops, pr, history>>

(* gh pr merge --delete-branch: branch protection may, but need not, want   *)
(* an up-to-date branch; gh exits non-zero also when it has merged and the  *)
(* branch could not be deleted.                                             *)
CycleMerges ==
    LET p == Current IN
    /\ At("merge")
    /\ p \in Open /\ ~ pr[p].refused /\ ~ pr[p].conflict
    /\ \E S \in SUBSET (Open \ {p}) : pr' = MergedOnGitHub(p, S)
    /\ merged' = merged \cup {p}
    /\ \/ Goto("list",
               [daemon.state EXCEPT !.current = NoPR, !.lastMerged = p], {})
       \/ Goto("recheck", daemon.state, {})
    /\ UNCHANGED <<file, ops, bounds, rebased, recorded, tested, damage>>

CycleCannotMerge ==
    LET p == Current IN
    /\ At("merge")
    /\ IF p \notin Open \/ pr[p].refused \/ pr[p].behind \/ pr[p].conflict
       THEN UNCHANGED bounds ELSE GhFails
    /\ Goto("recheck", daemon.state, {})
    /\ UNCHANGED <<file, ops, pr, history>>

RecheckMerged ==
    /\ At("recheck") /\ pr[Current].state = "MERGED"
    /\ Goto("save",
            [daemon.state EXCEPT !.current = NoPR, !.lastMerged = Current], {})
    /\ UNCHANGED <<file, ops, pr, bounds, history>>

(* Not merged, or a lookup that failed: a merge is then forgotten.          *)
RecheckEjects ==
    /\ At("recheck")
    /\ \/ pr[Current].state # "MERGED" /\ UNCHANGED <<bounds, damage>>
       \/ GhFails /\ damage' = damage \cup {"lookup"}
    /\ Goto("save", [ejectPR(daemon.state, Current) EXCEPT !.current = NoPR],
            {})
    /\ UNCHANGED <<file, ops, pr, rebased, merged, recorded, tested>>

(* rebaseSiblingPRs: list the open ones, then update those that conflict.   *)
(* The update of one in conflict fails unless the conflict has gone since.  *)
SiblingsListed ==
    /\ At("list")
    /\ Goto(IF Open = {} THEN "save" ELSE "siblings", daemon.state, Open)
    /\ UNCHANGED <<file, ops, pr, bounds, history>>

SiblingVisited(p) ==
    /\ At("siblings") /\ p \in daemon.todo
    /\ Goto(IF daemon.todo = {p} THEN "save" ELSE "siblings",
            daemon.state, daemon.todo \ {p})
    /\ \/ UNCHANGED pr
       \/ pr[p].conflict /\ pr' = [BranchUpdated(p) EXCEPT ![p].conflict = FALSE]
    /\ UNCHANGED <<file, ops, bounds, history>>

(* saveMergeQueueState: writeFileSync truncates, then writes.               *)
CycleTruncates ==
    /\ At("save")
    /\ file' = Torn
    /\ Goto("write", daemon.state, {})
    /\ UNCHANGED <<ops, pr, bounds, history>>

CycleWrites ==
    /\ At("write")
    /\ file' = daemon.state
    /\ recorded' = recorded \cup ({daemon.state.lastMerged} \ {NoPR})
    /\ Goto("idle", getDefaultState, {})
    /\ UNCHANGED <<ops, pr, bounds, rebased, merged, tested,
                   damage>>

DaemonCrashes ==
    /\ crashes < MaxCrash /\ ~ At("idle") /\ ~ At("stopped")
    /\ crashes' = crashes + 1
    /\ Goto("idle", getDefaultState, {})
    /\ damage' = damage \cup (IF At("write") THEN {"torn"} ELSE {})
    /\ UNCHANGED <<file, ops, pr, pushes, failures, rebased, merged, recorded,
                   tested>>

(***************************************************************************)
(* prlt sync pause and prlt sync resume: read and refuse what is already    *)
(* so; read again, change the flag of the copy, write the whole copy.       *)
(***************************************************************************)

NoCommand == [pc |-> "idle", state |-> getDefaultState]

CommandChecks(o, flag) ==
    /\ ops[o].pc = "idle"
    /\ getMergeQueueState.paused # flag
    /\ ops' = [ops EXCEPT ![o] = [pc |-> "read",
                                  state |-> [getDefaultState EXCEPT
                                               !.paused = flag]]]
    /\ UNCHANGED <<file, daemon, pr, bounds, history>>

CommandReads(o) ==
    /\ ops[o].pc = "read"
    /\ ops' = [ops EXCEPT ![o] = [pc |-> "save",
                                  state |-> [getMergeQueueState EXCEPT
                                               !.paused = ops[o].state.paused]]]
    /\ damage' = damage \cup (IF file = Torn THEN {"torn"} ELSE {})
    /\ UNCHANGED <<file, daemon, pr, bounds, rebased, merged, recorded, tested>>

(* What the daemon saved since the command read is overwritten, or what      *)
(* another command has truncated the file to write.                        *)
Overwrites(o) ==
    \E s \in ({file} \ {Torn})
             \cup {ops[q].state : q \in {x \in Operators \ {o} :
                                          file = Torn /\ ops[x].pc = "write"}} :
        [s EXCEPT !.paused = ops[o].state.paused] # ops[o].state

CommandTruncates(o) ==
    /\ ops[o].pc = "save"
    /\ damage' = damage \cup (IF Overwrites(o) THEN {"overwritten"} ELSE {})
    /\ file' = Torn
    /\ ops' = [ops EXCEPT ![o].pc = "write"]
    /\ UNCHANGED <<daemon, pr, bounds, rebased, merged, recorded, tested>>

CommandWrites(o) ==
    /\ ops[o].pc = "write"
    /\ damage' = damage \cup (IF Overwrites(o) THEN {"overwritten"} ELSE {})
    /\ file' = ops[o].state
    /\ ops' = [ops EXCEPT ![o] = NoCommand]
    /\ UNCHANGED <<daemon, pr, bounds, rebased, merged, recorded, tested>>

(***************************************************************************)
(* Specification.                                                          *)
(***************************************************************************)

(* The daemon runs or not, and some pull requests are open. *)
Beginning(runs, open) ==
    /\ file = getDefaultState
    /\ daemon = [pc |-> IF runs THEN "idle" ELSE "stopped", state |-> getDefaultState, todo |-> {}]
    /\ pr \in [PR -> {[state |-> t, head |-> 1, ci |-> NoChecks,
                       behind |-> b, conflict |-> k, refused |-> f] :
                          t \in {"OPEN", "CLOSED"},
                          b \in BOOLEAN, k \in BOOLEAN, f \in BOOLEAN}]
    /\ Open = open
    /\ \A p \in PR : /\ pr[p].conflict => pr[p].behind
                     /\ pr[p].refused => p \in Blocked
                     /\ pr[p].behind => p \in open
    /\ rebased = {} /\ merged = {} /\ recorded = {}
    /\ tested = [p \in PR |-> [head |-> 0, checks |-> {}]]
    /\ damage = {}

InitFrom(runs, open) ==
    /\ Beginning(runs, open)
    /\ ops = [o \in Operators |-> NoCommand]
    /\ pushes = 0 /\ failures = 0 /\ crashes = 0

Init == InitFrom(TRUE, PR)

ProcessCurrent ==
    \/ LookupOpen \/ LookupDone \/ LookupFails
    \/ ChecksRead \/ ChecksFail
    \/ CycleMerges \/ CycleCannotMerge
    \/ RecheckMerged \/ RecheckEjects

PickNext == CycleBuilds \/ \E p \in PR : CycleRebases(p) \/ CycleCannotRebase(p)

Siblings == SiblingsListed \/ \E p \in PR : SiblingVisited(p)

Save == CycleTruncates \/ CycleWrites

runMergeQueueCycle ==
    CycleStarts \/ ProcessCurrent \/ PickNext \/ Siblings \/ Save

Command(o) ==
    \/ \E flag \in BOOLEAN : CommandChecks(o, flag)
    \/ CommandReads(o) \/ CommandTruncates(o) \/ CommandWrites(o)

GitHub == \E p \in PR : CIStep(p) \/ Push(p) \/ HumanCloses(p)

Next ==
    \/ runMergeQueueCycle
    \/ DaemonCrashes
    \/ \E o \in Operators : Command(o)
    \/ GitHub

Spec == Init /\ [][Next]_vars

(***************************************************************************)
(* Properties.                                                             *)
(***************************************************************************)

StateOK(s) == s \in State /\ Len(s.ejected) <= MaxEjected
FileOK == file = Torn \/ StateOK(file)

AtCurrent == At("lookup") \/ At("checks") \/ At("merge") \/ At("recheck")
DaemonSteps == {"stopped", "idle", "build", "rebase", "lookup", "checks",
                "merge", "recheck", "list", "siblings", "save", "write"}
DaemonOK ==
    /\ daemon \in [pc : DaemonSteps, state : State, todo : SUBSET PR]
    /\ StateOK(daemon.state)
    /\ AtCurrent => Current \in PR

OpsOK ==
    /\ ops \in [Operators -> [pc : {"idle", "read", "save", "write"}, state : State]]
    /\ \A o \in Operators : StateOK(ops[o].state)

BoundsOK == /\ pushes \in 0..MaxPush /\ failures \in 0..MaxFailure
            /\ crashes \in 0..MaxCrash

HistoryOK == /\ rebased \subseteq PR /\ merged \subseteq PR /\ recorded \subseteq PR
             /\ tested \in [PR -> [head : Nat, checks : SUBSET Check]]
             /\ damage \subseteq {"torn", "lookup", "overwritten"}

TypeOK == /\ FileOK /\ DaemonOK /\ OpsOK /\ BoundsOK /\ HistoryOK
          /\ pr \in [PR -> PullRequest]

(* The queue merges only what it has rebased itself, whatever state file a  *)
(* crash, a pause command or a failed gh call left behind (merge-queue.ts   *)
(* makes a pull request current only after updatePRBranch has succeeded).   *)
MergedWasRebased == merged \subseteq rebased

(* When the queue merges the commit whose checks it read, every check that  *)
(* was listed then has ended and has not failed, although CI goes on        *)
(* between the read and the merge.  A check that registers or is run again  *)
(* only after the read is not waited for (merge-queue.ts:365 asks for a     *)
(* list that is not empty, never for a complete one).                       *)
MergedWithoutFailure ==
    [][\A p \in merged' \ merged : tested[p].head = pr[p].head =>
          \A c \in tested[p].checks : pr[p].ci[c] \notin {"pending", "FAILURE"}
      ]_merged

(* A merge is never forgotten: until it is saved as lastMergedPR the pull   *)
(* request stays current in the file, so that the next cycle finds it       *)
(* merged and records it.  Only a gh lookup that failed, a torn file or an  *)
(* overwritten one may lose it.                                             *)
Versions ==
    ({file} \ {Torn})
    \cup {s \in {daemon.state} : At("write")}
    \cup {ops[o].state : o \in {q \in Operators :
                                   file = Torn /\ ops[q].pc = "write"}}

MergeIsRecorded ==
    damage = {} =>
        \A p \in merged \ recorded :
            \E s \in Versions : p \in {s.current, s.lastMerged}

(* What the comments and messages promise.                                  *)

(* "rebase on main -> wait for CI -> merge if green" (merge-queue.ts:8),    *)
(* green being what allChecksGreen says it is (merge-queue.ts:481).         *)
MergedIfGreen ==
    [][\A p \in merged' \ merged : tested[p].head = pr[p].head =>
          \A c \in tested[p].checks : pr[p].ci[c] \in Green]_merged
=============================================================================
