--------------------------- MODULE GarbageCollection ---------------------------
(***************************************************************************)
(* Garbage collection of agents (apps/cli/src/lib/gc/index.ts, liveness.ts, *)
(* commands/gc.ts and phase 3 of lib/sync/daemon-process.ts) beside the     *)
(* commands and agents of AgentWorkspace.                                  *)
(*                                                                         *)
(* A collector lists the containers and the worktrees once, asks gh for the *)
(* pull request of one branch after the other, and then works off what it   *)
(* takes for dead.  Other processes act between any two of its calls.       *)
(*                                                                         *)
(* Abstracted: the columns of agent_work, Claude's session data, local      *)
(* branches; of a pull request its state and whether it has gone stale; a   *)
(* worktree may have any age, and lsof may or may not see a session.        *)
(***************************************************************************)
EXTENDS AgentWorkspace

CONSTANTS
    Daemon,     \* the sync daemon, which collects branches it has scheduled
    Requires,   \* can require be called?  Not in the build, an ES module
    MaxOutage   \* bound of the model: calls of gh, docker and tmux that fail

ASSUME CollectorsAssumption ==
    /\ Daemon \notin Commands
    /\ Requires \in BOOLEAN /\ MaxOutage \in Nat

VARIABLES
    pr,         \* the pull request of a branch
    pending,    \* GCScheduler: branches that wait, or are past their grace
    gc,         \* the collectors
    outages,    \* calls that failed so far
    late        \* history: agents that wrote after a collector's last look

gcVars == <<pr, pending, gc, outages, late>>
collectorVars == <<pr, pending, outages, late>>
allVars == <<vars, gcVars>>

Collectors == Cleaners \cup {Daemon}
NotCollecting == [pc |-> "idle"]

Is(g, step) == gc[g].pc = step
Become(g, state) == gc' = [gc EXCEPT ![g] = state]
MayFail(fails) == outages' = outages + (IF fails THEN 1 ELSE 0)
                  /\ outages' <= MaxOutage
WorkspaceAside == UNCHANGED vars
Sessions(kinds) == {s \in Starts : session[s] \in kinds}
Agents(S) == {agent[s] : s \in S}

(* What a collector knows from its last look is up to date.                *)
Looked(g, n) == late' = late \ {<<g, n>>}

(***************************************************************************)
(* The command collects for every branch, after the discovery every command *)
(* begins with; the daemon for the branches whose grace period is over.     *)
(***************************************************************************)

Collection(branches) == [pc |-> "list", only |-> branches]

CommandBegins(c) ==
    /\ pc[c] = "ready" /\ Is(c, "idle")
    /\ Done(c)
    /\ Become(c, Collection(Ticket))
    /\ UNCHANGED <<row, tree, startVars, collectorVars>>

GetReady == {t \in Ticket : pending[t] = "ready"}

(* Mutant: the grace period is not waited for.                              *)
BeginsAtOnce ==
    /\ Is(Daemon, "idle") /\ \E t \in Ticket : pending[t] # "no"
    /\ Become(Daemon, Collection({t \in Ticket : pending[t] # "no"}))
    /\ WorkspaceAside /\ UNCHANGED collectorVars

DaemonBegins ==
    /\ Is(Daemon, "idle") /\ GetReady # {}
    /\ Become(Daemon, Collection(GetReady))
    /\ WorkspaceAside /\ UNCHANGED collectorVars

(* Phase 1 of the daemon moved the ticket of a merged branch to Done.       *)
Schedules(t) ==
    /\ Is(Daemon, "idle") /\ pr[t] = "merged" /\ pending[t] = "no"
    /\ pending' = [pending EXCEPT ![t] = "waiting"]
    /\ WorkspaceAside /\ UNCHANGED <<pr, gc, outages, late>>

GraceEnds(t) ==
    /\ pending[t] = "waiting"
    /\ pending' = [pending EXCEPT ![t] = "ready"]
    /\ WorkspaceAside /\ UNCHANGED <<pr, gc, outages, late>>

(***************************************************************************)
(* collectGCCandidates.                                                    *)
(***************************************************************************)

listWorktrees == [n \in Name |-> IF tree[n].dir = "worktree" THEN tree[n].head
                                 ELSE NoTicket]
Branched(branch) == {n \in Name : branch[n] # NoTicket}

(* A container may run although no session is left in it.                   *)
Lists(g) ==
    /\ Is(g, "list")
    /\ \E fails \in BOOLEAN, N \in SUBSET Name :
          /\ Become(g, [pc |-> "collect", only |-> gc[g].only,
                        branch |-> listWorktrees, todo |-> Branched(listWorktrees),
                        running |-> IF fails THEN {}
                                    ELSE N \cup Agents(Sessions({"hidden"})),
                        met |-> Sessions({"seen"}), dead |-> {}, stale |-> {}])
          /\ MayFail(fails)
    /\ WorkspaceAside /\ UNCHANGED <<pr, pending, late>>

(* No pull request, or a gh that failed: "safe to clean up".                *)
classifyArtifact(t, fails) ==
    IF fails \/ pr[t] \in {"none", "closed"} THEN "closed"
    ELSE IF pr[t] = "open" THEN "active" ELSE pr[t]

isAgentAlive(g, n) ==
    \/ n \in gc[g].running
    \/ Requires /\ row[n] = "active"

Classifies(g, n) ==
    /\ Is(g, "collect") /\ n \in gc[g].todo
    /\ \E fails \in BOOLEAN :
          LET status == IF isAgentAlive(g, n) THEN "active"
                        ELSE classifyArtifact(gc[g].branch[n], fails) IN
          /\ Become(g, [gc[g] EXCEPT !.todo = @ \ {n},
                !.dead = IF status = "active" THEN @ ELSE @ \cup {n},
                !.stale = IF status = "stale" THEN @ \cup {n} ELSE @])
          /\ MayFail(fails)
    /\ WorkspaceAside /\ UNCHANGED <<pr, pending, late>>

Collected(g) ==
    /\ Is(g, "collect") /\ gc[g].todo = {}
    /\ Become(g, [pc |-> "execute", branch |-> gc[g].branch,
                  only |-> gc[g].only, met |-> gc[g].met, stale |-> gc[g].stale,
                  done |-> {}, now |-> NoName,
                  todo |-> {n \in gc[g].dead : gc[g].branch[n] \in gc[g].only}])
    /\ WorkspaceAside /\ UNCHANGED collectorVars

(***************************************************************************)
(* executeGC, one candidate after the other.                                *)
(***************************************************************************)

Closes(t) ==
    [pr EXCEPT ![t] = IF @ \in {"open", "stale"} THEN "closed" ELSE @]

(* closePR, and tmux kill-server in the container the candidate has had.    *)
Takes(g, n) ==
    /\ Is(g, "execute") /\ n \in gc[g].todo
    /\ Become(g, [gc[g] EXCEPT !.pc = "look", !.todo = @ \ {n},
                               !.done = @ \cup {n}, !.now = n])
    /\ \E fails \in BOOLEAN :
          /\ MayFail(fails)
          /\ pr' = IF n \in gc[g].stale /\ ~ fails THEN Closes(gc[g].branch[n])
                   ELSE pr
    /\ \E K \in {{}, Live(n, {"hidden"})} : Ends(K)
    /\ UNCHANGED <<row, tree, pc, known, agent, how, tries, cleanVars,
                   pending, late>>

(* Mutant: what is uncommitted is not looked at.                            *)
LooksAway(g) ==
    /\ Is(g, "look")
    /\ Become(g, [gc[g] EXCEPT !.pc = "remove"])
    /\ WorkspaceAside /\ UNCHANGED collectorVars

hasUncommittedChanges(g) ==
    /\ Is(g, "look")
    /\ \E fails \in BOOLEAN :
          /\ Become(g, [gc[g] EXCEPT !.pc =
                IF fails \/ tree[gc[g].now].work = "dirty" THEN "branch"
                ELSE "remove"])
          /\ MayFail(fails)
    /\ Looked(g, gc[g].now)
    /\ WorkspaceAside /\ UNCHANGED <<pr, pending>>

(* The directory of the agent stays.                                        *)
removeWorktree(n) ==
    tree' = [tree EXCEPT ![n] = [NoTree EXCEPT !.dir =
                IF tree[n].dir = "none" THEN "none" ELSE "empty"]]

Removes(g) ==
    /\ Is(g, "remove")
    /\ removeWorktree(gc[g].now)
    /\ Become(g, [gc[g] EXCEPT !.pc = "branch"])
    /\ UNCHANGED <<row, pc, known, agent, startVars, cleanVars, collectorVars>>

(* removeContainer and deleteRemoteBranch, which may fail; without its      *)
(* branch the pull request is closed.                                       *)
PrunesBranch(g) ==
    /\ Is(g, "branch")
    /\ \E K \in {{}, Live(gc[g].now, {"hidden"})} : Ends(K)
    /\ pr' \in {pr, Closes(gc[g].branch[gc[g].now])}
    /\ Become(g, [gc[g] EXCEPT !.pc = "execute", !.now = NoName])
    /\ UNCHANGED <<row, tree, pc, known, agent, how, tries, cleanVars,
                   pending, outages, late>>

(* Directories that are empty now; names are recycled where require works;  *)
(* the daemon forgets the branches, whatever became of them.                *)
Executed(g) ==
    /\ Is(g, "execute") /\ gc[g].todo = {}
    /\ \E D \in SUBSET {n \in gc[g].done : tree[n].dir = "empty"} :
          tree' = [n \in Name |-> IF n \in D THEN NoTree ELSE tree[n]]
    /\ row' = [n \in Name |-> IF Requires /\ n \in gc[g].done /\ row[n] # "none"
                              THEN "ended" ELSE row[n]]
    /\ pending' = IF g = Daemon
                  THEN [t \in Ticket |-> IF t \in gc[g].only THEN "no"
                                         ELSE pending[t]]
                  ELSE pending
    /\ \/ Become(g, NotCollecting)
       \/ g # Daemon /\ Become(g, [pc |-> "sessions"])
    /\ UNCHANGED <<pc, known, agent, startVars, cleanVars, pr, outages, late>>

(***************************************************************************)
(* --orphans: tmux is asked once, then findOrphanedWorktrees judges every   *)
(* worktree, then they are removed.                                         *)
(***************************************************************************)

AsksTmux(g) ==
    /\ Is(g, "sessions")
    /\ \E fails \in BOOLEAN :
          /\ Become(g, [pc |-> "judge", branch |-> listWorktrees,
                        todo |-> Branched(listWorktrees), orphans |-> {},
                        met |-> IF fails THEN {} ELSE Sessions({"seen", "hidden"}),
                        named |-> IF fails THEN {}
                                  ELSE Agents(Sessions({"seen", "hidden"}))])
          /\ MayFail(fails)
    /\ WorkspaceAside /\ UNCHANGED <<pr, pending, late>>

(* Mutant: only the pull request and the files are looked at.               *)
safeWithSession(g, n, fails) ==
    /\ fails \/ pr[gc[g].branch[n]] \notin {"open", "stale"}
    /\ tree[n].work # "dirty"

safeToDelete(g, n, fails) ==
    /\ ~ (Requires /\ row[n] = "active")
    /\ n \notin gc[g].named
    /\ fails \/ pr[gc[g].branch[n]] \notin {"open", "stale"}
    /\ tree[n].work # "dirty"

(* A worktree that is young, or in which lsof sees a process, is kept.      *)
Judges(g, n) ==
    /\ Is(g, "judge") /\ n \in gc[g].todo
    /\ \E fails, kept \in BOOLEAN :
          /\ Become(g, [gc[g] EXCEPT !.todo = @ \ {n},
                !.orphans = IF safeToDelete(g, n, fails) /\ ~ kept
                            THEN @ \cup {n} ELSE @])
          /\ MayFail(fails)
    /\ Looked(g, n)
    /\ WorkspaceAside /\ UNCHANGED <<pr, pending>>

RemovesOrphan(g, n) ==
    /\ Is(g, "judge") /\ gc[g].todo = {} /\ n \in gc[g].orphans
    /\ removeWorktree(n)
    /\ Become(g, [gc[g] EXCEPT !.orphans = @ \ {n}])
    /\ UNCHANGED <<row, pc, known, agent, startVars, cleanVars, collectorVars>>

OrphansRemoved(g) ==
    /\ Is(g, "judge") /\ gc[g].todo = {} /\ gc[g].orphans = {}
    /\ Become(g, NotCollecting)
    /\ WorkspaceAside /\ UNCHANGED collectorVars

(***************************************************************************)
(* Pull requests, and the rest of the workspace.                            *)
(***************************************************************************)

PullRequestMoves(t) ==
    /\ pr' \in {[pr EXCEPT ![t] = state] : state \in
                  IF pr[t] \in {"open", "stale"}
                  THEN {"merged", "closed", "open", "stale"} \ {pr[t]}
                  ELSE {"open"}}
    /\ WorkspaceAside /\ UNCHANGED <<pending, gc, outages, late>>

Wrote == {n \in Name : tree[n].work # "dirty" /\ tree'[n].work = "dirty"}

OthersAct ==
    /\ Next
    /\ late' = late \cup (Collectors \X Wrote)
    /\ UNCHANGED <<pr, pending, gc, outages>>

(***************************************************************************)
(* Specification.                                                          *)
(***************************************************************************)

GCInit ==
    /\ Init
    /\ pr = [t \in Ticket |-> "none"]
    /\ pending = [t \in Ticket |-> "no"]
    /\ gc = [g \in Collectors |-> NotCollecting]
    /\ outages = 0
    /\ late = {}

collectGCCandidates(g) ==
    Lists(g) \/ Collected(g) \/ \E n \in Name : Classifies(g, n)

executeGC(g) ==
    \/ \E n \in Name : Takes(g, n)
    \/ hasUncommittedChanges(g) \/ Removes(g) \/ PrunesBranch(g) \/ Executed(g)

removeOrphans(g) ==
    \/ AsksTmux(g) \/ OrphansRemoved(g)
    \/ \E n \in Name : Judges(g, n) \/ RemovesOrphan(g, n)

GCNext ==
    \/ \E c \in Cleaners : CommandBegins(c)
    \/ DaemonBegins
    \/ \E t \in Ticket : Schedules(t) \/ GraceEnds(t) \/ PullRequestMoves(t)
    \/ \E g \in Collectors :
          collectGCCandidates(g) \/ executeGC(g) \/ removeOrphans(g)
    \/ OthersAct

GCSpec == GCInit /\ [][GCNext]_allVars

(***************************************************************************)
(* Properties.                                                             *)
(***************************************************************************)

(* The branches a collection is for; the daemon's stay past their grace     *)
(* until they are forgotten at its end.                                     *)
GCTypeOK ==
    /\ pr \in [Ticket -> {"none", "open", "stale", "merged", "closed"}]
    /\ pending \in [Ticket -> {"no", "waiting", "ready"}]
    /\ \A g \in Collectors :
          /\ gc[g].pc \in {"idle", "list", "collect", "execute", "look", "remove",
                          "branch", "sessions", "judge"}
          /\ gc[g].pc \in {"look", "remove", "branch"} => gc[g].now \in Name
          /\ gc[g].pc \in {"list", "collect", "execute"} =>
                gc[g].only \subseteq IF g = Daemon THEN GetReady ELSE Ticket
    /\ outages \in 0..MaxOutage
    /\ late \subseteq Collectors \X Name

(* What a collector is about to remove although it has uncommitted work was *)
(* written after its last look: in executeGC just before, in --orphans      *)
(* before the other worktrees were judged ("never if it has uncommitted     *)
(* changes", index.ts:672; liveness.ts:13).                                 *)
AboutToRemove(g) ==
    IF gc[g].pc = "remove" THEN {gc[g].now}
    ELSE IF gc[g].pc = "judge" THEN gc[g].orphans ELSE {}
CollectsOnlyLateWork ==
    \A g \in Collectors : \A n \in AboutToRemove(g) :
        tree[n].work = "dirty" => <<g, n>> \in late

(* A session that loses its worktree to --orphans came after tmux was       *)
(* asked, although the answer is used for the whole collection while        *)
(* others start, reuse and end agents (liveness.ts:15).                     *)
OrphansWereWithoutSession ==
    \A g \in Collectors : gc[g].pc = "judge" =>
        \A s \in gc[g].met : session[s] # "none" => agent[s] \notin gc[g].orphans

(* "Guard: never GC an agent that is still alive.  Agents that just spawned *)
(* may not have pushed a branch or created a PR yet" (gc/index.ts:287): an  *)
(* agent that had its session when the collector began, and has it still.   *)
LiveAgentIsNotCollected ==
    \A g \in Collectors : gc[g].pc = "remove" =>
        \A s \in gc[g].met : session[s] # "none" => agent[s] # gc[g].now
==================================================================
