---------------------------- MODULE AgentWorkspace ----------------------------
(***************************************************************************)
(* Ephemeral agents of a workspace: a row of the agents table, a directory  *)
(* with a git worktree, and the session that works in it                    *)
(* (apps/cli/src/lib/agents/commands.ts, lib/database/agents.ts and the     *)
(* commands work start, agent cleanup, session prune and ship).             *)
(*                                                                         *)
(* Every command is a process of its own.  It first brings the table in     *)
(* line with the disk and takes a copy of it, and works from that copy.     *)
(*                                                                         *)
(* Abstracted: one repository, worktree mode, on the host; names are taken  *)
(* from a small set; of the work in a worktree whether there are            *)
(* uncommitted files, or commits that were not pushed; active and running    *)
(* rows are "active", completed, dead and cleaned ones "ended", because what *)
(* is modelled never acts on the difference.                                *)
(***************************************************************************)
EXTENDS Naturals, FiniteSets

CONSTANTS
    Name,       \* names the generator may come up with
    NoName,
    Starts,     \* processes running `work start'
    Ticket, TicketOf,   \* tickets, which have one branch each
    NoTicket,   \* a detached HEAD
    Cleaners,   \* processes running `agent cleanup', `session prune', `ship'
    MaxRetries  \* EPHEMERAL_CREATE_MAX_RETRIES

ASSUME ConstantsAssumption ==
    /\ NoName \notin Name
    /\ TicketOf \in [Starts -> Ticket] /\ NoTicket \notin Ticket
    /\ Starts \cap Cleaners = {}
    /\ MaxRetries \in Nat

VARIABLES
    row,        \* status in the agents table
    tree,       \* the directory of an agent and the worktree in it
    pc,         \* where a command is
    known,      \* the copy of the table a command works from
    agent,      \* the agent a command is about
    how,        \* how a start came to its agent
    tries,      \* collisions of a start so far
    session,    \* the session of a start: "seen" by tmux on the host, or
                \* "hidden" in a container
    mode,       \* flags of a cleanup: "check", "push" or "force"
    wrote,      \* history: cleanups whose agent wrote after their last look
    blind       \* history: cleanups whose last look failed

startVars == <<how, tries, session>>
cleanVars == <<mode, wrote, blind>>
vars == <<row, tree, pc, known, agent, startVars, cleanVars>>

Commands == Starts \cup Cleaners
Status == {"none", "active", "ended"}
Tree == [dir : {"none", "empty", "worktree"}, head : Ticket \cup {NoTicket},
         work : {"clean", "dirty", "committed"}]
NoTree == [dir |-> "none", head |-> NoTicket, work |-> "clean"]
Forgotten == [n \in Name |-> "none"]

OnDisk == {n \in Name : tree[n].dir # "none"}
Goes(p, step) == pc' = [pc EXCEPT ![p] = step]
Set(n, status) == row' = [row EXCEPT ![n] = status]

(* `git worktree remove' and rmSync.  Each may fail: then the directory, or *)
(* all of it, stays.                                                       *)
Removed(n) == tree' = [tree EXCEPT ![n] = NoTree]
Leftover(n) ==
    /\ tree[n].dir # "none"
    /\ \/ tree' = [tree EXCEPT ![n] = [NoTree EXCEPT !.dir = "empty"]]
       \/ UNCHANGED tree
cleanupFailedEphemeralAgent(n) == Removed(n) \/ Leftover(n)

(***************************************************************************)
(* getWorkspaceInfo: every command runs discoverAgentsOnDisk.  It lists the *)
(* agents and marks, one by one, those whose directory is missing; it then  *)
(* reads the active rows, all rows and the directories, and one by one      *)
(* makes agents of the directories that have none.  What is left to do is   *)
(* kept in `known'.                                                        *)
(***************************************************************************)

getWorkspaceAgents == [n \in Name |-> IF row[n] = "active" THEN "active" ELSE "none"]

Knows(p, n, state) == known' = [known EXCEPT ![p][n] = state]
Discovering == UNCHANGED <<tree, agent, startVars, cleanVars>>

syncAgentsWithDisk(p) ==
    /\ pc[p] = "idle"
    /\ known' = [known EXCEPT ![p] = getWorkspaceAgents]
    /\ Goes(p, "sync")
    /\ UNCHANGED row /\ Discovering

ChecksDirectory(p) ==
    /\ pc[p] = "sync" /\ \A m \in Name : known[p][m] # "missing"
    /\ \E n \in Name :
          /\ known[p][n] = "active"
          /\ Knows(p, n, IF n \in OnDisk THEN "none" ELSE "missing")
    /\ UNCHANGED <<row, pc>> /\ Discovering

MarksMissing(p) ==
    /\ pc[p] = "sync"
    /\ \E n \in Name :
          /\ known[p][n] = "missing"
          /\ Set(n, IF row[n] = "none" THEN "none" ELSE "ended")
          /\ Knows(p, n, "none")
    /\ UNCHANGED pc /\ Discovering

discoverReads(p) ==
    /\ pc[p] = "sync" /\ known[p] = Forgotten
    /\ known' = [known EXCEPT ![p] = getWorkspaceAgents]
    /\ Goes(p, "read")
    /\ UNCHANGED row /\ Discovering

discoverReadsAll(p) ==
    /\ pc[p] = "read"
    /\ known' = [known EXCEPT ![p] =
          [n \in Name |-> IF @[n] = "none" /\ row[n] = "ended" THEN "ended" ELSE @[n]]]
    /\ Goes(p, "scan")
    /\ UNCHANGED row /\ Discovering

(* Directories without an agent, by whether there is a row to take up.      *)
discoverScans(p) ==
    /\ pc[p] = "scan"
    /\ known' = [known EXCEPT ![p] =
          [n \in Name |-> IF n \notin OnDisk \/ @[n] = "active" THEN "none"
                          ELSE IF @[n] = "ended" THEN "update" ELSE "insert"]]
    /\ Goes(p, "register")
    /\ UNCHANGED row /\ Discovering

discoverUpdates(p) ==
    /\ pc[p] = "register"
    /\ \E n \in Name :
          /\ known[p][n] = "update"
          /\ Set(n, IF row[n] = "none" THEN "none" ELSE "active")
          /\ Knows(p, n, "none")
    /\ UNCHANGED pc /\ Discovering

discoverInserts(p) ==
    /\ pc[p] = "register"
    /\ \E n \in Name :
          /\ known[p][n] = "insert" /\ row[n] = "none"
          /\ Set(n, "active")
          /\ Knows(p, n, "none")
    /\ UNCHANGED pc /\ Discovering

(* A row that was inserted since makes the INSERT throw.                    *)
discoverThrows(p) ==
    /\ pc[p] = "register"
    /\ \E n \in Name : known[p][n] = "insert" /\ row[n] # "none"
    /\ known' = [known EXCEPT ![p] = Forgotten]
    /\ Goes(p, IF p \in Starts THEN "failed" ELSE "idle")
    /\ UNCHANGED row /\ Discovering

buildWorkspaceInfo(p) ==
    /\ pc[p] = "register" /\ known[p] = Forgotten
    /\ known' = [known EXCEPT ![p] = getWorkspaceAgents]
    /\ Goes(p, "ready")
    /\ UNCHANGED row /\ Discovering

discoverAgentsOnDisk(p) ==
    \/ syncAgentsWithDisk(p) \/ ChecksDirectory(p) \/ MarksMissing(p)
    \/ discoverReads(p) \/ discoverReadsAll(p) \/ discoverScans(p)
    \/ discoverUpdates(p) \/ discoverInserts(p) \/ discoverThrows(p)

getWorkspaceInfo(p) == discoverAgentsOnDisk(p) \/ buildWorkspaceInfo(p)

(***************************************************************************)
(* work start: an existing session, an existing worktree, or a new agent.   *)
(***************************************************************************)

(* The command exits, with what it kept in memory.                          *)
Fails(s) ==
    /\ Goes(s, "failed")
    /\ known' = [known EXCEPT ![s] = Forgotten]
    /\ how' = [how EXCEPT ![s] = "none"]
    /\ tries' = [tries EXCEPT ![s] = 0]

Live(n, kinds) == {s \in Starts : agent[s] = n /\ session[s] \in kinds}

ExistingSessions(s) ==
    {t \in Starts : TicketOf[t] = TicketOf[s] /\ session[t] = "seen"}

KillsExisting(s) ==
    /\ pc[s] = "ready"
    /\ \E t \in ExistingSessions(s) : session' = [session EXCEPT ![t] = "none"]
    /\ UNCHANGED <<row, tree, pc, known, agent, how, tries, cleanVars>>

Attaches(s) ==
    /\ pc[s] = "ready" /\ ExistingSessions(s) # {}
    /\ Goes(s, "done")
    /\ known' = [known EXCEPT ![s] = Forgotten]
    /\ UNCHANGED <<row, tree, agent, startVars, cleanVars>>

(* Worktrees with the branch whose agent has no session tmux knows of.      *)
findWorktreeForBranch(s) ==
    {n \in Name : /\ tree[n].dir = "worktree"
                  /\ tree[n].head = TicketOf[s]
                  /\ Live(n, {"seen"}) = {}}

ReusesWorktree(s) ==
    /\ pc[s] = "ready"
    /\ \E n \in findWorktreeForBranch(s) : agent' = [agent EXCEPT ![s] = n]
    /\ how' = [how EXCEPT ![s] = "reused"]
    /\ known' = [known EXCEPT ![s] = Forgotten]
    /\ Goes(s, "launch")
    /\ UNCHANGED <<row, tree, tries, session, cleanVars>>

generateEphemeralAgentName(s) ==
    {n \in Name \ OnDisk : row[n] # "active" /\ known[s][n] # "active"}

PicksName(s) ==
    /\ \/ pc[s] = "ready" /\ findWorktreeForBranch(s) = {}
       \/ pc[s] = "retry"
    /\ \E n \in generateEphemeralAgentName(s) : agent' = [agent EXCEPT ![s] = n]
    /\ Goes(s, "mkdir")
    /\ UNCHANGED <<row, tree, known, how, tries, session, cleanVars>>

(* Bound of the model: the generator has thousands of names.                *)
OutOfNames(s) ==
    /\ pc[s] \in {"ready", "retry"} /\ generateEphemeralAgentName(s) = {}
    /\ findWorktreeForBranch(s) = {} \/ pc[s] = "retry"
    /\ Fails(s)
    /\ UNCHANGED <<row, tree, agent, session, cleanVars>>

MakesDirectory(s) ==
    LET n == agent[s] IN
    /\ pc[s] = "mkdir"
    /\ tree' = [tree EXCEPT ![n].dir = IF @ = "none" THEN "empty" ELSE @]
    /\ Goes(s, "worktree")
    /\ UNCHANGED <<row, known, agent, startVars, cleanVars>>

(* A worktree that is there is taken for that of a resumed spawn.           *)
ResumesWorktree(s) ==
    /\ pc[s] = "worktree"
    /\ Goes(s, IF tree[agent[s]].dir = "worktree" THEN "claim" ELSE "add")
    /\ UNCHANGED <<row, tree, known, agent, startVars, cleanVars>>

AddsWorktree(s) ==
    /\ pc[s] = "add" /\ tree[agent[s]].dir # "worktree"
    /\ tree' = [tree EXCEPT ![agent[s]].dir = "worktree"]
    /\ Goes(s, "claim")
    /\ UNCHANGED <<row, known, agent, startVars, cleanVars>>

(* git fails, for one because another start has made the worktree since:    *)
(* that one goes with the directory.                                        *)
WorktreeFails(s) ==
    /\ pc[s] = "add"
    /\ cleanupFailedEphemeralAgent(agent[s])
    /\ Fails(s)
    /\ UNCHANGED <<row, agent, session, cleanVars>>

(***************************************************************************)
(* tryAddEphemeralAgentToDatabase: a SELECT, and an UPDATE or an INSERT by  *)
(* what it found; the row then is set running.                              *)
(***************************************************************************)

ReadsRow(s) ==
    LET status == row[agent[s]] IN
    /\ pc[s] = "claim"
    /\ Goes(s, IF status = "none" THEN "insert"
               ELSE IF status = "ended" THEN "recycle" ELSE "collision")
    /\ UNCHANGED <<row, tree, known, agent, startVars, cleanVars>>

Claims(s, way) ==
    /\ Set(agent[s], "active")
    /\ how' = [how EXCEPT ![s] = way]
    /\ tries' = [tries EXCEPT ![s] = 0]
    /\ known' = [known EXCEPT ![s] = Forgotten]
    /\ Goes(s, "checkout")
    /\ UNCHANGED <<tree, agent, session, cleanVars>>

(* Mutant: the name need not be unique.                                     *)
InsertsOver(s) == pc[s] = "insert" /\ Claims(s, "inserted")

Inserts(s) ==
    /\ pc[s] = "insert" /\ row[agent[s]] = "none"
    /\ Claims(s, "inserted")

(* The UPDATE does not ask for the status that was read.                    *)
Recycles(s) ==
    /\ pc[s] = "recycle" /\ row[agent[s]] # "none"
    /\ Claims(s, "recycled")

FindsTaken(s) ==
    /\ \/ pc[s] = "insert" /\ row[agent[s]] # "none"
       \/ pc[s] = "recycle" /\ row[agent[s]] = "none"
    /\ Goes(s, "collision")
    /\ UNCHANGED <<row, tree, known, agent, startVars, cleanVars>>

Retries(s) ==
    /\ tries' = [tries EXCEPT ![s] = @ + 1]
    /\ Goes(s, "retry")
    /\ UNCHANGED <<known, how>>

(* Mutant: one retry too many.                                              *)
CollidesOnceMore(s) ==
    /\ pc[s] = "collision"
    /\ cleanupFailedEphemeralAgent(agent[s])
    /\ IF tries[s] > MaxRetries THEN Fails(s) ELSE Retries(s)
    /\ UNCHANGED <<row, agent, session, cleanVars>>

Collides(s) ==
    /\ pc[s] = "collision"
    /\ cleanupFailedEphemeralAgent(agent[s])
    /\ IF tries[s] = MaxRetries THEN Fails(s) ELSE Retries(s)
    /\ UNCHANGED <<row, agent, session, cleanVars>>

(* The database throws, or the command ends before it has called a runner:  *)
(* nothing is undone.                                                       *)
LeavesEarly(s) ==
    /\ pc[s] \in {"claim", "insert", "recycle", "checkout", "launch"}
    /\ Fails(s)
    /\ UNCHANGED <<row, tree, agent, session, cleanVars>>

(***************************************************************************)
(* The branch, the runner, and what is undone when the runner fails.        *)
(***************************************************************************)

BranchIsFree(t) == \A n \in Name : tree[n].head # t

(* A branch that another worktree has only gives a warning.                 *)
checkoutBranchSafe(s) ==
    LET n == agent[s] IN
    /\ pc[s] = "checkout" /\ tree[n].dir # "none"
    /\ tree' = [tree EXCEPT ![n].head =
                  IF BranchIsFree(TicketOf[s]) THEN TicketOf[s] ELSE @]
    /\ Goes(s, "launch")
    /\ UNCHANGED <<row, known, agent, startVars, cleanVars>>

DirectoryMissing(s) ==
    /\ pc[s] = "checkout" /\ tree[agent[s]].dir = "none"
    /\ Fails(s)
    /\ UNCHANGED <<row, tree, agent, session, cleanVars>>

(* Without a worktree there is a note, and the runner is called.  In a      *)
(* container a session of the same name is replaced.                        *)
runExecution(s) ==
    /\ pc[s] = "launch"
    /\ \/ session' = [session EXCEPT ![s] = "seen"]
       \/ \E K \in {{}, Live(agent[s], {"hidden"})} :
             session' = [t \in Starts |-> IF t = s THEN "hidden"
                                         ELSE IF t \in K THEN "none"
                                         ELSE session[t]]
    /\ Goes(s, "done")
    /\ UNCHANGED <<row, tree, known, agent, how, tries, cleanVars>>

ExecutionFails(s) ==
    /\ pc[s] = "launch" /\ Goes(s, "undo directory")
    /\ UNCHANGED <<row, tree, known, agent, startVars, cleanVars>>

(* cleanupFailedAgentSpawn, of an agent that was reused as well; what fails *)
(* is passed over.                                                          *)
UndoesDirectory(s) ==
    /\ pc[s] = "undo directory" /\ cleanupFailedEphemeralAgent(agent[s])
    /\ Goes(s, "undo row")
    /\ UNCHANGED <<row, known, agent, startVars, cleanVars>>

UndoesRow(s) ==
    /\ pc[s] = "undo row" /\ Goes(s, "undo container")
    /\ Set(agent[s], "none") \/ UNCHANGED row
    /\ UNCHANGED <<tree, known, agent, startVars, cleanVars>>

Ends(S) == session' = [s \in Starts |-> IF s \in S THEN "none" ELSE session[s]]

UndoesContainer(s) ==
    /\ pc[s] = "undo container"
    /\ \E K \in {{}, Live(agent[s], {"hidden"})} : Ends(K)
    /\ Goes(s, "undone")
    /\ UNCHANGED <<row, tree, known, agent, how, tries, cleanVars>>

StartStep(s) ==
    \/ getWorkspaceInfo(s) \/ KillsExisting(s) \/ Attaches(s)
    \/ ReusesWorktree(s) \/ PicksName(s) \/ OutOfNames(s)
    \/ MakesDirectory(s) \/ ResumesWorktree(s) \/ AddsWorktree(s)
    \/ WorktreeFails(s) \/ ReadsRow(s) \/ Inserts(s) \/ Recycles(s)
    \/ FindsTaken(s) \/ Collides(s) \/ LeavesEarly(s)
    \/ checkoutBranchSafe(s) \/ DirectoryMissing(s) \/ runExecution(s)
    \/ ExecutionFails(s) \/ UndoesDirectory(s) \/ UndoesRow(s)
    \/ UndoesContainer(s)

(***************************************************************************)
(* cleanupAgent, called with the copy of the table from the beginning.      *)
(***************************************************************************)

Done(c) ==
    /\ Goes(c, "idle")
    /\ agent' = [agent EXCEPT ![c] = NoName]
    /\ known' = [known EXCEPT ![c] = Forgotten]
    /\ mode' = [mode EXCEPT ![c] = "check"]
    /\ wrote' = wrote \ {c} /\ blind' = blind \ {c}

Selects(c) ==
    /\ pc[c] = "ready"
    /\ \E n \in Name, m \in {"check", "push", "force"} :
          /\ known[c][n] = "active"
          /\ known' = [known EXCEPT ![c] = [Forgotten EXCEPT ![n] = known[c][n]]]
          /\ agent' = [agent EXCEPT ![c] = n]
          /\ mode' = [mode EXCEPT ![c] = m]
          /\ Goes(c, IF m = "force" THEN "kill" ELSE "check")
    /\ UNCHANGED <<row, tree, startVars, wrote, blind>>

SelectsNone(c) ==
    /\ pc[c] = "ready" /\ Done(c)
    /\ UNCHANGED <<row, tree, startVars>>

(* Mutant: only unpushed commits count as unsaved, not changed files.       *)
getAgentGitStatusOfCommits(n) ==
    tree[n].work = "committed" /\ tree[n].head # NoTicket

(* What `git status' and `git log @{u}..HEAD || echo' report: a commit on a *)
(* branch that was not pushed, and nothing of a detached HEAD.              *)
getAgentGitStatus(n) ==
    \/ tree[n].work = "dirty"
    \/ tree[n].work = "committed" /\ tree[n].head # NoTicket

(* A git command that fails, too, leaves hasUnsavedWork false.              *)
Passes(c, next) ==
    /\ \/ ~ getAgentGitStatus(agent[c]) /\ blind' = blind \ {c}
       \/ tree[agent[c]].dir = "worktree" /\ blind' = blind \cup {c}
    /\ wrote' = wrote \ {c}
    /\ Goes(c, next)
    /\ UNCHANGED <<row, tree, known, agent, startVars, mode>>

ChecksClean(c) == pc[c] = "check" /\ Passes(c, "kill")

ChecksUnsaved(c) ==
    /\ pc[c] = "check" /\ getAgentGitStatus(agent[c])
    /\ IF mode[c] = "push"
       THEN Goes(c, "push") /\ UNCHANGED <<agent, known, cleanVars>> ELSE Done(c)
    /\ UNCHANGED <<row, tree, startVars>>

(* pushAgentWork looks again, commits what is there and pushes the branch.  *)
(* There is nothing to push for it when that look fails.                    *)
pushAgentWork(c) ==
    LET n == agent[c] IN
    /\ pc[c] = "push"
    /\ \/ UNCHANGED tree
       \/ getAgentGitStatus(n) /\ tree[n].head # NoTicket
          /\ tree' = [tree EXCEPT ![n].work = "clean"]
    /\ Goes(c, "recheck")
    /\ UNCHANGED <<row, known, agent, startVars, cleanVars>>

PushFails(c) ==
    LET n == agent[c] IN
    /\ pc[c] = "push" /\ getAgentGitStatus(n)
    /\ \E work \in {"committed", tree[n].work} :
          tree' = [tree EXCEPT ![n].work = work]
    /\ Done(c)
    /\ UNCHANGED <<row, startVars>>

RechecksClean(c) == pc[c] = "recheck" /\ Passes(c, "kill")

RechecksUnsaved(c) ==
    /\ pc[c] = "recheck" /\ getAgentGitStatus(agent[c])
    /\ Done(c)
    /\ UNCHANGED <<row, tree, startVars>>

(* Containers are looked up by a label the program's own never have; a      *)
(* session that cannot be killed is passed over.                            *)
KillsSessions(c) ==
    /\ pc[c] = "kill"
    /\ \E K \in SUBSET Live(agent[c], {"seen"}) : Ends(K)
    /\ Goes(c, "remove")
    /\ UNCHANGED <<row, tree, known, agent, how, tries, cleanVars>>

RemovesDirectory(c) ==
    /\ pc[c] = "remove" /\ Removed(agent[c]) /\ Goes(c, "mark")
    /\ UNCHANGED <<row, known, agent, startVars, cleanVars>>

(* The agent is then not marked.                                            *)
RemovalFails(c) ==
    /\ pc[c] = "remove" /\ Leftover(agent[c]) /\ Done(c)
    /\ UNCHANGED <<row, startVars>>

MarksAgent(c) ==
    LET n == agent[c] IN
    /\ pc[c] = "mark"
    /\ Set(n, IF row[n] = "none" THEN "none" ELSE "ended")
    /\ Done(c)
    /\ UNCHANGED <<tree, startVars>>

CleanStep(c) ==
    \/ getWorkspaceInfo(c) \/ Selects(c) \/ SelectsNone(c)
    \/ ChecksClean(c) \/ ChecksUnsaved(c)
    \/ pushAgentWork(c) \/ PushFails(c) \/ RechecksClean(c) \/ RechecksUnsaved(c)
    \/ KillsSessions(c) \/ RemovesDirectory(c) \/ RemovalFails(c) \/ MarksAgent(c)

(***************************************************************************)
(* The agents.                                                             *)
(***************************************************************************)

AgentWrites(s) ==
    LET n == agent[s] IN
    /\ session[s] # "none" /\ tree[n].dir = "worktree"
    /\ tree[n].work # "dirty"
    /\ tree' = [tree EXCEPT ![n].work = "dirty"]
    /\ wrote' = wrote \cup {c \in Cleaners : agent[c] = n}
    /\ UNCHANGED <<row, pc, known, agent, startVars, mode, blind>>

AgentCommits(s) ==
    LET n == agent[s] IN
    /\ session[s] # "none" /\ tree[n].work = "dirty"
    /\ tree' = [tree EXCEPT ![n].work = "committed"]
    /\ UNCHANGED <<row, pc, known, agent, startVars, cleanVars>>

AgentPushes(s) ==
    LET n == agent[s] IN
    /\ session[s] # "none"
    /\ tree[n].work = "committed" /\ tree[n].head # NoTicket
    /\ tree' = [tree EXCEPT ![n].work = "clean"]
    /\ UNCHANGED <<row, pc, known, agent, startVars, cleanVars>>

SessionEnds(s) ==
    /\ session[s] # "none"
    /\ session' = [session EXCEPT ![s] = "none"]
    /\ UNCHANGED <<row, tree, pc, known, agent, how, tries, cleanVars>>

AgentStep(s) ==
    AgentWrites(s) \/ AgentCommits(s) \/ AgentPushes(s) \/ SessionEnds(s)

(***************************************************************************)
(* Specification.                                                          *)
(***************************************************************************)

Init ==
    /\ row = [n \in Name |-> "none"]
    /\ tree = [n \in Name |-> NoTree]
    /\ pc = [p \in Commands |-> "idle"]
    /\ known = [p \in Commands |-> Forgotten]
    /\ agent = [p \in Commands |-> NoName]
    /\ how = [s \in Starts |-> "none"]
    /\ tries = [s \in Starts |-> 0]
    /\ session = [s \in Starts |-> "none"]
    /\ mode = [c \in Cleaners |-> "check"]
    /\ wrote = {} /\ blind = {}

Next ==
    \/ \E s \in Starts : StartStep(s) \/ AgentStep(s)
    \/ \E c \in Cleaners : CleanStep(c)

Spec == Init /\ [][Next]_vars

(***************************************************************************)
(* Properties.                                                             *)
(***************************************************************************)

DiscoveryPc == {"idle", "sync", "read", "scan", "register", "ready"}
StartPc == DiscoveryPc \cup
           {"retry", "mkdir", "worktree", "add", "claim", "insert", "recycle",
            "collision", "checkout", "launch", "undo directory", "undo row",
            "undo container", "undone", "failed", "done"}
CleanPc == DiscoveryPc \cup {"check", "push", "recheck", "kill", "remove", "mark"}

DiskOK == row \in [Name -> Status] /\ tree \in [Name -> Tree]
PcOK ==
    /\ pc \in [Commands -> StartPc \cup CleanPc]
    /\ \A s \in Starts : pc[s] \in StartPc
    /\ \A c \in Cleaners : pc[c] \in CleanPc
LocalOK ==
    /\ known \in [Commands -> [Name -> Status \cup {"missing", "insert", "update"}]]
    /\ agent \in [Commands -> Name \cup {NoName}]
StartOK ==
    /\ how \in [Starts -> {"none", "inserted", "recycled", "reused"}]
    /\ tries \in [Starts -> 0..MaxRetries]
    /\ session \in [Starts -> {"none", "seen", "hidden"}]
CleanOK ==
    /\ mode \in [Cleaners -> {"check", "push", "force"}]
    /\ wrote \subseteq Cleaners /\ blind \subseteq Cleaners
(* An agent is named once its start has picked one or its cleanup chosen.   *)
Named ==
    /\ \A s \in Starts :
          pc[s] \notin DiscoveryPc \cup {"failed", "done"}
          \/ session[s] # "none"  =>  agent[s] \in Name
    /\ \A c \in Cleaners :
          pc[c] \notin DiscoveryPc => agent[c] \in Name

TypeOK == DiskOK /\ PcOK /\ LocalOK /\ StartOK /\ CleanOK /\ Named

(* A cleanup without --force whose git commands answered does not come to   *)
(* remove files it could have found uncommitted: what is uncommitted when   *)
(* it kills and removes was written after its last look (commands.ts:1308). *)
(* Of a look that failed nothing is promised: it counts as "no unsaved      *)
(* work" (commands.ts:1206).                                                *)
RemovesOnlyLateWork ==
    \A c \in Cleaners :
        /\ pc[c] \in {"kill", "remove"} /\ mode[c] # "force"
        /\ tree[agent[c]].work = "dirty"
        => c \in wrote \cup blind

(* A name that one start inserted is not inserted by another while the first *)
(* still has it, whatever discoveries, collisions and cleanups make of the   *)
(* row; only a failed start that had come to the agent otherwise takes the   *)
(* row away from under it.                                                  *)
Inserted(s) ==
    /\ how[s] = "inserted"
    /\ \/ pc[s] \in {"checkout", "launch", "undo directory", "undo row"}
       \/ pc[s] = "done" /\ session[s] # "none"
TakenBy(r, n) ==
    /\ how[r] \in {"recycled", "reused"} /\ agent[r] = n
    /\ pc[r] \in {"undo container", "undone"}
RowTaken(n) == \E r \in Starts : TakenBy(r, n)
InsertedNameIsExclusive ==
    \A s, t \in Starts :
        s # t /\ agent[s] = agent[t] /\ Inserted(s) /\ Inserted(t)
        => RowTaken(agent[s])

(* "Concurrency-safe: if the generated name collides at the DB level ... we *)
(* clean up the on-disk artifacts, regenerate a name, and retry"            *)
(* (commands.ts:577): the start that has the name still has its worktree.   *)
WinnerKeepsItsWorktree ==
    \A s \in Starts :
        pc[s] \in {"checkout", "launch"} => tree[agent[s]].dir = "worktree"
===========================================================================
