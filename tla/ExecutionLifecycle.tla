-------------------------- MODULE ExecutionLifecycle --------------------------
(***************************************************************************)
(* The agent_work table and the processes that write it                    *)
(* (apps/cli/src/lib/execution/storage.ts, spawner.ts and the commands that *)
(* end an execution).                                                      *)
(*                                                                         *)
(* Every prlt command is a process of its own: it reads a row, may act on   *)
(* the tmux session, and then writes the row by id, whatever has become of  *)
(* it.  Nothing but SQLite's single statements is atomic.                   *)
(*                                                                         *)
(* Abstracted: ids, branches, exit codes and messages; timestamps are the   *)
(* two comparisons made with them (the age of the row, the heartbeat).      *)
(***************************************************************************)
EXTENDS Naturals, FiniteSets

CONSTANTS
    Execution,      \* rows of agent_work, and the agents they stand for
    Container, Host,    \* environments
    EnvOf,          \* the environment of an execution
    Commands,       \* processes running `work ready', `work stop', ...
    Cleaners,       \* processes running cleanupStaleExecutions
    Outages,        \* which probes may fail: "docker", "host", "container"
    Labels,         \* which containers may carry devcontainer.local_folder
    MaxFailures     \* bound of the model: crashes and outages together

Env == Container \cup {Host}

ASSUME ConstantsAssumption ==
    /\ Host \notin Container
    /\ EnvOf \in [Execution -> Env]
    /\ Commands \cap Cleaners = {}
    /\ (Commands \cup Cleaners) \cap Execution = {}
    /\ Outages \subseteq {"docker", "host", "container"}
    /\ Labels \subseteq SUBSET Container
    /\ MaxFailures \in Nat

VARIABLES
    work,       \* the agent_work rows
    agent,      \* the tmux session of an execution, "none" when there is none
    server,     \* the tmux server of an environment, as a probe finds it
    docker,     \* does `docker ps' answer?
    spawner,    \* where the process that spawns the execution is
    cmd,        \* the commands under way
    cleaner,    \* the cleanups under way
    failures    \* crashes and outages so far

world == <<agent, server, docker, failures>>
processes == <<spawner, cmd, cleaner>>
lifecycleVars == <<work, world, processes>>

Active == {"starting", "running"}
Terminal == {"completed", "failed", "stopped"}
NoRow == [status |-> "none", life |-> "none", completedAt |-> FALSE,
          session |-> FALSE, fresh |-> TRUE, old |-> FALSE]
Row == [status : Active \cup Terminal \cup {"none"},
        life : {"none", "healthy", "idle", "completed", "died"},
        completedAt : BOOLEAN, session : BOOLEAN, fresh : BOOLEAN,
        old : BOOLEAN]
Session == {"none", "working", "idle", "done", "hung"}

NoCommand == [pc |-> "idle"]
NoCleanup == [pc |-> "idle"]

IsActive(e) == work[e].status \in Active
ActiveExecutions == {e \in Execution : IsActive(e)}
In(env) == {e \in Execution : EnvOf[e] = env}
Alive == {e \in Execution : agent[e] # "none"}

(***************************************************************************)
(* ExecutionStorage.                                                       *)
(***************************************************************************)

(* The processes that have read the row and will still write it. *)
Holding(e) ==
    {x \in {e} : spawner[x] # "idle"}
    \cup {p \in Commands : cmd[p].pc # "idle" /\ cmd[p].row = e}
    \cup {k \in Cleaners : cleaner[k].pc # "idle" /\ e \in cleaner[k].todo}

(* Mutant: completed_at is set and never cleared. *)
updateStatusKeepsCompletedAt(e, status) ==
    work' = [work EXCEPT ![e].status = status,
                         ![e].completedAt = @ \/ status \in Terminal]

updateStatus(e, status) ==
    work' = [work EXCEPT ![e].status = status,
                         ![e].completedAt = status \in Terminal]

(***************************************************************************)
(* Spawning an agent: insert the row, launch, then two UPDATEs.             *)
(***************************************************************************)

Goto(e, step) == spawner' = [spawner EXCEPT ![e] = step]

createExecution(e) ==
    /\ work[e].status = "none"
    /\ work' = [work EXCEPT ![e].status = "starting"]
    /\ Goto(e, "launch")
    /\ UNCHANGED <<world, cmd, cleaner>>

Launches(e) ==
    /\ spawner[e] = "launch" /\ server[EnvOf[e]] # "error"
    /\ agent' = [agent EXCEPT ![e] = "working"]
    /\ server' = [server EXCEPT ![EnvOf[e]] = "running"]
    /\ Goto(e, "status")
    /\ UNCHANGED <<work, docker, failures, cmd, cleaner>>

LaunchFails(e) ==
    /\ spawner[e] = "launch"
    /\ updateStatus(e, "failed")
    /\ Goto(e, "idle")
    /\ UNCHANGED <<world, cmd, cleaner>>

SpawnedStatus(e) ==
    /\ spawner[e] = "status"
    /\ updateStatus(e, "running")
    /\ Goto(e, "info")
    /\ UNCHANGED <<world, cmd, cleaner>>

updateProcessInfo(e) ==
    /\ spawner[e] = "info"
    /\ work' = [work EXCEPT ![e].session = TRUE]
    /\ Goto(e, "idle")
    /\ UNCHANGED <<world, cmd, cleaner>>

Spawn(e) == \/ createExecution(e) \/ Launches(e) \/ LaunchFails(e)
            \/ SpawnedStatus(e) \/ updateProcessInfo(e)

(***************************************************************************)
(* Commands on one execution: `work ready' (completed) and `execution       *)
(* complete' (completed or failed) set a final status, `work stop' kills    *)
(* the session first.                                                      *)
(***************************************************************************)

Command == {"finish", "stop"}
Outcome(kind) == IF kind = "stop" THEN {"stopped"} ELSE {"completed", "failed"}

Begun(kind, e) == [pc |-> IF kind = "stop" THEN "kill" ELSE "write",
                   kind |-> kind, row |-> e,
                   session |-> kind = "stop" /\ work[e].session]

(* Mutant: the status of the row is not looked at. *)
CommandReadsAny(p, kind, e) ==
    /\ cmd[p].pc = "idle" /\ work[e].status # "none"
    /\ cmd' = [cmd EXCEPT ![p] = Begun(kind, e)]
    /\ UNCHANGED <<work, world, spawner, cleaner>>

CommandReads(p, kind, e) ==
    /\ cmd[p].pc = "idle" /\ IsActive(e)
    /\ cmd' = [cmd EXCEPT ![p] = Begun(kind, e)]
    /\ UNCHANGED <<work, world, spawner, cleaner>>

(* The recorded session is killed; a container is stopped as a whole.       *)
KillSession(e) ==
    /\ agent' = [agent EXCEPT ![e] = "none"]
    /\ UNCHANGED server
StopContainer(env) ==
    /\ agent' = [e \in Execution |-> IF EnvOf[e] = env THEN "none" ELSE agent[e]]
    /\ server' = [server EXCEPT ![env] = "down"]

CommandKills(p) ==
    LET e == cmd[p].row IN
    /\ cmd[p].pc = "kill"
    /\ \/ cmd[p].session /\ EnvOf[e] = Host /\ KillSession(e)
       \/ cmd[p].session /\ EnvOf[e] # Host /\ StopContainer(EnvOf[e])
       \/ ~ (cmd[p].session /\ EnvOf[e] = Host) /\ UNCHANGED <<agent, server>>
    /\ cmd' = [cmd EXCEPT ![p].pc = "write"]
    /\ UNCHANGED <<work, docker, failures, spawner, cleaner>>

CommandWrites(p) ==
    /\ cmd[p].pc = "write"
    /\ \E status \in Outcome(cmd[p].kind) :
          updateStatus(cmd[p].row, status)
    /\ cmd' = [cmd EXCEPT ![p] = NoCommand]
    /\ UNCHANGED <<world, spawner, cleaner>>

CommandStep(p) ==
    \/ \E kind \in Command, e \in Execution : CommandReads(p, kind, e)
    \/ CommandKills(p)
    \/ CommandWrites(p)

(***************************************************************************)
(* cleanupStaleExecutionsDetailed: list the active rows, ask tmux on the    *)
(* host, ask docker for the containers with the label, ask each of these,   *)
(* then stop the rows whose session is gone, one by one.  No runner of the  *)
(* program sets the label: its own containers are never asked.              *)
(***************************************************************************)

CleanLists(k) ==
    /\ cleaner[k].pc = "idle" /\ ActiveExecutions # {}
    /\ cleaner' = [cleaner EXCEPT ![k] =
                     [pc |-> "host", todo |-> ActiveExecutions,
                      recorded |-> {e \in ActiveExecutions : work[e].session}]]
    /\ UNCHANGED <<work, world, spawner, cmd>>

(* What is known of the recorded rows: `reported' have a session, `unknown' *)
(* could not be asked for; `alive' is history, the sessions there were when *)
(* the host answered or a container was asked, those in `asked'.            *)
Reply(k, pc, ask, asked, reported, unknown, alive) ==
    cleaner' = [cleaner EXCEPT ![k] =
                  [pc |-> pc, todo |-> cleaner[k].todo,
                   recorded |-> cleaner[k].recorded, ask |-> ask,
                   asked |-> asked, reported |-> reported,
                   unknown |-> unknown, alive |-> alive]]

RecordedIn(k, env) == cleaner[k].recorded \cap In(env)

(* A host probe that fails reports no session. *)
CleanAsksHost(k) ==
    LET answers == server[Host] # "error"
        live == RecordedIn(k, Host) \cap Alive IN
    /\ cleaner[k].pc = "host"
    /\ Reply(k, "ps", {}, IF answers THEN {Host} ELSE {},
             IF answers THEN live ELSE {}, {}, live)
    /\ UNCHANGED <<work, world, spawner, cmd>>

(* The containers that run and carry the label, none when `docker ps' fails. *)
CleanAsksDocker(k) ==
    /\ cleaner[k].pc = "ps"
    /\ \E labelled \in Labels, running \in SUBSET Container :
          LET ask == IF docker THEN labelled \cap running ELSE {}
              live == cleaner[k].recorded \cap Alive IN
          /\ \A env \in Container : server[env] # "down" => env \in running
          /\ Reply(k, IF ask = {} THEN "mark" ELSE "exec", ask,
                   cleaner[k].asked, cleaner[k].reported, {},
                   cleaner[k].alive \cup {e \in live : EnvOf[e] # Host})
    /\ UNCHANGED <<work, world, spawner, cmd>>

(* Mutant: a container that does not answer has no sessions (PRLT-1077).    *)
KnownAnyway(k, env) == {}

(* The sessions of a container that does not answer are unknown. *)
Unreachable(k, env) == RecordedIn(k, env)

(* tmux answers with an error, too, when it has no session. *)
CleanAsksContainer(k, env) ==
    LET c == cleaner[k]
        live == RecordedIn(k, env) \cap Alive
        ask == c.ask \ {env}
        pc == IF ask = {} THEN "mark" ELSE "exec"
        alive == live \cup (c.alive \ In(env)) IN
    /\ c.pc = "exec" /\ env \in c.ask
    /\ \/ /\ server[env] = "running"
          /\ Reply(k, pc, ask, c.asked \cup {env}, c.reported \cup live,
                   c.unknown, alive)
       \/ /\ server[env] # "running" \/ In(env) \cap Alive = {}
          /\ Reply(k, pc, ask, c.asked \cup {env}, c.reported,
                   c.unknown \cup Unreachable(k, env), alive)
    /\ UNCHANGED <<work, world, spawner, cmd>>

Gone(k, e) ==
    IF e \in cleaner[k].recorded
    THEN e \notin cleaner[k].unknown /\ e \notin cleaner[k].reported
    ELSE work[e].old

Visited(k, e) ==
    IF cleaner[k].todo = {e}
    THEN cleaner' = [cleaner EXCEPT ![k] = NoCleanup]
    ELSE cleaner' = [cleaner EXCEPT ![k].todo = @ \ {e}]

CleanStops(k, e) ==
    /\ cleaner[k].pc = "mark" /\ e \in cleaner[k].todo
    /\ Gone(k, e)
    /\ updateStatus(e, "stopped")
    /\ Visited(k, e)
    /\ UNCHANGED <<world, spawner, cmd>>

CleanKeeps(k, e) ==
    /\ cleaner[k].pc = "mark" /\ e \in cleaner[k].todo
    /\ ~ Gone(k, e)
    /\ Visited(k, e)
    /\ UNCHANGED <<work, world, spawner, cmd>>

CleanStep(k) ==
    \/ CleanLists(k) \/ CleanAsksHost(k) \/ CleanAsksDocker(k)
    \/ \E env \in Container : CleanAsksContainer(k, env)
    \/ \E e \in Execution : CleanStops(k, e) \/ CleanKeeps(k, e)

(***************************************************************************)
(* Sessions, tmux servers, containers and the clock.                        *)
(***************************************************************************)

SessionEnds(e) ==
    /\ e \in Alive
    /\ agent' = [agent EXCEPT ![e] = "none"]
    /\ UNCHANGED <<work, server, docker, failures, processes>>

Fails == failures < MaxFailures /\ failures' = failures + 1

ServerCrashes(env) ==
    /\ Fails /\ server[env] = "running"
    /\ server' = [server EXCEPT ![env] = "down"]
    /\ agent' = [e \in Execution |-> IF EnvOf[e] = env THEN "none" ELSE agent[e]]
    /\ UNCHANGED <<work, docker, processes>>

ProbeBreaks(env) ==
    /\ Fails
    /\ (IF env = Host THEN "host" ELSE "container") \in Outages
    /\ server[env] = "running"
    /\ server' = [server EXCEPT ![env] = "error"]
    /\ UNCHANGED <<work, agent, docker, processes>>

ProbeWorks(env) ==
    /\ server[env] = "error"
    /\ server' = [server EXCEPT ![env] = "running"]
    /\ UNCHANGED <<work, agent, docker, failures, processes>>

DockerBreaks ==
    /\ "docker" \in Outages /\ docker /\ Fails
    /\ docker' = FALSE
    /\ UNCHANGED <<work, agent, server, processes>>

DockerWorks ==
    /\ ~ docker /\ docker' = TRUE
    /\ UNCHANGED <<work, agent, server, failures, processes>>

(* Five minutes pass; only a row read without a session is asked for its    *)
(* age.                                                                     *)
AgeMatters(e) ==
    \/ ~ work[e].session
    \/ \E k \in Cleaners : cleaner[k].pc # "idle"
                           /\ e \in cleaner[k].todo \ cleaner[k].recorded
RowAges(e) ==
    /\ IsActive(e) /\ AgeMatters(e) /\ ~ work[e].old
    /\ work' = [work EXCEPT ![e].old = TRUE]
    /\ UNCHANGED <<world, processes>>

World ==
    \/ \E e \in Execution : SessionEnds(e) \/ RowAges(e)
    \/ \E env \in Env : ServerCrashes(env) \/ ProbeBreaks(env) \/ ProbeWorks(env)
    \/ DockerBreaks \/ DockerWorks

(***************************************************************************)
(* Specification.                                                          *)
(***************************************************************************)

LifecycleInit ==
    /\ work = [e \in Execution |-> NoRow]
    /\ agent = [e \in Execution |-> "none"]
    /\ server = [env \in Env |-> "running"]
    /\ docker = TRUE
    /\ spawner = [e \in Execution |-> "idle"]
    /\ cmd = [p \in Commands |-> NoCommand]
    /\ cleaner = [k \in Cleaners |-> NoCleanup]
    /\ failures = 0

LifecycleNext ==
    \/ \E e \in Execution : Spawn(e)
    \/ \E p \in Commands : CommandStep(p)
    \/ \E k \in Cleaners : CleanStep(k)
    \/ World

LifecycleSpec == LifecycleInit /\ [][LifecycleNext]_lifecycleVars

(***************************************************************************)
(* Properties.                                                             *)
(***************************************************************************)

RowsOK ==
    /\ work \in [Execution -> Row]
    /\ \A e \in Execution : work[e].completedAt <=> work[e].status \in Terminal

LifecycleTypeOK ==
    /\ RowsOK
    /\ agent \in [Execution -> Session]
    /\ server \in [Env -> {"running", "down", "error"}]
    /\ docker \in BOOLEAN
    /\ spawner \in [Execution -> {"idle", "launch", "status", "info"}]
    /\ \A p \in Commands : cmd[p].pc # "idle" => cmd[p].row \in Execution
    /\ \A k \in Cleaners : cleaner[k].pc # "idle" =>
          cleaner[k].todo \subseteq Execution /\ cleaner[k].todo # {}
    /\ failures \in 0..MaxFailures

(* What the cleanup stops had no live session when its environment was      *)
(* asked, although containers stop answering, sessions come and go and      *)
(* commands end executions meanwhile (storage.ts, PRLT-1077).  It says      *)
(* nothing of an environment that was not asked: the host when its probe    *)
(* fails, a container when `docker ps' fails or when it has no label, which *)
(* is every container the program itself starts.                            *)
Confirmed(k) ==
    \A e \in cleaner[k].todo \cap cleaner[k].recorded :
        Gone(k, e) /\ EnvOf[e] \in cleaner[k].asked =>
            e \notin cleaner[k].alive
StoppedOnlyIfGone ==
    \A k \in Cleaners : cleaner[k].pc = "mark" => Confirmed(k)
=============================================================================
