---------------------------- MODULE SessionWatcher ----------------------------
(***************************************************************************)
(* The session watcher and its tmux watchdog                               *)
(* (apps/cli/src/lib/session/watcher.ts, tmux-watchdog.ts, heartbeat.ts)    *)
(* beside the processes of ExecutionLifecycle.                             *)
(*                                                                         *)
(* A cycle runs four phases: compare the tmux servers with what they were,  *)
(* record heartbeats, list the stale executions, act on them one by one.    *)
(* It gives up the thread only where it awaits: while it waits for a        *)
(* crashed server and while a callback runs.  setInterval does not wait for *)
(* the cycle before, so cycles may overlap at these points; `thread' is the *)
(* cycle that runs now.  Other processes act between any two statements.    *)
(***************************************************************************)
EXTENDS ExecutionLifecycle

CONSTANTS Cycle,    \* cycles under way at the same time
          Nobody,   \* no cycle runs
          Moods     \* what a live session may show after "working"

ASSUME CycleAssumption ==
    /\ Nobody \notin Cycle
    /\ Moods \subseteq {"idle", "done", "hung"}
    /\ Cycle \cap (Commands \cup Cleaners \cup Execution) = {}

VARIABLES
    cycle,       \* the cycles
    thread,      \* the cycle that runs, or Nobody
    first,       \* isFirstCycle
    lastServer,  \* lastServerState, "unknown" without an entry
    snapshot,    \* activeExecutionsSnapshot
    handled,     \* handledCrashes
    holders      \* history: who held a row when it became final

watcherVars == <<cycle, thread, first, lastServer, snapshot, handled>>
watchdogVars == <<first, lastServer, snapshot, handled>>
vars == <<lifecycleVars, watcherVars, holders>>

NoCycle == [pc |-> "idle"]
Runs(w, step) == thread = w /\ cycle[w].pc = step
Become(w, state) == cycle' = [cycle EXCEPT ![w] = state]
KeepsThread == thread' = thread
Yields == thread' = Nobody

CycleHolds(w, e) ==
    \/ cycle[w].pc \in {"recover", "mark"} /\ e \in cycle[w].affected
    \/ cycle[w].pc = "act" /\ e \in cycle[w].stale
HoldsRow(e) == Holding(e) \cup {w \in Cycle : CycleHolds(w, e)}

NoteHolders ==
    holders' = [e \in Execution |->
                  IF /\ work'[e].status \in Terminal
                     /\ work'[e].status # work[e].status
                  THEN HoldsRow(e) ELSE holders[e]]

ServerAlive(env) == server[env] = "running" /\ (env = Host \/ docker)
ActiveEnvs == {EnvOf[e] : e \in {x \in ActiveExecutions :
                                   EnvOf[x] = Host \/ work[x].session}}
ActiveIn(env) == {e \in ActiveExecutions \cap In(env) :
                     env = Host \/ work[e].session}

(* Where a cycle goes after phase 0. *)
Heartbeats == [pc |-> "beat", todo |-> ActiveExecutions, beaten |-> {},
               recorded |-> {e \in ActiveExecutions : work[e].session}]

(***************************************************************************)
(* Phase 0, the watchdog.  A probe that errs counts as a server that is not *)
(* alive; a container counts once its id is recorded.                      *)
(***************************************************************************)

(* The state of each server and who is active there, before any crash. *)
seedServerState ==
    /\ lastServer' = [env \in Env |->
         IF env \notin ActiveEnvs THEN "unknown"
         ELSE IF ServerAlive(env) THEN "alive" ELSE "dead"]
    /\ snapshot' = [env \in Env |-> ActiveIn(env)]

CycleStarts(w) ==
    /\ thread = Nobody /\ cycle[w].pc = "idle"
    /\ thread' = w
    /\ IF first
       THEN Become(w, Heartbeats) /\ seedServerState
       ELSE /\ Become(w, [pc |-> "watch", listed |-> ActiveEnvs,
                          execs |-> [env \in Env |-> ActiveIn(env)],
                          todo |-> ActiveEnvs \cup
                             {env \in {Host} : lastServer[env] # "unknown"}])
            /\ UNCHANGED <<lastServer, snapshot>>
    /\ first' = FALSE
    /\ UNCHANGED <<handled, lifecycleVars>>

(* The host is checked before the containers. *)
NextEnv(w) == {env \in cycle[w].todo : env = Host \/ Host \notin cycle[w].todo}
NextWatch(w, env) == [pc |-> "watch", listed |-> cycle[w].listed,
                      execs |-> cycle[w].execs, todo |-> cycle[w].todo \ {env}]

ServerSeenAlive(w, env) ==
    /\ Runs(w, "watch") /\ env \in NextEnv(w) /\ ServerAlive(env)
    /\ snapshot' = [snapshot EXCEPT ![env] = cycle[w].execs[env]]
    /\ handled' = handled \ {env}
    /\ lastServer' = [lastServer EXCEPT ![env] = "alive"]
    /\ Become(w, NextWatch(w, env)) /\ KeepsThread
    /\ UNCHANGED <<first, lifecycleVars>>

Affected(env) == {e \in snapshot[env] : IsActive(e)}
CrashDetected(env) == /\ lastServer[env] = "alive" /\ env \notin handled
                      /\ Affected(env) # {}

ServerSeenDead(w, env) ==
    /\ Runs(w, "watch") /\ env \in NextEnv(w)
    /\ ~ ServerAlive(env) /\ ~ CrashDetected(env)
    /\ lastServer' = [lastServer EXCEPT ![env] = "dead"]
    /\ Become(w, NextWatch(w, env)) /\ KeepsThread
    /\ UNCHANGED <<first, snapshot, handled, lifecycleVars>>

ServerCrashSeen(w, env) ==
    /\ Runs(w, "watch") /\ env \in NextEnv(w)
    /\ ~ ServerAlive(env) /\ CrashDetected(env)
    /\ Become(w, [pc |-> "mark", env |-> env, affected |-> Affected(env),
                  todo |-> Affected(env), recorded |->
                     {e \in Affected(env) : work[e].session},
                  then |-> NextWatch(w, env)])
    /\ KeepsThread
    /\ UNCHANGED <<watchdogVars, lifecycleVars>>

(* Mutant: the row is declared dead and stays active. *)
MarkLifecycleOnly(w, e) ==
    /\ Runs(w, "mark") /\ e \in cycle[w].todo
    /\ work' = [work EXCEPT ![e].life = "died"]
    /\ IF cycle[w].todo = {e}
       THEN Become(w, [cycle[w] EXCEPT !.pc = "recover",
                                       !.todo = cycle[w].affected]) /\ Yields
       ELSE Become(w, [cycle[w] EXCEPT !.todo = @ \ {e}]) /\ KeepsThread
    /\ UNCHANGED <<watchdogVars, world, processes>>

(* updateStatus and updateLifecycleState, back to back. *)
MarkAffected(w, e) ==
    /\ Runs(w, "mark") /\ e \in cycle[w].todo
    /\ work' = [work EXCEPT ![e].status = "failed", ![e].completedAt = TRUE,
                            ![e].life = "died"]
    /\ IF cycle[w].todo = {e}
       THEN Become(w, [cycle[w] EXCEPT !.pc = "recover",
                                       !.todo = cycle[w].affected]) /\ Yields
       ELSE Become(w, [cycle[w] EXCEPT !.todo = @ \ {e}]) /\ KeepsThread
    /\ UNCHANGED <<watchdogVars, world, processes>>

(* Five seconds later, whether or not the server is back. *)
RecoveryGoesOn(w) ==
    /\ thread = Nobody /\ cycle[w].pc = "recover"
    /\ thread' = w
    /\ UNCHANGED <<cycle, watchdogVars, lifecycleVars>>

(* Mutant: the row is set running although no session was created. *)
RecoverWithoutSession(w, e) ==
    /\ Runs(w, "recover") /\ e \in cycle[w].todo
    /\ work' = [work EXCEPT ![e].status = "running",
                            ![e].completedAt = FALSE,
                            ![e].life = "healthy", ![e].fresh = TRUE]
    /\ Become(w, [cycle[w] EXCEPT !.todo = @ \ {e}]) /\ KeepsThread
    /\ UNCHANGED <<watchdogVars, world, processes>>

(* tmux new-session starts the server too; a session that exists is refused. *)
Recovered(w, e) ==
    LET env == cycle[w].env IN
    /\ Runs(w, "recover") /\ e \in cycle[w].todo \cap cycle[w].recorded
    /\ agent[e] = "none" /\ server[env] # "error" /\ (env = Host \/ docker)
    /\ agent' = [agent EXCEPT ![e] = "working"]
    /\ server' = [server EXCEPT ![env] = "running"]
    /\ work' = [work EXCEPT ![e].status = "running", ![e].completedAt = FALSE,
                            ![e].life = "healthy", ![e].fresh = TRUE]
    /\ Become(w, [cycle[w] EXCEPT !.todo = @ \ {e}]) /\ KeepsThread
    /\ UNCHANGED <<watchdogVars, docker, failures, processes>>

NotRecovered(w, e) ==
    /\ Runs(w, "recover") /\ e \in cycle[w].todo
    /\ Become(w, [cycle[w] EXCEPT !.todo = @ \ {e}]) /\ KeepsThread
    /\ UNCHANGED <<watchdogVars, lifecycleVars>>

(* onCrashDetected is awaited; then the crash counts as handled.            *)
CrashReported(w) ==
    /\ Runs(w, "recover") /\ cycle[w].todo = {}
    /\ Become(w, [cycle[w] EXCEPT !.pc = "handled"]) /\ Yields
    /\ UNCHANGED <<watchdogVars, lifecycleVars>>

CrashHandled(w) ==
    LET env == cycle[w].env IN
    /\ thread = Nobody /\ cycle[w].pc = "handled"
    /\ thread' = w
    /\ handled' = handled \cup {env}
    /\ lastServer' = [lastServer EXCEPT ![env] = "dead"]
    /\ Become(w, cycle[w].then)
    /\ UNCHANGED <<first, snapshot, lifecycleVars>>

(* Containers without active executions are forgotten. *)
WatchEnds(w) ==
    LET kept == cycle[w].listed \cup {Host} IN
    /\ Runs(w, "watch") /\ cycle[w].todo = {}
    /\ lastServer' = [env \in Env |->
                        IF env \in kept THEN lastServer[env] ELSE "unknown"]
    /\ snapshot' = [env \in Env |-> IF env \in kept THEN snapshot[env] ELSE {}]
    /\ handled' = handled \cap kept
    /\ Become(w, Heartbeats) /\ KeepsThread
    /\ UNCHANGED <<first, lifecycleVars>>

(***************************************************************************)
(* Phases 1 to 3.                                                          *)
(***************************************************************************)

Mood(e) == CASE agent[e] = "working" -> "healthy"
             [] agent[e] = "idle" -> "idle"
             [] agent[e] = "done" -> "completed"
             [] OTHER -> work[e].life

(* The watcher asks every container, with or without the label.  A session  *)
(* on the host is found by its name even when it is not recorded, one in a  *)
(* container only through the recorded container id.                        *)
Reported(e) ==
    /\ e \in Alive
    /\ ServerAlive(EnvOf[e])
Found(w, e) == Reported(e) /\ (EnvOf[e] = Host \/ e \in cycle[w].recorded)

recordHeartbeat(w, e) ==
    /\ Runs(w, "beat") /\ e \in cycle[w].todo
    /\ Become(w, [cycle[w] EXCEPT !.todo = @ \ {e},
                     !.beaten = IF Found(w, e) THEN @ \cup {e} ELSE @])
    /\ IF Found(w, e)
       THEN work' = [work EXCEPT ![e].fresh = TRUE, ![e].life = Mood(e)]
       ELSE UNCHANGED work
    /\ KeepsThread
    /\ UNCHANGED <<watchdogVars, world, processes>>

(* Mutant: `starting' executions are not looked at. *)
getStaleRunning ==
    {e \in Execution : /\ work[e].status = "running" /\ ~ work[e].fresh
                       /\ work[e].life \notin {"died", "completed"}}

getStaleExecutions ==
    {e \in ActiveExecutions : /\ ~ work[e].fresh
                              /\ work[e].life \notin {"died", "completed"}}

Acts(beaten) == IF getStaleExecutions = {} THEN NoCycle
                ELSE [pc |-> "act", stale |-> getStaleExecutions,
                      beaten |-> beaten,
                      recorded |-> {e \in getStaleExecutions : work[e].session}]

(* Mutant: the stale executions are listed before the heartbeats.           *)
detectBeforeBeat(w) ==
    /\ Runs(w, "beat")
    /\ Become(w, Acts(cycle[w].beaten \cup
                         {e \in cycle[w].todo : Found(w, e)}))
    /\ IF getStaleExecutions = {} THEN Yields ELSE KeepsThread
    /\ UNCHANGED <<watchdogVars, lifecycleVars>>

detectStaleExecutions(w) ==
    /\ Runs(w, "beat") /\ cycle[w].todo = {}
    /\ Become(w, Acts(cycle[w].beaten))
    /\ IF getStaleExecutions = {} THEN Yields ELSE KeepsThread
    /\ UNCHANGED <<watchdogVars, lifecycleVars>>

(* markHeartbeatTimeout by id, then kill the whole container if one is      *)
(* recorded; the kill may fail.  Then onStaleDetected is awaited.           *)
markHeartbeatTimeout(w, e) ==
    /\ Runs(w, "act") /\ e \in cycle[w].stale
    /\ work' = [work EXCEPT ![e].status = "failed", ![e].completedAt = TRUE,
                            ![e].life = "died"]
    /\ \/ UNCHANGED <<agent, server>>
       \/ EnvOf[e] # Host /\ e \in cycle[w].recorded /\ StopContainer(EnvOf[e])
    /\ Become(w, IF cycle[w].stale = {e} THEN NoCycle
                 ELSE [cycle[w] EXCEPT !.stale = @ \ {e}])
    /\ Yields
    /\ UNCHANGED <<watchdogVars, docker, failures, processes>>

StaleGoesOn(w) ==
    /\ thread = Nobody /\ cycle[w].pc = "act"
    /\ thread' = w
    /\ UNCHANGED <<cycle, watchdogVars, lifecycleVars>>

(* The pane of a live session shows something else. *)
AgentMoves(e) ==
    /\ agent[e] = "working"
    /\ \E mood \in Moods : agent' = [agent EXCEPT ![e] = mood]
    /\ UNCHANGED <<work, server, docker, failures, processes, watcherVars,
                   holders>>

(* Nothing has been heard of the agent for the timeout, which is longer     *)
(* than the part of a cycle that records and compares the heartbeats.       *)
HeartbeatAges(e) ==
    /\ IsActive(e) /\ work[e].fresh
    /\ \A w \in Cycle : cycle[w].pc # "beat"
    /\ work' = [work EXCEPT ![e].fresh = FALSE]
    /\ UNCHANGED <<watcherVars, world, processes, holders>>

(***************************************************************************)
(* Specification.                                                          *)
(***************************************************************************)

Init ==
    /\ LifecycleInit
    /\ cycle = [w \in Cycle |-> NoCycle]
    /\ thread = Nobody
    /\ first = TRUE
    /\ lastServer = [env \in Env |-> "unknown"]
    /\ snapshot = [env \in Env |-> {}]
    /\ handled = {}
    /\ holders = [e \in Execution |-> {}]

Watchdog(w) ==
    \/ \E env \in Env : \/ ServerSeenAlive(w, env)
                        \/ ServerSeenDead(w, env)
                        \/ ServerCrashSeen(w, env)
    \/ \E e \in Execution : \/ MarkAffected(w, e)
                            \/ Recovered(w, e) \/ NotRecovered(w, e)
    \/ RecoveryGoesOn(w) \/ CrashReported(w) \/ CrashHandled(w)
    \/ WatchEnds(w)

Phases(w) ==
    \/ \E e \in Execution : recordHeartbeat(w, e) \/ markHeartbeatTimeout(w, e)
    \/ detectStaleExecutions(w) \/ StaleGoesOn(w)

runCycle(w) == /\ CycleStarts(w) \/ Watchdog(w) \/ Phases(w)
               /\ NoteHolders

Next ==
    \/ \E w \in Cycle : runCycle(w)
    \/ LifecycleNext /\ NoteHolders /\ UNCHANGED watcherVars
    \/ \E e \in Execution : HeartbeatAges(e) \/ AgentMoves(e)

Spec == Init /\ [][Next]_vars

(* The interval keeps firing and every step of a cycle returns; heartbeats  *)
(* that nobody renews grow old.  A spawn or a command may hang for ever.    *)
Fairness ==
    /\ \A w \in Cycle : WF_vars(runCycle(w))
    /\ \A e \in Execution : SF_vars(HeartbeatAges(e))

FairSpec == Spec /\ Fairness

(***************************************************************************)
(* Properties.                                                             *)
(***************************************************************************)

TypeOK ==
    /\ LifecycleTypeOK
    /\ thread \in Cycle \cup {Nobody}
    /\ thread # Nobody => cycle[thread].pc # "idle"
    /\ first \in BOOLEAN
    /\ lastServer \in [Env -> {"unknown", "alive", "dead"}]
    /\ snapshot \in [Env -> SUBSET Execution]
    /\ handled \subseteq Env

(* An agent the cycle has just seen alive is never timed out by the same    *)
(* cycle, whatever other processes do to its row and its session while the  *)
(* cycle works off its list (watcher.ts runs phase 1 before phase 2).       *)
SeenIsNotTimedOut ==
    \A w \in Cycle : cycle[w].pc = "act" =>
        cycle[w].stale \cap cycle[w].beaten = {}

(* Overlapping cycles never have the same session to restart, which would   *)
(* start its agent twice: the first one has set the row failed before it    *)
(* gives up the thread, and no spawn is left that could set it running.     *)
ToRestart(w) == IF cycle[w].pc \in {"mark", "recover"}
                THEN cycle[w].todo \cap cycle[w].recorded ELSE {}
RecoveredByOneCycle ==
    \A v, w \in Cycle : v # w => ToRestart(v) \cap ToRestart(w) = {}

(* A final status is overwritten only by a process that had read the row    *)
(* before it became final, be it a spawn, a command, a cleanup or a cycle   *)
(* of the watcher: every writer of agent_work looks first whether the row   *)
(* is still active, so what it overwrites is a race and never a row it      *)
(* could have seen to be finished.                                          *)
FinalOnlyLostInRaces ==
    [][\A e \in Execution :
          work[e].status \in Terminal /\ work'[e].status # work[e].status =>
             \E p \in holders[e] \cap HoldsRow(e) :
                 IF p = e THEN spawner'[e] # spawner[e]
                 ELSE IF p \in Cycle THEN cycle'[p] # cycle[p]
                 ELSE p \notin Holding(e)']_work

(* An execution that comes back from a final status has a session again:    *)
(* only a spawn or a recovery that created one revives a row.               *)
RevivedHasSession ==
    [][\A e \in Execution :
          work[e].status \in Terminal /\ work'[e].status = "running" =>
             spawner[e] = "status" \/ agent'[e] # "none"]_work

(* An execution whose session is gone does not stay active: the heartbeat   *)
(* times out, unless the pane last said that the work is complete, or the   *)
(* row was declared dead before and a late spawn set it running again.      *)
DeadAgentsSettle ==
    \A e \in Execution :
        (IsActive(e) /\ agent[e] = "none")
            ~> \/ ~ IsActive(e) \/ agent[e] # "none"
               \/ work[e].life \in {"completed", "died"}
=============================================================================
