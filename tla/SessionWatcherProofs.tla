------------------------- MODULE SessionWatcherProofs -------------------------
(***************************************************************************)
(* Proofs about SessionWatcher, for any number of executions, containers,  *)
(* commands, cleanups and overlapping cycles.                              *)
(***************************************************************************)
EXTENDS SessionWatcher, TLAPS

(***************************************************************************)
(* The inductive invariant.                                                *)
(***************************************************************************)

(* What the processes remember.                                             *)
Some == SUBSET Execution
Watch == [pc : {"watch"}, listed : SUBSET Env, execs : [Env -> Some],
          todo : SUBSET Env]
Crash == [pc : {"mark", "recover", "handled"}, env : Env, affected : Some,
          todo : Some, recorded : Some, then : Watch]
Beat == [pc : {"beat"}, todo : Some, beaten : Some, recorded : Some]
Act == [pc : {"act"}, stale : Some, beaten : Some, recorded : Some]
Idle == [pc : {"idle"}]

Asking == [pc : {"ps", "exec", "mark"}, todo : Some, recorded : Some,
           ask : SUBSET Container, asked : SUBSET Env, reported : Some,
           unknown : Some, alive : Some]
Cleanup == [pc : {"host"}, todo : Some, recorded : Some] \cup Asking \cup Idle

CommandState == [pc : {"kill", "write"}, kind : Command, row : Execution,
                 session : BOOLEAN] \cup Idle

CleanersOK ==
    /\ cleaner \in [Cleaners -> Cleanup]
    /\ \A k \in Cleaners : cleaner[k].pc # "idle" =>
          cleaner[k].todo \subseteq Execution /\ cleaner[k].todo # {}

CommandsOK ==
    /\ cmd \in [Commands -> CommandState]
    /\ \A p \in Commands : cmd[p].pc # "idle" => cmd[p].row \in Execution

Shapes ==
    /\ TypeOK
    /\ cycle \in [Cycle -> Watch \cup Crash \cup Beat \cup Act \cup Idle]
    /\ CleanersOK /\ CommandsOK
    /\ DOMAIN holders = Execution
    /\ snapshot \in [Env -> Some]

(* The executions of a crashed server are its own.                          *)
Own(execs) == \A env \in Env : execs[env] \subseteq In(env)
OwnedBy(state) ==
    /\ state.pc = "watch" => Own(state.execs)
    /\ state.pc \in {"mark", "recover", "handled"} => Own(state.then.execs)
    /\ state.pc \in {"mark", "recover"} =>
          state.affected \subseteq In(state.env) /\ state.todo \subseteq state.affected
Owned == Own(snapshot) /\ \A w \in Cycle : OwnedBy(cycle[w])

(* What a cycle has seen alive is fresh until it has its stale ones, and    *)
(* is none of them.                                                         *)
SeenIsFresh ==
    \A w \in Cycle :
        /\ cycle[w].pc = "beat" => \A e \in cycle[w].beaten : work[e].fresh
        /\ cycle[w].pc = "act" => cycle[w].stale \cap cycle[w].beaten = {}

(***************************************************************************)
(* Shapes and types.                                                       *)
(***************************************************************************)

LEMMA InitShapes == Init => Shapes
BY ConstantsAssumption, CycleAssumption
DEF Init, LifecycleInit, Shapes, TypeOK, LifecycleTypeOK, RowsOK, NoRow, Row,
    Active, Terminal, Session, Some, Idle, Cleanup, CommandState, CleanersOK,
    CommandsOK, NoCycle,
    NoCleanup, NoCommand

(* A row that changes into a row leaves the table in order.                 *)
LEMMA RowChange ==
    ASSUME RowsOK, NEW e \in Execution, NEW r \in Row,
           r.completedAt <=> r.status \in Terminal,
           work' = [work EXCEPT ![e] = r]
    PROVE  RowsOK'
BY DEF RowsOK

(* The statements that change a row, one column after the other.            *)
LEMMA RowParts ==
    ASSUME NEW r \in Row, NEW s \in Active \cup Terminal, NEW done \in BOOLEAN,
           NEW life \in {"none", "healthy", "idle", "completed", "died"}
    PROVE  /\ [r EXCEPT !.status = s, !.completedAt = done] \in Row
           /\ [r EXCEPT !.status = s, !.completedAt = done, !.life = life] \in Row
           /\ [r EXCEPT !.status = s, !.completedAt = done, !.life = life,
                        !.fresh = TRUE] \in Row
           /\ [r EXCEPT !.fresh = TRUE, !.life = life] \in Row
           /\ [r EXCEPT !.session = TRUE] \in Row
           /\ [r EXCEPT !.old = TRUE] \in Row
           /\ [r EXCEPT !.fresh = FALSE] \in Row
           /\ [r EXCEPT !.status = s] \in Row
BY DEF Row

LEMMA UpdateRows ==
    ASSUME RowsOK, NEW e \in Execution, NEW s \in Active \cup Terminal,
           updateStatus(e, s)
    PROVE  RowsOK'
<1> DEFINE done == s \in Terminal
           r == [work[e] EXCEPT !.status = s, !.completedAt = done]
<1>1. work[e] \in Row /\ done \in BOOLEAN
  BY DEF RowsOK
<1>2. r \in Row
  BY <1>1, RowParts
<1>3. r.status = s /\ r.completedAt = done
  BY <1>1 DEF Row
<1>4. work' = [work EXCEPT ![e] = r]
  BY <1>1 DEF updateStatus, RowsOK
<1> QED BY <1>2, <1>3, <1>4, RowChange

LEMMA SpawnShapes ==
    ASSUME Shapes, NEW e \in Execution, Spawn(e), UNCHANGED watcherVars, NoteHolders
    PROVE  Shapes'
<1> USE DEF Shapes, TypeOK, LifecycleTypeOK, watcherVars, world, Goto, NoteHolders,
            CommandsOK, CleanersOK
<1>1. CASE createExecution(e)
  <2>1. RowsOK'
    <3> DEFINE r == [work[e] EXCEPT !.status = "starting"]
    <3>1. work[e] \in Row /\ (work[e].completedAt <=> work[e].status \in Terminal)
      BY DEF RowsOK
    <3>2. r \in Row
      BY <3>1, RowParts DEF Active
    <3>3. r.status = "starting" /\ r.completedAt = work[e].completedAt
      BY <3>1 DEF Row
    <3>4. work' = [work EXCEPT ![e] = r] /\ work[e].status = "none"
      BY <1>1 DEF createExecution, RowsOK
    <3> QED BY <3>1, <3>2, <3>3, <3>4, RowChange DEF Terminal
  <2> QED BY <1>1, <2>1 DEF createExecution
<1>2. CASE Launches(e)
  <2>1. agent' \in [Execution -> Session]
    BY <1>2 DEF Launches, Session
  <2>2. RowsOK'
    BY <1>2 DEF Launches, RowsOK
  <2> QED BY <1>2, <2>1, <2>2 DEF Launches
<1>3. CASE LaunchFails(e)
  <2>1. RowsOK'
    BY <1>3, UpdateRows DEF LaunchFails, Terminal
  <2> QED BY <1>3, <2>1 DEF LaunchFails
<1>4. CASE SpawnedStatus(e)
  <2>1. RowsOK'
    BY <1>4, UpdateRows DEF SpawnedStatus, Active
  <2> QED BY <1>4, <2>1 DEF SpawnedStatus
<1>5. CASE updateProcessInfo(e)
  <2>1. RowsOK'
    <3> DEFINE r == [work[e] EXCEPT !.session = TRUE]
    <3>1. work[e] \in Row /\ (work[e].completedAt <=> work[e].status \in Terminal)
      BY DEF RowsOK
    <3>2. r \in Row
      BY <3>1, RowParts DEF Active
    <3>3. r.status = work[e].status /\ r.completedAt = work[e].completedAt
      BY <3>1 DEF Row
    <3>4. work' = [work EXCEPT ![e] = r]
      BY <1>5 DEF updateProcessInfo, RowsOK
    <3> QED BY <3>1, <3>2, <3>3, <3>4, RowChange
  <2> QED BY <1>5, <2>1 DEF updateProcessInfo
<1> QED BY <1>1, <1>2, <1>3, <1>4, <1>5 DEF Spawn

LEMMA CommandShapes ==
    ASSUME Shapes, NEW p \in Commands, CommandStep(p), UNCHANGED watcherVars, NoteHolders
    PROVE  Shapes'
<1> USE DEF Shapes, TypeOK, LifecycleTypeOK, watcherVars, world, NoteHolders,
            CommandsOK, CleanersOK
<1>1. ASSUME NEW kind \in Command, NEW e \in Execution, CommandReads(p, kind, e)
      PROVE  Shapes'
  <2>1. RowsOK'
    BY <1>1 DEF CommandReads, RowsOK
  <2>2. CommandsOK'
    BY <1>1 DEF CommandReads, Begun, CommandState, CommandsOK
  <2> QED BY <1>1, <2>1, <2>2 DEF CommandReads
<1>2. CASE CommandKills(p)
  <2>1. RowsOK'
    BY <1>2 DEF CommandKills, RowsOK
  <2>2. CommandsOK'
    BY <1>2 DEF CommandKills, CommandState, CommandsOK, Idle
  <2>3. agent' \in [Execution -> Session]
        /\ server' \in [Env -> {"running", "down", "error"}]
    BY <1>2 DEF CommandKills, KillSession, StopContainer, Session
  <2> QED BY <1>2, <2>1, <2>2, <2>3 DEF CommandKills
<1>3. CASE CommandWrites(p)
  <2>1. cmd[p].row \in Execution /\ cmd[p].kind \in Command
    BY <1>3 DEF CommandWrites, CommandState, CommandsOK, Idle
  <2>2. RowsOK'
    BY <1>3, <2>1, UpdateRows DEF CommandWrites, Outcome, Terminal
  <2>3. CommandsOK'
    BY <1>3 DEF CommandWrites, NoCommand, CommandState, CommandsOK, Idle
  <2> QED BY <1>3, <2>2, <2>3 DEF CommandWrites
<1> QED BY <1>1, <1>2, <1>3 DEF CommandStep

(* The steps that ask for sessions; they keep the rows to visit.            *)
Asks(k) == \/ CleanAsksHost(k) \/ CleanAsksDocker(k)
           \/ \E env \in Container : CleanAsksContainer(k, env)

LEMMA AsksState ==
    ASSUME Shapes, NEW k \in Cleaners, Asks(k)
    PROVE  \E r \in Asking : /\ r.todo = cleaner[k].todo
                             /\ cleaner[k].pc # "idle"
                             /\ cleaner' = [cleaner EXCEPT ![k] = r]
<1>0. /\ cleaner[k] \in Cleanup /\ Host \in Env /\ Container \subseteq Env
      /\ \A lab \in Labels : lab \subseteq Container
      /\ \A env : RecordedIn(k, env) = cleaner[k].recorded \cap In(env)
      /\ Alive \subseteq Execution
  BY ConstantsAssumption DEF Shapes, CleanersOK, Env, RecordedIn, Alive
<1>1. ASSUME NEW pc \in {"ps", "exec", "mark"}, NEW ask \in SUBSET Container,
             NEW asked \in SUBSET Env, NEW reported \in Some,
             NEW unknown \in Some, NEW alive \in Some,
             Reply(k, pc, ask, asked, reported, unknown, alive),
             cleaner[k].pc # "idle"
      PROVE  \E r \in Asking : /\ r.todo = cleaner[k].todo
                               /\ cleaner[k].pc # "idle"
                               /\ cleaner' = [cleaner EXCEPT ![k] = r]
  <2> DEFINE r == [pc |-> pc, todo |-> cleaner[k].todo,
                   recorded |-> cleaner[k].recorded, ask |-> ask,
                   asked |-> asked, reported |-> reported,
                   unknown |-> unknown, alive |-> alive]
  <2>1. cleaner[k].todo \in Some /\ cleaner[k].recorded \in Some
    BY <1>0, <1>1 DEF Cleanup, Asking, Idle
  <2>2. r \in Asking /\ r.todo = cleaner[k].todo
    BY <2>1 DEF Asking
  <2>3. cleaner' = [cleaner EXCEPT ![k] = r]
    BY <1>1 DEF Reply
  <2> HIDE DEF r
  <2> QED BY <1>1, <2>2, <2>3
<1>2. CASE CleanAsksHost(k)
  <2> DEFINE live == RecordedIn(k, Host) \cap Alive
             answers == server[Host] # "error"
  <2>1. live \in Some /\ {} \in Some /\ {} \in SUBSET Container
    BY <1>0 DEF Some
  <2>2. /\ (IF answers THEN {Host} ELSE {}) \in SUBSET Env
        /\ (IF answers THEN live ELSE {}) \in Some
    BY <1>0, <2>1
  <2>3. /\ cleaner[k].pc = "host"
        /\ Reply(k, "ps", {}, IF answers THEN {Host} ELSE {},
                 IF answers THEN live ELSE {}, {}, live)
    BY <1>2 DEF CleanAsksHost
  <2> HIDE DEF live, answers
  <2> QED BY <1>1, <2>1, <2>2, <2>3
<1>3. CASE CleanAsksDocker(k)
  <2>1. PICK labelled \in Labels, running \in SUBSET Container :
          LET ask == IF docker THEN labelled \cap running ELSE {}
              live == cleaner[k].recorded \cap Alive IN
          Reply(k, IF ask = {} THEN "mark" ELSE "exec", ask,
                cleaner[k].asked, cleaner[k].reported, {},
                cleaner[k].alive \cup {e \in live : EnvOf[e] # Host})
    BY <1>3 DEF CleanAsksDocker
  <2> DEFINE ask == IF docker THEN labelled \cap running ELSE {}
             live == cleaner[k].recorded \cap Alive
             alive == cleaner[k].alive \cup {e \in live : EnvOf[e] # Host}
             pc == IF ask = {} THEN "mark" ELSE "exec"
  <2>2. cleaner[k].pc = "ps" /\ cleaner[k] \in Asking
    BY <1>0, <1>3 DEF CleanAsksDocker, Cleanup, Idle
  <2>3. /\ cleaner[k].asked \in SUBSET Env /\ cleaner[k].reported \in Some
        /\ cleaner[k].alive \in Some /\ {} \in Some
    BY <2>2 DEF Asking, Some
  <2>4. ask \in SUBSET Container /\ pc \in {"ps", "exec", "mark"}
    BY <1>0
  <2>5. alive \in Some
    BY <1>0, <2>3 DEF Some
  <2>6. Reply(k, pc, ask, cleaner[k].asked, cleaner[k].reported, {}, alive)
    BY <2>1
  <2> HIDE DEF ask, live, alive, pc
  <2> QED BY <1>1, <2>2, <2>3, <2>4, <2>5, <2>6
<1>4. ASSUME NEW env \in Container, CleanAsksContainer(k, env)
      PROVE  \E r \in Asking : /\ r.todo = cleaner[k].todo
                               /\ cleaner[k].pc # "idle"
                               /\ cleaner' = [cleaner EXCEPT ![k] = r]
  <2> DEFINE live == RecordedIn(k, env) \cap Alive
             ask == cleaner[k].ask \ {env}
             pc == IF ask = {} THEN "mark" ELSE "exec"
             alive == live \cup (cleaner[k].alive \ In(env))
             asked == cleaner[k].asked \cup {env}
  <2>1. cleaner[k].pc = "exec" /\ cleaner[k] \in Asking
    BY <1>0, <1>4 DEF CleanAsksContainer, Cleanup, Idle
  <2>2. /\ cleaner[k].asked \in SUBSET Env /\ cleaner[k].reported \in Some
        /\ cleaner[k].alive \in Some /\ cleaner[k].unknown \in Some
        /\ cleaner[k].ask \in SUBSET Container /\ cleaner[k].recorded \in Some
    BY <2>1 DEF Asking
  <2>3. /\ ask \in SUBSET Container /\ pc \in {"ps", "exec", "mark"}
        /\ asked \in SUBSET Env /\ live \in Some /\ alive \in Some
        /\ cleaner[k].reported \cup live \in Some
        /\ cleaner[k].unknown \cup Unreachable(k, env) \in Some
    BY <1>0, <2>2 DEF Some, Unreachable
  <2>4. \/ Reply(k, pc, ask, asked, cleaner[k].reported \cup live,
                 cleaner[k].unknown, alive)
        \/ Reply(k, pc, ask, asked, cleaner[k].reported,
                 cleaner[k].unknown \cup Unreachable(k, env), alive)
    BY <1>4 DEF CleanAsksContainer
  <2> HIDE DEF live, ask, pc, alive, asked
  <2>5. CASE Reply(k, pc, ask, asked, cleaner[k].reported \cup live,
                   cleaner[k].unknown, alive)
    BY <1>1, <2>1, <2>2, <2>3, <2>5
  <2>6. CASE Reply(k, pc, ask, asked, cleaner[k].reported,
                   cleaner[k].unknown \cup Unreachable(k, env), alive)
    BY <1>1, <2>1, <2>2, <2>3, <2>6
  <2> QED BY <2>4, <2>5, <2>6
<1> QED BY <1>2, <1>3, <1>4 DEF Asks

LEMMA CleanShapes ==
    ASSUME Shapes, NEW k \in Cleaners, CleanStep(k), UNCHANGED watcherVars, NoteHolders
    PROVE  Shapes'
<1> USE DEF Shapes, TypeOK, LifecycleTypeOK, watcherVars, world, NoteHolders,
            CommandsOK, CleanersOK
<1>1. CASE CleanLists(k)
  <2>1. RowsOK'
    BY <1>1 DEF CleanLists, RowsOK
  <2>2. CleanersOK'
    BY <1>1 DEF CleanLists, ActiveExecutions, Cleanup, CleanersOK, Some
  <2> QED BY <1>1, <2>1, <2>2 DEF CleanLists
<1>2. ASSUME Asks(k) PROVE Shapes'
  <2>1. PICK r \in Asking : /\ r.todo = cleaner[k].todo /\ cleaner[k].pc # "idle"
                            /\ cleaner' = [cleaner EXCEPT ![k] = r]
    BY <1>2, AsksState
  <2>2. UNCHANGED <<work, agent, server, docker, failures, spawner, cmd>>
    BY <1>2 DEF Asks, CleanAsksHost, CleanAsksDocker, CleanAsksContainer
  <2>3. CleanersOK'
    BY <2>1 DEF Cleanup, CleanersOK
  <2>4. RowsOK'
    BY <2>2 DEF RowsOK
  <2> QED BY <2>2, <2>3, <2>4
<1>3. ASSUME NEW e \in Execution, CleanStops(k, e) \/ CleanKeeps(k, e)
      PROVE  Shapes'
  <2>1. RowsOK'
    <3>1. CASE CleanStops(k, e)
      BY <3>1, UpdateRows DEF CleanStops, Terminal
    <3>2. CASE CleanKeeps(k, e)
      BY <3>2 DEF CleanKeeps, RowsOK
    <3> QED BY <1>3, <3>1, <3>2
  <2>2. CleanersOK'
    <3>1. Visited(k, e) /\ cleaner[k].pc = "mark" /\ e \in cleaner[k].todo
      BY <1>3 DEF CleanStops, CleanKeeps
    <3>2. CASE cleaner[k].todo = {e}
      <4>1. NoCleanup \in Cleanup /\ NoCleanup.pc = "idle"
        BY DEF NoCleanup, Cleanup, Idle
      <4> QED BY <3>1, <3>2, <4>1 DEF Visited
    <3>3. CASE cleaner[k].todo # {e}
      <4> DEFINE x == [cleaner[k] EXCEPT !.todo = cleaner[k].todo \ {e}]
      <4>1. x \in Cleanup /\ x.todo = cleaner[k].todo \ {e}
        BY <3>1 DEF Cleanup, Asking, Some, Idle
      <4>2. x.todo # {} /\ x.todo \subseteq Execution
        BY <3>1, <3>3, <4>1
      <4>3. cleaner' = [cleaner EXCEPT ![k] = x]
        BY <3>1, <3>3 DEF Visited
      <4> HIDE DEF x
      <4> QED BY <4>1, <4>2, <4>3
    <3> QED BY <3>2, <3>3
  <2> QED BY <1>3, <2>1, <2>2 DEF CleanStops, CleanKeeps
<1> QED BY <1>1, <1>2, <1>3 DEF CleanStep, Asks

LEMMA WorldShapes ==
    ASSUME Shapes, World, UNCHANGED watcherVars, NoteHolders
    PROVE  Shapes'
<1> USE DEF Shapes, TypeOK, LifecycleTypeOK, watcherVars, world, processes,
            NoteHolders, CommandsOK, CleanersOK
<1>1. ASSUME NEW e \in Execution, SessionEnds(e) PROVE Shapes'
  <2>1. RowsOK' /\ agent' \in [Execution -> Session]
    BY <1>1 DEF SessionEnds, RowsOK, Session
  <2> QED BY <1>1, <2>1 DEF SessionEnds
<1>2. ASSUME NEW e \in Execution, RowAges(e) PROVE Shapes'
  <2> DEFINE r == [work[e] EXCEPT !.old = TRUE]
  <2>1. work[e] \in Row /\ (work[e].completedAt <=> work[e].status \in Terminal)
    BY DEF RowsOK
  <2>2. r \in Row
    BY <2>1, RowParts DEF Active
  <2>3. r.status = work[e].status /\ r.completedAt = work[e].completedAt
    BY <2>1 DEF Row
  <2>4. work' = [work EXCEPT ![e] = r]
    BY <1>2 DEF RowAges, RowsOK
  <2>5. RowsOK'
    BY <2>1, <2>2, <2>3, <2>4, RowChange
  <2> QED BY <1>2, <2>5 DEF RowAges
<1>3. ASSUME NEW env \in Env, ServerCrashes(env) PROVE Shapes'
  <2>1. /\ RowsOK' /\ agent' \in [Execution -> Session]
        /\ server' \in [Env -> {"running", "down", "error"}]
    BY <1>3 DEF ServerCrashes, RowsOK, Session
  <2>2. failures' \in 0..MaxFailures
    BY <1>3, ConstantsAssumption DEF ServerCrashes, Fails
  <2> QED BY <1>3, <2>1, <2>2 DEF ServerCrashes
<1>4. ASSUME NEW env \in Env, ProbeBreaks(env) PROVE Shapes'
  <2>1. RowsOK' /\ server' \in [Env -> {"running", "down", "error"}]
    BY <1>4 DEF ProbeBreaks, RowsOK
  <2>2. failures' \in 0..MaxFailures
    BY <1>4, ConstantsAssumption DEF ProbeBreaks, Fails
  <2> QED BY <1>4, <2>1, <2>2 DEF ProbeBreaks
<1>5. ASSUME NEW env \in Env, ProbeWorks(env) PROVE Shapes'
  <2>1. RowsOK' /\ server' \in [Env -> {"running", "down", "error"}]
    BY <1>5 DEF ProbeWorks, RowsOK
  <2> QED BY <1>5, <2>1 DEF ProbeWorks
<1>6. CASE DockerBreaks
  <2>1. RowsOK' /\ docker' \in BOOLEAN
    BY <1>6 DEF DockerBreaks, RowsOK
  <2>2. failures' \in 0..MaxFailures
    BY <1>6, ConstantsAssumption DEF DockerBreaks, Fails
  <2> QED BY <1>6, <2>1, <2>2 DEF DockerBreaks
<1>7. CASE DockerWorks
  <2>1. RowsOK' /\ docker' \in BOOLEAN
    BY <1>7 DEF DockerWorks, RowsOK
  <2> QED BY <1>7, <2>1 DEF DockerWorks
<1> QED BY <1>1, <1>2, <1>3, <1>4, <1>5, <1>6, <1>7 DEF World

(* A step of a cycle that leaves the rest of the world alone.               *)
State == Watch \cup Crash \cup Beat \cup Act \cup Idle
CycleVarsOK ==
    /\ cycle \in [Cycle -> State]
    /\ thread \in Cycle \cup {Nobody}
    /\ thread # Nobody => cycle[thread].pc # "idle"
    /\ first \in BOOLEAN
    /\ lastServer \in [Env -> {"unknown", "alive", "dead"}]
    /\ snapshot \in [Env -> Some]
    /\ handled \subseteq Env

LEMMA ShapesSplit ==
    Shapes <=> /\ CycleVarsOK /\ LifecycleTypeOK /\ CleanersOK /\ CommandsOK
               /\ DOMAIN holders = Execution
BY DEF Shapes, TypeOK, CycleVarsOK, State, Some

LEMMA ShapesNext ==
    ASSUME CycleVarsOK', LifecycleTypeOK', CleanersOK', CommandsOK',
           DOMAIN holders' = Execution
    PROVE  Shapes'
BY DEF Shapes, TypeOK, CycleVarsOK, State, Some

(* The next state of a cycle is a state, and the thread is its own or free. *)
LEMMA BecomesState ==
    ASSUME CycleVarsOK, NEW w \in Cycle, NEW x \in State, Become(w, x),
           thread' \in {w, Nobody}, thread' = w => x.pc # "idle",
           first' \in BOOLEAN,
           lastServer' \in [Env -> {"unknown", "alive", "dead"}],
           snapshot' \in [Env -> Some], handled' \subseteq Env
    PROVE  CycleVarsOK'
BY DEF CycleVarsOK, Become

(* What is read about the executions is about executions.                   *)
LEMMA ReadsAreRows ==
    /\ ActiveExecutions \subseteq Execution
    /\ ActiveEnvs \subseteq Env
    /\ \A env \in Env : ActiveIn(env) \subseteq In(env) /\ In(env) \subseteq Execution
    /\ getStaleExecutions \subseteq Execution
    /\ Heartbeats \in Beat
BY ConstantsAssumption
DEF ActiveExecutions, ActiveEnvs, ActiveIn, In, getStaleExecutions, Heartbeats,
    Beat, Some

LEMMA UnchangedLifecycle ==
    ASSUME LifecycleTypeOK, CleanersOK, CommandsOK, UNCHANGED lifecycleVars
    PROVE  LifecycleTypeOK' /\ CleanersOK' /\ CommandsOK'
BY DEF lifecycleVars, world, processes, LifecycleTypeOK, RowsOK, CleanersOK,
       CommandsOK

(* Steps of a cycle that touch nothing but the watcher.                     *)
LEMMA WatcherStates ==
    ASSUME CycleVarsOK, NEW w \in Cycle,
           \/ CycleStarts(w) \/ RecoveryGoesOn(w) \/ CrashReported(w)
           \/ CrashHandled(w) \/ WatchEnds(w)
           \/ \E env \in Env : \/ ServerSeenAlive(w, env)
                               \/ ServerSeenDead(w, env)
                               \/ ServerCrashSeen(w, env)
           \/ \E e \in Execution : NotRecovered(w, e)
           \/ detectStaleExecutions(w) \/ StaleGoesOn(w)
    PROVE  CycleVarsOK' /\ UNCHANGED lifecycleVars
<1> USE DEF CycleVarsOK, KeepsThread, Yields, watchdogVars, Runs
<1>0. cycle[w] \in State
  OBVIOUS
<1>1. CASE CycleStarts(w)
  <2>1. CASE first
    <3>1. Heartbeats \in State /\ Heartbeats.pc # "idle"
      BY ReadsAreRows DEF State, Heartbeats
    <3>2. /\ lastServer' \in [Env -> {"unknown", "alive", "dead"}]
          /\ snapshot' \in [Env -> Some]
      BY <1>1, <2>1, ReadsAreRows DEF CycleStarts, seedServerState, Some
    <3> QED BY <1>1, <2>1, <3>1, <3>2, BecomesState DEF CycleStarts
  <2>2. CASE ~first
    <3>1. PICK x : /\ Become(w, x) /\ x.pc = "watch" /\ x \in Watch
      <4> DEFINE x == [pc |-> "watch", listed |-> ActiveEnvs,
                       execs |-> [env \in Env |-> ActiveIn(env)],
                       todo |-> ActiveEnvs \cup
                          {env \in {Host} : lastServer[env] # "unknown"}]
      <4>1. Host \in Env
        BY DEF Env
      <4>2. x \in Watch
        BY <4>1, ReadsAreRows DEF Watch, Some
      <4>3. Become(w, x)
        BY <1>1, <2>2 DEF CycleStarts
      <4> QED BY <4>2, <4>3
    <3>2. x \in State
      BY <3>1 DEF State
    <3> QED BY <1>1, <2>2, <3>1, <3>2, BecomesState DEF CycleStarts
  <2> QED BY <2>1, <2>2
<1>2. CASE RecoveryGoesOn(w) \/ StaleGoesOn(w)
  <2>1. cycle[w].pc # "idle" /\ cycle' = cycle /\ thread' = w
    BY <1>2 DEF RecoveryGoesOn, StaleGoesOn
  <2> QED BY <1>2, <2>1 DEF RecoveryGoesOn, StaleGoesOn
<1>3. CASE CrashReported(w)
  <2> DEFINE x == [cycle[w] EXCEPT !.pc = "handled"]
  <2>1. cycle[w] \in Crash
    BY <1>0, <1>3 DEF CrashReported, State, Watch, Crash, Beat, Act, Idle
  <2>2. x \in State /\ x.pc = "handled"
    BY <2>1 DEF Crash, State
  <2>3. Become(w, x)
    BY <1>3 DEF CrashReported
  <2> QED BY <1>3, <2>2, <2>3, BecomesState DEF CrashReported
<1>4. CASE CrashHandled(w)
  <2>1. cycle[w] \in Crash
    BY <1>0, <1>4 DEF CrashHandled, State, Watch, Crash, Beat, Act, Idle
  <2>2. cycle[w].env \in Env /\ cycle[w].then \in State /\ cycle[w].then.pc = "watch"
    BY <2>1 DEF Crash, Watch, State
  <2>3. lastServer' \in [Env -> {"unknown", "alive", "dead"}] /\ handled' \subseteq Env
    BY <1>4, <2>2 DEF CrashHandled
  <2> QED BY <1>4, <2>2, <2>3, BecomesState DEF CrashHandled
<1>5. CASE WatchEnds(w)
  <2>1. Heartbeats \in State /\ Heartbeats.pc # "idle"
    BY ReadsAreRows DEF State, Heartbeats
  <2>2. /\ lastServer' \in [Env -> {"unknown", "alive", "dead"}]
        /\ snapshot' \in [Env -> Some] /\ handled' \subseteq Env
    BY <1>5 DEF WatchEnds, Some
  <2> QED BY <1>5, <2>1, <2>2, BecomesState DEF WatchEnds
<1>6. ASSUME NEW env \in Env, cycle[w].pc = "watch"
      PROVE  /\ cycle[w] \in Watch
             /\ NextWatch(w, env) \in State /\ NextWatch(w, env) \in Watch
             /\ NextWatch(w, env).pc = "watch"
  <2>1. cycle[w] \in Watch
    BY <1>0, <1>6 DEF State, Watch, Crash, Beat, Act, Idle
  <2> QED BY <2>1 DEF NextWatch, Watch, State
<1>7. ASSUME NEW env \in Env, ServerSeenAlive(w, env) \/ ServerSeenDead(w, env)
      PROVE  CycleVarsOK'
  <2>1. /\ lastServer' \in [Env -> {"unknown", "alive", "dead"}]
        /\ snapshot' \in [Env -> Some] /\ handled' \subseteq Env
    <3>1. cycle[w].execs[env] \in Some
      BY <1>6, <1>7 DEF ServerSeenAlive, ServerSeenDead, Watch
    <3> QED BY <1>7, <3>1 DEF ServerSeenAlive, ServerSeenDead
  <2> QED BY <1>6, <1>7, <2>1, BecomesState DEF ServerSeenAlive, ServerSeenDead
<1>8. ASSUME NEW env \in Env, ServerCrashSeen(w, env) PROVE CycleVarsOK'
  <2> DEFINE x == [pc |-> "mark", env |-> env, affected |-> Affected(env),
                   todo |-> Affected(env), recorded |->
                      {e \in Affected(env) : work[e].session},
                   then |-> NextWatch(w, env)]
  <2>1. Affected(env) \subseteq Execution
    BY DEF Affected, Some
  <2>2. NextWatch(w, env) \in Watch
    BY <1>6, <1>8 DEF ServerCrashSeen
  <2>3. x \in State
    BY <2>1, <2>2 DEF State, Crash, Some
  <2>4. Become(w, x)
    BY <1>8 DEF ServerCrashSeen
  <2> QED BY <1>8, <2>3, <2>4, BecomesState DEF ServerCrashSeen
<1>9. ASSUME NEW e \in Execution, NotRecovered(w, e) PROVE CycleVarsOK'
  <2> DEFINE x == [cycle[w] EXCEPT !.todo = @ \ {e}]
  <2>1. cycle[w] \in Crash
    BY <1>0, <1>9 DEF NotRecovered, State, Watch, Crash, Beat, Act, Idle
  <2>2. x \in State /\ x.pc = "recover"
    BY <1>9, <2>1 DEF NotRecovered, Crash, State, Some
  <2>3. Become(w, x)
    BY <1>9 DEF NotRecovered
  <2> QED BY <1>9, <2>2, <2>3, BecomesState DEF NotRecovered
<1>10. CASE detectStaleExecutions(w)
  <2>1. cycle[w] \in Beat
    BY <1>0, <1>10 DEF detectStaleExecutions, State, Watch, Crash, Beat, Act, Idle
  <2>2. Acts(cycle[w].beaten) \in State
    BY <2>1, ReadsAreRows DEF Beat, Acts, State, Act, Idle, NoCycle, Some
  <2>3. getStaleExecutions # {} => Acts(cycle[w].beaten).pc # "idle"
    BY DEF Acts
  <2> QED BY <1>10, <2>2, <2>3, BecomesState, CycleAssumption
          DEF detectStaleExecutions
<1>11. UNCHANGED lifecycleVars
  BY DEF CycleStarts, RecoveryGoesOn, CrashReported, CrashHandled, WatchEnds,
         ServerSeenAlive, ServerSeenDead, ServerCrashSeen, NotRecovered,
         detectStaleExecutions, StaleGoesOn
<1> QED BY <1>1, <1>2, <1>3, <1>4, <1>5, <1>7, <1>8, <1>9, <1>10, <1>11

LEMMA LifecycleFrame ==
    ASSUME LifecycleTypeOK, CleanersOK, CommandsOK, RowsOK',
           agent' \in [Execution -> Session],
           server' \in [Env -> {"running", "down", "error"}],
           UNCHANGED <<docker, failures, processes>>
    PROVE  LifecycleTypeOK' /\ CleanersOK' /\ CommandsOK'
BY DEF processes, LifecycleTypeOK, CleanersOK, CommandsOK

(* Steps of a cycle that write rows, sessions or servers.                   *)
LEMMA CycleWrites ==
    ASSUME Shapes, NEW w \in Cycle, NEW e \in Execution, NoteHolders,
           \/ MarkAffected(w, e) \/ Recovered(w, e)
           \/ recordHeartbeat(w, e) \/ markHeartbeatTimeout(w, e)
    PROVE  Shapes'
<1> USE DEF KeepsThread, Yields, watchdogVars, Runs
<1>0. /\ CycleVarsOK /\ LifecycleTypeOK /\ CleanersOK /\ CommandsOK
      /\ cycle[w] \in State /\ RowsOK
      /\ work[e] \in Row /\ (work[e].completedAt <=> work[e].status \in Terminal)
      /\ DOMAIN holders' = Execution
  BY ShapesSplit DEF CycleVarsOK, LifecycleTypeOK, RowsOK, NoteHolders
<1>1. ASSUME MarkAffected(w, e) \/ markHeartbeatTimeout(w, e) PROVE RowsOK'
  <2> DEFINE r == [work[e] EXCEPT !.status = "failed", !.completedAt = TRUE,
                                  !.life = "died"]
  <2>1. r \in Row
    BY <1>0, RowParts DEF Terminal
  <2>2. r.status = "failed" /\ r.completedAt = TRUE
    BY <1>0 DEF Row
  <2>3. work' = [work EXCEPT ![e] = r]
    BY <1>0, <1>1 DEF MarkAffected, markHeartbeatTimeout, RowsOK
  <2> QED BY <1>0, <2>1, <2>2, <2>3, RowChange DEF Terminal
<1>2. CASE MarkAffected(w, e)
  <2>1. cycle[w] \in Crash
    BY <1>0, <1>2 DEF MarkAffected, State, Watch, Crash, Beat, Act, Idle
  <2>2. PICK x : Become(w, x) /\ x \in State /\ x.pc # "idle"
    <3> DEFINE x == [cycle[w] EXCEPT !.pc = "recover", !.todo = cycle[w].affected]
               y == [cycle[w] EXCEPT !.todo = cycle[w].todo \ {e}]
    <3>1. x \in State /\ x.pc = "recover" /\ y \in State /\ y.pc = "mark"
      BY <1>2, <2>1 DEF MarkAffected, Crash, State, Some
    <3>2. Become(w, x) \/ Become(w, y)
      BY <1>2 DEF MarkAffected
    <3> QED BY <3>1, <3>2
  <2>3. CycleVarsOK'
    BY <1>0, <1>2, <2>2, BecomesState DEF MarkAffected, CycleVarsOK
  <2>4. RowsOK'
    BY <1>1, <1>2
  <2>5. UNCHANGED <<agent, server, docker, failures, processes>>
    BY <1>2 DEF MarkAffected, world
  <2>6. LifecycleTypeOK' /\ CleanersOK' /\ CommandsOK'
    BY <1>0, <2>4, <2>5, LifecycleFrame DEF LifecycleTypeOK
  <2> QED BY <1>0, <2>3, <2>6, ShapesNext
<1>3. CASE Recovered(w, e)
  <2>1. cycle[w] \in Crash
    BY <1>0, <1>3 DEF Recovered, State, Watch, Crash, Beat, Act, Idle
  <2>2. PICK x : Become(w, x) /\ x \in State /\ x.pc # "idle"
    <3> DEFINE x == [cycle[w] EXCEPT !.todo = cycle[w].todo \ {e}]
    <3>1. x \in State /\ x.pc = "recover"
      BY <1>3, <2>1 DEF Recovered, Crash, State, Some
    <3>2. Become(w, x)
      BY <1>3 DEF Recovered
    <3> QED BY <3>1, <3>2
  <2>3. CycleVarsOK'
    BY <1>0, <1>3, <2>2, BecomesState DEF Recovered, CycleVarsOK
  <2>4. RowsOK'
    <3> DEFINE r == [work[e] EXCEPT !.status = "running", !.completedAt = FALSE,
                                    !.life = "healthy", !.fresh = TRUE]
    <3>1. r \in Row
      BY <1>0, RowParts DEF Active
    <3>2. r.status = "running" /\ r.completedAt = FALSE
      BY <1>0 DEF Row
    <3>3. work' = [work EXCEPT ![e] = r]
      BY <1>0, <1>3 DEF Recovered, RowsOK
    <3> QED BY <1>0, <3>1, <3>2, <3>3, RowChange DEF Terminal
  <2>5. /\ agent' \in [Execution -> Session]
        /\ server' \in [Env -> {"running", "down", "error"}]
    BY <1>0, <1>3 DEF Recovered, LifecycleTypeOK, Session
  <2>6. UNCHANGED <<docker, failures, processes>>
    BY <1>3 DEF Recovered
  <2>7. LifecycleTypeOK' /\ CleanersOK' /\ CommandsOK'
    BY <1>0, <2>4, <2>5, <2>6, LifecycleFrame
  <2> QED BY <1>0, <2>3, <2>7, ShapesNext
<1>4. CASE recordHeartbeat(w, e)
  <2>1. cycle[w] \in Beat
    BY <1>0, <1>4 DEF recordHeartbeat, State, Watch, Crash, Beat, Act, Idle
  <2>2. PICK x : Become(w, x) /\ x \in State /\ x.pc # "idle"
    <3> DEFINE x == [cycle[w] EXCEPT !.todo = cycle[w].todo \ {e},
                        !.beaten = IF Found(w, e) THEN cycle[w].beaten \cup {e}
                                   ELSE cycle[w].beaten]
    <3>1. x \in State /\ x.pc = "beat"
      BY <1>4, <2>1 DEF recordHeartbeat, Beat, State, Some
    <3>2. Become(w, x)
      BY <1>4 DEF recordHeartbeat
    <3> QED BY <3>1, <3>2
  <2>3. CycleVarsOK'
    BY <1>0, <1>4, <2>2, BecomesState DEF recordHeartbeat, CycleVarsOK
  <2>4. RowsOK'
    <3>1. CASE ~ Found(w, e)
      BY <1>0, <1>4, <3>1 DEF recordHeartbeat, RowsOK
    <3>2. CASE Found(w, e)
      <4> DEFINE r == [work[e] EXCEPT !.fresh = TRUE, !.life = Mood(e)]
      <4>1. Mood(e) \in {"none", "healthy", "idle", "completed", "died"}
        BY <1>0 DEF Mood, Row, LifecycleTypeOK, Session
      <4>2. r \in Row
        BY <1>0, <4>1, RowParts DEF Active
      <4>3. r.status = work[e].status /\ r.completedAt = work[e].completedAt
        BY <1>0 DEF Row
      <4>4. work' = [work EXCEPT ![e] = r]
        BY <1>0, <1>4, <3>2 DEF recordHeartbeat, RowsOK
      <4> QED BY <1>0, <4>2, <4>3, <4>4, RowChange
    <3> QED BY <3>1, <3>2
  <2>5. UNCHANGED <<agent, server, docker, failures, processes>>
    BY <1>4 DEF recordHeartbeat, world
  <2>6. LifecycleTypeOK' /\ CleanersOK' /\ CommandsOK'
    BY <1>0, <2>4, <2>5, LifecycleFrame DEF LifecycleTypeOK
  <2> QED BY <1>0, <2>3, <2>6, ShapesNext
<1>5. CASE markHeartbeatTimeout(w, e)
  <2>1. cycle[w] \in Act
    BY <1>0, <1>5 DEF markHeartbeatTimeout, State, Watch, Crash, Beat, Act, Idle
  <2>2. PICK x : Become(w, x) /\ x \in State
    <3> DEFINE x == [cycle[w] EXCEPT !.stale = cycle[w].stale \ {e}]
    <3>1. x \in State /\ NoCycle \in State
      BY <1>5, <2>1 DEF markHeartbeatTimeout, Act, State, Some, NoCycle, Idle
    <3>2. Become(w, x) \/ Become(w, NoCycle)
      BY <1>5 DEF markHeartbeatTimeout
    <3> QED BY <3>1, <3>2
  <2>3. CycleVarsOK'
    BY <1>0, <1>5, <2>2, BecomesState, CycleAssumption
    DEF markHeartbeatTimeout, CycleVarsOK
  <2>4. RowsOK'
    BY <1>1, <1>5
  <2>5. /\ agent' \in [Execution -> Session]
        /\ server' \in [Env -> {"running", "down", "error"}]
    BY <1>0, <1>5 DEF markHeartbeatTimeout, StopContainer, LifecycleTypeOK, Session
  <2>6. UNCHANGED <<docker, failures, processes>>
    BY <1>5 DEF markHeartbeatTimeout
  <2>7. LifecycleTypeOK' /\ CleanersOK' /\ CommandsOK'
    BY <1>0, <2>4, <2>5, <2>6, LifecycleFrame
  <2> QED BY <1>0, <2>3, <2>7, ShapesNext
<1> QED BY <1>2, <1>3, <1>4, <1>5

LEMMA AgesShapes ==
    ASSUME Shapes, NEW e \in Execution, HeartbeatAges(e) \/ AgentMoves(e)
    PROVE  Shapes'
<1>0. /\ CycleVarsOK /\ LifecycleTypeOK /\ CleanersOK /\ CommandsOK /\ RowsOK
      /\ work[e] \in Row /\ (work[e].completedAt <=> work[e].status \in Terminal)
      /\ DOMAIN holders = Execution
  BY ShapesSplit DEF LifecycleTypeOK, RowsOK
<1>1. CycleVarsOK' /\ DOMAIN holders' = Execution
  BY <1>0 DEF HeartbeatAges, AgentMoves, watcherVars, CycleVarsOK
<1>2. CASE HeartbeatAges(e)
  <2> DEFINE r == [work[e] EXCEPT !.fresh = FALSE]
  <2>1. r \in Row
    BY <1>0, RowParts DEF Active
  <2>2. r.status = work[e].status /\ r.completedAt = work[e].completedAt
    BY <1>0 DEF Row
  <2>3. work' = [work EXCEPT ![e] = r]
    BY <1>0, <1>2 DEF HeartbeatAges, RowsOK
  <2>4. RowsOK'
    BY <1>0, <2>1, <2>2, <2>3, RowChange
  <2>5. UNCHANGED <<agent, server, docker, failures, processes>>
    BY <1>2 DEF HeartbeatAges, world
  <2> QED BY <1>0, <1>1, <2>4, <2>5, LifecycleFrame, ShapesNext
          DEF LifecycleTypeOK
<1>3. CASE AgentMoves(e)
  <2>1. agent' \in [Execution -> Session] /\ RowsOK'
    BY <1>0, <1>3, CycleAssumption DEF AgentMoves, LifecycleTypeOK, Session, RowsOK
  <2>2. UNCHANGED <<server, docker, failures, processes>>
    BY <1>3 DEF AgentMoves
  <2> QED BY <1>0, <1>1, <2>1, <2>2, LifecycleFrame, ShapesNext
          DEF LifecycleTypeOK
<1> QED BY <1>2, <1>3

LEMMA NextShapes ==
    ASSUME Shapes, [Next]_vars
    PROVE  Shapes'
<1>1. ASSUME NEW w \in Cycle, runCycle(w) PROVE Shapes'
  <2>1. ASSUME UNCHANGED lifecycleVars, CycleVarsOK' PROVE Shapes'
    <3>1. DOMAIN holders' = Execution
      BY <1>1 DEF runCycle, NoteHolders
    <3>2. LifecycleTypeOK' /\ CleanersOK' /\ CommandsOK'
      BY <2>1, ShapesSplit, UnchangedLifecycle
    <3> QED BY <2>1, <3>1, <3>2, ShapesNext
  <2>2. ASSUME NEW e \in Execution,
               \/ MarkAffected(w, e) \/ Recovered(w, e)
               \/ recordHeartbeat(w, e) \/ markHeartbeatTimeout(w, e)
        PROVE  Shapes'
    BY <1>1, <2>2, CycleWrites DEF runCycle
  <2> QED BY <1>1, <2>1, <2>2, WatcherStates, ShapesSplit
          DEF runCycle, Watchdog, Phases
<1>2. CASE LifecycleNext /\ NoteHolders /\ UNCHANGED watcherVars
  BY <1>2, SpawnShapes, CommandShapes, CleanShapes, WorldShapes
  DEF LifecycleNext
<1>3. CASE UNCHANGED vars
  <2>1. UNCHANGED lifecycleVars /\ UNCHANGED watcherVars /\ UNCHANGED holders
    BY <1>3 DEF vars
  <2>2. CycleVarsOK' /\ DOMAIN holders' = Execution
    BY <2>1, ShapesSplit DEF watcherVars, CycleVarsOK
  <2> QED BY <2>1, <2>2, ShapesSplit, ShapesNext, UnchangedLifecycle
<1> QED BY <1>1, <1>2, <1>3, AgesShapes DEF Next

(* Rows, sessions, servers and what every process remembers of them stay in *)
(* their ranges, and completed_at is set exactly for a final status.        *)
THEOREM TypeCorrect == Spec => []TypeOK
<1>1. Shapes => TypeOK
  BY DEF Shapes
<1> QED BY <1>1, InitShapes, NextShapes, PTL DEF Spec

(***************************************************************************)
(* What a cycle does to its own state.                                     *)
(***************************************************************************)

LEMMA OwnedBecomes ==
    ASSUME Shapes, Owned, NEW w \in Cycle, NEW x, Become(w, x), OwnedBy(x),
           Own(snapshot)'
    PROVE  Owned'
BY DEF Shapes, Owned, Become

LEMMA OwnedStep ==
    ASSUME Shapes, Owned, [Next]_vars
    PROVE  Owned'
<1> USE DEF Runs
<1>0. ASSUME UNCHANGED <<cycle, snapshot>> PROVE Owned'
  BY <1>0 DEF Owned, Own
<1>1. ASSUME UNCHANGED snapshot PROVE Own(snapshot)'
  BY <1>1 DEF Owned, Own
<1>2. ASSUME NEW w \in Cycle, runCycle(w) PROVE Owned'
  <2>0. cycle[w] \in State
    BY DEF Shapes, State
  <2>1. CASE CycleStarts(w)
    <3>1. CASE first
      <4>1. OwnedBy(Heartbeats)
        BY DEF Heartbeats, OwnedBy
      <4>2. Own(snapshot)'
        BY <2>1, <3>1, ReadsAreRows DEF CycleStarts, seedServerState, Own
      <4> QED BY <2>1, <3>1, <4>1, <4>2, OwnedBecomes DEF CycleStarts
    <3>2. CASE ~first
      <4> DEFINE x == [pc |-> "watch", listed |-> ActiveEnvs,
                       execs |-> [env \in Env |-> ActiveIn(env)],
                       todo |-> ActiveEnvs \cup
                          {env \in {Host} : lastServer[env] # "unknown"}]
      <4>1. Become(w, x)
        BY <2>1, <3>2 DEF CycleStarts
      <4>2. OwnedBy(x)
        BY ReadsAreRows DEF OwnedBy, Own
      <4>3. UNCHANGED snapshot
        BY <2>1, <3>2 DEF CycleStarts
      <4> QED BY <1>1, <4>1, <4>2, <4>3, OwnedBecomes
    <3> QED BY <3>1, <3>2
  <2>2. ASSUME NEW env \in Env, cycle[w].pc = "watch"
        PROVE  /\ NextWatch(w, env).pc = "watch"
               /\ Own(NextWatch(w, env).execs)
               /\ OwnedBy(NextWatch(w, env))
    BY <2>2 DEF NextWatch, Owned, OwnedBy
  <2>3. ASSUME NEW env \in Env, ServerSeenAlive(w, env) PROVE Owned'
    <3>1. Own(cycle[w].execs)
      BY <2>3 DEF ServerSeenAlive, Owned, OwnedBy
    <3>2. Own(snapshot)'
      BY <2>3, <3>1 DEF ServerSeenAlive, Owned, Own, Shapes
    <3> QED BY <2>2, <2>3, <3>2, OwnedBecomes DEF ServerSeenAlive
  <2>4. ASSUME NEW env \in Env, ServerSeenDead(w, env) PROVE Owned'
    BY <1>1, <2>2, <2>4, OwnedBecomes DEF ServerSeenDead
  <2>5. ASSUME NEW env \in Env, ServerCrashSeen(w, env) PROVE Owned'
    <3> DEFINE x == [pc |-> "mark", env |-> env, affected |-> Affected(env),
                     todo |-> Affected(env), recorded |->
                        {e \in Affected(env) : work[e].session},
                     then |-> NextWatch(w, env)]
    <3>1. Affected(env) \subseteq In(env)
      BY DEF Affected, Owned, Own
    <3>2. Own(NextWatch(w, env).execs)
      BY <2>2, <2>5 DEF ServerCrashSeen
    <3>3. OwnedBy(x)
      BY <3>1, <3>2 DEF OwnedBy
    <3>4. Become(w, x) /\ UNCHANGED snapshot
      BY <2>5 DEF ServerCrashSeen, watchdogVars
    <3> QED BY <1>1, <3>3, <3>4, OwnedBecomes
  <2>6. ASSUME NEW e \in Execution, MarkAffected(w, e) PROVE Owned'
    <3> DEFINE x == [cycle[w] EXCEPT !.pc = "recover", !.todo = cycle[w].affected]
               y == [cycle[w] EXCEPT !.todo = cycle[w].todo \ {e}]
    <3>1. cycle[w] \in Crash
      BY <2>0, <2>6 DEF MarkAffected, State, Watch, Crash, Beat, Act, Idle
    <3>2. OwnedBy(cycle[w]) /\ cycle[w].pc = "mark"
      BY <2>6 DEF MarkAffected, Owned
    <3>3. OwnedBy(x) /\ OwnedBy(y)
      BY <3>1, <3>2 DEF OwnedBy, Crash
    <3>4. (Become(w, x) \/ Become(w, y)) /\ UNCHANGED snapshot
      BY <2>6 DEF MarkAffected, watchdogVars
    <3> QED BY <1>1, <3>3, <3>4, OwnedBecomes
  <2>7. ASSUME NEW e \in Execution, Recovered(w, e) \/ NotRecovered(w, e)
        PROVE  Owned'
    <3> DEFINE x == [cycle[w] EXCEPT !.todo = cycle[w].todo \ {e}]
    <3>1. cycle[w] \in Crash
      BY <2>0, <2>7 DEF Recovered, NotRecovered, State, Watch, Crash, Beat, Act, Idle
    <3>2. OwnedBy(cycle[w]) /\ cycle[w].pc = "recover"
      BY <2>7 DEF Recovered, NotRecovered, Owned
    <3>3. OwnedBy(x)
      BY <3>1, <3>2 DEF OwnedBy, Crash
    <3>4. Become(w, x) /\ UNCHANGED snapshot
      BY <2>7 DEF Recovered, NotRecovered, watchdogVars
    <3> QED BY <1>1, <3>3, <3>4, OwnedBecomes
  <2>8. CASE CrashReported(w)
    <3> DEFINE x == [cycle[w] EXCEPT !.pc = "handled"]
    <3>1. cycle[w] \in Crash
      BY <2>0, <2>8 DEF CrashReported, State, Watch, Crash, Beat, Act, Idle
    <3>2. OwnedBy(cycle[w]) /\ cycle[w].pc = "recover"
      BY <2>8 DEF CrashReported, Owned
    <3>3. OwnedBy(x)
      BY <3>1, <3>2 DEF OwnedBy, Crash
    <3>4. Become(w, x) /\ UNCHANGED snapshot
      BY <2>8 DEF CrashReported, watchdogVars
    <3> QED BY <1>1, <3>3, <3>4, OwnedBecomes
  <2>9. CASE CrashHandled(w)
    <3>1. cycle[w] \in Crash
      BY <2>0, <2>9 DEF CrashHandled, State, Watch, Crash, Beat, Act, Idle
    <3>2. OwnedBy(cycle[w].then)
      BY <2>9, <3>1 DEF CrashHandled, Crash, Watch, Owned, OwnedBy
    <3> QED BY <1>1, <2>9, <3>2, OwnedBecomes DEF CrashHandled
  <2>10. CASE WatchEnds(w)
    <3>1. OwnedBy(Heartbeats)
      BY DEF Heartbeats, OwnedBy
    <3>2. Own(snapshot)'
      BY <2>10 DEF WatchEnds, Owned, Own
    <3> QED BY <2>10, <3>1, <3>2, OwnedBecomes DEF WatchEnds
  <2>11. ASSUME NEW e \in Execution, recordHeartbeat(w, e) PROVE Owned'
    <3> DEFINE x == [cycle[w] EXCEPT !.todo = cycle[w].todo \ {e},
                        !.beaten = IF Found(w, e) THEN cycle[w].beaten \cup {e}
                                   ELSE cycle[w].beaten]
    <3>1. cycle[w] \in Beat
      BY <2>0, <2>11 DEF recordHeartbeat, State, Watch, Crash, Beat, Act, Idle
    <3>2. OwnedBy(x)
      BY <3>1 DEF OwnedBy, Beat
    <3>3. Become(w, x) /\ UNCHANGED snapshot
      BY <2>11 DEF recordHeartbeat, watchdogVars
    <3> QED BY <1>1, <3>2, <3>3, OwnedBecomes
  <2>12. ASSUME NEW e \in Execution, markHeartbeatTimeout(w, e) PROVE Owned'
    <3> DEFINE x == [cycle[w] EXCEPT !.stale = cycle[w].stale \ {e}]
    <3>1. cycle[w] \in Act
      BY <2>0, <2>12 DEF markHeartbeatTimeout, State, Watch, Crash, Beat, Act, Idle
    <3>2. OwnedBy(x) /\ OwnedBy(NoCycle)
      BY <3>1 DEF OwnedBy, Act, NoCycle
    <3>3. (Become(w, x) \/ Become(w, NoCycle)) /\ UNCHANGED snapshot
      BY <2>12 DEF markHeartbeatTimeout, watchdogVars
    <3> QED BY <1>1, <3>2, <3>3, OwnedBecomes
  <2>13. CASE detectStaleExecutions(w)
    <3>1. OwnedBy(Acts(cycle[w].beaten))
      BY DEF OwnedBy, Acts, NoCycle
    <3> QED BY <1>1, <2>13, <3>1, OwnedBecomes
            DEF detectStaleExecutions, watchdogVars
  <2>14. CASE RecoveryGoesOn(w) \/ StaleGoesOn(w)
    BY <1>0, <2>14 DEF RecoveryGoesOn, StaleGoesOn, watchdogVars
  <2> QED BY <1>2, <2>1, <2>3, <2>4, <2>5, <2>6, <2>7, <2>8, <2>9, <2>10,
             <2>11, <2>12, <2>13, <2>14 DEF runCycle, Watchdog, Phases
<1>3. ASSUME ~ \E w \in Cycle : runCycle(w) PROVE UNCHANGED <<cycle, snapshot>>
  BY <1>3 DEF Next, vars, watcherVars, HeartbeatAges, AgentMoves
<1> QED BY <1>0, <1>2, <1>3

(***************************************************************************)
(* No execution just seen alive is timed out.                              *)
(***************************************************************************)

(* Only the passing of time makes a heartbeat old.                          *)
LEMMA FreshStep ==
    ASSUME Shapes, [Next]_vars, NEW e \in Execution,
           work[e].fresh, ~ work'[e].fresh
    PROVE  \A w \in Cycle : cycle[w].pc # "beat" /\ cycle'[w] = cycle[w]
<1>0. work \in [Execution -> Row] /\ work[e] \in Row
  BY DEF Shapes, TypeOK, LifecycleTypeOK, RowsOK
<1>1. ASSUME UNCHANGED work PROVE FALSE
  BY <1>1
<1>2. ASSUME NEW x \in Execution, NEW r, work' = [work EXCEPT ![x] = r],
             x = e => r.fresh
      PROVE  FALSE
  BY <1>0, <1>2
<1>3. ASSUME NEW x \in Execution, NEW s, updateStatus(x, s) PROVE FALSE
  BY <1>0, <1>3 DEF updateStatus, Row
<1>4. ASSUME NEW w \in Cycle, runCycle(w) PROVE FALSE
  <2>1. ASSUME NEW x \in Execution, MarkAffected(w, x) \/ markHeartbeatTimeout(w, x)
        PROVE  FALSE
    BY <1>0, <2>1 DEF MarkAffected, markHeartbeatTimeout, Row
  <2>2. ASSUME NEW x \in Execution, Recovered(w, x) PROVE FALSE
    BY <1>0, <2>2 DEF Recovered, Row
  <2>3. ASSUME NEW x \in Execution, recordHeartbeat(w, x) PROVE FALSE
    BY <1>0, <2>3 DEF recordHeartbeat, Row
  <2>4. ASSUME UNCHANGED lifecycleVars PROVE FALSE
    BY <1>1, <2>4 DEF lifecycleVars
  <2> QED BY <1>4, <2>1, <2>2, <2>3, <2>4, WatcherStates, ShapesSplit
          DEF runCycle, Watchdog, Phases
<1>5. ASSUME LifecycleNext PROVE FALSE
  <2>1. ASSUME NEW x \in Execution, createExecution(x) \/ updateProcessInfo(x)
        PROVE  FALSE
    BY <1>0, <2>1 DEF createExecution, updateProcessInfo, Row
  <2>2. ASSUME NEW x \in Execution, RowAges(x) PROVE FALSE
    BY <1>0, <2>2 DEF RowAges, Row
  <2>3. ASSUME NEW x \in Execution, Launches(x) \/ LaunchFails(x) \/ SpawnedStatus(x)
        PROVE  FALSE
    BY <1>1, <1>3, <2>3 DEF Launches, LaunchFails, SpawnedStatus
  <2>4. ASSUME NEW p \in Commands, CommandStep(p) PROVE FALSE
    <3>1. CASE CommandWrites(p)
      <4>1. cmd[p].row \in Execution
        BY <3>1 DEF CommandWrites, Shapes, CommandsOK
      <4> QED BY <1>3, <3>1, <4>1 DEF CommandWrites
    <3> QED BY <1>1, <2>4, <3>1 DEF CommandStep, CommandReads, CommandKills
  <2>5. ASSUME NEW k \in Cleaners, CleanStep(k) PROVE FALSE
    BY <1>1, <1>3, <2>5
    DEF CleanStep, CleanLists, CleanAsksHost, CleanAsksDocker,
        CleanAsksContainer, CleanStops, CleanKeeps
  <2>6. ASSUME World, \A x \in Execution : ~ RowAges(x) PROVE FALSE
    BY <1>1, <2>6 DEF World, SessionEnds, ServerCrashes, ProbeBreaks, ProbeWorks,
                      DockerBreaks, DockerWorks
  <2> QED BY <1>5, <2>1, <2>2, <2>3, <2>4, <2>5, <2>6 DEF LifecycleNext, Spawn
<1>6. PICK x \in Execution : HeartbeatAges(x) \/ AgentMoves(x)
  BY <1>1, <1>4, <1>5 DEF Next, vars, lifecycleVars
<1>7. HeartbeatAges(x)
  BY <1>1, <1>6 DEF AgentMoves
<1> QED BY <1>7 DEF HeartbeatAges, watcherVars

LEMMA SeenStep ==
    ASSUME Shapes, SeenIsFresh, [Next]_vars
    PROVE  SeenIsFresh'
<1> USE DEF Runs
<1> SUFFICES ASSUME NEW w \in Cycle
             PROVE  /\ cycle'[w].pc = "beat" =>
                          \A e \in cycle'[w].beaten : work'[e].fresh
                    /\ cycle'[w].pc = "act" =>
                          cycle'[w].stale \cap cycle'[w].beaten = {}
  BY DEF SeenIsFresh
<1>0. cycle[w] \in State /\ work \in [Execution -> Row]
  BY DEF Shapes, State, TypeOK, LifecycleTypeOK, RowsOK
<1>1. CASE cycle'[w] = cycle[w]
  <2>1. ASSUME cycle[w].pc = "beat", NEW e \in cycle[w].beaten
        PROVE  work'[e].fresh
    <3>1. cycle[w] \in Beat
      BY <1>0, <2>1 DEF State, Watch, Crash, Beat, Act, Idle
    <3>2. e \in Execution /\ work[e].fresh
      BY <2>1, <3>1 DEF Beat, Some, SeenIsFresh
    <3> QED BY <2>1, <3>2, FreshStep
  <2> QED BY <1>1, <2>1 DEF SeenIsFresh
<1>2. CASE cycle'[w] # cycle[w]
  <2>1. PICK v \in Cycle : runCycle(v)
    BY <1>2 DEF Next, vars, watcherVars, HeartbeatAges, AgentMoves
  <2>2. v = w
    <3>1. ASSUME v # w PROVE FALSE
      <4>1. ASSUME NEW x, Become(v, x) PROVE FALSE
        BY <1>2, <3>1, <4>1 DEF Become
      <4>2. ASSUME UNCHANGED cycle PROVE FALSE
        BY <1>2, <4>2
      <4> QED BY <2>1, <4>1, <4>2
          DEF runCycle, Watchdog, Phases, CycleStarts, ServerSeenAlive,
              ServerSeenDead, ServerCrashSeen, MarkAffected, Recovered,
              NotRecovered, RecoveryGoesOn, CrashReported, CrashHandled,
              WatchEnds, recordHeartbeat, markHeartbeatTimeout,
              detectStaleExecutions, StaleGoesOn
    <3> QED BY <3>1
  <2>3. ASSUME NEW x, Become(w, x) PROVE cycle'[w] = x
    BY <2>3 DEF Become, Shapes
  <2>4. ASSUME NEW x, Become(w, x),
               x.pc \notin {"beat", "act"} \/ (x.pc = "beat" /\ x.beaten = {})
        PROVE  /\ cycle'[w].pc = "beat" =>
                     \A e \in cycle'[w].beaten : work'[e].fresh
               /\ cycle'[w].pc # "act"
    BY <2>3, <2>4
  <2>5. CASE CycleStarts(w) \/ WatchEnds(w)
    <3>1. Heartbeats.pc = "beat" /\ Heartbeats.beaten = {}
      BY DEF Heartbeats
    <3>2. ASSUME Become(w, Heartbeats)
          PROVE  /\ cycle'[w].pc = "beat" =>
                       \A e \in cycle'[w].beaten : work'[e].fresh
                 /\ cycle'[w].pc # "act"
      BY <2>4, <3>1, <3>2
    <3>3. CASE WatchEnds(w)
      <4>1. Become(w, Heartbeats)
        BY <3>3 DEF WatchEnds
      <4> QED BY <3>2, <4>1
    <3>4. CASE CycleStarts(w)
      <4> DEFINE x == [pc |-> "watch", listed |-> ActiveEnvs,
                       execs |-> [env \in Env |-> ActiveIn(env)],
                       todo |-> ActiveEnvs \cup
                          {env \in {Host} : lastServer[env] # "unknown"}]
      <4>1. Become(w, Heartbeats) \/ Become(w, x)
        BY <3>4 DEF CycleStarts
      <4>2. x.pc = "watch"
        OBVIOUS
      <4> HIDE DEF x
      <4>3. ASSUME Become(w, x) PROVE cycle'[w].pc = "watch"
        BY <2>3, <4>2, <4>3
      <4> QED BY <3>2, <4>1, <4>3
    <3> QED BY <2>5, <3>3, <3>4
  <2>6. ASSUME NEW env \in Env,
               ServerSeenAlive(w, env) \/ ServerSeenDead(w, env)
               \/ ServerCrashSeen(w, env)
        PROVE  cycle'[w].pc \notin {"beat", "act"}
    BY <2>3, <2>6 DEF ServerSeenAlive, ServerSeenDead, ServerCrashSeen, NextWatch
  <2>7. ASSUME NEW e \in Execution,
               MarkAffected(w, e) \/ Recovered(w, e) \/ NotRecovered(w, e)
        PROVE  cycle'[w].pc \notin {"beat", "act"}
    <3>1. cycle[w] \in Crash
      BY <1>0, <2>7 DEF MarkAffected, Recovered, NotRecovered,
         State, Watch, Crash, Beat, Act, Idle
    <3> QED BY <2>3, <2>7, <3>1 DEF MarkAffected, Recovered, NotRecovered, Crash
  <2>12. CASE CrashReported(w) \/ CrashHandled(w)
    <3>1. cycle[w] \in Crash
      BY <1>0, <2>12 DEF CrashReported, CrashHandled,
         State, Watch, Crash, Beat, Act, Idle
    <3>2. cycle[w].then.pc = "watch"
      BY <3>1 DEF Crash, Watch
    <3>3. cycle'[w].pc \notin {"beat", "act"}
      BY <2>3, <2>12, <3>1, <3>2 DEF CrashReported, CrashHandled, Crash
    <3> QED BY <3>3
  <2>8. ASSUME NEW e \in Execution, recordHeartbeat(w, e)
        PROVE  /\ cycle'[w].pc = "beat"
               /\ \A x \in cycle'[w].beaten : work'[x].fresh
    <3>1. cycle[w] \in Beat
      BY <1>0, <2>8 DEF recordHeartbeat, State, Watch, Crash, Beat, Act, Idle
    <3>2. /\ cycle'[w].pc = "beat"
          /\ cycle'[w].beaten = IF Found(w, e) THEN cycle[w].beaten \cup {e}
                                ELSE cycle[w].beaten
      BY <2>3, <2>8, <3>1 DEF recordHeartbeat, Beat
    <3>3. ASSUME NEW x \in cycle[w].beaten PROVE work'[x].fresh
      <4>1. x \in Execution /\ work[x].fresh /\ cycle[w].pc = "beat"
        BY <3>1 DEF Beat, Some, SeenIsFresh
      <4> QED BY <4>1, FreshStep
    <3>4. Found(w, e) => work'[e].fresh
      BY <1>0, <2>8 DEF recordHeartbeat, Row
    <3> QED BY <3>2, <3>3, <3>4
  <2>9. ASSUME detectStaleExecutions(w)
        PROVE  cycle'[w].pc # "beat" /\ (cycle'[w].pc = "act" =>
                  cycle'[w].stale \cap cycle'[w].beaten = {})
    <3>1. \A e \in cycle[w].beaten : work[e].fresh
      BY <2>9 DEF detectStaleExecutions, SeenIsFresh
    <3>2. getStaleExecutions \cap cycle[w].beaten = {}
      BY <3>1 DEF getStaleExecutions
    <3>3. cycle'[w] = Acts(cycle[w].beaten)
      BY <2>3, <2>9 DEF detectStaleExecutions
    <3> QED BY <3>2, <3>3 DEF Acts, NoCycle
  <2>10. ASSUME NEW e \in Execution, markHeartbeatTimeout(w, e)
         PROVE  cycle'[w].pc # "beat" /\ (cycle'[w].pc = "act" =>
                   cycle'[w].stale \cap cycle'[w].beaten = {})
    <3>1. cycle[w] \in Act
      BY <1>0, <2>10 DEF markHeartbeatTimeout, State, Watch, Crash, Beat, Act, Idle
    <3>2. cycle'[w] = NoCycle \/ (/\ cycle'[w].pc = "act"
                                  /\ cycle'[w].stale = cycle[w].stale \ {e}
                                  /\ cycle'[w].beaten = cycle[w].beaten)
      BY <2>3, <2>10, <3>1 DEF markHeartbeatTimeout, Act
    <3>3. cycle[w].stale \cap cycle[w].beaten = {}
      BY <2>10 DEF markHeartbeatTimeout, SeenIsFresh
    <3> QED BY <3>2, <3>3 DEF NoCycle
  <2>11. CASE RecoveryGoesOn(w) \/ StaleGoesOn(w)
    BY <1>2, <2>11 DEF RecoveryGoesOn, StaleGoesOn
  <2>13. CycleStarts(w) \/ Watchdog(w) \/ Phases(w)
    BY <2>1, <2>2 DEF runCycle
  <2>14. CASE Watchdog(w)
    BY <2>14, <2>5, <2>6, <2>7, <2>11, <2>12 DEF Watchdog
  <2>15. CASE Phases(w)
    BY <2>15, <2>8, <2>9, <2>10, <2>11 DEF Phases
  <2> QED BY <2>5, <2>13, <2>14, <2>15
<1> QED BY <1>1, <1>2

(* Whatever other processes do meanwhile, an agent the cycle has just seen  *)
(* alive is not among those it times out.                                   *)
THEOREM SeenAliveIsSpared == Spec => []SeenIsNotTimedOut
<1>1. Init => SeenIsFresh
  BY DEF Init, SeenIsFresh, NoCycle
<1>2. Shapes /\ SeenIsFresh => SeenIsNotTimedOut
  BY DEF SeenIsFresh, SeenIsNotTimedOut
<1> QED BY <1>1, <1>2, InitShapes, NextShapes, SeenStep, PTL DEF Spec

(***************************************************************************)
(* The cleanup stops no row whose session was alive.                       *)
(***************************************************************************)

(* What a cleanup has been told: a recorded session in an environment that  *)
(* was asked, neither reported nor unknown, was not alive.                  *)
Told(c) ==
    /\ c.pc = "ps" => c.asked \subseteq {Host} /\ c.unknown = {}
    /\ c.pc \in {"ps", "exec", "mark"} =>
          \A e \in c.recorded :
              /\ EnvOf[e] \in c.asked
              /\ e \notin c.unknown /\ e \notin c.reported
              => e \notin c.alive
Probed == \A k \in Cleaners : Told(cleaner[k])

(* Only the answers decide what was found; the later visits keep it.        *)
LEMMA ProbedStep ==
    ASSUME Shapes, Probed, [Next]_vars
    PROVE  Probed'
<1>0. /\ cleaner \in [Cleaners -> Cleanup] /\ Host \notin Container
      /\ \A env : In(env) = {e \in Execution : EnvOf[e] = env}
  BY ConstantsAssumption DEF Shapes, CleanersOK, In
<1>a. ASSUME NEW k \in Cleaners, NEW r, cleaner' = [cleaner EXCEPT ![k] = r],
             Told(r)
      PROVE  Probed'
  BY <1>0, <1>a DEF Probed
<1>1. ASSUME UNCHANGED cleaner PROVE Probed'
  BY <1>1 DEF Probed
<1>2. ASSUME NEW k \in Cleaners, CleanStep(k) PROVE Probed'
  <2>0. Told(cleaner[k]) /\ cleaner[k] \in Cleanup
    BY <1>0 DEF Probed
  <2>1. CASE CleanLists(k)
    <3> DEFINE r == [pc |-> "host", todo |-> ActiveExecutions,
                     recorded |-> {e \in ActiveExecutions : work[e].session}]
    <3>1. cleaner' = [cleaner EXCEPT ![k] = r]
      BY <2>1 DEF CleanLists
    <3>2. Told(r)
      BY DEF Told
    <3> QED BY <1>a, <3>1, <3>2
  <2>2. CASE CleanAsksHost(k)
    <3> DEFINE answers == server[Host] # "error"
               live == RecordedIn(k, Host) \cap Alive
               r == [pc |-> "ps", todo |-> cleaner[k].todo,
                     recorded |-> cleaner[k].recorded, ask |-> {},
                     asked |-> IF answers THEN {Host} ELSE {},
                     reported |-> IF answers THEN live ELSE {},
                     unknown |-> {}, alive |-> live]
    <3>1. cleaner' = [cleaner EXCEPT ![k] = r]
      BY <2>2 DEF CleanAsksHost, Reply
    <3> HIDE DEF live, answers
    <3>2. Told(r)
      BY DEF Told
    <3> QED BY <1>a, <3>1, <3>2
  <2>3. CASE CleanAsksDocker(k)
    <3>1. PICK labelled \in Labels, running \in SUBSET Container :
            LET ask == IF docker THEN labelled \cap running ELSE {}
                live == cleaner[k].recorded \cap Alive IN
            Reply(k, IF ask = {} THEN "mark" ELSE "exec", ask,
                  cleaner[k].asked, cleaner[k].reported, {},
                  cleaner[k].alive \cup {e \in live : EnvOf[e] # Host})
      BY <2>3 DEF CleanAsksDocker
    <3> DEFINE ask == IF docker THEN labelled \cap running ELSE {}
               pc == IF ask = {} THEN "mark" ELSE "exec"
               live == cleaner[k].recorded \cap Alive
               alive == cleaner[k].alive \cup {e \in live : EnvOf[e] # Host}
               r == [pc |-> pc, todo |-> cleaner[k].todo,
                     recorded |-> cleaner[k].recorded, ask |-> ask,
                     asked |-> cleaner[k].asked,
                     reported |-> cleaner[k].reported,
                     unknown |-> {}, alive |-> alive]
    <3>2. cleaner' = [cleaner EXCEPT ![k] = r]
      BY <3>1 DEF Reply
    <3>3. /\ cleaner[k].pc = "ps" /\ cleaner[k].asked \subseteq {Host}
          /\ pc \in {"exec", "mark"}
      BY <2>0, <2>3 DEF CleanAsksDocker, Told
    <3>4. \A e : EnvOf[e] = Host /\ e \in alive => e \in cleaner[k].alive
      OBVIOUS
    <3>5. cleaner[k].unknown = {}
      BY <2>0, <3>3 DEF Told
    <3> HIDE DEF ask, pc, live, alive
    <3>6. Told(r)
      BY <2>0, <3>3, <3>4, <3>5 DEF Told
    <3> QED BY <1>a, <3>2, <3>6
  <2>4. ASSUME NEW env \in Container, CleanAsksContainer(k, env) PROVE Probed'
    <3> DEFINE live == RecordedIn(k, env) \cap Alive
               ask == cleaner[k].ask \ {env}
               pc == IF ask = {} THEN "mark" ELSE "exec"
               alive == live \cup (cleaner[k].alive \ In(env))
               r(reported, unknown) ==
                    [pc |-> pc, todo |-> cleaner[k].todo,
                     recorded |-> cleaner[k].recorded, ask |-> ask,
                     asked |-> cleaner[k].asked \cup {env},
                     reported |-> reported, unknown |-> unknown,
                     alive |-> alive]
               found == r(cleaner[k].reported \cup live, cleaner[k].unknown)
               lost == r(cleaner[k].reported,
                         cleaner[k].unknown \cup Unreachable(k, env))
    <3>1. \/ cleaner' = [cleaner EXCEPT ![k] = found]
          \/ cleaner' = [cleaner EXCEPT ![k] = lost]
      BY <2>4 DEF CleanAsksContainer, Reply
    <3>2. cleaner[k].pc = "exec" /\ pc \in {"exec", "mark"}
      BY <2>4 DEF CleanAsksContainer
    <3>3. cleaner[k].recorded \subseteq Execution
      BY <2>0, <3>2 DEF Cleanup, Asking, Idle, Some
    <3>4. /\ \A e \in cleaner[k].recorded \ In(env) :
                (e \in alive => e \in cleaner[k].alive) /\ EnvOf[e] # env
          /\ \A e \in cleaner[k].recorded \cap In(env) :
                e \in alive => e \in live
          /\ Unreachable(k, env) = cleaner[k].recorded \cap In(env)
      BY <1>0, <3>3 DEF RecordedIn, Unreachable
    <3> HIDE DEF live, ask, pc, alive
    <3>5. Told(found)
      BY <2>0, <3>2, <3>4 DEF Told
    <3>6. Told(lost)
      BY <2>0, <3>2, <3>4 DEF Told
    <3> HIDE DEF found, lost
    <3> QED BY <1>a, <3>1, <3>5, <3>6
  <2>5. ASSUME NEW e \in Execution, CleanStops(k, e) \/ CleanKeeps(k, e)
        PROVE  Probed'
    <3>1. Visited(k, e) /\ cleaner[k].pc = "mark"
      BY <2>5 DEF CleanStops, CleanKeeps
    <3>2. CASE cleaner[k].todo = {e}
      <4>1. Told(NoCleanup)
        BY DEF Told, NoCleanup
      <4> QED BY <1>a, <3>1, <3>2, <4>1 DEF Visited
    <3>3. CASE cleaner[k].todo # {e}
      <4> DEFINE x == [cleaner[k] EXCEPT !.todo = cleaner[k].todo \ {e}]
      <4>1. /\ x.pc = "mark" /\ x.asked = cleaner[k].asked
            /\ x.recorded = cleaner[k].recorded /\ x.alive = cleaner[k].alive
            /\ x.unknown = cleaner[k].unknown /\ x.reported = cleaner[k].reported
        BY <2>0, <3>1 DEF Cleanup, Asking, Idle
      <4>2. cleaner' = [cleaner EXCEPT ![k] = x]
        BY <3>1, <3>3 DEF Visited
      <4> HIDE DEF x
      <4>3. Told(x)
        BY <2>0, <3>1, <4>1 DEF Told
      <4> QED BY <1>a, <4>2, <4>3
    <3> QED BY <3>2, <3>3
  <2> QED BY <1>2, <2>1, <2>2, <2>3, <2>4, <2>5 DEF CleanStep
<1>3. ASSUME NEW w \in Cycle, runCycle(w) PROVE UNCHANGED cleaner
  BY <1>3, WatcherStates, ShapesSplit
  DEF runCycle, Watchdog, Phases, lifecycleVars, processes, MarkAffected,
      Recovered, recordHeartbeat, markHeartbeatTimeout
<1>4. ASSUME LifecycleNext, \A k \in Cleaners : ~ CleanStep(k)
      PROVE  UNCHANGED cleaner
  BY <1>4 DEF LifecycleNext, Spawn, createExecution, Launches, LaunchFails,
      SpawnedStatus, updateProcessInfo, CommandStep, CommandReads, CommandKills,
      CommandWrites, World, SessionEnds, RowAges, ServerCrashes, ProbeBreaks,
      ProbeWorks, DockerBreaks, DockerWorks, processes
<1> QED BY <1>1, <1>2, <1>3, <1>4
    DEF Next, vars, lifecycleVars, processes, HeartbeatAges, AgentMoves

(* Whichever probes fail, what the cleanup stops for want of a session had  *)
(* none when its host or container was asked (storage.ts:408-468), with any *)
(* number of cleanups, commands, spawns and cycles around it.               *)
THEOREM CleanupConfirms == Spec => []StoppedOnlyIfGone
<1>1. Init => Probed
  BY DEF Init, LifecycleInit, Probed, Told, NoCleanup
<1>2. Shapes /\ Probed => StoppedOnlyIfGone
  BY DEF Probed, Told, StoppedOnlyIfGone, Confirmed, Gone
<1>3. Shapes /\ Probed /\ [Next]_vars => Shapes' /\ Probed'
  BY NextShapes, ProbedStep
<1> QED BY <1>1, <1>2, <1>3, InitShapes, PTL DEF Spec

(***************************************************************************)
(* A row comes back only with a session.                                   *)
(***************************************************************************)

(* Only a spawn that has launched its session, or a recovery that has just  *)
(* created one, sets a final row running again.                             *)
THEOREM RevivalsHaveSessions == Spec => RevivedHasSession
<1> DEFINE Revival(e) ==
             work[e].status \in Terminal /\ work'[e].status = "running" =>
                spawner[e] = "status" \/ agent'[e] # "none"
<1>1. ASSUME Shapes, [Next]_vars, NEW e \in Execution PROVE Revival(e)
  <2>0. /\ work \in [Execution -> Row] /\ agent \in [Execution -> Session]
        /\ "running" \notin Terminal
    BY <1>1 DEF Shapes, TypeOK, LifecycleTypeOK, RowsOK, Terminal
  <2>1. ASSUME work'[e].status = work[e].status PROVE Revival(e)
    BY <2>0, <2>1
  <2>2. ASSUME NEW x \in Execution, NEW s, updateStatus(x, s), s # "running"
        PROVE  Revival(e)
    BY <2>0, <2>2 DEF updateStatus, Row
  <2>3. ASSUME NEW w \in Cycle, runCycle(w) PROVE Revival(e)
    <3>1. ASSUME NEW x \in Execution, MarkAffected(w, x) \/ markHeartbeatTimeout(w, x)
          PROVE  Revival(e)
      BY <2>0, <3>1 DEF MarkAffected, markHeartbeatTimeout, Row
    <3>2. ASSUME NEW x \in Execution, Recovered(w, x) PROVE Revival(e)
      <4>1. CASE x = e
        <5>1. agent'[e] = "working"
          BY <2>0, <3>2, <4>1 DEF Recovered
        <5> QED BY <5>1
      <4>2. CASE x # e
        BY <2>0, <2>1, <3>2, <4>2 DEF Recovered
      <4> QED BY <4>1, <4>2
    <3>3. ASSUME NEW x \in Execution, recordHeartbeat(w, x) PROVE Revival(e)
      BY <2>0, <2>1, <3>3 DEF recordHeartbeat, Row
    <3>4. ASSUME UNCHANGED lifecycleVars PROVE Revival(e)
      BY <2>1, <3>4 DEF lifecycleVars
    <3> QED BY <1>1, <2>3, <3>1, <3>2, <3>3, <3>4, WatcherStates, ShapesSplit
            DEF runCycle, Watchdog, Phases
  <2>4. ASSUME LifecycleNext PROVE Revival(e)
    <3>1. ASSUME NEW x \in Execution, createExecution(x) PROVE Revival(e)
      BY <2>0, <2>1, <3>1 DEF createExecution, Row
    <3>2. ASSUME NEW x \in Execution, SpawnedStatus(x) PROVE Revival(e)
      <4>1. CASE x = e
        BY <3>2, <4>1 DEF SpawnedStatus
      <4>2. CASE x # e
        BY <2>0, <2>1, <3>2, <4>2 DEF SpawnedStatus, updateStatus
      <4> QED BY <4>1, <4>2
    <3>3. ASSUME NEW x \in Execution, RowAges(x) \/ updateProcessInfo(x)
          PROVE  Revival(e)
      BY <2>0, <2>1, <3>3 DEF RowAges, updateProcessInfo, Row
    <3>4. ASSUME NEW p \in Commands, CommandWrites(p) PROVE Revival(e)
      <4>1. cmd[p].row \in Execution
        BY <1>1, <3>4 DEF CommandWrites, Shapes, CommandsOK
      <4> QED BY <2>2, <3>4, <4>1 DEF CommandWrites, Outcome
    <3>5. ASSUME NEW k \in Cleaners, NEW x \in Execution, CleanStops(k, x)
          PROVE  Revival(e)
      BY <2>2, <3>5 DEF CleanStops
    <3>6. ASSUME NEW x \in Execution, LaunchFails(x) PROVE Revival(e)
      BY <2>2, <3>6 DEF LaunchFails
    <3>7. ASSUME UNCHANGED work PROVE Revival(e)
      BY <2>1, <3>7
    <3> QED BY <2>4, <3>1, <3>2, <3>3, <3>4, <3>5, <3>6, <3>7
            DEF LifecycleNext, Spawn, Launches, CommandStep, CommandReads,
                CommandKills, CleanStep, CleanLists, CleanAsksHost, CleanAsksDocker,
        CleanAsksContainer, CleanKeeps,
                World, SessionEnds, ServerCrashes, ProbeBreaks, ProbeWorks,
                DockerBreaks, DockerWorks
  <2>5. ASSUME NEW x \in Execution, HeartbeatAges(x) \/ AgentMoves(x)
        PROVE  Revival(e)
    BY <2>0, <2>1, <2>5 DEF HeartbeatAges, AgentMoves, Row
  <2> QED BY <1>1, <2>1, <2>3, <2>4, <2>5 DEF Next, vars, lifecycleVars
<1>2. Shapes /\ [Next]_vars =>
        [\A e \in Execution :
            work[e].status \in Terminal /\ work'[e].status = "running" =>
               spawner[e] = "status" \/ agent'[e] # "none"]_work
  BY <1>1
<1> QED BY <1>2, InitShapes, NextShapes, PTL DEF Spec, RevivedHasSession

(***************************************************************************)
(* Overlapping cycles restart different sessions.                          *)
(***************************************************************************)

(* What a crash leaves a cycle to restart, and what of it it has marked.    *)
Claim(w) == IF cycle[w].pc = "mark" THEN cycle[w].affected \cap cycle[w].recorded
            ELSE IF cycle[w].pc = "recover" THEN cycle[w].todo \cap cycle[w].recorded
            ELSE {}
Marked(w) == IF cycle[w].pc = "mark" THEN Claim(w) \ cycle[w].todo ELSE Claim(w)

(* A row with a session has no spawn under way, and will have none.         *)
SessionSpawned ==
    \A e \in Execution :
        /\ work[e].session => spawner[e] = "idle"
        /\ work[e].session \/ spawner[e] # "idle" => work[e].status # "none"

ClaimsOK ==
    /\ \A w \in Cycle : cycle[w].pc = "mark" => thread = w
    /\ \A w \in Cycle : cycle[w].pc \in {"mark", "recover"} =>
          \A e \in cycle[w].recorded : e \in Execution /\ work[e].session
    /\ \A w \in Cycle : \A e \in Marked(w) : ~ IsActive(e)
    /\ \A v, w \in Cycle : v # w => Claim(v) \cap Claim(w) = {}

(* A recorded session stays recorded, and only a recovery makes its row     *)
(* active again.                                                            *)
LEMMA SessionStep ==
    ASSUME Shapes, SessionSpawned, [Next]_vars
    PROVE  /\ SessionSpawned'
           /\ \A e \in Execution : work[e].session => work'[e].session
           /\ \A e \in Execution :
                 work[e].session /\ ~ IsActive(e) /\ IsActive(e)' =>
                    \E w \in Cycle : Recovered(w, e)
<1> SUFFICES ASSUME NEW e \in Execution
             PROVE  /\ work'[e].session => spawner'[e] = "idle"
                    /\ work'[e].session \/ spawner'[e] # "idle" => work'[e].status # "none"
                    /\ work[e].session => work'[e].session
                    /\ work[e].session /\ ~ IsActive(e) /\ IsActive(e)' =>
                          \E w \in Cycle : Recovered(w, e)
  BY DEF SessionSpawned
<1> DEFINE Kept == /\ work'[e].session = work[e].session
                   /\ work'[e].status = "none" => work[e].status = "none"
                   /\ spawner'[e] \in {spawner[e], "idle"}
           Quiet == IsActive(e)' => IsActive(e)
           Goal == /\ work'[e].session => spawner'[e] = "idle"
                   /\ work'[e].session \/ spawner'[e] # "idle" => work'[e].status # "none"
                   /\ work[e].session => work'[e].session
                   /\ work[e].session /\ ~ IsActive(e) /\ IsActive(e)' =>
                        \E w \in Cycle : Recovered(w, e)
<1>0. /\ work \in [Execution -> Row]
      /\ spawner \in [Execution -> {"idle", "launch", "status", "info"}]
      /\ work[e].session => spawner[e] = "idle"
      /\ work[e].session \/ spawner[e] # "idle" => work[e].status # "none"
  BY DEF Shapes, TypeOK, LifecycleTypeOK, RowsOK, SessionSpawned
<1>1. ASSUME Kept, work[e].session => Quiet PROVE Goal
  BY <1>0, <1>1
<1>2. ASSUME UNCHANGED work, spawner'[e] = spawner[e] PROVE Goal
  <2>1. Kept /\ Quiet
    BY <1>0, <1>2 DEF IsActive
  <2> QED BY <1>1, <2>1
<1>3. ASSUME NEW x \in Execution, NEW s \in Terminal, updateStatus(x, s),
             spawner'[e] = spawner[e] \/ spawner'[e] = "idle"
      PROVE  Goal
  <2>1. Kept /\ Quiet
    BY <1>0, <1>3 DEF IsActive, updateStatus, Row, Active, Terminal
  <2> QED BY <1>1, <2>1
<1>4. ASSUME NEW w \in Cycle, runCycle(w) PROVE Goal
  <2>1. ASSUME NEW x \in Execution,
               MarkAffected(w, x) \/ markHeartbeatTimeout(w, x)
               \/ recordHeartbeat(w, x)
        PROVE  Goal
    <3>1. Kept /\ Quiet
      BY <1>0, <2>1 DEF MarkAffected, markHeartbeatTimeout, recordHeartbeat,
                        processes, Row, IsActive, Active
    <3> QED BY <1>1, <3>1
  <2>2. ASSUME NEW x \in Execution, Recovered(w, x) PROVE Goal
    <3>1. Kept
      BY <1>0, <2>2 DEF Recovered, processes, Row
    <3>2. CASE x = e
      BY <1>0, <2>2, <3>1, <3>2
    <3>3. CASE x # e
      <4>1. Quiet
        BY <1>0, <2>2, <3>3 DEF Recovered, IsActive
      <4> QED BY <1>1, <3>1, <4>1
    <3> QED BY <3>2, <3>3
  <2>3. ASSUME UNCHANGED lifecycleVars PROVE Goal
    BY <1>2, <2>3 DEF lifecycleVars, processes
  <2> QED BY <1>4, <2>1, <2>2, <2>3, WatcherStates, ShapesSplit
          DEF runCycle, Watchdog, Phases
<1>5. ASSUME NEW x \in Execution, Spawn(x) PROVE Goal
  <2>1. CASE x # e
    <3>1. work'[e] = work[e] /\ spawner'[e] = spawner[e]
      BY <1>0, <1>5, <2>1
      DEF Spawn, createExecution, Launches, LaunchFails, SpawnedStatus,
          updateProcessInfo, updateStatus, Goto
    <3>2. Kept /\ Quiet
      BY <1>0, <3>1 DEF IsActive
    <3> QED BY <1>1, <3>2
  <2>2. CASE x = e
    <3>1. CASE createExecution(e)
      <4>1. /\ ~ work[e].session /\ ~ work'[e].session
            /\ work'[e].status = "starting"
        BY <1>0, <3>1 DEF createExecution, Row
      <4> QED BY <4>1
    <3>2. CASE Launches(e)
      BY <1>0, <3>2 DEF Launches, Goto
    <3>3. CASE LaunchFails(e)
      BY <1>0, <1>3, <3>3 DEF LaunchFails, Goto, Terminal
    <3>4. CASE SpawnedStatus(e)
      <4>1. /\ ~ work[e].session /\ ~ work'[e].session
            /\ work'[e].status = "running"
        BY <1>0, <3>4 DEF SpawnedStatus, updateStatus, Row
      <4> QED BY <4>1
    <3>5. CASE updateProcessInfo(e)
      <4>1. /\ ~ work[e].session /\ spawner'[e] = "idle"
            /\ work'[e].status = work[e].status /\ work[e].status # "none"
        BY <1>0, <3>5 DEF updateProcessInfo, Goto, Row
      <4> QED BY <4>1
    <3> QED BY <1>5, <2>2, <3>1, <3>2, <3>3, <3>4, <3>5 DEF Spawn
  <2> QED BY <2>1, <2>2
<1>6. ASSUME NEW p \in Commands, CommandStep(p) PROVE Goal
  <2>1. CASE CommandWrites(p)
    <3>1. cmd[p].row \in Execution
      BY <2>1 DEF CommandWrites, Shapes, CommandsOK
    <3>2. spawner'[e] = spawner[e]
      BY <2>1 DEF CommandWrites
    <3> QED BY <1>3, <2>1, <3>1, <3>2 DEF CommandWrites, Outcome, Terminal
  <2> QED BY <1>2, <1>6, <2>1 DEF CommandStep, CommandReads, CommandKills
<1>7. ASSUME NEW k \in Cleaners, CleanStep(k) PROVE Goal
  BY <1>2, <1>3, <1>7
  DEF CleanStep, CleanLists, CleanAsksHost, CleanAsksDocker,
        CleanAsksContainer, CleanStops, CleanKeeps, Terminal
<1>8. ASSUME NEW x \in Execution, RowAges(x) \/ HeartbeatAges(x) PROVE Goal
  <2>1. Kept /\ Quiet
    BY <1>0, <1>8 DEF RowAges, HeartbeatAges, processes, Row, IsActive
  <2> QED BY <1>1, <2>1
<1>9. ASSUME World, \A x \in Execution : ~ RowAges(x) PROVE Goal
  BY <1>2, <1>9
  DEF World, SessionEnds, ServerCrashes, ProbeBreaks, ProbeWorks, DockerBreaks,
      DockerWorks, processes
<1> QED BY <1>2, <1>4, <1>5, <1>6, <1>7, <1>8, <1>9
        DEF Next, LifecycleNext, vars, lifecycleVars, processes, AgentMoves

(* A cycle that does not become another state keeps its claim.              *)
LEMMA ClaimsStep ==
    ASSUME Shapes, Owned, SessionSpawned, ClaimsOK, [Next]_vars
    PROVE  ClaimsOK'
<1> USE DEF Runs
<1>0. /\ cycle \in [Cycle -> State]
      /\ \A w \in Cycle : Claim(w) \subseteq Execution /\ Marked(w) \subseteq Claim(w)
      /\ \A w \in Cycle : \A e \in Claim(w) : work[e].session
  BY DEF Shapes, State, Claim, Marked, ClaimsOK
<1>1. /\ \A e \in Execution : work[e].session => work'[e].session
      /\ \A e \in Execution :
            work[e].session /\ ~ IsActive(e) /\ IsActive(e)' =>
               \E w \in Cycle : Recovered(w, e)
  BY SessionStep
(* What a step must do to the cycle that takes it.                          *)
<1>2. ASSUME NEW w \in Cycle,
             \A v \in Cycle \ {w} : cycle'[v] = cycle[v],
             thread \in {w, Nobody},
             cycle'[w].pc = "mark" => thread' = w,
             cycle'[w].pc \in {"mark", "recover"} =>
                \A e \in cycle'[w].recorded : e \in Execution /\ work'[e].session,
             \A e \in Marked(w)' : ~ IsActive(e)',
             \A e \in Claim(w)' : e \in Claim(w)
                \/ \A v \in Cycle \ {w} : e \notin Claim(v)
      PROVE  ClaimsOK'
  <2>1. ASSUME NEW v \in Cycle \ {w}
        PROVE  /\ Claim(v)' = Claim(v) /\ Marked(v)' = Marked(v)
               /\ cycle[v].pc # "mark"
    <3>1. thread # v
      BY <1>2, <2>1, CycleAssumption
    <3>2. cycle[v].pc # "mark"
      BY <3>1 DEF ClaimsOK
    <3>3. cycle'[v] = cycle[v]
      BY <1>2
    <3> QED BY <3>2, <3>3 DEF Claim, Marked
  <2>2. ASSUME NEW v \in Cycle \ {w}, NEW e \in Marked(v) PROVE ~ IsActive(e)'
    <3>1. e \in Claim(v) /\ e \in Execution /\ work[e].session /\ ~ IsActive(e)
      BY <1>0, <2>2 DEF ClaimsOK
    <3>2. e \notin Claim(w)
      BY <2>2, <3>1 DEF ClaimsOK
    <3>3. ~ Recovered(w, e)
      BY <3>2 DEF Recovered, Claim
    <3>4. ASSUME NEW u \in Cycle \ {w} PROVE ~ Recovered(u, e)
      BY <1>2, <3>4, CycleAssumption DEF Recovered
    <3> QED BY <1>1, <3>1, <3>3, <3>4
  <2>3. \A v \in Cycle : cycle'[v].pc = "mark" => thread' = v
    BY <1>2, <2>1
  <2>4. \A v \in Cycle : cycle'[v].pc \in {"mark", "recover"} =>
           \A e \in cycle'[v].recorded : e \in Execution /\ work'[e].session
    BY <1>1, <1>2 DEF ClaimsOK
  <2>5. \A v \in Cycle : \A e \in Marked(v)' : ~ IsActive(e)'
    BY <1>2, <2>1, <2>2
  <2>6. \A u, v \in Cycle : u # v => Claim(u)' \cap Claim(v)' = {}
    <3>1. \A v \in Cycle \ {w} : Claim(w)' \cap Claim(v)' = {}
      BY <1>2, <2>1 DEF ClaimsOK
    <3>2. \A u, v \in Cycle \ {w} : u # v => Claim(u)' \cap Claim(v)' = {}
      BY <2>1 DEF ClaimsOK
    <3> QED BY <3>1, <3>2
  <2> QED BY <2>3, <2>4, <2>5, <2>6 DEF ClaimsOK
<1>3. ASSUME NEW w \in Cycle, runCycle(w) PROVE ClaimsOK'
  <2>0. cycle[w] \in State
    BY <1>0
  <2>1. thread \in {w, Nobody} /\ \A v \in Cycle \ {w} : cycle'[v] = cycle[v]
    BY <1>0, <1>3
    DEF runCycle, Watchdog, Phases, CycleStarts, ServerSeenAlive,
        ServerSeenDead, ServerCrashSeen, MarkAffected, Recovered, NotRecovered,
        RecoveryGoesOn, CrashReported, CrashHandled, WatchEnds, recordHeartbeat,
        markHeartbeatTimeout, detectStaleExecutions, StaleGoesOn, Become
  <2>2. ASSUME NEW x, Become(w, x) PROVE cycle'[w] = x
    BY <1>0, <2>2 DEF Become
  <2>3. ASSUME cycle'[w].pc \notin {"mark", "recover"} PROVE ClaimsOK'
    <3>1. Claim(w)' = {} /\ Marked(w)' = {}
      BY <2>3 DEF Claim, Marked
    <3> QED BY <1>2, <2>1, <2>3, <3>1
  <2>4. CASE CycleStarts(w) \/ WatchEnds(w)
    <3> DEFINE x == [pc |-> "watch", listed |-> ActiveEnvs,
                     execs |-> [env \in Env |-> ActiveIn(env)],
                     todo |-> ActiveEnvs \cup
                        {env \in {Host} : lastServer[env] # "unknown"}]
    <3>1. Become(w, Heartbeats) \/ Become(w, x)
      BY <2>4 DEF CycleStarts, WatchEnds
    <3>2. x.pc = "watch" /\ Heartbeats.pc = "beat"
      BY DEF Heartbeats
    <3> HIDE DEF x
    <3>3. cycle'[w].pc \in {"watch", "beat"}
      BY <2>2, <3>1, <3>2
    <3> QED BY <2>3, <3>3
  <2>5. ASSUME NEW env \in Env, ServerSeenAlive(w, env) \/ ServerSeenDead(w, env)
        PROVE  ClaimsOK'
    <3>1. cycle'[w].pc = "watch"
      BY <2>2, <2>5 DEF ServerSeenAlive, ServerSeenDead, NextWatch
    <3> QED BY <2>3, <3>1
  <2>6. ASSUME NEW env \in Env, ServerCrashSeen(w, env) PROVE ClaimsOK'
    <3> DEFINE mine == {e \in Affected(env) : work[e].session}
    <3>1. /\ cycle'[w].pc = "mark" /\ cycle'[w].recorded = mine
          /\ cycle'[w].affected = Affected(env) /\ cycle'[w].todo = Affected(env)
      BY <2>2, <2>6 DEF ServerCrashSeen
    <3>2. Affected(env) \subseteq Execution
      BY DEF Affected, Owned, Own, In
    <3>3. Claim(w)' = mine /\ Marked(w)' = {}
      BY <3>1 DEF Claim, Marked
    <3>4. thread' = w /\ UNCHANGED work
      BY <2>6 DEF ServerCrashSeen, KeepsThread, lifecycleVars
    <3>5. ASSUME NEW e \in mine, NEW v \in Cycle \ {w}, e \in Claim(v) PROVE FALSE
      <4>1. thread # v /\ cycle[v].pc # "mark"
        BY <2>6, <3>5 DEF ServerCrashSeen, ClaimsOK
      <4>2. e \in Marked(v)
        BY <3>5, <4>1 DEF Marked
      <4> QED BY <3>5, <4>2 DEF ClaimsOK, Affected
    <3>6. \A e \in mine : e \in Execution /\ work'[e].session
      BY <3>2, <3>4
    <3> HIDE DEF mine
    <3> QED BY <1>2, <2>1, <3>1, <3>3, <3>4, <3>5, <3>6
  <2>7. ASSUME NEW e \in Execution, MarkAffected(w, e) PROVE ClaimsOK'
    <3>1. cycle[w] \in Crash /\ cycle[w].pc = "mark" /\ e \in cycle[w].todo
      BY <2>0, <2>7 DEF MarkAffected, State, Watch, Crash, Beat, Act, Idle
    <3>2. \A x \in Execution : IsActive(x)' => IsActive(x) /\ x # e
      BY <2>7
      DEF MarkAffected, IsActive, Active, Shapes, TypeOK, LifecycleTypeOK, RowsOK, Row
    <3>3. \A x \in cycle[w].recorded : x \in Execution /\ work'[x].session
      BY <1>1, <3>1 DEF ClaimsOK
    <3>4. CASE cycle[w].todo = {e}
      <4>1. /\ cycle'[w].pc = "recover" /\ cycle'[w].todo = cycle[w].affected
            /\ cycle'[w].recorded = cycle[w].recorded
        BY <2>2, <2>7, <3>1, <3>4 DEF MarkAffected, Crash
      <4>2. Claim(w)' = Claim(w) /\ Marked(w)' = Claim(w)
        BY <3>1, <4>1 DEF Claim, Marked
      <4>3. \A x \in Claim(w) : x # e => x \in Marked(w)
        BY <3>1, <3>4 DEF Claim, Marked
      <4>4. \A x \in Marked(w)' : ~ IsActive(x)'
        BY <1>0, <3>2, <4>2, <4>3 DEF ClaimsOK
      <4> QED BY <1>2, <2>1, <3>3, <4>1, <4>2, <4>4
    <3>5. CASE cycle[w].todo # {e}
      <4>1. /\ cycle'[w].pc = "mark" /\ cycle'[w].todo = cycle[w].todo \ {e}
            /\ cycle'[w].recorded = cycle[w].recorded
            /\ cycle'[w].affected = cycle[w].affected /\ thread' = w
        BY <2>2, <2>7, <3>1, <3>5 DEF MarkAffected, Crash, KeepsThread
      <4>2. Claim(w)' = Claim(w) /\ Marked(w)' \subseteq Marked(w) \cup {e}
        BY <3>1, <4>1 DEF Claim, Marked
      <4>3. \A x \in Marked(w)' : ~ IsActive(x)'
        BY <1>0, <3>2, <4>2 DEF ClaimsOK
      <4> QED BY <1>2, <2>1, <3>3, <4>1, <4>2, <4>3
    <3> QED BY <3>4, <3>5
  <2>8. ASSUME NEW e \in Execution, Recovered(w, e) \/ NotRecovered(w, e)
        PROVE  ClaimsOK'
    <3>1. cycle[w] \in Crash /\ cycle[w].pc = "recover"
      BY <2>0, <2>8 DEF Recovered, NotRecovered, State, Watch, Crash, Beat, Act, Idle
    <3>2. /\ cycle'[w].pc = "recover" /\ cycle'[w].todo = cycle[w].todo \ {e}
          /\ cycle'[w].recorded = cycle[w].recorded
      BY <2>2, <2>8, <3>1 DEF Recovered, NotRecovered, Crash
    <3>3. Claim(w)' = Claim(w) \ {e} /\ Marked(w)' = Claim(w)' /\ Marked(w) = Claim(w)
      BY <3>1, <3>2 DEF Claim, Marked
    <3>4. \A x \in Execution \ {e} : work'[x] = work[x]
      BY <2>8
      DEF Recovered, NotRecovered, lifecycleVars, Shapes, TypeOK, LifecycleTypeOK,
          RowsOK
    <3>5. \A x \in Marked(w)' : ~ IsActive(x)'
      BY <1>0, <3>3, <3>4 DEF ClaimsOK, IsActive
    <3>6. \A x \in cycle'[w].recorded : x \in Execution /\ work'[x].session
      BY <1>1, <3>1, <3>2 DEF ClaimsOK
    <3> QED BY <1>2, <2>1, <3>2, <3>3, <3>5, <3>6
  <2>9. CASE RecoveryGoesOn(w)
    <3>1. cycle'[w] = cycle[w] /\ cycle[w].pc = "recover" /\ UNCHANGED work
      BY <2>9 DEF RecoveryGoesOn, lifecycleVars
    <3>2. Claim(w)' = Claim(w) /\ Marked(w)' = Marked(w)
      BY <3>1 DEF Claim, Marked
    <3>3. \A x \in Marked(w)' : ~ IsActive(x)'
      BY <3>1, <3>2 DEF ClaimsOK, IsActive
    <3>4. \A x \in cycle'[w].recorded : x \in Execution /\ work'[x].session
      BY <3>1 DEF ClaimsOK
    <3> QED BY <1>2, <2>1, <3>1, <3>2, <3>3, <3>4
  <2>10. CASE CrashReported(w) \/ CrashHandled(w)
    <3>1. cycle[w] \in Crash
      BY <2>0, <2>10 DEF CrashReported, CrashHandled,
         State, Watch, Crash, Beat, Act, Idle
    <3>2. cycle[w].then.pc = "watch"
      BY <3>1 DEF Crash, Watch
    <3>3. cycle'[w].pc \in {"handled", "watch"}
      BY <2>2, <2>10, <3>1, <3>2 DEF CrashReported, CrashHandled, Crash
    <3> QED BY <2>3, <3>3
  <2>11. ASSUME NEW e \in Execution, recordHeartbeat(w, e) PROVE ClaimsOK'
    <3>1. cycle[w] \in Beat
      BY <2>0, <2>11 DEF recordHeartbeat, State, Watch, Crash, Beat, Act, Idle
    <3>2. cycle'[w].pc = "beat"
      BY <2>2, <2>11, <3>1 DEF recordHeartbeat, Beat
    <3> QED BY <2>3, <3>2
  <2>12. ASSUME NEW e \in Execution, markHeartbeatTimeout(w, e) PROVE ClaimsOK'
    <3>1. cycle[w] \in Act
      BY <2>0, <2>12 DEF markHeartbeatTimeout, State, Watch, Crash, Beat, Act, Idle
    <3>2. cycle'[w].pc \in {"idle", "act"}
      BY <2>2, <2>12, <3>1 DEF markHeartbeatTimeout, Act, NoCycle
    <3> QED BY <2>3, <3>2
  <2>13. CASE detectStaleExecutions(w)
    <3>1. cycle'[w].pc \in {"idle", "act"}
      BY <2>2, <2>13 DEF detectStaleExecutions, Acts, NoCycle
    <3> QED BY <2>3, <3>1
  <2>14. CASE StaleGoesOn(w)
    BY <2>3, <2>14 DEF StaleGoesOn
  <2> QED BY <1>3, <2>4, <2>5, <2>6, <2>7, <2>8, <2>9, <2>10, <2>11, <2>12,
             <2>13, <2>14 DEF runCycle, Watchdog, Phases
<1>4. ASSUME \A w \in Cycle : ~ runCycle(w) PROVE ClaimsOK'
  <2>1. UNCHANGED <<cycle, thread>>
    BY <1>4 DEF Next, vars, watcherVars, HeartbeatAges, AgentMoves
  <2>2. \A w \in Cycle : Claim(w)' = Claim(w) /\ Marked(w)' = Marked(w)
    BY <2>1 DEF Claim, Marked
  <2>3. ASSUME NEW e \in Execution, NEW w \in Cycle, Recovered(w, e)
        PROVE  FALSE
    <3>1. cycle[w] \in Crash
      BY <1>0, <2>3 DEF Recovered, State, Watch, Crash, Beat, Act, Idle
    <3>2. cycle'[w].todo = cycle[w].todo \ {e} /\ e \in cycle[w].todo
      BY <1>0, <2>3, <3>1 DEF Recovered, Become, Crash
    <3> QED BY <2>1, <3>2
  <2>4. \A w \in Cycle : \A e \in Marked(w) : ~ IsActive(e)'
    BY <1>0, <1>1, <2>3 DEF ClaimsOK
  <2> QED BY <1>1, <2>1, <2>2, <2>4 DEF ClaimsOK
<1> QED BY <1>3, <1>4

(* However cycles overlap and whatever other processes do, no session is    *)
(* restarted by two of them.                                                *)
THEOREM OneCycleRestarts == Spec => []RecoveredByOneCycle
<1>1. Init => Owned /\ SessionSpawned /\ ClaimsOK
  BY DEF Init, LifecycleInit, Owned, Own, OwnedBy, NoCycle, NoRow, SessionSpawned,
         ClaimsOK, Claim, Marked
<1>2. Owned /\ ClaimsOK => RecoveredByOneCycle
  <2> SUFFICES ASSUME Owned, ClaimsOK, NEW v \in Cycle, NEW w \in Cycle, v # w
               PROVE  ToRestart(v) \cap ToRestart(w) = {}
    BY DEF RecoveredByOneCycle
  <2>1. \A u \in Cycle : ToRestart(u) \subseteq Claim(u)
    BY DEF ToRestart, Claim, Owned, OwnedBy
  <2> QED BY <2>1 DEF ClaimsOK
<1>3. Shapes /\ Owned /\ SessionSpawned /\ ClaimsOK /\ [Next]_vars
        => Shapes' /\ Owned' /\ SessionSpawned' /\ ClaimsOK'
  BY NextShapes, OwnedStep, SessionStep, ClaimsStep
<1> QED BY <1>1, <1>2, <1>3, InitShapes, PTL DEF Spec

(***************************************************************************)
(* A final status is lost only to who had read the row before.             *)
(***************************************************************************)

(* Whoever holds a final row has held it since it became final.             *)
HoldersKept ==
    \A e \in Execution :
        work[e].status \in Terminal => HoldsRow(e) \subseteq holders[e]

(* A process lays hold only of a row that it reads as active.               *)
LEMMA CyclesHold ==
    ASSUME Shapes, NEW w \in Cycle, NEW v \in Cycle, runCycle(v),
           NEW e \in Execution, CycleHolds(w, e)', work'[e].status \in Terminal
    PROVE  CycleHolds(w, e)
<1> USE DEF Runs
<1>0. cycle \in [Cycle -> State] /\ cycle[v] \in State /\ cycle[w] \in State
  BY DEF Shapes, State
<1>1. ASSUME cycle'[w] = cycle[w] PROVE CycleHolds(w, e)
  BY <1>1 DEF CycleHolds
<1>2. ASSUME NEW x, Become(v, x), v # w PROVE CycleHolds(w, e)
  BY <1>0, <1>1, <1>2 DEF Become
<1>3. ASSUME NEW x, Become(v, x), v = w, x.pc \notin {"mark", "recover", "act"}
      PROVE  FALSE
  BY <1>0, <1>3 DEF Become, CycleHolds
<1>4. ASSUME NEW x, Become(v, x), x.pc \notin {"mark", "recover", "act"}
      PROVE  CycleHolds(w, e)
  BY <1>2, <1>3, <1>4
<1>5. CASE CycleStarts(v) \/ WatchEnds(v)
  <2> DEFINE x == [pc |-> "watch", listed |-> ActiveEnvs,
                   execs |-> [env \in Env |-> ActiveIn(env)],
                   todo |-> ActiveEnvs \cup
                      {env \in {Host} : lastServer[env] # "unknown"}]
  <2>1. Become(v, Heartbeats) \/ Become(v, x)
    BY <1>5 DEF CycleStarts, WatchEnds
  <2>2. x.pc = "watch" /\ Heartbeats.pc = "beat"
    BY DEF Heartbeats
  <2> HIDE DEF x
  <2> QED BY <1>4, <2>1, <2>2
<1>6. ASSUME NEW env \in Env, ServerSeenAlive(v, env) \/ ServerSeenDead(v, env)
      PROVE  CycleHolds(w, e)
  <2>1. Become(v, NextWatch(v, env)) /\ NextWatch(v, env).pc = "watch"
    BY <1>6 DEF ServerSeenAlive, ServerSeenDead, NextWatch
  <2> QED BY <1>4, <2>1
<1>7. ASSUME NEW env \in Env, ServerCrashSeen(v, env) PROVE CycleHolds(w, e)
  <2> DEFINE x == [pc |-> "mark", env |-> env, affected |-> Affected(env),
                   todo |-> Affected(env), recorded |->
                      {a \in Affected(env) : work[a].session},
                   then |-> NextWatch(v, env)]
  <2>1. Become(v, x) /\ x.pc = "mark" /\ x.affected = Affected(env)
    BY <1>7 DEF ServerCrashSeen
  <2>2. e \notin Affected(env)
    BY <1>7 DEF ServerCrashSeen, lifecycleVars, Affected, IsActive, Active, Terminal
  <2> HIDE DEF x
  <2>3. CASE v = w
    BY <1>0, <2>1, <2>2, <2>3 DEF Become, CycleHolds
  <2> QED BY <1>2, <2>1, <2>3
<1>8. ASSUME NEW a \in Execution, MarkAffected(v, a) PROVE CycleHolds(w, e)
  <2> DEFINE x == [cycle[v] EXCEPT !.pc = "recover", !.todo = cycle[v].affected]
             y == [cycle[v] EXCEPT !.todo = cycle[v].todo \ {a}]
  <2>1. cycle[v] \in Crash /\ cycle[v].pc = "mark"
    BY <1>0, <1>8 DEF MarkAffected, State, Watch, Crash, Beat, Act, Idle
  <2>2. /\ x.pc = "recover" /\ x.affected = cycle[v].affected
        /\ y.pc = "mark" /\ y.affected = cycle[v].affected
    BY <2>1 DEF Crash
  <2>3. Become(v, x) \/ Become(v, y)
    BY <1>8 DEF MarkAffected
  <2> HIDE DEF x, y
  <2>4. CASE v = w
    BY <1>0, <2>1, <2>2, <2>3, <2>4 DEF Become, CycleHolds
  <2> QED BY <1>2, <2>3, <2>4
<1>9. ASSUME NEW a \in Execution, Recovered(v, a) \/ NotRecovered(v, a)
      PROVE  CycleHolds(w, e)
  <2> DEFINE x == [cycle[v] EXCEPT !.todo = cycle[v].todo \ {a}]
  <2>1. cycle[v] \in Crash /\ cycle[v].pc = "recover"
    BY <1>0, <1>9 DEF Recovered, NotRecovered, State, Watch, Crash, Beat, Act, Idle
  <2>2. x.pc = "recover" /\ x.affected = cycle[v].affected
    BY <2>1 DEF Crash
  <2>3. Become(v, x)
    BY <1>9 DEF Recovered, NotRecovered
  <2> HIDE DEF x
  <2>4. CASE v = w
    BY <1>0, <2>1, <2>2, <2>3, <2>4 DEF Become, CycleHolds
  <2> QED BY <1>2, <2>3, <2>4
<1>10. CASE CrashReported(v)
  <2> DEFINE x == [cycle[v] EXCEPT !.pc = "handled"]
  <2>1. cycle[v] \in Crash
    BY <1>0, <1>10 DEF CrashReported, State, Watch, Crash, Beat, Act, Idle
  <2>2. x.pc = "handled" /\ Become(v, x)
    BY <1>10, <2>1 DEF CrashReported, Crash
  <2> HIDE DEF x
  <2> QED BY <1>4, <2>2
<1>11. CASE CrashHandled(v)
  <2>1. cycle[v] \in Crash
    BY <1>0, <1>11 DEF CrashHandled, State, Watch, Crash, Beat, Act, Idle
  <2>2. cycle[v].then.pc = "watch" /\ Become(v, cycle[v].then)
    BY <1>11, <2>1 DEF CrashHandled, Crash, Watch
  <2> QED BY <1>4, <2>2
<1>12. ASSUME NEW a \in Execution, recordHeartbeat(v, a) PROVE CycleHolds(w, e)
  <2>1. cycle[v] \in Beat
    BY <1>0, <1>12 DEF recordHeartbeat, State, Watch, Crash, Beat, Act, Idle
  <2>2. cycle'[v].pc = "beat"
    BY <1>0, <1>12, <2>1 DEF recordHeartbeat, Become, Beat
  <2>3. CASE v = w
    BY <2>2, <2>3 DEF CycleHolds
  <2> QED BY <1>2, <1>12, <2>3 DEF recordHeartbeat
<1>13. ASSUME NEW a \in Execution, markHeartbeatTimeout(v, a)
       PROVE  CycleHolds(w, e)
  <2> DEFINE x == [cycle[v] EXCEPT !.stale = cycle[v].stale \ {a}]
  <2>1. cycle[v] \in Act /\ cycle[v].pc = "act"
    BY <1>0, <1>13 DEF markHeartbeatTimeout, State, Watch, Crash, Beat, Act, Idle
  <2>2. x.pc = "act" /\ x.stale = cycle[v].stale \ {a} /\ NoCycle.pc = "idle"
    BY <2>1 DEF Act, NoCycle
  <2>3. Become(v, NoCycle) \/ Become(v, x)
    BY <1>13 DEF markHeartbeatTimeout
  <2> HIDE DEF x
  <2>4. CASE v = w /\ Become(v, x)
    BY <1>0, <2>1, <2>2, <2>4 DEF Become, CycleHolds
  <2> QED BY <1>2, <1>4, <2>2, <2>3, <2>4
<1>14. CASE detectStaleExecutions(v)
  <2>1. e \notin getStaleExecutions
    BY <1>14 DEF detectStaleExecutions, lifecycleVars, getStaleExecutions,
                 ActiveExecutions, IsActive, Active, Terminal
  <2>2. Become(v, Acts(cycle[v].beaten))
    BY <1>14 DEF detectStaleExecutions
  <2>3. \/ Acts(cycle[v].beaten).pc = "idle"
        \/ /\ Acts(cycle[v].beaten).pc = "act"
           /\ Acts(cycle[v].beaten).stale = getStaleExecutions
    BY DEF Acts, NoCycle
  <2>4. CASE v = w
    BY <1>0, <2>1, <2>2, <2>3, <2>4 DEF Become, CycleHolds
  <2> QED BY <1>2, <2>2, <2>4
<1>15. CASE RecoveryGoesOn(v) \/ StaleGoesOn(v)
  BY <1>1, <1>15 DEF RecoveryGoesOn, StaleGoesOn
<1> QED BY <1>5, <1>6, <1>7, <1>8, <1>9, <1>10, <1>11, <1>12, <1>13, <1>14,
           <1>15 DEF runCycle, Watchdog, Phases

(* The same of the processes of ExecutionLifecycle.                         *)
LEMMA ProcessesHold ==
    ASSUME Shapes, NEW e \in Execution, LifecycleNext, work'[e].status \in Terminal
    PROVE  Holding(e)' \subseteq Holding(e)
<1>0. /\ spawner \in [Execution -> {"idle", "launch", "status", "info"}]
      /\ cmd \in [Commands -> CommandState] /\ cleaner \in [Cleaners -> Cleanup]
      /\ work \in [Execution -> Row]
  BY DEF Shapes, TypeOK, LifecycleTypeOK, RowsOK, CommandsOK, CleanersOK
<1>1. ASSUME spawner'[e] \in {spawner[e], "idle"},
             \A p \in Commands : cmd'[p].pc # "idle" /\ cmd'[p].row = e =>
                cmd[p].pc # "idle" /\ cmd[p].row = e,
             \A k \in Cleaners : cleaner'[k].pc # "idle" /\ e \in cleaner'[k].todo =>
                cleaner[k].pc # "idle" /\ e \in cleaner[k].todo
      PROVE  Holding(e)' \subseteq Holding(e)
  BY <1>1 DEF Holding
<1>2. ASSUME NEW x \in Execution, Spawn(x) PROVE Holding(e)' \subseteq Holding(e)
  <2>1. UNCHANGED <<cmd, cleaner>>
    BY <1>2 DEF Spawn, createExecution, Launches, LaunchFails, SpawnedStatus,
                updateProcessInfo
  <2>2. CASE x = e
    <3>1. ~ createExecution(e)
      BY <1>0 DEF createExecution, Row, Terminal
    <3>2. spawner[e] # "idle"
      BY <1>2, <2>2, <3>1 DEF Spawn, Launches, LaunchFails, SpawnedStatus,
                              updateProcessInfo
    <3> QED BY <2>1, <3>2 DEF Holding
  <2>3. CASE x # e
    <3>1. spawner'[e] = spawner[e]
      BY <1>0, <1>2, <2>3 DEF Spawn, createExecution, Launches, LaunchFails,
                              SpawnedStatus, updateProcessInfo, Goto
    <3> QED BY <1>1, <2>1, <3>1
  <2> QED BY <2>2, <2>3
<1>3. ASSUME NEW p \in Commands, CommandStep(p)
      PROVE  Holding(e)' \subseteq Holding(e)
  <2>1. UNCHANGED <<spawner, cleaner>>
    BY <1>3 DEF CommandStep, CommandReads, CommandKills, CommandWrites
  <2>2. ASSUME NEW kind \in Command, NEW x \in Execution, CommandReads(p, kind, x)
        PROVE  Holding(e)' \subseteq Holding(e)
    <3>1. x # e
      BY <2>2 DEF CommandReads, IsActive, Active, Terminal
    <3>2. \A q \in Commands : cmd'[q] = cmd[q] \/ cmd'[q].row = x
      BY <1>0, <2>2 DEF CommandReads, Begun
    <3> QED BY <1>1, <2>1, <3>1, <3>2
  <2>3. CASE CommandKills(p)
    <3> DEFINE y == [cmd[p] EXCEPT !.pc = "write"]
    <3>1. y.row = cmd[p].row /\ cmd[p].pc = "kill"
      BY <1>0, <2>3 DEF CommandKills, CommandState, Idle
    <3>2. cmd' = [cmd EXCEPT ![p] = y]
      BY <2>3 DEF CommandKills
    <3> HIDE DEF y
    <3>3. \A q \in Commands : cmd'[q] = IF q = p THEN y ELSE cmd[q]
      BY <1>0, <3>2
    <3> QED BY <1>1, <2>1, <3>1, <3>3
  <2>4. CASE CommandWrites(p)
    <3>1. \A q \in Commands : cmd'[q] = cmd[q] \/ cmd'[q].pc = "idle"
      BY <1>0, <2>4 DEF CommandWrites, NoCommand
    <3> QED BY <1>1, <2>1, <3>1
  <2> QED BY <1>3, <2>2, <2>3, <2>4 DEF CommandStep
<1>4. ASSUME NEW k \in Cleaners, CleanStep(k)
      PROVE  Holding(e)' \subseteq Holding(e)
  <2>1. UNCHANGED <<spawner, cmd>>
    BY <1>4 DEF CleanStep, CleanLists, CleanAsksHost, CleanAsksDocker,
        CleanAsksContainer, CleanStops, CleanKeeps
  <2>2. CASE CleanLists(k)
    <3>1. e \notin ActiveExecutions
      BY <2>2 DEF CleanLists, ActiveExecutions, IsActive, Active, Terminal
    <3>2. \A j \in Cleaners : cleaner'[j] = cleaner[j]
                              \/ cleaner'[j].todo = ActiveExecutions
      BY <1>0, <2>2 DEF CleanLists
    <3> QED BY <1>1, <2>1, <3>1, <3>2
  <2>3. ASSUME Asks(k) PROVE Holding(e)' \subseteq Holding(e)
    <3>1. PICK r \in Asking : /\ r.todo = cleaner[k].todo
                              /\ cleaner[k].pc # "idle"
                              /\ cleaner' = [cleaner EXCEPT ![k] = r]
      BY <2>3, AsksState
    <3>2. \A j \in Cleaners : cleaner'[j] = IF j = k THEN r ELSE cleaner[j]
      BY <1>0, <3>1
    <3> QED BY <1>1, <2>1, <3>1, <3>2
  <2>4. ASSUME NEW x \in Execution, CleanStops(k, x) \/ CleanKeeps(k, x)
        PROVE  Holding(e)' \subseteq Holding(e)
    <3>1. Visited(k, x) /\ cleaner[k].pc = "mark"
      BY <2>4 DEF CleanStops, CleanKeeps
    <3>2. \A j \in Cleaners : \/ cleaner'[j] = cleaner[j]
                              \/ cleaner'[j].pc = "idle"
                              \/ /\ cleaner[j].pc = "mark"
                                 /\ cleaner'[j].todo \subseteq cleaner[j].todo
      <4>1. CASE cleaner[k].todo = {x}
        BY <1>0, <3>1, <4>1 DEF Visited, NoCleanup
      <4>2. CASE cleaner[k].todo # {x}
        <5> DEFINE y == [cleaner[k] EXCEPT !.todo = cleaner[k].todo \ {x}]
        <5>1. y.todo \subseteq cleaner[k].todo
          BY <1>0, <3>1 DEF Cleanup, Asking, Idle
        <5>2. cleaner' = [cleaner EXCEPT ![k] = y]
          BY <3>1, <4>2 DEF Visited
        <5> HIDE DEF y
        <5> QED BY <1>0, <3>1, <5>1, <5>2
      <4> QED BY <4>1, <4>2
    <3> QED BY <1>1, <2>1, <3>2
  <2> QED BY <1>4, <2>2, <2>3, <2>4 DEF CleanStep, Asks
<1>5. ASSUME UNCHANGED processes PROVE Holding(e)' \subseteq Holding(e)
  BY <1>1, <1>5 DEF processes
<1> QED BY <1>2, <1>3, <1>4, <1>5
        DEF LifecycleNext, World, SessionEnds, RowAges, ServerCrashes, ProbeBreaks,
            ProbeWorks, DockerBreaks, DockerWorks

LEMMA HoldersStep ==
    ASSUME Shapes, HoldersKept, [Next]_vars
    PROVE  HoldersKept'
<1> SUFFICES ASSUME NEW e \in Execution, work'[e].status \in Terminal
             PROVE  HoldsRow(e)' \subseteq holders'[e]
  BY DEF HoldersKept
<1>1. HoldsRow(e)' \subseteq HoldsRow(e)
  <2>1. ASSUME UNCHANGED processes PROVE Holding(e)' = Holding(e)
    BY <2>1 DEF processes, Holding
  <2>2. ASSUME UNCHANGED cycle
        PROVE  \A w \in Cycle : CycleHolds(w, e)' <=> CycleHolds(w, e)
    BY <2>2 DEF CycleHolds
  <2>3. ASSUME NEW v \in Cycle, runCycle(v) PROVE UNCHANGED processes
    BY <2>3, WatcherStates, ShapesSplit
    DEF runCycle, Watchdog, Phases, lifecycleVars, MarkAffected, Recovered,
        recordHeartbeat, markHeartbeatTimeout
  <2>4. ASSUME NEW v \in Cycle, runCycle(v) PROVE HoldsRow(e)' \subseteq HoldsRow(e)
    BY <2>1, <2>3, <2>4, CyclesHold DEF HoldsRow
  <2>5. ASSUME LifecycleNext, UNCHANGED cycle PROVE HoldsRow(e)' \subseteq HoldsRow(e)
    BY <2>2, <2>5, ProcessesHold DEF HoldsRow
  <2>6. ASSUME UNCHANGED processes, UNCHANGED cycle
        PROVE  HoldsRow(e)' \subseteq HoldsRow(e)
    BY <2>1, <2>2, <2>6 DEF HoldsRow
  <2> QED BY <2>4, <2>5, <2>6
          DEF Next, vars, lifecycleVars, watcherVars, HeartbeatAges, AgentMoves,
              processes
<1>2. CASE NoteHolders
  BY <1>1, <1>2 DEF NoteHolders, HoldersKept
<1>3. CASE ~ NoteHolders
  <2>1. \/ UNCHANGED vars
        \/ \E x \in Execution : HeartbeatAges(x) \/ AgentMoves(x)
    BY <1>3 DEF Next, runCycle
  <2>2. UNCHANGED holders /\ work'[e].status = work[e].status
    BY <2>1 DEF vars, lifecycleVars, HeartbeatAges, AgentMoves, Shapes, TypeOK,
                LifecycleTypeOK, RowsOK, Row
  <2> QED BY <1>1, <2>2 DEF HoldersKept
<1> QED BY <1>2, <1>3

(* A final status is overwritten only by a spawn, a command, a cleanup or a *)
(* cycle that had read the row before the status became final.              *)
THEOREM OnlyRacesLoseFinals == Spec => FinalOnlyLostInRaces
<1> DEFINE Raced(e) ==
             \E p \in holders[e] \cap HoldsRow(e) :
                 IF p = e THEN spawner'[e] # spawner[e]
                 ELSE IF p \in Cycle THEN cycle'[p] # cycle[p]
                 ELSE p \notin Holding(e)'
           Lost == \A e \in Execution :
             work[e].status \in Terminal /\ work'[e].status # work[e].status =>
                Raced(e)
<1>1. ASSUME Shapes, Owned, HoldersKept, [Next]_vars, NEW e \in Execution,
             work[e].status \in Terminal, work'[e].status # work[e].status
      PROVE  Raced(e)
  <2> USE DEF Runs
  <2>0. /\ work \in [Execution -> Row] /\ cycle \in [Cycle -> State]
        /\ spawner \in [Execution -> {"idle", "launch", "status", "info"}]
        /\ cmd \in [Commands -> CommandState] /\ cleaner \in [Cleaners -> Cleanup]
    BY <1>1 DEF Shapes, State, TypeOK, LifecycleTypeOK, RowsOK, CommandsOK,
                CleanersOK
  <2>1. HoldsRow(e) \subseteq holders[e]
    BY <1>1 DEF HoldersKept
  <2>2. ASSUME NEW w \in Cycle, CycleHolds(w, e), cycle'[w] # cycle[w]
        PROVE  Raced(e)
    <3>1. w \in holders[e] \cap HoldsRow(e)
      BY <2>1, <2>2 DEF HoldsRow
    <3>2. w # e
      BY CycleAssumption
    <3> QED BY <2>2, <3>1, <3>2
  <2>3. ASSUME spawner[e] # "idle", spawner'[e] # spawner[e] PROVE Raced(e)
    <3>1. e \in holders[e] \cap HoldsRow(e)
      BY <2>1, <2>3 DEF HoldsRow, Holding
    <3> QED BY <2>3, <3>1
  <2>4. ASSUME NEW p \in Commands \cup Cleaners, p \in Holding(e),
               p \notin Holding(e)'
        PROVE  Raced(e)
    <3>1. p \in holders[e] \cap HoldsRow(e)
      BY <2>1, <2>4 DEF HoldsRow
    <3>2. p # e /\ p \notin Cycle
      BY CycleAssumption, ConstantsAssumption
    <3> QED BY <2>4, <3>1, <3>2
  <2>5. ASSUME NEW x \in Execution, NEW s, updateStatus(x, s) PROVE x = e
    BY <1>1, <2>0, <2>5 DEF updateStatus
  <2>6. ASSUME NEW w \in Cycle, runCycle(w) PROVE Raced(e)
    <3>1. ASSUME UNCHANGED lifecycleVars PROVE FALSE
      BY <1>1, <3>1 DEF lifecycleVars
    <3>2. ASSUME NEW x \in Execution, MarkAffected(w, x) PROVE Raced(e)
      <4>1. cycle[w] \in Crash /\ cycle[w].pc = "mark"
        BY <2>0, <3>2 DEF MarkAffected, State, Watch, Crash, Beat, Act, Idle
      <4>2. x = e /\ e \in cycle[w].todo
        BY <1>1, <2>0, <3>2 DEF MarkAffected
      <4>3. CycleHolds(w, e)
        BY <1>1, <4>1, <4>2 DEF CycleHolds, Owned, OwnedBy
      <4>4. cycle'[w].pc = "recover" \/ cycle'[w].todo = cycle[w].todo \ {e}
        BY <2>0, <3>2, <4>1, <4>2 DEF MarkAffected, Become, Crash
      <4> QED BY <2>2, <4>1, <4>2, <4>3, <4>4
    <3>3. ASSUME NEW x \in Execution, Recovered(w, x) PROVE Raced(e)
      <4>1. cycle[w] \in Crash /\ cycle[w].pc = "recover"
        BY <2>0, <3>3 DEF Recovered, State, Watch, Crash, Beat, Act, Idle
      <4>2. x = e /\ e \in cycle[w].todo
        BY <1>1, <2>0, <3>3 DEF Recovered
      <4>3. CycleHolds(w, e)
        BY <1>1, <4>1, <4>2 DEF CycleHolds, Owned, OwnedBy
      <4>4. cycle'[w].todo = cycle[w].todo \ {e}
        BY <2>0, <3>3, <4>1, <4>2 DEF Recovered, Become, Crash
      <4> QED BY <2>2, <4>2, <4>3, <4>4
    <3>4. ASSUME NEW x \in Execution, markHeartbeatTimeout(w, x) PROVE Raced(e)
      <4>1. cycle[w] \in Act /\ cycle[w].pc = "act"
        BY <2>0, <3>4 DEF markHeartbeatTimeout, State, Watch, Crash, Beat, Act, Idle
      <4>2. x = e /\ e \in cycle[w].stale
        BY <1>1, <2>0, <3>4 DEF markHeartbeatTimeout
      <4>3. CycleHolds(w, e)
        BY <4>1, <4>2 DEF CycleHolds
      <4>4. cycle'[w].pc = "idle" \/ cycle'[w].stale = cycle[w].stale \ {e}
        BY <2>0, <3>4, <4>1, <4>2 DEF markHeartbeatTimeout, Become, Act, NoCycle
      <4> QED BY <2>2, <4>1, <4>2, <4>3, <4>4
    <3>5. ASSUME NEW x \in Execution, recordHeartbeat(w, x) PROVE FALSE
      BY <1>1, <2>0, <3>5 DEF recordHeartbeat, Row
    <3> QED BY <1>1, <2>6, <3>1, <3>2, <3>3, <3>4, <3>5, WatcherStates, ShapesSplit
            DEF runCycle, Watchdog, Phases
  <2>7. ASSUME NEW x \in Execution, Spawn(x) PROVE Raced(e)
    <3>1. ~ createExecution(x)
      BY <1>1, <2>0 DEF createExecution, Row, Terminal
    <3>2. ~ Launches(x) /\ ~ updateProcessInfo(x)
      BY <1>1, <2>0 DEF Launches, updateProcessInfo, Row
    <3>3. LaunchFails(x) \/ SpawnedStatus(x)
      BY <2>7, <3>1, <3>2 DEF Spawn
    <3>4. x = e
      BY <2>5, <3>3 DEF LaunchFails, SpawnedStatus
    <3> QED BY <2>0, <2>3, <3>3, <3>4 DEF LaunchFails, SpawnedStatus, Goto
  <2>8. ASSUME NEW p \in Commands, CommandStep(p) PROVE Raced(e)
    <3>1. CommandWrites(p)
      BY <1>1, <2>8 DEF CommandStep, CommandReads, CommandKills
    <3>2. cmd[p].row \in Execution
      BY <1>1, <3>1 DEF CommandWrites, Shapes, CommandsOK
    <3>3. cmd[p].row = e
      BY <2>5, <3>1, <3>2 DEF CommandWrites
    <3>4. p \in Holding(e)
      BY <3>1, <3>3 DEF CommandWrites, Holding
    <3>5. cmd'[p].pc = "idle" /\ p # e /\ p \notin Cleaners
      BY <2>0, <3>1, ConstantsAssumption DEF CommandWrites, NoCommand
    <3> QED BY <2>4, <3>4, <3>5 DEF Holding
  <2>9. ASSUME NEW k \in Cleaners, CleanStep(k) PROVE Raced(e)
    <3>1. PICK x \in Execution : CleanStops(k, x)
      BY <1>1, <2>9 DEF CleanStep, CleanLists, CleanAsksHost, CleanAsksDocker,
        CleanAsksContainer, CleanKeeps
    <3>2. x = e
      BY <2>5, <3>1 DEF CleanStops
    <3>3. k \in Holding(e) /\ k # e /\ k \notin Commands
      BY <3>1, <3>2, ConstantsAssumption DEF CleanStops, Holding
    <3>4. cleaner'[k].pc = "idle" \/ e \notin cleaner'[k].todo
      <4>1. CASE cleaner[k].todo = {e}
        BY <2>0, <3>1, <3>2, <4>1 DEF CleanStops, Visited, NoCleanup
      <4>2. CASE cleaner[k].todo # {e}
        <5> DEFINE y == [cleaner[k] EXCEPT !.todo = cleaner[k].todo \ {e}]
        <5>1. e \notin y.todo
          BY <2>0, <3>1 DEF CleanStops, Cleanup, Asking, Idle
        <5>2. cleaner' = [cleaner EXCEPT ![k] = y]
          BY <3>1, <3>2, <4>2 DEF CleanStops, Visited
        <5> HIDE DEF y
        <5> QED BY <2>0, <5>1, <5>2
      <4> QED BY <4>1, <4>2
    <3> QED BY <2>4, <3>3, <3>4 DEF Holding
  <2>10. ASSUME UNCHANGED work PROVE FALSE
    BY <1>1, <2>10
  <2>11. ASSUME NEW x \in Execution, RowAges(x) \/ HeartbeatAges(x) PROVE FALSE
    BY <1>1, <2>0, <2>11 DEF RowAges, HeartbeatAges, Row
  <2> QED BY <1>1, <2>6, <2>7, <2>8, <2>9, <2>10, <2>11
          DEF Next, LifecycleNext, World, vars, lifecycleVars, SessionEnds,
              ServerCrashes, ProbeBreaks, ProbeWorks, DockerBreaks, DockerWorks,
              AgentMoves
<1>2. Shapes /\ Owned /\ HoldersKept /\ [Next]_vars => [Lost]_work
  BY <1>1
<1>3. Init => Owned /\ HoldersKept
  BY DEF Init, LifecycleInit, Owned, Own, OwnedBy, NoCycle, NoRow, HoldersKept,
         Terminal
<1>4. Shapes /\ Owned /\ HoldersKept /\ [Next]_vars => Shapes' /\ Owned' /\ HoldersKept'
  BY NextShapes, OwnedStep, HoldersStep
<1> QED BY <1>2, <1>3, <1>4, InitShapes, PTL DEF Spec, FinalOnlyLostInRaces
=============================================================================
