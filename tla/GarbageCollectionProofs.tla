------------------------ MODULE GarbageCollectionProofs ------------------------
(***************************************************************************)
(* Proofs about GarbageCollection, for any number of agents, starts,        *)
(* cleanups, collectors and outages, whether or not require can be called.  *)
(***************************************************************************)
EXTENDS GarbageCollection, AgentWorkspaceProofs

(***************************************************************************)
(* The inductive invariant.                                                *)
(***************************************************************************)

(* What a collector remembers.                                              *)
Names == SUBSET (Name \cup {NoName})
Heads == [Name -> Ticket \cup {NoTicket}]
Collect == [pc : {"collect"}, only : SUBSET Ticket, branch : Heads,
            todo : SUBSET Name, running : Names, met : SUBSET Starts,
            dead : SUBSET Name, stale : SUBSET Name]
Execute == [pc : {"execute"}, branch : Heads, only : SUBSET Ticket,
            met : SUBSET Starts, stale : SUBSET Name, done : SUBSET Name,
            now : Name \cup {NoName}, todo : SUBSET Name]
Candidate == [pc : {"look", "remove", "branch"}, branch : Heads,
              only : SUBSET Ticket, met : SUBSET Starts, stale : SUBSET Name,
              done : SUBSET Name, now : Name, todo : SUBSET Name]
Judge == [pc : {"judge"}, branch : Heads, todo : SUBSET Name,
          orphans : SUBSET Name, met : SUBSET Starts, named : Names]
Other == [pc : {"idle", "sessions"}]
GCState == [pc : {"list"}, only : SUBSET Ticket]
           \cup Collect \cup Execute \cup Candidate \cup Judge \cup Other

GCShapes == gc \in [Collectors -> GCState]

(* The branches of the daemon are past their grace period to the end.       *)
OnlyReady ==
    gc[Daemon].pc \in {"list", "collect", "execute", "look", "remove", "branch"}
       => gc[Daemon].only \subseteq GetReady

(* A worktree chosen for removal is clean, or was written too late.  What   *)
(* is chosen by --orphans is not looked at again.                          *)
ChosenLate(g) ==
    /\ gc[g].pc = "remove" =>
          (tree[gc[g].now].work = "dirty" => <<g, gc[g].now>> \in late)
    /\ gc[g].pc = "judge" =>
          /\ gc[g].orphans \cap gc[g].todo = {}
          /\ \A n \in gc[g].orphans : tree[n].work = "dirty" => <<g, n>> \in late

(* The sessions that tmux knew were those of starts that had finished, and  *)
(* their agents are spared.                                                *)
MetSpared(g) ==
    gc[g].pc = "judge" =>
        /\ \A s \in gc[g].met :
              pc[s] = "done" /\ (session[s] # "none" => agent[s] \in gc[g].named)
        /\ gc[g].orphans \cap gc[g].named = {}

Flat ==
    /\ pr \in [Ticket -> {"none", "open", "stale", "merged", "closed"}]
    /\ pending \in [Ticket -> {"no", "waiting", "ready"}]
    /\ outages \in 0..MaxOutage
    /\ late \subseteq Collectors \X Name

GCInv ==
    /\ TypeOK /\ GCShapes /\ Flat /\ OnlyReady
    /\ \A s \in Starts : Began(s)
    /\ \A g \in Collectors : ChosenLate(g) /\ MetSpared(g)

(***************************************************************************)
(* What a collector does to the workspace.                                 *)
(***************************************************************************)

(* No step brings a finished start back to life.                            *)
Over(s) == /\ Began(s) => Began(s)'
           /\ pc[s] = "done" => /\ pc'[s] = "done" /\ agent'[s] = agent[s]
                                /\ session'[s] # "none" => session[s] # "none"

LEMMA FinishedStart ==
    ASSUME TypeOK, NEW s \in Starts, pc[s] = "done" PROVE ~ StartStep(s)
<1>1. ~ getWorkspaceInfo(s)
  BY DiscoveryMoves DEF DiscoveryPc
<1> QED BY <1>1 DEF StartStep, KillsExisting, Attaches, ReusesWorktree, PicksName,
       OutOfNames, MakesDirectory, ResumesWorktree, AddsWorktree, WorktreeFails,
       ReadsRow, Inserts, Recycles, FindsTaken, Collides, LeavesEarly,
       checkoutBranchSafe, DirectoryMissing, runExecution, ExecutionFails,
       UndoesDirectory, UndoesRow, UndoesContainer

LEMMA OthersOver ==
    ASSUME TypeOK, Next, NEW s \in Starts
    PROVE  Over(s)
<1>1. s \in Commands /\ s \notin Cleaners
  BY ConstantsAssumption DEF Commands
<1>2. ASSUME NEW p \in Commands, Alone(p), p # s PROVE Over(s)
  BY <1>1, <1>2 DEF Alone, Over, Began
<1>3. ASSUME NEW t \in Starts, StartStep(t) PROVE Over(s)
  <2>1. CASE t = s
    <3>1. pc[s] # "done"
      BY <1>3, <2>1, FinishedStart
    <3>2. ASSUME Began(s) PROVE Began(s)'
      <4>1. session[s] = "none" /\ Alone(s)
        BY <1>3, <2>1, <3>1, <3>2, StartFrame DEF Began
      <4> QED BY <4>1 DEF Alone, Began
    <3> QED BY <3>1, <3>2 DEF Over
  <2>2. CASE t # s
    BY <1>2, <1>3, <2>2, StartFrame DEF Commands
  <2> QED BY <2>1, <2>2
<1>4. ASSUME NEW t \in Starts, AgentStep(t) PROVE Over(s)
  BY <1>4, AgentFrame DEF Over, Began
<1>5. ASSUME NEW c \in Cleaners, CleanStep(c) PROVE Over(s)
  BY <1>1, <1>2, <1>5, CleanFrame DEF Commands
<1> QED BY <1>3, <1>4, <1>5 DEF Next

(* The steps of collectors that reach into the workspace.                   *)
LEMMA CollectorFrame ==
    ASSUME TypeOK,
           \/ \E c \in Cleaners : CommandBegins(c)
           \/ \E g \in Collectors : \/ \E n \in Name : Takes(g, n) \/ RemovesOrphan(g, n)
                                    \/ Removes(g) \/ PrunesBranch(g) \/ Executed(g)
    PROVE  TypeOK' /\ Work /\ \A s \in Starts : Over(s)
<1>1. ASSUME NEW c \in Cleaners, CommandBegins(c)
      PROVE  TypeOK' /\ Work /\ \A s \in Starts : Over(s)
  <2>1. Done(c) /\ UNCHANGED <<row, tree, how, tries, session>>
    BY <1>1 DEF CommandBegins, startVars
  <2>2. PcOK' /\ LocalOK' /\ CleanOK' /\ Named'
    BY <2>1, DoneTypes
  <2>3. DiskOK' /\ StartOK'
    BY <2>1 DEF TypeOK, DiskOK, StartOK
  <2>4. \A s \in Starts : pc'[s] = pc[s] /\ agent'[s] = agent[s]
    BY <2>1, ConstantsAssumption DEF Done, Goes, TypeOK, PcOK, LocalOK, Commands
  <2> QED BY <2>1, <2>2, <2>3, <2>4 DEF TypeOK, Work, Over, Began
<1>2. ASSUME NEW K, Ends(K),
             UNCHANGED <<row, tree, pc, known, agent, how, tries, cleanVars>>
      PROVE  TypeOK' /\ Work /\ \A s \in Starts : Over(s)
  <2>1. StartOK' /\ \A t \in Starts : session'[t] # "none" => session[t] # "none"
    BY <1>2, EndsTypes DEF TypeOK
  <2> QED BY <1>2, <2>1 DEF TypeOK, DiskOK, PcOK, LocalOK, CleanOK, Named,
             cleanVars, Work, Over, Began
<1>3. ASSUME row' \in [Name -> Status], tree' \in [Name -> Tree], Work,
             UNCHANGED <<pc, known, agent, startVars, cleanVars>>
      PROVE  TypeOK' /\ Work /\ \A s \in Starts : Over(s)
  BY <1>3 DEF TypeOK, DiskOK, PcOK, LocalOK, StartOK, CleanOK, Named, startVars,
              cleanVars, Over, Began
<1>4. row \in [Name -> Status] /\ tree \in [Name -> Tree] /\ NoTree \in Tree
  BY DEF TypeOK, DiskOK, NoTree, Tree
<1>5. ASSUME NEW n, removeWorktree(n) PROVE tree' \in [Name -> Tree] /\ Work
  <2>1. \A k \in Name : tree'[k] = tree[k] \/ tree'[k].work = "clean"
    BY <1>4, <1>5 DEF removeWorktree, NoTree, Tree
  <2>2. tree' \in [Name -> Tree]
    BY <1>4, <1>5 DEF removeWorktree, NoTree, Tree
  <2> QED BY <2>1, <2>2 DEF Work
<1>6. ASSUME NEW g \in Collectors, NEW n \in Name, Takes(g, n)
      PROVE  TypeOK' /\ Work /\ \A s \in Starts : Over(s)
  BY <1>2, <1>6 DEF Takes
<1>7. ASSUME NEW g \in Collectors, PrunesBranch(g)
      PROVE  TypeOK' /\ Work /\ \A s \in Starts : Over(s)
  BY <1>2, <1>7 DEF PrunesBranch
<1>8. ASSUME NEW g \in Collectors, Removes(g) \/ \E n \in Name : RemovesOrphan(g, n)
      PROVE  TypeOK' /\ Work /\ \A s \in Starts : Over(s)
  BY <1>3, <1>4, <1>5, <1>8 DEF Removes, RemovesOrphan
<1>9. ASSUME NEW g \in Collectors, Executed(g)
      PROVE  TypeOK' /\ Work /\ \A s \in Starts : Over(s)
  <2>1. row' \in [Name -> Status]
    BY <1>4, <1>9 DEF Executed, Status
  <2>2. PICK D : tree' = [n \in Name |-> IF n \in D THEN NoTree ELSE tree[n]]
    BY <1>9 DEF Executed
  <2>3. tree' \in [Name -> Tree] /\ Work
    BY <1>4, <2>2 DEF Work, NoTree
  <2> QED BY <1>3, <1>9, <2>1, <2>3 DEF Executed
<1> QED BY <1>1, <1>6, <1>7, <1>8, <1>9

(***************************************************************************)
(* A step of one collector.                                                *)
(***************************************************************************)

(* What the other collectors count on while g moves to the state x.         *)
LEMMA CollectorStep ==
    ASSUME GCInv, TypeOK', Flat', NEW g \in Collectors, NEW x \in GCState,
           Become(g, x), Work, \A s \in Starts : Over(s),
           late' = late \/ \E n \in Name : Looked(g, n),
           g = Daemon \/ GetReady \subseteq GetReady',
           g = Daemon => OnlyReady', ChosenLate(g)', MetSpared(g)'
    PROVE  GCInv'
<1>0. gc \in [Collectors -> GCState] /\ Daemon \in Collectors
  BY DEF GCInv, GCShapes, Collectors
<1>1. GCShapes' /\ \A h \in Collectors \ {g} : gc'[h] = gc[h]
  BY <1>0 DEF Become, GCShapes
<1>2. OnlyReady'
  BY <1>0, <1>1 DEF OnlyReady, GCInv
<1>3. \A s \in Starts : Began(s)'
  BY DEF GCInv, Over
<1>4. ASSUME NEW h \in Collectors \ {g} PROVE ChosenLate(h)' /\ MetSpared(h)'
  <2>1. gc'[h] = gc[h] /\ gc[h] \in GCState /\ ChosenLate(h) /\ MetSpared(h)
    BY <1>0, <1>1 DEF GCInv
  <2>2. \A n \in Name : <<h, n>> \in late => <<h, n>> \in late'
    BY DEF Looked
  <2>3. ChosenLate(h)'
    <3>1. CASE gc[h].pc = "remove"
      <4>1. gc[h].now \in Name
        BY <2>1, <3>1 DEF GCState, Collect, Execute, Candidate, Judge, Other
      <4> QED BY <2>1, <2>2, <3>1, <4>1 DEF ChosenLate, Work
    <3>2. CASE gc[h].pc = "judge"
      <4>1. gc[h].orphans \subseteq Name
        BY <2>1, <3>2 DEF GCState, Collect, Execute, Candidate, Judge, Other
      <4> QED BY <2>1, <2>2, <3>2, <4>1 DEF ChosenLate, Work
    <3> QED BY <2>1, <3>1, <3>2 DEF ChosenLate
  <2>4. MetSpared(h)'
    <3>1. CASE gc[h].pc = "judge"
      <4>1. gc[h].met \subseteq Starts
        BY <2>1, <3>1 DEF GCState, Collect, Execute, Candidate, Judge, Other
      <4> QED BY <2>1, <3>1, <4>1 DEF MetSpared, Over
    <3> QED BY <2>1, <3>1 DEF MetSpared
  <2> QED BY <2>3, <2>4
<1> QED BY <1>1, <1>2, <1>3, <1>4 DEF GCInv

(* A collector that leaves the workspace alone.                             *)
LEMMA Aside ==
    ASSUME GCInv, WorkspaceAside
    PROVE  TypeOK' /\ Work /\ \A s \in Starts : Over(s)
<1>1. TypeOK'
  BY NextTypes DEF GCInv, WorkspaceAside
<1> QED BY <1>1 DEF WorkspaceAside, vars, startVars, Work, Over, Began

LEMMA FlatKept ==
    ASSUME GCInv, UNCHANGED <<pr, pending>>,
           UNCHANGED outages \/ \E fails \in BOOLEAN : MayFail(fails),
           late' \subseteq late
    PROVE  Flat' /\ GetReady' = GetReady
<1>1. outages' \in 0..MaxOutage
  BY CollectorsAssumption DEF GCInv, Flat, MayFail
<1> QED BY <1>1 DEF GCInv, Flat, GetReady

(* Where the branches of a collection stay what they are.                   *)
LEMMA OnlyStays ==
    ASSUME GCInv, NEW g \in Collectors, NEW x \in GCState, Become(g, x),
           GetReady' = GetReady,
           \/ x.pc \in {"idle", "sessions", "judge"}
           \/ /\ gc[g].pc \in {"list", "collect", "execute", "look", "remove", "branch"}
              /\ x.only = gc[g].only
    PROVE  g = Daemon => OnlyReady'
<1>1. gc'[g] = x
  BY DEF GCInv, GCShapes, Become
<1> QED BY <1>1 DEF OnlyReady, GCInv

(* What is neither removing nor judging has chosen nothing.                 *)
LEMMA Harmless ==
    ASSUME GCInv, NEW g \in Collectors, NEW x \in GCState, Become(g, x),
           x.pc \notin {"remove", "judge"}
    PROVE  ChosenLate(g)' /\ MetSpared(g)'
<1>1. gc'[g] = x
  BY DEF GCInv, GCShapes, Become
<1> QED BY <1>1 DEF ChosenLate, MetSpared

LEMMA BranchesAre ==
    ASSUME TypeOK
    PROVE  listWorktrees \in Heads /\ Branched(listWorktrees) \subseteq Name
<1>1. \A n \in Name : tree[n].head \in Ticket \cup {NoTicket}
  BY DEF TypeOK, DiskOK, Tree
<1> QED BY <1>1 DEF listWorktrees, Heads, Branched

LEMMA BeginStep ==
    ASSUME GCInv, DaemonBegins \/ \E c \in Cleaners : CommandBegins(c)
    PROVE  GCInv'
<1>1. CASE DaemonBegins
  <2> DEFINE x == Collection(GetReady)
  <2>1. x \in GCState /\ x.pc = "list" /\ x.only = GetReady
    BY DEF Collection, GCState, GetReady
  <2>2. Become(Daemon, x) /\ Daemon \in Collectors
    BY <1>1 DEF DaemonBegins, Collectors
  <2>3. Flat' /\ GetReady' = GetReady
    BY <1>1, FlatKept DEF DaemonBegins, collectorVars
  <2> HIDE DEF x
  <2>4. OnlyReady'
    BY <2>1, <2>2, <2>3 DEF GCInv, GCShapes, Become, OnlyReady
  <2>5. TypeOK' /\ Work /\ \A s \in Starts : Over(s)
    BY <1>1, Aside DEF DaemonBegins
  <2>6. late' = late
    BY <1>1 DEF DaemonBegins, collectorVars
  <2>7. ChosenLate(Daemon)' /\ MetSpared(Daemon)'
    BY <2>1, <2>2, Harmless
  <2> QED BY <2>1, <2>2, <2>3, <2>4, <2>5, <2>6, <2>7, CollectorStep
<1>2. ASSUME NEW c \in Cleaners, CommandBegins(c) PROVE GCInv'
  <2> DEFINE x == Collection(Ticket)
  <2>1. x \in GCState /\ x.pc = "list"
    BY DEF Collection, GCState
  <2>2. Become(c, x) /\ c \in Collectors /\ c # Daemon
    BY <1>2, CollectorsAssumption DEF CommandBegins, Collectors, Commands
  <2>3. Flat' /\ GetReady' = GetReady /\ late' = late
    BY <1>2, FlatKept DEF CommandBegins, collectorVars
  <2>4. TypeOK' /\ Work /\ \A s \in Starts : Over(s)
    BY <1>2, CollectorFrame DEF GCInv
  <2> HIDE DEF x
  <2>5. ChosenLate(c)' /\ MetSpared(c)'
    BY <2>1, <2>2, Harmless
  <2> QED BY <2>1, <2>2, <2>3, <2>4, <2>5, CollectorStep
<1> QED BY <1>1, <1>2

LEMMA CollectStep ==
    ASSUME GCInv, NEW g \in Collectors, collectGCCandidates(g)
    PROVE  GCInv'
<1> USE DEF Is
<1>0. gc[g] \in GCState /\ TypeOK
  BY DEF GCInv, GCShapes
<1>1. WorkspaceAside /\ UNCHANGED <<pr, pending, late>>
      /\ (UNCHANGED outages \/ \E fails \in BOOLEAN : MayFail(fails))
  BY DEF collectGCCandidates, Lists, Classifies, Collected, collectorVars
<1>2. TypeOK' /\ Work /\ (\A s \in Starts : Over(s)) /\ Flat' /\ GetReady' = GetReady
  BY <1>1, Aside, FlatKept
<1>3. ASSUME NEW x \in GCState, Become(g, x), x.pc \in {"collect", "execute"},
             gc[g].pc \in {"list", "collect"}, x.only = gc[g].only
      PROVE  GCInv'
  BY <1>1, <1>2, <1>3, Harmless, OnlyStays, CollectorStep
<1>4. CASE Lists(g)
  <2>1. PICK fails \in BOOLEAN, N \in SUBSET Name :
          Become(g, [pc |-> "collect", only |-> gc[g].only,
                     branch |-> listWorktrees, todo |-> Branched(listWorktrees),
                     running |-> IF fails THEN {}
                                 ELSE N \cup Agents(Sessions({"hidden"})),
                     met |-> Sessions({"seen"}), dead |-> {}, stale |-> {}])
    BY <1>4 DEF Lists
  <2> DEFINE x == [pc |-> "collect", only |-> gc[g].only,
                   branch |-> listWorktrees, todo |-> Branched(listWorktrees),
                   running |-> IF fails THEN {}
                               ELSE N \cup Agents(Sessions({"hidden"})),
                   met |-> Sessions({"seen"}), dead |-> {}, stale |-> {}]
  <2>2. gc[g].pc = "list" /\ gc[g].only \subseteq Ticket
    BY <1>0, <1>4 DEF Lists, GCState, Collect, Execute, Candidate, Judge, Other
  <2>3. Sessions({"seen"}) \subseteq Starts
        /\ Agents(Sessions({"hidden"})) \in Names
    BY <1>0 DEF Sessions, Agents, Names, TypeOK, LocalOK, Commands
  <2>4. x \in Collect
    BY <1>0, <2>2, <2>3, BranchesAre DEF Collect, Names
  <2>5. x \in GCState /\ x.pc = "collect" /\ x.only = gc[g].only /\ Become(g, x)
    BY <2>1, <2>4 DEF GCState
  <2> HIDE DEF x
  <2> QED BY <1>3, <2>2, <2>5
<1>5. ASSUME NEW n \in Name, Classifies(g, n) PROVE GCInv'
  <2>1. gc[g] \in Collect
    BY <1>0, <1>5 DEF Classifies, GCState, Collect, Execute, Candidate, Judge, Other
  <2>2. PICK D \in SUBSET Name, S \in SUBSET Name :
          Become(g, [gc[g] EXCEPT !.todo = gc[g].todo \ {n}, !.dead = D, !.stale = S])
    <3>1. PICK status :
            Become(g, [gc[g] EXCEPT !.todo = gc[g].todo \ {n},
              !.dead = IF status = "active" THEN gc[g].dead ELSE gc[g].dead \cup {n},
              !.stale = IF status = "stale" THEN gc[g].stale \cup {n}
                        ELSE gc[g].stale])
      BY <1>5 DEF Classifies
    <3>2. gc[g].dead \subseteq Name /\ gc[g].stale \subseteq Name
      BY <2>1 DEF Collect
    <3> QED BY <3>1, <3>2
  <2> DEFINE x == [gc[g] EXCEPT !.todo = gc[g].todo \ {n}, !.dead = D, !.stale = S]
  <2>3. x \in Collect /\ x.pc = "collect" /\ x.only = gc[g].only /\ Become(g, x)
    BY <2>1, <2>2 DEF Collect
  <2> HIDE DEF x
  <2> QED BY <1>3, <2>1, <2>3 DEF GCState, Collect
<1>6. CASE Collected(g)
  <2> DEFINE x == [pc |-> "execute", branch |-> gc[g].branch,
                   only |-> gc[g].only, met |-> gc[g].met, stale |-> gc[g].stale,
                   done |-> {}, now |-> NoName,
                   todo |-> {n \in gc[g].dead : gc[g].branch[n] \in gc[g].only}]
  <2>1. gc[g] \in Collect
    BY <1>0, <1>6 DEF Collected, GCState, Collect, Execute, Candidate, Judge, Other
  <2>2. x \in Execute /\ Become(g, x)
    BY <1>6, <2>1 DEF Collected, Collect, Execute
  <2>3. x.pc = "execute" /\ x.only = gc[g].only /\ x \in GCState
    BY <2>2 DEF GCState
  <2> HIDE DEF x
  <2> QED BY <1>3, <2>1, <2>2, <2>3 DEF Collect
<1> QED BY <1>4, <1>5, <1>6 DEF collectGCCandidates

LEMMA ClosedTypes ==
    ASSUME Flat, NEW t PROVE Closes(t) \in
        [Ticket -> {"none", "open", "stale", "merged", "closed"}]
BY DEF Flat, Closes

LEMMA OutagesKept ==
    ASSUME GCInv, UNCHANGED outages \/ \E fails \in BOOLEAN : MayFail(fails)
    PROVE  outages' \in 0..MaxOutage
BY CollectorsAssumption DEF GCInv, Flat, MayFail

LEMMA ExecuteStep ==
    ASSUME GCInv, NEW g \in Collectors, executeGC(g)
    PROVE  GCInv'
<1> USE DEF Is
<1>0. gc[g] \in GCState /\ TypeOK /\ Flat /\ Daemon \in Collectors
  BY DEF GCInv, GCShapes, Collectors
<1>1. ASSUME NEW x \in GCState, Become(g, x), x.pc \in {"execute", "look", "branch"},
             gc[g].pc \in {"execute", "look", "remove", "branch"},
             x.only = gc[g].only, GetReady' = GetReady, Flat',
             late' = late \/ \E n \in Name : Looked(g, n),
             TypeOK', Work, \A s \in Starts : Over(s)
      PROVE  GCInv'
  BY <1>1, Harmless, OnlyStays, CollectorStep
<1>2. ASSUME NEW n \in Name, Takes(g, n) PROVE GCInv'
  <2> DEFINE x == [gc[g] EXCEPT !.pc = "look", !.todo = gc[g].todo \ {n},
                                !.done = gc[g].done \cup {n}, !.now = n]
  <2>1. gc[g] \in Execute
    BY <1>0, <1>2 DEF Takes, GCState, Collect, Execute, Candidate, Judge, Other
  <2>2. x \in Candidate /\ x.pc = "look" /\ x.only = gc[g].only /\ Become(g, x)
    BY <1>2, <2>1 DEF Takes, Execute, Candidate
  <2>3. x \in GCState
    BY <2>2 DEF GCState
  <2>4. TypeOK' /\ Work /\ \A s \in Starts : Over(s)
    BY <1>0, <1>2, CollectorFrame
  <2>5. Flat' /\ GetReady' = GetReady /\ late' = late
    <3>1. pr' \in {pr, Closes(gc[g].branch[n])}
      BY <1>2 DEF Takes
    <3>2. pr' \in [Ticket -> {"none", "open", "stale", "merged", "closed"}]
      BY <1>0, <3>1, ClosedTypes DEF Flat
    <3>3. UNCHANGED <<pending, late>> /\ outages' \in 0..MaxOutage
      BY <1>2, OutagesKept DEF Takes
    <3> QED BY <1>0, <3>2, <3>3 DEF Flat, GetReady
  <2> HIDE DEF x
  <2>6. gc[g].pc = "execute"
    BY <1>2 DEF Takes
  <2> QED BY <1>1, <2>2, <2>3, <2>4, <2>5, <2>6
<1>3. CASE hasUncommittedChanges(g)
  <2> DEFINE x == [gc[g] EXCEPT !.pc = "branch"]
             y == [gc[g] EXCEPT !.pc = "remove"]
  <2>1. gc[g] \in Candidate /\ gc[g].pc = "look" /\ gc[g].now \in Name
    BY <1>0, <1>3 DEF hasUncommittedChanges, GCState, Collect, Execute, Candidate,
                      Judge, Other
  <2>2. /\ x \in GCState /\ x.pc = "branch" /\ x.only = gc[g].only
        /\ y \in GCState /\ y.pc = "remove" /\ y.only = gc[g].only
        /\ y.now = gc[g].now
    BY <2>1 DEF Candidate, GCState
  <2>3. Become(g, x) \/ (Become(g, y) /\ tree[gc[g].now].work # "dirty")
    <3>1. PICK fails \in BOOLEAN :
             Become(g, [gc[g] EXCEPT !.pc =
               IF fails \/ tree[gc[g].now].work = "dirty" THEN "branch"
               ELSE "remove"])
      BY <1>3 DEF hasUncommittedChanges
    <3>2. CASE fails \/ tree[gc[g].now].work = "dirty"
      BY <3>1, <3>2
    <3>3. CASE ~(fails \/ tree[gc[g].now].work = "dirty")
      BY <3>1, <3>3
    <3> QED BY <3>2, <3>3
  <2>4. Flat' /\ GetReady' = GetReady /\ Looked(g, gc[g].now)
    BY <1>3, FlatKept DEF hasUncommittedChanges, Looked
  <2>5. TypeOK' /\ Work /\ (\A s \in Starts : Over(s)) /\ UNCHANGED tree
    BY <1>3, Aside DEF hasUncommittedChanges, WorkspaceAside, vars
  <2> HIDE DEF x, y
  <2>6. CASE Become(g, x)
    BY <1>1, <2>1, <2>2, <2>4, <2>5, <2>6
  <2>7. CASE Become(g, y) /\ tree[gc[g].now].work # "dirty"
    <3>1. gc'[g] = y
      BY <1>0, <2>7 DEF Become, GCInv, GCShapes
    <3>2. ChosenLate(g)' /\ MetSpared(g)'
      BY <2>2, <2>5, <2>7, <3>1 DEF ChosenLate, MetSpared
    <3>3. g = Daemon => OnlyReady'
      BY <2>1, <2>2, <2>4, <2>7, OnlyStays
    <3> QED BY <2>1, <2>2, <2>4, <2>5, <2>7, <3>2, <3>3, CollectorStep
  <2> QED BY <2>3, <2>6, <2>7
<1>4. CASE Removes(g)
  <2> DEFINE x == [gc[g] EXCEPT !.pc = "branch"]
  <2>1. gc[g] \in Candidate /\ gc[g].pc = "remove"
    BY <1>0, <1>4 DEF Removes, GCState, Collect, Execute, Candidate, Judge, Other
  <2>2. x \in GCState /\ x.pc = "branch" /\ x.only = gc[g].only /\ Become(g, x)
    BY <1>4, <2>1 DEF Removes, Candidate, GCState
  <2>3. Flat' /\ GetReady' = GetReady /\ late' = late
    BY <1>4, FlatKept DEF Removes, collectorVars
  <2>4. TypeOK' /\ Work /\ \A s \in Starts : Over(s)
    BY <1>0, <1>4, CollectorFrame
  <2> HIDE DEF x
  <2> QED BY <1>1, <2>1, <2>2, <2>3, <2>4
<1>5. CASE PrunesBranch(g)
  <2> DEFINE x == [gc[g] EXCEPT !.pc = "execute", !.now = NoName]
  <2>1. gc[g] \in Candidate /\ gc[g].pc = "branch"
    BY <1>0, <1>5 DEF PrunesBranch, GCState, Collect, Execute, Candidate, Judge, Other
  <2>2. x \in GCState /\ x.pc = "execute" /\ x.only = gc[g].only /\ Become(g, x)
    BY <1>5, <2>1 DEF PrunesBranch, Candidate, Execute, GCState
  <2>3. Flat' /\ GetReady' = GetReady /\ late' = late
    <3>1. pr' \in {pr, Closes(gc[g].branch[gc[g].now])}
      BY <1>5 DEF PrunesBranch
    <3>2. pr' \in [Ticket -> {"none", "open", "stale", "merged", "closed"}]
      BY <1>0, <3>1, ClosedTypes DEF Flat
    <3>3. UNCHANGED <<pending, outages, late>>
      BY <1>5 DEF PrunesBranch
    <3> QED BY <1>0, <3>2, <3>3 DEF Flat, GetReady
  <2>4. TypeOK' /\ Work /\ \A s \in Starts : Over(s)
    BY <1>0, <1>5, CollectorFrame
  <2> HIDE DEF x
  <2> QED BY <1>1, <2>1, <2>2, <2>3, <2>4
<1>6. CASE Executed(g)
  <2> DEFINE x == NotCollecting
             y == [pc |-> "sessions"]
  <2>1. /\ x \in GCState /\ x.pc = "idle" /\ y \in GCState /\ y.pc = "sessions"
        /\ (Become(g, x) \/ Become(g, y)) /\ late' = late
    BY <1>6 DEF Executed, NotCollecting, GCState, Other
  <2>2. Flat'
    BY <1>0, <1>6 DEF Executed, Flat
  <2>3. g = Daemon \/ GetReady' = GetReady
    BY <1>6 DEF Executed, GetReady
  <2>4. TypeOK' /\ Work /\ \A s \in Starts : Over(s)
    BY <1>0, <1>6, CollectorFrame
  <2> HIDE DEF x, y
  <2>5. ASSUME NEW z \in GCState, z.pc \in {"idle", "sessions"}, Become(g, z)
        PROVE  GCInv'
    <3>1. gc'[g] = z
      BY <1>0, <2>5 DEF Become, GCInv, GCShapes
    <3>2. g = Daemon => OnlyReady'
      BY <2>5, <3>1 DEF OnlyReady
    <3>3. ChosenLate(g)' /\ MetSpared(g)'
      BY <2>5, Harmless
    <3> QED BY <2>1, <2>2, <2>3, <2>4, <2>5, <3>2, <3>3, CollectorStep
  <2> QED BY <2>1, <2>5
<1> QED BY <1>2, <1>3, <1>4, <1>5, <1>6 DEF executeGC

LEMMA OrphanStep ==
    ASSUME GCInv, NEW g \in Collectors, removeOrphans(g)
    PROVE  GCInv'
<1> USE DEF Is
<1>0. gc[g] \in GCState /\ TypeOK /\ gc \in [Collectors -> GCState]
  BY DEF GCInv, GCShapes
<1>1. ASSUME NEW x \in GCState, Become(g, x), x.pc \in {"idle", "judge"},
             ChosenLate(g)', MetSpared(g)',
             UNCHANGED <<pr, pending>>,
             UNCHANGED outages \/ \E fails \in BOOLEAN : MayFail(fails),
             late' = late \/ \E n \in Name : Looked(g, n),
             TypeOK', Work, \A s \in Starts : Over(s)
      PROVE  GCInv'
  <2>1. Flat' /\ GetReady' = GetReady
    BY <1>1, FlatKept DEF Looked
  <2> QED BY <1>1, <2>1, OnlyStays, CollectorStep
<1>2. CASE AsksTmux(g)
  <2>1. PICK fails \in BOOLEAN :
          /\ Become(g, [pc |-> "judge", branch |-> listWorktrees,
                        todo |-> Branched(listWorktrees), orphans |-> {},
                        met |-> IF fails THEN {} ELSE Sessions({"seen", "hidden"}),
                        named |-> IF fails THEN {}
                                  ELSE Agents(Sessions({"seen", "hidden"}))])
          /\ MayFail(fails)
    BY <1>2 DEF AsksTmux
  <2> DEFINE x == [pc |-> "judge", branch |-> listWorktrees,
                   todo |-> Branched(listWorktrees), orphans |-> {},
                   met |-> IF fails THEN {} ELSE Sessions({"seen", "hidden"}),
                   named |-> IF fails THEN {}
                             ELSE Agents(Sessions({"seen", "hidden"}))]
  <2>2. Sessions({"seen", "hidden"}) \subseteq Starts
        /\ Agents(Sessions({"seen", "hidden"})) \in Names
    BY <1>0 DEF Sessions, Agents, Names, TypeOK, LocalOK, Commands
  <2>3. x \in Judge
    BY <1>0, <2>2, BranchesAre DEF Judge, Names
  <2>4. TypeOK' /\ Work /\ (\A s \in Starts : Over(s))
        /\ UNCHANGED <<pr, pending, late, tree, pc, agent, session>>
    BY <1>2, Aside DEF AsksTmux, WorkspaceAside, vars, startVars
  <2>5. \A s \in x.met : pc[s] = "done" /\ agent[s] \in x.named
    BY DEF Sessions, Agents, GCInv, Began
  <2>6. x \in GCState /\ x.pc = "judge" /\ x.orphans = {} /\ Become(g, x)
    BY <2>1, <2>3 DEF GCState
  <2> HIDE DEF x
  <2>7. gc'[g] = x
    BY <1>0, <2>6 DEF Become
  <2>8. ChosenLate(g)' /\ MetSpared(g)'
    BY <2>4, <2>5, <2>6, <2>7 DEF ChosenLate, MetSpared
  <2> QED BY <1>1, <2>1, <2>4, <2>6, <2>8
<1>3. ASSUME NEW n \in Name, Judges(g, n) PROVE GCInv'
  <2>1. gc[g] \in Judge /\ n \in gc[g].todo
    BY <1>0, <1>3 DEF Judges, GCState, Collect, Execute, Candidate, Judge, Other
  <2>2. PICK O : /\ Become(g, [gc[g] EXCEPT !.todo = gc[g].todo \ {n},
                                            !.orphans = O])
                 /\ \/ O = gc[g].orphans
                    \/ /\ O = gc[g].orphans \cup {n}
                       /\ tree[n].work # "dirty" /\ n \notin gc[g].named
    <3>1. PICK fails \in BOOLEAN, kept \in BOOLEAN :
            Become(g, [gc[g] EXCEPT !.todo = gc[g].todo \ {n},
              !.orphans = IF safeToDelete(g, n, fails) /\ ~ kept
                          THEN gc[g].orphans \cup {n} ELSE gc[g].orphans])
      BY <1>3 DEF Judges
    <3>2. safeToDelete(g, n, fails) => tree[n].work # "dirty" /\ n \notin gc[g].named
      BY DEF safeToDelete
    <3> QED BY <3>1, <3>2
  <2> DEFINE x == [gc[g] EXCEPT !.todo = gc[g].todo \ {n}, !.orphans = O]
  <2>3. /\ x \in Judge /\ x.pc = "judge" /\ x.orphans = O
        /\ x.todo = gc[g].todo \ {n} /\ x.met = gc[g].met /\ x.named = gc[g].named
        /\ Become(g, x)
    BY <2>1, <2>2 DEF Judge
  <2>4. TypeOK' /\ Work /\ (\A s \in Starts : Over(s))
        /\ UNCHANGED <<pr, pending, tree, pc, agent, session>>
        /\ Looked(g, n) /\ \E fails \in BOOLEAN : MayFail(fails)
    BY <1>3, Aside DEF Judges, WorkspaceAside, vars, startVars
  <2> HIDE DEF x
  <2>5. gc'[g] = x
    BY <1>0, <2>3 DEF Become
  <2>6. gc[g].pc = "judge" /\ ChosenLate(g) /\ MetSpared(g)
    BY <1>3 DEF Judges, GCInv
  <2>7. ChosenLate(g)'
    <3>1. O \cap (gc[g].todo \ {n}) = {}
      BY <2>2, <2>6 DEF ChosenLate
    <3>2. \A m \in O : tree[m].work = "dirty" => <<g, m>> \in late /\ m # n
      BY <2>1, <2>2, <2>6 DEF ChosenLate
    <3>3. \A m \in O : tree'[m].work = "dirty" => <<g, m>> \in late'
      BY <2>4, <3>2 DEF Looked
    <3> QED BY <2>3, <2>5, <3>1, <3>3 DEF ChosenLate
  <2>8. MetSpared(g)'
    BY <2>2, <2>3, <2>4, <2>5, <2>6 DEF MetSpared
  <2> QED BY <1>1, <2>3, <2>4, <2>7, <2>8 DEF GCState
<1>4. ASSUME NEW n \in Name, RemovesOrphan(g, n) PROVE GCInv'
  <2> DEFINE x == [gc[g] EXCEPT !.orphans = gc[g].orphans \ {n}]
  <2>1. gc[g] \in Judge
    BY <1>0, <1>4 DEF RemovesOrphan, GCState, Collect, Execute, Candidate, Judge, Other
  <2>2. /\ x \in Judge /\ x.pc = "judge" /\ x.orphans = gc[g].orphans \ {n}
        /\ x.todo = gc[g].todo /\ x.met = gc[g].met /\ x.named = gc[g].named
        /\ Become(g, x)
    BY <1>4, <2>1 DEF RemovesOrphan, Judge
  <2>3. TypeOK' /\ Work /\ \A s \in Starts : Over(s)
    BY <1>0, <1>4, CollectorFrame
  <2>4. UNCHANGED <<pr, pending, outages, late>>
    BY <1>4 DEF RemovesOrphan, collectorVars
  <2> HIDE DEF x
  <2>5. gc'[g] = x
    BY <1>0, <2>2 DEF Become
  <2>6. gc[g].pc = "judge" /\ ChosenLate(g) /\ MetSpared(g)
    BY <1>4 DEF RemovesOrphan, GCInv
  <2>7. gc[g].orphans \subseteq Name /\ gc[g].met \subseteq Starts
    BY <2>1 DEF Judge
  <2>8. ChosenLate(g)'
    BY <2>2, <2>3, <2>4, <2>5, <2>6, <2>7 DEF ChosenLate, Work
  <2>9. MetSpared(g)'
    BY <2>2, <2>3, <2>5, <2>6, <2>7 DEF MetSpared, Over
  <2> QED BY <1>1, <2>2, <2>3, <2>4, <2>8, <2>9 DEF GCState
<1>5. CASE OrphansRemoved(g)
  <2>1. NotCollecting \in GCState /\ NotCollecting.pc = "idle"
    BY DEF NotCollecting, GCState, Other
  <2>2. Become(g, NotCollecting) /\ UNCHANGED <<pr, pending, outages, late>>
    BY <1>5 DEF OrphansRemoved, collectorVars
  <2>3. TypeOK' /\ Work /\ \A s \in Starts : Over(s)
    BY <1>5, Aside DEF OrphansRemoved
  <2>4. ChosenLate(g)' /\ MetSpared(g)'
    BY <2>1, <2>2, Harmless
  <2> QED BY <1>1, <2>1, <2>2, <2>3, <2>4
<1> QED BY <1>2, <1>3, <1>4, <1>5 DEF removeOrphans

(***************************************************************************)
(* The other steps.                                                        *)
(***************************************************************************)

LEMMA RestStep ==
    ASSUME GCInv, TypeOK', Flat', UNCHANGED gc, GetReady \subseteq GetReady',
           \A s \in Starts : Over(s), late \subseteq late',
           \A g \in Collectors : \A n \in Name :
               tree'[n].work = "dirty" =>
                   tree[n].work = "dirty" \/ <<g, n>> \in late'
    PROVE  GCInv'
<1>1. GCShapes' /\ OnlyReady' /\ \A s \in Starts : Began(s)'
  BY DEF GCInv, GCShapes, OnlyReady, Over
<1>2. ASSUME NEW h \in Collectors PROVE ChosenLate(h)' /\ MetSpared(h)'
  <2>1. gc'[h] = gc[h] /\ gc[h] \in GCState /\ ChosenLate(h) /\ MetSpared(h)
    BY DEF GCInv, GCShapes
  <2>2. CASE gc[h].pc = "remove"
    <3>1. gc[h].now \in Name
      BY <2>1, <2>2 DEF GCState, Collect, Execute, Candidate, Judge, Other
    <3> QED BY <2>1, <2>2, <3>1 DEF ChosenLate, MetSpared
  <2>3. CASE gc[h].pc = "judge"
    <3>1. gc[h].orphans \subseteq Name /\ gc[h].met \subseteq Starts
      BY <2>1, <2>3 DEF GCState, Collect, Execute, Candidate, Judge, Other
    <3>2. ChosenLate(h)'
      BY <2>1, <2>3, <3>1 DEF ChosenLate
    <3>3. MetSpared(h)'
      BY <2>1, <2>3, <3>1 DEF MetSpared, Over
    <3> QED BY <3>2, <3>3
  <2> QED BY <2>1, <2>2, <2>3 DEF ChosenLate, MetSpared
<1> QED BY <1>1, <1>2 DEF GCInv

LEMMA GCNextStep == GCInv /\ [GCNext]_allVars => GCInv'
<1> SUFFICES ASSUME GCInv, [GCNext]_allVars PROVE GCInv'
  OBVIOUS
<1>0. TypeOK /\ Flat
  BY DEF GCInv
<1>1. ASSUME NEW t \in Ticket, Schedules(t) \/ GraceEnds(t) \/ PullRequestMoves(t)
      PROVE  GCInv'
  <2>1. WorkspaceAside /\ UNCHANGED <<gc, outages, late>>
    BY <1>1 DEF Schedules, GraceEnds, PullRequestMoves
  <2>2. TypeOK' /\ Work /\ \A s \in Starts : Over(s)
    BY <2>1, Aside
  <2>3. Flat' /\ GetReady \subseteq GetReady'
    BY <1>0, <1>1, <2>1 DEF Schedules, GraceEnds, PullRequestMoves, Flat, GetReady
  <2> QED BY <2>1, <2>2, <2>3, RestStep DEF Work
<1>2. CASE OthersAct
  <2>1. Next /\ UNCHANGED <<pr, pending, gc, outages>>
        /\ late' = late \cup (Collectors \X Wrote)
    BY <1>2 DEF OthersAct
  <2>2. TypeOK' /\ \A s \in Starts : Over(s)
    BY <1>0, <2>1, NextTypes, OthersOver
  <2>3. Flat' /\ GetReady' = GetReady
    BY <1>0, <2>1 DEF Flat, GetReady, Wrote
  <2>4. \A g \in Collectors : \A n \in Name :
           tree'[n].work = "dirty" => tree[n].work = "dirty" \/ <<g, n>> \in late'
    BY <2>1 DEF Wrote
  <2> QED BY <2>1, <2>2, <2>3, <2>4, RestStep
<1>3. CASE UNCHANGED allVars
  <2>1. WorkspaceAside /\ UNCHANGED <<pr, pending, gc, outages, late>>
    BY <1>3 DEF allVars, gcVars, WorkspaceAside
  <2>2. TypeOK' /\ Work /\ \A s \in Starts : Over(s)
    BY <2>1, Aside
  <2>3. Flat' /\ GetReady' = GetReady
    BY <1>0, <2>1 DEF Flat, GetReady
  <2> QED BY <2>1, <2>2, <2>3, RestStep DEF Work
<1> QED BY <1>1, <1>2, <1>3, BeginStep, CollectStep, ExecuteStep, OrphanStep
        DEF GCNext

LEMMA GCInitInv == GCInit => GCInv
<1> SUFFICES ASSUME GCInit PROVE GCInv
  OBVIOUS
<1>1. TypeOK /\ \A s \in Starts : Began(s)
  BY InitTypeOK DEF GCInit, Init, Began
<1>2. GCShapes /\ \A g \in Collectors : gc[g].pc = "idle"
  BY DEF GCInit, GCShapes, NotCollecting, GCState, Other
<1>3. Flat
  BY CollectorsAssumption DEF GCInit, Flat
<1>4. Daemon \in Collectors
  BY DEF Collectors
<1> QED BY <1>1, <1>2, <1>3, <1>4 DEF GCInv, OnlyReady, ChosenLate, MetSpared

(* Every collector is where it can be, and the branches the daemon collects *)
(* are past their grace period from its list to its last candidate.         *)
THEOREM CollectionTypes == GCSpec => []GCTypeOK
<1>1. ASSUME GCInv PROVE GCTypeOK
  <2>1. ASSUME NEW g \in Collectors
        PROVE  /\ gc[g].pc \in {"idle", "list", "collect", "execute", "look",
                                "remove", "branch", "sessions", "judge"}
               /\ gc[g].pc \in {"look", "remove", "branch"} => gc[g].now \in Name
               /\ gc[g].pc \in {"list", "collect", "execute"} =>
                     gc[g].only \subseteq IF g = Daemon THEN GetReady ELSE Ticket
    <3>1. gc[g] \in GCState
      BY <1>1 DEF GCInv, GCShapes
    <3>2. gc[g].pc \in {"list", "collect", "execute"} => gc[g].only \subseteq Ticket
      BY <3>1 DEF GCState, Collect, Execute, Candidate, Judge, Other
    <3>3. gc[g].pc \in {"look", "remove", "branch"} => gc[g].now \in Name
      BY <3>1 DEF GCState, Collect, Execute, Candidate, Judge, Other
    <3>4. gc[g].pc \in {"idle", "list", "collect", "execute", "look",
                        "remove", "branch", "sessions", "judge"}
      BY <3>1 DEF GCState, Collect, Execute, Candidate, Judge, Other
    <3> QED BY <1>1, <3>2, <3>3, <3>4 DEF GCInv, OnlyReady
  <2> QED BY <1>1, <2>1 DEF GCTypeOK, GCInv, Flat
<1> QED BY <1>1, GCInitInv, GCNextStep, PTL DEF GCSpec

(* However collectors, commands and agents interleave, uncommitted work is  *)
(* only chosen for removal when it was written after the collector's last   *)
(* look.                                                                   *)
THEOREM OnlyLateWorkCollected == GCSpec => []CollectsOnlyLateWork
<1>1. GCInv => CollectsOnlyLateWork
  BY DEF GCInv, ChosenLate, CollectsOnlyLateWork, AboutToRemove
<1> QED BY <1>1, GCInitInv, GCNextStep, PTL DEF GCSpec

(* No agent whose session tmux knew when --orphans asked, and which has it  *)
(* still, is chosen as an orphan.                                          *)
THEOREM MetSessionsAreSpared == GCSpec => []OrphansWereWithoutSession
<1>1. GCInv => OrphansWereWithoutSession
  BY DEF GCInv, MetSpared, OrphansWereWithoutSession
<1> QED BY <1>1, GCInitInv, GCNextStep, PTL DEF GCSpec
=============================================================================
