------------------------- MODULE AgentWorkspaceProofs -------------------------
(***************************************************************************)
(* Proofs about AgentWorkspace, for every number of starts, cleanups,       *)
(* names and retries.                                                      *)
(***************************************************************************)
EXTENDS AgentWorkspace, TLAPS

(***************************************************************************)
(* What the small operations keep typed.                                   *)
(***************************************************************************)

LEMMA GoesStart ==
    ASSUME PcOK, NEW s \in Starts, NEW step \in StartPc, Goes(s, step)
    PROVE  PcOK'
<1>1. s \in Commands /\ s \notin Cleaners
  BY ConstantsAssumption DEF Commands
<1>2. pc' \in [Commands -> StartPc \cup CleanPc]
  BY <1>1 DEF PcOK, Goes
<1>3. pc'[s] = step /\ \A q \in Commands : q # s => pc'[q] = pc[q]
  BY <1>1 DEF PcOK, Goes
<1>4. Starts \subseteq Commands /\ Cleaners \subseteq Commands
  BY DEF Commands
<1> QED BY <1>1, <1>2, <1>3, <1>4 DEF PcOK

LEMMA GoesClean ==
    ASSUME PcOK, NEW c \in Cleaners, NEW step \in CleanPc, Goes(c, step)
    PROVE  PcOK'
<1>1. c \in Commands /\ c \notin Starts
  BY ConstantsAssumption DEF Commands
<1>2. pc' \in [Commands -> StartPc \cup CleanPc]
  BY <1>1 DEF PcOK, Goes
<1>3. pc'[c] = step /\ \A q \in Commands : q # c => pc'[q] = pc[q]
  BY <1>1 DEF PcOK, Goes
<1>4. Starts \subseteq Commands /\ Cleaners \subseteq Commands
  BY DEF Commands
<1> QED BY <1>1, <1>2, <1>3, <1>4 DEF PcOK

LEMMA RemovedTypes ==
    ASSUME DiskOK, NEW n, Removed(n), UNCHANGED row
    PROVE  DiskOK'
<1>1. NoTree \in Tree
  BY DEF NoTree, Tree
<1> QED BY <1>1 DEF DiskOK, Removed

LEMMA SetTypes ==
    ASSUME DiskOK, NEW n, NEW status \in Status, Set(n, status), UNCHANGED tree
    PROVE  DiskOK'
BY DEF DiskOK, Set

LEMMA FailedCleanupTypes ==
    ASSUME DiskOK, NEW n,
           Leftover(n) \/ cleanupFailedEphemeralAgent(n), UNCHANGED row
    PROVE  DiskOK'
<1>1. NoTree \in Tree /\ [NoTree EXCEPT !.dir = "empty"] \in Tree
  BY DEF NoTree, Tree
<1>2. CASE Removed(n)
  BY <1>2, RemovedTypes
<1>3. CASE Leftover(n)
  BY <1>1, <1>3 DEF DiskOK, Leftover
<1> QED BY <1>2, <1>3 DEF cleanupFailedEphemeralAgent

Memory == Status \cup {"missing", "insert", "update"}

LEMMA ForgottenTypes ==
    Forgotten \in [Name -> Memory]
BY DEF Forgotten, Memory, Status

LEMMA KnownTypes ==
    ASSUME LocalOK, NEW p, NEW copy \in [Name -> Memory],
           known' = [known EXCEPT ![p] = copy], UNCHANGED agent
    PROVE  LocalOK'
BY DEF LocalOK, Memory

LEMMA KnowsTypes ==
    ASSUME LocalOK, NEW p, NEW n, NEW state \in Memory, Knows(p, n, state),
           UNCHANGED agent
    PROVE  LocalOK'
BY DEF LocalOK, Memory, Knows

LEMMA EndsTypes ==
    ASSUME StartOK, NEW S, Ends(S), UNCHANGED <<how, tries>>
    PROVE  StartOK' /\ \A t \in Starts : session'[t] # "none" => session[t] # "none"
BY DEF StartOK, Ends

(***************************************************************************)
(* Named, when one process takes a step.                                   *)
(***************************************************************************)

Nameless == DiscoveryPc \cup {"failed", "done"}

LEMMA NamedStart ==
    ASSUME TypeOK, NEW s \in Starts, NEW step, Goes(s, step),
           \A q \in Commands \ {s} : agent'[q] = agent[q],
           agent'[s] = agent[s] \/ agent'[s] \in Name,
           \A t \in Starts \ {s} : session'[t] # "none" => session[t] # "none",
           \/ agent'[s] \in Name
           \/ step \in Nameless /\ (session'[s] # "none" => session[s] # "none")
    PROVE  Named'
<1>1. /\ s \in Commands /\ s \notin Cleaners
      /\ Starts \subseteq Commands /\ Cleaners \subseteq Commands
  BY ConstantsAssumption DEF Commands
<1>2. pc'[s] = step /\ \A q \in Commands : q # s => pc'[q] = pc[q]
  BY <1>1 DEF TypeOK, PcOK, Goes
<1>3. ASSUME NEW c \in Cleaners, pc'[c] \notin DiscoveryPc
      PROVE  agent'[c] \in Name
  BY <1>1, <1>2, <1>3 DEF TypeOK, Named
<1>4. ASSUME NEW t \in Starts, t # s,
             pc'[t] \notin Nameless \/ session'[t] # "none"
      PROVE  agent'[t] \in Name
  BY <1>1, <1>2, <1>4 DEF TypeOK, Named, Nameless
<1>5. ASSUME pc'[s] \notin Nameless \/ session'[s] # "none"
      PROVE  agent'[s] \in Name
  BY <1>1, <1>2, <1>5 DEF TypeOK, Named
<1> QED BY <1>3, <1>4, <1>5 DEF Named, Nameless

LEMMA NamedSame ==
    ASSUME TypeOK, NEW s \in Starts, NEW step, Goes(s, step),
           UNCHANGED agent,
           \A t \in Starts : session'[t] # "none" => session[t] # "none",
           step \in Nameless \/ pc[s] \notin Nameless \/ agent[s] \in Name
    PROVE  Named'
<1>1. step \in Nameless \/ agent[s] \in Name
  BY DEF TypeOK, Named, Nameless
<1> QED BY <1>1, NamedStart

LEMMA NamedClean ==
    ASSUME TypeOK, NEW c \in Cleaners, NEW step, Goes(c, step),
           \A q \in Commands \ {c} : agent'[q] = agent[q],
           \A t \in Starts : session'[t] # "none" => session[t] # "none",
           step \in DiscoveryPc \/ agent'[c] \in Name
    PROVE  Named'
<1>1. /\ c \in Commands /\ c \notin Starts
      /\ Starts \subseteq Commands /\ Cleaners \subseteq Commands
  BY ConstantsAssumption DEF Commands
<1>2. pc'[c] = step /\ \A q \in Commands : q # c => pc'[q] = pc[q]
  BY <1>1 DEF TypeOK, PcOK, Goes
<1>3. ASSUME NEW d \in Cleaners, pc'[d] \notin DiscoveryPc
      PROVE  agent'[d] \in Name
  BY <1>1, <1>2, <1>3 DEF TypeOK, Named
<1>4. ASSUME NEW t \in Starts,
             pc'[t] \notin Nameless \/ session'[t] # "none"
      PROVE  agent'[t] \in Name
  BY <1>1, <1>2, <1>4 DEF TypeOK, Named, Nameless
<1> QED BY <1>3, <1>4 DEF Named, Nameless

(***************************************************************************)
(* Discovery, which starts and cleanups share.                             *)
(***************************************************************************)

(* What a command knows after its discovery, and where it then is.          *)
LEMMA DiscoveryTypes ==
    ASSUME TypeOK, NEW p \in Commands, getWorkspaceInfo(p)
    PROVE  /\ DiskOK' /\ LocalOK' /\ StartOK' /\ CleanOK'
           /\ UNCHANGED <<agent, session>>
<1> USE DEF Discovering
<1>0. /\ row \in [Name -> Status] /\ LocalOK
      /\ known[p] \in [Name -> Memory]
      /\ getWorkspaceAgents \in [Name -> Memory]
  BY DEF TypeOK, DiskOK, LocalOK, Memory, Status, getWorkspaceAgents
<1>1. Discovering
  BY DEF getWorkspaceInfo, discoverAgentsOnDisk, syncAgentsWithDisk,
     ChecksDirectory, MarksMissing, discoverReads, discoverReadsAll,
     discoverScans, discoverUpdates, discoverInserts, discoverThrows,
     buildWorkspaceInfo
<1>2. StartOK' /\ CleanOK' /\ UNCHANGED <<tree, agent, session>>
  BY <1>1 DEF TypeOK, StartOK, CleanOK, startVars, cleanVars
<1>3. ASSUME row' = row \/ \E n \in Name, status \in Status : Set(n, status)
      PROVE  DiskOK'
  BY <1>0, <1>2, <1>3 DEF TypeOK, DiskOK, Set
<1>4. CASE syncAgentsWithDisk(p) \/ discoverReads(p) \/ buildWorkspaceInfo(p)
  <2>1. row' = row /\ known' = [known EXCEPT ![p] = getWorkspaceAgents]
    BY <1>4 DEF syncAgentsWithDisk, discoverReads, buildWorkspaceInfo
  <2> QED BY <1>0, <1>2, <1>3, <2>1, KnownTypes
<1>5. CASE ChecksDirectory(p)
  <2>1. PICK n \in Name : Knows(p, n, IF n \in OnDisk THEN "none" ELSE "missing")
    BY <1>5 DEF ChecksDirectory
  <2>2. (IF n \in OnDisk THEN "none" ELSE "missing") \in Memory
    BY DEF Memory, Status
  <2>3. PICK state \in Memory : Knows(p, n, state)
    BY <2>1, <2>2
  <2>4. LocalOK'
    BY <1>0, <1>2, <2>3, KnowsTypes
  <2> QED BY <1>2, <1>3, <1>5, <2>4 DEF ChecksDirectory
<1>6. CASE discoverReadsAll(p)
  <2> DEFINE copy == [n \in Name |-> IF known[p][n] = "none" /\ row[n] = "ended"
                                     THEN "ended" ELSE known[p][n]]
  <2>1. copy \in [Name -> Memory] /\ known' = [known EXCEPT ![p] = copy]
    BY <1>0, <1>6 DEF discoverReadsAll, LocalOK, Memory, Status
  <2> HIDE DEF copy
  <2> QED BY <1>0, <1>2, <1>3, <1>6, <2>1, KnownTypes DEF discoverReadsAll
<1>7. CASE discoverScans(p)
  <2> DEFINE copy == [n \in Name |->
                        IF n \notin OnDisk \/ known[p][n] = "active" THEN "none"
                        ELSE IF known[p][n] = "ended" THEN "update" ELSE "insert"]
  <2>1. copy \in [Name -> Memory] /\ known' = [known EXCEPT ![p] = copy]
    BY <1>0, <1>7 DEF discoverScans, LocalOK, Memory, Status
  <2> HIDE DEF copy
  <2> QED BY <1>0, <1>2, <1>3, <1>7, <2>1, KnownTypes DEF discoverScans
<1>8. CASE MarksMissing(p) \/ discoverUpdates(p) \/ discoverInserts(p)
  <2>1. PICK n \in Name, status \in Status :
           Set(n, status) /\ Knows(p, n, "none")
    BY <1>8 DEF MarksMissing, discoverUpdates, discoverInserts, Status
  <2>2. LocalOK'
    BY <1>0, <1>2, <2>1, KnowsTypes DEF Memory, Status
  <2> QED BY <1>2, <1>3, <2>1, <2>2
<1>9. CASE discoverThrows(p)
  BY <1>0, <1>2, <1>3, <1>9, KnownTypes, ForgottenTypes DEF discoverThrows
<1> QED BY <1>4, <1>5, <1>6, <1>7, <1>8, <1>9 DEF getWorkspaceInfo,
        discoverAgentsOnDisk

(* A discovery moves on, or stays where it is.                              *)
LEMMA DiscoveryMoves ==
    ASSUME NEW p, getWorkspaceInfo(p)
    PROVE  /\ pc[p] \in DiscoveryPc
           /\ \/ UNCHANGED pc
              \/ \E step \in DiscoveryPc : Goes(p, step)
              \/ p \in Starts /\ Goes(p, "failed")
<1> USE DEF DiscoveryPc
<1>1. CASE syncAgentsWithDisk(p) \/ discoverReads(p) \/ discoverReadsAll(p)
  BY <1>1 DEF syncAgentsWithDisk, discoverReads, discoverReadsAll
<1>2. CASE discoverScans(p) \/ discoverThrows(p) \/ buildWorkspaceInfo(p)
  BY <1>2 DEF discoverScans, discoverThrows, buildWorkspaceInfo
<1>3. CASE \/ ChecksDirectory(p) \/ MarksMissing(p)
           \/ discoverUpdates(p) \/ discoverInserts(p)
  BY <1>3 DEF ChecksDirectory, MarksMissing, discoverUpdates, discoverInserts
<1> QED BY <1>1, <1>2, <1>3 DEF getWorkspaceInfo, discoverAgentsOnDisk

LEMMA DiscoveryTypesStart ==
    ASSUME TypeOK, NEW s \in Starts, getWorkspaceInfo(s)
    PROVE  TypeOK'
<1>1. s \in Commands
  BY DEF Commands
<1>2. PcOK' /\ Named'
  <2>1. CASE UNCHANGED pc
    BY <1>1, <2>1, DiscoveryTypes DEF TypeOK, PcOK, Named
  <2>2. ASSUME NEW step \in DiscoveryPc \cup {"failed"}, Goes(s, step)
        PROVE  PcOK' /\ Named'
    <3>1. PcOK'
      BY <2>2, GoesStart DEF TypeOK, StartPc
    <3>2. Named'
      BY <1>1, <2>2, DiscoveryTypes, NamedSame DEF Nameless
    <3> QED BY <3>1, <3>2
  <2> QED BY <2>1, <2>2, DiscoveryMoves
<1> QED BY <1>1, <1>2, DiscoveryTypes DEF TypeOK

(* A start that fails forgets what it had in memory.                        *)
LEMMA FailsTypes ==
    ASSUME TypeOK, NEW s \in Starts, Fails(s), DiskOK',
           UNCHANGED <<agent, session, cleanVars>>
    PROVE  TypeOK'
<1>1. PcOK'
  BY GoesStart DEF Fails, TypeOK, StartPc
<1>2. LocalOK'
  BY KnownTypes, ForgottenTypes DEF Fails, TypeOK
<1>3. StartOK'
  BY ConstantsAssumption DEF Fails, TypeOK, StartOK
<1>4. CleanOK'
  BY DEF TypeOK, CleanOK, cleanVars
<1>5. Named'
  BY NamedSame DEF Fails, Nameless
<1> QED BY <1>1, <1>2, <1>3, <1>4, <1>5 DEF TypeOK

(***************************************************************************)
(* The steps of a start.                                                   *)
(***************************************************************************)

LEMMA StartTypes ==
    ASSUME TypeOK, NEW s \in Starts, StartStep(s)
    PROVE  TypeOK'
<1> USE DEF StartPc, DiscoveryPc
<1>1. s \in Commands /\ agent[s] \in Name \cup {NoName}
  BY DEF Commands, TypeOK, LocalOK
<1>2. ASSUME getWorkspaceInfo(s) PROVE TypeOK'
  BY <1>1, <1>2, DiscoveryTypesStart
<1>3. CASE KillsExisting(s)
  <2>1. PcOK'
    BY <1>3 DEF KillsExisting, TypeOK, PcOK
  <2>2. DiskOK' /\ LocalOK' /\ CleanOK'
    BY <1>3 DEF KillsExisting, TypeOK, DiskOK, LocalOK, CleanOK, cleanVars
  <2>3. StartOK'
    BY <1>3 DEF KillsExisting, TypeOK, StartOK
  <2>4. Named'
    BY <1>3 DEF KillsExisting, TypeOK, StartOK, Named
  <2> QED BY <2>1, <2>2, <2>3, <2>4 DEF TypeOK
<1>4. CASE Attaches(s)
  <2>1. PcOK'
    BY <1>4, GoesStart DEF Attaches, TypeOK
  <2>2. DiskOK' /\ StartOK' /\ CleanOK'
    BY <1>4 DEF Attaches, TypeOK, DiskOK, StartOK, startVars, CleanOK, cleanVars
  <2>3. LocalOK'
    BY <1>4, KnownTypes, ForgottenTypes DEF Attaches, TypeOK
  <2>4. Named'
    BY <1>4, NamedSame DEF Attaches, Nameless, startVars
  <2> QED BY <2>1, <2>2, <2>3, <2>4 DEF TypeOK
<1>5. CASE ReusesWorktree(s)
  <2>1. PcOK'
    BY <1>5, GoesStart DEF ReusesWorktree, TypeOK
  <2>2. DiskOK' /\ CleanOK'
    BY <1>5 DEF ReusesWorktree, TypeOK, DiskOK, CleanOK, cleanVars
  <2>3. LocalOK'
    BY <1>5, ForgottenTypes DEF ReusesWorktree, TypeOK, LocalOK, findWorktreeForBranch, Memory
  <2>4. StartOK'
    BY <1>5 DEF ReusesWorktree, TypeOK, StartOK, findWorktreeForBranch
  <2>5. Named'
    BY <1>5, <1>1, NamedStart DEF ReusesWorktree, findWorktreeForBranch, TypeOK, LocalOK
  <2> QED BY <2>1, <2>2, <2>3, <2>4, <2>5 DEF TypeOK
<1>6. CASE PicksName(s)
  <2>1. PcOK'
    BY <1>6, GoesStart DEF PicksName, TypeOK
  <2>2. DiskOK' /\ CleanOK'
    BY <1>6 DEF PicksName, TypeOK, DiskOK, CleanOK, cleanVars
  <2>3. LocalOK'
    BY <1>6 DEF PicksName, TypeOK, LocalOK, generateEphemeralAgentName
  <2>4. StartOK'
    BY <1>6 DEF PicksName, TypeOK, StartOK, generateEphemeralAgentName
  <2>5. Named'
    BY <1>6, <1>1, NamedStart DEF PicksName, generateEphemeralAgentName, TypeOK, LocalOK
  <2> QED BY <2>1, <2>2, <2>3, <2>4, <2>5 DEF TypeOK
<1>7. CASE OutOfNames(s)
  BY <1>7, FailsTypes DEF OutOfNames, TypeOK, DiskOK
<1>8. CASE MakesDirectory(s)
  <2>1. PcOK'
    BY <1>8, GoesStart DEF MakesDirectory, TypeOK
  <2>2. LocalOK' /\ StartOK' /\ CleanOK'
    BY <1>8 DEF MakesDirectory, TypeOK, LocalOK, StartOK, startVars, CleanOK, cleanVars
  <2>3. DiskOK'
    BY <1>8 DEF MakesDirectory, TypeOK, DiskOK, Tree
  <2>4. Named'
    BY <1>8, NamedSame DEF MakesDirectory, Nameless, startVars
  <2> QED BY <2>1, <2>2, <2>3, <2>4 DEF TypeOK
<1>9. CASE AddsWorktree(s)
  <2>1. PcOK'
    BY <1>9, GoesStart DEF AddsWorktree, TypeOK
  <2>2. LocalOK' /\ StartOK' /\ CleanOK'
    BY <1>9 DEF AddsWorktree, TypeOK, LocalOK, StartOK, startVars, CleanOK, cleanVars
  <2>3. DiskOK'
    BY <1>9 DEF AddsWorktree, TypeOK, DiskOK, Tree
  <2>4. Named'
    BY <1>9, NamedSame DEF AddsWorktree, Nameless, startVars
  <2> QED BY <2>1, <2>2, <2>3, <2>4 DEF TypeOK
<1>10. CASE WorktreeFails(s)
  BY <1>10, FailsTypes, FailedCleanupTypes DEF WorktreeFails, TypeOK
<1>11. CASE ReadsRow(s)
  <2>1. PcOK'
    BY <1>11, GoesStart DEF ReadsRow, TypeOK
  <2>2. DiskOK' /\ LocalOK' /\ StartOK' /\ CleanOK'
    BY <1>11 DEF ReadsRow, TypeOK, DiskOK, LocalOK, StartOK, startVars, CleanOK, cleanVars
  <2>3. Named'
    BY <1>11, NamedSame DEF ReadsRow, Nameless, startVars
  <2> QED BY <2>1, <2>2, <2>3 DEF TypeOK
<1>12. CASE Inserts(s)
  <2>1. PcOK'
    BY <1>12, GoesStart DEF Inserts, Claims, TypeOK
  <2>2. DiskOK'
    BY <1>12, SetTypes DEF Inserts, Claims, TypeOK, Status
  <2>3. LocalOK'
    BY <1>12, KnownTypes, ForgottenTypes DEF Inserts, Claims, TypeOK
  <2>4. StartOK'
    BY <1>12, ConstantsAssumption DEF Inserts, Claims, TypeOK, StartOK
  <2>5. CleanOK'
    BY <1>12 DEF Inserts, Claims, TypeOK, CleanOK, cleanVars
  <2>6. Named'
    BY <1>12, NamedSame DEF Inserts, Claims, Nameless
  <2> QED BY <2>1, <2>2, <2>3, <2>4, <2>5, <2>6 DEF TypeOK
<1>13. CASE Recycles(s)
  <2>1. PcOK'
    BY <1>13, GoesStart DEF Recycles, Claims, TypeOK
  <2>2. DiskOK'
    BY <1>13, SetTypes DEF Recycles, Claims, TypeOK, Status
  <2>3. LocalOK'
    BY <1>13, KnownTypes, ForgottenTypes DEF Recycles, Claims, TypeOK
  <2>4. StartOK'
    BY <1>13, ConstantsAssumption DEF Recycles, Claims, TypeOK, StartOK
  <2>5. CleanOK'
    BY <1>13 DEF Recycles, Claims, TypeOK, CleanOK, cleanVars
  <2>6. Named'
    BY <1>13, NamedSame DEF Recycles, Claims, Nameless
  <2> QED BY <2>1, <2>2, <2>3, <2>4, <2>5, <2>6 DEF TypeOK
<1>14. CASE FindsTaken(s)
  <2>1. PcOK'
    BY <1>14, GoesStart DEF FindsTaken, TypeOK
  <2>2. DiskOK' /\ LocalOK' /\ StartOK' /\ CleanOK'
    BY <1>14 DEF FindsTaken, TypeOK, DiskOK, LocalOK, StartOK, startVars, CleanOK, cleanVars
  <2>3. Named'
    BY <1>14, NamedSame DEF FindsTaken, Nameless, startVars
  <2> QED BY <2>1, <2>2, <2>3 DEF TypeOK
<1>15. CASE Collides(s)
  <2>1. DiskOK'
    BY <1>15, FailedCleanupTypes DEF Collides, TypeOK
  <2>2. CASE Fails(s)
    BY <1>15, <2>1, <2>2, FailsTypes DEF Collides
  <2>3. CASE Retries(s) /\ tries[s] # MaxRetries
    <3>1. PcOK'
      BY <2>3, GoesStart DEF Retries, TypeOK
    <3>2. LocalOK' /\ CleanOK'
      BY <1>15, <2>3 DEF Collides, Retries, TypeOK, LocalOK, CleanOK, cleanVars
    <3>3. StartOK'
      BY <1>15, <2>3, ConstantsAssumption DEF Collides, Retries, TypeOK, StartOK
    <3>4. Named'
      BY <1>15, <2>3, NamedSame DEF Collides, Retries, Nameless
    <3> QED BY <2>1, <3>1, <3>2, <3>3, <3>4 DEF TypeOK
  <2> QED BY <1>15, <2>2, <2>3 DEF Collides
<1>16. CASE checkoutBranchSafe(s)
  <2>1. PcOK'
    BY <1>16, GoesStart DEF checkoutBranchSafe, TypeOK
  <2>2. LocalOK' /\ StartOK' /\ CleanOK'
    BY <1>16 DEF checkoutBranchSafe, TypeOK, LocalOK, StartOK, startVars, CleanOK, cleanVars
  <2>3. DiskOK'
    BY <1>16, ConstantsAssumption DEF checkoutBranchSafe, TypeOK, DiskOK, Tree
  <2>4. Named'
    BY <1>16, NamedSame DEF checkoutBranchSafe, Nameless, startVars
  <2> QED BY <2>1, <2>2, <2>3, <2>4 DEF TypeOK
<1>17. CASE DirectoryMissing(s)
  BY <1>17, FailsTypes DEF DirectoryMissing, TypeOK, DiskOK
<1>18. CASE runExecution(s)
  <2>1. PcOK'
    BY <1>18, GoesStart DEF runExecution, TypeOK
  <2>2. DiskOK' /\ LocalOK' /\ CleanOK'
    BY <1>18 DEF runExecution, TypeOK, DiskOK, LocalOK, CleanOK, cleanVars
  <2>3. StartOK'
    BY <1>18 DEF runExecution, TypeOK, StartOK
  <2>4. /\ agent[s] \in Name
        /\ \A t \in Starts \ {s} : session'[t] # "none" => session[t] # "none"
    BY <1>18 DEF runExecution, TypeOK, Named, StartOK
  <2>5. Named'
    BY <1>18, <2>4, NamedStart DEF runExecution
  <2> QED BY <2>1, <2>2, <2>3, <2>5 DEF TypeOK
<1>19. CASE ExecutionFails(s)
  <2>1. PcOK'
    BY <1>19, GoesStart DEF ExecutionFails, TypeOK
  <2>2. DiskOK' /\ LocalOK' /\ StartOK' /\ CleanOK'
    BY <1>19 DEF ExecutionFails, TypeOK, DiskOK, LocalOK, StartOK, startVars, CleanOK, cleanVars
  <2>3. Named'
    BY <1>19, NamedSame DEF ExecutionFails, Nameless, startVars
  <2> QED BY <2>1, <2>2, <2>3 DEF TypeOK
<1>20. CASE UndoesDirectory(s)
  <2>1. PcOK'
    BY <1>20, GoesStart DEF UndoesDirectory, TypeOK
  <2>2. LocalOK' /\ StartOK' /\ CleanOK'
    BY <1>20 DEF UndoesDirectory, TypeOK, LocalOK, StartOK, startVars, CleanOK, cleanVars
  <2>3. DiskOK'
    BY <1>20, FailedCleanupTypes DEF UndoesDirectory, TypeOK
  <2>4. Named'
    BY <1>20, NamedSame DEF UndoesDirectory, Nameless, startVars
  <2> QED BY <2>1, <2>2, <2>3, <2>4 DEF TypeOK
<1>21. CASE UndoesRow(s)
  <2>1. PcOK'
    BY <1>21, GoesStart DEF UndoesRow, TypeOK
  <2>2. LocalOK' /\ StartOK' /\ CleanOK'
    BY <1>21 DEF UndoesRow, TypeOK, LocalOK, StartOK, startVars, CleanOK, cleanVars
  <2>3. DiskOK'
    BY <1>21, SetTypes DEF UndoesRow, TypeOK, Status, DiskOK
  <2>4. Named'
    BY <1>21, NamedSame DEF UndoesRow, Nameless, startVars
  <2> QED BY <2>1, <2>2, <2>3, <2>4 DEF TypeOK
<1>22. CASE UndoesContainer(s)
  <2>1. PcOK'
    BY <1>22, GoesStart DEF UndoesContainer, TypeOK
  <2>2. DiskOK' /\ LocalOK' /\ CleanOK'
    BY <1>22 DEF UndoesContainer, TypeOK, DiskOK, LocalOK, CleanOK, cleanVars
  <2>3. StartOK'
    BY <1>22, EndsTypes DEF UndoesContainer, TypeOK
  <2>4. Named'
    BY <1>22, EndsTypes, NamedSame DEF UndoesContainer, TypeOK, Nameless
  <2> QED BY <2>1, <2>2, <2>3, <2>4 DEF TypeOK
<1>23. CASE ResumesWorktree(s)
  <2>1. PcOK'
    BY <1>23, GoesStart DEF ResumesWorktree, TypeOK
  <2>2. DiskOK' /\ LocalOK' /\ StartOK' /\ CleanOK'
    BY <1>23 DEF ResumesWorktree, TypeOK, DiskOK, LocalOK, StartOK, startVars, CleanOK, cleanVars
  <2>3. Named'
    BY <1>23, NamedSame DEF ResumesWorktree, Nameless, startVars
  <2> QED BY <2>1, <2>2, <2>3 DEF TypeOK
<1>24. CASE LeavesEarly(s)
  BY <1>24, FailsTypes DEF LeavesEarly, TypeOK, DiskOK
<1> QED BY <1>2, <1>3, <1>4, <1>5, <1>6, <1>7, <1>8, <1>9, <1>10, <1>11, <1>12, <1>13, <1>14, <1>15, <1>16, <1>17, <1>18, <1>19, <1>20, <1>21, <1>22, <1>23, <1>24 DEF StartStep

(***************************************************************************)
(* The steps of a cleanup and of the agents.                               *)
(***************************************************************************)

LEMMA DoneTypes ==
    ASSUME TypeOK, NEW c \in Cleaners, Done(c), UNCHANGED session
    PROVE  PcOK' /\ LocalOK' /\ CleanOK' /\ Named'
<1>1. c \in Commands
  BY DEF Commands
<1>2. PcOK'
  BY GoesClean DEF Done, TypeOK, CleanPc, DiscoveryPc
<1>3. LocalOK'
  BY ForgottenTypes DEF Done, TypeOK, LocalOK, Memory
<1>4. CleanOK'
  BY DEF Done, TypeOK, CleanOK
<1>5. Named'
  BY <1>1, NamedClean DEF Done, TypeOK, LocalOK, DiscoveryPc
<1> QED BY <1>2, <1>3, <1>4, <1>5

LEMMA NamedCleanSame ==
    ASSUME TypeOK, NEW c \in Cleaners, NEW step, Goes(c, step), UNCHANGED agent,
           \A t \in Starts : session'[t] # "none" => session[t] # "none",
           pc[c] \notin DiscoveryPc
    PROVE  Named'
<1>1. agent[c] \in Name
  BY DEF TypeOK, Named
<1> QED BY <1>1, NamedClean

LEMMA CleanTypes ==
    ASSUME TypeOK, NEW c \in Cleaners, CleanStep(c)
    PROVE  TypeOK'
<1> USE DEF CleanPc, DiscoveryPc
<1>1. c \in Commands /\ agent[c] \in Name \cup {NoName}
  BY DEF Commands, TypeOK, LocalOK
<1>2. ASSUME getWorkspaceInfo(c) PROVE TypeOK'
  <2>1. CASE UNCHANGED pc
    BY <1>1, <1>2, <2>1, DiscoveryTypes DEF TypeOK, PcOK, Named
  <2>2. ASSUME NEW step \in DiscoveryPc, Goes(c, step)
        PROVE  TypeOK'
    <3>1. PcOK'
      BY <2>2, GoesClean DEF TypeOK
    <3>2. Named'
      BY <1>1, <1>2, <2>2, DiscoveryTypes, NamedClean
    <3> QED BY <1>1, <1>2, <3>1, <3>2, DiscoveryTypes DEF TypeOK
  <2> QED BY <1>2, <2>1, <2>2, DiscoveryMoves, ConstantsAssumption
<1>3. CASE Selects(c)
  <2>1. PcOK'
    BY <1>3, GoesClean DEF Selects, TypeOK
  <2>2. DiskOK' /\ StartOK'
    BY <1>3 DEF Selects, TypeOK, DiskOK, StartOK, startVars
  <2>3. LocalOK'
    <3>1. PICK n \in Name, m \in {"check", "push", "force"} :
             /\ known' = [known EXCEPT ![c] = [Forgotten EXCEPT ![n] = known[c][n]]]
             /\ agent' = [agent EXCEPT ![c] = n]
      BY <1>3 DEF Selects
    <3>2. known[c][n] \in Memory
      BY <1>1 DEF TypeOK, LocalOK, Memory
    <3>3. [Forgotten EXCEPT ![n] = known[c][n]] \in [Name -> Memory]
      BY <3>2, ForgottenTypes
    <3> QED BY <3>1, <3>3 DEF TypeOK, LocalOK, Memory
  <2>4. CleanOK'
    BY <1>3 DEF Selects, TypeOK, CleanOK
  <2>5. Named'
    BY <1>3, <1>1, NamedClean DEF Selects, TypeOK, LocalOK, startVars
  <2> QED BY <2>1, <2>2, <2>3, <2>4, <2>5 DEF TypeOK
<1>4. CASE ChecksClean(c)
  <2>1. PcOK'
    BY <1>4, GoesClean DEF ChecksClean, Passes, TypeOK
  <2>2. DiskOK'
    BY <1>4 DEF ChecksClean, Passes, TypeOK, DiskOK
  <2>3. LocalOK'
    BY <1>4 DEF ChecksClean, Passes, TypeOK, LocalOK
  <2>4. StartOK'
    BY <1>4 DEF ChecksClean, Passes, TypeOK, StartOK, startVars
  <2>5. CleanOK'
    BY <1>4 DEF ChecksClean, Passes, TypeOK, CleanOK
  <2>6. Named'
    BY <1>4, NamedCleanSame DEF ChecksClean, Passes, startVars
  <2> QED BY <2>1, <2>2, <2>3, <2>4, <2>5, <2>6 DEF TypeOK
<1>5. CASE pushAgentWork(c)
  <2>1. PcOK'
    BY <1>5, GoesClean DEF pushAgentWork, TypeOK
  <2>2. LocalOK' /\ StartOK' /\ CleanOK'
    BY <1>5 DEF pushAgentWork, TypeOK, LocalOK, StartOK, startVars, CleanOK, cleanVars
  <2>3. DiskOK'
    BY <1>5 DEF pushAgentWork, TypeOK, DiskOK, Tree
  <2>4. Named'
    BY <1>5, NamedCleanSame DEF pushAgentWork, startVars
  <2> QED BY <2>1, <2>2, <2>3, <2>4 DEF TypeOK
<1>6. CASE RechecksClean(c)
  <2>1. PcOK'
    BY <1>6, GoesClean DEF RechecksClean, Passes, TypeOK
  <2>2. DiskOK'
    BY <1>6 DEF RechecksClean, Passes, TypeOK, DiskOK
  <2>3. LocalOK'
    BY <1>6 DEF RechecksClean, Passes, TypeOK, LocalOK
  <2>4. StartOK'
    BY <1>6 DEF RechecksClean, Passes, TypeOK, StartOK, startVars
  <2>5. CleanOK'
    BY <1>6 DEF RechecksClean, Passes, TypeOK, CleanOK
  <2>6. Named'
    BY <1>6, NamedCleanSame DEF RechecksClean, Passes, startVars
  <2> QED BY <2>1, <2>2, <2>3, <2>4, <2>5, <2>6 DEF TypeOK
<1>7. CASE KillsSessions(c)
  <2>1. PcOK'
    BY <1>7, GoesClean DEF KillsSessions, TypeOK
  <2>2. DiskOK' /\ LocalOK' /\ CleanOK'
    BY <1>7 DEF KillsSessions, TypeOK, DiskOK, LocalOK, CleanOK, cleanVars
  <2>3. StartOK'
    BY <1>7, EndsTypes DEF KillsSessions, TypeOK
  <2>4. Named'
    BY <1>7, EndsTypes, NamedCleanSame DEF KillsSessions, TypeOK
  <2> QED BY <2>1, <2>2, <2>3, <2>4 DEF TypeOK
<1>8. CASE RemovesDirectory(c)
  <2>1. PcOK'
    BY <1>8, GoesClean DEF RemovesDirectory, TypeOK
  <2>2. LocalOK' /\ StartOK' /\ CleanOK'
    BY <1>8 DEF RemovesDirectory, TypeOK, LocalOK, StartOK, startVars, CleanOK, cleanVars
  <2>3. DiskOK'
    BY <1>8, RemovedTypes DEF RemovesDirectory, TypeOK
  <2>4. Named'
    BY <1>8, NamedCleanSame DEF RemovesDirectory, startVars
  <2> QED BY <2>1, <2>2, <2>3, <2>4 DEF TypeOK
<1>9. CASE SelectsNone(c)
  BY <1>9, DoneTypes DEF SelectsNone, TypeOK, DiskOK, StartOK, startVars
<1>10. CASE ChecksUnsaved(c)
  <2>1. CASE mode[c] = "push"
    <3>1. PcOK' /\ Named'
      BY <1>10, <2>1, GoesClean, NamedCleanSame DEF ChecksUnsaved, startVars, TypeOK
    <3> QED BY <1>10, <2>1, <3>1 DEF ChecksUnsaved, TypeOK, DiskOK, LocalOK, StartOK,
               CleanOK, startVars, cleanVars
  <2>2. CASE mode[c] # "push"
    <3>1. Done(c) /\ UNCHANGED <<row, tree, startVars>>
      BY <1>10, <2>2 DEF ChecksUnsaved
    <3> QED BY <3>1, DoneTypes DEF TypeOK, DiskOK, StartOK, startVars
  <2> QED BY <2>1, <2>2
<1>11. CASE PushFails(c)
  <2>1. tree[agent[c]] \in Tree
    BY <1>11 DEF PushFails, TypeOK, DiskOK, Named
  <2>2. PICK work \in {"committed", tree[agent[c]].work} :
           tree' = [tree EXCEPT ![agent[c]].work = work]
    BY <1>11 DEF PushFails
  <2>3. work \in {"clean", "dirty", "committed"}
    BY <2>1, <2>2 DEF Tree
  <2>4. DiskOK'
    BY <1>11, <2>2, <2>3 DEF PushFails, TypeOK, DiskOK, Tree
  <2> QED BY <1>11, <2>4, DoneTypes DEF PushFails, TypeOK, StartOK, startVars
<1>12. CASE RechecksUnsaved(c)
  BY <1>12, DoneTypes DEF RechecksUnsaved, TypeOK, DiskOK, StartOK, startVars
<1>13. CASE MarksAgent(c)
  <2>1. DiskOK'
    BY <1>13, SetTypes DEF MarksAgent, TypeOK, Status
  <2> QED BY <1>13, <2>1, DoneTypes DEF MarksAgent, TypeOK, StartOK, startVars
<1>14. CASE RemovalFails(c)
  <2>1. DiskOK'
    BY <1>14, FailedCleanupTypes DEF RemovalFails, TypeOK
  <2> QED BY <1>14, <2>1, DoneTypes DEF RemovalFails, TypeOK, StartOK, startVars
<1> QED BY <1>2, <1>3, <1>4, <1>5, <1>6, <1>7, <1>8, <1>9, <1>10, <1>11, <1>12, <1>13, <1>14 DEF CleanStep

LEMMA AgentTypes ==
    ASSUME TypeOK, NEW s \in Starts, AgentStep(s)
    PROVE  TypeOK'
<1>1. ASSUME UNCHANGED <<pc, agent>>, DiskOK', StartOK', CleanOK', LocalOK',
             \A t \in Starts : session'[t] # "none" => session[t] # "none"
      PROVE  TypeOK'
  BY <1>1 DEF TypeOK, PcOK, Named
<1>2. CASE AgentWrites(s)
  BY <1>1, <1>2 DEF AgentWrites, TypeOK, DiskOK, Tree, LocalOK, StartOK, CleanOK,
     startVars
<1>3. CASE AgentCommits(s)
  BY <1>1, <1>3 DEF AgentCommits, TypeOK, DiskOK, Tree, LocalOK, StartOK, CleanOK,
     startVars, cleanVars
<1>4. CASE AgentPushes(s)
  BY <1>1, <1>4 DEF AgentPushes, TypeOK, DiskOK, Tree, LocalOK, StartOK, CleanOK,
     startVars, cleanVars
<1>5. CASE SessionEnds(s)
  BY <1>1, <1>5 DEF SessionEnds, TypeOK, DiskOK, LocalOK, StartOK, CleanOK,
     cleanVars
<1> QED BY <1>2, <1>3, <1>4, <1>5 DEF AgentStep

LEMMA NextTypes == TypeOK /\ [Next]_vars => TypeOK'
<1> SUFFICES ASSUME TypeOK, [Next]_vars PROVE TypeOK'
  OBVIOUS
<1>1. CASE UNCHANGED vars
  BY <1>1 DEF vars, startVars, cleanVars, TypeOK, DiskOK, PcOK, LocalOK, StartOK,
     CleanOK, Named
<1>2. CASE Next
  BY <1>2, StartTypes, CleanTypes, AgentTypes DEF Next
<1> QED BY <1>1, <1>2

LEMMA InitTypeOK == Init => TypeOK
<1> SUFFICES ASSUME Init PROVE TypeOK
  OBVIOUS
<1>1. DiskOK
  BY ConstantsAssumption DEF Init, DiskOK, Tree, NoTree, Status
<1>2. PcOK
  BY DEF Init, PcOK, Commands, StartPc, CleanPc, DiscoveryPc
<1>3. LocalOK /\ StartOK /\ CleanOK
  BY ConstantsAssumption DEF Init, LocalOK, StartOK, CleanOK, Forgotten, Status
<1>4. Named
  BY DEF Init, Named, Commands, DiscoveryPc
<1> QED BY <1>1, <1>2, <1>3, <1>4 DEF TypeOK

(* Every command is where its kind can be, with values of their types, and  *)
(* knows its agent once it has one.                                        *)
THEOREM TypeCorrect == Spec => []TypeOK
<1> QED BY InitTypeOK, NextTypes, PTL DEF Spec


(***************************************************************************)
(* What a step leaves alone.                                               *)
(***************************************************************************)

(* The process that moves, and what no other process is given or loses.     *)
Alone(p) ==
    /\ \A q \in Commands : q # p => pc'[q] = pc[q] /\ agent'[q] = agent[q]
    /\ \A t \in Starts : t # p => how'[t] = how[t]
    /\ \A t \in Starts : session'[t] # "none" /\ session[t] = "none"
                         => t = p /\ pc[p] = "launch" /\ pc'[p] = "done"

(* Rows go by the hand of a start that failed.                              *)
Rows(p) ==
    \A n \in Name : row'[n] = "none" => \/ row[n] = "none"
                                        \/ n = agent[p] /\ pc[p] = "undo row"

(* No work appears.                                                         *)
Work == \A n \in Name : tree'[n].work = "dirty" => tree[n].work = "dirty"

LEMMA CleanupWork ==
    ASSUME tree \in [Name -> Tree], NEW n,
           Leftover(n) \/ cleanupFailedEphemeralAgent(n)
    PROVE  Work
<1>1. CASE Leftover(n)
  BY <1>1 DEF Leftover, Work, NoTree, Tree
<1>2. CASE Removed(n)
  BY <1>2 DEF Removed, Work, NoTree, Tree
<1> QED BY <1>1, <1>2 DEF cleanupFailedEphemeralAgent

LEMMA DiscoveryFrame ==
    ASSUME TypeOK, NEW p \in Commands, getWorkspaceInfo(p)
    PROVE  /\ Rows(p) /\ Work
           /\ UNCHANGED <<tree, agent, startVars, cleanVars>>
<1>1. UNCHANGED <<tree, agent, startVars, cleanVars>>
  BY DEF getWorkspaceInfo, discoverAgentsOnDisk, syncAgentsWithDisk,
     ChecksDirectory, MarksMissing, discoverReads, discoverReadsAll,
     discoverScans, discoverUpdates, discoverInserts, discoverThrows,
     buildWorkspaceInfo, Discovering
<1>2. CASE MarksMissing(p)
  BY <1>1, <1>2 DEF MarksMissing, Set, Rows, Work, TypeOK, DiskOK
<1>3. CASE discoverUpdates(p)
  BY <1>1, <1>3 DEF discoverUpdates, Set, Rows, Work, TypeOK, DiskOK
<1>4. CASE discoverInserts(p)
  BY <1>1, <1>4 DEF discoverInserts, Set, Rows, Work, TypeOK, DiskOK
<1>5. ASSUME UNCHANGED row PROVE Rows(p) /\ Work
  BY <1>1, <1>5 DEF Rows, Work
<1> QED BY <1>1, <1>2, <1>3, <1>4, <1>5 DEF getWorkspaceInfo,
        discoverAgentsOnDisk, syncAgentsWithDisk, ChecksDirectory, discoverReads,
        discoverReadsAll, discoverScans, discoverThrows, buildWorkspaceInfo

LEMMA StartFrame ==
    ASSUME TypeOK, NEW s \in Starts, StartStep(s)
    PROVE  Alone(s) /\ Rows(s) /\ Work /\ UNCHANGED cleanVars
<1>1. /\ s \in Commands
      /\ pc \in [Commands -> StartPc \cup CleanPc]
      /\ agent \in [Commands -> Name \cup {NoName}]
      /\ how \in [Starts -> {"none", "inserted", "recycled", "reused"}]
      /\ session \in [Starts -> {"none", "seen", "hidden"}]
      /\ row \in [Name -> Status]
      /\ tree \in [Name -> Tree]
  BY DEF Commands, TypeOK, PcOK, LocalOK, StartOK, DiskOK
<1>2. tree \in [Name -> [dir : {"none", "empty", "worktree"},
                         head : Ticket \cup {NoTicket},
                         work : {"clean", "dirty", "committed"}]]
  BY DEF TypeOK, DiskOK, Tree
<1>3. ASSUME getWorkspaceInfo(s)
      PROVE  Alone(s) /\ Rows(s) /\ Work /\ UNCHANGED cleanVars
  <2>1. UNCHANGED <<agent, how, session, cleanVars>>
    BY <1>1, <1>3, DiscoveryFrame DEF startVars
  <2>2. \A q \in Commands : q # s => pc'[q] = pc[q]
    BY <1>1, <1>3, DiscoveryMoves DEF Goes
  <2>3. Alone(s)
    BY <2>1, <2>2 DEF Alone
  <2> QED BY <1>1, <1>3, <2>1, <2>3, DiscoveryFrame
<1>4. ASSUME UNCHANGED row PROVE Rows(s)
  BY <1>4 DEF Rows
<1>5. ASSUME UNCHANGED tree PROVE Work
  BY <1>5 DEF Work
<1>6. ASSUME Fails(s), UNCHANGED <<row, agent, session, cleanVars>>, Work
      PROVE  Alone(s) /\ Rows(s) /\ Work /\ UNCHANGED cleanVars
  BY <1>1, <1>4, <1>6 DEF Fails, Alone, Goes
<1>7. CASE KillsExisting(s)
  <2>1. Alone(s) /\ UNCHANGED cleanVars
    BY <1>1, <1>7 DEF Alone, KillsExisting, Goes, startVars
  <2> QED BY <1>4, <1>5, <1>7, <2>1 DEF KillsExisting
<1>8. CASE Attaches(s)
  <2>1. Alone(s) /\ UNCHANGED cleanVars
    BY <1>1, <1>8 DEF Alone, Attaches, Goes, startVars
  <2> QED BY <1>4, <1>5, <1>8, <2>1 DEF Attaches
<1>9. CASE ReusesWorktree(s)
  <2>1. Alone(s) /\ UNCHANGED cleanVars
    BY <1>1, <1>9 DEF Alone, ReusesWorktree, Goes, startVars
  <2> QED BY <1>4, <1>5, <1>9, <2>1 DEF ReusesWorktree
<1>10. CASE PicksName(s)
  <2>1. Alone(s) /\ UNCHANGED cleanVars
    BY <1>1, <1>10 DEF Alone, PicksName, Goes, startVars
  <2> QED BY <1>4, <1>5, <1>10, <2>1 DEF PicksName
<1>11. CASE ReadsRow(s)
  <2>1. Alone(s) /\ UNCHANGED cleanVars
    BY <1>1, <1>11 DEF Alone, ReadsRow, Goes, startVars
  <2> QED BY <1>4, <1>5, <1>11, <2>1 DEF ReadsRow
<1>12. CASE FindsTaken(s)
  <2>1. Alone(s) /\ UNCHANGED cleanVars
    BY <1>1, <1>12 DEF Alone, FindsTaken, Goes, startVars
  <2> QED BY <1>4, <1>5, <1>12, <2>1 DEF FindsTaken
<1>13. CASE ResumesWorktree(s)
  <2>1. Alone(s) /\ UNCHANGED cleanVars
    BY <1>1, <1>13 DEF Alone, ResumesWorktree, Goes, startVars
  <2> QED BY <1>4, <1>5, <1>13, <2>1 DEF ResumesWorktree
<1>14. CASE runExecution(s)
  <2>1. Alone(s) /\ UNCHANGED cleanVars
    BY <1>1, <1>14 DEF Alone, runExecution, Goes, startVars
  <2> QED BY <1>4, <1>5, <1>14, <2>1 DEF runExecution
<1>15. CASE ExecutionFails(s)
  <2>1. Alone(s) /\ UNCHANGED cleanVars
    BY <1>1, <1>15 DEF Alone, ExecutionFails, Goes, startVars
  <2> QED BY <1>4, <1>5, <1>15, <2>1 DEF ExecutionFails
<1>16. CASE OutOfNames(s)
  BY <1>5, <1>6, <1>16 DEF OutOfNames
<1>17. CASE LeavesEarly(s)
  BY <1>5, <1>6, <1>17 DEF LeavesEarly
<1>18. CASE DirectoryMissing(s)
  BY <1>5, <1>6, <1>18 DEF DirectoryMissing
<1>19. CASE WorktreeFails(s)
  BY <1>1, <1>6, <1>19, CleanupWork DEF WorktreeFails
<1>20. CASE Collides(s)
  <2>1. Work /\ UNCHANGED <<row, agent, session, cleanVars>>
    BY <1>1, <1>20, CleanupWork DEF Collides
  <2>2. CASE Fails(s)
    BY <1>6, <2>1, <2>2
  <2>3. CASE Retries(s)
    <3>1. Alone(s)
      BY <1>1, <2>1, <2>3 DEF Alone, Retries, Goes
    <3> QED BY <1>4, <2>1, <3>1
  <2> QED BY <1>20, <2>2, <2>3 DEF Collides
<1>21. CASE MakesDirectory(s)
  <2>1. Alone(s) /\ UNCHANGED cleanVars
    BY <1>1, <1>21 DEF Alone, MakesDirectory, Goes, startVars
  <2>2. Work
    BY <1>2, <1>21 DEF Work, MakesDirectory
  <2> QED BY <1>4, <1>21, <2>1, <2>2 DEF MakesDirectory
<1>22. CASE AddsWorktree(s)
  <2>1. Alone(s) /\ UNCHANGED cleanVars
    BY <1>1, <1>22 DEF Alone, AddsWorktree, Goes, startVars
  <2>2. Work
    BY <1>2, <1>22 DEF Work, AddsWorktree
  <2> QED BY <1>4, <1>22, <2>1, <2>2 DEF AddsWorktree
<1>23. CASE checkoutBranchSafe(s)
  <2>1. Alone(s) /\ UNCHANGED cleanVars
    BY <1>1, <1>23 DEF Alone, checkoutBranchSafe, Goes, startVars
  <2>2. Work
    BY <1>2, <1>23 DEF Work, checkoutBranchSafe
  <2> QED BY <1>4, <1>23, <2>1, <2>2 DEF checkoutBranchSafe
<1>24. CASE Inserts(s)
  <2>1. Alone(s) /\ UNCHANGED cleanVars
    BY <1>1, <1>24 DEF Alone, Inserts, Goes, startVars, Claims
  <2>2. Rows(s)
    BY <1>1, <1>24 DEF Rows, Inserts, Claims, Set
  <2> QED BY <1>5, <1>24, <2>1, <2>2 DEF Inserts, Claims
<1>25. CASE Recycles(s)
  <2>1. Alone(s) /\ UNCHANGED cleanVars
    BY <1>1, <1>25 DEF Alone, Recycles, Goes, startVars, Claims
  <2>2. Rows(s)
    BY <1>1, <1>25 DEF Rows, Recycles, Claims, Set
  <2> QED BY <1>5, <1>25, <2>1, <2>2 DEF Recycles, Claims
<1>26. CASE UndoesDirectory(s)
  <2>1. Alone(s) /\ UNCHANGED cleanVars
    BY <1>1, <1>26 DEF Alone, UndoesDirectory, Goes, startVars
  <2>2. Work
    BY <1>1, <1>26, CleanupWork DEF UndoesDirectory
  <2> QED BY <1>4, <1>26, <2>1, <2>2 DEF UndoesDirectory
<1>27. CASE UndoesRow(s)
  <2>1. Alone(s) /\ UNCHANGED cleanVars
    BY <1>1, <1>27 DEF Alone, UndoesRow, Goes, startVars
  <2>2. Rows(s)
    BY <1>1, <1>27 DEF Rows, UndoesRow, Set
  <2> QED BY <1>5, <1>27, <2>1, <2>2 DEF UndoesRow
<1>28. CASE UndoesContainer(s)
  <2>1. Alone(s) /\ UNCHANGED cleanVars
    BY <1>1, <1>28 DEF Alone, UndoesContainer, Goes, Ends
  <2> QED BY <1>4, <1>5, <1>28, <2>1 DEF UndoesContainer
<1> QED BY <1>3, <1>7, <1>8, <1>9, <1>10, <1>11, <1>12, <1>13, <1>14, <1>15, <1>16, <1>17, <1>18, <1>19, <1>20, <1>21, <1>22, <1>23, <1>24, <1>25, <1>26, <1>27, <1>28 DEF StartStep

(* Other cleanups keep their flags, and what is known of their looks.       *)
Flags(c) == \A d \in Cleaners : d # c =>
                /\ mode'[d] = mode[d]
                /\ d \in wrote <=> d \in wrote'
                /\ d \in blind <=> d \in blind'

LEMMA CleanFrame ==
    ASSUME TypeOK, NEW c \in Cleaners, CleanStep(c)
    PROVE  Alone(c) /\ Rows(c) /\ Work /\ Flags(c)
<1>1. /\ c \in Commands
      /\ pc \in [Commands -> StartPc \cup CleanPc]
      /\ agent \in [Commands -> Name \cup {NoName}]
      /\ session \in [Starts -> {"none", "seen", "hidden"}]
      /\ mode \in [Cleaners -> {"check", "push", "force"}]
      /\ row \in [Name -> Status]
      /\ tree \in [Name -> Tree]
  BY DEF Commands, TypeOK, PcOK, LocalOK, StartOK, CleanOK, DiskOK
<1>2. tree \in [Name -> [dir : {"none", "empty", "worktree"},
                         head : Ticket \cup {NoTicket},
                         work : {"clean", "dirty", "committed"}]]
  BY DEF TypeOK, DiskOK, Tree
<1>3. ASSUME getWorkspaceInfo(c)
      PROVE  Alone(c) /\ Rows(c) /\ Work /\ Flags(c)
  <2>1. UNCHANGED <<agent, how, session, mode, wrote, blind>>
    BY <1>1, <1>3, DiscoveryFrame DEF startVars, cleanVars
  <2>2. \A q \in Commands : q # c => pc'[q] = pc[q]
    BY <1>1, <1>3, DiscoveryMoves DEF Goes
  <2>3. Alone(c) /\ Flags(c)
    BY <2>1, <2>2 DEF Alone, Flags
  <2> QED BY <1>1, <1>3, <2>3, DiscoveryFrame
<1>4. ASSUME UNCHANGED row PROVE Rows(c)
  BY <1>4 DEF Rows
<1>5. ASSUME UNCHANGED tree PROVE Work
  BY <1>5 DEF Work
<1>6. CASE Selects(c)
  <2>1. Alone(c) /\ Flags(c)
    BY <1>1, <1>6 DEF Alone, Flags, Selects, Goes, startVars, cleanVars
  <2> QED BY <1>4, <1>5, <1>6, <2>1 DEF Selects
<1>7. CASE SelectsNone(c)
  <2>1. Alone(c) /\ Flags(c)
    BY <1>1, <1>7 DEF Alone, Flags, SelectsNone, Done, Goes, startVars, cleanVars
  <2> QED BY <1>4, <1>5, <1>7, <2>1 DEF SelectsNone
<1>8. CASE ChecksClean(c)
  <2>1. Alone(c) /\ Flags(c)
    BY <1>1, <1>8 DEF Alone, Flags, ChecksClean, Passes, Goes, startVars, cleanVars
  <2> QED BY <1>4, <1>5, <1>8, <2>1 DEF ChecksClean, Passes
<1>9. CASE ChecksUnsaved(c)
  <2>1. Alone(c) /\ Flags(c)
    BY <1>1, <1>9 DEF Alone, Flags, ChecksUnsaved, Done, Goes, startVars, cleanVars
  <2> QED BY <1>4, <1>5, <1>9, <2>1 DEF ChecksUnsaved
<1>10. CASE RechecksClean(c)
  <2>1. Alone(c) /\ Flags(c)
    BY <1>1, <1>10 DEF Alone, Flags, RechecksClean, Passes, Goes, startVars, cleanVars
  <2> QED BY <1>4, <1>5, <1>10, <2>1 DEF RechecksClean, Passes
<1>11. CASE RechecksUnsaved(c)
  <2>1. Alone(c) /\ Flags(c)
    BY <1>1, <1>11 DEF Alone, Flags, RechecksUnsaved, Done, Goes, startVars, cleanVars
  <2> QED BY <1>4, <1>5, <1>11, <2>1 DEF RechecksUnsaved
<1>12. CASE KillsSessions(c)
  <2>1. Alone(c) /\ Flags(c)
    BY <1>1, <1>12 DEF Alone, Flags, KillsSessions, Ends, Goes, startVars, cleanVars
  <2> QED BY <1>4, <1>5, <1>12, <2>1 DEF KillsSessions
<1>13. CASE pushAgentWork(c)
  <2>1. Alone(c) /\ Flags(c)
    BY <1>1, <1>13 DEF Alone, Flags, pushAgentWork, Goes, startVars, cleanVars
  <2>2. Work
    BY <1>2, <1>13 DEF Work, pushAgentWork
  <2> QED BY <1>4, <1>13, <2>1, <2>2 DEF pushAgentWork
<1>14. CASE PushFails(c)
  <2>1. Alone(c) /\ Flags(c)
    BY <1>1, <1>14 DEF Alone, Flags, PushFails, Done, Goes, startVars, cleanVars
  <2>2. Work
    BY <1>2, <1>14 DEF Work, PushFails
  <2> QED BY <1>4, <1>14, <2>1, <2>2 DEF PushFails
<1>15. CASE RemovesDirectory(c)
  <2>1. Alone(c) /\ Flags(c)
    BY <1>1, <1>15 DEF Alone, Flags, RemovesDirectory, Goes, startVars, cleanVars
  <2>2. Work
    BY <1>2, <1>15 DEF Work, RemovesDirectory, Removed, NoTree
  <2> QED BY <1>4, <1>15, <2>1, <2>2 DEF RemovesDirectory
<1>16. CASE RemovalFails(c)
  <2>1. Alone(c) /\ Flags(c)
    BY <1>1, <1>16 DEF Alone, Flags, RemovalFails, Done, Goes, startVars, cleanVars
  <2>2. Work
    BY <1>1, <1>16, CleanupWork DEF RemovalFails
  <2> QED BY <1>4, <1>16, <2>1, <2>2 DEF RemovalFails
<1>17. CASE MarksAgent(c)
  <2>1. Alone(c) /\ Flags(c)
    BY <1>1, <1>17 DEF Alone, Flags, MarksAgent, Done, Goes, startVars, cleanVars
  <2>2. Rows(c)
    BY <1>1, <1>17 DEF Rows, MarksAgent, Set
  <2> QED BY <1>5, <1>17, <2>1, <2>2 DEF MarksAgent
<1> QED BY <1>3, <1>6, <1>7, <1>8, <1>9, <1>10, <1>11, <1>12, <1>13, <1>14, <1>15, <1>16, <1>17 DEF CleanStep

LEMMA AgentFrame ==
    ASSUME TypeOK, NEW s \in Starts, AgentStep(s)
    PROVE  /\ UNCHANGED <<row, pc, agent, how, mode, blind>>
           /\ \A t \in Starts : session'[t] # "none" => session[t] # "none"
           /\ \/ Work /\ UNCHANGED wrote
              \/ /\ wrote' = wrote \cup {c \in Cleaners : agent[c] = agent[s]}
                 /\ \A n \in Name : tree'[n].work = "dirty" =>
                                    tree[n].work = "dirty" \/ n = agent[s]
<1>1. session \in [Starts -> {"none", "seen", "hidden"}]
  BY DEF TypeOK, StartOK
<1>2. tree \in [Name -> [dir : {"none", "empty", "worktree"},
                         head : Ticket \cup {NoTicket},
                         work : {"clean", "dirty", "committed"}]]
  BY DEF TypeOK, DiskOK, Tree
<1>3. CASE AgentWrites(s)
  BY <1>2, <1>3 DEF AgentWrites, startVars
<1>4. CASE AgentCommits(s)
  BY <1>2, <1>4 DEF AgentCommits, Work, startVars, cleanVars
<1>5. CASE AgentPushes(s)
  BY <1>2, <1>5 DEF AgentPushes, Work, startVars, cleanVars
<1>6. CASE SessionEnds(s)
  BY <1>1, <1>6 DEF SessionEnds, Work, cleanVars
<1> QED BY <1>3, <1>4, <1>5, <1>6 DEF AgentStep

(***************************************************************************)
(* Work is only removed when it was written after the last look.           *)
(***************************************************************************)

(* The property holds of one cleanup.                                       *)
Late(c) ==
    /\ pc[c] \in {"kill", "remove"} /\ mode[c] # "force"
    /\ tree[agent[c]].work = "dirty"
    => c \in wrote \cup blind

LEMMA LateKept ==
    ASSUME TypeOK, NEW d \in Cleaners, Late(d), Work,
           pc'[d] = pc[d], agent'[d] = agent[d], mode'[d] = mode[d],
           d \in wrote => d \in wrote', d \in blind => d \in blind'
    PROVE  Late(d)'
BY DEF Late, Work, TypeOK, Named, DiscoveryPc

LEMMA LateStep ==
    ASSUME TypeOK, NEW c \in Cleaners, CleanStep(c), Late(c)
    PROVE  Late(c)'
<1>1. /\ c \in Commands
      /\ pc \in [Commands -> StartPc \cup CleanPc]
      /\ agent \in [Commands -> Name \cup {NoName}]
      /\ mode \in [Cleaners -> {"check", "push", "force"}]
  BY DEF Commands, TypeOK, PcOK, LocalOK, CleanOK
<1>2. ASSUME pc'[c] \notin {"kill", "remove"} PROVE Late(c)'
  BY <1>2 DEF Late
<1>3. CASE ChecksClean(c) \/ RechecksClean(c)
  <2>1. \/ ~ getAgentGitStatus(agent[c]) /\ UNCHANGED <<tree, agent>>
        \/ c \in blind'
    BY <1>3 DEF ChecksClean, RechecksClean, Passes
  <2> QED BY <1>1, <2>1 DEF getAgentGitStatus, Late
<1>4. CASE KillsSessions(c)
  <2>1. pc[c] = "kill" /\ UNCHANGED <<tree, agent, mode, wrote, blind>>
    BY <1>4 DEF KillsSessions, cleanVars
  <2> QED BY <2>1 DEF Late
<1>5. CASE Selects(c)
  <2>1. pc'[c] = "kill" => mode'[c] = "force"
    BY <1>1, <1>5 DEF Selects, Goes
  <2>2. pc'[c] # "remove"
    BY <1>1, <1>5 DEF Selects, Goes
  <2> QED BY <2>1, <2>2 DEF Late
<1>6. CASE \/ SelectsNone(c) \/ ChecksUnsaved(c)
           \/ pushAgentWork(c) \/ PushFails(c) \/ RechecksUnsaved(c)
           \/ RemovesDirectory(c) \/ RemovalFails(c) \/ MarksAgent(c)
  <2>1. pc'[c] \notin {"kill", "remove"}
    BY <1>1, <1>6 DEF SelectsNone, ChecksUnsaved, pushAgentWork, PushFails,
       RechecksUnsaved, RemovesDirectory, RemovalFails, MarksAgent, Done, Goes
  <2> QED BY <1>2, <2>1
<1>7. CASE getWorkspaceInfo(c)
  <2>1. pc'[c] \notin {"kill", "remove"}
    BY <1>1, <1>7, DiscoveryMoves, ConstantsAssumption DEF Goes, DiscoveryPc
  <2> QED BY <1>2, <2>1
<1> QED BY <1>3, <1>4, <1>5, <1>6, <1>7 DEF CleanStep

LEMMA LateNext ==
    TypeOK /\ RemovesOnlyLateWork /\ [Next]_vars => RemovesOnlyLateWork'
<1> SUFFICES ASSUME TypeOK, RemovesOnlyLateWork, [Next]_vars, NEW d \in Cleaners
             PROVE  Late(d)'
  BY DEF RemovesOnlyLateWork, Late
<1>1. Late(d) /\ d \in Commands
  BY DEF RemovesOnlyLateWork, Late, Commands
<1>2. ASSUME NEW s \in Starts, StartStep(s) PROVE Late(d)'
  <2>1. d # s
    BY ConstantsAssumption
  <2>2. pc'[d] = pc[d] /\ agent'[d] = agent[d] /\ Work /\ UNCHANGED cleanVars
    BY <1>1, <1>2, <2>1, StartFrame DEF Alone
  <2> QED BY <1>1, <2>2, LateKept DEF cleanVars
<1>3. ASSUME NEW s \in Starts, AgentStep(s) PROVE Late(d)'
  <2>1. UNCHANGED <<pc, agent, mode, blind>>
    BY <1>3, AgentFrame
  <2>2. CASE Work /\ UNCHANGED wrote
    BY <1>1, <2>1, <2>2, LateKept
  <2>3. CASE /\ wrote' = wrote \cup {c \in Cleaners : agent[c] = agent[s]}
             /\ \A n \in Name : tree'[n].work = "dirty" =>
                                tree[n].work = "dirty" \/ n = agent[s]
    BY <1>1, <2>1, <2>3 DEF Late, TypeOK, Named, DiscoveryPc
  <2> QED BY <1>3, <2>2, <2>3, AgentFrame
<1>4. ASSUME NEW c \in Cleaners, CleanStep(c) PROVE Late(d)'
  <2>1. CASE d = c
    BY <1>1, <1>4, <2>1, LateStep
  <2>2. CASE d # c
    <3>1. /\ pc'[d] = pc[d] /\ agent'[d] = agent[d] /\ mode'[d] = mode[d]
          /\ Work /\ (d \in wrote => d \in wrote') /\ (d \in blind => d \in blind')
      BY <1>1, <1>4, <2>2, CleanFrame DEF Alone, Flags
    <3> QED BY <1>1, <3>1, LateKept
  <2> QED BY <2>1, <2>2
<1>5. CASE UNCHANGED vars
  BY <1>1, <1>5 DEF vars, cleanVars, Late
<1> QED BY <1>2, <1>3, <1>4, <1>5 DEF Next

(* A cleanup without --force kills and removes uncommitted work only when    *)
(* the agent wrote it after the cleanup had last looked, or that look failed. *)
THEOREM LateWorkOnly == Spec => []RemovesOnlyLateWork
<1>1. Init => RemovesOnlyLateWork
  BY DEF Init, RemovesOnlyLateWork, Commands
<1> QED BY <1>1, InitTypeOK, NextTypes, LateNext, PTL DEF Spec

(***************************************************************************)
(* A name is not inserted twice.                                           *)
(***************************************************************************)

(* A start that runs its agent came to it in one of three ways; an inserted  *)
(* row is there as long as its start has it.                               *)
Came(s) == pc[s] \in {"checkout", "launch", "undo directory", "undo row"}
           => how[s] # "none"
Began(s) == session[s] # "none" => pc[s] = "done"
RowKept(s) == Inserted(s) => row[agent[s]] # "none" \/ RowTaken(agent[s])
NameInv ==
    /\ \A s \in Starts : Came(s) /\ Began(s) /\ RowKept(s)
    /\ InsertedNameIsExclusive

LEMMA OwnStep ==
    ASSUME TypeOK, NEW s \in Starts, StartStep(s), Came(s), Began(s)
    PROVE  /\ Came(s)' /\ Began(s)'
           /\ \A n \in Name : TakenBy(s, n) => TakenBy(s, n)'
           /\ Inserted(s)' => Inserts(s) \/ (Inserted(s) /\ agent'[s] = agent[s])
           /\ pc[s] = "undo row" => UndoesRow(s)
<1>1. /\ s \in Commands
      /\ pc \in [Commands -> StartPc \cup CleanPc]
      /\ agent \in [Commands -> Name \cup {NoName}]
      /\ how \in [Starts -> {"none", "inserted", "recycled", "reused"}]
      /\ session \in [Starts -> {"none", "seen", "hidden"}]
  BY DEF Commands, TypeOK, PcOK, LocalOK, StartOK
<1> USE <1>1 DEF Came, Began, TakenBy, Inserted, Goes
<1>2. CASE getWorkspaceInfo(s)
  <2>1. UNCHANGED <<agent, how, session>>
    BY <1>2, DiscoveryFrame DEF startVars
  <2>2. /\ pc[s] \in DiscoveryPc
        /\ pc'[s] \in DiscoveryPc \cup {"failed"}
    BY <1>2, DiscoveryMoves
  <2> QED BY <2>1, <2>2 DEF DiscoveryPc
<1>3. CASE KillsExisting(s)
  BY <1>3 DEF KillsExisting, startVars
<1>4. CASE Attaches(s)
  BY <1>4 DEF Attaches, startVars
<1>5. CASE ReusesWorktree(s)
  BY <1>5 DEF ReusesWorktree, startVars
<1>6. CASE PicksName(s)
  BY <1>6 DEF PicksName, startVars
<1>7. CASE OutOfNames(s)
  BY <1>7 DEF OutOfNames, Fails
<1>8. CASE MakesDirectory(s)
  BY <1>8 DEF MakesDirectory, startVars
<1>9. CASE AddsWorktree(s)
  BY <1>9 DEF AddsWorktree, startVars
<1>10. CASE WorktreeFails(s)
  BY <1>10 DEF WorktreeFails, Fails
<1>11. CASE ReadsRow(s)
  BY <1>11 DEF ReadsRow, startVars
<1>12. CASE Inserts(s)
  BY <1>12 DEF Inserts, Claims, startVars
<1>13. CASE Recycles(s)
  BY <1>13 DEF Recycles, Claims, startVars
<1>14. CASE FindsTaken(s)
  BY <1>14 DEF FindsTaken, startVars
<1>15. CASE Collides(s)
  BY <1>15 DEF Collides, Fails, Retries
<1>16. CASE checkoutBranchSafe(s)
  BY <1>16 DEF checkoutBranchSafe, startVars
<1>17. CASE DirectoryMissing(s)
  BY <1>17 DEF DirectoryMissing, Fails
<1>18. CASE runExecution(s)
  BY <1>18 DEF runExecution, startVars
<1>19. CASE ExecutionFails(s)
  BY <1>19 DEF ExecutionFails, startVars
<1>20. CASE UndoesDirectory(s)
  BY <1>20 DEF UndoesDirectory, startVars
<1>21. CASE UndoesRow(s)
  BY <1>21 DEF UndoesRow, startVars
<1>22. CASE UndoesContainer(s)
  BY <1>22 DEF UndoesContainer, Ends, startVars
<1>23. CASE ResumesWorktree(s)
  BY <1>23 DEF ResumesWorktree, startVars
<1>24. CASE LeavesEarly(s)
  BY <1>24 DEF LeavesEarly, Fails
<1> QED BY <1>2, <1>3, <1>4, <1>5, <1>6, <1>7, <1>8, <1>9, <1>10, <1>11, <1>12, <1>13, <1>14, <1>15, <1>16, <1>17, <1>18, <1>19, <1>20, <1>21, <1>22, <1>23, <1>24 DEF StartStep

(* RowTaken lasts, and of the inserted names none comes to another start.   *)
LEMMA OthersStep ==
    ASSUME TypeOK, NEW p \in Commands, Alone(p), NEW t \in Starts, t # p
    PROVE  /\ agent'[t] = agent[t] /\ (Came(t) => Came(t)')
           /\ (Began(t) => Began(t)')
           /\ Inserted(t)' => Inserted(t)
           /\ \A n \in Name : TakenBy(t, n) => TakenBy(t, n)'
<1>1. t \in Commands
  BY DEF Commands
<1> QED BY <1>1 DEF Alone, Came, Began, Inserted, TakenBy

(* When no start gets or loses a row, what is kept stays so.                *)
LEMMA QuietStep ==
    ASSUME TypeOK, NameInv,
           \A t \in Starts : Came(t)' /\ Began(t)',
           \A t \in Starts : Inserted(t)' => Inserted(t) /\ agent'[t] = agent[t],
           \A t \in Starts : \A n \in Name : TakenBy(t, n) => TakenBy(t, n)',
           \A t \in Starts : \A n \in Name :
               Inserted(t)' /\ agent[t] = n /\ row'[n] = "none" =>
                   row[n] = "none" \/ RowTaken(n)'
    PROVE  NameInv'
<1>1. ASSUME NEW t \in Starts, Inserted(t)'
      PROVE  Inserted(t) /\ agent'[t] = agent[t] /\ agent[t] \in Name
  <2>1. Inserted(t) /\ agent'[t] = agent[t]
    BY <1>1
  <2> QED BY <2>1 DEF Inserted, TypeOK, Named, DiscoveryPc
<1>2. ASSUME NEW n \in Name, RowTaken(n) PROVE RowTaken(n)'
  BY <1>2 DEF RowTaken
<1>3. ASSUME NEW t \in Starts, NEW n \in Name, Inserted(t), Inserted(t)',
             agent[t] = n
      PROVE  row'[n] # "none" \/ RowTaken(n)'
  <2>1. row[agent[t]] # "none" \/ RowTaken(agent[t])
    BY <1>3 DEF NameInv, RowKept
  <2>2. row[n] # "none" \/ RowTaken(n)
    BY <1>3, <2>1
  <2>3. row'[n] = "none" => row[n] = "none" \/ RowTaken(n)'
    BY <1>3
  <2> QED BY <1>2, <2>2, <2>3
<1>4. ASSUME NEW t \in Starts PROVE RowKept(t)'
  <2>1. CASE Inserted(t)'
    <3>1. PICK n \in Name : Inserted(t) /\ agent'[t] = n /\ agent[t] = n
      BY <1>1, <2>1
    <3>2. row'[n] # "none" \/ RowTaken(n)'
      BY <1>3, <2>1, <3>1
    <3> QED BY <3>1, <3>2 DEF RowKept, RowTaken
  <2>2. CASE ~ Inserted(t)'
    BY <2>2 DEF RowKept
  <2> QED BY <2>1, <2>2
<1>5. ASSUME NEW s \in Starts, NEW t \in Starts, s # t, agent'[s] = agent'[t],
             Inserted(s)', Inserted(t)'
      PROVE  RowTaken(agent[s])'
  <2>1. PICK n \in Name : /\ Inserted(s) /\ agent'[s] = n /\ agent[s] = n
                          /\ Inserted(t) /\ agent[t] = n
    BY <1>1, <1>5
  <2>2. RowTaken(agent[s])
    BY <1>5, <2>1 DEF NameInv, InsertedNameIsExclusive
  <2>3. RowTaken(n)'
    BY <1>2, <2>1, <2>2
  <2> QED BY <2>1, <2>3 DEF RowTaken
<1> QED BY <1>4, <1>5 DEF NameInv, InsertedNameIsExclusive

LEMMA InsertsStep ==
    ASSUME TypeOK, NameInv, NEW s \in Starts, Inserts(s), Alone(s),
           \A t \in Starts : Came(t)' /\ Began(t)',
           \A t \in Starts : \A n \in Name : TakenBy(t, n) => TakenBy(t, n)'
    PROVE  NameInv'
<1>1. /\ agent[s] \in Name /\ UNCHANGED agent
      /\ row[agent[s]] = "none" /\ row'[agent[s]] = "active"
      /\ \A n \in Name : n # agent[s] => row'[n] = row[n]
  BY DEF Inserts, Claims, Set, TypeOK, DiskOK, Named, DiscoveryPc
<1>2. ASSUME NEW t \in Starts, t # s, Inserted(t)'
      PROVE  Inserted(t) /\ agent[t] \in Name
  <2>1. Inserted(t)
    BY <1>2, OthersStep DEF Commands
  <2> QED BY <2>1 DEF Inserted, TypeOK, Named, DiscoveryPc
<1>3. ASSUME NEW n \in Name, RowTaken(n) PROVE RowTaken(n)'
  BY <1>3 DEF RowTaken
<1>4. ASSUME NEW t \in Starts, t # s, NEW n \in Name, agent[t] = n, Inserted(t)'
      PROVE  row[n] # "none" \/ RowTaken(n)
  <2>1. RowKept(t) /\ Inserted(t)
    BY <1>2, <1>4 DEF NameInv
  <2> QED BY <1>4, <2>1 DEF RowKept
<1>5. ASSUME NEW t \in Starts PROVE RowKept(t)'
  <2>1. CASE t = s
    BY <1>1, <2>1 DEF RowKept
  <2>2. CASE t # s /\ Inserted(t)'
    <3>1. PICK n \in Name : agent[t] = n
      BY <1>2, <2>2
    <3>2. row'[n] # "none" \/ RowTaken(n)'
      BY <1>1, <1>3, <1>4, <2>2, <3>1
    <3> QED BY <1>1, <3>1, <3>2 DEF RowKept, RowTaken
  <2>3. CASE ~ Inserted(t)'
    BY <2>3 DEF RowKept
  <2> QED BY <2>1, <2>2, <2>3
<1>6. ASSUME NEW t \in Starts, NEW u \in Starts, t # u, u # s, agent[t] = agent[u],
             Inserted(t)', Inserted(u)', NEW n \in Name, agent[u] = n
      PROVE  RowTaken(n)'
  <2>1. CASE t = s
    BY <1>1, <1>3, <1>4, <1>6, <2>1
  <2>2. CASE t # s
    <3>1. Inserted(t) /\ Inserted(u)
      BY <1>2, <1>6, <2>2
    <3>2. RowTaken(agent[t])
      BY <1>6, <3>1 DEF NameInv, InsertedNameIsExclusive
    <3> QED BY <1>3, <1>6, <3>2
  <2> QED BY <2>1, <2>2
<1>7. ASSUME NEW t \in Starts, NEW u \in Starts, t # u, agent[t] = agent[u],
             Inserted(t)', Inserted(u)'
      PROVE  RowTaken(agent[t])'
  <2>1. PICK n \in Name : agent[t] = n /\ agent[u] = n
    BY <1>2, <1>7
  <2>2. RowTaken(n)'
    <3>1. CASE u # s
      BY <1>6, <1>7, <2>1, <3>1
    <3>2. CASE t # s
      BY <1>6, <1>7, <2>1, <3>2
    <3> QED BY <1>7, <3>1, <3>2
  <2> QED BY <1>1, <2>1, <2>2 DEF RowTaken
<1>8. ASSUME NEW t \in Starts, NEW u \in Starts, t # u, agent'[t] = agent'[u],
             Inserted(t)', Inserted(u)'
      PROVE  RowTaken(agent[t])'
  BY <1>1, <1>7, <1>8
<1> QED BY <1>5, <1>8 DEF NameInv, InsertedNameIsExclusive

LEMMA NameNext == TypeOK /\ NameInv /\ [Next]_vars => NameInv'
<1> SUFFICES ASSUME TypeOK, NameInv, [Next]_vars PROVE NameInv'
  OBVIOUS
<1>1. \A t \in Starts : Came(t) /\ Began(t)
  BY DEF NameInv
<1>2. ASSUME NEW s \in Starts, StartStep(s) PROVE NameInv'
  <2>1. s \in Commands /\ Alone(s) /\ Rows(s)
    BY <1>2, StartFrame DEF Commands
  <2>2. ASSUME NEW t \in Starts
        PROVE  /\ Came(t)' /\ Began(t)'
               /\ \A n \in Name : TakenBy(t, n) => TakenBy(t, n)'
    <3>1. CASE t = s
      BY <1>1, <1>2, <3>1, OwnStep
    <3>2. CASE t # s
      BY <1>1, <2>1, <3>2, OthersStep
    <3> QED BY <3>1, <3>2
  <2>3. CASE Inserts(s)
    BY <2>1, <2>2, <2>3, InsertsStep
  <2>4. CASE ~ Inserts(s)
    <3>1. ASSUME NEW t \in Starts, Inserted(t)'
          PROVE  Inserted(t) /\ agent'[t] = agent[t]
      <4>1. CASE t = s
        BY <1>1, <1>2, <2>4, <3>1, <4>1, OwnStep
      <4>2. CASE t # s
        BY <2>1, <3>1, <4>2, OthersStep
      <4> QED BY <4>1, <4>2
    <3>2. ASSUME NEW n \in Name, row'[n] = "none", row[n] # "none"
          PROVE  n = agent[s] /\ UndoesRow(s)
      BY <1>1, <1>2, <2>1, <3>2, OwnStep DEF Rows
    <3>3. ASSUME NEW t \in Starts, NEW n \in Name,
                 Inserted(t)', agent[t] = n, row'[n] = "none", row[n] # "none"
          PROVE  RowTaken(n)'
      <4>1. n = agent[s] /\ UndoesRow(s) /\ Inserted(t)
        BY <3>1, <3>2, <3>3
      <4>2. /\ pc[s] = "undo row" /\ pc'[s] = "undo container"
            /\ agent'[s] = n /\ how'[s] = how[s]
        BY <2>1, <4>1 DEF UndoesRow, Goes, TypeOK, PcOK, startVars
      <4>3. CASE how[s] \in {"recycled", "reused"}
        BY <4>2, <4>3 DEF RowTaken, TakenBy
      <4>4. CASE how[s] = "inserted"
        <5>1. Inserted(s) /\ ~ Inserted(s)'
          BY <4>2, <4>4 DEF Inserted
        <5>2. t # s
          BY <3>3, <5>1
        <5>3. RowTaken(agent[s])
          BY <3>3, <4>1, <5>1, <5>2 DEF NameInv, InsertedNameIsExclusive
        <5>4. RowTaken(n)
          BY <4>1, <5>3
        <5> QED BY <2>2, <5>4 DEF RowTaken
      <4>5. how[s] \in {"inserted", "recycled", "reused"}
        BY <1>1, <4>2 DEF Came, TypeOK, StartOK
      <4> QED BY <4>3, <4>4, <4>5
    <3> QED BY <2>2, <3>1, <3>3, QuietStep
  <2> QED BY <2>3, <2>4
<1>3. ASSUME NEW c \in Cleaners, CleanStep(c) PROVE NameInv'
  <2>1. c \in Commands /\ c \notin Starts /\ Alone(c) /\ Rows(c)
    BY <1>3, CleanFrame, ConstantsAssumption DEF Commands
  <2>2. pc[c] # "undo row"
    BY DEF TypeOK, PcOK, CleanPc, DiscoveryPc
  <2>3. \A n \in Name : row'[n] = "none" => row[n] = "none"
    BY <2>1, <2>2 DEF Rows
  <2>4. ASSUME NEW t \in Starts
        PROVE  /\ Came(t)' /\ Began(t)'
               /\ Inserted(t)' => Inserted(t) /\ agent'[t] = agent[t]
               /\ \A n \in Name : TakenBy(t, n) => TakenBy(t, n)'
    BY <1>1, <2>1, OthersStep
  <2> QED BY <2>3, <2>4, QuietStep
<1>4. ASSUME NEW s \in Starts, AgentStep(s) PROVE NameInv'
  <2>1. /\ UNCHANGED <<row, pc, agent, how>>
        /\ \A t \in Starts : session'[t] # "none" => session[t] # "none"
    BY <1>4, AgentFrame
  <2>2. ASSUME NEW t \in Starts
        PROVE  /\ Came(t)' /\ Began(t)'
               /\ Inserted(t)' => Inserted(t) /\ agent'[t] = agent[t]
               /\ \A n \in Name : TakenBy(t, n) => TakenBy(t, n)'
    BY <1>1, <2>1 DEF Came, Began, Inserted, TakenBy
  <2> QED BY <2>1, <2>2, QuietStep
<1>5. CASE UNCHANGED vars
  <2>1. UNCHANGED <<row, pc, agent, how, session>>
    BY <1>5 DEF vars, startVars
  <2>2. ASSUME NEW t \in Starts
        PROVE  /\ Came(t)' /\ Began(t)'
               /\ Inserted(t)' => Inserted(t) /\ agent'[t] = agent[t]
               /\ \A n \in Name : TakenBy(t, n) => TakenBy(t, n)'
    BY <1>1, <2>1 DEF Came, Began, Inserted, TakenBy
  <2> QED BY <2>1, <2>2, QuietStep
<1> QED BY <1>2, <1>3, <1>4, <1>5 DEF Next

(* A name that one start inserted is not inserted by another while the      *)
(* first has it, unless a start that came to it otherwise took it away.     *)
THEOREM InsertedOnce == Spec => []InsertedNameIsExclusive
<1>1. Init => NameInv
  BY DEF Init, NameInv, Came, Began, RowKept, Inserted, InsertedNameIsExclusive,
     Commands
<1>2. NameInv => InsertedNameIsExclusive
  BY DEF NameInv
<1> QED BY <1>1, <1>2, InitTypeOK, NextTypes, NameNext, PTL DEF Spec
===============================================================================
