--------------------------- MODULE MergeQueueProofs ---------------------------
(***************************************************************************)
(* Proofs about MergeQueue, for every number of pull requests, checks,      *)
(* operators, pushes, failures and crashes.                                *)
(***************************************************************************)
EXTENDS AutoMerge, SequenceTheorems, TLAPS

(***************************************************************************)
(* What the helpers return.                                                *)
(***************************************************************************)

(* The list of ejections stays within its limit. *)
LEMMA EjectedTypes ==
    ASSUME NEW s, StateOK(s), NEW p \in PR
    PROVE  /\ StateOK(ejectPR(s, p))
           /\ ejectPR(s, p).current = s.current
<1> DEFINE e == s.ejected
           long == <<p>> \o e
           n == IF Len(e) < MaxEjected THEN Len(e) + 1 ELSE MaxEjected
           cut == SubSeq(long, 1, n)
<1>1. s \in State /\ e \in Seq(PR) /\ Len(e) \in Nat /\ Len(e) <= MaxEjected
  BY DEF StateOK, State
<1>2. MaxEjected \in Nat
  BY ConstantsAssumption
<1>3. n \in Nat /\ n <= Len(e) + 1 /\ n <= MaxEjected
  BY <1>1, <1>2
<1>4. long \in Seq(PR) /\ Len(long) = Len(e) + 1
  BY <1>1
<1>5. cut \in Seq(PR) /\ Len(cut) = n
  BY <1>3, <1>4, SMT
<1>6. ejectPR(s, p) = [s EXCEPT !.ejected = cut]
  BY DEF ejectPR
<1> HIDE DEF cut, n, long, e
<1>7. ejectPR(s, p) \in State
  BY <1>1, <1>5, <1>6 DEF State
<1>8. ejectPR(s, p).ejected = cut /\ ejectPR(s, p).current = s.current
  BY <1>1, <1>6 DEF State
<1> QED BY <1>3, <1>5, <1>7, <1>8 DEF StateOK

LEMMA DefaultTypes ==
    StateOK(getDefaultState) /\ getDefaultState.current = NoPR
<1>1. getDefaultState \in State
  BY DEF getDefaultState, State
<1>2. Len(getDefaultState.ejected) = 0 /\ MaxEjected \in Nat
  BY ConstantsAssumption DEF getDefaultState
<1> QED BY <1>1, <1>2 DEF StateOK, getDefaultState

LEMMA ReadTypes ==
    ASSUME FileOK
    PROVE  StateOK(getMergeQueueState)
BY DefaultTypes DEF FileOK, getMergeQueueState

LEMMA CurrentSetTypes ==
    ASSUME NEW s, StateOK(s), NEW p \in PR \cup {NoPR}
    PROVE  /\ StateOK([s EXCEPT !.current = p])
           /\ [s EXCEPT !.current = p].current = p
BY DEF StateOK, State

LEMMA LastSetTypes ==
    ASSUME NEW s, StateOK(s), NEW p \in PR \cup {NoPR}
    PROVE  StateOK([s EXCEPT !.current = NoPR, !.lastMerged = p])
BY DEF StateOK, State

LEMMA FlagSetTypes ==
    ASSUME NEW s, StateOK(s), NEW flag \in BOOLEAN
    PROVE  /\ StateOK([s EXCEPT !.paused = flag])
           /\ [s EXCEPT !.paused = flag].current = s.current
BY DEF StateOK, State

LEMMA MergedTypes ==
    ASSUME pr \in [PR -> PullRequest], NEW p \in PR, NEW S
    PROVE  /\ MergedOnGitHub(p, S) \in [PR -> PullRequest]
           /\ \A q \in PR : /\ MergedOnGitHub(p, S)[q].ci = pr[q].ci
                            /\ MergedOnGitHub(p, S)[q].head = pr[q].head
<1> DEFINE m == MergedOnGitHub(p, S)
<1>1. ASSUME NEW q \in PR
      PROVE  m[q] \in PullRequest /\ m[q].ci = pr[q].ci /\ m[q].head = pr[q].head
  <2>1. pr[q] \in PullRequest /\ (pr[q].conflict \/ q \in S) \in BOOLEAN
    BY DEF PullRequest
  <2> QED BY <2>1 DEF MergedOnGitHub, PullRequest
<1>2. m = [q \in PR |-> m[q]]
  BY DEF MergedOnGitHub
<1> QED BY <1>1, <1>2

LEMMA UpdatedTypes ==
    ASSUME pr \in [PR -> PullRequest], NEW p \in PR
    PROVE  /\ BranchUpdated(p) \in [PR -> PullRequest]
           /\ \A q \in PR : \/ BranchUpdated(p)[q] = pr[q]
                            \/ /\ BranchUpdated(p)[q].head = pr[q].head + 1
                               /\ BranchUpdated(p)[q].ci = NoChecks
<1>1. NoChecks \in [Check -> CI]
  BY DEF NoChecks, CI
<1>2. pr[p] \in PullRequest /\ pr[p].head + 1 \in Nat \ {0}
  BY DEF PullRequest
<1>3. CASE pr[p].behind /\ pr[p].state = "OPEN"
  <2> DEFINE r == [pr[p] EXCEPT !.head = @ + 1, !.ci = NoChecks, !.behind = FALSE]
  <2>1. r \in PullRequest /\ r.head = pr[p].head + 1 /\ r.ci = NoChecks
    BY <1>1, <1>2 DEF PullRequest
  <2>2. BranchUpdated(p) = [pr EXCEPT ![p] = r]
    BY <1>3 DEF BranchUpdated
  <2> HIDE DEF r
  <2> QED BY <2>1, <2>2
<1>4. CASE ~ (pr[p].behind /\ pr[p].state = "OPEN")
  BY <1>4 DEF BranchUpdated
<1> QED BY <1>3, <1>4

(***************************************************************************)
(* Type correctness.                                                       *)
(***************************************************************************)

LEMMA GoesTypes ==
    ASSUME NEW step \in DaemonSteps, NEW s, StateOK(s), NEW todo \in SUBSET PR,
           Goto(step, s, todo),
           step \in {"lookup", "checks", "merge", "recheck"} => s.current \in PR
    PROVE  DaemonOK'
<1>1. s \in State
  BY DEF StateOK
<1>2. daemon' = [pc |-> step, state |-> s, todo |-> todo]
  BY DEF Goto
<1> QED BY <1>1, <1>2 DEF DaemonOK, AtCurrent, At, Current, StateOK, State

(* The daemon's own state is one it may go on with. *)
LEMMA DaemonFacts ==
    ASSUME DaemonOK
    PROVE  /\ StateOK(daemon.state) /\ daemon.todo \in SUBSET PR
           /\ Current \in PR \cup {NoPR}
           /\ AtCurrent => Current \in PR
<1>1. daemon.state \in State /\ daemon.todo \in SUBSET PR
  BY DEF DaemonOK
<1> QED BY <1>1 DEF DaemonOK, Current, State

LEMMA CycleTypes ==
    ASSUME TypeOK, runMergeQueueCycle
    PROVE  TypeOK'
<1> USE DEF AtCurrent, At
<1>1. FileOK /\ DaemonOK /\ OpsOK /\ BoundsOK /\ HistoryOK
      /\ pr \in [PR -> PullRequest]
  BY DEF TypeOK
<1>2. /\ StateOK(daemon.state) /\ daemon.todo \in SUBSET PR
      /\ Current \in PR \cup {NoPR}
      /\ AtCurrent => Current \in PR
  BY <1>1, DaemonFacts
<1>3. ASSUME UNCHANGED ops PROVE OpsOK'
  BY <1>1, <1>3 DEF OpsOK
<1>4. ASSUME UNCHANGED bounds \/ GhFails PROVE BoundsOK'
  BY <1>1, <1>4, ConstantsAssumption DEF BoundsOK, bounds, GhFails
<1>5. ASSUME UNCHANGED history PROVE HistoryOK'
  BY <1>1, <1>5 DEF HistoryOK, history
<1>6. ASSUME UNCHANGED file PROVE FileOK'
  BY <1>1, <1>6 DEF FileOK
<1>7. ASSUME NEW s, StateOK(s), NEW step \in {"build", "rebase", "list",
                                              "siblings", "save", "write", "idle"},
             NEW todo \in SUBSET PR, Goto(step, s, todo)
      PROVE  DaemonOK'
  BY <1>7, GoesTypes DEF DaemonSteps
<1>8. ASSUME NEW step \in {"lookup", "checks", "merge", "recheck"},
             AtCurrent, Goto(step, daemon.state, {})
      PROVE  DaemonOK'
  <2>1. daemon.state.current \in PR
    BY <1>2, <1>8 DEF Current
  <2> QED BY <1>2, <1>8, <2>1, GoesTypes DEF DaemonSteps
<1>9. buildMergeQueue \subseteq PR /\ Open \subseteq PR /\ NoPR \in PR \cup {NoPR}
  BY DEF buildMergeQueue, Open
<1>10. ASSUME CycleStarts PROVE TypeOK'
  <2> DEFINE s == getMergeQueueState
  <2>1. StateOK(s)
    BY <1>1, ReadTypes
  <2> HIDE DEF s
  <2>2. s \in State
    BY <2>1 DEF StateOK
  <2>3. DaemonOK'
    <3>1. CASE s.paused
      <4>1. Goto("save", s, {})
        BY <1>10, <3>1 DEF CycleStarts, s
      <4> QED BY <4>1, <2>1, <1>7
    <3>2. CASE ~ s.paused /\ s.current # NoPR
      <4>1. Goto("lookup", s, {})
        BY <1>10, <3>2 DEF CycleStarts, s
      <4>2. s.current \in PR
        BY <3>2, <2>2 DEF State
      <4> QED BY <4>1, <4>2, <2>1, GoesTypes DEF DaemonSteps
    <3>3. CASE ~ s.paused /\ s.current = NoPR
      <4>1. Goto("build", s, {})
        BY <1>10, <3>3 DEF CycleStarts, s
      <4> QED BY <4>1, <2>1, <1>7
    <3> QED BY <3>1, <3>2, <3>3
  <2>4. HistoryOK'
    BY <1>1, <1>10 DEF CycleStarts, HistoryOK
  <2> QED BY <1>1, <1>3, <1>4, <1>6, <1>10, <2>3, <2>4 DEF CycleStarts, TypeOK
<1>11. ASSUME CycleBuilds PROVE TypeOK'
  <2>1. PICK listed \in SUBSET buildMergeQueue :
           /\ Goto(IF listed = {} THEN "save" ELSE "rebase", daemon.state, listed)
           /\ UNCHANGED bounds \/ GhFails
    BY <1>11 DEF CycleBuilds
  <2>2. DaemonOK'
    BY <2>1, <1>2, <1>7, <1>9
  <2> QED BY <1>1, <1>3, <1>4, <1>5, <1>6, <1>11, <2>1, <2>2 DEF CycleBuilds, TypeOK
<1>12. ASSUME NEW p \in PR, CycleRebases(p) PROVE TypeOK'
  <2>1. DaemonOK'
    BY <1>2, <1>7, <1>12, CurrentSetTypes DEF CycleRebases
  <2>2. pr' \in [PR -> PullRequest]
    BY <1>1, <1>12, UpdatedTypes DEF CycleRebases
  <2>3. HistoryOK'
    BY <1>1, <1>12 DEF CycleRebases, HistoryOK
  <2> QED BY <1>3, <1>4, <1>6, <1>12, <2>1, <2>2, <2>3 DEF CycleRebases, TypeOK
<1>13. ASSUME NEW p \in PR, CycleCannotRebase(p) PROVE TypeOK'
  <2>1. DaemonOK'
    BY <1>2, <1>7, <1>13, EjectedTypes DEF CycleCannotRebase
  <2>2. HistoryOK' /\ BoundsOK'
    <3>1. UNCHANGED bounds \/ GhFails
      BY <1>13 DEF CycleCannotRebase
    <3> QED BY <1>1, <1>4, <1>13, <3>1 DEF CycleCannotRebase, HistoryOK
  <2> QED BY <1>1, <1>3, <1>6, <1>13, <2>1, <2>2 DEF CycleCannotRebase, TypeOK
<1>14. ASSUME LookupOpen PROVE TypeOK'
  <2>1. DaemonOK'
    BY <1>8, <1>14 DEF LookupOpen
  <2> QED BY <1>1, <1>3, <1>4, <1>5, <1>6, <1>14, <2>1 DEF LookupOpen, TypeOK
<1>15. ASSUME LookupDone PROVE TypeOK'
  <2> DEFINE last == IF pr[Current].state = "MERGED" THEN Current
                     ELSE daemon.state.lastMerged
  <2>1. last \in PR \cup {NoPR}
    BY <1>2 DEF StateOK, State
  <2>2. Goto("save", [daemon.state EXCEPT !.current = NoPR, !.lastMerged = last], {})
    <3>1. Goto("save",
            [daemon.state EXCEPT
               !.current = NoPR,
               !.lastMerged = IF pr[Current].state = "MERGED" THEN Current
                                                              ELSE @], {})
      BY <1>15 DEF LookupDone
    <3>2. daemon.state \in State
      BY <1>2 DEF StateOK
    <3> QED BY <3>1, <3>2 DEF State, Goto
  <2> HIDE DEF last
  <2>3. StateOK([daemon.state EXCEPT !.current = NoPR, !.lastMerged = last])
    BY <1>2, <2>1, LastSetTypes
  <2>4. DaemonOK'
    BY <1>7, <2>2, <2>3
  <2> QED BY <1>1, <1>3, <1>4, <1>5, <1>6, <1>15, <2>4 DEF LookupDone, TypeOK
<1>16. ASSUME LookupFails PROVE TypeOK'
  <2>1. DaemonOK'
    BY <1>2, <1>7, <1>9, <1>16, CurrentSetTypes DEF LookupFails
  <2>2. HistoryOK'
    BY <1>1, <1>16 DEF LookupFails, HistoryOK
  <2> QED BY <1>1, <1>3, <1>4, <1>6, <1>16, <2>1, <2>2 DEF LookupFails, TypeOK
<1>17. ASSUME ChecksRead PROVE TypeOK'
  <2>2. PICK p \in PR : p = Current
    BY <1>2, <1>17 DEF ChecksRead
  <2>3. DaemonOK'
    <3>1. \/ Goto("save", daemon.state, {})
          \/ Goto("save", [ejectPR(daemon.state, p) EXCEPT !.current = NoPR], {})
          \/ Goto("merge", daemon.state, {})
      BY <1>17, <2>2 DEF ChecksRead
    <3>2. CASE Goto("save", daemon.state, {})
      BY <1>2, <1>7, <3>2
    <3>3. CASE Goto("save", [ejectPR(daemon.state, p) EXCEPT !.current = NoPR], {})
      <4>1. StateOK([ejectPR(daemon.state, p) EXCEPT !.current = NoPR])
        BY <1>2, <1>9, EjectedTypes, CurrentSetTypes
      <4> QED BY <1>7, <3>3, <4>1
    <3>4. CASE Goto("merge", daemon.state, {})
      BY <1>8, <1>17, <3>4 DEF ChecksRead
    <3> QED BY <3>1, <3>2, <3>3, <3>4
  <2>4. HistoryOK'
    <3> DEFINE read == [head |-> pr[p].head, checks |-> getPRChecks(p)]
    <3>1. read \in [head : Nat, checks : SUBSET Check]
      BY <1>1, <2>2 DEF PullRequest, getPRChecks
    <3>2. tested' = [tested EXCEPT ![p] = read]
      BY <1>17, <2>2 DEF ChecksRead
    <3> HIDE DEF read
    <3> QED BY <1>1, <1>17, <3>1, <3>2 DEF ChecksRead, HistoryOK
  <2> QED BY <1>1, <1>3, <1>4, <1>6, <1>17, <2>3, <2>4 DEF ChecksRead, TypeOK
<1>18. ASSUME ChecksFail PROVE TypeOK'
  <2>1. DaemonOK'
    BY <1>2, <1>7, <1>18 DEF ChecksFail
  <2> QED BY <1>1, <1>3, <1>4, <1>5, <1>6, <1>18, <2>1 DEF ChecksFail, TypeOK
<1>19. ASSUME CycleMerges PROVE TypeOK'
  <2>1. PICK p \in PR : p = Current
    BY <1>2, <1>19 DEF CycleMerges
  <2>2. DaemonOK'
    <3>1. StateOK([daemon.state EXCEPT !.current = NoPR, !.lastMerged = p])
      BY <1>2, LastSetTypes
    <3>2. CASE Goto("recheck", daemon.state, {})
      BY <1>8, <1>19, <3>2 DEF CycleMerges
    <3>3. CASE Goto("list",
                [daemon.state EXCEPT !.current = NoPR, !.lastMerged = p], {})
      BY <1>7, <3>1, <3>3
    <3> QED BY <1>19, <2>1, <3>2, <3>3 DEF CycleMerges
  <2>3. pr' \in [PR -> PullRequest]
    BY <1>1, <1>19, <2>1, MergedTypes DEF CycleMerges
  <2>4. HistoryOK'
    BY <1>1, <1>19, <2>1 DEF CycleMerges, HistoryOK
  <2> QED BY <1>3, <1>4, <1>6, <1>19, <2>2, <2>3, <2>4 DEF CycleMerges, TypeOK
<1>20. ASSUME CycleCannotMerge PROVE TypeOK'
  <2>1. DaemonOK'
    BY <1>8, <1>20 DEF CycleCannotMerge
  <2>2. UNCHANGED bounds \/ GhFails
    BY <1>20 DEF CycleCannotMerge
  <2> QED BY <1>1, <1>3, <1>4, <1>5, <1>6, <1>20, <2>1, <2>2
          DEF CycleCannotMerge, TypeOK
<1>21. ASSUME RecheckMerged PROVE TypeOK'
  <2>1. Current \in PR
    BY <1>2, <1>21 DEF RecheckMerged
  <2>2. StateOK([daemon.state EXCEPT !.current = NoPR, !.lastMerged = Current])
    BY <1>2, <2>1, LastSetTypes
  <2>3. DaemonOK'
    BY <1>7, <1>21, <2>2 DEF RecheckMerged
  <2> QED BY <1>1, <1>3, <1>4, <1>5, <1>6, <1>21, <2>3 DEF RecheckMerged, TypeOK
<1>22. ASSUME RecheckEjects PROVE TypeOK'
  <2>1. Current \in PR
    BY <1>2, <1>22 DEF RecheckEjects
  <2>2. StateOK([ejectPR(daemon.state, Current) EXCEPT !.current = NoPR])
    BY <1>2, <1>9, <2>1, EjectedTypes, CurrentSetTypes
  <2>3. DaemonOK'
    BY <1>7, <1>22, <2>2 DEF RecheckEjects
  <2>4. HistoryOK'
    BY <1>1, <1>22 DEF RecheckEjects, HistoryOK
  <2>5. BoundsOK'
    BY <1>4, <1>22 DEF RecheckEjects
  <2> QED BY <1>1, <1>3, <1>6, <1>22, <2>3, <2>4, <2>5 DEF RecheckEjects, TypeOK
<1>23. ASSUME SiblingsListed PROVE TypeOK'
  <2>1. DaemonOK'
    BY <1>2, <1>7, <1>9, <1>23 DEF SiblingsListed
  <2> QED BY <1>1, <1>3, <1>4, <1>5, <1>6, <1>23, <2>1 DEF SiblingsListed, TypeOK
<1>24. ASSUME NEW p \in PR, SiblingVisited(p) PROVE TypeOK'
  <2>1. DaemonOK'
    BY <1>2, <1>7, <1>24 DEF SiblingVisited
  <2>2. pr' \in [PR -> PullRequest]
    <3>1. BranchUpdated(p) \in [PR -> PullRequest]
      BY <1>1, <1>24, UpdatedTypes
    <3>2. [BranchUpdated(p) EXCEPT ![p].conflict = FALSE] \in [PR -> PullRequest]
      BY <3>1 DEF PullRequest
    <3> QED BY <1>1, <1>24, <3>2 DEF SiblingVisited
  <2> QED BY <1>3, <1>4, <1>5, <1>6, <1>24, <2>1, <2>2 DEF SiblingVisited, TypeOK
<1>25. ASSUME CycleTruncates PROVE TypeOK'
  <2>1. DaemonOK' /\ FileOK'
    BY <1>2, <1>7, <1>25 DEF CycleTruncates, FileOK
  <2> QED BY <1>1, <1>3, <1>4, <1>5, <1>25, <2>1 DEF CycleTruncates, TypeOK
<1>26. ASSUME CycleWrites PROVE TypeOK'
  <2>1. DaemonOK' /\ FileOK'
    BY <1>2, <1>7, <1>26, DefaultTypes DEF CycleWrites, FileOK, StateOK
  <2>2. HistoryOK'
    BY <1>1, <1>2, <1>26 DEF CycleWrites, HistoryOK, StateOK, State
  <2> QED BY <1>1, <1>3, <1>4, <1>26, <2>1, <2>2 DEF CycleWrites, TypeOK
<1> QED BY <1>10, <1>11, <1>12, <1>13, <1>14, <1>15, <1>16, <1>17, <1>18, <1>19,
           <1>20, <1>21, <1>22, <1>23, <1>24, <1>25, <1>26
        DEF runMergeQueueCycle, ProcessCurrent, PickNext, Siblings, Save

LEMMA CommandTypes ==
    ASSUME TypeOK, NEW o \in Operators, Command(o)
    PROVE  TypeOK'
<1>1. FileOK /\ DaemonOK /\ OpsOK /\ BoundsOK /\ HistoryOK
      /\ pr \in [PR -> PullRequest]
  BY DEF TypeOK
<1>2. ASSUME UNCHANGED daemon PROVE DaemonOK'
  BY <1>1, <1>2 DEF DaemonOK, AtCurrent, At, Current
<1>3. ASSUME UNCHANGED bounds PROVE BoundsOK'
  BY <1>1, <1>3 DEF BoundsOK, bounds
<1>4. ASSUME NEW flag \in BOOLEAN, CommandChecks(o, flag) PROVE TypeOK'
  <2>1. StateOK([getDefaultState EXCEPT !.paused = flag])
    BY DefaultTypes, FlagSetTypes
  <2>2. ops' = [ops EXCEPT ![o] = [pc |-> "read",
                       state |-> [getDefaultState EXCEPT !.paused = flag]]]
    BY <1>4 DEF CommandChecks
  <2>3. OpsOK'
    BY <1>1, <2>1, <2>2 DEF OpsOK, StateOK
  <2>4. FileOK' /\ HistoryOK'
    BY <1>1, <1>4 DEF CommandChecks, FileOK, HistoryOK, history
  <2> QED BY <1>1, <1>2, <1>3, <1>4, <2>3, <2>4 DEF CommandChecks, TypeOK
<1>7. ASSUME CommandReads(o) PROVE TypeOK'
  <2>5. PICK flag \in BOOLEAN : flag = ops[o].state.paused
    BY <1>1 DEF OpsOK, StateOK, State
  <2>1. StateOK([getMergeQueueState EXCEPT !.paused = flag])
    BY <1>1, ReadTypes, FlagSetTypes
  <2>2. ops' = [ops EXCEPT ![o] = [pc |-> "save",
                       state |-> [getMergeQueueState EXCEPT !.paused = flag]]]
    BY <1>7, <2>5 DEF CommandReads
  <2>3. OpsOK'
    BY <1>1, <2>1, <2>2 DEF OpsOK, StateOK
  <2>4. FileOK' /\ HistoryOK'
    BY <1>1, <1>7 DEF CommandReads, FileOK, HistoryOK
  <2> QED BY <1>1, <1>2, <1>3, <1>7, <2>3, <2>4 DEF CommandReads, TypeOK
<1>5. ASSUME CommandTruncates(o) PROVE TypeOK'
  <2>1. OpsOK'
    BY <1>1, <1>5 DEF CommandTruncates, OpsOK
  <2>2. FileOK' /\ HistoryOK'
    BY <1>1, <1>5 DEF CommandTruncates, FileOK, HistoryOK
  <2> QED BY <1>1, <1>2, <1>3, <1>5, <2>1, <2>2 DEF CommandTruncates, TypeOK
<1>6. ASSUME CommandWrites(o) PROVE TypeOK'
  <2>1. OpsOK'
    BY <1>1, <1>6, DefaultTypes DEF CommandWrites, OpsOK, NoCommand, StateOK
  <2>2. FileOK' /\ HistoryOK'
    BY <1>1, <1>6 DEF CommandWrites, FileOK, HistoryOK, OpsOK
  <2> QED BY <1>1, <1>2, <1>3, <1>6, <2>1, <2>2 DEF CommandWrites, TypeOK
<1> QED BY <1>4, <1>5, <1>6, <1>7 DEF Command

LEMMA GitHubTypes ==
    ASSUME TypeOK, NEW p \in PR, CIStep(p) \/ Push(p) \/ HumanCloses(p)
    PROVE  TypeOK'
<1>1. FileOK /\ DaemonOK /\ OpsOK /\ BoundsOK /\ HistoryOK
      /\ pr \in [PR -> PullRequest]
  BY DEF TypeOK
<1>2. ASSUME UNCHANGED <<file, daemon, ops, history>>
      PROVE  FileOK' /\ DaemonOK' /\ OpsOK' /\ HistoryOK'
  BY <1>1, <1>2 DEF FileOK, DaemonOK, OpsOK, HistoryOK, history, AtCurrent, At,
                    Current
<1>3. ASSUME UNCHANGED bounds PROVE BoundsOK'
  BY <1>1, <1>3 DEF BoundsOK, bounds
<1>4. NoChecks \in [Check -> CI]
  BY DEF NoChecks, CI
<1>5. ASSUME NEW c \in Check, CIStarts(p, c) PROVE TypeOK'
  <2>1. "pending" \in CI
    BY DEF CI
  <2>2. pr' \in [PR -> PullRequest]
    BY <1>1, <1>5, <2>1 DEF CIStarts, PullRequest
  <2> QED BY <1>2, <1>3, <1>5, <2>2 DEF CIStarts, TypeOK
<1>6. ASSUME NEW c \in Check, NEW k \in Conclusions, CheckEnds(p, c, k)
      PROVE  TypeOK'
  <2>1. k \in CI
    BY ConstantsAssumption DEF CI
  <2>2. pr' \in [PR -> PullRequest]
    BY <1>1, <1>6, <2>1 DEF CheckEnds, PullRequest
  <2> QED BY <1>2, <1>3, <1>6, <2>2 DEF CheckEnds, TypeOK
<1>9. ASSUME NEW c \in Check, CheckReruns(p, c) PROVE TypeOK'
  <2>1. "pending" \in CI
    BY DEF CI
  <2>2. pr' \in [PR -> PullRequest]
    BY <1>1, <1>9, <2>1 DEF CheckReruns, PullRequest
  <2>3. BoundsOK'
    BY <1>1, <1>9, ConstantsAssumption DEF CheckReruns, BoundsOK
  <2>4. HistoryOK'
    <3>1. tested[p].checks \ {c} \in SUBSET Check
      BY <1>1 DEF HistoryOK
    <3> QED BY <1>1, <1>9, <3>1 DEF CheckReruns, HistoryOK
  <2>5. FileOK' /\ DaemonOK' /\ OpsOK'
    BY <1>1, <1>9 DEF CheckReruns, FileOK, DaemonOK, OpsOK, AtCurrent, At,
                      Current
  <2> QED BY <2>2, <2>3, <2>4, <2>5 DEF TypeOK
<1>7. ASSUME Push(p) PROVE TypeOK'
  <2>1. pr' \in [PR -> PullRequest]
    <3> DEFINE r == [pr[p] EXCEPT !.head = @ + 1, !.ci = NoChecks,
                                  !.conflict = FALSE]
    <3>1. pr[p] \in PullRequest /\ pr[p].head + 1 \in Nat \ {0}
      BY <1>1 DEF PullRequest
    <3>2. r \in PullRequest
      BY <1>4, <3>1 DEF PullRequest
    <3>3. pr' = [pr EXCEPT ![p] = r]
      BY <1>7 DEF Push
    <3> HIDE DEF r
    <3> QED BY <1>1, <3>2, <3>3
  <2>2. BoundsOK'
    BY <1>1, <1>7, ConstantsAssumption DEF Push, BoundsOK
  <2> QED BY <1>2, <1>7, <2>1, <2>2 DEF Push, TypeOK
<1>8. ASSUME HumanCloses(p) PROVE TypeOK'
  <2>1. [pr EXCEPT ![p].state = "CLOSED"] \in [PR -> PullRequest]
    BY <1>1 DEF PullRequest
  <2>2. pr' \in [PR -> PullRequest]
    BY <1>1, <1>8, <2>1, MergedTypes DEF HumanCloses
  <2> QED BY <1>2, <1>3, <1>8, <2>2 DEF HumanCloses, TypeOK
<1> QED BY <1>5, <1>6, <1>7, <1>8, <1>9 DEF CIStep

LEMMA CrashTypes ==
    ASSUME TypeOK, DaemonCrashes
    PROVE  TypeOK'
<1>1. DaemonOK'
  BY DefaultTypes, GoesTypes DEF DaemonCrashes, DaemonSteps
<1>2. FileOK' /\ OpsOK' /\ HistoryOK'
  BY DEF TypeOK, DaemonCrashes, FileOK, OpsOK, HistoryOK
<1>3. BoundsOK'
  BY ConstantsAssumption DEF TypeOK, DaemonCrashes, BoundsOK
<1> QED BY <1>1, <1>2, <1>3 DEF TypeOK, DaemonCrashes

LEMMA StutterTypes ==
    ASSUME TypeOK, UNCHANGED vars
    PROVE  TypeOK'
BY DEF TypeOK, vars, bounds, history, FileOK, DaemonOK, OpsOK, BoundsOK, HistoryOK,
       AtCurrent, At, Current

LEMMA InitTypes ==
    ASSUME NEW runs \in BOOLEAN, NEW open \in SUBSET PR, InitFrom(runs, open)
    PROVE  TypeOK
<1>1. StateOK(getDefaultState) /\ getDefaultState \in State
  BY DefaultTypes DEF StateOK
<1>2. FileOK /\ DaemonOK
  BY <1>1 DEF InitFrom, Beginning, FileOK, DaemonOK, DaemonSteps, AtCurrent, At, Current, Goto
<1>3. OpsOK
  BY <1>1 DEF InitFrom, Beginning, OpsOK, NoCommand
<1>4. BoundsOK /\ HistoryOK
  BY ConstantsAssumption DEF InitFrom, Beginning, BoundsOK, HistoryOK
<1>5. NoChecks \in [Check -> CI]
  BY DEF NoChecks, CI
<1>6. pr \in [PR -> PullRequest]
  BY <1>5 DEF InitFrom, Beginning, PullRequest
<1> QED BY <1>2, <1>3, <1>4, <1>6 DEF TypeOK

LEMMA NextTypes ==
    ASSUME TypeOK, [Next]_vars
    PROVE  TypeOK'
BY CycleTypes, CommandTypes, GitHubTypes, CrashTypes, StutterTypes
   DEF Next, GitHub

(* Every reachable state is typed: the state file parses or is torn, the    *)
(* list of ejections is never longer than its limit, and a cycle that asks  *)
(* GitHub about the current pull request has one (merge-queue.ts:38-495).   *)
THEOREM TypeCorrect == Spec => []TypeOK
<1>1. Init => TypeOK
  BY InitTypes DEF Init
<1>2. TypeOK /\ [Next]_vars => TypeOK'
  BY NextTypes
<1> QED BY <1>1, <1>2, PTL DEF Spec

(***************************************************************************)
(* Only rebased pull requests are merged.  A pull request reaches `merge'   *)
(* through the current field of a state, and states travel between the      *)
(* file, the daemon and the commands: the invariant is about all of them.   *)
(***************************************************************************)

Taken == rebased \cup {NoPR}

OnlyRebased ==
    /\ merged \subseteq rebased
    /\ file # Torn => file.current \in Taken
    /\ daemon.state.current \in Taken
    /\ \A o \in Operators : ops[o].state.current \in Taken

LEMMA GoesRebased ==
    ASSUME OnlyRebased, NEW step, NEW s, NEW todo, Goto(step, s, todo),
           UNCHANGED <<file, ops, merged>>, rebased \subseteq rebased',
           s.current \in Taken'
    PROVE  OnlyRebased'
<1>1. daemon'.state = s
  BY DEF Goto
<1>2. Taken \subseteq Taken'
  BY DEF Taken
<1> QED BY <1>1, <1>2 DEF OnlyRebased

LEMMA CycleRebased ==
    ASSUME TypeOK, OnlyRebased, runMergeQueueCycle
    PROVE  OnlyRebased'
<1>1. DaemonOK /\ StateOK(daemon.state) /\ Current \in PR \cup {NoPR}
      /\ (AtCurrent => Current \in PR)
  BY DaemonFacts DEF TypeOK
<1>2. NoPR \in Taken /\ daemon.state.current \in Taken
  BY DEF Taken, OnlyRebased
<1>3. NoPR \in Taken'
  BY DEF Taken
<1>4. ASSUME UNCHANGED <<file, ops, merged, rebased>>, NEW step, NEW todo, NEW s,
             Goto(step, s, todo), s.current \in {NoPR, daemon.state.current}
      PROVE  OnlyRebased'
  BY <1>2, <1>4, GoesRebased DEF Taken
<1>5. ASSUME NEW p \in PR
      PROVE  /\ ejectPR(daemon.state, p).current = daemon.state.current
             /\ [ejectPR(daemon.state, p) EXCEPT !.current = NoPR].current = NoPR
  BY <1>1, EjectedTypes, CurrentSetTypes
<1>6. [daemon.state EXCEPT !.current = NoPR].current = NoPR
  BY <1>1, CurrentSetTypes
<1>7. ASSUME NEW l
      PROVE  [daemon.state EXCEPT !.current = NoPR, !.lastMerged = l].current = NoPR
  BY <1>1 DEF StateOK, State
<1>10. CASE CycleStarts
  <2>1. getMergeQueueState.current \in Taken
    BY DefaultTypes DEF getMergeQueueState, OnlyRebased, Taken
  <2>2. getMergeQueueState.current \in Taken'
    BY <1>10, <2>1 DEF CycleStarts, Taken
  <2>3. PICK step : Goto(step, getMergeQueueState, {})
    BY <1>10 DEF CycleStarts
  <2> QED BY <1>10, <2>2, <2>3, GoesRebased DEF CycleStarts
<1>11. CASE CycleBuilds
  BY <1>4, <1>11 DEF CycleBuilds, history
<1>12. ASSUME NEW p \in PR, CycleRebases(p) PROVE OnlyRebased'
  <2>1. [daemon.state EXCEPT !.current = p].current = p
    BY <1>1, CurrentSetTypes
  <2>2. p \in Taken' /\ rebased \subseteq rebased'
    BY <1>12 DEF CycleRebases, Taken
  <2> QED BY <1>12, <2>1, <2>2, GoesRebased DEF CycleRebases
<1>13. ASSUME NEW p \in PR, CycleCannotRebase(p) PROVE OnlyRebased'
  BY <1>4, <1>5, <1>13 DEF CycleCannotRebase
<1>14. CASE LookupOpen
  BY <1>4, <1>14 DEF LookupOpen, history
<1>15. CASE LookupDone
  <2>1. PICK l : Goto("save", [daemon.state EXCEPT !.current = NoPR,
                                                   !.lastMerged = l], {})
    <3> DEFINE last == IF pr[Current].state = "MERGED" THEN Current
                       ELSE daemon.state.lastMerged
    <3>1. daemon.state \in State
      BY <1>1 DEF StateOK
    <3>2. Goto("save", [daemon.state EXCEPT !.current = NoPR,
                                            !.lastMerged = last], {})
      BY <1>15, <3>1 DEF LookupDone, State, Goto
    <3> QED BY <3>2
  <2> QED BY <1>4, <1>7, <1>15, <2>1 DEF LookupDone, history
<1>16. CASE LookupFails
  BY <1>4, <1>6, <1>16 DEF LookupFails
<1>17. CASE ChecksRead
  <2>1. PICK p \in PR : p = Current
    BY <1>1, <1>17 DEF ChecksRead, AtCurrent
  <2>2. \/ \E step : Goto(step, daemon.state, {})
        \/ Goto("save", [ejectPR(daemon.state, p) EXCEPT !.current = NoPR], {})
    BY <1>17, <2>1 DEF ChecksRead
  <2> QED BY <1>4, <1>5, <1>17, <2>2 DEF ChecksRead
<1>18. CASE ChecksFail
  BY <1>4, <1>18 DEF ChecksFail, history
<1>19. CASE CycleMerges
  <2>1. Current \in PR /\ Current \in rebased
    BY <1>1, <1>2, <1>19, ConstantsAssumption DEF CycleMerges, AtCurrent, Taken, Current
  <2>2. daemon'.state.current \in {NoPR, daemon.state.current}
    <3>1. \/ daemon'.state = [daemon.state EXCEPT !.current = NoPR,
                                                 !.lastMerged = Current]
          \/ daemon'.state = daemon.state
      BY <1>19 DEF CycleMerges, Goto
    <3> QED BY <1>7, <3>1
  <2>3. merged' \subseteq rebased'
    BY <1>19, <2>1 DEF CycleMerges, OnlyRebased
  <2> QED BY <1>2, <1>3, <1>19, <2>2, <2>3 DEF CycleMerges, OnlyRebased, Taken
<1>20. CASE CycleCannotMerge
  BY <1>4, <1>20 DEF CycleCannotMerge, history
<1>21. CASE RecheckMerged
  BY <1>4, <1>7, <1>21 DEF RecheckMerged, history
<1>22. CASE RecheckEjects
  <2>1. Current \in PR
    BY <1>1, <1>22 DEF RecheckEjects, AtCurrent
  <2> QED BY <1>4, <1>5, <1>22, <2>1 DEF RecheckEjects
<1>23. CASE SiblingsListed
  BY <1>4, <1>23 DEF SiblingsListed, history
<1>24. ASSUME NEW p \in PR, SiblingVisited(p) PROVE OnlyRebased'
  BY <1>4, <1>24 DEF SiblingVisited, history
<1>25. CASE CycleTruncates
  <2>1. daemon'.state = daemon.state
    BY <1>25 DEF CycleTruncates, Goto
  <2> QED BY <1>25, <2>1 DEF CycleTruncates, history, OnlyRebased, Taken
<1>26. CASE CycleWrites
  <2>1. daemon'.state = getDefaultState
    BY <1>26 DEF CycleWrites, Goto
  <2> QED BY <1>26, <2>1, DefaultTypes DEF CycleWrites, OnlyRebased, Taken
<1> QED BY <1>10, <1>11, <1>12, <1>13, <1>14, <1>15, <1>16, <1>17, <1>18, <1>19,
           <1>20, <1>21, <1>22, <1>23, <1>24, <1>25, <1>26
        DEF runMergeQueueCycle, ProcessCurrent, PickNext, Siblings, Save

LEMMA CommandRebased ==
    ASSUME TypeOK, OnlyRebased, NEW o \in Operators, Command(o)
    PROVE  OnlyRebased'
<1>1. FileOK /\ OpsOK /\ StateOK(getMergeQueueState)
  BY ReadTypes DEF TypeOK
<1>2. getMergeQueueState.current \in Taken
  BY DefaultTypes DEF getMergeQueueState, OnlyRebased, Taken
<1>6. ASSUME NEW flag \in BOOLEAN, CommandChecks(o, flag) PROVE OnlyRebased'
  <2> DEFINE s == [getDefaultState EXCEPT !.paused = flag]
  <2>1. s.current \in Taken
    BY DefaultTypes, FlagSetTypes DEF Taken
  <2>2. ops' = [ops EXCEPT ![o] = [pc |-> "read", state |-> s]]
    BY <1>6 DEF CommandChecks
  <2> HIDE DEF s
  <2>3. \A q \in Operators : ops'[q].state.current \in Taken
    BY <1>1, <2>1, <2>2 DEF OpsOK, OnlyRebased
  <2> QED BY <1>6, <2>3 DEF CommandChecks, history, OnlyRebased, Taken
<1>3. CASE CommandReads(o)
  <2>4. PICK flag \in BOOLEAN : flag = ops[o].state.paused
    BY <1>1 DEF OpsOK, StateOK, State
  <2> DEFINE s == [getMergeQueueState EXCEPT !.paused = flag]
  <2>1. s.current \in Taken
    BY <1>1, <1>2, FlagSetTypes
  <2>2. ops' = [ops EXCEPT ![o] = [pc |-> "save", state |-> s]]
    BY <1>3, <2>4 DEF CommandReads
  <2> HIDE DEF s
  <2>3. \A q \in Operators : ops'[q].state.current \in Taken
    BY <1>1, <2>1, <2>2 DEF OpsOK, OnlyRebased
  <2> QED BY <1>3, <2>3 DEF CommandReads, OnlyRebased, Taken
<1>4. CASE CommandTruncates(o)
  <2>1. \A q \in Operators : ops'[q].state = ops[q].state
    BY <1>1, <1>4 DEF CommandTruncates, OpsOK
  <2> QED BY <1>4, <2>1 DEF CommandTruncates, bounds, OnlyRebased, Taken
<1>5. CASE CommandWrites(o)
  <2>1. ops' = [ops EXCEPT ![o] = NoCommand] /\ NoCommand.state = getDefaultState
    BY <1>5 DEF CommandWrites, NoCommand
  <2>2. \A q \in Operators : ops'[q].state.current \in Taken
    BY <1>1, <2>1, DefaultTypes DEF OpsOK, OnlyRebased, Taken
  <2> QED BY <1>5, <2>2 DEF CommandWrites, OnlyRebased, Taken
<1> QED BY <1>3, <1>4, <1>5, <1>6 DEF Command

LEMMA NextRebased ==
    ASSUME TypeOK, OnlyRebased, [Next]_vars
    PROVE  OnlyRebased'
<1>1. ASSUME DaemonCrashes PROVE OnlyRebased'
  <2>1. daemon'.state = getDefaultState
    BY <1>1 DEF DaemonCrashes, Goto
  <2> QED BY <1>1, <2>1, DefaultTypes DEF DaemonCrashes, OnlyRebased, Taken
<1>2. ASSUME GitHub PROVE OnlyRebased'
  <2>1. UNCHANGED <<file, daemon, ops, rebased, merged>>
    BY <1>2 DEF GitHub, CIStep, CIStarts, CheckEnds, CheckReruns, Push,
                HumanCloses, history
  <2> QED BY <2>1 DEF OnlyRebased, Taken
<1>3. ASSUME UNCHANGED vars PROVE OnlyRebased'
  BY <1>3 DEF vars, history, OnlyRebased, Taken
<1> QED BY <1>1, <1>2, <1>3, CycleRebased, CommandRebased DEF Next

LEMMA InitRebased ==
    ASSUME NEW runs, NEW open, InitFrom(runs, open)
    PROVE  OnlyRebased
BY DefaultTypes DEF InitFrom, Beginning, OnlyRebased, Taken, NoCommand

(* Whatever file a crash, a command or a failed gh call left, the queue      *)
(* merges nothing that it has not rebased (merge-queue.ts:211-251, 313-389). *)
THEOREM RebasedFirst == Spec => []MergedWasRebased
<1>1. Init => OnlyRebased
  BY InitRebased DEF Init
<1>2. TypeOK /\ OnlyRebased /\ [Next]_vars => OnlyRebased'
  BY NextRebased
<1>3. OnlyRebased => MergedWasRebased
  BY DEF OnlyRebased, MergedWasRebased
<1> QED BY <1>1, <1>2, <1>3, TypeCorrect, PTL DEF Spec

(***************************************************************************)
(* No merge with a failed or unfinished check.  Between the cycle that reads *)
(* the checks and the merge CI and the authors go on: of a head that is      *)
(* still the one read, the checks listed then have all ended, and one that   *)
(* has ended stays unless it is run again.                                   *)
(***************************************************************************)

Fine(p, C) == \A c \in C : pr[p].ci[c] \notin {"absent", "pending", "FAILURE"}
Passed(p) == Fine(p, tested[p].checks)

ReadChecks ==
    /\ \A p \in PR : tested[p].head <= pr[p].head
    /\ At("merge") /\ tested[Current].head = pr[Current].head => Passed(Current)

(* What happens to a pull request: a new head, or checks that go on; a check *)
(* listed then that starts anew is no longer among those listed.             *)
Turned(p, C) ==
    \/ pr'[p].head = pr[p].head + 1
    \/ /\ pr'[p].head = pr[p].head
       /\ \A c \in C : \/ pr[p].ci[c] \in {"absent", "pending"}
                        \/ pr'[p].ci[c] = pr[p].ci[c]
Moved(p) == Turned(p, tested'[p].checks)

Older == \A p \in PR : /\ tested'[p].head = tested[p].head
                       /\ tested'[p].checks \subseteq tested[p].checks

LEMMA MovedKeeps ==
    ASSUME TypeOK, ReadChecks, \A p \in PR : Moved(p), Older,
           daemon' = daemon \/ ~ At("merge")'
    PROVE  ReadChecks'
<1> USE DEF AtCurrent, At
<1>1. \A p \in PR : tested[p].head \in Nat /\ pr[p].head \in Nat
  BY DEF TypeOK, HistoryOK, PullRequest
<1>2. \A p \in PR : tested'[p].head <= pr'[p].head
  BY <1>1 DEF ReadChecks, Moved, Turned, Older
<1>4. ASSUME At("merge")', tested'[Current'].head = pr'[Current'].head
      PROVE  Passed(Current)'
  <2>1. daemon' = daemon /\ Current' = Current /\ Current \in PR
    BY <1>4 DEF Current, TypeOK, DaemonOK
  <2>2. PICK p \in PR : p = Current
    BY <2>1
  <2>3. pr'[p].head = pr[p].head /\ tested[p].head = pr[p].head /\ Moved(p)
    BY <1>1, <1>4, <2>1, <2>2 DEF ReadChecks, Moved, Turned, Older
  <2>4. Passed(p)
    BY <1>4, <2>1, <2>2, <2>3 DEF ReadChecks
  <2>5. ASSUME NEW c \in tested'[p].checks
        PROVE  pr'[p].ci[c] \notin {"absent", "pending", "FAILURE"}
    <3>1. pr[p].ci[c] \notin {"absent", "pending", "FAILURE"}
      BY <2>4 DEF Passed, Fine, Older
    <3>2. pr'[p].ci[c] = pr[p].ci[c]
      BY <1>1, <2>3, <3>1 DEF Moved, Turned
    <3> QED BY <3>1, <3>2
  <2> QED BY <2>1, <2>2, <2>5 DEF Passed, Fine
<1> QED BY <1>2, <1>4 DEF ReadChecks

LEMMA CycleChecked ==
    ASSUME TypeOK, ReadChecks, runMergeQueueCycle
    PROVE  ReadChecks'
<1> USE DEF AtCurrent, At
<1>1. DaemonOK /\ pr \in [PR -> PullRequest]
      /\ tested \in [PR -> [head : Nat, checks : SUBSET Check]]
  BY DEF TypeOK, HistoryOK
<1>2. ASSUME UNCHANGED pr PROVE \A p \in PR : Moved(p)
  BY <1>2 DEF Moved, Turned
<1>4. ASSUME UNCHANGED tested PROVE Older
  BY <1>4 DEF Older
<1>3. ASSUME UNCHANGED <<pr, tested>>, NEW s, NEW todo,
             NEW step \in DaemonSteps \ {"merge"}, Goto(step, s, todo)
      PROVE  ReadChecks'
  BY <1>2, <1>3, <1>4, MovedKeeps DEF Goto
<1>10. CASE CycleStarts
  <2>1. PICK step \in {"save", "lookup", "build"} : Goto(step, getMergeQueueState, {})
    BY <1>10 DEF CycleStarts
  <2> QED BY <1>3, <1>10, <2>1 DEF CycleStarts, DaemonSteps
<1>11. CASE CycleBuilds
  <2>1. PICK step, todo : step \in {"save", "rebase"} /\ Goto(step, daemon.state, todo)
    BY <1>11 DEF CycleBuilds
  <2> QED BY <1>3, <1>11, <2>1 DEF CycleBuilds, history, DaemonSteps
<1>12. ASSUME NEW p \in PR, CycleRebases(p) PROVE ReadChecks'
  <2>1. \A q \in PR : Moved(q)
    BY <1>1, <1>12, UpdatedTypes DEF CycleRebases, Moved, Turned
  <2> QED BY <1>4, <1>12, <2>1, MovedKeeps DEF CycleRebases, Goto
<1>13. ASSUME NEW p \in PR, CycleCannotRebase(p) PROVE ReadChecks'
  <2>1. PICK step \in {"save", "rebase"} :
           Goto(step, ejectPR(daemon.state, p), daemon.todo \ {p})
    BY <1>13 DEF CycleCannotRebase
  <2> QED BY <1>3, <1>13, <2>1 DEF CycleCannotRebase, DaemonSteps
<1>14. CASE LookupOpen
  BY <1>3, <1>14 DEF LookupOpen, history, DaemonSteps
<1>15. CASE LookupDone
  BY <1>3, <1>15 DEF LookupDone, history, DaemonSteps
<1>16. CASE LookupFails
  BY <1>3, <1>16 DEF LookupFails, DaemonSteps
<1>17. CASE ChecksRead
  <2>1. PICK p \in PR : p = Current
    BY <1>1, <1>17 DEF ChecksRead, DaemonOK
  <2>2. /\ tested' = [tested EXCEPT ![p] = [head |-> pr[p].head,
                                            checks |-> getPRChecks(p)]]
        /\ UNCHANGED pr
    BY <1>17, <2>1 DEF ChecksRead
  <2>6. tested'[p].head = pr[p].head /\ tested'[p].checks = getPRChecks(p)
    BY <1>1, <2>2
  <2>3. \A q \in PR : tested'[q].head <= pr'[q].head
    <3>1. ASSUME NEW q \in PR, q # p PROVE tested'[q] = tested[q]
      BY <1>1, <2>2, <3>1
    <3> QED BY <1>1, <2>2, <2>6, <3>1 DEF ReadChecks, PullRequest
  <2>5. ASSUME At("merge")' PROVE Passed(Current)'
    <3>1. /\ pending(p) = {} /\ failed(p) = {} /\ daemon'.state = daemon.state
      BY <1>17, <2>1, <2>5 DEF ChecksRead, Goto
    <3>2. \A c \in getPRChecks(p) :
             pr[p].ci[c] \notin {"absent", "pending", "FAILURE"}
      BY <3>1 DEF getPRChecks, pending, failed
    <3>4. Current' = p
      BY <2>1, <3>1 DEF Current
    <3> QED BY <2>2, <2>6, <3>2, <3>4 DEF Passed, Fine
  <2> QED BY <2>3, <2>5 DEF ReadChecks
<1>18. CASE ChecksFail
  BY <1>3, <1>18 DEF ChecksFail, history, DaemonSteps
<1>19. CASE CycleMerges
  <2>1. Current \in PR
    BY <1>1, <1>19 DEF CycleMerges, DaemonOK
  <2>2. \A q \in PR : Moved(q)
    BY <1>1, <1>19, <2>1, MergedTypes DEF CycleMerges, Moved, Turned
  <2> QED BY <1>4, <1>19, <2>2, MovedKeeps DEF CycleMerges, Goto
<1>20. CASE CycleCannotMerge
  BY <1>3, <1>20 DEF CycleCannotMerge, history, DaemonSteps
<1>21. CASE RecheckMerged
  BY <1>3, <1>21 DEF RecheckMerged, history, DaemonSteps
<1>22. CASE RecheckEjects
  BY <1>3, <1>22 DEF RecheckEjects, DaemonSteps
<1>23. CASE SiblingsListed
  <2>1. PICK step \in {"save", "siblings"} : Goto(step, daemon.state, Open)
    BY <1>23 DEF SiblingsListed
  <2> QED BY <1>3, <1>23, <2>1 DEF SiblingsListed, history, DaemonSteps
<1>24. ASSUME NEW p \in PR, SiblingVisited(p) PROVE ReadChecks'
  <2>1. \A q \in PR : Moved(q)
    <3>1. CASE UNCHANGED pr
      BY <1>2, <3>1
    <3>2. CASE pr' = [BranchUpdated(p) EXCEPT ![p].conflict = FALSE]
      <4>1. /\ BranchUpdated(p) \in [PR -> PullRequest]
            /\ \A q \in PR : \/ BranchUpdated(p)[q] = pr[q]
                             \/ /\ BranchUpdated(p)[q].head = pr[q].head + 1
                                /\ BranchUpdated(p)[q].ci = NoChecks
        BY <1>1, UpdatedTypes
      <4>2. \A q \in PR : /\ pr'[q].head = BranchUpdated(p)[q].head
                          /\ pr'[q].ci = BranchUpdated(p)[q].ci
        BY <3>2, <4>1 DEF PullRequest
      <4> QED BY <4>1, <4>2 DEF Moved, Turned
    <3> QED BY <1>24, <3>1, <3>2 DEF SiblingVisited
  <2>2. ~ At("merge")' /\ UNCHANGED tested
    BY <1>24 DEF SiblingVisited, Goto, history
  <2> QED BY <1>4, <2>1, <2>2, MovedKeeps
<1>25. CASE CycleTruncates
  BY <1>3, <1>25 DEF CycleTruncates, history, DaemonSteps
<1>26. CASE CycleWrites
  BY <1>3, <1>26 DEF CycleWrites, DaemonSteps
<1> QED BY <1>10, <1>11, <1>12, <1>13, <1>14, <1>15, <1>16, <1>17, <1>18, <1>19,
           <1>20, <1>21, <1>22, <1>23, <1>24, <1>25, <1>26
        DEF runMergeQueueCycle, ProcessCurrent, PickNext, Siblings, Save

LEMMA GitHubMoves ==
    ASSUME TypeOK, NEW p \in PR, CIStep(p) \/ Push(p) \/ HumanCloses(p)
    PROVE  /\ \A q \in PR : Moved(q)
           /\ Older /\ UNCHANGED daemon
<1>1. /\ pr \in [PR -> PullRequest] /\ pr[p] \in PullRequest
      /\ tested \in [PR -> [head : Nat, checks : SUBSET Check]]
  BY DEF TypeOK, HistoryOK
<1>2. ASSUME UNCHANGED tested PROVE Older
  BY <1>2 DEF Older
(* One check c of p moves to k; tested' does not list it if it had ended.    *)
<1>3. ASSUME NEW c \in Check, NEW k, pr' = [pr EXCEPT ![p].ci[c] = k],
             pr[p].ci[c] \in {"absent", "pending"} \/ c \notin tested'[p].checks,
             Older
      PROVE  \A q \in PR : Moved(q)
  <2>1. ASSUME NEW q \in PR, NEW d \in Check, q # p \/ d # c
        PROVE  pr'[q].ci[d] = pr[q].ci[d]
    BY <1>1, <1>3, <2>1 DEF PullRequest
  <2>2. \A q \in PR : pr'[q].head = pr[q].head
    BY <1>1, <1>3 DEF PullRequest
  <2>3. \A q \in PR : tested'[q].checks \subseteq Check
    BY <1>1, <1>3 DEF Older
  <2> QED BY <1>3, <2>1, <2>2, <2>3 DEF Moved, Turned
<1>4. ASSUME NEW c \in Check, CIStarts(p, c)
      PROVE  (\A q \in PR : Moved(q)) /\ Older /\ UNCHANGED daemon
  <2>1. Older /\ UNCHANGED daemon
    BY <1>2, <1>4 DEF CIStarts, history
  <2> QED BY <1>3, <1>4, <2>1 DEF CIStarts
<1>5. ASSUME NEW c \in Check, NEW k \in Conclusions, CheckEnds(p, c, k)
      PROVE  (\A q \in PR : Moved(q)) /\ Older /\ UNCHANGED daemon
  <2>1. Older /\ UNCHANGED daemon
    BY <1>2, <1>5 DEF CheckEnds, history
  <2> QED BY <1>3, <1>5, <2>1 DEF CheckEnds
<1>6. ASSUME NEW c \in Check, CheckReruns(p, c)
      PROVE  (\A q \in PR : Moved(q)) /\ Older /\ UNCHANGED daemon
  <2>1. tested' = [tested EXCEPT ![p].checks = @ \ {c}] /\ UNCHANGED daemon
    BY <1>6 DEF CheckReruns
  <2>2. Older /\ c \notin tested'[p].checks
    BY <1>1, <2>1 DEF Older
  <2> QED BY <1>3, <1>6, <2>1, <2>2 DEF CheckReruns
<1>7. CASE Push(p)
  <2>1. Older /\ UNCHANGED daemon
    BY <1>2, <1>7 DEF Push, history
  <2>2. \A q \in PR : Moved(q)
    BY <1>1, <1>7 DEF Push, Moved, Turned, PullRequest
  <2> QED BY <2>1, <2>2
<1>8. CASE HumanCloses(p)
  <2>1. Older /\ UNCHANGED daemon
    BY <1>2, <1>8 DEF HumanCloses, history
  <2>2. CASE pr' = [pr EXCEPT ![p].state = "CLOSED"]
    BY <1>1, <2>1, <2>2 DEF Moved, Turned, PullRequest
  <2>3. CASE \E S : pr' = MergedOnGitHub(p, S)
    BY <1>1, <2>1, <2>3, MergedTypes DEF Moved, Turned
  <2> QED BY <1>8, <2>1, <2>2, <2>3 DEF HumanCloses
<1> QED BY <1>4, <1>5, <1>6, <1>7, <1>8 DEF CIStep

LEMMA NextChecked ==
    ASSUME TypeOK, ReadChecks, [Next]_vars
    PROVE  ReadChecks'
<1>1. ASSUME UNCHANGED <<pr, tested>>, UNCHANGED daemon \/ ~ At("merge")'
      PROVE  ReadChecks'
  <2>1. (\A p \in PR : Moved(p)) /\ Older
    BY <1>1 DEF Moved, Turned, Older
  <2> QED BY <1>1, <2>1, MovedKeeps
<1>2. ASSUME DaemonCrashes PROVE ReadChecks'
  BY <1>1, <1>2 DEF DaemonCrashes, Goto, At
<1>3. ASSUME NEW o \in Operators, Command(o) PROVE ReadChecks'
  BY <1>1, <1>3 DEF Command, CommandChecks, CommandReads, CommandTruncates,
                    CommandWrites, history
<1>4. ASSUME GitHub PROVE ReadChecks'
  BY <1>4, GitHubMoves, MovedKeeps DEF GitHub
<1>5. ASSUME UNCHANGED vars PROVE ReadChecks'
  BY <1>1, <1>5 DEF vars, history
<1> QED BY <1>2, <1>3, <1>4, <1>5, CycleChecked DEF Next

LEMMA InitChecked ==
    ASSUME NEW runs, NEW open, InitFrom(runs, open)
    PROVE  ReadChecks
<1>1. \A p \in PR : tested[p].head = 0 /\ pr[p].head = 1
  BY DEF InitFrom, Beginning
<1>2. ~ At("merge")
  BY DEF InitFrom, Beginning, At
<1> QED BY <1>1, <1>2 DEF ReadChecks

MergesPassed == \A p \in merged' \ merged : tested[p].head = pr[p].head =>
    \A c \in tested[p].checks : pr[p].ci[c] \notin {"pending", "FAILURE"}

LEMMA NextPassed ==
    ASSUME ReadChecks, [Next]_vars, merged' # merged
    PROVE  MergesPassed
<1>1. CycleMerges
  BY DEF Next, runMergeQueueCycle, ProcessCurrent, PickNext, Siblings, Save,
         CycleStarts, LookupOpen, LookupDone, LookupFails, ChecksRead, ChecksFail,
         CycleCannotMerge, RecheckMerged, RecheckEjects, CycleBuilds,
         CycleRebases, CycleCannotRebase, SiblingsListed, SiblingVisited,
         CycleTruncates, CycleWrites, DaemonCrashes, Command, CommandChecks,
         CommandReads, CommandTruncates, CommandWrites, GitHub, CIStep, CIStarts,
         CheckEnds, CheckReruns, Push, HumanCloses, vars, history
<1> QED BY <1>1 DEF CycleMerges, ReadChecks, Passed, Fine, MergesPassed

(* When the queue merges a commit whose checks it has read, every check that *)
(* was listed then and not run again since has ended, none of them as        *)
(* FAILURE, whatever CI and the authors did between the read and the merge   *)
(* (merge-queue.ts:351-389).  The list read may be a part of the checks.     *)
THEOREM NoFailureMerged == Spec => MergedWithoutFailure
<1>1. Init => ReadChecks
  BY InitChecked DEF Init
<1>2. TypeOK /\ ReadChecks /\ [Next]_vars => ReadChecks'
  BY NextChecked
<1>3. ReadChecks /\ [Next]_vars => [MergesPassed]_merged
  BY NextPassed
<1>4. Spec => [][MergesPassed]_merged
  BY <1>1, <1>2, <1>3, TypeCorrect, PTL DEF Spec
<1> QED BY <1>4 DEF MergesPassed, MergedWithoutFailure

(***************************************************************************)
(* A merge is recorded.  As long as no mishap cost the file its content,    *)
(* the file (or, while it is truncated, a command about to write it) has    *)
(* as current each pull request that is merged and not recorded, and the    *)
(* one a cycle works on; the rest follows the cycle.                        *)
(***************************************************************************)

Unrecorded == merged \ recorded
MergedStay == \A p \in merged : pr[p].state = "MERGED"

Carries(s) == /\ \A p \in Unrecorded : s.current = p
              /\ AtCurrent => s.current = Current
FileCarries ==
    \/ At("write")
    \/ file # Torn /\ Carries(file)
    \/ /\ file = Torn
       /\ \E o \in Operators : ops[o].pc = "write" /\ Carries(ops[o].state)

NothingUnrecorded == {"build", "rebase", "checks", "merge"}
Ending == {"list", "siblings", "save", "write"}
CycleCarries ==
    /\ At("lookup") \/ At("recheck") => \A p \in Unrecorded : Current = p
    /\ daemon.pc \in NothingUnrecorded => Unrecorded = {}
    /\ daemon.pc \in Ending =>
          \A p \in Unrecorded : p \in {daemon.state.current, daemon.state.lastMerged}

Recording == MergedStay /\ (damage = {} => FileCarries /\ CycleCarries)

(* A pull request that is merged on GitHub stays merged.                    *)
StaysMerged == \A p \in PR : pr[p].state = "MERGED" => pr'[p].state = "MERGED"

LEMMA UpdateStays ==
    ASSUME pr \in [PR -> PullRequest], NEW p \in PR
    PROVE  \A q \in PR : BranchUpdated(p)[q].state = pr[q].state
<1>1. \A q \in PR : pr[q] \in PullRequest
  OBVIOUS
<1> QED BY <1>1 DEF BranchUpdated, PullRequest

LEMMA MergeStays ==
    ASSUME pr \in [PR -> PullRequest], NEW p \in PR, NEW S, pr' = MergedOnGitHub(p, S)
    PROVE  StaysMerged /\ pr'[p].state = "MERGED"
<1>1. \A q \in PR : pr[q] \in PullRequest
  OBVIOUS
<1> QED BY <1>1 DEF MergedOnGitHub, StaysMerged, PullRequest

LEMMA GitHubStays == ASSUME TypeOK, GitHub PROVE StaysMerged
<1>1. pr \in [PR -> PullRequest] /\ \A q \in PR : pr[q] \in PullRequest
  BY DEF TypeOK
<1>2. PICK p \in PR : CIStep(p) \/ Push(p) \/ HumanCloses(p)
  BY DEF GitHub
<1>3. CASE CIStep(p)
  BY <1>1, <1>3 DEF CIStep, CIStarts, CheckEnds, CheckReruns, StaysMerged,
                    PullRequest, Open
<1>4. CASE Push(p)
  BY <1>1, <1>4 DEF Push, StaysMerged, PullRequest, Open
<1>5. CASE HumanCloses(p)
  <2>1. CASE pr' = [pr EXCEPT ![p].state = "CLOSED"]
    BY <1>1, <1>5, <2>1 DEF HumanCloses, StaysMerged, PullRequest, Open
  <2>2. CASE \E S \in SUBSET (Open \ {p}) : pr' = MergedOnGitHub(p, S)
    BY <1>1, <2>2, MergeStays
  <2> QED BY <1>5, <2>1, <2>2 DEF HumanCloses
<1> QED BY <1>2, <1>3, <1>4, <1>5

(* Only pull requests change.                                              *)
LEMMA OthersRecord ==
    ASSUME TypeOK, Recording, StaysMerged,
           UNCHANGED <<file, daemon, ops, merged, recorded, damage>>
    PROVE  Recording'
<1>1. MergedStay'
  BY DEF Recording, MergedStay, StaysMerged, TypeOK, HistoryOK
<1>2. Unrecorded' = Unrecorded /\ AtCurrent' = AtCurrent /\ Current' = Current
      /\ \A step : At(step)' = At(step)
  BY DEF Unrecorded, AtCurrent, At, Current
<1>3. FileCarries => FileCarries'
  BY <1>2 DEF FileCarries, Carries
<1>4. CycleCarries => CycleCarries'
  BY <1>2 DEF CycleCarries
<1> QED BY <1>1, <1>3, <1>4 DEF Recording

(* The cycle goes on, with the current pull request it had or with none.    *)
LEMMA GoesRecord ==
    ASSUME FileCarries, ~ At("write"), NEW step, step # "write", NEW s, NEW todo,
           Goto(step, s, todo), UNCHANGED <<file, ops, merged, recorded>>,
           step \in {"lookup", "checks", "merge", "recheck"}
              => AtCurrent /\ s.current = Current
    PROVE  FileCarries'
<1>1. /\ ~ At("write")' /\ Unrecorded' = Unrecorded
      /\ AtCurrent' => AtCurrent /\ Current' = Current
  BY DEF Goto, At, Unrecorded, AtCurrent, Current
<1>2. \A t : Carries(t) => Carries(t)'
  BY <1>1 DEF Carries
<1> QED BY <1>1, <1>2 DEF FileCarries

LEMMA AtStep ==
    ASSUME NEW step, NEW s, NEW todo, Goto(step, s, todo)
    PROVE  /\ daemon'.pc = step /\ daemon'.state = s /\ Current' = s.current
           /\ \A t : At(t)' <=> step = t
  BY DEF Goto, Current, At

LEMMA CycleRecords ==
    ASSUME TypeOK, Recording, runMergeQueueCycle
    PROVE  Recording'
<1> SUFFICES ASSUME damage' = {}, MergedStay' PROVE FileCarries' /\ CycleCarries'
  <2>1. MergedStay'
    <3>1. pr \in [PR -> PullRequest] /\ merged \subseteq PR /\ (AtCurrent => Current \in PR)
          /\ daemon.todo \in SUBSET PR
      BY DaemonFacts DEF TypeOK, HistoryOK
    <3>2. CASE CycleMerges
      <4>1. StaysMerged /\ pr'[Current].state = "MERGED"
        BY <3>1, <3>2, MergeStays DEF CycleMerges, AtCurrent
      <4> QED BY <3>1, <3>2, <4>1 DEF Recording, MergedStay, StaysMerged, CycleMerges
    <3>3. CASE \E p \in PR : CycleRebases(p) \/ SiblingVisited(p)
      <4>1. PICK p \in PR : CycleRebases(p) \/ SiblingVisited(p)
        BY <3>3
      <4>2. UNCHANGED merged /\ \A q \in PR : pr'[q].state = pr[q].state
        <5>1. \A q \in PR : BranchUpdated(p)[q].state = pr[q].state
          BY <3>1, UpdateStays
        <5>2. BranchUpdated(p) \in [PR -> PullRequest]
          BY <3>1, UpdatedTypes
        <5>3. \A q \in PR :
                [BranchUpdated(p) EXCEPT ![p].conflict = FALSE][q].state = pr[q].state
          BY <5>1, <5>2 DEF PullRequest
        <5> QED BY <4>1, <5>1, <5>3 DEF CycleRebases, SiblingVisited, history
      <4> QED BY <3>1, <4>2 DEF Recording, MergedStay
    <3>4. CASE UNCHANGED <<pr, merged>>
      BY <3>4 DEF Recording, MergedStay
    <3> QED BY <3>2, <3>3, <3>4
        DEF runMergeQueueCycle, ProcessCurrent, PickNext, Siblings, Save, CycleStarts,
            CycleBuilds, CycleCannotRebase, LookupOpen, LookupDone, LookupFails, ChecksRead,
            ChecksFail, CycleCannotMerge, RecheckMerged, RecheckEjects, SiblingsListed,
            CycleTruncates, CycleWrites, history
  <2> QED BY <2>1 DEF Recording
<1> USE DEF At
<1>1. /\ damage = {} /\ FileCarries /\ CycleCarries /\ MergedStay
  <2>1. damage \subseteq damage'
    BY DEF runMergeQueueCycle, ProcessCurrent, PickNext, Siblings, Save, CycleStarts,
           CycleBuilds, CycleRebases, CycleCannotRebase, LookupOpen, LookupDone, LookupFails,
           ChecksRead, ChecksFail, CycleMerges, CycleCannotMerge, RecheckMerged, RecheckEjects,
           SiblingsListed, SiblingVisited, CycleTruncates, CycleWrites, history
  <2> QED BY <2>1 DEF Recording
<1>2. /\ DaemonOK /\ StateOK(daemon.state) /\ daemon.state \in State
      /\ (AtCurrent => Current \in PR) /\ merged \subseteq PR /\ NoPR \notin PR
  BY DaemonFacts, ConstantsAssumption DEF TypeOK, HistoryOK, DaemonOK
<1>3. \A p \in merged : pr[p].state = "MERGED"
  BY <1>1 DEF MergedStay
<1>4. ASSUME UNCHANGED <<file, ops, merged, recorded>>, ~ At("write"),
             NEW step \in {"build", "rebase", "checks", "merge", "recheck"},
             NEW s, NEW todo, Goto(step, s, todo), Unrecorded = {},
             step \in {"checks", "merge", "recheck"} => AtCurrent /\ s.current = Current
      PROVE  FileCarries' /\ CycleCarries'
  <2>1. FileCarries'
    BY <1>1, <1>4, GoesRecord
  <2>2. CycleCarries'
    BY <1>4, AtStep DEF CycleCarries, Unrecorded, Ending
  <2> QED BY <2>1, <2>2
<1>5. ASSUME UNCHANGED <<file, ops, merged, recorded>>, ~ At("write"),
             NEW step \in {"list", "siblings", "save"},
             NEW s, NEW todo, Goto(step, s, todo),
             \A p \in Unrecorded : p \in {s.current, s.lastMerged}
      PROVE  FileCarries' /\ CycleCarries'
  <2>1. FileCarries'
    BY <1>1, <1>5, GoesRecord
  <2>2. CycleCarries'
    BY <1>5, AtStep DEF CycleCarries, Unrecorded, NothingUnrecorded
  <2> QED BY <2>1, <2>2
<1>6. daemon.pc \in NothingUnrecorded => Unrecorded = {}
  BY <1>1 DEF CycleCarries
<1>7. daemon.pc \in Ending =>
         \A p \in Unrecorded : p \in {daemon.state.current, daemon.state.lastMerged}
  BY <1>1 DEF CycleCarries
<1>8. At("lookup") \/ At("recheck") =>
         /\ \A p \in Unrecorded : Current = p
         /\ pr[Current].state # "MERGED" => Unrecorded = {}
  BY <1>1, <1>3 DEF CycleCarries, Unrecorded
<1>10. CASE CycleStarts
  <2>1. /\ file # Torn /\ getMergeQueueState = file /\ Carries(file)
        /\ UNCHANGED <<file, ops, merged, recorded>> /\ At("idle")
    BY <1>1, <1>10 DEF CycleStarts, getMergeQueueState, FileCarries
  <2>2. PICK step \in {"save", "lookup", "build"} :
          /\ Goto(step, file, {})
          /\ step = "build" => file.current = NoPR
    BY <1>10, <2>1 DEF CycleStarts
  <2>3. \A p \in Unrecorded : file.current = p /\ p \in PR
    BY <1>2, <2>1 DEF Carries, Unrecorded
  <2>4. Unrecorded' = Unrecorded
    BY <2>1 DEF Unrecorded
  <2>5. FileCarries'
    <3>1. Carries(file)'
      BY <2>1, <2>2, <2>3, <2>4, AtStep DEF Carries
    <3> QED BY <2>1, <3>1 DEF FileCarries
  <2>6. CycleCarries'
    BY <1>2, <2>2, <2>3, <2>4, AtStep DEF CycleCarries, NothingUnrecorded, Ending
  <2> QED BY <2>5, <2>6
<1>11. CASE CycleBuilds
  BY <1>4, <1>5, <1>6, <1>11 DEF CycleBuilds, history, NothingUnrecorded
<1>12. ASSUME NEW p \in PR, CycleRebases(p) \/ CycleCannotRebase(p)
       PROVE  FileCarries' /\ CycleCarries'
  BY <1>4, <1>5, <1>6, <1>12 DEF CycleRebases, CycleCannotRebase, NothingUnrecorded
<1>13. CASE LookupOpen
  BY <1>4, <1>8, <1>13 DEF LookupOpen, history, AtCurrent, Current
<1>14. CASE LookupDone
  <2> DEFINE s == [daemon.state EXCEPT
               !.current = NoPR,
               !.lastMerged = IF pr[Current].state = "MERGED" THEN Current ELSE @]
  <2>1. \A p \in Unrecorded : p = s.lastMerged
    BY <1>2, <1>3, <1>8, <1>14 DEF LookupDone, Unrecorded, State
  <2>2. Goto("save", s, {}) /\ ~ At("write") /\ UNCHANGED <<file, ops, merged, recorded>>
    BY <1>14 DEF LookupDone, history
  <2> HIDE DEF s
  <2> QED BY <1>5, <2>1, <2>2
<1>15. CASE LookupFails
  BY <1>15 DEF LookupFails
<1>16. CASE ChecksRead \/ ChecksFail
  <2>1. Unrecorded = {} /\ UNCHANGED <<file, ops, merged, recorded>> /\ At("checks")
    BY <1>6, <1>16 DEF ChecksRead, ChecksFail, history, NothingUnrecorded
  <2>2. \/ \E s : Goto("save", s, {})
        \/ Goto("merge", daemon.state, {})
    BY <1>16 DEF ChecksRead, ChecksFail
  <2>3. CASE Goto("merge", daemon.state, {})
    BY <1>4, <2>1, <2>3 DEF AtCurrent, Current
  <2> QED BY <1>5, <2>1, <2>2, <2>3
<1>17. CASE CycleMerges
  <2> DEFINE s == [daemon.state EXCEPT !.current = NoPR, !.lastMerged = Current]
  <2>1. /\ merged' = merged \cup {Current} /\ UNCHANGED <<file, ops, recorded>>
        /\ Goto("list", s, {}) \/ Goto("recheck", daemon.state, {})
        /\ s.lastMerged = Current /\ Unrecorded = {}
        /\ At("merge") /\ AtCurrent
    BY <1>2, <1>6, <1>17 DEF CycleMerges, NothingUnrecorded, State, AtCurrent
  <2>2. Unrecorded' \subseteq {Current}
    BY <2>1 DEF Unrecorded
  <2> HIDE DEF s
  <2>3. CASE Goto("list", s, {})
    <3>1. \A t : Carries(t) => Carries(t)'
      BY <2>1, <2>2, <2>3, AtStep DEF Carries, AtCurrent
    <3>2. daemon'.pc = "list" /\ daemon'.state = s
      BY <2>3, AtStep
    <3>3. FileCarries'
      BY <1>1, <2>1, <3>1 DEF FileCarries
    <3>4. CycleCarries'
      BY <2>1, <2>2, <3>2 DEF CycleCarries, NothingUnrecorded, Ending
    <3> QED BY <3>3, <3>4
  <2>4. CASE Goto("recheck", daemon.state, {})
    <3>1. daemon'.pc = "recheck" /\ Current' = Current
      BY <2>4, AtStep DEF Current
    <3>2. \A t : Carries(t) => Carries(t)'
      BY <2>1, <2>2, <3>1 DEF Carries, AtCurrent
    <3>3. FileCarries'
      BY <1>1, <2>1, <3>2 DEF FileCarries
    <3>4. CycleCarries'
      BY <2>2, <3>1 DEF CycleCarries, NothingUnrecorded, Ending
    <3> QED BY <3>3, <3>4
  <2> QED BY <2>1, <2>3, <2>4
<1>18. CASE CycleCannotMerge
  BY <1>4, <1>6, <1>18 DEF CycleCannotMerge, history, NothingUnrecorded, AtCurrent, Current
<1>19. CASE RecheckMerged
  <2> DEFINE s == [daemon.state EXCEPT !.current = NoPR, !.lastMerged = Current]
  <2>1. /\ UNCHANGED <<file, ops, merged, recorded>> /\ At("recheck")
        /\ Goto("save", s, {}) /\ s.lastMerged = Current
    BY <1>2, <1>19 DEF RecheckMerged, history, State
  <2> HIDE DEF s
  <2> QED BY <1>5, <1>8, <2>1
<1>23. CASE RecheckEjects
  <2>1. Unrecorded = {} /\ UNCHANGED <<file, ops, merged, recorded>> /\ At("recheck")
        /\ \E s : Goto("save", s, {})
    BY <1>8, <1>23 DEF RecheckEjects
  <2> QED BY <1>5, <2>1
<1>20. CASE SiblingsListed \/ \E p \in PR : SiblingVisited(p)
  <2>1. /\ \A p \in Unrecorded : p \in {daemon.state.current, daemon.state.lastMerged}
        /\ UNCHANGED <<file, ops, merged, recorded>> /\ ~ At("write")
        /\ \E step \in {"save", "siblings"} : \E todo : Goto(step, daemon.state, todo)
    BY <1>7, <1>20 DEF SiblingsListed, SiblingVisited, history, Ending
  <2> QED BY <1>5, <2>1
<1>21. CASE CycleTruncates
  <2>1. /\ \A p \in Unrecorded : p \in {daemon.state.current, daemon.state.lastMerged}
        /\ Unrecorded' = Unrecorded /\ daemon'.state = daemon.state /\ daemon'.pc = "write"
    BY <1>7, <1>21, AtStep DEF CycleTruncates, history, Unrecorded, Ending
  <2> QED BY <2>1 DEF FileCarries, CycleCarries, NothingUnrecorded
<1>22. CASE CycleWrites
  <2>1. /\ \A p \in Unrecorded : p \in {daemon.state.current, daemon.state.lastMerged}
        /\ recorded' = recorded \cup ({daemon.state.lastMerged} \ {NoPR})
        /\ merged' = merged /\ file' = daemon.state /\ daemon'.pc = "idle"
    BY <1>7, <1>22, AtStep DEF CycleWrites, Ending
  <2>2. \A p \in Unrecorded' : p \in PR /\ file'.current = p
    BY <1>2, <2>1 DEF Unrecorded
  <2>3. file' # Torn
    BY <1>2, <2>1, TornAssumption
  <2> QED BY <2>1, <2>2, <2>3
      DEF FileCarries, Carries, CycleCarries, AtCurrent, NothingUnrecorded, Ending
<1> QED BY <1>10, <1>11, <1>12, <1>13, <1>14, <1>15, <1>16, <1>17, <1>18, <1>19,
           <1>20, <1>21, <1>22, <1>23
        DEF runMergeQueueCycle, ProcessCurrent, PickNext, Siblings, Save

LEMMA CommandRecords ==
    ASSUME TypeOK, Recording, NEW o \in Operators, Command(o)
    PROVE  Recording'
<1>1. /\ ops \in [Operators -> [pc : {"idle", "read", "save", "write"}, state : State]]
      /\ OpsOK /\ FileOK
  BY DEF TypeOK, OpsOK
<1>2. UNCHANGED <<daemon, pr, merged, recorded>>
  BY DEF Command, CommandChecks, CommandReads, CommandTruncates, CommandWrites,
         history
<1>3. /\ MergedStay' = MergedStay /\ CycleCarries' = CycleCarries
      /\ At("write")' = At("write") /\ \A s : Carries(s)' = Carries(s)
  BY <1>2 DEF MergedStay, CycleCarries, At, Carries, AtCurrent, Current, Unrecorded
<1>4. damage \subseteq damage'
  BY DEF Command, CommandChecks, CommandReads, CommandTruncates, CommandWrites,
         history
<1> SUFFICES ASSUME damage' = {}, ~ At("write"), FileCarries PROVE FileCarries'
  BY <1>3, <1>4 DEF Recording, FileCarries
<1>5. /\ file # Torn => Carries(file)
      /\ file = Torn => \E q \in Operators : ops[q].pc = "write" /\ Carries(ops[q].state)
  BY DEF FileCarries
<1>6. \A s, t \in State, flag \in BOOLEAN :
         [s EXCEPT !.paused = flag] = t => (Carries(s) => Carries(t))
  <2> SUFFICES ASSUME NEW s \in State, NEW t \in State, NEW flag \in BOOLEAN,
                      [s EXCEPT !.paused = flag] = t
               PROVE  s.current = t.current
    BY DEF Carries
  <2> QED BY DEF State
<1>7. file # Torn => file \in State
  BY <1>1 DEF FileOK, StateOK
<1>12. ASSUME NEW flag \in BOOLEAN, CommandChecks(o, flag) PROVE FileCarries'
  <2>1. UNCHANGED file /\ \A q \in Operators : ops[q].pc = "write" => ops'[q] = ops[q]
    BY <1>1, <1>12 DEF CommandChecks
  <2> QED BY <1>3, <1>5, <2>1 DEF FileCarries
<1>8. CASE CommandReads(o)
  <2>1. file # Torn /\ UNCHANGED file
    BY <1>8 DEF CommandReads
  <2> QED BY <1>3, <1>5, <2>1 DEF FileCarries
<1>9. ASSUME CommandTruncates(o) \/ CommandWrites(o) PROVE Carries(ops[o].state)
  <2>1. ~ Overwrites(o)
    BY <1>9 DEF CommandTruncates, CommandWrites
  <2>2. \/ \E s \in State : /\ Carries(s)
                             /\ [s EXCEPT !.paused = ops[o].state.paused] = ops[o].state
        \/ Carries(ops[o].state)
    <3>1. CASE file # Torn
      BY <1>5, <1>7, <2>1, <3>1 DEF Overwrites
    <3>2. CASE file = Torn
      <4>1. PICK q \in Operators : ops[q].pc = "write" /\ Carries(ops[q].state)
        BY <1>5, <3>2
      <4>2. CASE q = o
        BY <1>1, <4>1, <4>2
      <4>3. CASE q # o
        <5>1. ops[q].state \in State
          BY <1>1
        <5> QED BY <2>1, <3>2, <4>1, <4>3, <5>1 DEF Overwrites
      <4> QED BY <4>2, <4>3
    <3> QED BY <3>1, <3>2
  <2>3. ops[o].state \in State /\ ops[o].state.paused \in BOOLEAN
    BY <1>1 DEF State
  <2> QED BY <1>6, <2>2, <2>3
<1>10. CASE CommandTruncates(o)
  <2>1. file' = Torn /\ ops' = [ops EXCEPT ![o].pc = "write"]
    BY <1>10 DEF CommandTruncates
  <2>2. ops'[o].pc = "write" /\ ops'[o].state = ops[o].state
    BY <1>1, <2>1
  <2> QED BY <1>3, <1>9, <1>10, <2>1, <2>2 DEF FileCarries
<1>11. CASE CommandWrites(o)
  <2>1. file' = ops[o].state /\ file' # Torn
    BY <1>1, <1>11, TornAssumption DEF CommandWrites
  <2> QED BY <1>3, <1>9, <1>11, <2>1 DEF FileCarries
<1> QED BY <1>8, <1>10, <1>11, <1>12 DEF Command

LEMMA CrashRecords ==
    ASSUME TypeOK, Recording, DaemonCrashes
    PROVE  Recording'
<1>1. UNCHANGED <<file, ops, pr, merged, recorded>> /\ daemon'.pc = "idle"
  BY DEF DaemonCrashes, Goto
<1>2. damage' = damage \cup (IF At("write") THEN {"torn"} ELSE {})
  BY DEF DaemonCrashes
<1>3. MergedStay'
  BY <1>1 DEF Recording, MergedStay
<1>4. CycleCarries'
  BY <1>1 DEF CycleCarries, At, NothingUnrecorded, Ending
<1>5. Unrecorded' = Unrecorded /\ ~ AtCurrent'
  BY <1>1 DEF Unrecorded, AtCurrent, At
<1>6. \A s : Carries(s) => Carries(s)'
  BY <1>5 DEF Carries
<1>7. ASSUME damage' = {} PROVE FileCarries'
  <2>1. damage = {} /\ ~ At("write")
    BY <1>2, <1>7
  <2> QED BY <1>1, <1>6, <2>1 DEF Recording, FileCarries
<1> QED BY <1>3, <1>4, <1>7 DEF Recording

(* Every step of the queue, and of what surrounds it.                       *)
LEMMA NextRecords ==
    ASSUME TypeOK, Recording, [Next]_vars
    PROVE  Recording'
<1>1. CASE GitHub
  <2>1. UNCHANGED <<file, daemon, ops, merged, recorded, damage>>
    BY <1>1 DEF GitHub, CIStep, CIStarts, CheckEnds, CheckReruns, Push,
                HumanCloses, history
  <2> QED BY <1>1, <2>1, GitHubStays, OthersRecord
<1>2. CASE UNCHANGED vars
  BY <1>2, OthersRecord DEF vars, history, StaysMerged
<1> QED BY <1>1, <1>2, CycleRecords, CrashRecords, CommandRecords DEF Next

LEMMA InitRecords ==
    ASSUME NEW runs, NEW open, InitFrom(runs, open)
    PROVE  Recording
<1>1. file = getDefaultState /\ getDefaultState # Torn
  BY DefaultTypes, TornAssumption DEF InitFrom, Beginning, StateOK
<1>2. merged = {} /\ daemon.pc \in {"idle", "stopped"}
  BY DEF InitFrom, Beginning
<1> QED BY <1>1, <1>2
        DEF Recording, MergedStay, FileCarries, CycleCarries, Carries, Unrecorded,
            AtCurrent, At, NothingUnrecorded, Ending

LEMMA RecordingSuffices ==
    ASSUME Recording PROVE MergeIsRecorded
<1> SUFFICES ASSUME damage = {}, NEW p \in Unrecorded
             PROVE  \E s \in Versions : p \in {s.current, s.lastMerged}
  BY DEF MergeIsRecorded, Unrecorded
<1>1. FileCarries /\ CycleCarries
  BY DEF Recording
<1>2. CASE At("write")
  <2>1. daemon.state \in Versions
    BY <1>2 DEF Versions
  <2> QED BY <1>1, <1>2, <2>1 DEF CycleCarries, Ending, At
<1>3. CASE file # Torn /\ Carries(file)
  <2>1. file \in Versions
    BY <1>3 DEF Versions
  <2> QED BY <1>3, <2>1 DEF Carries
<1>4. CASE /\ file = Torn
           /\ \E o \in Operators : ops[o].pc = "write" /\ Carries(ops[o].state)
  <2>1. PICK o \in Operators : ops[o].pc = "write" /\ Carries(ops[o].state)
    BY <1>4
  <2>2. ops[o].state \in Versions
    BY <1>4, <2>1 DEF Versions
  <2> QED BY <2>1, <2>2 DEF Carries
<1> QED BY <1>1, <1>2, <1>3, <1>4 DEF FileCarries

(* A merge is never forgotten: until the queue has saved a pull request as  *)
(* the last one merged, the state file, or what is about to be written to   *)
(* it, still names it, whatever the pause and resume commands do in         *)
(* between, unless a lookup failed, a file was torn or one was overwritten  *)
(* (merge-queue.ts:38-91, 256-330).                                        *)
THEOREM MergesRecorded == Spec => []MergeIsRecorded
<1>1. Init => Recording
  BY InitRecords DEF Init
<1>2. Recording /\ TypeOK /\ [Next]_vars => Recording'
  BY NextRecords
<1>3. Recording => MergeIsRecorded
  BY RecordingSuffices
<1> QED BY <1>1, <1>2, <1>3, TypeCorrect, PTL DEF Spec

(***************************************************************************)
(* Ships beside the queue (AutoMerge).  What they do to the pull requests   *)
(* is what the authors and GitHub may do at any time, so the invariants of  *)
(* the queue survive them.                                                 *)
(***************************************************************************)

QueueInv == TypeOK /\ OnlyRebased /\ ReadChecks /\ Recording

(* Each pull request moves as one may, and none comes back from a merge.    *)
PRsMove == /\ pr' \in [PR -> PullRequest]
           /\ \A p \in PR : Turned(p, Check)
           /\ StaysMerged

LEMMA NextMoves ==
    ASSUME TypeOK, [Next]_vars
    PROVE  \A p \in PR : Turned(p, Check \ RunAgain(p))
<1>1. pr \in [PR -> PullRequest] /\ (AtCurrent => Current \in PR)
  BY DaemonFacts DEF TypeOK
<1>2. CASE UNCHANGED pr
  BY <1>2 DEF Turned
<1>3. ASSUME NEW p \in PR, CycleRebases(p) \/ SiblingVisited(p)
      PROVE  \A q \in PR : Turned(q, Check \ RunAgain(q))
  <2>1. /\ BranchUpdated(p) \in [PR -> PullRequest]
        /\ \A q \in PR : \/ BranchUpdated(p)[q] = pr[q]
                         \/ /\ BranchUpdated(p)[q].head = pr[q].head + 1
                            /\ BranchUpdated(p)[q].ci = NoChecks
    BY <1>1, UpdatedTypes
  <2>2. PICK u \in [PR -> PullRequest] : u = BranchUpdated(p)
    BY <2>1
  <2>3. \A q \in PR : /\ [u EXCEPT ![p].conflict = FALSE][q].head = u[q].head
                      /\ [u EXCEPT ![p].conflict = FALSE][q].ci = u[q].ci
    BY DEF PullRequest
  <2>4. \/ pr' = u \/ pr' = pr \/ pr' = [u EXCEPT ![p].conflict = FALSE]
    BY <1>3, <2>2 DEF CycleRebases, SiblingVisited
  <2> QED BY <2>1, <2>2, <2>3, <2>4 DEF Turned
<1>4. CASE CycleMerges
  <2>1. PICK S : pr' = MergedOnGitHub(Current, S)
    BY <1>4 DEF CycleMerges
  <2> QED BY <1>1, <1>4, <2>1, MergedTypes DEF CycleMerges, AtCurrent, Turned
<1>6. ASSUME NEW p \in PR, NEW c \in Check, NEW k, pr' = [pr EXCEPT ![p].ci[c] = k],
             pr[p].ci[c] \in {"absent", "pending"} \/ c \in RunAgain(p)
      PROVE  \A q \in PR : Turned(q, Check \ RunAgain(q))
  <2>1. ASSUME NEW q \in PR, NEW d \in Check, q # p \/ d # c
        PROVE  pr'[q].ci[d] = pr[q].ci[d]
    BY <1>1, <1>6, <2>1 DEF PullRequest
  <2>2. \A q \in PR : pr'[q].head = pr[q].head
    BY <1>1, <1>6 DEF PullRequest
  <2> QED BY <1>6, <2>1, <2>2 DEF Turned
<1>7. ASSUME NEW p \in PR, CIStep(p) PROVE \A q \in PR : Turned(q, Check \ RunAgain(q))
  <2>1. ASSUME NEW c \in Check, CheckReruns(p, c) PROVE c \in RunAgain(p)
    <3>1. pr'[p].ci[c] = "pending"
      BY <1>1, <2>1 DEF CheckReruns, PullRequest
    <3> QED BY <2>1, <3>1 DEF CheckReruns, RunAgain
  <2> QED BY <1>6, <1>7, <2>1 DEF CIStep, CIStarts, CheckEnds, CheckReruns
<1>8. ASSUME NEW p \in PR, Push(p) \/ HumanCloses(p)
      PROVE  \A q \in PR : Turned(q, Check \ RunAgain(q))
  <2>1. CASE Push(p)
    BY <1>1, <2>1 DEF Push, Turned, PullRequest
  <2>2. CASE pr' = [pr EXCEPT ![p].state = "CLOSED"]
    BY <1>1, <2>2 DEF Turned, PullRequest
  <2>3. CASE \E S : pr' = MergedOnGitHub(p, S)
    BY <1>1, <2>3, MergedTypes DEF Turned
  <2> QED BY <1>8, <2>1, <2>2, <2>3 DEF HumanCloses
<1>5. CASE GitHub
  BY <1>5, <1>7, <1>8 DEF GitHub
<1> QED BY <1>2, <1>3, <1>4, <1>5
    DEF Next, runMergeQueueCycle, ProcessCurrent, PickNext, Siblings, Save,
        CycleStarts, LookupOpen, LookupDone, LookupFails, ChecksRead, ChecksFail,
        CycleCannotMerge, RecheckMerged, RecheckEjects, CycleBuilds,
        CycleCannotRebase, SiblingsListed, CycleTruncates, CycleWrites,
        DaemonCrashes, Command, CommandChecks, CommandReads, CommandTruncates, CommandWrites, vars

LEMMA AsideKeeps ==
    ASSUME QueueInv, QueueAside, PRsMove
    PROVE  QueueInv'
<1>1. UNCHANGED <<file, daemon, ops, pushes, failures, crashes, rebased, merged, recorded,
                  tested, damage>>
  BY DEF QueueAside, bounds, history
<1>2. TypeOK'
  BY <1>1 DEF QueueInv, PRsMove, TypeOK, FileOK, DaemonOK, OpsOK, BoundsOK, HistoryOK,
              AtCurrent, At, Current
<1>3. OnlyRebased'
  BY <1>1 DEF QueueInv, OnlyRebased, Taken
<1>4. ReadChecks'
  <2>1. \A p \in PR : tested'[p].checks \subseteq Check
    BY <1>1 DEF QueueInv, TypeOK, HistoryOK
  <2>2. (\A p \in PR : Moved(p)) /\ Older
    BY <1>1, <2>1 DEF PRsMove, Moved, Turned, Older
  <2> QED BY <1>1, <2>2, MovedKeeps DEF QueueInv
<1>5. Recording'
  BY <1>1, OthersRecord DEF QueueInv, PRsMove
<1> QED BY <1>2, <1>3, <1>4, <1>5 DEF QueueInv

LEMMA NextKeeps ==
    ASSUME QueueInv, [Next]_vars
    PROVE  QueueInv'
BY NextTypes, NextRebased, NextChecked, NextRecords DEF QueueInv

(***************************************************************************)
(* A ship, at a record of `ship'.                                          *)
(***************************************************************************)

ShipSteps == {"idle", "poll", "checks", "conflicts", "rebase", "confirm", "merge",
              "merge green", "again", "off", "siblings", "done", "failed", "gave up"}
Record == [pc : ShipSteps, flag : Flags \cup {"green"}, enabled : BOOLEAN,
           rebases : 0..MaxRebases, seen : Nat, listed : SUBSET Check]
Asked == {"conflicts", "confirm", "merge", "merge green"}    \* the checks are behind it
Over == {"idle", "failed", "siblings", "done"}

Watched(r) == r.enabled /\ r.pc \notin Over    \* native auto-merge may be its doing

(* What ship s may be: it has not seen a head that is yet to come, and past *)
(* its checks a head that is still the one it saw has passed them.          *)
Right(s, r) ==
    /\ r \in Record
    /\ r.enabled => r.flag = "green" /\ r.pc # "idle"
    /\ r.pc = "rebase" => r.rebases < MaxRebases
    /\ r.seen <= pr[The(s)].head
    /\ r.pc \in Asked /\ r.seen = pr[The(s)].head => Fine(The(s), r.listed)

ShipInv ==
    /\ ship \in [Ship -> Record]
    /\ \A s \in Ship : Right(s, ship[s])
    /\ native \subseteq Open /\ outages \in 0..MaxOutage /\ shipped \subseteq Ship
    /\ NativeOnlyWhileWatched

(* A ship that stands still remains what it may be, and so does one of which *)
(* nothing changes but the checks that were run again.                      *)
LEMMA RightTurns ==
    ASSUME TypeOK, pr' \in [PR -> PullRequest], NEW s \in Ship, NEW r, Right(s, r),
           NEW q \in Record, q.pc = r.pc, q.flag = r.flag, q.enabled = r.enabled,
           q.rebases = r.rebases, q.seen = r.seen, q.listed \subseteq r.listed,
           Turned(The(s), q.listed)
    PROVE  Right(s, q)'
<1>1. PICK p \in PR : p = The(s)
  BY ShipAssumption DEF The
<1>2. pr[p] \in PullRequest /\ pr'[p] \in PullRequest /\ Turned(p, q.listed)
  BY <1>1 DEF TypeOK, Turned
<1>3. pr[p].head \in Nat /\ pr'[p].head \in Nat /\ q.seen \in Nat /\ q.seen <= pr[p].head
  BY <1>1, <1>2 DEF PullRequest, Right, Record
<1>4. q.seen <= pr'[p].head
  BY <1>2, <1>3 DEF Turned
<1>5. ASSUME q.pc \in Asked, q.seen = pr'[p].head PROVE Fine(p, q.listed)'
  <2>1. pr'[p].head = pr[p].head /\ r.seen = pr[p].head
    BY <1>2, <1>3, <1>5 DEF Turned
  <2>2. Fine(p, r.listed)
    BY <1>1, <1>5, <2>1 DEF Right
  <2>3. \A c \in q.listed : pr[p].ci[c] \notin {"absent", "pending", "FAILURE"}
    BY <2>2 DEF Fine
  <2>4. \A c \in q.listed : pr'[p].ci[c] = pr[p].ci[c]
    BY <1>2, <1>3, <2>1, <2>3 DEF Turned
  <2> QED BY <2>3, <2>4 DEF Fine
<1>6. /\ q.enabled => q.flag = "green" /\ q.pc # "idle"
      /\ q.pc = "rebase" => q.rebases < MaxRebases
  BY DEF Right
<1> QED BY <1>1, <1>4, <1>5, <1>6 DEF Right, The, Fine

LEMMA RightStays ==
    ASSUME TypeOK, PRsMove, NEW s \in Ship, NEW r, Right(s, r)
    PROVE  Right(s, r)'
<1>1. PICK p \in PR : p = The(s)
  BY ShipAssumption DEF The
<1>2. r \in Record /\ r.listed \subseteq Check
  BY DEF Right, Record
<1>3. Turned(p, r.listed)
  BY <1>2 DEF PRsMove, Turned
<1>4. Turned(The(s), r.listed) /\ pr' \in [PR -> PullRequest]
  BY <1>1, <1>3 DEF PRsMove
<1> QED BY <1>2, <1>4, RightTurns

(* One ship goes on to the record r.                                        *)
LEMMA ShipGoes ==
    ASSUME TypeOK, ShipInv, PRsMove, NEW s \in Ship, NEW r,
           ship' = [ship EXCEPT ![s] = r], Right(s, r)',
           native' \subseteq native \cup {The(s)}, \A p \in native' : pr'[p].state = "OPEN",
           The(s) \in native' => \/ Watched(r)
                                 \/ The(s) \in native /\ ~ Watched(ship[s]),
           outages' \in 0..MaxOutage, shipped' \subseteq Ship
    PROVE  ShipInv'
<1>1. r \in Record /\ ship \in [Ship -> Record]
  BY DEF Right, ShipInv
<1>2. /\ ship' \in [Ship -> Record] /\ ship'[s] = r
      /\ \A q \in Ship \ {s} : ship'[q] = ship[q]
  BY <1>1
<1>3. ASSUME NEW q \in Ship PROVE Right(q, ship[q])'
  <2>1. PICK t : t = ship'[q]
    OBVIOUS
  <2>2. CASE q = s
    BY <1>2, <2>1, <2>2 DEF Right, The, Fine
  <2>3. CASE q # s
    <3>1. Right(q, t)
      BY <1>2, <2>1, <2>3 DEF ShipInv
    <3>2. Right(q, t)'
      BY <3>1, RightStays
    <3> QED BY <2>1, <3>2 DEF Right, The, Fine
  <2> QED BY <2>2, <2>3
<1>4. native' \subseteq Open'
  <2>1. native' \subseteq PR
    BY ShipAssumption DEF ShipInv, Open, The
  <2> QED BY <2>1 DEF Open
<1>5. NativeOnlyWhileWatched'
  <2> SUFFICES ASSUME NEW p \in native'
               PROVE  \E q \in Ship : The(q) = p /\ Watched(ship'[q])
    BY DEF NativeOnlyWhileWatched, The, Watched, Over
  <2>1. CASE p = The(s) /\ Watched(r)
    BY <1>2, <2>1
  <2>2. CASE p \in native /\ ~ (p = The(s) /\ Watched(ship[s]))
    <3>1. PICK q \in Ship : The(q) = p /\ Watched(ship[q])
      BY <2>2 DEF ShipInv, NativeOnlyWhileWatched, Watched, Over
    <3> QED BY <1>2, <2>2, <3>1
  <2> QED BY <2>1, <2>2
<1> QED BY <1>2, <1>3, <1>4, <1>5 DEF ShipInv

LEMMA ReadsMove ==
    ASSUME TypeOK, UNCHANGED pr
    PROVE  PRsMove
BY DEF TypeOK, PRsMove, Turned, StaysMerged

LEMMA ShipReads ==
    ASSUME TypeOK, ShipInv, OnlyReads, NEW s \in Ship, NEW r,
           ship' = [ship EXCEPT ![s] = r], Right(s, r), outages' \in 0..MaxOutage,
           The(s) \in native /\ Watched(ship[s]) => Watched(r)
    PROVE  ShipInv' /\ PRsMove /\ QueueAside
<1>1. UNCHANGED <<pr, native, shipped>> /\ QueueAside
  BY DEF OnlyReads
<1>2. PRsMove
  BY <1>1, ReadsMove
<1>3. Right(s, r)'
  BY <1>2, RightStays
<1>4. \A p \in native' : pr'[p].state = "OPEN"
  BY <1>1 DEF ShipInv, Open
<1>5. ShipInv'
  BY <1>1, <1>2, <1>3, <1>4, ShipGoes DEF ShipInv
<1> QED BY <1>1, <1>2, <1>5

(* A step of which only the place in the loop comes out.                    *)
LEMMA ShipTurns ==
    ASSUME TypeOK, ShipInv, OnlyReads, NEW s \in Ship, NEW pc \in ShipSteps \ {"idle"},
           Goes(s, pc), outages' \in 0..MaxOutage,
           pc = "rebase" => ship[s].rebases < MaxRebases,
           pc \in Asked => ship[s].pc \in Asked,
           The(s) \in native /\ Watched(ship[s]) => pc \notin Over
    PROVE  ShipInv' /\ PRsMove /\ QueueAside
<1>1. ship \in [Ship -> Record] /\ ship[s] \in Record /\ Right(s, ship[s])
  BY DEF ShipInv
<1>2. PICK r \in Record :
        r = [pc |-> pc, flag |-> ship[s].flag, enabled |-> ship[s].enabled,
             rebases |-> ship[s].rebases, seen |-> ship[s].seen,
               listed |-> ship[s].listed]
  BY <1>1 DEF Record
<1>3. ship' = [ship EXCEPT ![s] = r]
  <2>1. [ship[s] EXCEPT !.pc = pc] = r
    BY <1>1, <1>2 DEF Record
  <2> QED BY <2>1 DEF Goes
<1>4. Right(s, r)
  BY <1>1, <1>2 DEF Right
<1>5. The(s) \in native /\ Watched(ship[s]) => Watched(r)
  BY <1>2 DEF Watched
<1> QED BY <1>3, <1>4, <1>5, ShipReads

LEMMA FailsTypes ==
    ASSUME ShipInv, NEW fails, MayFail(fails)
    PROVE  outages' \in 0..MaxOutage
<1>1. outages \in Nat /\ MaxOutage \in Nat
  BY ShipAssumption DEF ShipInv
<1> QED BY <1>1 DEF MayFail

LEMMA LoopTurns ==
    ASSUME TypeOK, ShipInv, NEW s \in Ship,
           \/ Polls(s) \/ TimesOut(s) \/ FindsConflicts(s) \/ FindsNoConflicts(s)
           \/ CannotRebase(s) \/ Confirms(s) \/ CannotMerge(s) \/ ShipDies(s)
    PROVE  ShipInv' /\ PRsMove /\ QueueAside
<1> USE DEF Is
<1>1. OnlyReads /\ outages' \in 0..MaxOutage
  <2>1. OnlyReads /\ \E fails \in BOOLEAN : MayFail(fails)
    BY DEF Polls, TimesOut, FindsConflicts, FindsNoConflicts, CannotRebase, Confirms,
           CannotMerge, ShipDies, MayFail
  <2> QED BY <2>1, FailsTypes
<1>2. ship[s].pc \in ShipSteps /\ ship[s].rebases \in 0..MaxRebases
  BY DEF ShipInv, Record
<1>3. The(s) \in native => ~ Merged(s)
  BY DEF ShipInv, Merged, Open
<1>4. CASE Polls(s)
  <2>1. PICK pc \in {"siblings", "checks"} :
           Goes(s, pc) /\ (pc = "siblings" => Merged(s))
    BY <1>4 DEF Polls
  <2> QED BY <1>1, <1>3, <2>1, ShipTurns DEF ShipSteps, Asked, Over
<1>5. CASE TimesOut(s) \/ ShipDies(s)
  <2>1. Goes(s, "gave up")
    BY <1>5 DEF TimesOut, ShipDies
  <2> QED BY <1>1, <2>1, ShipTurns DEF ShipSteps, Asked, Over
<1>6. CASE FindsConflicts(s)
  <2>1. PICK pc \in {"off", "rebase"} :
           Goes(s, pc) /\ (pc = "rebase" => ship[s].rebases < MaxRebases)
    BY <1>6 DEF FindsConflicts
  <2> QED BY <1>1, <2>1, ShipTurns DEF ShipSteps, Asked, Over
<1>7. CASE FindsNoConflicts(s)
  <2>1. PICK pc \in {"confirm", "merge"} : Goes(s, pc) /\ Is(s, "conflicts")
    BY <1>7 DEF FindsNoConflicts
  <2> QED BY <1>1, <2>1, ShipTurns DEF ShipSteps, Asked, Over
<1>8. CASE CannotRebase(s)
  <2>1. Goes(s, "off")
    BY <1>8 DEF CannotRebase
  <2> QED BY <1>1, <2>1, ShipTurns DEF ShipSteps, Asked, Over
<1>9. CASE Confirms(s)
  <2>1. PICK pc \in {"siblings", "gave up", "merge green"} :
           /\ Goes(s, pc) /\ (pc = "siblings" => Merged(s))
           /\ pc = "merge green" => Is(s, "confirm")
    BY <1>9 DEF Confirms
  <2> QED BY <1>1, <1>3, <2>1, ShipTurns DEF ShipSteps, Asked, Over
<1>10. CASE CannotMerge(s)
  <2>1. PICK pc \in {"gave up", "again"} : Goes(s, pc)
    BY <1>10 DEF CannotMerge
  <2> QED BY <1>1, <2>1, ShipTurns DEF ShipSteps, Asked, Over
<1> QED BY <1>4, <1>5, <1>6, <1>7, <1>8, <1>9, <1>10

LEMMA SetsPc ==
    ASSUME NEW r \in Record, NEW pc \in ShipSteps
    PROVE  [r EXCEPT !.pc = pc] = [pc |-> pc, flag |-> r.flag, enabled |-> r.enabled,
                                   rebases |-> r.rebases, seen |-> r.seen,
                                   listed |-> r.listed]
BY DEF Record

LEMMA SetsFlag ==
    ASSUME NEW r \in Record, NEW flag \in Flags \cup {"green"}
    PROVE  [r EXCEPT !.flag = flag] = [pc |-> r.pc, flag |-> flag, enabled |-> r.enabled,
                                       rebases |-> r.rebases, seen |-> r.seen,
                                   listed |-> r.listed]
BY DEF Record

LEMMA SetsEnabled ==
    ASSUME NEW r \in Record, NEW works \in BOOLEAN
    PROVE  [r EXCEPT !.enabled = works] = [pc |-> r.pc, flag |-> r.flag, enabled |-> works,
                                           rebases |-> r.rebases, seen |-> r.seen,
                                   listed |-> r.listed]
BY DEF Record

(* The command begins.                                                     *)
LEMMA ShipStarts ==
    ASSUME TypeOK, ShipInv, NEW s \in Ship, Starts(s)
    PROVE  ShipInv' /\ PRsMove /\ QueueAside
<1>1. /\ ship \in [Ship -> Record] /\ ship[s] \in Record /\ Right(s, ship[s])
      /\ Is(s, "idle") /\ ~ Watched(ship[s]) /\ The(s) \in Open
  BY DEF ShipInv, Starts, shipWork, enableAutoMerge, shipAll, Is, Watched, Over
<1>2. outages' \in 0..MaxOutage
  <2>1. \E fails \in BOOLEAN : MayFail(fails)
    BY DEF Starts, shipWork, enableAutoMerge, shipAll, MayFail
  <2> QED BY <2>1, FailsTypes
<1>3. CASE shipWork(s)
  <2>1. PICK flag \in Flags :
          ship' = [ship EXCEPT ![s].pc = "checks", ![s].flag = flag]
    BY <1>3 DEF shipWork
  <2>11. PICK t \in Record :
          t = [pc |-> "checks", flag |-> ship[s].flag, enabled |-> ship[s].enabled,
               rebases |-> ship[s].rebases, seen |-> ship[s].seen,
               listed |-> ship[s].listed]
    BY <1>1 DEF Record, ShipSteps
  <2>12. ship' = [[ship EXCEPT ![s] = t] EXCEPT ![s].flag = flag]
    <3>1. [ship[s] EXCEPT !.pc = "checks"] = t
      BY <1>1, <2>11 DEF Record
    <3> QED BY <2>1, <3>1
  <2>2. PICK r \in Record :
          r = [pc |-> "checks", flag |-> flag, enabled |-> ship[s].enabled,
               rebases |-> ship[s].rebases, seen |-> ship[s].seen,
               listed |-> ship[s].listed]
    BY <1>1 DEF Record, ShipSteps
  <2>3. ship' = [ship EXCEPT ![s] = r]
    <3>1. [t EXCEPT !.flag = flag] = r
      BY <2>11, <2>2
    <3> QED BY <1>1, <2>12, <3>1
  <2>4. Right(s, r)
    BY <1>1, <2>2 DEF Right, Asked, Is
  <2>5. OnlyReads
    BY <1>3 DEF shipWork
  <2> QED BY <1>1, <1>2, <2>3, <2>4, <2>5, ShipReads
<1>4. CASE enableAutoMerge(s) \/ shipAll(s)
  <2>1. PICK works \in BOOLEAN, pc \in {"poll", "gave up"} :
          /\ ship' = [ship EXCEPT ![s].pc = pc, ![s].flag = "green", ![s].enabled = works]
          /\ native' = IF works THEN native \cup {The(s)} ELSE native
    BY <1>4 DEF enableAutoMerge, shipAll
  <2>2. PICK r \in Record :
          r = [pc |-> pc, flag |-> "green", enabled |-> works,
               rebases |-> ship[s].rebases, seen |-> ship[s].seen,
               listed |-> ship[s].listed]
    BY <1>1 DEF Record, ShipSteps
  <2>3. ship' = [ship EXCEPT ![s] = r]
    <3>1. PICK t \in Record :
            t = [pc |-> pc, flag |-> ship[s].flag, enabled |-> ship[s].enabled,
                 rebases |-> ship[s].rebases, seen |-> ship[s].seen,
               listed |-> ship[s].listed]
      BY <1>1 DEF Record, ShipSteps
    <3>2. PICK u \in Record :
            u = [pc |-> pc, flag |-> "green", enabled |-> ship[s].enabled,
                 rebases |-> ship[s].rebases, seen |-> ship[s].seen,
               listed |-> ship[s].listed]
      BY <1>1 DEF Record, ShipSteps
    <3>3. [u EXCEPT !.enabled = works] = r
      <4>1. u.pc = pc /\ u.flag = "green" /\ u.rebases = ship[s].rebases
            /\ u.seen = ship[s].seen /\ u.listed = ship[s].listed
        BY <3>2
      <4> QED BY ONLY <2>2, <4>1, SetsEnabled, u \in Record, works \in BOOLEAN
    <3>4. [ship EXCEPT ![s].pc = pc, ![s].flag = "green"] = [ship EXCEPT ![s] = u]
      <4>1. [ship[s] EXCEPT !.pc = pc] = t
        BY ONLY <1>1, <3>1, SetsPc, pc \in {"poll", "gave up"} DEF ShipSteps
      <4>2. [t EXCEPT !.flag = "green"] = u
        <5>1. t.pc = pc /\ t.enabled = ship[s].enabled /\ t.rebases = ship[s].rebases
              /\ t.seen = ship[s].seen /\ t.listed = ship[s].listed
          BY <3>1
        <5> QED BY ONLY <3>2, <5>1, SetsFlag, t \in Record
      <4> QED BY <1>1, <4>1, <4>2
    <3>5. ship' = [[ship EXCEPT ![s] = u] EXCEPT ![s].enabled = works]
      BY <2>1, <3>4
    <3> QED BY <1>1, <3>3, <3>5
  <2>4. QueueAside /\ UNCHANGED <<pr, shipped>>
    BY <1>4 DEF enableAutoMerge, shipAll
  <2>5. PRsMove
    BY <2>4, ReadsMove
  <2>6. Right(s, r)'
    <3>1. Right(s, r)
      BY <1>1, <2>2 DEF Right, Asked
    <3> QED BY <2>5, <3>1, RightStays
  <2>7. \A p \in native' : pr'[p].state = "OPEN"
    BY <1>1, <2>1, <2>4 DEF ShipInv, Open
  <2>8. works => Watched(r)
    BY <2>2 DEF Watched, Over
  <2>9. The(s) \in native' => Watched(r) \/ (The(s) \in native /\ ~ Watched(ship[s]))
    BY <1>1, <2>1, <2>8
  <2>10. native' \subseteq native \cup {The(s)} /\ shipped' \subseteq Ship
    BY <2>1, <2>4 DEF ShipInv
  <2>11. ShipInv'
    BY <1>2, <2>3, <2>5, <2>6, <2>7, <2>9, <2>10, ShipGoes
  <2> QED BY <2>4, <2>5, <2>11
<1> QED BY <1>3, <1>4 DEF Starts

LEMMA SetsSeen ==
    ASSUME NEW r \in Record, NEW seen \in Nat
    PROVE  [r EXCEPT !.seen = seen] = [pc |-> r.pc, flag |-> r.flag, enabled |-> r.enabled,
                                       rebases |-> r.rebases, seen |-> seen,
                                       listed |-> r.listed]
BY DEF Record

LEMMA SetsListed ==
    ASSUME NEW r \in Record, NEW listed \in SUBSET Check
    PROVE  [r EXCEPT !.listed = listed] = [pc |-> r.pc, flag |-> r.flag,
                                           enabled |-> r.enabled, rebases |-> r.rebases,
                                           seen |-> r.seen, listed |-> listed]
BY DEF Record

(* A ship looks at the checks, or at a gh that does not answer.             *)
LEMMA ShipSees ==
    ASSUME TypeOK, ShipInv, OnlyReads, NEW s \in Ship,
           NEW pc \in ShipSteps \ {"idle", "rebase"}, NEW seen \in Nat,
           NEW listed \in SUBSET Check,
           ship' = [ship EXCEPT ![s].pc = pc, ![s].seen = seen, ![s].listed = listed],
           ship[s].pc # "idle", pc \notin Over, outages' \in 0..MaxOutage,
           seen <= pr[The(s)].head,
           pc \in Asked /\ seen = pr[The(s)].head => Fine(The(s), listed)
    PROVE  ShipInv' /\ PRsMove /\ QueueAside
<1>1. ship \in [Ship -> Record] /\ ship[s] \in Record /\ Right(s, ship[s])
  BY DEF ShipInv
<1>2. PICK g \in Record : g = ship[s]
  BY <1>1
<1>3. PICK t \in Record : t = [pc |-> pc, flag |-> g.flag, enabled |-> g.enabled,
                               rebases |-> g.rebases, seen |-> g.seen,
                               listed |-> g.listed]
  BY DEF Record
<1>10. PICK v \in Record : v = [pc |-> pc, flag |-> g.flag, enabled |-> g.enabled,
                                rebases |-> g.rebases, seen |-> seen,
                                listed |-> g.listed]
  BY DEF Record
<1>4. PICK r \in Record : r = [pc |-> pc, flag |-> g.flag, enabled |-> g.enabled,
                               rebases |-> g.rebases, seen |-> seen,
                               listed |-> listed]
  BY DEF Record
<1>5. [g EXCEPT !.pc = pc] = t
  BY ONLY <1>3, SetsPc, g \in Record, pc \in ShipSteps
<1>6. [t EXCEPT !.seen = seen] = v
  <2>1. t.pc = pc /\ t.flag = g.flag /\ t.enabled = g.enabled /\ t.rebases = g.rebases
        /\ t.listed = g.listed
    BY <1>3
  <2> QED BY ONLY <1>10, <2>1, SetsSeen, t \in Record, seen \in Nat
<1>11. [v EXCEPT !.listed = listed] = r
  <2>1. v.pc = pc /\ v.flag = g.flag /\ v.enabled = g.enabled /\ v.rebases = g.rebases
        /\ v.seen = seen
    BY <1>10
  <2> QED BY ONLY <1>4, <2>1, SetsListed, v \in Record, listed \in SUBSET Check
<1>12. [ship EXCEPT ![s].pc = pc, ![s].seen = seen] = [ship EXCEPT ![s] = v]
  BY <1>1, <1>2, <1>5, <1>6
<1>7. ship' = [ship EXCEPT ![s] = r]
  BY <1>1, <1>11, <1>12
<1>8. Right(s, r)
  BY <1>1, <1>2, <1>4 DEF Right
<1>9. The(s) \in native /\ Watched(ship[s]) => Watched(r)
  BY <1>2, <1>4 DEF Watched
<1> QED BY <1>7, <1>8, <1>9, ShipReads

LEMMA ChecksSeen ==
    ASSUME TypeOK, ReadChecks, ShipInv, NEW s \in Ship, ReadsChecks(s) \/ ReadsNoChecks(s)
    PROVE  ShipInv' /\ PRsMove /\ QueueAside
<1>1. OnlyReads /\ outages' \in 0..MaxOutage /\ ship[s].pc # "idle"
  <2>1. OnlyReads /\ \E fails \in BOOLEAN : MayFail(fails)
    BY DEF ReadsChecks, ReadsNoChecks, MayFail
  <2> QED BY <2>1, FailsTypes DEF ReadsChecks, ReadsNoChecks, Is
<1>2. PICK p \in PR : p = The(s)
  BY ShipAssumption DEF The
<1>3. pr[p].head \in Nat \ {0}
  BY DEF TypeOK, PullRequest
<1>4. CASE ReadsNoChecks(s)
  <2>1. PICK pc \in {"merge", "conflicts"} :
          ship' = [ship EXCEPT ![s].pc = pc, ![s].seen = 0, ![s].listed = {}]
    BY <1>4 DEF ReadsNoChecks, AfterGreen
  <2>2. pc \in ShipSteps \ {"idle", "rebase"} /\ pc \notin Over
    BY <2>1 DEF ShipSteps, Over
  <2>3. PICK seen \in Nat : seen = 0
    OBVIOUS
  <2>4. seen <= pr[The(s)].head /\ ~ (seen = pr[The(s)].head)
    BY <1>2, <1>3, <2>3
  <2>6. PICK listed \in SUBSET Check : listed = {}
    OBVIOUS
  <2>5. ship' = [ship EXCEPT ![s].pc = pc, ![s].seen = seen, ![s].listed = listed]
    BY <2>1, <2>3, <2>6
  <2> QED BY ONLY TypeOK, ShipInv, s \in Ship, <1>1, <2>2, <2>4, <2>5, seen \in Nat,
                  listed \in SUBSET Check, ShipSees
<1>5. CASE ReadsChecks(s)
  <2>1. PICK pc \in {"poll", "checks", "off", "merge", "conflicts"} :
          /\ ship' = [ship EXCEPT ![s].pc = pc, ![s].seen = pr[p].head,
                                  ![s].listed = getPRChecks(p)]
          /\ pc \in {"merge", "conflicts"} => pending(p) = {} /\ failed(p) = {}
    BY <1>2, <1>5 DEF ReadsChecks, Read, AfterGreen
  <2>7. PICK listed \in SUBSET Check : listed = getPRChecks(p)
    BY DEF getPRChecks
  <2>2. pc \in {"merge", "conflicts"} => Fine(p, listed)
    BY <2>1, <2>7 DEF getPRChecks, pending, failed, Fine
  <2>3. PICK seen \in Nat : seen = pr[p].head
    BY <1>3
  <2>4. pc \in ShipSteps \ {"idle", "rebase"} /\ pc \notin Over
    BY <2>1 DEF ShipSteps, Over
  <2>5. seen <= pr[The(s)].head /\ (pc \in Asked => Fine(The(s), listed))
    <3>1. pc \in Asked => pc \in {"merge", "conflicts"}
      BY <2>1 DEF Asked
    <3>2. Fine(p, listed) => Fine(The(s), listed)
      BY <1>2 DEF Fine
    <3> QED BY <1>2, <1>3, <2>2, <2>3, <3>1, <3>2
  <2>6. ship' = [ship EXCEPT ![s].pc = pc, ![s].seen = seen, ![s].listed = listed]
    BY <2>1, <2>3, <2>7
  <2> QED BY ONLY TypeOK, ShipInv, s \in Ship, <1>1, <2>4, <2>5, <2>6, seen \in Nat,
                  listed \in SUBSET Check, ShipSees
<1> QED BY <1>4, <1>5

(* Auto-merge is switched off, or was never on.                             *)
LEMMA ShipDisables ==
    ASSUME TypeOK, ShipInv, NEW s \in Ship, disableAutoMerge(s)
    PROVE  ShipInv' /\ PRsMove /\ QueueAside
<1>1. ship \in [Ship -> Record] /\ ship[s] \in Record /\ Right(s, ship[s])
  BY DEF ShipInv
<1>2. PICK fails \in BOOLEAN :
        /\ Goes(s, IF fails THEN "gave up" ELSE "failed")
        /\ native' = IF ship[s].enabled /\ ~ fails THEN native \ {The(s)} ELSE native
        /\ MayFail(fails)
  BY DEF disableAutoMerge
<1>3. QueueAside /\ UNCHANGED <<pr, shipped>>
  BY DEF disableAutoMerge
<1>4. PICK g \in Record : g = ship[s]
  BY <1>1
<1>5. PICK pc \in {"gave up", "failed"} : pc = IF fails THEN "gave up" ELSE "failed"
  OBVIOUS
<1>6. PICK r \in Record : r = [pc |-> pc, flag |-> g.flag, enabled |-> g.enabled,
                               rebases |-> g.rebases, seen |-> g.seen,
                               listed |-> g.listed]
  BY <1>5 DEF Record, ShipSteps
<1>7. ship' = [ship EXCEPT ![s] = r]
  <2>1. [g EXCEPT !.pc = pc] = r
    BY ONLY <1>6, SetsPc, g \in Record, pc \in {"gave up", "failed"} DEF ShipSteps
  <2> QED BY <1>2, <1>4, <1>5, <2>1 DEF Goes
<1>8. PRsMove
  BY <1>3, ReadsMove
<1>9. Right(s, r)'
  <2>1. Right(s, r)
    BY <1>1, <1>4, <1>5, <1>6 DEF Right, Asked
  <2> QED BY <1>8, <2>1, RightStays
<1>10. native' \subseteq native
  BY <1>2
<1>11. \A p \in native' : pr'[p].state = "OPEN"
  BY <1>3, <1>10 DEF ShipInv, Open
<1>12. The(s) \in native' => \/ Watched(r)
                             \/ The(s) \in native /\ ~ Watched(ship[s])
  BY <1>2, <1>4, <1>5, <1>6, <1>10 DEF Watched, Over
<1>13. outages' \in 0..MaxOutage /\ shipped' \subseteq Ship
  BY <1>2, <1>3, FailsTypes DEF ShipInv
<1>14. ShipInv'
  BY <1>7, <1>8, <1>9, <1>10, <1>11, <1>12, <1>13, ShipGoes
<1> QED BY <1>3, <1>8, <1>14

LEMMA SetsRebases ==
    ASSUME NEW r \in Record, NEW n \in 0..MaxRebases
    PROVE  [r EXCEPT !.rebases = n] = [pc |-> r.pc, flag |-> r.flag, enabled |-> r.enabled,
                                       rebases |-> n, seen |-> r.seen,
                                   listed |-> r.listed]
BY DEF Record

(* The branch of p is updated, and its conflicts are settled or not.        *)
LEMMA UpdateMoves ==
    ASSUME TypeOK, NEW p \in PR, NEW conflict \in BOOLEAN,
           pr' = [BranchUpdated(p) EXCEPT ![p].conflict = conflict]
    PROVE  PRsMove /\ \A q \in PR : pr'[q].state = pr[q].state
<1>1. pr \in [PR -> PullRequest]
  BY DEF TypeOK
<1>2. PICK u \in [PR -> PullRequest] : u = BranchUpdated(p)
  BY <1>1, UpdatedTypes
<1>3. \A q \in PR : /\ u[q].state = pr[q].state
                    /\ \/ u[q] = pr[q]
                       \/ u[q].head = pr[q].head + 1 /\ u[q].ci = NoChecks
  BY <1>1, <1>2, UpdateStays, UpdatedTypes
<1>4. /\ pr' \in [PR -> PullRequest]
      /\ \A q \in PR : /\ pr'[q].state = u[q].state /\ pr'[q].head = u[q].head
                       /\ pr'[q].ci = u[q].ci
  BY <1>2 DEF PullRequest
<1> QED BY <1>3, <1>4 DEF PRsMove, Turned, StaysMerged

(* Someone merges p; the others keep their state.                           *)
LEMMA MergeMoves ==
    ASSUME TypeOK, NEW p \in PR, NEW S, pr' = MergedOnGitHub(p, S)
    PROVE  PRsMove /\ \A q \in PR \ {p} : pr'[q].state = pr[q].state
<1>1. pr \in [PR -> PullRequest] /\ \A q \in PR : pr[q] \in PullRequest
  BY DEF TypeOK
<1>2. PRsMove
  BY <1>1, MergedTypes, MergeStays DEF PRsMove, Turned
<1>3. \A q \in PR \ {p} : pr'[q].state = pr[q].state
  BY <1>1 DEF MergedOnGitHub, PullRequest
<1> QED BY <1>2, <1>3

(* rebaseOntoBase: the new head is one whose checks nobody has read.        *)
LEMMA ShipRebases ==
    ASSUME TypeOK, ShipInv, NEW s \in Ship, rebaseOntoBase(s)
    PROVE  ShipInv' /\ PRsMove /\ QueueAside
<1>1. ship \in [Ship -> Record] /\ ship[s] \in Record /\ Right(s, ship[s])
      /\ ship[s].pc = "rebase" /\ ship[s].rebases \in 0..MaxRebases
  BY DEF ShipInv, rebaseOntoBase, Is, Record
<1>2. PICK p \in PR : p = The(s)
  BY ShipAssumption DEF The
<1>3. PICK u \in [PR -> PullRequest] : u = BranchUpdated(p)
  BY UpdatedTypes DEF TypeOK
<1>4. PICK conflict \in BOOLEAN : conflict = (u[p].conflict /\ pr[p].state # "OPEN")
  OBVIOUS
<1>5. pr' = [BranchUpdated(p) EXCEPT ![p].conflict = conflict]
  BY <1>2, <1>3, <1>4 DEF rebaseOntoBase
<1>6. PRsMove /\ \A q \in PR : pr'[q].state = pr[q].state
  BY <1>5, UpdateMoves
<1>7. pr'[p].head \in Nat
  BY <1>6 DEF PRsMove, PullRequest
<1>8. PICK seen \in Nat : seen = pr'[p].head
  BY <1>7
<1>9. PICK pc \in {"poll", "checks"} :
        ship' = [ship EXCEPT ![s].pc = pc, ![s].rebases = @ + 1, ![s].seen = seen,
                             ![s].listed = Check]
  BY <1>2, <1>8 DEF rebaseOntoBase
<1>10. PICK g \in Record : g = ship[s]
  BY <1>1
<1>11. PICK n \in 0..MaxRebases : n = g.rebases + 1
  BY <1>1, <1>10, ShipAssumption DEF Right
<1>12. PICK t \in Record : t = [pc |-> pc, flag |-> g.flag, enabled |-> g.enabled,
                                rebases |-> g.rebases, seen |-> g.seen,
                               listed |-> g.listed]
  BY <1>9 DEF Record, ShipSteps
<1>13. PICK v \in Record : v = [pc |-> pc, flag |-> g.flag, enabled |-> g.enabled,
                                rebases |-> n, seen |-> g.seen,
                               listed |-> g.listed]
  BY <1>9 DEF Record, ShipSteps
<1>22. PICK x \in Record : x = [pc |-> pc, flag |-> g.flag, enabled |-> g.enabled,
                                rebases |-> n, seen |-> seen, listed |-> g.listed]
  BY <1>9 DEF Record, ShipSteps
<1>14. PICK r \in Record : r = [pc |-> pc, flag |-> g.flag, enabled |-> g.enabled,
                                rebases |-> n, seen |-> seen, listed |-> Check]
  BY <1>9 DEF Record, ShipSteps
<1>15. ship' = [ship EXCEPT ![s] = r]
  <2>1. [g EXCEPT !.pc = pc] = t
    BY ONLY <1>12, SetsPc, g \in Record, pc \in {"poll", "checks"} DEF ShipSteps
  <2>2. t.rebases + 1 = n
    BY <1>11, <1>12
  <2>3. [t EXCEPT !.rebases = n] = v
    <3>1. t.pc = pc /\ t.flag = g.flag /\ t.enabled = g.enabled /\ t.seen = g.seen
          /\ t.listed = g.listed
      BY <1>12
    <3> QED BY ONLY <1>13, <3>1, SetsRebases, t \in Record, n \in 0..MaxRebases
  <2>4. [v EXCEPT !.seen = seen] = x
    <3>1. v.pc = pc /\ v.flag = g.flag /\ v.enabled = g.enabled /\ v.rebases = n
          /\ v.listed = g.listed
      BY <1>13
    <3> QED BY ONLY <1>22, <3>1, SetsSeen, v \in Record, seen \in Nat
  <2>7. [x EXCEPT !.listed = Check] = r
    <3>1. x.pc = pc /\ x.flag = g.flag /\ x.enabled = g.enabled /\ x.rebases = n
          /\ x.seen = seen
      BY <1>22
    <3>2. Check \in SUBSET Check
      OBVIOUS
    <3> QED BY ONLY <1>14, <3>1, <3>2, SetsListed, x \in Record
  <2>5. [ship EXCEPT ![s].pc = pc] = [ship EXCEPT ![s] = t]
    BY <1>1, <1>10, <2>1
  <2>6. [ship EXCEPT ![s].pc = pc, ![s].rebases = @ + 1] = [ship EXCEPT ![s] = v]
    <3>1. PICK w \in [Ship -> Record] : w = [ship EXCEPT ![s] = t]
      BY <1>1
    <3>2. [w EXCEPT ![s].rebases = @ + 1] = [w EXCEPT ![s] = v]
      <4>1. w[s] = t
        BY <1>1, <3>1
      <4> QED BY <2>2, <2>3, <4>1
    <3>3. [w EXCEPT ![s] = v] = [ship EXCEPT ![s] = v]
      BY <1>1, <3>1
    <3>4. [ship EXCEPT ![s].pc = pc, ![s].rebases = @ + 1]
            = [[ship EXCEPT ![s].pc = pc] EXCEPT ![s].rebases = @ + 1]
      BY <1>1
    <3> QED BY <2>5, <3>1, <3>2, <3>3, <3>4
  <2>8. [ship EXCEPT ![s].pc = pc, ![s].rebases = @ + 1, ![s].seen = seen]
          = [ship EXCEPT ![s] = x]
    BY <1>1, <2>4, <2>6
  <2> QED BY <1>1, <1>9, <2>7, <2>8
<1>16. Right(s, r)'
  <2>1. r.pc \notin Asked /\ r.pc # "rebase" /\ r.pc # "idle" /\ r.seen = pr'[p].head
    BY <1>8, <1>9, <1>14 DEF Asked
  <2>2. r.enabled => r.flag = "green"
    BY <1>1, <1>10, <1>14 DEF Right
  <2>3. pr'[The(s)].head = r.seen
    BY <1>2, <2>1
  <2> QED BY <1>7, <1>8, <2>1, <2>2, <2>3 DEF Right, The
<1>17. QueueAside /\ UNCHANGED <<native, shipped>>
  BY DEF rebaseOntoBase
<1>18. \A q \in native' : pr'[q].state = "OPEN"
  BY <1>6, <1>17 DEF ShipInv, Open
<1>19. The(s) \in native' => \/ Watched(r)
                             \/ The(s) \in native /\ ~ Watched(ship[s])
  BY <1>9, <1>10, <1>14, <1>17 DEF Watched, Over
<1>20. outages' \in 0..MaxOutage /\ shipped' \subseteq Ship
         /\ native' \subseteq native \cup {The(s)}
  BY <1>17, FailsTypes DEF ShipInv, rebaseOntoBase
<1>21. ShipInv'
  BY <1>6, <1>15, <1>16, <1>18, <1>19, <1>20, ShipGoes
<1> QED BY <1>6, <1>17, <1>21

(* A step on the pull requests of which only the place in the loop comes    *)
(* out, with auto-merge off for good on those it takes.                     *)
LEMMA ShipActs ==
    ASSUME TypeOK, ShipInv, PRsMove, QueueAside, NEW s \in Ship,
           NEW pc \in {"siblings", "done", "gave up", "again"}, Goes(s, pc), native' \subseteq native, \A p \in native' : pr'[p].state = "OPEN",
           The(s) \notin native' \/ ~ Watched(ship[s]),
           outages' \in 0..MaxOutage, shipped' \subseteq Ship
    PROVE  ShipInv'
<1>1. ship \in [Ship -> Record] /\ Right(s, ship[s])
  BY DEF ShipInv
<1>2. PICK g \in Record : g = ship[s]
  BY <1>1
<1>3. PICK r \in Record : r = [pc |-> pc, flag |-> g.flag, enabled |-> g.enabled,
                               rebases |-> g.rebases, seen |-> g.seen,
                               listed |-> g.listed]
  BY DEF Record, ShipSteps
<1>4. ship' = [ship EXCEPT ![s] = r]
  <2>1. [g EXCEPT !.pc = pc] = r
    BY ONLY <1>3, SetsPc, g \in Record, pc \in {"siblings", "done", "gave up", "again"}
       DEF ShipSteps
  <2> QED BY <1>2, <2>1 DEF Goes
<1>5. Right(s, r)'
  <2>1. Right(s, r)
    BY <1>1, <1>2, <1>3 DEF Right, Asked
  <2> QED BY <2>1, RightStays
<1>6. The(s) \in native' => \/ Watched(r)
                            \/ The(s) \in native /\ ~ Watched(ship[s])
  OBVIOUS
<1>7. native' \subseteq native \cup {The(s)}
  OBVIOUS
<1> QED BY <1>4, <1>5, <1>6, <1>7, ShipGoes

LEMMA ShipMerges ==
    ASSUME TypeOK, ShipInv, NEW s \in Ship, Merges(s)
    PROVE  ShipInv' /\ PRsMove /\ QueueAside
<1>1. PICK p \in PR : p = The(s)
  BY ShipAssumption DEF The
<1>2. PICK S : pr' = MergedOnGitHub(p, S)
  BY <1>1 DEF Merges
<1>3. PRsMove /\ \A q \in PR \ {p} : pr'[q].state = pr[q].state
  BY <1>2, MergeMoves
<1>4. native' = native \ {p} /\ QueueAside
      /\ shipped' = shipped \cup {s} /\ outages' \in 0..MaxOutage
  BY <1>1, FailsTypes DEF Merges
<1>5. \A q \in native' : pr'[q].state = "OPEN"
  BY <1>3, <1>4 DEF ShipInv, Open
<1>6. The(s) \notin native' /\ native' \subseteq native /\ shipped' \subseteq Ship
  BY <1>1, <1>4 DEF ShipInv
<1>8. PICK pc \in {"siblings", "done", "gave up", "again"} : Goes(s, pc)
  BY DEF Merges
<1>9. ShipInv'
  BY ONLY TypeOK, ShipInv, s \in Ship, <1>3, <1>4, <1>5, <1>6, <1>8, ShipActs,
     pc \in {"siblings", "done", "gave up", "again"}
<1> QED BY <1>3, <1>4, <1>9

(* The siblings that conflict are updated, all in one step.                 *)
LEMMA SiblingsMove ==
    ASSUME TypeOK, NEW S \in SUBSET PR,
           pr' = [p \in PR |-> IF p \in S
                               THEN [BranchUpdated(p)[p] EXCEPT !.conflict = FALSE]
                               ELSE pr[p]]
    PROVE  PRsMove /\ \A q \in PR : pr'[q].state = pr[q].state
<1>1. pr \in [PR -> PullRequest]
  BY DEF TypeOK
<1>2. ASSUME NEW p \in S
      PROVE  /\ pr'[p] \in PullRequest /\ pr'[p].state = pr[p].state
             /\ Turned(p, Check)
  <2>1. PICK b \in PullRequest : b = BranchUpdated(p)[p]
    BY <1>1, UpdatedTypes
  <2>2. /\ b.state = pr[p].state
        /\ \/ b = pr[p]
           \/ b.head = pr[p].head + 1 /\ b.ci = NoChecks
    BY <1>1, <2>1, UpdateStays, UpdatedTypes
  <2>3. pr'[p] = [b EXCEPT !.conflict = FALSE]
    BY <2>1
  <2>4. /\ pr'[p] \in PullRequest /\ pr'[p].state = b.state /\ pr'[p].head = b.head
        /\ pr'[p].ci = b.ci
    BY <2>3 DEF PullRequest
  <2> QED BY <2>2, <2>4 DEF Turned
<1>3. ASSUME NEW p \in PR \ S
      PROVE  pr'[p] = pr[p]
  OBVIOUS
<1>4. \A p \in PR : /\ pr'[p] \in PullRequest /\ pr'[p].state = pr[p].state
                    /\ Turned(p, Check)
  BY <1>1, <1>2, <1>3 DEF Turned
<1>5. pr' \in [PR -> PullRequest]
  <2>1. pr' = [p \in PR |-> pr'[p]]
    OBVIOUS
  <2> QED BY <1>4, <2>1
<1> QED BY <1>4, <1>5 DEF PRsMove, StaysMerged

LEMMA ShipRebasesSiblings ==
    ASSUME TypeOK, ShipInv, NEW s \in Ship, RebasesSiblings(s)
    PROVE  ShipInv' /\ PRsMove /\ QueueAside
<1>1. PICK S \in SUBSET PR :
        pr' = [p \in PR |-> IF p \in S
                            THEN [BranchUpdated(p)[p] EXCEPT !.conflict = FALSE]
                            ELSE pr[p]]
  BY DEF RebasesSiblings, Open
<1>2. PRsMove /\ \A q \in PR : pr'[q].state = pr[q].state
  BY <1>1, SiblingsMove
<1>3. native' = native /\ shipped' = shipped /\ QueueAside /\ Goes(s, "done")
      /\ outages' \in 0..MaxOutage /\ ~ Watched(ship[s])
  BY FailsTypes DEF RebasesSiblings, Is, Watched, Over
<1>4. \A q \in native' : pr'[q].state = "OPEN"
  BY <1>2, <1>3 DEF ShipInv, Open
<1>5. PICK pc \in {"siblings", "done", "gave up", "again"} : pc = "done"
  OBVIOUS
<1>6. Goes(s, pc)
  BY <1>3, <1>5
<1>7. native' \subseteq native /\ shipped' \subseteq Ship
  BY <1>3 DEF ShipInv
<1>8. ShipInv'
  BY ONLY TypeOK, ShipInv, s \in Ship, <1>2, <1>3, <1>4, <1>6, <1>7, ShipActs,
     pc \in {"siblings", "done", "gave up", "again"}
<1> QED BY <1>2, <1>3, <1>8

(* The ships stand still while something else moves the pull requests.      *)
LEMMA ShipsStand ==
    ASSUME TypeOK, ShipInv, PRsMove, UNCHANGED <<ship, outages, shipped>>,
           native' \subseteq native, \A p \in native' : pr'[p].state = "OPEN"
    PROVE  ShipInv'
<1>1. ASSUME NEW s \in Ship PROVE Right(s, ship[s])'
  <2>1. PICK r : r = ship[s]
    OBVIOUS
  <2>2. Right(s, r)'
    BY <2>1, RightStays DEF ShipInv
  <2> QED BY <2>1, <2>2 DEF Right, The, Fine
<1>2. native' \subseteq Open'
  BY DEF ShipInv, Open
<1>3. NativeOnlyWhileWatched'
  BY DEF ShipInv, NativeOnlyWhileWatched, The
<1> QED BY <1>1, <1>2, <1>3 DEF ShipInv

(* They stand still while the queue, CI and the authors act: what has been   *)
(* run again is no longer among the checks they have seen.                  *)
LEMMA ShipsStandAside ==
    ASSUME TypeOK, TypeOK', ShipInv, OthersAct, \A p \in PR : Turned(p, Check \ RunAgain(p))
    PROVE  ShipInv'
<1>1. /\ ship' = [s \in Ship |-> [ship[s] EXCEPT !.listed = @ \ RunAgain(The(s))]]
      /\ native' = {p \in native : pr'[p].state = "OPEN"}
      /\ UNCHANGED <<outages, shipped>>
  BY DEF OthersAct
<1>2. ASSUME NEW s \in Ship
      PROVE  /\ ship'[s] \in Record /\ ship'[s].pc = ship[s].pc
             /\ ship'[s].enabled = ship[s].enabled
             /\ Right(s, ship[s])'
  <2>1. PICK r \in Record : r = ship[s] /\ Right(s, r)
    BY DEF ShipInv
  <2>2. PICK p \in PR : p = The(s)
    BY ShipAssumption DEF The
  <2>3. PICK C \in SUBSET Check : C = r.listed \ RunAgain(p)
    BY <2>1 DEF Record
  <2>4. PICK q \in Record : q = [r EXCEPT !.listed = C]
    BY <2>1 DEF Record
  <2>5. /\ q.pc = r.pc /\ q.flag = r.flag /\ q.enabled = r.enabled
        /\ q.rebases = r.rebases /\ q.seen = r.seen /\ q.listed = C
    BY <2>4 DEF Record
  <2>6. ship'[s] = q
    BY <1>1, <2>1, <2>2, <2>3, <2>4
  <2>7. Turned(The(s), q.listed) /\ q.listed \subseteq r.listed
    <3>1. C \subseteq Check \ RunAgain(p)
      BY <2>3
    <3>2. Turned(p, C)
      BY <3>1 DEF Turned
    <3> QED BY <2>2, <2>3, <2>5, <3>2
  <2>8. Right(s, q)'
    BY <2>1, <2>5, <2>7, RightTurns DEF TypeOK
  <2> QED BY <2>1, <2>5, <2>6, <2>8 DEF Right, The, Fine
<1>3. ship' \in [Ship -> Record]
  BY <1>1, <1>2
<1>4. native' \subseteq Open'
  BY <1>1 DEF ShipInv, Open
<1>5. NativeOnlyWhileWatched'
  <2>1. \A s \in Ship : /\ ship'[s].pc = ship[s].pc
                        /\ ship'[s].enabled = ship[s].enabled
    BY <1>2
  <2>2. \A p \in native' : \E s \in Ship :
           /\ The(s) = p /\ ship[s].enabled
           /\ ship[s].pc \notin {"idle", "failed", "siblings", "done"}
    BY <1>1 DEF ShipInv, NativeOnlyWhileWatched
  <2> QED BY <2>1, <2>2 DEF NativeOnlyWhileWatched, The
<1> QED BY <1>1, <1>2, <1>3, <1>4, <1>5 DEF ShipInv

LEMMA NativeKeeps ==
    ASSUME TypeOK, ShipInv, NEW p \in PR, NativeMerges(p)
    PROVE  ShipInv' /\ PRsMove /\ QueueAside
<1>1. PICK S : pr' = MergedOnGitHub(p, S)
  BY DEF NativeMerges
<1>2. PRsMove /\ \A q \in PR \ {p} : pr'[q].state = pr[q].state
  BY <1>1, MergeMoves
<1>3. native' = native \ {p} /\ UNCHANGED <<ship, outages, shipped>> /\ QueueAside
  BY DEF NativeMerges
<1>4. \A q \in native' : pr'[q].state = "OPEN"
  BY <1>2, <1>3 DEF ShipInv, Open
<1> QED BY <1>2, <1>3, <1>4, ShipsStand

LEMMA ShipKeeps ==
    ASSUME QueueInv, ShipInv, [ShipNext]_allVars
    PROVE  QueueInv' /\ ShipInv'
<1>1. TypeOK /\ ReadChecks
  BY DEF QueueInv
<1>2. ASSUME ShipInv', PRsMove, QueueAside PROVE QueueInv' /\ ShipInv'
  BY <1>2, AsideKeeps
<1>3. ASSUME NEW s \in Ship, Starts(s) \/ watchAndShip(s) \/ ShipDies(s)
      PROVE  ShipInv' /\ PRsMove /\ QueueAside
  <2>1. CASE Starts(s)
    BY <1>1, <2>1, ShipStarts
  <2>2. CASE ReadsChecks(s) \/ ReadsNoChecks(s)
    BY <1>1, <2>2, ChecksSeen
  <2>3. CASE rebaseOntoBase(s)
    BY <1>1, <2>3, ShipRebases
  <2>4. CASE Merges(s)
    BY <1>1, <2>4, ShipMerges
  <2>5. CASE disableAutoMerge(s)
    BY <1>1, <2>5, ShipDisables
  <2>6. CASE RebasesSiblings(s)
    BY <1>1, <2>6, ShipRebasesSiblings
  <2>7. CASE \/ Polls(s) \/ TimesOut(s) \/ FindsConflicts(s) \/ FindsNoConflicts(s)
             \/ CannotRebase(s) \/ Confirms(s) \/ CannotMerge(s) \/ ShipDies(s)
    BY <1>1, <2>7, LoopTurns
  <2> QED BY <1>3, <2>1, <2>2, <2>3, <2>4, <2>5, <2>6, <2>7 DEF watchAndShip
<1>4. CASE \E p \in PR : NativeMerges(p)
  <2>1. PICK p \in PR : NativeMerges(p)
    BY <1>4
  <2>2. ShipInv' /\ PRsMove /\ QueueAside
    BY <1>1, <2>1, NativeKeeps
  <2> QED BY <1>2, <2>2
<1>5. CASE OthersAct
  <2>1. QueueInv' /\ TypeOK'
    BY <1>5, NextKeeps DEF OthersAct, QueueInv
  <2>2. \A p \in PR : Turned(p, Check \ RunAgain(p))
    BY <1>1, <1>5, NextMoves DEF OthersAct
  <2> QED BY <1>1, <1>5, <2>1, <2>2, ShipsStandAside
<1>6. CASE UNCHANGED allVars
  <2>1. UNCHANGED <<ship, native, outages, shipped, pr>> /\ UNCHANGED vars
    BY <1>6 DEF allVars, shipVars, vars
  <2>2. QueueInv'
    BY <2>1, NextKeeps
  <2>3. PRsMove
    BY <1>1, <2>1, ReadsMove
  <2>4. \A p \in native' : pr'[p].state = "OPEN"
    BY <2>1 DEF ShipInv, Open
  <2> QED BY <1>1, <2>1, <2>2, <2>3, <2>4, ShipsStand
<1> QED BY <1>2, <1>3, <1>4, <1>5, <1>6 DEF ShipNext

LEMMA ShipInitKeeps ==
    ASSUME Init, ShipInit
    PROVE  QueueInv /\ ShipInv
<1>1. QueueInv
  BY InitTypes, InitRebased, InitChecked, InitRecords DEF Init, QueueInv
<1>2. NotStarted \in Record
  BY ShipAssumption DEF NotStarted, Record, ShipSteps, Flags
<1>3. ASSUME NEW s \in Ship PROVE Right(s, NotStarted)
  <2>1. pr[The(s)].head \in Nat
    BY <1>1, ShipAssumption DEF QueueInv, TypeOK, The, PullRequest
  <2> QED BY <1>2, <2>1 DEF Right, NotStarted, Asked
<1>4. ShipInv
  BY <1>2, <1>3, ShipAssumption DEF ShipInit, ShipInv, NativeOnlyWhileWatched
<1> QED BY <1>1, <1>4

LEMMA ShipInvariant == ShipSpec => [](QueueInv /\ ShipInv)
<1>1. Init /\ ShipInit => QueueInv /\ ShipInv
  BY ShipInitKeeps
<1>2. (QueueInv /\ ShipInv) /\ [ShipNext]_allVars => (QueueInv /\ ShipInv)'
  BY ShipKeeps
<1> QED BY <1>1, <1>2, PTL DEF ShipSpec

(* Whatever ships, native auto-merge and the authors do beside it, the      *)
(* queue stays typed, merges only what it has rebased and forgets no merge  *)
(* (merge-queue.ts:38-495 beside auto-merge.ts:163-390).                    *)
THEOREM QueueBesideShips == ShipSpec => [](TypeOK /\ MergedWasRebased /\ MergeIsRecorded)
<1>1. QueueInv => TypeOK /\ MergedWasRebased /\ MergeIsRecorded
  BY RecordingSuffices DEF QueueInv, OnlyRebased, MergedWasRebased
<1> QED BY <1>1, ShipInvariant, PTL

(* A ship is in a known place of its loop, rebases no more than the limit,  *)
(* and native auto-merge is on only for open pull requests                  *)
(* (auto-merge.ts:163-390, work-service.ts:180-360).                        *)
THEOREM ShipsTyped == ShipSpec => []ShipTypeOK
<1>1. ShipInv => ShipTypeOK
  BY DEF ShipInv, ShipTypeOK, Right, Record, ShipSteps, Watches
<1> QED BY <1>1, ShipInvariant, PTL

(* GitHub's auto-merge is on only for a ship that switched it on and still  *)
(* watches, or that ended in a way that leaves it on: no red check and no   *)
(* conflict the ship reports leaves a merge behind it, for any number of    *)
(* ships of the same pull request (auto-merge.ts:174-390).                  *)
THEOREM AutoMergeIsWatched == ShipSpec => []NativeOnlyWhileWatched
<1>1. ShipInv => NativeOnlyWhileWatched
  BY DEF ShipInv
<1> QED BY <1>1, ShipInvariant, PTL

(* When a ship's merge goes through on the head it saw, every check it saw  *)
(* of that head (every check there is, if the head is of its own rebase and  *)
(* not read since) has ended and has not failed, unless it was run again,   *)
(* whatever the queue, other ships, CI and the authors did between its calls *)
(* (auto-merge.ts:208-351).  What it saw may be a part of the checks.       *)
THEOREM NothingUntestedShipped == ShipSpec => ShippedAsSeen
<1> DEFINE A == \A s \in shipped' \ shipped : ship[s].seen = pr[The(s)].head =>
          \A c \in ship[s].listed :
             pr[The(s)].ci[c] \notin {"absent", "pending", "FAILURE"}
<1>1. (QueueInv /\ ShipInv) /\ [ShipNext]_allVars => [A]_shipped
  <2> SUFFICES ASSUME ShipInv, [ShipNext]_allVars, shipped' # shipped PROVE A
    OBVIOUS
  <2>1. PICK s \in Ship : Merges(s)
    BY DEF ShipNext, allVars, shipVars, Starts, shipWork, enableAutoMerge, shipAll,
           watchAndShip, Polls, TimesOut, ReadsChecks, ReadsNoChecks, FindsConflicts,
           FindsNoConflicts, rebaseOntoBase, CannotRebase, Confirms, CannotMerge,
           disableAutoMerge, RebasesSiblings, ShipDies, NativeMerges, OthersAct, OnlyReads
  <2>2. shipped' = shipped \cup {s} /\ ship[s].pc \in {"merge", "merge green"}
    BY <2>1 DEF Merges, Is
  <2>3. ship[s].seen = pr[The(s)].head => Fine(The(s), ship[s].listed)
    BY <2>2 DEF ShipInv, Right, Asked
  <2> QED BY <2>2, <2>3 DEF Fine
<1> HIDE DEF A
<1>2. ShipSpec => [][A]_shipped
  BY <1>1, ShipInvariant, PTL DEF ShipSpec
<1> QED BY <1>2 DEF A, ShippedAsSeen

(* The queue, too, merges a commit whose checks it read only while those    *)
(* listed then have ended and not failed, with ships beside it              *)
(* (merge-queue.ts:351-389).                                               *)
THEOREM NoFailureBesideShips == ShipSpec => MergedWithoutFailure
<1>1. (QueueInv /\ ShipInv) /\ [ShipNext]_allVars => [MergesPassed]_merged
  <2> SUFFICES ASSUME QueueInv, [ShipNext]_allVars, merged' # merged PROVE MergesPassed
    OBVIOUS
  <2>1. Next
    BY DEF ShipNext, allVars, vars, history, Starts, shipWork, enableAutoMerge, shipAll,
           watchAndShip, Polls, TimesOut, ReadsChecks, ReadsNoChecks, FindsConflicts,
           FindsNoConflicts, rebaseOntoBase, CannotRebase, Confirms, Merges, CannotMerge,
           disableAutoMerge, RebasesSiblings, ShipDies, NativeMerges, OthersAct, OnlyReads,
           QueueAside
  <2> QED BY <2>1, NextPassed DEF QueueInv
<1>2. ShipSpec => [][MergesPassed]_merged
  BY <1>1, ShipInvariant, PTL DEF ShipSpec
<1> QED BY <1>2 DEF MergesPassed, MergedWithoutFailure
=============================================================================
