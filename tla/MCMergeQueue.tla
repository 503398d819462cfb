----------------------------- MODULE MCMergeQueue -----------------------------
(* Small instances of MergeQueue: the first pull request of a run is urgent *)
(* and younger than the others.                                             *)
EXTENDS MergeQueue

CONSTANTS p1, p2

MCPriority == [p \in PR |-> IF p = p1 THEN 0 ELSE 3]
MCCreated == [p \in PR |-> IF p = p1 THEN 2 ELSE 1]

(* A run has commands and a crashing daemon over p1 alone; or a push, a      *)
(* failing gh and a crashing daemon over p1 alone; or two pull requests of  *)
(* which p2 is in conflict until it is rebased after the merge of p1.       *)
NobodyCommands == [o \in Operators |-> [NoCommand EXCEPT !.pc = "never"]]
Commanded ==
    /\ Beginning(TRUE, {p1}) /\ ops = [o \in Operators |-> NoCommand]
    /\ pushes = MaxPush /\ failures = MaxFailure /\ crashes = 0
Failing ==
    /\ Beginning(TRUE, {p1}) /\ ops = NobodyCommands
    /\ pushes = 0 /\ failures = 0 /\ crashes = 0
WithSibling ==
    /\ Beginning(TRUE, PR) /\ ops = NobodyCommands
    /\ ~ pr[p1].behind /\ pr[p2].conflict /\ \A p \in PR : ~ pr[p].refused
    /\ pushes = MaxPush /\ failures = MaxFailure /\ crashes = MaxCrash

MCSpec == (Commanded \/ Failing \/ WithSibling) /\ [][Next]_vars
=============================================================================
