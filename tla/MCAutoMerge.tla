------------------------------ MODULE MCAutoMerge ------------------------------
(* Small instances of AutoMerge: the first pull request of a run is urgent  *)
(* and younger than the others; the ships are for it.                       *)
EXTENDS AutoMerge

CONSTANTS p1, p2, s1

MCPriority == [p \in PR |-> IF p = p1 THEN 0 ELSE 3]
MCCreated == [p \in PR |-> IF p = p1 THEN 2 ELSE 1]
MCShipOf == [s \in Ship |-> p1]

(* Five beginnings: the queue alone, with all pull requests in conflict; a  *)
(* ship beside the queue on the only pull request; a ship without the       *)
(* daemon while p2 waits in conflict; a ship alone with an author who       *)
(* pushes or runs a check again; all ships on the only pull request.        *)
Starting(S) ==
    ship = [s \in Ship |-> [NotStarted EXCEPT !.pc = IF s \in S THEN "idle"
                                                     ELSE "done"]]

Begins(pushing, runs, open) ==
    /\ Beginning(runs, open)
    /\ ops = [o \in Operators |-> NoCommand]
    /\ pushes = MaxPush - pushing
    /\ failures = MaxFailure /\ crashes = MaxCrash

MCInit ==
    /\ native = {} /\ outages = 0 /\ shipped = {}
    /\ \/ Starting({}) /\ Begins(0, TRUE, PR) /\ \A p \in PR : pr[p].conflict
       \/ Starting({s1}) /\ Begins(0, TRUE, {p1})
       \/ Starting({s1}) /\ Begins(0, FALSE, PR) /\ ~ pr[p1].behind /\ pr[p2].conflict
       \/ Starting({s1}) /\ Begins(1, FALSE, {p1})
       \/ Starting(Ship) /\ Begins(0, FALSE, {p1})

MCSpec == MCInit /\ [][ShipNext]_allVars
================================================================================
