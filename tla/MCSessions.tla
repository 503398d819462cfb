------------------------------ MODULE MCSessions ------------------------------
(* Sessions of agents, watched and written to, one scene each: the watcher, *)
(* and the gateway, which share nothing.  (What is fair of one scene is     *)
(* disabled in the other.)                                                 *)
EXTENDS MCSessionWatcher, Gateway

CONSTANTS g1, g2, s1, u1, u2

(* One process binds new users to s1; the other is started without one.     *)
MCDefaultAgent == [g \in Gateway |-> IF g = g1 THEN s1 ELSE NoSession]

VARIABLE scene

MCInit == Init /\ GatewayInit /\ scene \in {"watcher", "gateway"}

(* With no start left the gateway may rest: no deadlock.                    *)
NoMoreStarts ==
    /\ scene = "gateway" /\ starts = MaxStart /\ Len(update) = MaxUpdate
    /\ \A g \in Gateway : gateway[g].pc = "off"

MCNext ==
    /\ UNCHANGED scene
    /\ \/ scene = "watcher" /\ Next /\ UNCHANGED gatewayVars
       \/ scene = "gateway" /\ GatewayNext /\ UNCHANGED vars
       \/ NoMoreStarts /\ UNCHANGED <<vars, gatewayVars>>

MCSpec ==
    /\ MCInit /\ [][MCNext]_<<vars, gatewayVars, scene>>
    /\ \A w \in Cycle : WF_vars(scene = "watcher" /\ runCycle(w))
    /\ \A e \in Execution : SF_vars(HeartbeatAges(e))
    /\ \A g \in Gateway : WF_gatewayVars(RunsLoop(g))
=============================================================================
