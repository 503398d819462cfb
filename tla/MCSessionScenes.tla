--------------------------- MODULE MCSessionScenes ----------------------------
(* A run plays one of these scenes: cleanups over both executions; the      *)
(* watcher over both, with probes that work; everything over e1 alone.      *)
EXTENDS MCSessionWatcher

VARIABLE scene

MCInit == Init /\ scene \in {"cleanups", "cycles", "all"}

InScene ==
    /\ scene = "cleanups" =>
          UNCHANGED <<cmd, watcherVars, [e \in Execution |-> work[e].fresh]>>
    /\ scene = "cycles" => /\ UNCHANGED <<cmd, cleaner, docker>>
                           /\ \A env \in Env : server'[env] # "error"
    /\ scene = "all" => work'[e2].status = "none"

MCNext == Next /\ InScene /\ UNCHANGED scene

MCSpec == MCInit /\ [][MCNext]_<<vars, scene>>
=============================================================================
