--------------------------- MODULE MCSessionWatcher ---------------------------
(* Small instances of SessionWatcher: e1 runs in a container, e2 on the     *)
(* host.                                                                    *)
EXTENDS SessionWatcher

CONSTANTS e1, e2, box

MCEnvOf == [e \in Execution |-> IF e = e1 THEN box ELSE Host]
=============================================================================
