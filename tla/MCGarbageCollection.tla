-------------------------- MODULE MCGarbageCollection --------------------------
(* Collectors beside starts whose tickets MCAgentWorkspace chooses.         *)
EXTENDS GarbageCollection, MCAgentWorkspace

(* Collections by the command only.                                         *)
CommandSpec == GCInit /\ [][GCNext /\ gc'[Daemon] = NotCollecting]_allVars
=============================================================================
