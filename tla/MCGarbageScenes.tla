--------------------------- MODULE MCGarbageScenes ---------------------------
(* A run plays one of three scenes: commands over all names, one of them in *)
(* the midst of its discovery at a time; the discoveries of all commands,   *)
(* and starts, over one name; or collectors beside one start with one name, *)
(* one collection at a time.                                               *)
EXTENDS MCGarbageCollection

VARIABLE scene

MCInit == GCInit /\ scene \in {"commands", "discoveries", "collectors"}

AtMostOne(S) == \A x, y \in S : x = y

OneName == AtMostOne({agent'[s] : s \in Starts} \ {NoName})

InDiscovery == {p \in Commands : pc'[p] \in {"sync", "read", "scan", "register"}}
OnlyDiscovering == \A c \in Cleaners : pc'[c] \in DiscoveryPc

Commanding == Next /\ AtMostOne(InDiscovery) /\ UNCHANGED gcVars

Discoveries == Next /\ OneName /\ OnlyDiscovering /\ UNCHANGED gcVars

Collecting ==
    /\ GCNext
    /\ OneName
    /\ AtMostOne({s \in Starts : pc'[s] # "idle"})
    /\ AtMostOne({g \in Collectors : gc'[g].pc # "idle"})
    /\ AtMostOne(InDiscovery) /\ OnlyDiscovering
    /\ \A g \in Collectors : gc'[g].pc # "idle" => InDiscovery \subseteq Starts

MCNext ==
    /\ UNCHANGED scene
    /\ \/ scene = "commands" /\ Commanding
       \/ scene = "discoveries" /\ Discoveries
       \/ scene = "collectors" /\ Collecting

MCSpec == MCInit /\ [][MCNext]_<<allVars, scene>>
=============================================================================
