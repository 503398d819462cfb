---------------------------- MODULE MCSwitchboard ----------------------------
(***************************************************************************)
(* Small instances of Switchboard for TLC.                                 *)
(***************************************************************************)
EXTENDS Switchboard, TLC

CONSTANTS c1, c2, c3, a1, a2

MCTwo == [c \in {c1, c2} |-> IF c = c1 THEN a1 ELSE a2]
(* Two processes of one address: c2 and c3 share the queue of a2.           *)
MCShared == [c \in {c1, c2, c3} |-> IF c = c1 THEN a1 ELSE a2]

(* A call expires before a cast, a cast before an event.                    *)
MCTTL == [p \in Pattern |-> IF p \in {"call", "reply"} THEN 0 ELSE 1]

(* Nothing tells the two processes of a2 apart.                             *)
MCSymmetry == Permutations({c2, c3})
=============================================================================
