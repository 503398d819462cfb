------------------------------- MODULE Mailbox -------------------------------
(***************************************************************************)
(* What the switchboard promises of messages                               *)
(* (apps/cli/src/lib/switchboard/types.ts): a message lies in the box of    *)
(* its address, where each process of the address takes it at most once;    *)
(* only who took a call answers it, and a call returns one answer, of the   *)
(* callee, or fails.  Implemented by Switchboard.                          *)
(***************************************************************************)
CONSTANTS Row, Message, NoMessage, Client, AddressOf, NoAddress

VARIABLES letter,     \* the message of a row
          stage,      \* how far it has come
          taken,      \* the rows a process has taken
          returned    \* the replies that calls returned

mailVars == <<letter, stage, taken, returned>>

Becomes(R, s) == stage' = [r \in Row |-> IF r \in R THEN s ELSE stage[r]]

(* What was deleted stays so, whoever still holds it.                       *)
Marked(r, s) == Becomes({r} \ {q \in Row : stage[q] = "purged"}, s)

Unanswered(call) == \A r \in returned : letter[r].call # call

Sends(c, r) ==
    /\ stage[r] = "none" /\ Becomes({r}, "pending")
    /\ \E m \in Message :
          /\ m.from = AddressOf[c]
          /\ m.pattern = "event" => m.to = NoAddress
          /\ m.pattern = "reply" => /\ m.call \in taken[c]
                                    /\ letter[m.call].pattern = "call"
                                    /\ letter[m.call].from = m.to
          /\ letter' = [letter EXCEPT ![r] = m]
    /\ UNCHANGED <<taken, returned>>

Takes(c, r) ==
    /\ stage[r] # "none" /\ letter[r].to = AddressOf[c] /\ r \notin taken[c]
    /\ taken' = [taken EXCEPT ![c] = @ \cup {r}]
    /\ Marked(r, "delivered")
    /\ UNCHANGED <<letter, returned>>

(* Events have no box: whoever subscribes reads them, again after a crash.  *)
Reads(c, R) ==
    /\ \A r \in R : stage[r] # "none" /\ letter[r].pattern = "event"
    /\ taken' = [taken EXCEPT ![c] = @ \cup R]
    /\ UNCHANGED <<letter, stage, returned>>

Returns(c, r) ==
    /\ stage[r] # "none" /\ letter[r].pattern = "reply" /\ letter[r].to = AddressOf[c]
    /\ LET call == letter[letter[r].call] IN
          call.pattern = "call" /\ call.from = AddressOf[c] /\ call.to = letter[r].from
    /\ Unanswered(letter[r].call) /\ stage[letter[r].call] # "failed"
    /\ returned' = returned \cup {r}
    /\ Marked(r, "delivered")
    /\ UNCHANGED <<letter, taken>>

Fails(c, r) ==
    /\ stage[r] # "none" /\ letter[r].pattern = "call" /\ letter[r].from = AddressOf[c]
    /\ Unanswered(r) /\ stage[r] # "failed"
    /\ Marked(r, "failed")
    /\ UNCHANGED <<letter, taken, returned>>

(* The daemon settles events, and messages that grow old.                   *)
Settles(r) ==
    /\ stage[r] # "none" /\ letter[r].pattern = "event"
    /\ Marked(r, "delivered")
    /\ UNCHANGED <<letter, taken, returned>>

Expires(R) ==
    /\ \A r \in R : stage[r] = "pending"
    /\ Becomes(R, "expired") /\ UNCHANGED <<letter, taken, returned>>

Purges(R) ==
    /\ \A r \in R : stage[r] \in {"delivered", "expired", "failed"}
    /\ Becomes(R, "purged") /\ UNCHANGED <<letter, taken, returned>>

Init == /\ letter = [r \in Row |-> NoMessage]
        /\ stage = [r \in Row |-> "none"]
        /\ taken = [c \in Client |-> {}] /\ returned = {}

Next ==
    \/ \E c \in Client, r \in Row :
          Sends(c, r) \/ Takes(c, r) \/ Returns(c, r) \/ Fails(c, r)
    \/ \E c \in Client, R \in SUBSET Row : Reads(c, R)
    \/ \E r \in Row : Settles(r)
    \/ \E R \in SUBSET Row : Expires(R) \/ Purges(R)

Spec == Init /\ [][Next]_mailVars
=============================================================================
