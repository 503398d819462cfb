--------------------------- MODULE MCAgentWorkspace ---------------------------
(* Starts on one ticket, or each on a ticket of its own.                    *)
EXTENDS AgentWorkspace, TLC

MCSameTicket == [s \in Starts |-> CHOOSE t \in Ticket : TRUE]
MCOwnTicket == CHOOSE f \in [Starts -> Ticket] :
                   \A s, t \in Starts : f[s] = f[t] => s = t
MCSymmetry == Permutations(Name) \cup Permutations(Starts)
=============================================================================
