------------------------------- MODULE Approval -------------------------------
(***************************************************************************)
(* What the three tiers promise of the action of a hook                    *)
(* (apps/cli/src/lib/orchestrate/escalation.ts): every request is answered  *)
(* at most once, by the tier that has it, and moves only upwards, from the  *)
(* model to the human, who is final.  Implemented by HookManager.          *)
(***************************************************************************)
CONSTANT Request

VARIABLES mode,     \* the mode of the hook a request comes from
          stage     \* where the request is

approvalVars == <<mode, stage>>

Mode == {"auto", "llm", "human", "confirm", "off"}
Open == {"unseen", "llm", "human"}
Answered == {"executed", "llm approved", "human approved", "refused"}
Stage == Open \cup Answered \cup {"dropped"}

modeToTier(m) == CASE m = "auto" -> "executed"
                   [] m = "off" -> "refused"
                   [] m = "llm" -> "llm"
                   [] m \in {"human", "confirm"} -> "human"

Move(R, to) == stage' = [r \in Request |-> IF r \in R THEN to ELSE stage[r]]

Arrives(r) == /\ stage[r] = "unseen" /\ Move({r}, modeToTier(mode[r]))
              /\ UNCHANGED mode
LlmAnswers(r) == /\ stage[r] = "llm"
                 /\ \E to \in {"llm approved", "refused"} : Move({r}, to)
                 /\ UNCHANGED mode
HumanAnswers(r) == /\ stage[r] = "human"
                   /\ \E to \in {"human approved", "refused"} : Move({r}, to)
                   /\ UNCHANGED mode
Escalates(R) == /\ \A r \in R : stage[r] = "llm"
                /\ Move(R, "human") /\ UNCHANGED mode
(* The manager is stopped, or a callback throws. *)
Drops(R) == /\ \A r \in R : stage[r] \in Open
            /\ Move(R, "dropped") /\ UNCHANGED mode

Init == /\ mode \in [Request -> Mode]
        /\ stage = [r \in Request |-> "unseen"]

Next == \/ \E r \in Request : Arrives(r) \/ LlmAnswers(r) \/ HumanAnswers(r)
        \/ \E R \in SUBSET Request : Escalates(R) \/ Drops(R)

Spec == Init /\ [][Next]_approvalVars
=============================================================================
