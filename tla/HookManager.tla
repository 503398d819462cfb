----------------------------- MODULE HookManager -----------------------------
(***************************************************************************)
(* The hook manager (apps/cli/src/lib/work-lifecycle/hooks/manager.ts).     *)
(*                                                                         *)
(* A handler per event walks the hooks of the event in order of priority    *)
(* and executes, asks or queues each of them.  JavaScript runs one thing at *)
(* a time: a handler gives up the thread only where it awaits a callback or *)
(* the action, so between the other steps nothing else happens; at the      *)
(* awaits other handlers, answers to queued requests, the timer of the      *)
(* daemon and stop() interleave.                                           *)
(*                                                                         *)
(* Abstracted: what an action does and whether it succeeds, notifications   *)
(* (mode `notify' is `auto'), texts; the age of an entry is one bit.        *)
(***************************************************************************)
EXTENDS Naturals, Sequences, SequencesExt

CONSTANTS Event,    \* firings of an event
          Hook      \* the enabled hooks of the event, in order of priority

ASSUME HookAssumption == Hook \in Seq(STRING) /\ IsInjective(Hook)

VARIABLES
    mode,       \* mode of each hook
    wired,      \* the callbacks that are given: "confirm", "llm", "human"
    handler,    \* handleEvent, one per event
    confirmations, llmDecisions, humanEscalations,    \* the three queues
    stopped,    \* stop() has been called
    outcome     \* history: what became of a request, in order

queues == <<confirmations, llmDecisions, humanEscalations>>
config == <<mode, wired>>
vars == <<config, handler, queues, stopped, outcome>>

Request == Event \X Range(Hook)
Modes == {"auto", "llm", "human", "confirm", "off"}

Quiet == \A e \in Event : handler[e].pc # "run"
Current(e) == Head(handler[e].rest)
Req(e) == <<e, Current(e)>>
Turn(e, m) == handler[e].pc = "run" /\ mode[Current(e)] = m

Goes(e, pc) == handler' = [handler EXCEPT ![e].pc = pc]

(* Mutant: the loop does not end.                                           *)
ContinuesPastTheEnd(e) ==
    handler' = [handler EXCEPT ![e] = [pc |-> "run", rest |-> Tail(@.rest)]]

Continues(e) ==
    handler' = [handler EXCEPT ![e] =
                  [pc |-> IF Len(@.rest) = 1 THEN "done" ELSE "run",
                   rest |-> Tail(@.rest)]]

Becomes(R, fate) ==
    outcome' = [r \in Request |-> IF r \in R THEN Append(outcome[r], fate)
                                  ELSE outcome[r]]
Keeps == UNCHANGED <<config, stopped>>

(***************************************************************************)
(* handleEvent.                                                            *)
(***************************************************************************)

handleEvent(e) ==
    /\ Quiet /\ handler[e].pc = "idle"
    /\ handler' = [handler EXCEPT ![e] =
                      [pc |-> IF Hook = <<>> THEN "done" ELSE "run", rest |-> Hook]]
    /\ Keeps /\ UNCHANGED <<queues, outcome>>

Skips(e) ==
    /\ Turn(e, "off")
    /\ Continues(e) /\ Becomes({Req(e)}, "refused")
    /\ Keeps /\ UNCHANGED queues

(* The action starts; it is awaited.                                       *)
executeHookAction(e, fate) == Goes(e, "exec") /\ Becomes({Req(e)}, fate)

Executes(e) ==
    /\ Turn(e, "auto") /\ executeHookAction(e, "executed")
    /\ Keeps /\ UNCHANGED queues

AsksLlm(e) ==
    /\ Turn(e, "llm") /\ "llm" \in wired
    /\ Goes(e, "llm")
    /\ Keeps /\ UNCHANGED <<queues, outcome>>

QueuesLlm(e) ==
    /\ Turn(e, "llm") /\ "llm" \notin wired
    /\ llmDecisions' = Append(llmDecisions, [req |-> Req(e), late |-> FALSE])
    /\ Continues(e)
    /\ Keeps /\ UNCHANGED <<confirmations, humanEscalations, outcome>>

AsksHuman(e) ==
    /\ \/ Turn(e, "human") /\ "human" \in wired
       \/ Turn(e, "confirm") /\ wired \cap {"confirm", "human"} # {}
    /\ Goes(e, "human")
    /\ Keeps /\ UNCHANGED <<queues, outcome>>

pushHumanEscalation(e) ==
    /\ humanEscalations' = Append(humanEscalations, Req(e))
    /\ Continues(e)
    /\ UNCHANGED <<confirmations, llmDecisions, outcome>>

QueuesHuman(e) ==
    /\ Turn(e, "human") /\ "human" \notin wired
    /\ pushHumanEscalation(e) /\ Keeps

QueuesConfirmation(e) ==
    /\ Turn(e, "confirm") /\ wired \cap {"confirm", "human"} = {}
    /\ confirmations' = Append(confirmations, Req(e))
    /\ Continues(e)
    /\ Keeps /\ UNCHANGED <<llmDecisions, humanEscalations, outcome>>

(* The callbacks answer.                                                   *)
LlmApproves(e) ==
    /\ Quiet /\ handler[e].pc = "llm"
    /\ executeHookAction(e, "llm approved")
    /\ Keeps /\ UNCHANGED queues

HumanApproves(e) ==
    /\ Quiet /\ handler[e].pc = "human"
    /\ executeHookAction(e, "human approved")
    /\ Keeps /\ UNCHANGED queues

Denies(e) ==
    /\ Quiet /\ handler[e].pc \in {"llm", "human"}
    /\ Continues(e) /\ Becomes({Req(e)}, "refused")
    /\ Keeps /\ UNCHANGED queues

LlmEscalates(e) ==
    /\ Quiet /\ handler[e].pc = "llm"
    /\ IF "human" \in wired
       THEN Goes(e, "human") /\ UNCHANGED <<queues, outcome>>
       ELSE pushHumanEscalation(e)
    /\ Keeps

ActionReturns(e) ==
    /\ Quiet /\ handler[e].pc = "exec"
    /\ Continues(e)
    /\ Keeps /\ UNCHANGED <<queues, outcome>>

(* One try around the loop: what throws takes the later hooks with it.      *)
Throws(e) ==
    LET left == {<<e, h>> : h \in Range(handler[e].rest)} IN
    /\ Quiet /\ handler[e].pc \in {"llm", "human", "exec"}
    /\ Becomes(IF handler[e].pc = "exec" THEN left \ {Req(e)} ELSE left,
               "dropped")
    /\ handler' = [handler EXCEPT ![e] = [pc |-> "done", rest |-> <<>>]]
    /\ Keeps /\ UNCHANGED queues

Handles(e) ==
    \/ handleEvent(e) \/ Skips(e) \/ Executes(e) \/ AsksLlm(e) \/ QueuesLlm(e)
    \/ AsksHuman(e) \/ QueuesHuman(e) \/ QueuesConfirmation(e)
    \/ LlmApproves(e) \/ HumanApproves(e) \/ Denies(e) \/ LlmEscalates(e)
    \/ ActionReturns(e) \/ Throws(e)

(***************************************************************************)
(* The queues are answered by index, whatever they held when it was chosen. *)
(***************************************************************************)

Answers(r, fates) == \E fate \in fates : Becomes({r}, fate)

AnswersConfirmation(i) ==
    /\ Quiet /\ i \in DOMAIN confirmations
    /\ Answers(confirmations[i], {"human approved", "refused"})
    /\ confirmations' = RemoveAt(confirmations, i)
    /\ Keeps /\ UNCHANGED <<handler, llmDecisions, humanEscalations>>

AnswersLlmDecision(i) ==
    /\ Quiet /\ i \in DOMAIN llmDecisions
    /\ Answers(llmDecisions[i].req, {"llm approved", "refused"})
    /\ llmDecisions' = RemoveAt(llmDecisions, i)
    /\ Keeps /\ UNCHANGED <<handler, confirmations, humanEscalations>>

(* Mutant: the request stays in the queue of the model.                     *)
escalateKeeps(i) ==
    /\ Quiet /\ i \in DOMAIN llmDecisions
    /\ humanEscalations' = Append(humanEscalations, llmDecisions[i].req)
    /\ Keeps /\ UNCHANGED <<handler, confirmations, llmDecisions, outcome>>

escalateLlmDecision(i) ==
    /\ Quiet /\ i \in DOMAIN llmDecisions
    /\ humanEscalations' = Append(humanEscalations, llmDecisions[i].req)
    /\ llmDecisions' = RemoveAt(llmDecisions, i)
    /\ Keeps /\ UNCHANGED <<handler, confirmations, outcome>>

AnswersHumanEscalation(i) ==
    /\ Quiet /\ i \in DOMAIN humanEscalations
    /\ Answers(humanEscalations[i], {"human approved", "refused"})
    /\ humanEscalations' = RemoveAt(humanEscalations, i)
    /\ Keeps /\ UNCHANGED <<handler, confirmations, llmDecisions>>

(* All have the same timeout: those that are late are the first n.          *)
LateAre(n) == \A i \in DOMAIN llmDecisions : llmDecisions[i].late <=> i <= n
First(n) == [i \in 1..n |-> llmDecisions[i].req]
AfterFirst(n) == SubSeq(llmDecisions, n + 1, Len(llmDecisions))

(* Mutant: decisions that are timed out are dropped from the queue.         *)
escalateForgets(n) ==
    /\ Quiet /\ LateAre(n)
    /\ llmDecisions' = AfterFirst(n)
    /\ Keeps
    /\ UNCHANGED <<handler, confirmations, humanEscalations, outcome>>

(* From the last to the first, as the entries are spliced out.              *)
escalates(n) ==
    /\ Quiet /\ LateAre(n)
    /\ humanEscalations' = humanEscalations \o Reverse(First(n))
    /\ llmDecisions' = AfterFirst(n)
    /\ Keeps /\ UNCHANGED <<handler, confirmations, outcome>>

escalateTimedOutLlmDecisions == \E n \in 1..Len(llmDecisions) : escalates(n)

(* The oldest is late first.                                               *)
DecisionAges ==
    /\ Quiet
    /\ \E i \in DOMAIN llmDecisions :
          /\ ~ llmDecisions[i].late
          /\ \A j \in 1..(i - 1) : llmDecisions[j].late
          /\ llmDecisions' = [llmDecisions EXCEPT ![i].late = TRUE]
    /\ Keeps /\ UNCHANGED <<handler, confirmations, humanEscalations, outcome>>

LlmQueued == {llmDecisions[i].req : i \in DOMAIN llmDecisions}
Queued == Range(confirmations) \cup Range(humanEscalations) \cup LlmQueued

(* stop() empties the queues; handlers that await go on.                    *)
stop ==
    /\ Quiet /\ ~ stopped /\ stopped' = TRUE
    /\ Becomes(Queued, "dropped")
    /\ confirmations' = <<>> /\ llmDecisions' = <<>> /\ humanEscalations' = <<>>
    /\ UNCHANGED <<config, handler>>

(***************************************************************************)
(* Specification.                                                          *)
(***************************************************************************)

Init ==
    /\ mode \in [Range(Hook) -> Modes]
    /\ wired \in SUBSET {"confirm", "llm", "human"}
    /\ handler = [e \in Event |-> [pc |-> "idle", rest |-> <<>>]]
    /\ confirmations = <<>> /\ llmDecisions = <<>> /\ humanEscalations = <<>>
    /\ stopped = FALSE
    /\ outcome = [r \in Request |-> <<>>]

Next ==
    \/ \E e \in Event : Handles(e)
    \/ \E i \in DOMAIN confirmations : AnswersConfirmation(i)
    \/ \E i \in DOMAIN llmDecisions :
          AnswersLlmDecision(i) \/ escalateLlmDecision(i)
    \/ \E i \in DOMAIN humanEscalations : AnswersHumanEscalation(i)
    \/ escalateTimedOutLlmDecisions \/ DecisionAges \/ stop

Spec == Init /\ [][Next]_vars

(* A handler that has the thread goes on.  A callback may never answer, and *)
(* nothing need ever escalate a queued decision: the daemon that has the    *)
(* timer always gives a callback, the processes without one have no timer.  *)
Fairness == WF_vars(\E e \in Event : handler[e].pc = "run" /\ Handles(e))

FairSpec == Spec /\ Fairness

(***************************************************************************)
(* Properties.                                                             *)
(***************************************************************************)

Awaited == {Req(e) : e \in {x \in Event : handler[x].pc \in {"llm", "human"}}}

TypeOK ==
    /\ mode \in [Range(Hook) -> Modes]
    /\ wired \subseteq {"confirm", "llm", "human"}
    /\ \A e \in Event :
          /\ handler[e].pc \in {"idle", "run", "llm", "human", "exec", "done"}
          /\ handler[e].pc \in {"idle", "done"} <=> handler[e].rest = <<>>
    /\ Queued \subseteq Request
    /\ stopped \in BOOLEAN

Unseen(e) ==
    IF handler[e].pc = "idle" THEN Range(Hook)
    ELSE IF handler[e].pc = "run" THEN Range(handler[e].rest)
    ELSE IF handler[e].rest = <<>> THEN {} ELSE Range(Tail(handler[e].rest))

(* A request is at one place and no other: not yet come to, awaited, in one *)
(* of the queues, answered or dropped; and it is there once.  So nothing is *)
(* executed twice, nothing both executed and denied, and nothing is lost    *)
(* without a stop or an exception, though queues are answered by index,     *)
(* timed out and emptied while handlers wait.                              *)
Places == [unseen |-> {r \in Request : r[2] \in Unseen(r[1])},
           awaited |-> Awaited,
           confirmation |-> Range(confirmations),
           llm |-> LlmQueued,
           human |-> Range(humanEscalations),
           settled |-> {r \in Request : outcome[r] # <<>>}]

AtOnePlace(r) == \E p \in DOMAIN Places : \A q \in DOMAIN Places :
                    r \in Places[q] <=> q = p

EveryRequestAtOnePlace ==
    /\ \A r \in Request : AtOnePlace(r) /\ Len(outcome[r]) <= 1
    /\ IsInjective(confirmations) /\ IsInjective(humanEscalations)
    /\ IsInjective([i \in DOMAIN llmDecisions |-> llmDecisions[i].req])

(* Where Approval sees a request.                                          *)
StageOf(r) ==
    IF outcome[r] # <<>> THEN outcome[r][Len(outcome[r])]
    ELSE IF r \in Range(confirmations) \cup Range(humanEscalations) THEN "human"
    ELSE IF r \in Awaited THEN handler[r[1]].pc
    ELSE IF r \in Queued THEN "llm" ELSE "unseen"

Tiers == INSTANCE Approval WITH
            mode <- [r \in Request |-> mode[r[2]]],
            stage <- [r \in Request |-> StageOf(r)]

(* "Escalation flows upward: auto -> llm -> human" (escalation.ts:10): what  *)
(* the human is asked is executed only if the human approves it, also after *)
(* a timeout that raced with an answer of the model.                        *)
ImplementsApproval == Tiers!Spec
=============================================================================
