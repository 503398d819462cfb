------------------------------- MODULE MCPoller -------------------------------
(* A run plays one of two scenes: the hook manager alone, with two hooks of *)
(* any modes, or polls whose events meet one hook that acts or asks.        *)
EXTENDS Poller

MCHook == <<"first", "second">>
MCTicketOf == [p \in PR |-> CHOOSE t \in Ticket : TRUE]

VARIABLE scene

MCInit ==
    /\ PollInit
    /\ scene \in {"hooks", "polls"}
    /\ scene = "polls" => /\ mode["first"] \in {"auto", "human"}
                          /\ mode["second"] = "off" /\ wired = {"human"}
                          /\ \A p \in PR : pull[p].mergeable # "UNKNOWN"
    /\ scene = "hooks" => \A p \in PR : pull[p].mergeable = "UNKNOWN"

(* In the second scene every event is one of a poll, and checks succeed.    *)
Polling ==
    /\ PollNext
    /\ stopped' = stopped /\ \A p \in PR : pull'[p].ci # "failure"
    /\ \A e \in Event : (about'[e] = <<>>) <=> (handler'[e].pc = "idle")

MCNext ==
    /\ UNCHANGED scene
    /\ \/ scene = "hooks" /\ Next /\ UNCHANGED pollVars
       \/ scene = "polls" /\ Polling

MCSpec ==
    /\ MCInit /\ [][MCNext]_<<allVars, scene>>
    /\ Fairness
    /\ \A q \in Poll : WF_allVars(scene = "polls" /\ PollActs(q))
=============================================================================
