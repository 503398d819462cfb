--------------------------- MODULE HookManagerProofs ---------------------------
(***************************************************************************)
(* What holds of the hook manager for any number of events and hooks, any   *)
(* modes and any callbacks.                                                *)
(***************************************************************************)
EXTENDS HookManager, SequenceTheorems, TLAPS

(***************************************************************************)
(* Types, in detail: what a handler has left to do are hooks, each once; it *)
(* has none left exactly if it has not begun or is done.                   *)
(***************************************************************************)

H == Range(Hook)
Fates == {"executed", "llm approved", "human approved", "refused", "dropped"}
Steps == {"idle", "run", "llm", "human", "exec", "done"}
Decision == [req : Request, late : BOOLEAN]

HandlersOK ==
    /\ handler \in [Event -> [pc : Steps, rest : Seq(H)]]
    /\ \A e \in Event :
          /\ handler[e].pc \in {"idle", "done"} <=> handler[e].rest = <<>>
          /\ IsInjective(handler[e].rest)
QueuesOK ==
    /\ confirmations \in Seq(Request) /\ humanEscalations \in Seq(Request)
    /\ llmDecisions \in Seq(Decision)
RestOK ==
    /\ mode \in [H -> Modes] /\ wired \subseteq {"confirm", "llm", "human"}
    /\ stopped \in BOOLEAN
    /\ outcome \in [Request -> Seq(Fates)]
Typed == HandlersOK /\ QueuesOK /\ RestOK

LEMMA HookSeq == Hook \in Seq(H) /\ IsInjective(Hook)
<1>1. Hook \in Seq(STRING)
  BY HookAssumption
<1>2. Hook \in [1..Len(Hook) -> H] /\ Len(Hook) \in Nat
  BY <1>1 DEF H, Range
<1> QED BY <1>2, HookAssumption, SeqDef

LEMMA TypedInit == Init => Typed
<1> SUFFICES ASSUME Init PROVE Typed
  OBVIOUS
<1>1. HandlersOK
  BY EmptySeq DEF Init, HandlersOK, Steps, IsInjective
<1>2. QueuesOK
  BY EmptySeq DEF Init, QueuesOK
<1>3. RestOK
  <2>1. <<>> \in Seq(Fates)
    BY EmptySeq
  <2> HIDE DEF Fates
  <2> QED BY <2>1 DEF Init, RestOK, H
<1> QED BY <1>1, <1>2, <1>3 DEF Typed

LEMMA TypedImplies == Typed => TypeOK
<1> SUFFICES ASSUME Typed PROVE TypeOK
  OBVIOUS
<1>1. Range(confirmations) \subseteq Request /\ Range(humanEscalations) \subseteq Request
  BY DEF Typed, QueuesOK, Range
<1>2. LlmQueued \subseteq Request
  <2>1. \A i \in DOMAIN llmDecisions : llmDecisions[i] \in Decision
    BY DEF Typed, QueuesOK
  <2> QED BY <2>1 DEF LlmQueued, Decision
<1> QED BY <1>1, <1>2 DEF Typed, TypeOK, HandlersOK, RestOK, Steps, Queued, H

(* A handler that has begun and is not done has a current hook.             *)
LEMMA CurrentHook ==
    ASSUME Typed, NEW e \in Event, handler[e].pc \notin {"idle", "done"}
    PROVE  /\ handler[e].rest \in Seq(H) /\ handler[e].rest # <<>>
           /\ Current(e) \in H /\ Req(e) \in Request
           /\ Tail(handler[e].rest) \in Seq(H)
           /\ Range(handler[e].rest) = {Current(e)} \cup Range(Tail(handler[e].rest))
           /\ Current(e) \notin Range(Tail(handler[e].rest))
           /\ IsInjective(Tail(handler[e].rest))
           /\ Len(handler[e].rest) = 1 <=> Tail(handler[e].rest) = <<>>
<1> DEFINE s == handler[e].rest
<1>1. s \in Seq(H) /\ s # <<>> /\ IsInjective(s)
  BY DEF Typed, HandlersOK
<1> HIDE DEF s
<1>2. Len(s) \in Nat \ {0} /\ DOMAIN s = 1..Len(s) /\ \A i \in 1..Len(s) : s[i] \in H
  BY <1>1, EmptySeq
<1>3. /\ Tail(s) \in Seq(H) /\ Len(Tail(s)) = Len(s) - 1
      /\ \A i \in 1..(Len(s) - 1) : Tail(s)[i] = s[i + 1]
      /\ Head(s) = s[1]
  BY <1>1, HeadTailProperties
<1>4. DOMAIN Tail(s) = 1..(Len(s) - 1)
  BY <1>2, <1>3
<1>5. Range(s) = {Head(s)} \cup Range(Tail(s))
  <2>1. \A i \in 1..Len(s) : i = 1 \/ i - 1 \in 1..(Len(s) - 1)
    BY <1>2
  <2>2. \A i \in 1..(Len(s) - 1) : i + 1 \in 1..Len(s)
    BY <1>2
  <2>3. 1 \in 1..Len(s)
    BY <1>2
  <2>4. \A i \in 1..Len(s) : s[i] = Head(s) \/ s[i] \in Range(Tail(s))
    <3> SUFFICES ASSUME NEW i \in 1..Len(s), i # 1 PROVE s[i] \in Range(Tail(s))
      BY <1>3
    <3>1. i - 1 \in 1..(Len(s) - 1) /\ Tail(s)[i - 1] = s[i]
      BY <1>2, <1>3
    <3> QED BY <3>1, <1>4 DEF Range
  <2> QED BY <1>2, <1>3, <1>4, <2>2, <2>3, <2>4 DEF Range
<1>6. Head(s) \notin Range(Tail(s))
  BY <1>1, <1>2, <1>3, <1>4 DEF Range, IsInjective
<1>7. IsInjective(Tail(s))
  BY <1>1, <1>2, <1>3, <1>4 DEF IsInjective
<1>8. Len(s) = 1 <=> Tail(s) = <<>>
  BY <1>2, <1>3, EmptySeq
<1>9. Head(s) \in H
  BY <1>2, <1>3
<1> QED BY <1>1, <1>3, <1>5, <1>6, <1>7, <1>8, <1>9 DEF s, Current, Req, Request, H

LEMMA ContinuesTypes ==
    ASSUME Typed, NEW e \in Event, handler[e].pc \notin {"idle", "done"}, Continues(e)
    PROVE  HandlersOK'
<1>1. /\ Tail(handler[e].rest) \in Seq(H) /\ IsInjective(Tail(handler[e].rest))
      /\ Len(handler[e].rest) = 1 <=> Tail(handler[e].rest) = <<>>
  BY CurrentHook
<1> QED BY <1>1 DEF Typed, HandlersOK, Continues, Steps

LEMMA GoesTypes ==
    ASSUME Typed, NEW e \in Event, handler[e].pc \notin {"idle", "done"},
           NEW pc \in {"llm", "human", "exec"}, Goes(e, pc)
    PROVE  HandlersOK'
  BY DEF Typed, HandlersOK, Goes, Steps

LEMMA BecomesTypes ==
    ASSUME Typed, NEW R, NEW fate \in Fates, Becomes(R, fate),
           UNCHANGED config, stopped' \in BOOLEAN
    PROVE  RestOK'
<1>1. \A r \in Request : outcome[r] \in Seq(Fates)
  BY DEF Typed, RestOK
<1>2. \A r \in Request : Append(outcome[r], fate) \in Seq(Fates)
  BY <1>1, AppendProperties
<1>3. outcome' \in [Request -> Seq(Fates)]
  BY <1>1, <1>2 DEF Becomes
<1> QED BY <1>3 DEF Typed, RestOK, config

LEMMA SameRest == ASSUME Typed, Keeps, UNCHANGED outcome PROVE RestOK'
  BY DEF Typed, RestOK, Keeps, config

LEMMA SameQueues == ASSUME Typed, UNCHANGED queues PROVE QueuesOK'
  BY DEF Typed, QueuesOK, queues

(* What RemoveAt leaves.                                                   *)
LEMMA Removed ==
    ASSUME NEW S, NEW s \in Seq(S), NEW i \in DOMAIN s
    PROVE  /\ RemoveAt(s, i) \in Seq(S)
           /\ Len(RemoveAt(s, i)) = Len(s) - 1
           /\ \A j \in 1..(Len(s) - 1) :
                 RemoveAt(s, i)[j] = IF j < i THEN s[j] ELSE s[j + 1]
<1> DEFINE a == SubSeq(s, 1, i - 1)
           b == SubSeq(s, i + 1, Len(s))
<1>1. Len(s) \in Nat /\ i \in 1..Len(s)
  OBVIOUS
<1>2. a \in Seq(S) /\ Len(a) = i - 1 /\ \A j \in 1..(i - 1) : a[j] = s[j]
  BY <1>1
<1>3. /\ b \in Seq(S) /\ Len(b) = Len(s) - i
      /\ \A j \in 1..(Len(s) - i) : b[j] = s[i + j]
  BY <1>1
<1>4. RemoveAt(s, i) = a \o b
  BY DEF RemoveAt
<1> HIDE DEF a, b
<1> QED BY <1>1, <1>2, <1>3, <1>4

(***************************************************************************)
(* One place.  A step moves some requests to one place, or leaves all where *)
(* they are.                                                               *)
(***************************************************************************)

Place == {"unseen", "awaited", "confirmation", "llm", "human", "settled"}
OnePlace == \A r \in Request : AtOnePlace(r)
Moved(R, to) ==
    \A p \in Place : Places'[p] = IF p = to THEN Places[p] \cup R ELSE Places[p] \ R
LlmReqs == [i \in DOMAIN llmDecisions |-> llmDecisions[i].req]
Once == /\ \A r \in Request : Len(outcome[r]) <= 1
        /\ IsInjective(confirmations) /\ IsInjective(humanEscalations)
        /\ IsInjective(LlmReqs)
(* The decisions that are late are the oldest.                              *)
OldestLate == \A i, j \in DOMAIN llmDecisions :
                  i < j /\ llmDecisions[j].late => llmDecisions[i].late
IInv == Typed /\ OnePlace /\ Once /\ OldestLate

LEMMA PlaceDomain == DOMAIN Places = Place
  BY DEF Places, Place

LEMMA MovedKeepsOnePlace ==
    ASSUME OnePlace, NEW R, NEW to \in Place, Moved(R, to) PROVE OnePlace'
<1> SUFFICES ASSUME NEW r \in Request PROVE AtOnePlace(r)'
  BY DEF OnePlace, Request
<1>1. DOMAIN Places = Place /\ DOMAIN Places' = Place
  BY DEF Places, Place
<1>2. PICK p \in Place : \A q \in Place : r \in Places[q] <=> q = p
  BY <1>1 DEF OnePlace, AtOnePlace
<1>3. CASE r \in R
  <2>1. \A q \in Place : r \in Places'[q] <=> q = to
    BY <1>3 DEF Moved
  <2> QED BY <1>1, <2>1 DEF AtOnePlace
<1>4. CASE r \notin R
  <2>1. \A q \in Place : r \in Places'[q] <=> q = p
    BY <1>2, <1>4 DEF Moved
  <2> QED BY <1>1, <2>1 DEF AtOnePlace
<1> QED BY <1>3, <1>4

LEMMA SamePlaces == OnePlace /\ UNCHANGED Places => OnePlace'
  BY DEF OnePlace, AtOnePlace, Request

(* Where a request is tells where it is not.                                *)
LEMMA Elsewhere ==
    ASSUME OnePlace, NEW r \in Request, NEW p \in Place, NEW q \in Place,
           r \in Places[p], r \in Places[q]
    PROVE  p = q
  BY PlaceDomain DEF OnePlace, AtOnePlace

LEMMA InvImplies == IInv => EveryRequestAtOnePlace
  BY DEF IInv, OnePlace, Once, EveryRequestAtOnePlace, LlmReqs

(***************************************************************************)
(* What a step of a handler does to what is unseen and what is awaited.     *)
(***************************************************************************)

PU == {r \in Request : r[2] \in Unseen(r[1])}
PS == {r \in Request : outcome[r] # <<>>}

LEMMA Requests == \A r \in Request : r[1] \in Event /\ r[2] \in H /\ r = <<r[1], r[2]>>
  BY DEF Request, H

LEMMA UnseenParts ==
    ASSUME Typed, NEW e \in Event, handler[e].pc \notin {"idle", "done"}
    PROVE  /\ handler[e].pc = "run" =>
                 Unseen(e) = {Current(e)} \cup Range(Tail(handler[e].rest))
           /\ handler[e].pc # "run" => Unseen(e) = Range(Tail(handler[e].rest))
           /\ Current(e) \notin Range(Tail(handler[e].rest))
  BY CurrentHook DEF Unseen

LEMMA UnseenAfter ==
    ASSUME Typed, NEW e \in Event, handler[e].pc \notin {"idle", "done"},
           Continues(e) \/ \E pc \in {"llm", "human", "exec"} : Goes(e, pc)
    PROVE  Unseen(e)' = Range(Tail(handler[e].rest))
<1>1. handler[e].rest # <<>>
  BY CurrentHook
<1>2. CASE Continues(e)
  <2>1. Len(handler[e].rest) = 1 <=> Tail(handler[e].rest) = <<>>
    BY CurrentHook
  <2>2. handler'[e] = [pc |-> IF Len(handler[e].rest) = 1 THEN "done" ELSE "run",
                       rest |-> Tail(handler[e].rest)]
    BY <1>2 DEF Continues, Typed, HandlersOK
  <2>3. Range(<<>>) = {}
    BY DEF Range
  <2>4. CASE Tail(handler[e].rest) = <<>>
    <3>1. handler'[e].pc = "done" /\ handler'[e].rest = <<>>
      BY <2>1, <2>2, <2>4
    <3> QED BY <2>3, <2>4, <3>1 DEF Unseen
  <2>5. CASE Tail(handler[e].rest) # <<>>
    <3>1. handler'[e].pc = "run" /\ handler'[e].rest = Tail(handler[e].rest)
      BY <2>1, <2>2, <2>5
    <3> QED BY <3>1 DEF Unseen
  <2> QED BY <2>4, <2>5
<1>3. CASE \E pc \in {"llm", "human", "exec"} : Goes(e, pc)
  <2>1. handler'[e].rest = handler[e].rest /\ handler'[e].pc \in {"llm", "human", "exec"}
    BY <1>3 DEF Goes, Typed, HandlersOK
  <2> QED BY <1>1, <2>1 DEF Unseen
<1> QED BY <1>2, <1>3

LEMMA OthersSame ==
    ASSUME Typed, NEW e \in Event,
           Continues(e) \/ \E pc \in {"llm", "human", "exec"} : Goes(e, pc)
    PROVE  /\ \A f \in Event \ {e} : handler'[f] = handler[f]
           /\ \A f \in Event \ {e} : Unseen(f)' = Unseen(f)
<1>1. \A f \in Event \ {e} : handler'[f] = handler[f]
  BY DEF Continues, Goes, Typed, HandlersOK
<1> QED BY <1>1 DEF Unseen

LEMMA LeavesRun ==
    ASSUME Typed, NEW e \in Event, handler[e].pc = "run",
           Continues(e) \/ Goes(e, "exec")
    PROVE  Req(e) \in PU /\ PU' = PU \ {Req(e)} /\ Awaited' = Awaited
<1>1. Unseen(e)' = Unseen(e) \ {Current(e)} /\ Current(e) \in Unseen(e)
  BY UnseenParts, UnseenAfter
<1>2. /\ \A f \in Event \ {e} : handler'[f] = handler[f]
      /\ \A f \in Event \ {e} : Unseen(f)' = Unseen(f)
  BY OthersSame
<1>3. Req(e) \in PU
  BY <1>1, CurrentHook DEF PU, Req
<1>4. PU' = PU \ {Req(e)}
  <2>1. \A r \in Request : r[2] \in Unseen(r[1])' <=> r[2] \in Unseen(r[1]) /\ r # Req(e)
    BY <1>1, <1>2, Requests DEF Req
  <2> QED BY <2>1 DEF PU, Request
<1>5. handler'[e].pc \notin {"llm", "human"}
  BY DEF Continues, Goes, Typed, HandlersOK
<1>6. Awaited' = Awaited
  BY <1>2, <1>5 DEF Awaited, Req, Current
<1> QED BY <1>3, <1>4, <1>6

LEMMA LeavesAwaited ==
    ASSUME Typed, NEW e \in Event, handler[e].pc \in {"llm", "human"},
           Continues(e) \/ Goes(e, "exec")
    PROVE  Req(e) \in Awaited /\ PU' = PU /\ Awaited' = Awaited \ {Req(e)}
<1>1. Unseen(e)' = Unseen(e)
  BY UnseenParts, UnseenAfter
<1>2. /\ \A f \in Event \ {e} : handler'[f] = handler[f]
      /\ \A f \in Event \ {e} : Unseen(f)' = Unseen(f)
  BY OthersSame
<1>3. PU' = PU
  <2>1. \A r \in Request : r[2] \in Unseen(r[1])' <=> r[2] \in Unseen(r[1])
    BY <1>1, <1>2, Requests
  <2> QED BY <2>1 DEF PU, Request
<1>4. handler'[e].pc \notin {"llm", "human"}
  BY DEF Continues, Goes, Typed, HandlersOK
<1>5. Awaited' = Awaited \ {Req(e)} /\ Req(e) \in Awaited
  BY <1>2, <1>4 DEF Awaited, Req, Current
<1> QED BY <1>3, <1>5

LEMMA BeginsAwaiting ==
    ASSUME Typed, NEW e \in Event, handler[e].pc = "run",
           NEW pc \in {"llm", "human"}, Goes(e, pc)
    PROVE  Req(e) \in PU /\ PU' = PU \ {Req(e)} /\ Awaited' = Awaited \cup {Req(e)}
<1>1. Unseen(e)' = Unseen(e) \ {Current(e)} /\ Current(e) \in Unseen(e)
  BY UnseenParts, UnseenAfter
<1>2. /\ \A f \in Event \ {e} : handler'[f] = handler[f]
      /\ \A f \in Event \ {e} : Unseen(f)' = Unseen(f)
  BY OthersSame
<1>3. Req(e) \in PU
  BY <1>1, CurrentHook DEF PU, Req
<1>4. PU' = PU \ {Req(e)}
  <2>1. \A r \in Request : r[2] \in Unseen(r[1])' <=> r[2] \in Unseen(r[1]) /\ r # Req(e)
    BY <1>1, <1>2, Requests DEF Req
  <2> QED BY <2>1 DEF PU, Request
<1>5. handler'[e].pc \in {"llm", "human"} /\ handler'[e].rest = handler[e].rest
  BY DEF Goes, Typed, HandlersOK
<1>6. Awaited' = Awaited \cup {Req(e)}
  BY <1>2, <1>5 DEF Awaited, Req, Current
<1> QED BY <1>3, <1>4, <1>6

(* A handler that waits on, or whose action returns, leaves all in place.   *)
LEMMA StaysInPlace ==
    ASSUME Typed, NEW e \in Event,
           \/ handler[e].pc = "llm" /\ Goes(e, "human")
           \/ handler[e].pc = "exec" /\ Continues(e)
    PROVE  PU' = PU /\ Awaited' = Awaited
<1>1. Unseen(e)' = Unseen(e)
  BY UnseenParts, UnseenAfter
<1>2. /\ \A f \in Event \ {e} : handler'[f] = handler[f]
      /\ \A f \in Event \ {e} : Unseen(f)' = Unseen(f)
  BY OthersSame
<1>3. PU' = PU
  <2>1. \A r \in Request : r[2] \in Unseen(r[1])' <=> r[2] \in Unseen(r[1])
    BY <1>1, <1>2, Requests
  <2> QED BY <2>1 DEF PU, Request
<1>4. CASE handler[e].pc = "llm" /\ Goes(e, "human")
  <2>1. handler'[e].pc = "human" /\ handler'[e].rest = handler[e].rest
    BY <1>4 DEF Goes, Typed, HandlersOK
  <2>2. \A f \in Event :
          /\ Req(f)' = Req(f)
          /\ handler'[f].pc \in {"llm", "human"} <=> handler[f].pc \in {"llm", "human"}
    BY <1>2, <1>4, <2>1 DEF Req, Current
  <2> QED BY <1>3, <2>2 DEF Awaited
<1>5. CASE handler[e].pc = "exec" /\ Continues(e)
  <2>1. handler'[e].pc \in {"run", "done"}
    BY <1>5 DEF Continues, Typed, HandlersOK
  <2> QED BY <1>2, <1>3, <1>5, <2>1 DEF Awaited, Req, Current
<1> QED BY <1>4, <1>5

(***************************************************************************)
(* The queues as sequences.                                                *)
(***************************************************************************)

LEMMA Appended ==
    ASSUME NEW S, NEW s \in Seq(S), NEW x \in S
    PROVE  /\ Append(s, x) \in Seq(S)
           /\ Range(Append(s, x)) = Range(s) \cup {x}
           /\ IsInjective(s) /\ x \notin Range(s) => IsInjective(Append(s, x))
<1> DEFINE t == Append(s, x)
<1>1. /\ t \in Seq(S) /\ Len(t) = Len(s) + 1 /\ t[Len(s) + 1] = x
      /\ \A i \in 1..Len(s) : t[i] = s[i]
  BY AppendProperties
<1>2. DOMAIN t = 1..(Len(s) + 1) /\ DOMAIN s = 1..Len(s) /\ Len(s) \in Nat
  BY <1>1
<1> HIDE DEF t
<1>3. \A i \in DOMAIN t : i \in DOMAIN s \/ i = Len(s) + 1
  BY <1>2
<1>4. DOMAIN s \subseteq DOMAIN t /\ Len(s) + 1 \in DOMAIN t
  BY <1>2
<1>5. Range(t) = Range(s) \cup {x}
  BY <1>1, <1>2, <1>3, <1>4 DEF Range
<1>6. IsInjective(s) /\ x \notin Range(s) => IsInjective(t)
  BY <1>1, <1>2, <1>3 DEF Range, IsInjective
<1> QED BY <1>1, <1>5, <1>6 DEF t

LEMMA RemovedRange ==
    ASSUME NEW S, NEW s \in Seq(S), NEW i \in DOMAIN s, IsInjective(s)
    PROVE  /\ Range(RemoveAt(s, i)) = Range(s) \ {s[i]}
           /\ IsInjective(RemoveAt(s, i))
<1> DEFINE t == RemoveAt(s, i)
<1>1. /\ t \in Seq(S) /\ Len(t) = Len(s) - 1
      /\ \A j \in 1..(Len(s) - 1) : t[j] = IF j < i THEN s[j] ELSE s[j + 1]
  BY Removed
<1>2. DOMAIN t = 1..(Len(s) - 1) /\ DOMAIN s = 1..Len(s) /\ Len(s) \in Nat
      /\ i \in 1..Len(s)
  BY <1>1
<1> HIDE DEF t
<1>3. \A j \in DOMAIN t : \E k \in DOMAIN s :
         /\ k = (IF j < i THEN j ELSE j + 1) /\ k # i /\ t[j] = s[k]
  BY <1>1, <1>2
<1>4. \A k \in DOMAIN s : k # i => \E j \in DOMAIN t : t[j] = s[k]
  <2> SUFFICES ASSUME NEW k \in DOMAIN s, k # i PROVE \E j \in DOMAIN t : t[j] = s[k]
    OBVIOUS
  <2>1. CASE k < i
    <3>1. k \in DOMAIN t /\ t[k] = s[k]
      BY <1>1, <1>2, <2>1
    <3> QED BY <3>1
  <2>2. CASE ~ (k < i)
    <3>1. k - 1 \in DOMAIN t /\ t[k - 1] = s[k]
      BY <1>1, <1>2, <2>2
    <3> QED BY <3>1
  <2> QED BY <2>1, <2>2
<1>5. Range(t) = Range(s) \ {s[i]}
  <2>1. Range(t) \subseteq Range(s) \ {s[i]}
    BY <1>3 DEF Range, IsInjective
  <2>2. Range(s) \ {s[i]} \subseteq Range(t)
    BY <1>4 DEF Range
  <2> QED BY <2>1, <2>2
<1>6. IsInjective(t)
  <2> SUFFICES ASSUME NEW a \in DOMAIN t, NEW b \in DOMAIN t, t[a] = t[b] PROVE a = b
    BY DEF IsInjective
  <2>1. PICK k \in DOMAIN s : k = (IF a < i THEN a ELSE a + 1) /\ k # i /\ t[a] = s[k]
    BY <1>3
  <2>2. PICK l \in DOMAIN s : l = (IF b < i THEN b ELSE b + 1) /\ l # i /\ t[b] = s[l]
    BY <1>3
  <2>3. k = l
    BY <2>1, <2>2 DEF IsInjective
  <2> QED BY <1>2, <2>1, <2>2, <2>3
<1> QED BY <1>5, <1>6 DEF t

LEMMA ReversedConcat ==
    ASSUME NEW S, NEW s \in Seq(S), NEW f \in Seq(S)
    PROVE  /\ s \o Reverse(f) \in Seq(S)
           /\ Range(s \o Reverse(f)) = Range(s) \cup Range(f)
           /\ IsInjective(s) /\ IsInjective(f) /\ Range(s) \cap Range(f) = {}
                => IsInjective(s \o Reverse(f))
<1> DEFINE r == Reverse(f)
           t == s \o r
<1>1. Len(s) \in Nat /\ Len(f) \in Nat /\ DOMAIN s = 1..Len(s) /\ DOMAIN f = 1..Len(f)
      /\ \A i \in 1..Len(f) : f[i] \in S
  OBVIOUS
<1>2. r = [i \in 1..Len(f) |-> f[(Len(f) - i) + 1]]
  BY DEF Reverse
<1>3. \A i \in 1..Len(f) : (Len(f) - i) + 1 \in 1..Len(f)
  BY <1>1
<1>4. r \in Seq(S) /\ Len(r) = Len(f) /\ \A i \in 1..Len(f) : r[i] = f[(Len(f) - i) + 1]
  <2>1. r \in [1..Len(f) -> S]
    BY <1>1, <1>2, <1>3
  <2> QED BY <1>1, <1>2, <2>1
<1> HIDE DEF r
<1>5. /\ t \in Seq(S) /\ Len(t) = Len(s) + Len(f)
      /\ \A i \in 1..Len(s) : t[i] = s[i]
      /\ \A i \in 1..Len(f) : t[Len(s) + i] = f[(Len(f) - i) + 1]
  <2>1. /\ t \in Seq(S) /\ Len(t) = Len(s) + Len(r)
        /\ \A i \in 1..(Len(s) + Len(r)) :
              t[i] = IF i <= Len(s) THEN s[i] ELSE r[i - Len(s)]
    <3>1. r \in Seq(S) /\ s \in Seq(S)
      BY <1>4
    <3> QED BY ONLY <3>1, ConcatProperties
  <2>2. ASSUME NEW i \in 1..Len(f) PROVE t[Len(s) + i] = f[(Len(f) - i) + 1]
    <3>1. /\ Len(s) + i \in 1..(Len(s) + Len(r)) /\ ~ (Len(s) + i <= Len(s))
          /\ (Len(s) + i) - Len(s) = i
      BY <1>1, <1>4
    <3> QED BY <1>4, <2>1, <3>1
  <2> HIDE DEF t
  <2>3. \A i \in 1..Len(s) : t[i] = s[i]
    BY <1>1, <1>4, <2>1
  <2> QED BY <1>4, <2>1, <2>2, <2>3
<1>6. DOMAIN t = 1..(Len(s) + Len(f))
  BY <1>5
<1> HIDE DEF t
<1>7. \A i \in DOMAIN t : \/ i \in DOMAIN s /\ t[i] = s[i]
                          \/ \E j \in DOMAIN f : i = Len(s) + Len(f) + 1 - j /\ t[i] = f[j]
  <2> SUFFICES ASSUME NEW i \in DOMAIN t, i \notin DOMAIN s
               PROVE  \E j \in DOMAIN f : i = Len(s) + Len(f) + 1 - j /\ t[i] = f[j]
    BY <1>1, <1>5
  <2>1. i - Len(s) \in 1..Len(f)
    BY <1>1, <1>6
  <2>2. t[Len(s) + (i - Len(s))] = f[(Len(f) - (i - Len(s))) + 1]
    BY <1>5, <2>1
  <2>3. Len(s) + (i - Len(s)) = i /\ (Len(f) - (i - Len(s))) + 1 \in DOMAIN f
        /\ i = Len(s) + Len(f) + 1 - ((Len(f) - (i - Len(s))) + 1)
    BY <1>1, <2>1, <1>6
  <2> QED BY <2>2, <2>3
<1>8. \A j \in DOMAIN f : \E i \in DOMAIN t : t[i] = f[j]
  <2> SUFFICES ASSUME NEW j \in DOMAIN f PROVE \E i \in DOMAIN t : t[i] = f[j]
    OBVIOUS
  <2>1. (Len(f) - j) + 1 \in 1..Len(f) /\ (Len(f) - ((Len(f) - j) + 1)) + 1 = j
    BY <1>1
  <2>2. t[Len(s) + ((Len(f) - j) + 1)] = f[j]
    BY <1>5, <2>1
  <2>3. Len(s) + ((Len(f) - j) + 1) \in DOMAIN t
    BY <1>1, <1>6, <2>1
  <2> QED BY <2>2, <2>3
<1>9. Range(t) = Range(s) \cup Range(f)
  <2>1. Range(t) \subseteq Range(s) \cup Range(f)
    BY <1>7 DEF Range
  <2>2. \A i \in DOMAIN s : i \in DOMAIN t /\ t[i] = s[i]
    BY <1>1, <1>5, <1>6
  <2>3. Range(s) \cup Range(f) \subseteq Range(t)
    BY <1>8, <2>2 DEF Range
  <2> QED BY <2>1, <2>3
<1>10. ASSUME IsInjective(s), IsInjective(f), Range(s) \cap Range(f) = {}
       PROVE  IsInjective(t)
  <2> SUFFICES ASSUME NEW a \in DOMAIN t, NEW b \in DOMAIN t, t[a] = t[b] PROVE a = b
    BY DEF IsInjective
  <2>1. \A i \in DOMAIN s, j \in DOMAIN f : s[i] # f[j]
    BY <1>10 DEF Range
  <2>2. CASE a \in DOMAIN s /\ t[a] = s[a]
    <3>1. b \in DOMAIN s /\ t[b] = s[b]
      BY <1>7, <2>1, <2>2
    <3> QED BY <1>10, <2>2, <3>1 DEF IsInjective
  <2>3. CASE \E j \in DOMAIN f : a = Len(s) + Len(f) + 1 - j /\ t[a] = f[j]
    <3>1. PICK j \in DOMAIN f : a = Len(s) + Len(f) + 1 - j /\ t[a] = f[j]
      BY <2>3
    <3>2. PICK k \in DOMAIN f : b = Len(s) + Len(f) + 1 - k /\ t[b] = f[k]
      BY <1>7, <2>1, <3>1
    <3>3. j = k
      BY <1>10, <3>1, <3>2 DEF IsInjective
    <3> QED BY <3>1, <3>2, <3>3
  <2> QED BY <1>7, <2>2, <2>3
<1> QED BY <1>5, <1>9, <1>10 DEF t, r

(* The decisions of the model's queue, as requests.                         *)
LEMMA LlmSeq ==
    ASSUME Typed
    PROVE  /\ LlmReqs \in Seq(Request) /\ DOMAIN LlmReqs = DOMAIN llmDecisions
           /\ Range(LlmReqs) = LlmQueued /\ Len(LlmReqs) = Len(llmDecisions)
           /\ \A i \in DOMAIN llmDecisions : llmDecisions[i] \in Decision
<1>1. DOMAIN llmDecisions = 1..Len(llmDecisions) /\ Len(llmDecisions) \in Nat
      /\ \A i \in DOMAIN llmDecisions : llmDecisions[i] \in Decision
  BY DEF Typed, QueuesOK
<1>2. LlmReqs \in [1..Len(llmDecisions) -> Request]
  BY <1>1 DEF LlmReqs, Decision
<1>3. LlmReqs \in Seq(Request)
  BY <1>1, <1>2
<1> QED BY <1>1, <1>2, <1>3 DEF LlmReqs, LlmQueued, Range

LEMMA LlmAppended ==
    ASSUME Typed, NEW r \in Request, OldestLate,
           llmDecisions' = Append(llmDecisions, [req |-> r, late |-> FALSE])
    PROVE  /\ llmDecisions' \in Seq(Decision)
           /\ LlmReqs' = Append(LlmReqs, r)
           /\ LlmQueued' = LlmQueued \cup {r}
           /\ OldestLate'
<1> DEFINE d == [req |-> r, late |-> FALSE]
<1>1. d \in Decision
  BY DEF Decision
<1>2. llmDecisions \in Seq(Decision)
  BY DEF Typed, QueuesOK
<1>3. /\ llmDecisions' \in Seq(Decision) /\ Len(llmDecisions') = Len(llmDecisions) + 1
      /\ llmDecisions'[Len(llmDecisions) + 1] = d
      /\ \A i \in 1..Len(llmDecisions) : llmDecisions'[i] = llmDecisions[i]
  BY <1>1, <1>2, AppendProperties
<1>4. /\ DOMAIN llmDecisions' = 1..(Len(llmDecisions) + 1)
      /\ DOMAIN llmDecisions = 1..Len(llmDecisions) /\ Len(llmDecisions) \in Nat
  BY <1>2, <1>3
<1>5. OldestLate'
  BY <1>3, <1>4 DEF OldestLate
<1>6. /\ LlmReqs \in Seq(Request) /\ Len(LlmReqs) = Len(llmDecisions)
      /\ Range(LlmReqs) = LlmQueued
  BY LlmSeq
<1>7. LlmReqs' = [i \in 1..(Len(llmDecisions) + 1) |-> llmDecisions'[i].req]
  BY <1>4 DEF LlmReqs
<1>8. \A i \in 1..Len(llmDecisions) : llmDecisions'[i].req = LlmReqs[i]
  BY <1>3, <1>4 DEF LlmReqs
<1>9. /\ Append(LlmReqs, r) \in Seq(Request)
      /\ Len(Append(LlmReqs, r)) = Len(llmDecisions) + 1
      /\ Append(LlmReqs, r)[Len(llmDecisions) + 1] = r
      /\ \A i \in 1..Len(llmDecisions) : Append(LlmReqs, r)[i] = LlmReqs[i]
  BY <1>6, AppendProperties
<1>10. LlmReqs' = Append(LlmReqs, r)
  <2> DEFINE t == Append(LlmReqs, r)
  <2>1. t = [i \in 1..(Len(llmDecisions) + 1) |-> t[i]]
    <3>1. t \in [1..Len(t) -> Request]
      BY <1>9, LenProperties
    <3> QED BY <1>9, <3>1
  <2>2. \A i \in 1..(Len(llmDecisions) + 1) : t[i] = llmDecisions'[i].req
    BY <1>3, <1>4, <1>8, <1>9
  <2> HIDE DEF t
  <2> QED BY <1>7, <2>1, <2>2 DEF t
<1>11. LlmQueued' = {LlmReqs'[i] : i \in DOMAIN LlmReqs'}
  BY DEF LlmQueued, LlmReqs
<1>12. LlmQueued' = LlmQueued \cup {r}
  <2>1. LlmQueued' = Range(LlmReqs')
    BY <1>11 DEF Range
  <2>2. Range(Append(LlmReqs, r)) = Range(LlmReqs) \cup {r}
    BY <1>6, Appended
  <2> QED BY <1>6, <1>10, <2>1, <2>2
<1> QED BY <1>3, <1>5, <1>10, <1>12

LEMMA LlmRemoved ==
    ASSUME Typed, NEW i \in DOMAIN llmDecisions, OldestLate,
           llmDecisions' = RemoveAt(llmDecisions, i)
    PROVE  /\ llmDecisions' \in Seq(Decision)
           /\ LlmReqs' = RemoveAt(LlmReqs, i)
           /\ OldestLate'
<1>1. llmDecisions \in Seq(Decision) /\ Len(llmDecisions) \in Nat
      /\ DOMAIN llmDecisions = 1..Len(llmDecisions)
  BY DEF Typed, QueuesOK
<1> DEFINE n == Len(llmDecisions)
<1>2. /\ llmDecisions' \in Seq(Decision) /\ Len(llmDecisions') = n - 1
      /\ \A j \in 1..(n - 1) :
            llmDecisions'[j] = IF j < i THEN llmDecisions[j] ELSE llmDecisions[j + 1]
  BY <1>1, Removed
<1>3. DOMAIN llmDecisions' = 1..(n - 1)
  BY <1>2
<1>4. OldestLate'
  <2> SUFFICES ASSUME NEW j \in 1..(n - 1), NEW k \in 1..(n - 1), j < k,
                      llmDecisions'[k].late
               PROVE  llmDecisions'[j].late
    BY <1>3 DEF OldestLate
  <2>1. PICK a \in 1..n : a = (IF j < i THEN j ELSE j + 1)
                          /\ llmDecisions'[j] = llmDecisions[a]
    BY <1>1, <1>2
  <2>2. PICK b \in 1..n : b = (IF k < i THEN k ELSE k + 1)
                          /\ llmDecisions'[k] = llmDecisions[b]
    BY <1>1, <1>2
  <2>3. a < b
    BY <1>1, <2>1, <2>2
  <2> QED BY <1>1, <2>1, <2>2, <2>3 DEF OldestLate
<1>5. LlmReqs \in Seq(Request) /\ i \in DOMAIN LlmReqs /\ Len(LlmReqs) = n
  BY LlmSeq
<1> DEFINE t == RemoveAt(LlmReqs, i)
<1>6. /\ t \in Seq(Request) /\ Len(t) = n - 1
      /\ \A j \in 1..(n - 1) : t[j] = IF j < i THEN LlmReqs[j] ELSE LlmReqs[j + 1]
  BY <1>5, Removed
<1> HIDE DEF t
<1>7. t = [j \in 1..(n - 1) |-> t[j]]
  BY <1>6
<1>8. LlmReqs' = [j \in 1..(n - 1) |-> llmDecisions'[j].req]
  BY <1>3 DEF LlmReqs
<1>9. \A j \in 1..(n - 1) : t[j] = llmDecisions'[j].req
  <2>1. \A j \in 1..(n - 1) : j \in 1..n /\ j + 1 \in 1..n
    BY <1>1
  <2>2. \A j \in 1..n : LlmReqs[j] = llmDecisions[j].req
    BY <1>1 DEF LlmReqs
  <2> HIDE DEF n
  <2> QED BY <1>2, <1>6, <2>1, <2>2
<1>10. LlmReqs' = t
  BY <1>7, <1>8, <1>9
<1> QED BY <1>2, <1>4, <1>10 DEF t

LEMMA LlmSplit ==
    ASSUME Typed, NEW n \in 1..Len(llmDecisions), OldestLate, IsInjective(LlmReqs),
           llmDecisions' = AfterFirst(n)
    PROVE  /\ llmDecisions' \in Seq(Decision)
           /\ First(n) \in Seq(Request) /\ IsInjective(First(n))
           /\ IsInjective(LlmReqs')
           /\ LlmQueued' = LlmQueued \ Range(First(n))
           /\ Range(First(n)) \subseteq LlmQueued
           /\ OldestLate'
<1> DEFINE m == Len(llmDecisions)
<1>1. llmDecisions \in Seq(Decision) /\ m \in Nat /\ DOMAIN llmDecisions = 1..m
      /\ \A i \in 1..m : llmDecisions[i] \in Decision
  BY DEF Typed, QueuesOK
<1>2. /\ llmDecisions' \in Seq(Decision) /\ Len(llmDecisions') = m - n
      /\ \A j \in 1..(m - n) : llmDecisions'[j] = llmDecisions[n + j]
  <2> DEFINE t == SubSeq(llmDecisions, n + 1, m)
  <2>1. \A i \in (n + 1)..m : llmDecisions[i] \in Decision
    BY <1>1
  <2>2. /\ t \in Seq(Decision)
        /\ Len(t) = IF n + 1 <= m THEN m - (n + 1) + 1 ELSE 0
        /\ \A i \in 1..(m - (n + 1) + 1) : t[i] = llmDecisions[(n + 1) + i - 1]
    <3>1. n + 1 \in Int /\ m \in Int
      BY <1>1
    <3> QED BY ONLY <2>1, <3>1, SubSeqProperties
  <2>3. t = llmDecisions'
    BY DEF AfterFirst
  <2> HIDE DEF t
  <2>4. \A j \in 1..(m - n) : j \in 1..(m - (n + 1) + 1) /\ (n + 1) + j - 1 = n + j
    BY <1>1
  <2>5. Len(t) = m - n
    <3>1. n \in 1..m /\ m \in Nat
      BY <1>1
    <3>2. (IF n + 1 <= m THEN m - (n + 1) + 1 ELSE 0) = m - n
      BY ONLY <3>1
    <3> QED BY <2>2, <3>2
  <2> QED BY <2>2, <2>3, <2>4, <2>5
<1>3. DOMAIN llmDecisions' = 1..(m - n)
  BY <1>2
<1> HIDE DEF m
<1>4. \A j \in 1..(m - n) : n + j \in 1..m
  BY <1>1
<1>5. \A i \in 1..m : i \in 1..n \/ (i - n \in 1..(m - n) /\ n + (i - n) = i)
  BY <1>1
<1>6. 1..n \subseteq 1..m /\ \A i \in 1..n, j \in 1..(m - n) : i # n + j
  BY <1>1
<1>7. First(n) \in Seq(Request) /\ DOMAIN First(n) = 1..n
      /\ \A i \in 1..n : First(n)[i] = llmDecisions[i].req
  <2>1. First(n) \in [1..n -> Request]
    BY <1>1, <1>6 DEF First, Decision
  <2> QED BY <2>1, <1>1 DEF First, m
<1>8. \A i, j \in 1..m : llmDecisions[i].req = llmDecisions[j].req => i = j
  BY <1>1 DEF IsInjective, LlmReqs
<1>9. IsInjective(First(n))
  BY <1>6, <1>7, <1>8 DEF IsInjective
<1>10. IsInjective(LlmReqs')
  <2>1. \A j, k \in 1..(m - n) : llmDecisions'[j].req = llmDecisions'[k].req => j = k
    BY <1>1, <1>2, <1>4, <1>8
  <2> QED BY <1>3, <2>1 DEF IsInjective, LlmReqs
<1>11. LlmQueued' = LlmQueued \ Range(First(n))
  <2>1. LlmQueued' = {llmDecisions[n + j].req : j \in 1..(m - n)}
    BY <1>2, <1>3 DEF LlmQueued
  <2>2. Range(First(n)) = {llmDecisions[i].req : i \in 1..n}
    BY <1>7 DEF Range
  <2>3. LlmQueued = {llmDecisions[i].req : i \in 1..m}
    BY <1>1 DEF LlmQueued
  <2>4. \A j \in 1..(m - n) : llmDecisions[n + j].req \in LlmQueued \ Range(First(n))
    BY <1>4, <1>6, <1>8, <2>2, <2>3
  <2>5. \A i \in 1..m : \/ llmDecisions[i].req \in Range(First(n))
                        \/ llmDecisions[i].req \in LlmQueued'
    BY <1>5, <2>1, <2>2
  <2> QED BY <2>1, <2>3, <2>4, <2>5
<1>12. Range(First(n)) \subseteq LlmQueued
  BY <1>1, <1>6, <1>7 DEF Range, LlmQueued
<1>13. OldestLate'
  <2> SUFFICES ASSUME NEW i \in 1..(m - n), NEW j \in 1..(m - n), i < j,
                      llmDecisions'[j].late
               PROVE  llmDecisions'[i].late
    BY <1>3 DEF OldestLate
  <2>1. n + i < n + j
    BY <1>1
  <2> QED BY <1>1, <1>2, <1>4, <2>1 DEF OldestLate
<1> QED BY <1>2, <1>7, <1>9, <1>10, <1>11, <1>12, <1>13

(***************************************************************************)
(* The steps, grouped by what they move.                                   *)
(***************************************************************************)

LEMMA PlaceSets ==
    /\ Places["unseen"] = PU /\ Places["awaited"] = Awaited
    /\ Places["confirmation"] = Range(confirmations)
    /\ Places["llm"] = LlmQueued /\ Places["human"] = Range(humanEscalations)
    /\ Places["settled"] = PS
    /\ Places'["unseen"] = PU' /\ Places'["awaited"] = Awaited'
    /\ Places'["confirmation"] = Range(confirmations')
    /\ Places'["llm"] = LlmQueued' /\ Places'["human"] = Range(humanEscalations')
    /\ Places'["settled"] = PS'
  BY DEF Places, PU, PS

LEMMA MovedFrom ==
    ASSUME OnePlace, NEW from \in Place, NEW to \in Place, from # to,
           NEW R \in SUBSET Request, R \subseteq Places[from],
           \A p \in Place : Places'[p] = IF p = to THEN Places[p] \cup R
                                         ELSE IF p = from THEN Places[p] \ R
                                         ELSE Places[p]
    PROVE  OnePlace'
<1>1. \A p \in Place : p # from => Places[p] \ R = Places[p]
  BY Elsewhere
<1>2. Moved(R, to)
  BY <1>1 DEF Moved
<1> QED BY <1>2, MovedKeepsOnePlace

LEMMA MovedOne ==
    ASSUME OnePlace, NEW from \in Place, NEW to \in Place, from # to,
           NEW r \in Request, r \in Places[from],
           \A p \in Place : Places'[p] = IF p = to THEN Places[p] \cup {r}
                                         ELSE IF p = from THEN Places[p] \ {r}
                                         ELSE Places[p]
    PROVE  OnePlace'
<1>1. \A p \in Place : p # from => Places[p] \ {r} = Places[p]
  BY Elsewhere
<1>2. Moved({r}, to)
  BY <1>1 DEF Moved
<1> QED BY <1>2, MovedKeepsOnePlace

LEMMA NothingMoved ==
    ASSUME OnePlace, PU' = PU, Awaited' = Awaited, UNCHANGED confirmations,
           LlmQueued' = LlmQueued, UNCHANGED humanEscalations, UNCHANGED outcome
    PROVE  OnePlace'
<1>1. Places' = Places
  BY DEF Places, PU
<1> QED BY <1>1, SamePlaces

LEMMA BecomesSettled ==
    ASSUME Typed, NEW R \in SUBSET Request, NEW fate \in Fates, Becomes(R, fate)
    PROVE  /\ PS' = PS \cup R
           /\ (\A r \in Request : Len(outcome[r]) <= 1) /\ R \cap PS = {}
                => \A r \in Request : Len(outcome'[r]) <= 1
<1>1. \A r \in Request : outcome[r] \in Seq(Fates)
  BY DEF Typed, RestOK
<1>2. \A r \in R : outcome'[r] = Append(outcome[r], fate) /\ outcome'[r] # <<>>
                   /\ Len(outcome'[r]) = Len(outcome[r]) + 1
  BY <1>1, AppendProperties DEF Becomes
<1>3. \A r \in Request \ R : outcome'[r] = outcome[r]
  BY DEF Becomes
<1>4. PS' = PS \cup R
  BY <1>2, <1>3 DEF PS, Request
<1>5. Len(<<>>) = 0
  BY EmptySeq
<1> QED BY <1>2, <1>3, <1>4, <1>5 DEF PS

(* The handler of r leaves it: it was unseen, or awaited.                   *)
Leaves(r, from) ==
    /\ r \in Request /\ from \in {"unseen", "awaited"} /\ r \in Places[from]
    /\ PU' = IF from = "unseen" THEN PU \ {r} ELSE PU
    /\ Awaited' = IF from = "awaited" THEN Awaited \ {r} ELSE Awaited

LEMMA LeavesFrom ==
    ASSUME Typed, NEW e \in Event, Continues(e) \/ Goes(e, "exec")
    PROVE  /\ handler[e].pc = "run" => Leaves(Req(e), "unseen")
           /\ handler[e].pc \in {"llm", "human"} => Leaves(Req(e), "awaited")
  BY LeavesRun, LeavesAwaited, CurrentHook, PlaceSets DEF Leaves

(* A handler settles its request.                                          *)
LEMMA HandlerSettles ==
    ASSUME IInv, NEW r, NEW from, Leaves(r, from), NEW fate \in Fates,
           Becomes({r}, fate), UNCHANGED queues, HandlersOK', Keeps
    PROVE  IInv'
<1>1. r \in Request /\ from \in Place /\ from # "settled" /\ r \in Places[from]
  BY DEF Leaves, Place
<1>2. r \notin PS
  BY <1>1, Elsewhere, PlaceSets DEF IInv, Place
<1>3. PS' = PS \cup {r} /\ \A x \in Request : Len(outcome'[x]) <= 1
  <2>1. {r} \in SUBSET Request /\ {r} \cap PS = {}
    BY <1>1, <1>2
  <2>2. \A x \in Request : Len(outcome[x]) <= 1
    BY DEF IInv, Once
  <2> QED BY <2>1, <2>2, BecomesSettled DEF IInv
<1>4. Typed'
  BY SameQueues, BecomesTypes DEF IInv, Typed, RestOK, Keeps
<1>5. LlmQueued' = LlmQueued /\ UNCHANGED <<confirmations, humanEscalations, llmDecisions>>
  BY DEF queues, LlmQueued
<1>6. OnePlace'
  <2>1. \A p \in Place : Places'[p] = IF p = "settled" THEN Places[p] \cup {r}
                                      ELSE IF p = from THEN Places[p] \ {r}
                                      ELSE Places[p]
    BY <1>3, <1>5, PlaceSets DEF Leaves, Place
  <2>2. "settled" \in Place
    BY DEF Place
  <2> QED BY <1>1, <2>1, <2>2, MovedOne DEF IInv
<1> QED BY <1>3, <1>4, <1>5, <1>6 DEF IInv, Once, OldestLate, LlmReqs

(* A handler puts its request into a queue.                                 *)
LEMMA HandlerQueues ==
    ASSUME IInv, NEW r, NEW from, Leaves(r, from), HandlersOK', Keeps,
           UNCHANGED outcome,
           \/ /\ confirmations' = Append(confirmations, r)
              /\ UNCHANGED <<llmDecisions, humanEscalations>>
           \/ /\ humanEscalations' = Append(humanEscalations, r)
              /\ UNCHANGED <<llmDecisions, confirmations>>
           \/ /\ llmDecisions' = Append(llmDecisions, [req |-> r, late |-> FALSE])
              /\ UNCHANGED <<humanEscalations, confirmations>>
    PROVE  IInv'
<1>1. r \in Request /\ from \in Place /\ from \in {"unseen", "awaited"} /\ r \in Places[from]
  BY DEF Leaves, Place
<1>2. r \notin Range(confirmations) /\ r \notin Range(humanEscalations) /\ r \notin LlmQueued
  BY <1>1, Elsewhere, PlaceSets DEF IInv, Place
<1>3. RestOK' /\ PS' = PS
  BY SameRest DEF IInv, PS
<1>4. /\ "confirmation" \in Place /\ "llm" \in Place /\ "human" \in Place
      /\ from # "confirmation" /\ from # "llm" /\ from # "human"
  BY <1>1 DEF Place
<1>5. /\ confirmations \in Seq(Request) /\ humanEscalations \in Seq(Request)
      /\ llmDecisions \in Seq(Decision)
  BY DEF IInv, Typed, QueuesOK
<1>6. CASE /\ confirmations' = Append(confirmations, r)
           /\ UNCHANGED <<llmDecisions, humanEscalations>>
  <2>1. /\ confirmations' \in Seq(Request) /\ IsInjective(confirmations')
        /\ Range(confirmations') = Range(confirmations) \cup {r}
    BY <1>1, <1>2, <1>5, <1>6, Appended DEF IInv, Once
  <2>2. \A p \in Place : Places'[p] = IF p = "confirmation" THEN Places[p] \cup {r}
                                      ELSE IF p = from THEN Places[p] \ {r}
                                      ELSE Places[p]
    <3>1. LlmQueued' = LlmQueued
      BY <1>6 DEF LlmQueued
    <3> QED BY <1>3, <1>6, <2>1, <3>1, PlaceSets DEF Leaves, Place
  <2>3. OnePlace'
    <3>1. OnePlace
      BY DEF IInv
    <3>2. /\ from \in Place /\ "confirmation" \in Place /\ from # "confirmation"
          /\ r \in Request /\ r \in Places[from]
      BY <1>1, <1>4
    <3> QED BY ONLY <2>2, <3>1, <3>2, MovedOne
  <2> QED BY <1>3, <1>5, <1>6, <2>1, <2>3 DEF IInv, Typed, QueuesOK, Once, OldestLate, LlmReqs
<1>7. CASE /\ humanEscalations' = Append(humanEscalations, r)
           /\ UNCHANGED <<llmDecisions, confirmations>>
  <2>1. /\ humanEscalations' \in Seq(Request) /\ IsInjective(humanEscalations')
        /\ Range(humanEscalations') = Range(humanEscalations) \cup {r}
    BY <1>1, <1>2, <1>5, <1>7, Appended DEF IInv, Once
  <2>2. \A p \in Place : Places'[p] = IF p = "human" THEN Places[p] \cup {r}
                                      ELSE IF p = from THEN Places[p] \ {r}
                                      ELSE Places[p]
    <3>1. LlmQueued' = LlmQueued
      BY <1>7 DEF LlmQueued
    <3> QED BY <1>3, <1>7, <2>1, <3>1, PlaceSets DEF Leaves, Place
  <2>3. OnePlace'
    <3>1. OnePlace
      BY DEF IInv
    <3>2. /\ from \in Place /\ "human" \in Place /\ from # "human"
          /\ r \in Request /\ r \in Places[from]
      BY <1>1, <1>4
    <3> QED BY ONLY <2>2, <3>1, <3>2, MovedOne
  <2> QED BY <1>3, <1>5, <1>7, <2>1, <2>3 DEF IInv, Typed, QueuesOK, Once, OldestLate, LlmReqs
<1>8. CASE /\ llmDecisions' = Append(llmDecisions, [req |-> r, late |-> FALSE])
           /\ UNCHANGED <<humanEscalations, confirmations>>
  <2>1. /\ llmDecisions' \in Seq(Decision) /\ LlmReqs' = Append(LlmReqs, r)
        /\ LlmQueued' = LlmQueued \cup {r} /\ OldestLate'
    BY <1>1, <1>8, LlmAppended DEF IInv
  <2>2. IsInjective(LlmReqs')
    <3>1. LlmReqs \in Seq(Request) /\ Range(LlmReqs) = LlmQueued
      BY LlmSeq DEF IInv
    <3> QED BY <1>1, <1>2, <2>1, <3>1, Appended DEF IInv, Once
  <2>3. \A p \in Place : Places'[p] = IF p = "llm" THEN Places[p] \cup {r}
                                      ELSE IF p = from THEN Places[p] \ {r}
                                      ELSE Places[p]
    BY <1>3, <1>8, <2>1, PlaceSets DEF Leaves, Place
  <2>4. OnePlace'
    <3>1. OnePlace
      BY DEF IInv
    <3>2. /\ from \in Place /\ "llm" \in Place /\ from # "llm"
          /\ r \in Request /\ r \in Places[from]
      BY <1>1, <1>4
    <3> QED BY ONLY <2>3, <3>1, <3>2, MovedOne
  <2> QED BY <1>3, <1>5, <1>8, <2>1, <2>2, <2>4 DEF IInv, Typed, QueuesOK, Once
<1> QED BY <1>6, <1>7, <1>8

(* A handler that has the thread asks a callback.                           *)
LEMMA HandlerAsks ==
    ASSUME IInv, NEW e \in Event, handler[e].pc = "run",
           NEW pc \in {"llm", "human"}, Goes(e, pc), Keeps, UNCHANGED <<queues, outcome>>
    PROVE  IInv'
<1>1. Req(e) \in PU /\ PU' = PU \ {Req(e)} /\ Awaited' = Awaited \cup {Req(e)}
  BY BeginsAwaiting DEF IInv
<1>2. Typed'
  BY GoesTypes, SameQueues, SameRest DEF IInv, Typed
<1>3. PS' = PS /\ LlmQueued' = LlmQueued
      /\ UNCHANGED <<confirmations, humanEscalations, llmDecisions>>
  BY DEF PS, LlmQueued, queues
<1>4. OnePlace'
  <2>1. \A p \in Place : Places'[p] = IF p = "awaited" THEN Places[p] \cup {Req(e)}
                                      ELSE IF p = "unseen" THEN Places[p] \ {Req(e)}
                                      ELSE Places[p]
    BY <1>1, <1>3, PlaceSets DEF Place
  <2>2. "awaited" \in Place /\ "unseen" \in Place /\ Req(e) \in Request
        /\ Req(e) \in Places["unseen"] /\ "awaited" # "unseen"
    BY <1>1, PlaceSets DEF Place, PU
  <2> QED BY <2>1, <2>2, MovedOne DEF IInv
<1> QED BY <1>2, <1>3, <1>4 DEF IInv, Once, OldestLate, LlmReqs

(* A handler moves on, and no request does.                                 *)
LEMMA HandlerMovesOn ==
    ASSUME IInv, HandlersOK', PU' = PU, Awaited' = Awaited, Keeps,
           UNCHANGED <<queues, outcome>>
    PROVE  IInv'
<1>1. UNCHANGED <<confirmations, humanEscalations, llmDecisions>> /\ LlmQueued' = LlmQueued
  BY DEF queues, LlmQueued
<1>2. Typed'
  BY SameQueues, SameRest DEF IInv, Typed
<1>3. OnePlace'
  BY <1>1, NothingMoved DEF IInv
<1> QED BY <1>1, <1>2, <1>3 DEF IInv, Once, OldestLate, LlmReqs

LEMMA HandleEventKeeps == ASSUME IInv, NEW e \in Event, handleEvent(e) PROVE IInv'
<1>1. handler[e].pc = "idle" /\ handler[e].rest = <<>>
  BY DEF handleEvent, IInv, Typed, HandlersOK
<1>2. /\ handler'[e].pc = (IF Hook = <<>> THEN "done" ELSE "run")
      /\ handler'[e].rest = Hook
      /\ \A f \in Event \ {e} : handler'[f] = handler[f]
      /\ handler' \in [Event -> [pc : Steps, rest : Seq(H)]]
  BY HookSeq DEF handleEvent, IInv, Typed, HandlersOK, Steps
<1>3. HandlersOK'
  BY <1>2, HookSeq DEF IInv, Typed, HandlersOK
<1>4. Range(<<>>) = {}
  BY DEF Range
<1>5. Unseen(e)' = Unseen(e)
  BY <1>1, <1>2, <1>4 DEF Unseen
<1>6. \A f \in Event : Unseen(f)' = Unseen(f)
  BY <1>2, <1>5 DEF Unseen
<1>7. PU' = PU
  <2>1. \A r \in Request : r[2] \in Unseen(r[1])' <=> r[2] \in Unseen(r[1])
    BY <1>6, Requests
  <2> QED BY <2>1 DEF PU, Request
<1>8. Awaited' = Awaited
  <2>1. \A f \in Event : /\ handler'[f].pc \in {"llm", "human"}
                             <=> handler[f].pc \in {"llm", "human"}
                         /\ f # e => Req(f)' = Req(f)
    BY <1>1, <1>2 DEF Req, Current
  <2>2. handler[e].pc \notin {"llm", "human"}
    BY <1>1
  <2> QED BY <2>1, <2>2 DEF Awaited
<1> QED BY <1>3, <1>7, <1>8, HandlerMovesOn DEF handleEvent

(* An exception takes what the handler waited for and the later hooks.      *)
LEMMA ThrowsKeeps == ASSUME IInv, NEW e \in Event, Throws(e) PROVE IInv'
<1> DEFINE left == {<<e, h>> : h \in Range(handler[e].rest)}
           R == IF handler[e].pc = "exec" THEN left \ {Req(e)} ELSE left
           tail == Range(Tail(handler[e].rest))
<1>1. /\ handler[e].pc \in {"llm", "human", "exec"} /\ Becomes(R, "dropped")
      /\ handler' = [handler EXCEPT ![e] = [pc |-> "done", rest |-> <<>>]]
      /\ Keeps /\ UNCHANGED queues
  BY DEF Throws
<1>2. /\ Range(handler[e].rest) = {Current(e)} \cup tail /\ Current(e) \notin tail
      /\ Current(e) \in H /\ Req(e) \in Request /\ tail \subseteq H
      /\ Unseen(e) = tail
  <2>1. Tail(handler[e].rest) \in Seq(H)
    BY <1>1, CurrentHook DEF IInv
  <2>2. tail \subseteq H
    BY <2>1 DEF Range
  <2> QED BY <1>1, <2>2, CurrentHook, UnseenParts DEF IInv
<1>3. R \in SUBSET Request
  BY <1>2 DEF Request, H
<1>4. HandlersOK'
  <2>1. <<>> \in Seq(H) /\ IsInjective(<<>>)
    BY EmptySeq DEF IsInjective
  <2> QED BY <1>1, <2>1 DEF IInv, Typed, HandlersOK, Steps
<1>5. /\ handler'[e].pc = "done" /\ handler'[e].rest = <<>>
      /\ \A f \in Event \ {e} : handler'[f] = handler[f]
  BY <1>1 DEF IInv, Typed, HandlersOK
<1>6. Unseen(e)' = {} /\ \A f \in Event \ {e} : Unseen(f)' = Unseen(f)
  BY <1>5 DEF Unseen
<1>7. PU' = PU \ R
  <2>1. \A r \in Request : r[2] \in Unseen(r[1])' <=> r[2] \in Unseen(r[1]) /\ r \notin R
    <3> SUFFICES ASSUME NEW r \in Request
                 PROVE  r[2] \in Unseen(r[1])' <=> r[2] \in Unseen(r[1]) /\ r \notin R
      OBVIOUS
    <3>1. r[1] \in Event /\ r = <<r[1], r[2]>>
      BY Requests
    <3>2. CASE r[1] = e
      BY <1>2, <1>6, <3>1, <3>2 DEF Req
    <3>3. CASE r[1] # e
      <4>1. r \notin R
        BY <3>3 DEF Req
      <4> QED BY <1>6, <3>1, <3>3, <4>1
    <3> QED BY <3>2, <3>3
  <2> QED BY <2>1 DEF PU, Request
<1>8. Awaited' = Awaited \ R
  <2>1. Awaited' = Awaited \ {Req(e)}
    BY <1>5 DEF Awaited, Req, Current
  <2>2. \A f \in Event \ {e} : Req(f) \notin R /\ Req(f) # Req(e)
    BY DEF Req
  <2>3. CASE handler[e].pc = "exec"
    <3>1. \A r \in Awaited : r \notin R /\ r # Req(e)
      BY <2>2, <2>3 DEF Awaited
    <3> QED BY <2>1, <3>1
  <2>4. CASE handler[e].pc \in {"llm", "human"}
    <3>1. Req(e) \in R
      BY <1>2, <2>4 DEF Req
    <3> QED BY <2>1, <2>2, <3>1 DEF Awaited
  <2> QED BY <1>1, <2>3, <2>4
<1>9. R \subseteq PU \cup Awaited
  <2>1. \A h \in tail : <<e, h>> \in PU
    BY <1>2 DEF PU, Request, H
  <2>2. handler[e].pc \in {"llm", "human"} => Req(e) \in Awaited
    BY DEF Awaited
  <2> QED BY <1>1, <1>2, <2>1, <2>2 DEF Req
<1> HIDE DEF R
<1>10. /\ R \cap PS = {} /\ Range(confirmations) \ R = Range(confirmations)
       /\ Range(humanEscalations) \ R = Range(humanEscalations)
       /\ LlmQueued \ R = LlmQueued
  <2>1. \A r \in R : r \in Request /\ (r \in Places["unseen"] \/ r \in Places["awaited"])
    BY <1>3, <1>9, PlaceSets
  <2> QED BY <2>1, Elsewhere, PlaceSets DEF IInv, Place
<1>11. PS' = PS \cup R /\ \A x \in Request : Len(outcome'[x]) <= 1
  BY <1>1, <1>3, <1>10, BecomesSettled DEF IInv, Once, Fates
<1>12. Typed'
  BY <1>1, <1>4, SameQueues, BecomesTypes DEF IInv, Typed, RestOK, Keeps, Fates
<1>13. LlmQueued' = LlmQueued /\ UNCHANGED <<confirmations, humanEscalations, llmDecisions>>
  BY <1>1 DEF queues, LlmQueued
<1>14. OnePlace'
  <2>1. \A p \in Place : Places'[p] = IF p = "settled" THEN Places[p] \cup R
                                      ELSE Places[p] \ R
    BY <1>7, <1>8, <1>10, <1>11, <1>13, PlaceSets DEF Place
  <2>2. "settled" \in Place
    BY DEF Place
  <2> QED BY <2>1, <2>2, MovedKeepsOnePlace DEF IInv, Moved
<1> QED BY <1>11, <1>12, <1>13, <1>14 DEF IInv, Once, OldestLate, LlmReqs

(* Without a step of a handler.                                            *)
LEMMA HandlersSame ==
    ASSUME IInv, UNCHANGED handler
    PROVE  PU' = PU /\ Awaited' = Awaited /\ HandlersOK'
<1>1. \A e \in Event : Unseen(e)' = Unseen(e) /\ Req(e)' = Req(e)
  BY DEF Unseen, Req, Current
<1>2. Awaited' = Awaited
  BY <1>1 DEF Awaited
<1>3. PU' = PU
  <2>1. \A r \in Request : r[2] \in Unseen(r[1])' <=> r[2] \in Unseen(r[1])
    BY <1>1, Requests
  <2> QED BY <2>1 DEF PU, Request
<1> QED BY <1>2, <1>3 DEF IInv, Typed, HandlersOK

LEMMA QueueTypes ==
    ASSUME IInv
    PROVE  /\ confirmations \in Seq(Request) /\ humanEscalations \in Seq(Request)
           /\ llmDecisions \in Seq(Decision)
           /\ \A i \in DOMAIN confirmations :
                 confirmations[i] \in Request /\ confirmations[i] \in Range(confirmations)
           /\ \A i \in DOMAIN humanEscalations :
                 /\ humanEscalations[i] \in Request
                 /\ humanEscalations[i] \in Range(humanEscalations)
           /\ \A i \in DOMAIN llmDecisions :
                 llmDecisions[i].req \in Request /\ llmDecisions[i].req \in LlmQueued
<1>1. /\ confirmations \in Seq(Request) /\ humanEscalations \in Seq(Request)
      /\ llmDecisions \in Seq(Decision)
  BY DEF IInv, Typed, QueuesOK
<1>2. \A i \in DOMAIN llmDecisions : llmDecisions[i] \in Decision
  BY <1>1
<1> QED BY <1>1, <1>2 DEF Range, LlmQueued, Decision

(* What an answer makes of a request r that is not settled.                 *)
LEMMA AnswerSettles ==
    ASSUME IInv, NEW r \in Request, r \notin PS, NEW fates \in SUBSET Fates,
           Answers(r, fates), Keeps
    PROVE  /\ RestOK' /\ PS' = PS \cup {r}
           /\ \A x \in Request : Len(outcome'[x]) <= 1
<1>1. PICK fate \in fates : Becomes({r}, fate)
  BY DEF Answers
<1>2. {r} \in SUBSET Request /\ {r} \cap PS = {} /\ fate \in Fates
  OBVIOUS
<1>3. \A x \in Request : Len(outcome[x]) <= 1
  BY DEF IInv, Once
<1>4. PS' = PS \cup {r} /\ \A x \in Request : Len(outcome'[x]) <= 1
  BY <1>1, <1>2, <1>3, BecomesSettled DEF IInv
<1>5. RestOK'
  BY <1>1, <1>2, BecomesTypes DEF IInv, Typed, RestOK, Keeps
<1> QED BY <1>4, <1>5

LEMMA AnswersConfirmationKeeps ==
    ASSUME IInv, NEW i \in DOMAIN confirmations, AnswersConfirmation(i) PROVE IInv'
<1>0. PICK r : r = confirmations[i]
  OBVIOUS
<1>1. /\ confirmations \in Seq(Request) /\ r \in Request /\ r \in Range(confirmations)
      /\ llmDecisions \in Seq(Decision) /\ humanEscalations \in Seq(Request)
  BY <1>0, QueueTypes
<1>2. r \notin PS
  BY <1>1, Elsewhere, PlaceSets DEF IInv, Place
<1>3. {"human approved", "refused"} \in SUBSET Fates
  BY DEF Fates
<1>4. /\ RestOK' /\ PS' = PS \cup {r}
      /\ \A x \in Request : Len(outcome'[x]) <= 1
  BY <1>0, <1>1, <1>2, <1>3, AnswerSettles DEF AnswersConfirmation
<1>5. /\ confirmations' \in Seq(Request) /\ IsInjective(confirmations')
      /\ Range(confirmations') = Range(confirmations) \ {r}
  BY <1>0, <1>1, Removed, RemovedRange DEF AnswersConfirmation, IInv, Once
<1>6. PU' = PU /\ Awaited' = Awaited /\ HandlersOK' /\ LlmQueued' = LlmQueued
      /\ UNCHANGED <<llmDecisions, humanEscalations>>
  BY <1>0, HandlersSame DEF AnswersConfirmation, LlmQueued
<1>7. OnePlace'
  <2>0. PICK R : R = {r}
    OBVIOUS
  <2>1. \A p \in Place : Places'[p] = IF p = "settled" THEN Places[p] \cup R
                                      ELSE IF p = "confirmation" THEN Places[p] \ R
                                      ELSE Places[p]
    BY <2>0, <1>4, <1>5, <1>6, PlaceSets DEF Place
  <2>2. /\ "confirmation" \in Place /\ "settled" \in Place /\ "confirmation" # "settled"
        /\ R \in SUBSET Request /\ R \subseteq Places["confirmation"] /\ OnePlace
    BY <2>0, <1>1, PlaceSets DEF Place, IInv
  <2> QED BY ONLY <2>1, <2>2, MovedFrom
<1> QED BY <1>1, <1>4, <1>5, <1>6, <1>7
    DEF IInv, Typed, QueuesOK, Once, OldestLate, LlmReqs

LEMMA AnswersHumanKeeps ==
    ASSUME IInv, NEW i \in DOMAIN humanEscalations, AnswersHumanEscalation(i)
    PROVE  IInv'
<1>0. PICK r : r = humanEscalations[i]
  OBVIOUS
<1>1. /\ humanEscalations \in Seq(Request) /\ r \in Request
      /\ r \in Range(humanEscalations)
      /\ llmDecisions \in Seq(Decision) /\ confirmations \in Seq(Request)
  BY <1>0, QueueTypes
<1>2. r \notin PS
  BY <1>1, Elsewhere, PlaceSets DEF IInv, Place
<1>3. {"human approved", "refused"} \in SUBSET Fates
  BY DEF Fates
<1>4. /\ RestOK' /\ PS' = PS \cup {r}
      /\ \A x \in Request : Len(outcome'[x]) <= 1
  BY <1>0, <1>1, <1>2, <1>3, AnswerSettles DEF AnswersHumanEscalation
<1>5. /\ humanEscalations' \in Seq(Request) /\ IsInjective(humanEscalations')
      /\ Range(humanEscalations') = Range(humanEscalations) \ {r}
  BY <1>0, <1>1, Removed, RemovedRange DEF AnswersHumanEscalation, IInv, Once
<1>6. PU' = PU /\ Awaited' = Awaited /\ HandlersOK' /\ LlmQueued' = LlmQueued
      /\ UNCHANGED <<llmDecisions, confirmations>>
  BY <1>0, HandlersSame DEF AnswersHumanEscalation, LlmQueued
<1>7. OnePlace'
  <2>0. PICK R : R = {r}
    OBVIOUS
  <2>1. \A p \in Place : Places'[p] = IF p = "settled" THEN Places[p] \cup R
                                      ELSE IF p = "human" THEN Places[p] \ R
                                      ELSE Places[p]
    BY <2>0, <1>4, <1>5, <1>6, PlaceSets DEF Place
  <2>2. /\ "human" \in Place /\ "settled" \in Place /\ "human" # "settled"
        /\ R \in SUBSET Request /\ R \subseteq Places["human"] /\ OnePlace
    BY <2>0, <1>1, PlaceSets DEF Place, IInv
  <2> QED BY ONLY <2>1, <2>2, MovedFrom
<1> QED BY <1>1, <1>4, <1>5, <1>6, <1>7
    DEF IInv, Typed, QueuesOK, Once, OldestLate, LlmReqs

(* A decision leaves the queue of the model.                                *)
LEMMA LlmLeaves ==
    ASSUME IInv, NEW i \in DOMAIN llmDecisions,
           llmDecisions' = RemoveAt(llmDecisions, i)
    PROVE  /\ llmDecisions' \in Seq(Decision) /\ OldestLate'
           /\ LlmQueued' = LlmQueued \ {llmDecisions[i].req}
           /\ IsInjective(LlmReqs')
<1>1. /\ llmDecisions' \in Seq(Decision) /\ OldestLate'
      /\ LlmReqs' = RemoveAt(LlmReqs, i)
  BY LlmRemoved DEF IInv
<1>2. /\ LlmReqs \in Seq(Request) /\ i \in DOMAIN LlmReqs /\ Range(LlmReqs) = LlmQueued
      /\ LlmReqs[i] = llmDecisions[i].req
  BY LlmSeq DEF IInv, LlmReqs
<1>3. IsInjective(LlmReqs)
  BY DEF IInv, Once
<1>4. /\ Range(LlmReqs') = LlmQueued \ {llmDecisions[i].req}
      /\ IsInjective(LlmReqs')
  BY <1>1, <1>2, <1>3, RemovedRange
<1>5. LlmQueued' = Range(LlmReqs')
  BY DEF LlmQueued, LlmReqs, Range
<1> QED BY <1>1, <1>4, <1>5

LEMMA AnswersLlmKeeps ==
    ASSUME IInv, NEW i \in DOMAIN llmDecisions, AnswersLlmDecision(i) PROVE IInv'
<1>0. PICK r : r = llmDecisions[i].req
  OBVIOUS
<1>1. r \in Request /\ r \in LlmQueued
      /\ confirmations \in Seq(Request) /\ humanEscalations \in Seq(Request)
  BY <1>0, QueueTypes
<1>2. r \notin PS
  BY <1>1, Elsewhere, PlaceSets DEF IInv, Place
<1>3. {"llm approved", "refused"} \in SUBSET Fates
  BY DEF Fates
<1>4. /\ RestOK' /\ PS' = PS \cup {r}
      /\ \A x \in Request : Len(outcome'[x]) <= 1
  BY <1>0, <1>1, <1>2, <1>3, AnswerSettles DEF AnswersLlmDecision
<1>5. /\ llmDecisions' \in Seq(Decision) /\ OldestLate'
      /\ LlmQueued' = LlmQueued \ {r} /\ IsInjective(LlmReqs')
  BY <1>0, LlmLeaves DEF AnswersLlmDecision
<1>6. PU' = PU /\ Awaited' = Awaited /\ HandlersOK'
      /\ UNCHANGED <<humanEscalations, confirmations>>
  BY <1>0, HandlersSame DEF AnswersLlmDecision
<1>7. OnePlace'
  <2>0. PICK R : R = {r}
    OBVIOUS
  <2>1. \A p \in Place : Places'[p] = IF p = "settled" THEN Places[p] \cup R
                                      ELSE IF p = "llm" THEN Places[p] \ R
                                      ELSE Places[p]
    BY <2>0, <1>4, <1>5, <1>6, PlaceSets DEF Place
  <2>2. /\ "llm" \in Place /\ "settled" \in Place /\ "llm" # "settled"
        /\ R \in SUBSET Request /\ R \subseteq Places["llm"] /\ OnePlace
    BY <2>0, <1>1, PlaceSets DEF Place, IInv
  <2> QED BY ONLY <2>1, <2>2, MovedFrom
<1> QED BY <1>1, <1>4, <1>5, <1>6, <1>7 DEF IInv, Typed, QueuesOK, Once

LEMMA EscalateLlmKeeps ==
    ASSUME IInv, NEW i \in DOMAIN llmDecisions, escalateLlmDecision(i) PROVE IInv'
<1>0. PICK r : r = llmDecisions[i].req
  OBVIOUS
<1>1. r \in Request /\ r \in LlmQueued
      /\ confirmations \in Seq(Request) /\ humanEscalations \in Seq(Request)
  BY <1>0, QueueTypes
<1>2. r \notin Range(humanEscalations)
  BY <1>1, Elsewhere, PlaceSets DEF IInv, Place
<1>3. RestOK' /\ PS' = PS /\ UNCHANGED outcome
  BY <1>0, SameRest DEF escalateLlmDecision, IInv, PS
<1>4. /\ llmDecisions' \in Seq(Decision) /\ OldestLate'
      /\ LlmQueued' = LlmQueued \ {r} /\ IsInjective(LlmReqs')
  BY <1>0, LlmLeaves DEF escalateLlmDecision
<1>5. /\ humanEscalations' \in Seq(Request) /\ IsInjective(humanEscalations')
      /\ Range(humanEscalations') = Range(humanEscalations) \cup {r}
  BY <1>0, <1>1, <1>2, Appended DEF escalateLlmDecision, IInv, Once
<1>6. PU' = PU /\ Awaited' = Awaited /\ HandlersOK' /\ UNCHANGED confirmations
  BY <1>0, HandlersSame DEF escalateLlmDecision
<1>7. OnePlace'
  <2>0. PICK R : R = {r}
    OBVIOUS
  <2>1. \A p \in Place : Places'[p] = IF p = "human" THEN Places[p] \cup R
                                      ELSE IF p = "llm" THEN Places[p] \ R
                                      ELSE Places[p]
    BY <2>0, <1>3, <1>4, <1>5, <1>6, PlaceSets DEF Place
  <2>2. /\ "llm" \in Place /\ "human" \in Place /\ "llm" # "human"
        /\ R \in SUBSET Request /\ R \subseteq Places["llm"] /\ OnePlace
    BY <2>0, <1>1, PlaceSets DEF Place, IInv
  <2> QED BY ONLY <2>1, <2>2, MovedFrom
<1> QED BY <1>1, <1>3, <1>4, <1>5, <1>6, <1>7 DEF IInv, Typed, QueuesOK, Once

LEMMA EscalatesKeeps ==
    ASSUME IInv, NEW n \in 1..Len(llmDecisions), escalates(n) PROVE IInv'
<1> DEFINE R == Range(First(n))
<1>1. confirmations \in Seq(Request) /\ humanEscalations \in Seq(Request)
  BY QueueTypes
<1>2. /\ llmDecisions' \in Seq(Decision) /\ OldestLate'
      /\ First(n) \in Seq(Request) /\ IsInjective(First(n)) /\ IsInjective(LlmReqs')
      /\ LlmQueued' = LlmQueued \ R /\ R \subseteq LlmQueued
  BY LlmSplit DEF escalates, IInv, Once
<1>3. R \in SUBSET Request
  <2>1. \A x \in R : x \in Request
    BY <1>2 DEF Range
  <2> QED BY <2>1
<1>4. Range(humanEscalations) \cap R = {}
  <2>1. \A x \in R : x \notin Range(humanEscalations)
    BY <1>2, <1>3, Elsewhere, PlaceSets DEF IInv, Place
  <2> QED BY <2>1
<1>5. /\ humanEscalations' \in Seq(Request) /\ IsInjective(humanEscalations')
      /\ Range(humanEscalations') = Range(humanEscalations) \cup R
  BY <1>1, <1>2, <1>4, ReversedConcat DEF escalates, IInv, Once
<1>6. RestOK' /\ PS' = PS /\ UNCHANGED outcome
  BY SameRest DEF escalates, IInv, PS
<1>7. PU' = PU /\ Awaited' = Awaited /\ HandlersOK' /\ UNCHANGED confirmations
  BY HandlersSame DEF escalates
<1> HIDE DEF R
<1>8. OnePlace'
  <2>1. \A p \in Place : Places'[p] = IF p = "human" THEN Places[p] \cup R
                                      ELSE IF p = "llm" THEN Places[p] \ R
                                      ELSE Places[p]
    BY <1>2, <1>5, <1>6, <1>7, PlaceSets DEF Place
  <2>2. /\ "llm" \in Place /\ "human" \in Place /\ "llm" # "human"
        /\ R \in SUBSET Request /\ R \subseteq Places["llm"] /\ OnePlace
    BY <1>2, <1>3, PlaceSets DEF Place, IInv
  <2> QED BY ONLY <2>1, <2>2, MovedFrom
<1> QED BY <1>1, <1>2, <1>5, <1>6, <1>7, <1>8 DEF IInv, Typed, QueuesOK, Once

LEMMA AgesKeeps == ASSUME IInv, DecisionAges PROVE IInv'
<1>1. PICK i \in DOMAIN llmDecisions :
        /\ ~ llmDecisions[i].late
        /\ \A j \in 1..(i - 1) : llmDecisions[j].late
        /\ llmDecisions' = [llmDecisions EXCEPT ![i].late = TRUE]
  BY DEF DecisionAges
<1>2. /\ llmDecisions \in Seq(Decision) /\ DOMAIN llmDecisions = 1..Len(llmDecisions)
      /\ Len(llmDecisions) \in Nat /\ \A j \in DOMAIN llmDecisions : llmDecisions[j] \in Decision
      /\ confirmations \in Seq(Request) /\ humanEscalations \in Seq(Request)
  BY QueueTypes
<1>3. [llmDecisions[i] EXCEPT !.late = TRUE] \in Decision
  BY <1>2 DEF Decision
<1>4. llmDecisions' = [llmDecisions EXCEPT ![i] = [llmDecisions[i] EXCEPT !.late = TRUE]]
  BY <1>1
<1>5. llmDecisions' \in Seq(Decision) /\ DOMAIN llmDecisions' = DOMAIN llmDecisions
  BY <1>2, <1>3, <1>4, ExceptSeq
<1>6. \A j \in DOMAIN llmDecisions :
         /\ llmDecisions'[j].req = llmDecisions[j].req
         /\ llmDecisions'[j].late = IF j = i THEN TRUE ELSE llmDecisions[j].late
  BY <1>2, <1>4 DEF Decision
<1>7. LlmReqs' = LlmReqs /\ LlmQueued' = LlmQueued
  BY <1>5, <1>6 DEF LlmReqs, LlmQueued
<1>8. OldestLate'
  BY <1>1, <1>2, <1>5, <1>6 DEF IInv, OldestLate
<1>9. RestOK' /\ PU' = PU /\ Awaited' = Awaited /\ HandlersOK'
      /\ UNCHANGED <<confirmations, humanEscalations, outcome>>
  BY SameRest, HandlersSame DEF DecisionAges, IInv
<1>10. OnePlace'
  BY <1>7, <1>9, NothingMoved DEF IInv
<1> QED BY <1>2, <1>5, <1>7, <1>8, <1>9, <1>10 DEF IInv, Typed, QueuesOK, Once

LEMMA StopKeeps == ASSUME IInv, stop PROVE IInv'
<1> DEFINE R == Queued
<1>1. R \in SUBSET Request /\ "dropped" \in Fates /\ Becomes(R, "dropped")
  BY TypedImplies DEF IInv, TypeOK, stop, Fates
<1>2. /\ R \cap PS = {} /\ PU \ R = PU /\ Awaited \ R = Awaited
  <2>1. \A r \in R : \/ r \in Places["confirmation"] \/ r \in Places["human"]
                     \/ r \in Places["llm"]
    BY PlaceSets DEF Queued
  <2>2. \A r \in R : r \notin PS /\ r \notin PU /\ r \notin Awaited
    BY <1>1, <2>1, Elsewhere, PlaceSets DEF IInv, Place
  <2> QED BY <2>2
<1>3. PS' = PS \cup R /\ \A x \in Request : Len(outcome'[x]) <= 1
  <2>1. \A x \in Request : Len(outcome[x]) <= 1
    BY DEF IInv, Once
  <2> HIDE DEF R
  <2> QED BY <1>1, <1>2, <2>1, BecomesSettled DEF IInv
<1>4. RestOK'
  BY <1>1, BecomesTypes DEF IInv, stop
<1>5. confirmations' = <<>> /\ llmDecisions' = <<>> /\ humanEscalations' = <<>>
  BY DEF stop
<1>6. /\ QueuesOK' /\ OldestLate' /\ LlmQueued' = {} /\ Range(confirmations') = {}
      /\ Range(humanEscalations') = {}
      /\ IsInjective(confirmations') /\ IsInjective(humanEscalations')
      /\ IsInjective(LlmReqs')
  BY <1>5, EmptySeq DEF QueuesOK, OldestLate, LlmQueued, Range, IsInjective, LlmReqs
<1>7. PU' = PU /\ Awaited' = Awaited /\ HandlersOK'
  BY HandlersSame DEF stop
<1>8. /\ Range(confirmations) \ R = {} /\ Range(humanEscalations) \ R = {}
      /\ LlmQueued \ R = {}
  BY DEF Queued
<1> HIDE DEF R
<1>9. OnePlace'
  <2>1. \A p \in Place : Places'[p] = IF p = "settled" THEN Places[p] \cup R
                                      ELSE Places[p] \ R
    BY <1>2, <1>3, <1>6, <1>7, <1>8, PlaceSets DEF Place
  <2>2. "settled" \in Place
    BY DEF Place
  <2> QED BY <2>1, <2>2, MovedKeepsOnePlace DEF IInv, Moved
<1> QED BY <1>3, <1>4, <1>6, <1>7, <1>9 DEF IInv, Typed, Once

LEMMA HandlesKeeps == ASSUME IInv, NEW e \in Event, Handles(e) PROVE IInv'
<1>0. Typed /\ {"executed", "llm approved", "human approved", "refused"} \subseteq Fates
  BY DEF IInv, Fates
<1>1. CASE handleEvent(e)
  BY <1>1, HandleEventKeeps
<1>2. CASE Skips(e) \/ Denies(e)
  <2>1. /\ handler[e].pc \in {"run", "llm", "human"} /\ Continues(e)
        /\ Becomes({Req(e)}, "refused") /\ Keeps /\ UNCHANGED queues
    BY <1>2 DEF Skips, Denies, Turn
  <2>2. HandlersOK'
    BY <1>0, <2>1, ContinuesTypes
  <2>3. PICK from : Leaves(Req(e), from)
    BY <1>0, <2>1, LeavesFrom
  <2> QED BY <1>0, <2>1, <2>2, <2>3, HandlerSettles
<1>3. CASE Executes(e) \/ LlmApproves(e) \/ HumanApproves(e)
  <2>1. PICK fate \in Fates :
          /\ handler[e].pc \in {"run", "llm", "human"} /\ Goes(e, "exec")
          /\ Becomes({Req(e)}, fate) /\ Keeps /\ UNCHANGED queues
    BY <1>0, <1>3 DEF Executes, LlmApproves, HumanApproves, Turn, executeHookAction
  <2>2. HandlersOK'
    BY <1>0, <2>1, GoesTypes
  <2>3. PICK from : Leaves(Req(e), from)
    BY <1>0, <2>1, LeavesFrom
  <2> QED BY <2>1, <2>2, <2>3, HandlerSettles
<1>4. CASE AsksLlm(e) \/ AsksHuman(e)
  BY <1>4, HandlerAsks DEF AsksLlm, AsksHuman, Turn
<1>5. CASE \/ QueuesLlm(e) \/ QueuesHuman(e) \/ QueuesConfirmation(e)
           \/ (handler[e].pc = "llm" /\ pushHumanEscalation(e) /\ Keeps)
  <2>1. /\ handler[e].pc \in {"run", "llm"} /\ Continues(e) /\ Keeps /\ UNCHANGED outcome
        /\ \/ /\ confirmations' = Append(confirmations, Req(e))
              /\ UNCHANGED <<llmDecisions, humanEscalations>>
           \/ /\ humanEscalations' = Append(humanEscalations, Req(e))
              /\ UNCHANGED <<llmDecisions, confirmations>>
           \/ /\ llmDecisions' = Append(llmDecisions, [req |-> Req(e), late |-> FALSE])
              /\ UNCHANGED <<humanEscalations, confirmations>>
    BY <1>5 DEF QueuesLlm, QueuesHuman, QueuesConfirmation, pushHumanEscalation, Turn
  <2>2. HandlersOK'
    BY <1>0, <2>1, ContinuesTypes
  <2>3. PICK from : Leaves(Req(e), from)
    BY <1>0, <2>1, LeavesFrom
  <2> QED BY <2>1, <2>2, <2>3, HandlerQueues
<1>6. CASE \/ handler[e].pc = "llm" /\ Goes(e, "human") /\ Keeps /\ UNCHANGED <<queues, outcome>>
           \/ ActionReturns(e)
  <2>1. PU' = PU /\ Awaited' = Awaited
    BY <1>0, <1>6, StaysInPlace DEF ActionReturns
  <2>2. HandlersOK'
    BY <1>0, <1>6, GoesTypes, ContinuesTypes DEF ActionReturns
  <2> QED BY <1>6, <2>1, <2>2, HandlerMovesOn DEF ActionReturns
<1>7. CASE Throws(e)
  BY <1>7, ThrowsKeeps
<1>8. LlmEscalates(e) =>
        \/ handler[e].pc = "llm" /\ pushHumanEscalation(e) /\ Keeps
        \/ handler[e].pc = "llm" /\ Goes(e, "human") /\ Keeps /\ UNCHANGED <<queues, outcome>>
  BY DEF LlmEscalates
<1> QED BY <1>1, <1>2, <1>3, <1>4, <1>5, <1>6, <1>7, <1>8 DEF Handles

LEMMA NextKeeps == IInv /\ [Next]_vars => IInv'
<1> SUFFICES ASSUME IInv, [Next]_vars PROVE IInv'
  OBVIOUS
<1>1. ASSUME NEW e \in Event, Handles(e) PROVE IInv'
  BY <1>1, HandlesKeeps
<1>2. ASSUME NEW i \in DOMAIN confirmations, AnswersConfirmation(i) PROVE IInv'
  BY <1>2, AnswersConfirmationKeeps
<1>3. ASSUME NEW i \in DOMAIN llmDecisions,
             AnswersLlmDecision(i) \/ escalateLlmDecision(i)
      PROVE  IInv'
  BY <1>3, AnswersLlmKeeps, EscalateLlmKeeps
<1>4. ASSUME NEW i \in DOMAIN humanEscalations, AnswersHumanEscalation(i) PROVE IInv'
  BY <1>4, AnswersHumanKeeps
<1>5. CASE escalateTimedOutLlmDecisions
  BY <1>5, EscalatesKeeps DEF escalateTimedOutLlmDecisions
<1>6. CASE DecisionAges
  BY <1>6, AgesKeeps
<1>7. CASE stop
  BY <1>7, StopKeeps
<1>8. CASE UNCHANGED vars
  <2>1. Keeps /\ UNCHANGED <<queues, outcome>> /\ UNCHANGED handler
    BY <1>8 DEF vars, Keeps, config
  <2>2. PU' = PU /\ Awaited' = Awaited /\ HandlersOK'
    BY <2>1, HandlersSame
  <2> QED BY <2>1, <2>2, HandlerMovesOn
<1> QED BY <1>1, <1>2, <1>3, <1>4, <1>5, <1>6, <1>7, <1>8 DEF Next

LEMMA InitIInv == Init => IInv
<1> SUFFICES ASSUME Init PROVE IInv
  OBVIOUS
<1>1. Typed
  BY TypedInit
<1>2. /\ confirmations = <<>> /\ llmDecisions = <<>> /\ humanEscalations = <<>>
      /\ handler = [e \in Event |-> [pc |-> "idle", rest |-> <<>>]]
      /\ outcome = [r \in Request |-> <<>>]
  BY DEF Init
<1>3. DOMAIN <<>> = {}
  OBVIOUS
<1>4. Once /\ OldestLate
  BY <1>2, <1>3 DEF Once, OldestLate, IsInjective, LlmReqs
<1>5. /\ Awaited = {} /\ LlmQueued = {} /\ Range(confirmations) = {}
      /\ Range(humanEscalations) = {} /\ PS = {}
  BY <1>2, <1>3 DEF Awaited, LlmQueued, Range, PS
<1>6. PU = Request
  BY <1>2, Requests DEF PU, Unseen, H
<1>7. OnePlace
  <2>1. ASSUME NEW r \in Request PROVE AtOnePlace(r)
    <3>1. \A q \in Place : r \in Places[q] <=> q = "unseen"
      BY <1>5, <1>6, PlaceSets DEF Place
    <3> QED BY <3>1, PlaceDomain DEF AtOnePlace, Place
  <2> QED BY <2>1 DEF OnePlace
<1> QED BY <1>1, <1>4, <1>7 DEF IInv

LEMMA Invariant == Spec => []IInv
  BY InitIInv, NextKeeps, PTL DEF Spec

(* Types: a handler has hooks left exactly while it has begun and is not    *)
(* done, whatever else runs while it waits.                                *)
THEOREM TypeCorrect == Spec => []TypeOK
<1>1. IInv => TypeOK
  BY TypedImplies DEF IInv
<1> QED BY <1>1, Invariant, PTL

(* Every request is at one place and no other, and there once, for any      *)
(* number of events and hooks: nothing is executed twice, or executed and   *)
(* denied, or lost but by a stop or an exception, whichever of the queues   *)
(* is answered by index, timed out or emptied while handlers wait.          *)
THEOREM OneEach == Spec => []EveryRequestAtOnePlace
  BY InvImplies, Invariant, PTL

(***************************************************************************)
(* The three tiers.  A step moves some requests to one stage of Approval    *)
(* and leaves the others at theirs.                                        *)
(***************************************************************************)

MovesTo(R, to) ==
    \A r \in Request : StageOf(r)' = IF r \in R THEN to ELSE StageOf(r)
Approves == [Tiers!Next]_(Tiers!approvalVars)

LEMMA AwaitedIs ==
    ASSUME NEW r \in Request
    PROVE  r \in Awaited <=> handler[r[1]].pc \in {"llm", "human"} /\ r = Req(r[1])
  BY Requests DEF Awaited, Req

(* Where a request is tells its stage.                                      *)
LEMMA StageAt ==
    ASSUME IInv, NEW r \in Request
    PROVE  /\ r \in PU => StageOf(r) = "unseen"
           /\ r \in Awaited => StageOf(r) = handler[r[1]].pc
           /\ r \in Range(confirmations) \cup Range(humanEscalations)
                => StageOf(r) = "human"
           /\ r \in LlmQueued => StageOf(r) = "llm"
<1>1. \A p, q \in Place : r \in Places[p] /\ r \in Places[q] => p = q
  BY Elsewhere DEF IInv
<1>2. /\ r \in PU => r \notin Awaited
      /\ r \in PU \cup Awaited =>
            /\ r \notin Range(confirmations) /\ r \notin Range(humanEscalations)
            /\ r \notin LlmQueued
      /\ r \in LlmQueued => /\ r \notin Range(confirmations)
                            /\ r \notin Range(humanEscalations) /\ r \notin Awaited
      /\ r \in PU \cup Awaited \cup Range(confirmations) \cup Range(humanEscalations)
               \cup LlmQueued => r \notin PS
  BY <1>1, PlaceSets DEF Place
<1>3. r \notin PS => outcome[r] = <<>>
  BY DEF PS
<1> QED BY <1>2, <1>3 DEF StageOf, Queued

(* A request that a step does not touch.                                    *)
Kept(r) ==
    /\ outcome'[r] = outcome[r]
    /\ r \in Awaited' <=> r \in Awaited
    /\ r \in Awaited => handler'[r[1]].pc = handler[r[1]].pc
    /\ r \in LlmQueued' <=> r \in LlmQueued
    /\ r \in Range(confirmations') \cup Range(humanEscalations')
         <=> r \in Range(confirmations) \cup Range(humanEscalations)

LEMMA KeptStage == ASSUME NEW r \in Request, Kept(r) PROVE StageOf(r)' = StageOf(r)
  BY DEF Kept, StageOf, Queued

(* A step of its handler settles r, or moves it to another stage.           *)
LEMMA SettledStage ==
    ASSUME Typed, NEW R \in SUBSET Request, NEW fate \in Fates,
           Becomes(R, fate), NEW r \in R
    PROVE  StageOf(r)' = fate
<1>1. outcome[r] \in Seq(Fates)
  BY DEF Typed, RestOK
<1>2. /\ outcome'[r] = Append(outcome[r], fate) /\ outcome'[r] # <<>>
      /\ Len(outcome'[r]) = Len(outcome[r]) + 1
      /\ outcome'[r][Len(outcome[r]) + 1] = fate
  BY <1>1, AppendProperties, EmptySeq DEF Becomes
<1> QED BY <1>2 DEF StageOf

(* What a step of the handler of e does to the other requests.              *)
LEMMA OtherRequests ==
    ASSUME Typed, NEW e \in Event, handler[e].pc \notin {"idle", "done"},
           Continues(e) \/ \E pc \in {"llm", "human", "exec"} : Goes(e, pc),
           NEW r \in Request, r # Req(e)
    PROVE  /\ r \in Awaited' <=> r \in Awaited
           /\ r \in Awaited => handler'[r[1]].pc = handler[r[1]].pc
<1>1. \A f \in Event \ {e} : handler'[f] = handler[f]
  BY OthersSame
<1>2. CASE r[1] # e
  <2>1. handler'[r[1]] = handler[r[1]] /\ Req(r[1])' = Req(r[1])
    BY <1>1, <1>2, Requests DEF Req, Current
  <2>2. /\ r \in Awaited <=> handler[r[1]].pc \in {"llm", "human"} /\ r = Req(r[1])
        /\ r \in Awaited' <=> handler'[r[1]].pc \in {"llm", "human"} /\ r = Req(r[1])'
    BY Requests DEF Awaited, Req
  <2> QED BY <2>1, <2>2
<1>3. CASE r[1] = e
  <2>1. r \notin Awaited
    BY <1>3, AwaitedIs
  <2>2. \/ handler'[e].pc \notin {"llm", "human"}
        \/ Req(e)' = Req(e)
    BY DEF Continues, Goes, Typed, HandlersOK, Req, Current
  <2>3. r \in Awaited' <=> handler'[r[1]].pc \in {"llm", "human"} /\ r = Req(r[1])'
    BY Requests DEF Awaited, Req
  <2> QED BY <1>3, <2>1, <2>2, <2>3
<1> QED BY <1>2, <1>3

(* Steps of Approval, by what they do to the stages.                        *)
LEMMA ApprovesBy ==
    ASSUME NEW R \in SUBSET Request, NEW to, MovesTo(R, to), UNCHANGED mode,
           \/ \E r \in Request : /\ R = {r} /\ StageOf(r) = "unseen"
                                 /\ to = Tiers!modeToTier(mode[r[2]])
           \/ \E r \in Request : /\ R = {r} /\ StageOf(r) = "llm"
                                 /\ to \in {"llm approved", "refused"}
           \/ \E r \in Request : /\ R = {r} /\ StageOf(r) = "human"
                                 /\ to \in {"human approved", "refused"}
           \/ (\A r \in R : StageOf(r) = "llm") /\ to = "human"
           \/ (\A r \in R : StageOf(r) \in {"unseen", "llm", "human"}) /\ to = "dropped"
    PROVE  Approves
<1> DEFINE modes == [r \in Request |-> mode[r[2]]]
           stages == [r \in Request |-> StageOf(r)]
<1>1. stages' = [r \in Request |-> IF r \in R THEN to ELSE stages[r]]
  BY DEF MovesTo, Request
<1>2. modes' = modes
  BY DEF Request
<1>3. Tiers!Move(R, to)
  BY <1>1 DEF Tiers!Move
<1>4. CASE \E r \in Request : /\ R = {r} /\ StageOf(r) = "unseen"
                              /\ to = Tiers!modeToTier(mode[r[2]])
  <2>1. \E r \in Request : Tiers!Arrives(r)
    BY <1>2, <1>3, <1>4 DEF Tiers!Arrives
  <2> QED BY <2>1 DEF Approves, Tiers!Next
<1>5. CASE \E r \in Request : /\ R = {r} /\ StageOf(r) = "llm"
                              /\ to \in {"llm approved", "refused"}
  <2>1. \E r \in Request : Tiers!LlmAnswers(r)
    BY <1>2, <1>3, <1>5 DEF Tiers!LlmAnswers
  <2> QED BY <2>1 DEF Approves, Tiers!Next
<1>6. CASE \E r \in Request : /\ R = {r} /\ StageOf(r) = "human"
                              /\ to \in {"human approved", "refused"}
  <2>1. \E r \in Request : Tiers!HumanAnswers(r)
    BY <1>2, <1>3, <1>6 DEF Tiers!HumanAnswers
  <2> QED BY <2>1 DEF Approves, Tiers!Next
<1>7. CASE (\A r \in R : StageOf(r) = "llm") /\ to = "human"
  <2>1. Tiers!Escalates(R)
    BY <1>2, <1>3, <1>7 DEF Tiers!Escalates
  <2> QED BY <2>1 DEF Approves, Tiers!Next
<1>8. CASE (\A r \in R : StageOf(r) \in {"unseen", "llm", "human"}) /\ to = "dropped"
  <2>1. Tiers!Drops(R)
    BY <1>2, <1>3, <1>8 DEF Tiers!Drops, Tiers!Open
  <2> QED BY <2>1 DEF Approves, Tiers!Next
<1> QED BY <1>4, <1>5, <1>6, <1>7, <1>8

LEMMA Stutters ==
    ASSUME \A r \in Request : StageOf(r)' = StageOf(r), UNCHANGED mode
    PROVE  Approves
<1>1. /\ [r \in Request |-> StageOf(r)]' = [r \in Request |-> StageOf(r)]
      /\ [r \in Request |-> mode[r[2]]]' = [r \in Request |-> mode[r[2]]]
  BY DEF Request
<1> QED BY <1>1 DEF Approves, Tiers!approvalVars

(* A handler settles its request, or hands it to another tier.              *)
LEMMA HandlerMoves ==
    ASSUME IInv, NEW e \in Event, handler[e].pc \notin {"idle", "done"},
           Continues(e) \/ \E pc \in {"llm", "human", "exec"} : Goes(e, pc),
           NEW q, q = Req(e), NEW to, StageOf(q)' = to,
           \A r \in Request \ {q} :
              /\ outcome'[r] = outcome[r]
              /\ r \in LlmQueued' <=> r \in LlmQueued
              /\ r \in Range(confirmations') \cup Range(humanEscalations')
                   <=> r \in Range(confirmations) \cup Range(humanEscalations)
    PROVE  MovesTo({q}, to)
<1>1. ASSUME NEW r \in Request, r # q PROVE StageOf(r)' = StageOf(r)
  BY <1>1, OtherRequests, KeptStage DEF IInv, Kept
<1> QED BY <1>1 DEF MovesTo

(* Where the request of a handler is.                                       *)
LEMMA HandlersStage ==
    ASSUME IInv, NEW e \in Event
    PROVE  /\ handler[e].pc = "run" => StageOf(Req(e)) = "unseen"
           /\ handler[e].pc \in {"llm", "human"} => StageOf(Req(e)) = handler[e].pc
<1>1. CASE handler[e].pc = "run"
  <2>1. Req(e) \in Request /\ Current(e) \in Unseen(e)
    BY <1>1, CurrentHook, UnseenParts DEF IInv
  <2>2. Req(e) \in PU
    BY <2>1 DEF PU, Req
  <2> QED BY <1>1, <2>1, <2>2, StageAt
<1>2. CASE handler[e].pc \in {"llm", "human"}
  <2>1. Req(e) \in Request /\ Req(e) \in Awaited /\ Req(e)[1] = e
    BY <1>2, CurrentHook DEF IInv, Awaited, Req
  <2> QED BY <1>2, <2>1, StageAt
<1> QED BY <1>1, <1>2

(* ... and where it is not.                                                *)
LEMMA HandlersRequest ==
    ASSUME IInv, NEW e \in Event, handler[e].pc \in {"run", "llm", "human"}
    PROVE  /\ Req(e) \in Request /\ outcome[Req(e)] = <<>> /\ Req(e) \notin Queued
           /\ handler[e].pc = "run" => Req(e) \notin Awaited
<1>1. Req(e) \in Request
  BY CurrentHook DEF IInv
<1>2. \A p, q \in Place : Req(e) \in Places[p] /\ Req(e) \in Places[q] => p = q
  BY <1>1, Elsewhere DEF IInv
<1>3. CASE handler[e].pc = "run"
  <2>1. Current(e) \in Unseen(e)
    BY <1>3, UnseenParts DEF IInv
  <2>2. Req(e) \in PU
    BY <1>1, <2>1 DEF PU, Req
  <2> QED BY <1>1, <1>2, <2>2, PlaceSets DEF Place, Queued, PS
<1>4. CASE handler[e].pc \in {"llm", "human"}
  <2>1. Req(e) \in Awaited
    BY <1>4 DEF Awaited
  <2> QED BY <1>1, <1>2, <1>4, <2>1, PlaceSets DEF Place, Queued, PS
<1> QED BY <1>3, <1>4

LEMMA ThrowsApproves == ASSUME IInv, NEW e \in Event, Throws(e) PROVE Approves
<1> DEFINE left == {<<e, h>> : h \in Range(handler[e].rest)}
<1>1. PICK R : R = IF handler[e].pc = "exec" THEN left \ {Req(e)} ELSE left
  OBVIOUS
<1>2. /\ handler[e].pc \in {"llm", "human", "exec"} /\ Becomes(R, "dropped")
      /\ handler' = [handler EXCEPT ![e] = [pc |-> "done", rest |-> <<>>]]
      /\ UNCHANGED mode /\ UNCHANGED queues
  BY <1>1 DEF Throws, Keeps, config
<1>3. /\ handler'[e].pc = "done"
      /\ \A f \in Event \ {e} : handler'[f] = handler[f]
  BY <1>2 DEF IInv, Typed, HandlersOK
<1>4. /\ Range(handler[e].rest) = {Current(e)} \cup Unseen(e)
      /\ Range(handler[e].rest) \subseteq H /\ Current(e) \notin Unseen(e)
      /\ Req(e) \in Request
  <2>1. handler[e].rest \in Seq(H)
    BY <1>2, CurrentHook DEF IInv
  <2>2. Range(handler[e].rest) \subseteq H
    BY <2>1 DEF Range
  <2> QED BY <1>2, <2>2, CurrentHook, UnseenParts DEF IInv
<1>5. R \in SUBSET Request
  BY <1>1, <1>4 DEF Request, H
<1>6. ASSUME NEW r \in R PROVE StageOf(r) \in {"unseen", "llm", "human"}
  <2>1. r \in Request /\ r[1] = e /\ r[2] \in Range(handler[e].rest)
    BY <1>1, <1>5
  <2>2. CASE r[2] \in Unseen(e)
    <3>1. r \in PU
      BY <2>1, <2>2 DEF PU
    <3> QED BY <2>1, <3>1, StageAt
  <2>3. CASE r[2] = Current(e)
    <3>1. r = Req(e)
      BY <2>1, <2>3, Requests DEF Req
    <3>2. handler[e].pc \in {"llm", "human"}
      BY <1>1, <1>2, <3>1
    <3> QED BY <3>1, <3>2, HandlersStage
  <2> QED BY <1>4, <2>1, <2>2, <2>3
<1>7. MovesTo(R, "dropped")
  <2>1. ASSUME NEW r \in R PROVE StageOf(r)' = "dropped"
    BY <1>2, <1>5, SettledStage DEF IInv, Fates
  <2>2. ASSUME NEW r \in Request, r \notin R PROVE StageOf(r)' = StageOf(r)
    <3>1. /\ r \in Awaited <=> handler[r[1]].pc \in {"llm", "human"} /\ r = Req(r[1])
          /\ r \in Awaited' <=> handler'[r[1]].pc \in {"llm", "human"} /\ r = Req(r[1])'
      BY Requests DEF Awaited, Req
    <3>2. CASE r[1] = e
      <4>1. handler[e].pc \in {"llm", "human"} => r # Req(e)
        BY <1>1, <1>4, <2>2 DEF Req
      <4>2. r \notin Awaited /\ r \notin Awaited'
        BY <1>3, <3>1, <3>2, <4>1
      <4> QED BY <1>2, <2>2, <4>2, KeptStage DEF Kept, queues, LlmQueued, Becomes
    <3>3. CASE r[1] # e
      <4>1. handler'[r[1]] = handler[r[1]] /\ Req(r[1])' = Req(r[1])
        BY <1>3, <3>3, Requests DEF Req, Current
      <4> QED BY <1>2, <2>2, <3>1, <4>1, KeptStage DEF Kept, queues, LlmQueued, Becomes
    <3> QED BY <3>2, <3>3
  <2> QED BY <2>1, <2>2 DEF MovesTo
<1> QED BY <1>2, <1>5, <1>6, <1>7, ApprovesBy

LEMMA HandlesApproves == ASSUME IInv, NEW e \in Event, Handles(e) PROVE Approves
<1>0. Typed /\ UNCHANGED mode
  BY DEF IInv, Handles, handleEvent, Skips, Executes, AsksLlm, QueuesLlm, AsksHuman,
         QueuesHuman, QueuesConfirmation, LlmApproves, HumanApproves, Denies,
         LlmEscalates, ActionReturns, Throws, Keeps, config
<1>1. PICK q : q = Req(e)
  OBVIOUS
<1>2. CASE handleEvent(e)
  <2>1. handler[e].pc = "idle" /\ UNCHANGED <<queues, outcome>>
    BY <1>2 DEF handleEvent
  <2>2. handler'[e].pc \in {"run", "done"} /\ \A f \in Event \ {e} : handler'[f] = handler[f]
    BY <1>0, <1>2 DEF handleEvent, Typed, HandlersOK
  <2>3. ASSUME NEW r \in Request PROVE StageOf(r)' = StageOf(r)
    <3>1. /\ r \in Awaited <=> handler[r[1]].pc \in {"llm", "human"} /\ r = Req(r[1])
          /\ r \in Awaited' <=> handler'[r[1]].pc \in {"llm", "human"} /\ r = Req(r[1])'
      BY Requests DEF Awaited, Req
    <3>2. CASE r[1] = e
      <4>1. r \notin Awaited /\ r \notin Awaited'
        BY <2>1, <2>2, <3>1, <3>2
      <4> QED BY <2>1, <4>1, KeptStage DEF Kept, queues, LlmQueued
    <3>3. CASE r[1] # e
      <4>1. handler'[r[1]] = handler[r[1]] /\ Req(r[1])' = Req(r[1])
        BY <2>2, <3>3, Requests DEF Req, Current
      <4> QED BY <2>1, <3>1, <4>1, KeptStage DEF Kept, queues, LlmQueued
    <3> QED BY <3>2, <3>3
  <2> QED BY <1>0, <2>3, Stutters
<1>3. CASE Skips(e) \/ Executes(e)
  <2>1. PICK fate \in {"refused", "executed"} :
          /\ handler[e].pc = "run" /\ (Continues(e) \/ Goes(e, "exec"))
          /\ Becomes({q}, fate) /\ UNCHANGED queues
          /\ fate = Tiers!modeToTier(mode[Current(e)])
    BY <1>1, <1>3 DEF Skips, Executes, Turn, executeHookAction, Tiers!modeToTier
  <2>2. q \in Request /\ StageOf(q) = "unseen" /\ q[2] = Current(e)
    BY <1>0, <1>1, <2>1, CurrentHook, HandlersStage DEF Req
  <2>3. StageOf(q)' = fate
    BY <1>0, <2>1, <2>2, SettledStage DEF Fates
  <2>4. MovesTo({q}, fate)
    BY <1>1, <2>1, <2>2, <2>3, HandlerMoves DEF Becomes, queues, LlmQueued
  <2> QED BY <1>0, <2>1, <2>2, <2>4, ApprovesBy
<1>4. CASE AsksLlm(e) \/ AsksHuman(e)
  <2>1. PICK pc \in {"llm", "human"} :
          /\ handler[e].pc = "run" /\ Goes(e, pc) /\ UNCHANGED <<queues, outcome>>
          /\ pc = Tiers!modeToTier(mode[Current(e)])
    BY <1>4 DEF AsksLlm, AsksHuman, Turn, Tiers!modeToTier
  <2>2. q \in Request /\ StageOf(q) = "unseen" /\ q[2] = Current(e) /\ q[1] = e
    BY <1>0, <1>1, <2>1, CurrentHook, HandlersStage DEF Req
  <2>3. StageOf(q)' = pc
    <3>1. handler'[e].pc = pc /\ Req(e)' = q
      BY <1>0, <1>1, <2>1 DEF Goes, Typed, HandlersOK, Req, Current
    <3>2. q \in Awaited' /\ outcome'[q] = <<>> /\ q \notin Queued'
      BY <1>1, <2>1, <3>1, HandlersRequest DEF Awaited, queues, Queued, LlmQueued
    <3> QED BY <2>2, <3>1, <3>2 DEF StageOf, Queued
  <2>4. MovesTo({q}, pc)
    BY <1>1, <2>1, <2>2, <2>3, HandlerMoves DEF queues, LlmQueued
  <2> QED BY <1>0, <2>1, <2>2, <2>4, ApprovesBy
<1>5. CASE \/ QueuesLlm(e) \/ QueuesHuman(e) \/ QueuesConfirmation(e)
           \/ (LlmEscalates(e) /\ pushHumanEscalation(e))
  <2>1. PICK to \in {"llm", "human"} :
          /\ Continues(e) /\ UNCHANGED outcome
          /\ IF to = "llm"
             THEN /\ llmDecisions' = Append(llmDecisions, [req |-> q, late |-> FALSE])
                  /\ UNCHANGED <<confirmations, humanEscalations>>
             ELSE /\ \/ /\ confirmations' = Append(confirmations, q)
                        /\ UNCHANGED humanEscalations
                     \/ /\ humanEscalations' = Append(humanEscalations, q)
                        /\ UNCHANGED confirmations
                  /\ UNCHANGED llmDecisions
          /\ \/ handler[e].pc = "run" /\ to = Tiers!modeToTier(mode[Current(e)])
             \/ handler[e].pc = "llm" /\ to = "human"
    BY <1>1, <1>5 DEF QueuesLlm, QueuesHuman, QueuesConfirmation, LlmEscalates,
                      pushHumanEscalation, Turn, Tiers!modeToTier
  <2>2. /\ q \in Request /\ q[2] = Current(e)
        /\ handler[e].pc = "run" => StageOf(q) = "unseen"
        /\ handler[e].pc = "llm" => StageOf(q) = "llm"
    BY <1>0, <1>1, <2>1, CurrentHook, HandlersStage DEF Req
  <2>3. /\ outcome[q] = <<>> /\ q \notin Queued /\ q \notin Awaited'
    BY <1>0, <1>1, <2>1, HandlersRequest, LeavesFrom DEF Leaves
  <2>4. /\ LlmQueued' = IF to = "llm" THEN LlmQueued \cup {q} ELSE LlmQueued
        /\ Range(confirmations') \cup Range(humanEscalations')
             = (Range(confirmations) \cup Range(humanEscalations))
                  \cup (IF to = "llm" THEN {} ELSE {q})
    <3>1. CASE to = "llm"
      BY <2>1, <2>2, <3>1, LlmAppended DEF IInv
    <3>2. CASE to = "human"
      <4>1. LlmQueued' = LlmQueued
        BY <2>1, <3>2 DEF LlmQueued
      <4>2. /\ Range(Append(confirmations, q)) = Range(confirmations) \cup {q}
            /\ Range(Append(humanEscalations, q)) = Range(humanEscalations) \cup {q}
        BY <2>2, QueueTypes, Appended
      <4> QED BY <2>1, <3>2, <4>1, <4>2
    <3> QED BY <3>1, <3>2
  <2>5. StageOf(q)' = to
    BY <2>1, <2>3, <2>4 DEF StageOf, Queued
  <2>6. MovesTo({q}, to)
    BY <1>1, <2>1, <2>4, <2>5, HandlerMoves
  <2> QED BY <1>0, <2>1, <2>2, <2>6, ApprovesBy
<1>6. CASE LlmApproves(e) \/ HumanApproves(e) \/ Denies(e)
  <2>1. PICK fate \in {"llm approved", "human approved", "refused"} :
          /\ handler[e].pc \in {"llm", "human"} /\ (Continues(e) \/ Goes(e, "exec"))
          /\ Becomes({q}, fate) /\ UNCHANGED queues
          /\ fate = "llm approved" => handler[e].pc = "llm"
          /\ fate = "human approved" => handler[e].pc = "human"
    BY <1>1, <1>6 DEF LlmApproves, HumanApproves, Denies, executeHookAction
  <2>2. q \in Request /\ StageOf(q) = handler[e].pc
    BY <1>0, <1>1, <2>1, CurrentHook, HandlersStage
  <2>3. StageOf(q)' = fate
    BY <1>0, <2>1, <2>2, SettledStage DEF Fates
  <2>4. MovesTo({q}, fate)
    BY <1>1, <2>1, <2>2, <2>3, HandlerMoves DEF Becomes, queues, LlmQueued
  <2>5. CASE handler[e].pc = "llm"
    BY <1>0, <2>1, <2>2, <2>4, <2>5, ApprovesBy
  <2>6. CASE handler[e].pc = "human"
    BY <1>0, <2>1, <2>2, <2>4, <2>6, ApprovesBy
  <2> QED BY <2>1, <2>5, <2>6
<1>7. CASE LlmEscalates(e) /\ Goes(e, "human") /\ UNCHANGED <<queues, outcome>>
  <2>1. q \in Request /\ StageOf(q) = "llm" /\ handler[e].pc = "llm"
    BY <1>0, <1>1, <1>7, CurrentHook, HandlersStage DEF LlmEscalates
  <2>2. StageOf(q)' = "human"
    <3>1. handler'[e].pc = "human" /\ Req(e)' = q /\ q[1] = e
      BY <1>0, <1>1, <1>7 DEF Goes, Typed, HandlersOK, Req, Current
    <3>2. q \in Awaited' /\ outcome'[q] = <<>> /\ q \notin Queued'
      BY <1>1, <1>7, <2>1, <3>1, HandlersRequest DEF Awaited, queues, Queued, LlmQueued
    <3> QED BY <3>1, <3>2 DEF StageOf, Queued
  <2>3. MovesTo({q}, "human")
    BY <1>1, <1>7, <2>1, <2>2, HandlerMoves DEF queues, LlmQueued
  <2> QED BY <1>0, <2>1, <2>3, ApprovesBy
<1>8. CASE ActionReturns(e)
  <2>1. handler[e].pc = "exec" /\ Continues(e) /\ UNCHANGED <<queues, outcome>>
    BY <1>8 DEF ActionReturns
  <2>2. PU' = PU /\ Awaited' = Awaited
    BY <1>0, <2>1, StaysInPlace
  <2>3. ASSUME NEW r \in Request PROVE Kept(r)
    <3>1. r \in Awaited => r # Req(e)
      BY <2>1, AwaitedIs DEF Req
    <3> QED BY <1>0, <2>1, <2>2, <3>1, OtherRequests DEF Kept, queues, LlmQueued
  <2> QED BY <1>0, <2>3, KeptStage, Stutters
<1>9. CASE Throws(e)
  BY <1>0, <1>9, ThrowsApproves
<1> QED BY <1>2, <1>3, <1>4, <1>5, <1>6, <1>7, <1>8, <1>9 DEF Handles, LlmEscalates

LEMMA QueuedRequests ==
    ASSUME IInv, NEW r \in Queued
    PROVE  /\ r \in Request /\ outcome[r] = <<>>
           /\ StageOf(r) = IF r \in LlmQueued THEN "llm" ELSE "human"
<1>1. r \in Request
  BY TypedImplies DEF IInv, TypeOK
<1>2. \A p, q \in Place : r \in Places[p] /\ r \in Places[q] => p = q
  BY <1>1, Elsewhere DEF IInv
<1>3. outcome[r] = <<>>
  BY <1>1, <1>2, PlaceSets DEF Place, Queued, PS
<1> QED BY <1>1, <1>3, StageAt DEF Queued

(* A request that is answered in a queue.                                   *)
LEMMA AnswersApprove ==
    ASSUME IInv, NEW r \in Queued, NEW fates, fates \in SUBSET Fates, Answers(r, fates),
           Keeps, UNCHANGED handler,
           fates = {IF r \in LlmQueued THEN "llm approved" ELSE "human approved", "refused"},
           LlmQueued' = LlmQueued \ {r},
           Range(confirmations') \cup Range(humanEscalations')
             = (Range(confirmations) \cup Range(humanEscalations)) \ {r}
    PROVE  Approves
<1>1. PICK fate \in fates : Becomes({r}, fate)
  BY DEF Answers
<1>2. /\ r \in Request /\ UNCHANGED mode /\ fate \in Fates /\ Typed
      /\ StageOf(r) = IF r \in LlmQueued THEN "llm" ELSE "human"
  BY QueuedRequests DEF Keeps, config, IInv
<1>3. StageOf(r)' = fate
  <2>1. PICK R : R = {r}
    OBVIOUS
  <2>2. R \in SUBSET Request /\ fate \in Fates /\ Becomes(R, fate) /\ r \in R /\ Typed
    BY <1>1, <1>2, <2>1
  <2> QED BY ONLY <2>2, SettledStage
<1>4. ASSUME NEW x \in Request, x # r PROVE StageOf(x)' = StageOf(x)
  <2>1. Awaited' = Awaited
    BY HandlersSame
  <2> QED BY <1>1, <1>4, <2>1, KeptStage DEF Kept, Becomes
<1>5. MovesTo({r}, fate)
  BY <1>3, <1>4 DEF MovesTo
<1>6. CASE r \in LlmQueued
  BY <1>2, <1>5, <1>6, ApprovesBy
<1>7. CASE r \notin LlmQueued
  BY <1>2, <1>5, <1>7, ApprovesBy
<1> QED BY <1>6, <1>7

(* Requests that go from the model to the human.                            *)
LEMMA EscalatesApprove ==
    ASSUME IInv, NEW R \in SUBSET LlmQueued, Keeps, UNCHANGED <<handler, outcome>>,
           LlmQueued' = LlmQueued \ R, UNCHANGED confirmations,
           Range(humanEscalations') = Range(humanEscalations) \cup R
    PROVE  Approves
<1>1. /\ R \in SUBSET Request /\ UNCHANGED mode
      /\ \A r \in R : outcome[r] = <<>> /\ StageOf(r) = "llm"
  BY QueuedRequests DEF Queued, Keeps, config
<1>2. \A r \in R : StageOf(r)' = "human"
  BY <1>1 DEF StageOf
<1>3. ASSUME NEW x \in Request, x \notin R PROVE StageOf(x)' = StageOf(x)
  <2>1. Awaited' = Awaited
    BY HandlersSame
  <2> QED BY <1>3, <2>1, KeptStage DEF Kept
<1>4. MovesTo(R, "human")
  BY <1>2, <1>3 DEF MovesTo
<1> QED BY <1>1, <1>4, ApprovesBy

LEMMA StopApproves == ASSUME IInv, stop PROVE Approves
<1>1. PICK R : R = Queued
  OBVIOUS
<1>2. /\ R \in SUBSET Request /\ UNCHANGED mode /\ "dropped" \in Fates
      /\ \A r \in R : StageOf(r) \in {"unseen", "llm", "human"}
  BY <1>1, QueuedRequests DEF stop, config, Fates
<1>3. Becomes(R, "dropped")
  BY <1>1 DEF stop
<1>4. \A r \in R : StageOf(r)' = "dropped"
  BY <1>2, <1>3, SettledStage DEF IInv
<1>5. ASSUME NEW x \in Request, x \notin R PROVE StageOf(x)' = StageOf(x)
  <2>1. Awaited' = Awaited
    BY HandlersSame DEF stop
  <2>2. Range(confirmations') = {} /\ Range(humanEscalations') = {} /\ LlmQueued' = {}
    BY DEF stop, Range, LlmQueued
  <2> QED BY <1>1, <1>3, <1>5, <2>1, <2>2, KeptStage DEF Kept, Queued, Becomes, stop
<1>6. MovesTo(R, "dropped")
  BY <1>4, <1>5 DEF MovesTo
<1> QED BY <1>2, <1>6, ApprovesBy

LEMMA NextApproves == IInv /\ [Next]_vars => Approves
<1> SUFFICES ASSUME IInv, [Next]_vars PROVE Approves
  OBVIOUS
<1>0. {"llm approved", "human approved", "refused"} \subseteq Fates
  BY DEF Fates
<1>1. ASSUME NEW e \in Event, Handles(e) PROVE Approves
  BY <1>1, HandlesApproves
<1>2. ASSUME NEW i \in DOMAIN confirmations, AnswersConfirmation(i) PROVE Approves
  <2>1. PICK r : r = confirmations[i]
    OBVIOUS
  <2>2. /\ r \in Range(confirmations) /\ r \in Queued
        /\ r \notin LlmQueued /\ r \notin Range(humanEscalations)
    BY <2>1, QueueTypes, Elsewhere, PlaceSets DEF IInv, Place, Queued
  <2>3. Range(confirmations') = Range(confirmations) \ {r}
    BY <1>2, <2>1, QueueTypes, RemovedRange DEF AnswersConfirmation, IInv, Once
  <2>4. LlmQueued' = LlmQueued \ {r} /\ UNCHANGED humanEscalations
    BY <1>2, <2>2 DEF AnswersConfirmation, LlmQueued
  <2>5. PICK fates : fates = {"human approved", "refused"}
    OBVIOUS
  <2>6. /\ fates \in SUBSET Fates
        /\ fates = {IF r \in LlmQueued THEN "llm approved" ELSE "human approved", "refused"}
    BY <1>0, <2>2, <2>5
  <2>7. Range(confirmations') \cup Range(humanEscalations')
          = (Range(confirmations) \cup Range(humanEscalations)) \ {r}
    BY <2>2, <2>3, <2>4
  <2> QED BY <1>2, <2>1, <2>2, <2>4, <2>5, <2>6, <2>7, AnswersApprove DEF AnswersConfirmation
<1>3. ASSUME NEW i \in DOMAIN llmDecisions, AnswersLlmDecision(i) PROVE Approves
  <2>1. PICK r : r = llmDecisions[i].req
    OBVIOUS
  <2>2. /\ r \in LlmQueued /\ r \in Queued
        /\ r \notin Range(confirmations) /\ r \notin Range(humanEscalations)
    BY <2>1, QueueTypes, Elsewhere, PlaceSets DEF IInv, Place, Queued
  <2>3. LlmQueued' = LlmQueued \ {r}
    BY <1>3, <2>1, LlmLeaves DEF AnswersLlmDecision
  <2>4. PICK fates : fates = {"llm approved", "refused"}
    OBVIOUS
  <2> QED BY <1>0, <1>3, <2>1, <2>2, <2>3, <2>4, AnswersApprove DEF AnswersLlmDecision
<1>4. ASSUME NEW i \in DOMAIN humanEscalations, AnswersHumanEscalation(i) PROVE Approves
  <2>1. PICK r : r = humanEscalations[i]
    OBVIOUS
  <2>2. /\ r \in Range(humanEscalations) /\ r \in Queued
        /\ r \notin LlmQueued /\ r \notin Range(confirmations)
    BY <2>1, QueueTypes, Elsewhere, PlaceSets DEF IInv, Place, Queued
  <2>3. Range(humanEscalations') = Range(humanEscalations) \ {r}
    BY <1>4, <2>1, QueueTypes, RemovedRange DEF AnswersHumanEscalation, IInv, Once
  <2>4. LlmQueued' = LlmQueued \ {r} /\ UNCHANGED confirmations
    BY <1>4, <2>2 DEF AnswersHumanEscalation, LlmQueued
  <2>5. PICK fates : fates = {"human approved", "refused"}
    OBVIOUS
  <2>6. /\ fates \in SUBSET Fates
        /\ fates = {IF r \in LlmQueued THEN "llm approved" ELSE "human approved", "refused"}
    BY <1>0, <2>2, <2>5
  <2>7. Range(confirmations') \cup Range(humanEscalations')
          = (Range(confirmations) \cup Range(humanEscalations)) \ {r}
    BY <2>2, <2>3, <2>4
  <2> QED BY <1>4, <2>1, <2>2, <2>4, <2>5, <2>6, <2>7, AnswersApprove
      DEF AnswersHumanEscalation
<1>5. ASSUME NEW i \in DOMAIN llmDecisions, escalateLlmDecision(i) PROVE Approves
  <2>1. PICK R : R = {llmDecisions[i].req}
    OBVIOUS
  <2>2. R \in SUBSET LlmQueued
    BY <2>1, QueueTypes
  <2>3. LlmQueued' = LlmQueued \ R
    BY <1>5, <2>1, LlmLeaves DEF escalateLlmDecision
  <2>4. Range(humanEscalations') = Range(humanEscalations) \cup R
    BY <1>5, <2>1, QueueTypes, Appended DEF escalateLlmDecision
  <2> QED BY <1>5, <2>2, <2>3, <2>4, EscalatesApprove DEF escalateLlmDecision
<1>6. ASSUME NEW n \in 1..Len(llmDecisions), escalates(n) PROVE Approves
  <2>1. PICK R : R = Range(First(n))
    OBVIOUS
  <2>2. /\ First(n) \in Seq(Request) /\ IsInjective(First(n))
        /\ LlmQueued' = LlmQueued \ R /\ R \subseteq LlmQueued
    BY <1>6, <2>1, LlmSplit DEF escalates, IInv, Once
  <2>3. Range(humanEscalations) \cap R = {}
    <3>1. \A x \in R : x \in Request /\ x \notin Range(humanEscalations)
      BY <2>2, QueuedRequests, Elsewhere, PlaceSets DEF IInv, Place, Queued
    <3> QED BY <3>1
  <2>4. Range(humanEscalations') = Range(humanEscalations) \cup R
    BY <1>6, <2>1, <2>2, <2>3, QueueTypes, ReversedConcat DEF escalates, IInv, Once
  <2> QED BY <1>6, <2>2, <2>4, EscalatesApprove DEF escalates
<1>7. CASE DecisionAges
  <2>1. LlmQueued' = LlmQueued
    <3>1. PICK i \in DOMAIN llmDecisions :
            llmDecisions' = [llmDecisions EXCEPT ![i].late = TRUE]
      BY <1>7 DEF DecisionAges
    <3>2. \A j \in DOMAIN llmDecisions : llmDecisions[j] \in Decision
      BY QueueTypes
    <3>3. /\ DOMAIN llmDecisions' = DOMAIN llmDecisions
          /\ \A j \in DOMAIN llmDecisions : llmDecisions'[j].req = llmDecisions[j].req
      BY <3>1, <3>2 DEF Decision
    <3> QED BY <3>3 DEF LlmQueued
  <2>2. Awaited' = Awaited
    BY <1>7, HandlersSame DEF DecisionAges
  <2>3. ASSUME NEW r \in Request PROVE Kept(r)
    BY <1>7, <2>1, <2>2 DEF DecisionAges, Kept
  <2> QED BY <1>7, <2>3, KeptStage, Stutters DEF DecisionAges, Keeps, config
<1>8. CASE stop
  BY <1>8, StopApproves
<1>9. CASE UNCHANGED vars
  <2>1. ASSUME NEW r \in Request PROVE Kept(r)
    BY <1>9, HandlersSame DEF vars, config, queues, Kept, LlmQueued
  <2> QED BY <1>9, <2>1, KeptStage, Stutters DEF vars, config
<1> QED BY <1>1, <1>2, <1>3, <1>4, <1>5, <1>6, <1>7, <1>8, <1>9
    DEF Next, escalateTimedOutLlmDecisions

LEMMA InitApproves == Init => Tiers!Init
<1> SUFFICES ASSUME Init PROVE Tiers!Init
  OBVIOUS
<1>1. IInv
  BY InitIInv
<1>2. \A r \in Request : StageOf(r) = "unseen"
  <2>1. PU = Request
    BY Requests DEF Init, PU, Unseen, H
  <2> QED BY <1>1, <2>1, StageAt
<1>3. [r \in Request |-> mode[r[2]]] \in [Request -> Modes]
  BY Requests DEF Init, H
<1> QED BY <1>2, <1>3 DEF Tiers!Init, Tiers!Mode, Modes

(* The hook manager implements Approval: each of its steps is a step of one *)
(* request, or of several that are escalated or dropped together, or none   *)
(* that the tiers see.  What the human is asked is executed only if the     *)
(* human approves it, also after a timeout that raced with the model.       *)
THEOREM Implements == Spec => ImplementsApproval
<1>1. Init => Tiers!Init
  BY InitApproves
<1>2. IInv /\ [Next]_vars => [Tiers!Next]_(Tiers!approvalVars)
  BY NextApproves DEF Approves
<1> QED BY <1>1, <1>2, Invariant, PTL DEF Spec, ImplementsApproval, Tiers!Spec
=============================================================================
