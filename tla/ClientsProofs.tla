--------------------------- MODULE ClientsProofs ---------------------------
(***************************************************************************)
(* Proofs about the handler clients composed with the conductor and the    *)
(* caboose, for any number of actions, sessions, processes and faults,     *)
(* any matchers and responses, and batches of any size.  What they say of  *)
(* an action they say of those that no other goroutine of their batch has  *)
(* crossed.                                                                *)
(***************************************************************************)
EXTENDS Clients, SharedConnectionProofs, WellFoundedInduction

USE DEF dbVars, handlerVars

\* A nonempty set of natural numbers has a least element.
LEMMA LeastOfSet ==
    ASSUME NEW T \in SUBSET Nat, T # {}
    PROVE  Min(T) \in T
<1>1. PICK n \in T : \A m \in T : <<m, n>> \notin OpToRel(<, Nat)
  BY NatLessThanWellFounded, WFMin, Zenon
<1>2. \A m \in T : m < n => <<m, n>> \in OpToRel(<, Nat)
  BY SMT DEF OpToRel
<1>3. \A m \in T : ~(m < n)
  BY <1>1, <1>2, Zenon
<1>4. \A m \in T : n <= m
  BY <1>3
<1> QED  BY <1>4 DEF Min

\* Every response has a verdict.
LEMMA CheckDecides == ASSUME NEW r \in Responses PROVE Verdict(Check(r)) \in Verdicts
<1> DEFINE fits == {n \in DOMAIN Matchers : Matches(Matchers[n], r)}
<1>1. fits \in SUBSET Nat
  <2>1. Matchers \in Seq(ToSet(Matchers))
    BY ClientsAssumption
  <2>2. DOMAIN Matchers = 1 .. Len(Matchers) /\ Len(Matchers) \in Nat
    BY <2>1
  <2> QED  BY <2>2
<1>2. Check(r) \in {"", "success", "error", "fatal"}
  <2>1. CASE fits # {}
    <3>1. Min(fits) \in fits
      BY <1>1, <2>1, LeastOfSet
    <3>2. Matchers[Min(fits)] \in ToSet(Matchers)
      BY <3>1 DEF ToSet
    <3>3. Check(r) = Matchers[Min(fits)].result
      BY <2>1 DEF Check
    <3> QED  BY <3>2, <3>3, ClientsAssumption
  <2>2. CASE fits = {}
    BY <2>2 DEF Check
  <2> QED  BY <2>1, <2>2
<1>3. CASE Check(r) \in {"", "success"}
  BY <1>3 DEF Verdict, Verdicts
<1>4. CASE Check(r) = "error"
  BY <1>4 DEF Verdict, Verdicts
<1>5. CASE Check(r) = "fatal"
  BY <1>5 DEF Verdict, Verdicts
<1> QED  BY <1>2, <1>3, <1>4, <1>5

-----------------------------------------------------------------------------
(* The clients make the steps of the conductor.                             *)

OutsideOK ==
    /\ deployed \in Deployments
    /\ params \in [CallbackActions -> {"unwritten", "stored", "failed", "left"}]
    /\ cluster \in [Argo -> {"absent", "present", "recorded"}]
    /\ answers \in [Actions -> Seq({"accepted", "refused"})]
    /\ blind \subseteq CallbackActions
    /\ faults \in 0 .. MaxFaults

\* What has gone wrong is not forgotten.
LEMMA FaultsGrow ==
    ASSUME OutsideOK
    PROVE  /\ Goes(TRUE) => faults' \in 1 .. MaxFaults
           /\ \A s \in Sessions : Fails(s) =>
                faults' \in 0 .. MaxFaults /\ (faults' = 0 => faults = 0 /\ Stopped(s))
           /\ \A s \in Sessions : Fails(s) => faults' >= faults
           /\ Goes(TRUE) => faults' >= faults
<1>0. MaxFaults \in Nat /\ faults \in 0 .. MaxFaults
  BY ClientsAssumption, Zenon DEF OutsideOK
<1>1. faults \in Nat /\ faults <= MaxFaults /\ MaxFaults \in Nat
  BY <1>0
<1>2. Goes(TRUE) => faults < MaxFaults /\ faults' = faults + 1
  BY DEF Goes
<1>3. \A s \in Sessions :
         Fails(s) => \/ faults < MaxFaults /\ faults' = faults + 1
                     \/ Stopped(s) /\ faults' = faults
  BY DEF Fails, Goes
<1>4. ASSUME Goes(TRUE) PROVE faults' \in 1 .. MaxFaults /\ faults' >= faults
  <2>1. faults < MaxFaults /\ faults' = faults + 1
    BY <1>2, <1>4, Zenon
  <2> QED  BY <1>1, <2>1
<1>5. ASSUME NEW s \in Sessions, Fails(s)
      PROVE  /\ faults' \in 0 .. MaxFaults /\ faults' >= faults
             /\ faults' = 0 => faults = 0 /\ Stopped(s)
  <2>1. \/ faults < MaxFaults /\ faults' = faults + 1
        \/ Stopped(s) /\ faults' = faults
    BY <1>3, <1>5
  <2> QED  BY <1>1, <2>1
<1> QED  BY <1>4, <1>5, Zenon

LEMMA HearOK ==
    ASSUME OutsideOK, NEW a \in Actions,
           NEW answer \in {"accepted", "refused", "later"}, Hear(a, answer)
    PROVE  /\ answers' \in [Actions -> Seq({"accepted", "refused"})]
           /\ \A b \in Actions : ToSet(answers[b]) \subseteq ToSet(answers'[b])
           /\ answer # "later" /\ a \notin crossed => answer \in ToSet(answers'[a])
<1>1. CASE answer = "later" \/ a \in crossed
  BY <1>1 DEF Hear, OutsideOK
<1>2. CASE ~(answer = "later" \/ a \in crossed)
  <2>1. answers' = [answers EXCEPT ![a] = Append(@, answer)]
    BY <1>2 DEF Hear
  <2>2. answers[a] \in Seq({"accepted", "refused"}) /\ answer \in {"accepted", "refused"}
    BY <1>2 DEF OutsideOK
  <2>3. /\ DOMAIN answers[a] = 1 .. Len(answers[a]) /\ Len(answers[a]) \in Nat
        /\ DOMAIN Append(answers[a], answer) = 1 .. Len(answers[a]) + 1
        /\ \A i \in 1 .. Len(answers[a]) : Append(answers[a], answer)[i] = answers[a][i]
        /\ Append(answers[a], answer)[Len(answers[a]) + 1] = answer
        /\ Append(answers[a], answer) \in Seq({"accepted", "refused"})
    BY <2>2
  <2>4. ToSet(answers[a]) \subseteq ToSet(Append(answers[a], answer))
    BY <2>3 DEF ToSet
  <2>5. answer \in ToSet(Append(answers[a], answer))
    BY <2>3 DEF ToSet
  <2> QED  BY <2>1, <2>3, <2>4, <2>5 DEF OutsideOK
<1> QED  BY <1>1, <1>2

LEMMA CallIsHandle ==
    ASSUME NEW s \in Sessions, NEW a \in Actions, CallHandler(s, a)
    PROVE  Handle(s, a) /\ UNCHANGED <<deployed, params>>
<1>1. UNCHANGED <<deployed, params>> /\ Calling(s, a) /\ \E next \in Verdicts : Goto(s, a, next)
  <2>1. CASE HandleHttp(s, a)
    <3>1. CASE ParamsUnread(s, a) \/ NotRendered(s, a) \/ RequestLost(s, a)
      BY <3>1 DEF ParamsUnread, NotRendered, RequestLost, Calling, Verdicts
    <3>2. ASSUME NEW r \in Responses, Respond(s, a, r)
          PROVE  /\ UNCHANGED <<deployed, params>> /\ Calling(s, a)
                 /\ \E next \in Verdicts : Goto(s, a, next)
      BY <3>2, CheckDecides DEF Respond, Calling
    <3> QED  BY <2>1, <3>1, <3>2 DEF HandleHttp
  <2>2. CASE HandleArgo(s, a)
    BY <2>2 DEF HandleArgo, UnknownWorkflow, Submit, SubmitFails, Calling, Verdicts
  <2> QED  BY <2>1, <2>2 DEF CallHandler
<1> QED  BY <1>1 DEF Calling, Handle, Verdicts

Heard(a, answer) == answer \in ToSet(answers[a])

\* What is written down outside only grows.
Remembers ==
    /\ \A a \in Actions : ToSet(answers[a]) \subseteq ToSet(answers'[a])
    /\ blind \subseteq blind'
    /\ faults' >= faults

\* The HTTP client: what each verdict says of the answer and the parameters.
LEMMA CallbackCall ==
    ASSUME OutsideOK, NEW s \in Sessions, NEW a \in CallbackActions, HandleHttp(s, a)
    PROVE  /\ OutsideOK' /\ Remembers /\ UNCHANGED cluster
           /\ \E next \in Verdicts :
                /\ Goto(s, a, next)
                /\ Understood /\ a \notin crossed /\ next = "commit" => Heard(a, "accepted")'
                /\ Understood /\ a \notin crossed /\ next = "rollbackFatal" =>
                     Heard(a, "refused")' \/ a \in blind'
                /\ next # "rollbackFatal" => params[a] = "stored"
<1>0. a \in Actions /\ faults \in Nat
  BY FaultsGrow DEF CallbackActions, OutsideOK
<1>1. CASE ParamsUnread(s, a)
  <2>1. faults' \in 0 .. MaxFaults /\ faults' >= faults
    <3>1. UNCHANGED faults \/ Fails(s)
      BY <1>1 DEF ParamsUnread
    <3>2. CASE UNCHANGED faults
      BY <1>0, <3>2 DEF OutsideOK
    <3> QED  BY <3>1, <3>2, FaultsGrow
  <2> QED  BY <1>1, <2>1 DEF ParamsUnread, Calling, OutsideOK, Remembers, Verdicts
<1>2. CASE NotRendered(s, a)
  BY <1>0, <1>2, HearOK DEF NotRendered, Calling, OutsideOK, Remembers, Verdicts, Heard
<1>3. CASE RequestLost(s, a)
  <2>1. faults' \in 0 .. MaxFaults /\ faults' >= faults
    BY <1>0, <1>3, FaultsGrow DEF RequestLost
  <2>2. /\ answers' \in [Actions -> Seq({"accepted", "refused"})]
        /\ \A b \in Actions : ToSet(answers[b]) \subseteq ToSet(answers'[b])
    <3>1. CASE UNCHANGED answers
      BY <3>1 DEF OutsideOK
    <3>2. CASE \E r \in Responses : Hear(a, r.means)
      BY <1>0, <3>2, HearOK, ClientsAssumption
    <3> QED  BY <1>3, <3>1, <3>2 DEF RequestLost
  <2> QED  BY <1>3, <2>1, <2>2 DEF RequestLost, Calling, OutsideOK, Remembers, Verdicts
<1>4. ASSUME NEW r \in Responses, Respond(s, a, r)
      PROVE  /\ OutsideOK' /\ Remembers /\ UNCHANGED cluster
             /\ Goto(s, a, Verdict(Check(r))) /\ params[a] = "stored"
             /\ r.means # "later" /\ a \notin crossed => Heard(a, r.means)'
  <2>1. r.means \in {"accepted", "refused", "later"}
    BY ClientsAssumption
  <2> QED  BY <1>0, <1>4, <2>1, HearOK DEF Respond, Calling, OutsideOK, Remembers, Heard
<1>5. CASE \E r \in Responses : Respond(s, a, r)
  BY <1>4, <1>5, CheckDecides DEF Understood
<1> QED  BY <1>1, <1>2, <1>3, <1>5 DEF HandleHttp

\* The Argo client: a workflow is in the cluster only once it was accepted.
LEMMA ArgoCall ==
    ASSUME OutsideOK, NEW s \in Sessions, NEW a \in Argo, HandleArgo(s, a)
    PROVE  /\ OutsideOK' /\ Remembers
           /\ \A b \in Argo \ {a} : cluster'[b] = cluster[b]
           /\ cluster[a] # "absent" => cluster'[a] = cluster[a]
           /\ \E next \in Verdicts :
                /\ Goto(s, a, next)
                /\ a \notin crossed /\ next = "commit" => Heard(a, "accepted")'
                /\ a \notin crossed /\ cluster'[a] # "absent" =>
                     cluster[a] # "absent" \/ Heard(a, "accepted")'
                /\ cluster'[a] # "absent" /\ faults' = 0 =>
                     cluster[a] # "absent" \/ next = "commit" \/ Stopped(s)
<1>0. a \in Actions /\ faults \in Nat
  BY FaultsGrow DEF Argo, OutsideOK
<1>1. CASE UnknownWorkflow(s, a)
  BY <1>0, <1>1, HearOK DEF UnknownWorkflow, Calling, OutsideOK, Remembers, Verdicts
<1>2. CASE Submit(s, a)
  <2>1. /\ answers' \in [Actions -> Seq({"accepted", "refused"})]
        /\ \A b \in Actions : ToSet(answers[b]) \subseteq ToSet(answers'[b])
        /\ a \notin crossed => Heard(a, "accepted")'
    BY <1>0, <1>2, HearOK DEF Submit, Heard
  <2> QED  BY <1>0, <1>2, <2>1 DEF Submit, Calling, OutsideOK, Remembers, Verdicts
<1>3. CASE SubmitFails(s, a)
  <2>1. Fails(s) => /\ faults' \in 0 .. MaxFaults /\ faults' >= faults
                    /\ faults' = 0 => Stopped(s)
    BY FaultsGrow
  <2>2. Calling(s, a) /\ Goto(s, a, "rollbackRetryable") /\ UNCHANGED <<params, blind>>
    BY <1>3 DEF SubmitFails
  <2>3. CASE Fails(s) /\ UNCHANGED <<cluster, answers>>
    BY <1>0, <2>1, <2>2, <2>3 DEF Calling, OutsideOK, Remembers, Verdicts
  <2>4. CASE /\ Fails(s) /\ cluster[a] = "absent"
             /\ cluster' = [cluster EXCEPT ![a] = "present"]
             /\ Hear(a, "accepted")
    <3>1. /\ answers' \in [Actions -> Seq({"accepted", "refused"})]
          /\ \A b \in Actions : ToSet(answers[b]) \subseteq ToSet(answers'[b])
          /\ a \notin crossed => Heard(a, "accepted")'
      BY <1>0, <2>4, HearOK DEF Heard
    <3> QED  BY <1>0, <2>1, <2>2, <2>4, <3>1 DEF Calling, OutsideOK, Remembers, Verdicts
  <2>5. CASE cluster[a] # "absent" /\ UNCHANGED <<cluster, answers, faults>>
    BY <1>0, <2>2, <2>5 DEF Calling, OutsideOK, Remembers, Verdicts
  <2> QED  BY <1>3, <2>3, <2>4, <2>5 DEF SubmitFails
<1> QED  BY <1>1, <1>2, <1>3 DEF HandleArgo

\* The steps of the conductor that are not of a client.
Own ==
    \/ \E s \in Sessions : Conduct(s) \/ Wake(s)
    \/ \E p \in Processes : Restart(p)
    \/ \E a \in Actions : Due(a)
    \/ Break

\* The steps of the caboose.
CabooseStep ==
    \/ \E a \in CallbackActions : SettleCallback(a)
    \/ \E a \in Argo : WorkflowStarts(a) \/ WorkflowEnds(a) \/ WorkflowRemoved(a)

LEMMA ThreeKinds ==
    ASSUME ClientsNext
    PROVE  \/ Own
           \/ CabooseStep
           \/ \E s \in Sessions, a \in Actions : CallHandler(s, a)
BY DEF ClientsNext, Runs, Own, CabooseStep

LEMMA OwnStep ==
    ASSUME OutsideOK, Own
    PROVE  /\ Others \/ \E s \in Sessions, a \in Actions : Execute(s, a)
           /\ OutsideOK' /\ Remembers /\ UNCHANGED <<params, cluster>>
           /\ faults' = 0 => faults = 0 /\ ~Break
<1>0. faults \in Nat
  BY FaultsGrow DEF OutsideOK
<1>1. CASE Break
  <2>1. faults' \in 1 .. MaxFaults /\ faults' >= faults
    BY <1>1, FaultsGrow DEF Break
  <2>2. Others /\ UNCHANGED <<deployed, params, cluster, answers, blind>>
    BY <1>1 DEF Break, Others
  <2>3. faults' \in 0 .. MaxFaults /\ faults' # 0
    BY <2>1
  <2> QED  BY <1>0, <2>1, <2>2, <2>3 DEF OutsideOK, Remembers
<1>2. ASSUME NEW s \in Sessions, Conduct(s)
      PROVE  /\ Others \/ \E a \in Actions : Execute(s, a)
             /\ UNCHANGED <<deployed, params, cluster, answers, blind>>
             /\ faults' \in 0 .. MaxFaults /\ faults' >= faults
             /\ faults' = 0 => faults = 0
  <2>1. /\ (\E a \in Actions : Execute(s, a)) \/ LoopStep(s)
        /\ Goes(TRUE) \/ Fails(s) \/ UNCHANGED faults
        /\ UNCHANGED <<deployed, params, cluster, answers, blind>>
    BY <1>2, Zenon DEF Conduct
  <2>2. faults \in 0 .. MaxFaults
    BY DEF OutsideOK
  <2>3. /\ faults' \in 0 .. MaxFaults /\ faults' >= faults
        /\ faults' = 0 => faults = 0
    <3>1. CASE Goes(TRUE)
      <4>1. faults' \in 1 .. MaxFaults /\ faults' >= faults
        BY <3>1, FaultsGrow, Zenon
      <4> QED  BY <1>0, <4>1
    <3>2. CASE Fails(s)
      BY <3>2, FaultsGrow
    <3>3. CASE UNCHANGED faults
      BY <1>0, <2>2, <3>3
    <3> QED  BY <2>1, <3>1, <3>2, <3>3
  <2> QED  BY <2>1, <2>3 DEF Others
<1>3. ASSUME Own, ~Break, ~\E s \in Sessions : Conduct(s)
      PROVE  Others /\ UNCHANGED outsideVars
  BY <1>3 DEF Own, Wake, Restart, Due, Others
<1>4. CASE ~Break
  <2>1. ASSUME NEW s \in Sessions, Conduct(s) 
        PROVE  /\ Others \/ \E t \in Sessions, a \in Actions : Execute(t, a)
               /\ OutsideOK' /\ Remembers /\ UNCHANGED <<params, cluster>>
               /\ faults' = 0 => faults = 0
    BY <1>2, <2>1 DEF OutsideOK, Remembers
  <2>2. CASE ~\E s \in Sessions : Conduct(s)
    BY <1>0, <1>3, <1>4, <2>2 DEF outsideVars, OutsideOK, Remembers
  <2> QED  BY <1>4, <2>1, <2>2
<1> QED  BY <1>1, <1>4

LEMMA PublishOK ==
    ASSUME Inv, SharedInv, Tracked, NEW a \in Actions, NEW e \in Statuses, Publish(a, e)
    PROVE  /\ Inv' /\ SharedInv'
           /\ \A b \in Actions : status'[b] = IF b = a THEN e ELSE status[b]
<1>1. /\ status' = [status EXCEPT ![a] = e] /\ waiting' = waiting \ {a}
      /\ UNCHANGED <<lock, depth, open, inTx, events, loop, pc, notified, stopping>>
  BY DEF Publish
<1>2. TypeOK'
  BY <1>1 DEF Inv, TypeOK, DBTypeOK
<1>3. LocksOK' /\ AttemptsOK' /\ LoopsOK' /\ BatchLeavesNoTransaction'
  BY <1>1 DEF Inv, LocksOK, AttemptsOK, LoopsOK, BatchLeavesNoTransaction, Working
<1>4. SharedInv'
  BY <1>1 DEF SharedInv, DepthOK, LocksReturned, TxOK, EventsOK, Working, Stopped, SuccessEvent,
              Tracked
<1> QED  BY <1>1, <1>2, <1>3, <1>4 DEF Inv, TypeOK, DBTypeOK

\* What the caboose does to a status, and what it leaves alone.
LEMMA CabooseSteps ==
    ASSUME Inv, SharedInv, Tracked, OutsideOK, CabooseStep
    PROVE  /\ Inv' /\ SharedInv' /\ OutsideOK' /\ Remembers
           /\ UNCHANGED <<loop, pc, open, stopping>>
           /\ \A a \in CallbackActions :
                \/ params'[a] = params[a] /\ status'[a] = status[a]
                \/ params[a] = "unwritten" /\ params'[a] # "failed" /\ status'[a] = status[a]
                \/ params[a] = "unwritten" /\ params'[a] = "failed" /\ status'[a] = "FAILED"
           /\ \A a \in Argo :
                \/ status'[a] = status[a] /\ (cluster'[a] # "absent" => cluster[a] # "absent")
                \/ /\ cluster[a] # "absent" /\ status'[a] \in DoneStates \cup {"FAILED"}
                   /\ \A s \in Sessions : events[s][a] = NoEvent
<1>0. faults \in Nat /\ CallbackActions \cap Argo = {} /\ Argo \subseteq Actions
      /\ CallbackActions \subseteq Actions
  BY FaultsGrow DEF OutsideOK, CallbackActions, Argo
<1>1. UNCHANGED vars => Inv' /\ SharedInv'
  BY NextInv, NextShared DEF SharedKept
<1>2. ASSUME NEW a \in CallbackActions, SettleCallback(a)
      PROVE  /\ Inv' /\ SharedInv' /\ OutsideOK' /\ Remembers
             /\ UNCHANGED <<loop, pc, open, stopping, cluster>>
             /\ \A b \in Actions \ {a} : status'[b] = status[b]
             /\ \A b \in CallbackActions \ {a} : params'[b] = params[b]
             /\ params[a] = "unwritten"
             /\ \/ params'[a] # "failed" /\ status'[a] = status[a]
                \/ params'[a] = "failed" /\ status'[a] = "FAILED"
  <2>0. params[a] = "unwritten" /\ UNCHANGED <<deployed, cluster, answers, blind>>
    BY <1>2 DEF SettleCallback
  <2>1. CASE params' = [params EXCEPT ![a] = "stored"] /\ UNCHANGED <<vars, faults>>
    BY <1>0, <1>1, <2>0, <2>1 DEF OutsideOK, Remembers, vars
  <2>2. CASE params' = [params EXCEPT ![a] = "failed"] /\ Publish(a, "FAILED") /\ UNCHANGED faults
    <3>1. /\ Inv' /\ SharedInv'
          /\ \A b \in Actions : status'[b] = IF b = a THEN "FAILED" ELSE status[b]
      BY <1>0, <2>2, PublishOK DEF Statuses
    <3> QED  BY <1>0, <2>0, <2>2, <3>1 DEF OutsideOK, Remembers, Publish
  <2>3. CASE params' = [params EXCEPT ![a] = "left"] /\ Goes(TRUE) /\ UNCHANGED vars
    <3>1. faults' \in 0 .. MaxFaults /\ faults' >= faults
      BY <2>3, FaultsGrow
    <3> QED  BY <1>0, <1>1, <2>0, <2>3, <3>1 DEF OutsideOK, Remembers, vars
  <2> QED  BY <1>2, <2>0, <2>1, <2>2, <2>3 DEF SettleCallback
<1>3. ASSUME NEW a \in Argo, NEW e \in DoneStates \cup {"FAILED"}, Publish(a, e),
             cluster[a] # "absent", \A b \in Argo \ {a} : cluster'[b] = cluster[b],
             cluster' \in [Argo -> {"absent", "present", "recorded"}],
             UNCHANGED <<deployed, params, answers, blind, faults>>
      PROVE  /\ Inv' /\ SharedInv' /\ OutsideOK' /\ Remembers
             /\ UNCHANGED <<loop, pc, open, stopping>>
             /\ \A b \in Actions : status'[b] = IF b = a THEN e ELSE status[b]
             /\ \A s \in Sessions : events[s][a] = NoEvent
  <2>1. e \in Statuses
    BY DEF Statuses
  <2>2. /\ Inv' /\ SharedInv'
        /\ \A b \in Actions : status'[b] = IF b = a THEN e ELSE status[b]
    BY <1>0, <1>3, <2>1, PublishOK
  <2> QED  BY <1>0, <1>3, <2>2 DEF OutsideOK, Remembers, Publish
<1>4. ASSUME NEW a \in Argo, WorkflowStarts(a) \/ WorkflowEnds(a) \/ WorkflowRemoved(a)
      PROVE  /\ cluster[a] # "absent" /\ \A b \in Argo \ {a} : cluster'[b] = cluster[b]
             /\ cluster' \in [Argo -> {"absent", "present", "recorded"}]
             /\ UNCHANGED <<deployed, params, answers, blind, faults>>
             /\ UNCHANGED vars \/ \E e \in DoneStates \cup {"FAILED"} : Publish(a, e)
  BY <1>4 DEF WorkflowStarts, WorkflowEnds, WorkflowRemoved, outsideVars, DoneStates, OutsideOK
<1>5. ASSUME NEW a \in Argo, WorkflowStarts(a) \/ WorkflowEnds(a) \/ WorkflowRemoved(a)
      PROVE  /\ Inv' /\ SharedInv' /\ OutsideOK' /\ Remembers
             /\ UNCHANGED <<loop, pc, open, stopping, params>>
             /\ \A b \in Actions \ {a} : status'[b] = status[b]
             /\ \A b \in Argo \ {a} : cluster'[b] = cluster[b]
             /\ cluster[a] # "absent"
             /\ \/ status'[a] = status[a]
                \/ /\ status'[a] \in DoneStates \cup {"FAILED"}
                   /\ \A s \in Sessions : events[s][a] = NoEvent
  <2>1. CASE UNCHANGED vars
    BY <1>0, <1>1, <1>4, <1>5, <2>1 DEF vars, OutsideOK, Remembers
  <2>2. CASE \E e \in DoneStates \cup {"FAILED"} : Publish(a, e)
    BY <1>0, <1>3, <1>4, <1>5, <2>2
  <2> QED  BY <1>4, <1>5, <2>1, <2>2
<1> QED  BY <1>0, <1>2, <1>5 DEF CabooseStep

LEMMA ClientsInitInv == ClientsInit => Inv /\ SharedInv /\ OutsideOK
<1> SUFFICES ASSUME ClientsInit PROVE OutsideOK
  BY InitInv, SharedInitInv DEF ClientsInit, SharedInit
<1>1. MaxFaults \in Nat
  BY ClientsAssumption, Zenon
<1>2. 0 \in 0 .. MaxFaults
  BY <1>1
<1>3. answers \in [Actions -> Seq({"accepted", "refused"})]
  BY DEF ClientsInit
<1> QED  BY <1>2, <1>3 DEF ClientsInit, OutsideOK

LEMMA ClientsNextInv ==
    ASSUME Inv, SharedInv, OutsideOK, [ClientsNext /\ Track]_<<clientVars, crossed, stuck>>
    PROVE  Inv' /\ SharedInv' /\ OutsideOK' /\ Tracked
<1>0. Tracked
  BY TrackTracks DEF clientVars
<1>1. ASSUME [Next]_vars PROVE Inv' /\ SharedInv'
  BY <1>0, <1>1, NextInv, NextShared DEF SharedKept
<1>2. CASE UNCHANGED clientVars
  BY <1>0, <1>1, <1>2 DEF clientVars, outsideVars, OutsideOK
<1>3. CASE Own
  BY <1>0, <1>1, <1>3, OwnStep DEF Others, Next
<1>4. CASE CabooseStep
  BY <1>0, <1>4, CabooseSteps
<1>5. ASSUME NEW s \in Sessions, NEW a \in Actions, CallHandler(s, a)
      PROVE  Inv' /\ SharedInv' /\ OutsideOK'
  <2>1. Next
    BY <1>5, CallIsHandle DEF Next
  <2>2. CASE a \in Argo
    BY <1>1, <1>5, <2>1, <2>2, ArgoCall DEF CallHandler
  <2>3. CASE a \notin Argo
    BY <1>1, <1>5, <2>1, <2>3, CallbackCall DEF CallHandler, CallbackActions, Argo
  <2> QED  BY <2>2, <2>3
<1> QED  BY <1>0, <1>2, <1>3, <1>4, <1>5, ThreeKinds

LEMMA ClientsInvariance == ClientsSpec => [](Inv /\ SharedInv /\ OutsideOK)
<1>1. Inv /\ SharedInv /\ OutsideOK /\ [ClientsNext /\ Track]_<<clientVars, crossed, stuck>>
      => (Inv /\ SharedInv /\ OutsideOK)'
  BY ClientsNextInv
<1> QED  BY <1>1, ClientsInitInv, PTL DEF ClientsSpec

\* Whatever the clients, the caboose and the environment do, the variables
\* keep their types.
THEOREM ClientsTypeCorrect == ClientsSpec => []ClientsTypeOK
<1>1. Inv /\ OutsideOK => ClientsTypeOK
  BY DEF Inv, OutsideOK, ClientsTypeOK
<1> QED  BY <1>1, ClientsInvariance, PTL

\* What the conductor promises on its own it keeps next to the caboose, which
\* writes to the same rows: attempts of live sessions exclude each other, and no
\* batch leaves its session in a transaction.
THEOREM ClientsKeepApart == ClientsSpec => [](ExclusiveAttempt /\ BatchLeavesNoTransaction)
<1>1. Inv => ExclusiveAttempt /\ BatchLeavesNoTransaction
  BY DEF Inv, AttemptsOK, ExclusiveAttempt
<1> QED  BY <1>1, ClientsInvariance, PTL

\* No lock outlives its goroutine either, unless its Unlock found the connection
\* in use: the caboose leaves the locks alone.
THEOREM ClientsReturnLocks == ClientsSpec => []LocksReturned
BY ClientsInvariance, PTL DEF SharedInv

-----------------------------------------------------------------------------
(* The status tells what happened outside.                                  *)

ToldInv ==
    /\ \A s \in Sessions, a \in Actions \ crossed :
         pc[s][a] = "commit" => Heard(a, "accepted")
    /\ \A s \in Sessions, a \in CallbackActions \ crossed :
         pc[s][a] \in {"rollbackFatal", "failed"} => Heard(a, "refused") \/ a \in blind
    /\ \A a \in Argo \ crossed : cluster[a] # "absent" => Heard(a, "accepted")
    /\ StatusIsTrue

LEMMA ToldOwn ==
    ASSUME Inv, SharedInv, Tracked, OutsideOK, ToldInv, Own
    PROVE  ToldInv'
<1>1. Kept
  BY OwnStep, OthersKeep, ExecuteKeeps
<1>2. Remembers /\ UNCHANGED <<params, cluster>> /\ crossed \subseteq crossed'
  BY OwnStep DEF Tracked
<1>3. \A a \in Actions, x \in {"accepted", "refused"} : Heard(a, x) => Heard(a, x)'
  BY <1>2 DEF Remembers, Heard
<1>4. ASSUME NEW a \in Actions \ crossed'
      PROVE  /\ status'[a] \in DoneStates => Heard(a, "accepted")'
             /\ a \in CallbackActions /\ status'[a] = "FAILED" =>
                  Heard(a, "refused")' \/ params'[a] = "failed" \/ a \in blind'
  <2>0. a \notin crossed
    BY <1>2
  <2>1. CASE status'[a] = status[a]
    BY <1>2, <1>3, <2>0, <2>1 DEF ToldInv, StatusIsTrue, Heard, Remembers
  <2>2. ASSUME NEW s \in open, pc[s][a] = "commit", status'[a] = SuccessEvent(a)
        PROVE  status'[a] # "FAILED" /\ Heard(a, "accepted")'
    BY <1>3, <2>0, <2>2 DEF ToldInv, SuccessEvent, Inv, TypeOK, DBTypeOK
  <2>3. ASSUME NEW s \in open, pc[s][a] = "failed", status'[a] = "FAILED", a \in CallbackActions
        PROVE  Heard(a, "refused")' \/ a \in blind'
    BY <1>2, <1>3, <2>0, <2>3 DEF ToldInv, Remembers, Inv, TypeOK, DBTypeOK
  <2> QED  BY <1>1, <2>1, <2>2, <2>3 DEF Kept, StatusesKept, DoneStates
<1>5. StatusIsTrue'
  BY <1>4 DEF StatusIsTrue, Heard
<1>6. \A s \in Sessions, a \in Actions \ crossed' : pc'[s][a] = "commit" => Heard(a, "accepted")'
  BY <1>1, <1>2, <1>3 DEF ToldInv, Kept, StepsKept, Verdicts
<1>7. \A s \in Sessions, a \in CallbackActions \ crossed' :
         pc'[s][a] \in {"rollbackFatal", "failed"} => Heard(a, "refused")' \/ a \in blind'
  BY <1>1, <1>2, <1>3 DEF ToldInv, Kept, StepsKept, Verdicts, Remembers, CallbackActions
<1>8. \A a \in Argo \ crossed' : cluster'[a] # "absent" => Heard(a, "accepted")'
  BY <1>2, <1>3 DEF ToldInv, Argo
<1> QED  BY <1>5, <1>6, <1>7, <1>8 DEF ToldInv

LEMMA ToldCaboose ==
    ASSUME Inv, SharedInv, Tracked, OutsideOK, ToldInv, CabooseStep
    PROVE  ToldInv'
<1>1. Remembers /\ UNCHANGED pc /\ crossed \subseteq crossed'
  BY CabooseSteps DEF Tracked
<1>2. \A a \in Actions, x \in {"accepted", "refused"} : Heard(a, x) => Heard(a, x)'
  BY <1>1 DEF Remembers, Heard
<1>3. ASSUME NEW a \in CallbackActions \ crossed'
      PROVE  /\ status'[a] \in DoneStates => Heard(a, "accepted")'
             /\ status'[a] = "FAILED" =>
                  Heard(a, "refused")' \/ params'[a] = "failed" \/ a \in blind'
  <2>1. a \in Actions /\ a \notin crossed /\ (params[a] = "unwritten" => params[a] # "failed")
    BY <1>1 DEF CallbackActions
  <2>2. \/ status'[a] = status[a] /\ (params[a] = "failed" => params'[a] = "failed")
        \/ params'[a] = "failed" /\ status'[a] = "FAILED"
    BY <2>1, CabooseSteps
  <2> QED  BY <1>1, <1>2, <2>1, <2>2 DEF ToldInv, StatusIsTrue, Heard, Remembers, DoneStates
<1>4. ASSUME NEW a \in Argo \ crossed'
      PROVE  /\ status'[a] \in DoneStates => Heard(a, "accepted")'
             /\ cluster'[a] # "absent" => Heard(a, "accepted")'
  <2>1. a \in Actions /\ a \notin crossed
    BY <1>1 DEF Argo
  <2>2. \/ status'[a] = status[a] /\ (cluster'[a] # "absent" => cluster[a] # "absent")
        \/ cluster[a] # "absent"
    BY CabooseSteps
  <2> QED  BY <1>2, <2>1, <2>2 DEF ToldInv, StatusIsTrue, Heard
<1>5. StatusIsTrue'
  BY <1>3, <1>4 DEF StatusIsTrue, Heard, CallbackActions, Argo
<1> QED  BY <1>1, <1>2, <1>4, <1>5 DEF ToldInv, CallbackActions, Remembers

LEMMA CallMoves ==
    ASSUME Inv, NEW s \in Sessions, NEW a \in Actions, CallHandler(s, a),
           NEW next, Goto(s, a, next)
    PROVE  /\ UNCHANGED <<status, params, open, loop, stopping>>
           /\ \A t \in Sessions, b \in Actions :
                pc'[t][b] = IF t = s /\ b = a THEN next ELSE pc[t][b]
           /\ pc[s][a] = "handle"
<1>1. Handle(s, a) /\ UNCHANGED params
  BY CallIsHandle
<1>2. UNCHANGED <<status, open, loop, stopping>> /\ pc[s][a] = "handle"
  BY <1>1 DEF Handle
<1>3. pc \in [Sessions -> [Actions -> Steps]]
  BY DEF Inv, TypeOK
<1> QED  BY <1>1, <1>2, <1>3 DEF Goto

LEMMA ToldCall ==
    ASSUME Inv, Tracked, OutsideOK, ToldInv, Understood,
           NEW s \in Sessions, NEW a \in Actions, CallHandler(s, a)
    PROVE  ToldInv'
<1>1. PICK next \in Verdicts :
        /\ Goto(s, a, next) /\ Remembers
        /\ a \notin crossed /\ next = "commit" => Heard(a, "accepted")'
        /\ a \in CallbackActions \ crossed /\ next = "rollbackFatal" =>
             Heard(a, "refused")' \/ a \in blind'
        /\ \A b \in Argo \ crossed : cluster'[b] # "absent" =>
             cluster[b] # "absent" \/ Heard(b, "accepted")'
  <2>1. CASE a \in Argo
    <3>1. a \notin CallbackActions
      BY <2>1 DEF Argo, CallbackActions
    <3> QED  BY <2>1, <3>1, ArgoCall DEF CallHandler
  <2>2. CASE a \notin Argo
    <3>1. a \in CallbackActions
      BY <2>2 DEF Argo, CallbackActions
    <3> QED  BY <2>2, <3>1, CallbackCall DEF CallHandler
  <2> QED  BY <2>1, <2>2
<1>2. /\ UNCHANGED <<status, params>> /\ crossed \subseteq crossed'
      /\ \A t \in Sessions, b \in Actions :
           pc'[t][b] = IF t = s /\ b = a THEN next ELSE pc[t][b]
  BY <1>1, CallMoves DEF Tracked
<1>3. \A b \in Actions, x \in {"accepted", "refused"} : Heard(b, x) => Heard(b, x)'
  BY <1>1 DEF Remembers, Heard
<1>4. StatusIsTrue'
  BY <1>1, <1>2, <1>3 DEF ToldInv, StatusIsTrue, Heard, Remembers
<1>5. \A t \in Sessions, b \in Actions \ crossed' :
         pc'[t][b] = "commit" => Heard(b, "accepted")'
  BY <1>1, <1>2, <1>3 DEF ToldInv
<1>6. \A t \in Sessions, b \in CallbackActions \ crossed' :
         pc'[t][b] \in {"rollbackFatal", "failed"} => Heard(b, "refused")' \/ b \in blind'
  BY <1>1, <1>2, <1>3 DEF ToldInv, Remembers, Verdicts, CallbackActions
<1>7. \A b \in Argo \ crossed' : cluster'[b] # "absent" => Heard(b, "accepted")'
  BY <1>1, <1>2, <1>3 DEF ToldInv, Argo
<1> QED  BY <1>4, <1>5, <1>6, <1>7 DEF ToldInv

\* With matchers that mean what the server means, a status never claims what did
\* not happen: of the actions that nobody crossed, one that is queued or successful
\* was accepted, and a callback that is failed was refused, failed by the caboose,
\* or attempted when its parameters could not be read.
THEOREM StatusesAreTrue ==
    ASSUME Understood PROVE ClientsSpec => []StatusIsTrue
<1>1. ClientsInit => ToldInv
  BY DEF ClientsInit, SharedInit, Init, DBInit, NoGoroutines, ToldInv, StatusIsTrue, DoneStates,
         Argo, CallbackActions
<1>2. Inv /\ SharedInv /\ OutsideOK /\ ToldInv /\ [ClientsNext /\ Track]_<<clientVars, crossed, stuck>>
      => ToldInv'
  <2> SUFFICES ASSUME Inv, SharedInv, OutsideOK, ToldInv,
                      [ClientsNext /\ Track]_<<clientVars, crossed, stuck>>
               PROVE  ToldInv'
    OBVIOUS
  <2>0. Tracked
    BY ClientsNextInv
  <2>1. CASE UNCHANGED <<clientVars, crossed, stuck>>
    BY <2>1 DEF clientVars, outsideVars, vars, ToldInv, StatusIsTrue, Heard
  <2>2. CASE ClientsNext
    BY <2>0, <2>2, ThreeKinds, ToldOwn, ToldCaboose, ToldCall
  <2> QED  BY <2>1, <2>2
<1>3. ToldInv => StatusIsTrue
  BY DEF ToldInv
<1> QED  BY <1>1, <1>2, <1>3, ClientsInvariance, PTL DEF ClientsSpec

-----------------------------------------------------------------------------
(* What is settled stays settled.                                           *)

\* Only a callback whose parameters are there succeeds, or is tried again.
StoredOK ==
    \A s \in Sessions, a \in CallbackActions :
        pc[s][a] \in {"commit", "rollbackRetryable", "backoff"} => params[a] = "stored"

\* An attempt that may still give its action a status finds it settled only if
\* the caboose has failed the callback, or something else has gone wrong.
OpenOK ==
    \A s \in open, a \in Actions \ crossed :
        pc[s][a] \in Undecided =>
            \/ status[a] \in OpenStates
            \/ a \in CallbackActions /\ params[a] = "failed"
            \/ a \in Argo /\ faults > 0

\* As long as nothing goes wrong, loops keep their sessions, and an action whose
\* workflow is in the cluster is settled or about to be.
Awake ==
    stopping = {} /\ \A s \in Sessions : loop[s] \in {"wait", "batch"} => s \in open

CalmOK ==
    faults = 0 =>
        /\ Awake
        /\ \A a \in Argo \ crossed : cluster[a] # "absent" =>
             status[a] \notin OpenStates \/ \E s \in open : pc[s][a] = "commit"

SettledInv == StoredOK /\ OpenOK /\ CalmOK

\* A statement that could be sent costs the session only on a busy connection.
LEMMA LossIsBusy ==
    ASSUME NEW s \in Sessions, NEW a \in Actions, Execute(s, a), CanExec(s), s \notin open'
    PROVE  ConnBusy(s, a)
<1>1. ~(open' = open)
  BY DEF CanExec
<1>2. CanFail(s, a)
  BY <1>1 DEF Execute, Begin, Insert, Commit, Undo, HandleError, RecordError, Unlock, Rollback,
              BeginTx, InsertEvent, CommitTx, RollbackTx, UnlockThread
<1> QED  BY <1>2 DEF ConnBusy, CanFail

\* A step of the conductor by which nothing goes wrong ends no session.
LEMMA CalmStep ==
    ASSUME Inv, OutsideOK, Awake, Own, faults = 0, faults' = 0
    PROVE  Awake' /\ open \subseteq open'
<1> USE DEF Awake
<1>0. TypeOK /\ ~Break /\ \A s \in Sessions : ~Stopped(s)
  BY OwnStep DEF Inv, Stopped
<1>10. ~Goes(TRUE)
  <2>1. Goes(TRUE) => faults' \in 1 .. MaxFaults
    BY FaultsGrow, Zenon
  <2>2. 0 \notin 1 .. MaxFaults
    OBVIOUS
  <2> QED  BY <2>1, <2>2, Zenon
<1>11. \A s \in Sessions : ~Fails(s)
  BY <1>0, <1>10, Zenon DEF Fails
<1>1. ASSUME NEW s \in Sessions, NEW a \in Actions, Execute(s, a), ~ConnBusy(s, a)
      PROVE  Awake' /\ open \subseteq open'
  <2>1. Working(s, a) /\ loop[s] = "batch"
    BY <1>1 DEF Execute, Begin, Insert, Commit, Undo, HandleError, RecordError, Unlock, Working,
                Inv, LoopsOK
  <2>2. s \in open'
    BY <1>0, <1>1, <2>1, LossIsBusy DEF CanExec
  <2>3. UNCHANGED <<loop, stopping, open>>
    BY <1>1, <2>2 DEF Execute, Begin, Insert, Commit, Undo, HandleError, RecordError, Unlock,
          Rollback, BeginTx, InsertEvent, CommitTx, RollbackTx, UnlockThread, EndSessions
  <2> QED  BY <2>3
<1>2. ASSUME NEW s \in Sessions, LoopStep(s),
             loop[s] = "connect" /\ s \notin open' => Fails(s)
      PROVE  Awake' /\ open \subseteq open'
  <2>1. CASE ConnectHandler(s)
    <3>1. ~Exit(ProcessOf[s])
      BY <1>11, <1>2, <2>1 DEF Exit, EndSessions, SessionsOf, ConnectHandler
    <3> QED  BY <1>0, <2>1, <3>1 DEF ConnectHandler, Connect, TypeOK
  <2>2. CASE Run(s)
    <3>1. CanExec(s)
      BY <1>0, <2>2 DEF Run, CanExec
    <3>2. loop' = [loop EXCEPT ![s] = "batch"] /\ UNCHANGED <<stopping, open>>
      BY <2>2, <3>1 DEF Run, LockThreads
    <3> QED  BY <1>0, <3>1, <3>2 DEF CanExec, TypeOK
  <2>3. CASE BatchDone(s)
    BY <1>0, <2>3 DEF BatchDone, TypeOK
  <2>4. CASE HandlerReturns(s)
    BY <1>0, <2>4 DEF HandlerReturns
  <2> QED  BY <1>2, <2>1, <2>2, <2>3, <2>4 DEF LoopStep
<1>3. ASSUME NEW s \in Sessions, Conduct(s) PROVE Awake' /\ open \subseteq open'
  <2>1. \/ \E a \in Actions : Execute(s, a) /\ (ConnBusy(s, a) => Goes(TRUE))
        \/ LoopStep(s) /\ (loop[s] = "connect" /\ s \notin open' => Fails(s))
    BY <1>3, Zenon DEF Conduct
  <2>2. ASSUME NEW a \in Actions, Execute(s, a), ConnBusy(s, a) => Goes(TRUE)
        PROVE  ~ConnBusy(s, a)
    BY <1>10, <2>2, Zenon
  <2> QED  BY <1>1, <1>2, <2>1, <2>2, Zenon
<1>4. ASSUME NEW s \in Sessions, Wake(s) PROVE Awake' /\ open \subseteq open'
  BY <1>4 DEF Wake, NotifyNow
<1>5. ASSUME NEW p \in Processes, Restart(p) PROVE Awake' /\ open \subseteq open'
  BY <1>5 DEF Restart, Launch
<1>6. ASSUME NEW a \in Actions, Due(a) PROVE Awake' /\ open \subseteq open'
  BY <1>6 DEF Due, Elapse, BackoffElapses
<1> QED  BY <1>0, <1>3, <1>4, <1>5, <1>6 DEF Own

\* Before a backoff is recorded its action was open, or it is a workflow's and
\* something has gone wrong.
LEMMA BackoffIsOpen ==
    ASSUME StoredOK, OpenOK, NEW s \in open, s \in Sessions, NEW a \in Actions \ crossed,
           pc[s][a] = "backoff"
    PROVE  status[a] \in OpenStates \/ (a \in Argo /\ faults > 0)
BY DEF StoredOK, OpenOK, Undecided, Steps, AfterHandling

LEMMA SettledOwn ==
    ASSUME Inv, SharedInv, Tracked, OutsideOK, SettledInv, Own, Inv'
    PROVE  SettledInv'
<1>1. StepsKept /\ CommitsKept /\ StatusesKept
  BY OwnStep, OthersKeep, ExecuteKeeps DEF Kept
<1>2. /\ UNCHANGED <<params, cluster>> /\ faults' >= faults /\ faults \in Nat /\ faults' \in Nat
      /\ faults' = 0 => faults = 0
      /\ crossed \subseteq crossed'
  BY OwnStep, FaultsGrow DEF Remembers, OutsideOK, Tracked
<1>3. open \subseteq Sessions /\ open' \subseteq Sessions
  BY DEF Inv, TypeOK, DBTypeOK
<1>4. StoredOK'
  BY <1>1, <1>2 DEF SettledInv, StoredOK, StepsKept, Verdicts, CallbackActions
<1>5. OpenOK'
  <2> SUFFICES ASSUME NEW s \in open', NEW a \in Actions \ crossed', pc'[s][a] \in Undecided
               PROVE  \/ status'[a] \in OpenStates
                      \/ a \in CallbackActions /\ params'[a] = "failed"
                      \/ a \in Argo /\ faults' > 0
    BY DEF OpenOK
  <2>1. s \in Sessions /\ s \in open
    BY <1>1, <1>3 DEF StepsKept, Undecided
  <2>2. status'[a] = status[a]
    <3> SUFFICES ASSUME NEW t \in open \cap open', pc'[t][a] = "unlock" PROVE FALSE
      BY <1>1 DEF StatusesKept
    <3>1. lock'[a] = s /\ lock'[a] = t
      BY DEF Inv, AttemptsOK, Working, Undecided
    <3> QED  BY <3>1 DEF Undecided
  <2>3. pc[s][a] \in Undecided \/ status[a] \in OpenStates
    BY <1>1, <2>1 DEF StepsKept
  <2> QED  BY <1>2, <2>1, <2>2, <2>3 DEF SettledInv, OpenOK
<1>6. CalmOK'
  <2> SUFFICES ASSUME faults' = 0 PROVE CalmOK'
    BY DEF CalmOK
  <2>1. faults = 0 /\ Awake /\ Awake' /\ open \subseteq open'
    BY <1>2, CalmStep DEF SettledInv, CalmOK
  <2> SUFFICES ASSUME NEW a \in Argo \ crossed', cluster'[a] # "absent"
               PROVE  status'[a] \notin OpenStates \/ \E s \in open' : pc'[s][a] = "commit"
    BY <2>1 DEF CalmOK
  <2>2. a \in Actions \ crossed /\ a \in Actions \ crossed'
    BY <1>2 DEF Argo
  <2>3. CASE status[a] \notin OpenStates
    <3> SUFFICES ASSUME status'[a] \in OpenStates PROVE FALSE
      BY <2>3
    <3>1. PICK s \in open : pc[s][a] = "backoff"
      BY <1>1, <2>2, <2>3 DEF StatusesKept, SuccessEvent, OpenStates
    <3> QED  BY <1>3, <2>1, <2>2, <2>3, <3>1, BackoffIsOpen DEF SettledInv
  <2>4. ASSUME NEW s \in open, pc[s][a] = "commit"
        PROVE  status'[a] \notin OpenStates \/ pc'[s][a] = "commit"
    BY <1>1, <1>3, <2>1, <2>2, <2>4 DEF CommitsKept, OpenStates, DoneStates
  <2> QED  BY <1>2, <2>1, <2>2, <2>3, <2>4 DEF SettledInv, CalmOK
<1> QED  BY <1>4, <1>5, <1>6 DEF SettledInv

LEMMA SettledCaboose ==
    ASSUME Inv, SharedInv, Tracked, OutsideOK, SettledInv, CabooseStep
    PROVE  /\ SettledInv'
           /\ \A a \in Actions : status[a] \notin OpenStates => status'[a] \notin OpenStates
<1>1. /\ UNCHANGED <<loop, pc, open, stopping>> /\ open \subseteq Sessions
      /\ faults' >= faults /\ faults \in Nat /\ faults' \in Nat
      /\ crossed \subseteq crossed'
  BY CabooseSteps, FaultsGrow DEF Remembers, OutsideOK, Inv, TypeOK, DBTypeOK, Tracked
<1>2. ASSUME NEW a \in CallbackActions
      PROVE  /\ params[a] = "stored" => params'[a] = "stored"
             /\ params[a] = "failed" => params'[a] = "failed"
             /\ status'[a] = status[a] \/ (params'[a] = "failed" /\ status'[a] = "FAILED")
  BY CabooseSteps
<1>3. ASSUME NEW a \in Argo, status'[a] # status[a]
      PROVE  /\ status'[a] \notin OpenStates
             /\ a \notin crossed => \A s \in open : pc[s][a] \in Undecided => faults > 0
  <2>1. /\ cluster[a] # "absent" /\ status'[a] \in DoneStates \cup {"FAILED"}
        /\ \A s \in Sessions : events[s][a] = NoEvent
    BY <1>3, CabooseSteps
  <2>2. ASSUME a \notin crossed, NEW s \in open, pc[s][a] \in Undecided, faults = 0 PROVE FALSE
    <3>1. a \in Actions \ crossed /\ a \in Argo \ crossed /\ a \notin CallbackActions
      BY <2>2 DEF Argo, CallbackActions
    <3>2. status[a] \in OpenStates
      BY <2>2, <3>1 DEF SettledInv, OpenOK
    <3>3. PICK t \in open : pc[t][a] = "commit"
      BY <2>1, <2>2, <3>1, <3>2 DEF SettledInv, CalmOK
    <3>4. events[t][a] = SuccessEvent(a)
      BY <1>1, <3>1, <3>3 DEF SharedInv, EventsOK, Inserted
    <3> QED  BY <1>1, <2>1, <3>4, NoEventAssumption DEF SuccessEvent, Statuses, DoneStates
  <2> QED  BY <1>1, <2>1, <2>2 DEF OpenStates, DoneStates
<1>4. StoredOK'
  BY <1>1, <1>2 DEF SettledInv, StoredOK
<1>5. OpenOK'
  <2> SUFFICES ASSUME NEW s \in open, NEW a \in Actions \ crossed', pc[s][a] \in Undecided
               PROVE  \/ status'[a] \in OpenStates
                      \/ a \in CallbackActions /\ params'[a] = "failed"
                      \/ a \in Argo /\ faults' > 0
    BY <1>1 DEF OpenOK
  <2>0. a \in Actions \ crossed
    BY <1>1
  <2>1. CASE a \in CallbackActions
    BY <1>2, <2>0, <2>1 DEF SettledInv, OpenOK, CallbackActions, Argo
  <2>2. CASE a \in Argo
    BY <1>1, <1>3, <2>0, <2>2 DEF SettledInv, OpenOK, CallbackActions, Argo
  <2> QED  BY <2>1, <2>2 DEF CallbackActions, Argo
<1>6. CalmOK'
  <2> SUFFICES ASSUME faults' = 0, NEW a \in Argo \ crossed', cluster'[a] # "absent"
               PROVE  /\ Awake
                      /\ status'[a] \notin OpenStates \/ \E s \in open : pc[s][a] = "commit"
    BY <1>1 DEF CalmOK, Awake, SettledInv
  <2>1. status'[a] = status[a] => cluster[a] # "absent"
    BY CabooseSteps
  <2> QED  BY <1>1, <1>3, <2>1 DEF SettledInv, CalmOK
<1>7. ASSUME NEW a \in Actions, status[a] \notin OpenStates PROVE status'[a] \notin OpenStates
  BY <1>2, <1>3, <1>7 DEF OpenStates, CallbackActions, Argo
<1> QED  BY <1>4, <1>5, <1>6, <1>7 DEF SettledInv

LEMMA SettledCall ==
    ASSUME Inv, Tracked, OutsideOK, SettledInv,
           NEW s \in Sessions, NEW a \in Actions, CallHandler(s, a)
    PROVE  SettledInv' /\ UNCHANGED status
<1>1. PICK next \in Verdicts :
        /\ Goto(s, a, next) /\ Remembers /\ OutsideOK'
        /\ a \in CallbackActions /\ next # "rollbackFatal" => params[a] = "stored"
        /\ \A b \in Argo : cluster'[b] # "absent" /\ faults' = 0 =>
             cluster[b] # "absent" \/ (b = a /\ next = "commit") \/ Stopped(s)
  <2>1. CASE a \in Argo
    <3>1. a \notin CallbackActions
      BY <2>1 DEF Argo, CallbackActions
    <3> QED  BY <2>1, <3>1, ArgoCall DEF CallHandler
  <2>2. CASE a \notin Argo
    <3>1. a \in CallbackActions
      BY <2>2 DEF Argo, CallbackActions
    <3> QED  BY <2>2, <3>1, CallbackCall DEF CallHandler
  <2> QED  BY <2>1, <2>2
<1>2. /\ UNCHANGED <<status, params, open, loop, stopping>>
      /\ \A t \in Sessions, b \in Actions :
           pc'[t][b] = IF t = s /\ b = a THEN next ELSE pc[t][b]
      /\ pc[s][a] = "handle"
  BY <1>1, CallMoves
<1>3. /\ open \subseteq Sessions /\ faults' >= faults /\ faults \in Nat /\ faults' \in Nat
      /\ crossed \subseteq crossed'
  BY <1>1 DEF Remembers, OutsideOK, Inv, TypeOK, DBTypeOK, Tracked
<1>4. StoredOK'
  BY <1>1, <1>2 DEF SettledInv, StoredOK, Verdicts, CallbackActions
<1>5. OpenOK'
  <2> SUFFICES ASSUME NEW t \in open, NEW b \in Actions \ crossed', pc'[t][b] \in Undecided
               PROVE  \/ status[b] \in OpenStates
                      \/ b \in CallbackActions /\ params[b] = "failed"
                      \/ b \in Argo /\ faults > 0
    BY <1>2, <1>3 DEF OpenOK
  <2>1. pc[t][b] \in Undecided
    BY <1>2, <1>3 DEF Undecided, Steps, Windows
  <2> QED  BY <1>3, <2>1 DEF SettledInv, OpenOK
<1>6. CalmOK'
  <2> SUFFICES ASSUME faults' = 0 PROVE CalmOK'
    BY DEF CalmOK
  <2>1. faults = 0 /\ Awake
    BY <1>3 DEF SettledInv, CalmOK
  <2> SUFFICES ASSUME NEW b \in Argo \ crossed', cluster'[b] # "absent"
               PROVE  status[b] \notin OpenStates \/ \E t \in open : pc'[t][b] = "commit"
    BY <1>2, <2>1 DEF CalmOK, Awake
  <2> b \in Actions /\ b \in Argo \ crossed
    BY <1>3 DEF Argo
  <2>2. s \in open /\ ~Stopped(s)
    <3>1. loop[s] = "batch"
      BY <1>2 DEF Inv, LoopsOK, Working
    <3> QED  BY <2>1, <3>1 DEF Awake, Stopped
  <2>3. CASE cluster[b] # "absent"
    <3>1. ASSUME NEW t \in open, pc[t][b] = "commit" PROVE pc'[t][b] = "commit"
      BY <1>2, <1>3, <2>1, <3>1
    <3> QED  BY <2>1, <2>3, <3>1 DEF SettledInv, CalmOK
  <2>4. CASE b = a /\ next = "commit"
    BY <1>2, <2>1, <2>2, <2>4
  <2> QED  BY <1>1, <2>1, <2>2, <2>3, <2>4
<1> QED  BY <1>2, <1>4, <1>5, <1>6 DEF SettledInv

\* Of the actions that nobody crossed, what is settled stays settled: a callback
\* always, and a workflow as long as nothing goes wrong.
THEOREM SettledAreKept == ClientsSpec => SettledStays
<1>1. ClientsInit => SettledInv
  BY DEF ClientsInit, SharedInit, Init, DBInit, NoGoroutines, SettledInv, StoredOK, OpenOK, CalmOK,
         Awake, CallbackActions, Argo
<1> DEFINE Stays ==
      \A a \in Actions \ crossed' :
         status[a] \notin OpenStates /\ status'[a] \in OpenStates => a \in Argo /\ faults > 0
<1>2. ASSUME Inv, SharedInv, OutsideOK, SettledInv,
             [ClientsNext /\ Track]_<<clientVars, crossed, stuck>>
      PROVE  SettledInv' /\ Stays
  <2>0. Inv' /\ Tracked
    BY <1>2, ClientsNextInv
  <2>1. CASE UNCHANGED <<clientVars, crossed, stuck>>
    BY <1>2, <2>1 DEF clientVars, outsideVars, vars, SettledInv, StoredOK, OpenOK, CalmOK, Awake
  <2>2. CASE Own
    <3>1. StatusesKept
      BY <1>2, <2>0, <2>2, OwnStep, OthersKeep, ExecuteKeeps DEF Kept
    <3>2. ASSUME NEW a \in Actions \ crossed', status[a] \notin OpenStates, status'[a] \in OpenStates
          PROVE  a \in Argo /\ faults > 0
      <4>1. PICK s \in open : pc[s][a] = "backoff"
        BY <3>1, <3>2 DEF StatusesKept, SuccessEvent, OpenStates
      <4>2. s \in Sessions /\ a \in Actions \ crossed
        BY <1>2, <2>0 DEF Tracked, Inv, TypeOK, DBTypeOK
      <4> QED  BY <1>2, <3>2, <4>1, <4>2, BackoffIsOpen DEF SettledInv
    <3> QED  BY <1>2, <2>0, <2>2, <3>2, SettledOwn
  <2>3. CASE CabooseStep
    BY <1>2, <2>0, <2>3, SettledCaboose
  <2>4. ASSUME NEW s \in Sessions, NEW a \in Actions, CallHandler(s, a)
        PROVE  SettledInv' /\ Stays
    BY <1>2, <2>0, <2>4, SettledCall
  <2> QED  BY <1>2, <2>1, <2>2, <2>3, <2>4, ThreeKinds
<1>3. Inv /\ SharedInv /\ OutsideOK /\ SettledInv
      /\ [ClientsNext /\ Track]_<<clientVars, crossed, stuck>>
      => SettledInv' /\ [Stays]_clientVars
  BY <1>2
<1> QED  BY <1>1, <1>3, ClientsInvariance, PTL DEF ClientsSpec, SettledStays
-----------------------------------------------------------------------------
(* An action is answered once.                                              *)

\* The attempt is decided, for good, and has to be recorded ...
Settling == {"commit", "rollbackFatal", "failed"}

\* ... or it may still lead to a call or to another attempt.
Trying == Undecided \ Settling

\* A loop whose session is lost takes its process with it as soon as it looks.
Lost(s) == loop[s] \in {"wait", "batch"} /\ s \notin open
MateLost(s) == \E t \in SessionsOf(ProcessOf[s]) : Lost(t)
Doomed(s) == Stopped(s) \/ MateLost(s)

\* Nothing more can be heard of a, or what was heard will surely be recorded.
Closed(a) == status[a] \notin OpenStates /\ \A s \in open : pc[s][a] \notin Trying
Sure(a) == \E s \in open : ~Doomed(s) /\ pc[s][a] \in Settling
Rest(a) == IF Closed(a) \/ Sure(a) THEN 0 ELSE 1

\* The answers to come that are paid for: of the calls that can no longer be
\* recorded, and of the loops whose process is about to panic.
Late(a) == {s \in Sessions : pc[s][a] = "handle" /\ (s \notin open \/ Stopped(s))}
Vain(a) ==
    {s \in Sessions : /\ ~Closed(a)
                      /\ ~Stopped(s) /\ MateLost(s)
                      /\ s \in open \/ loop[s] = "connect"
                      /\ a \in Serves[s] /\ pc[s][a] \notin Settling}
Extra(a) == Late(a) \cup Vain(a)

LedgerOf(a) ==
    /\ IsFiniteSet(Extra(a))
    /\ Len(answers[a]) + Rest(a) + Cardinality(Extra(a)) <= 1 + faults

ServesOK == \A s \in Sessions, a \in Actions : Working(s, a) => a \in Serves[s]

LedgerInv == ServesOK /\ \A a \in Actions \ crossed : LedgerOf(a)

\* An answer more, a session more that may answer in vain, or the need to ask
\* again: each has its price, and nothing else changes the balance.
Balanced(a) ==
    /\ Len(answers'[a]) <= Len(answers[a]) + 1
    /\ faults' >= faults
    /\ \/ /\ answers'[a] = answers[a]
          /\ Extra(a)' \subseteq Extra(a) /\ Rest(a)' <= Rest(a)
       \/ /\ answers'[a] = answers[a]
          /\ faults' = faults + 1 /\ Extra(a)' \subseteq Extra(a)
       \/ /\ answers'[a] = answers[a]
          /\ faults' = faults + 1 /\ Rest(a)' <= Rest(a)
          /\ \E s : Extra(a)' \subseteq Extra(a) \cup {s}
       \/ /\ \E s \in Extra(a) : Extra(a)' \subseteq Extra(a) \ {s}
          /\ Rest(a)' <= Rest(a)
       \/ /\ Extra(a)' \subseteq Extra(a)
          /\ Rest(a) = 1 /\ Rest(a)' = 0
       \/ /\ Extra(a)' \subseteq Extra(a) /\ Rest(a)' <= Rest(a)
          /\ faults' = faults + 1

\* A set that loses or gains a member at most.
LEMMA CountMoves ==
    ASSUME NEW S, IsFiniteSet(S), NEW T
    PROVE  /\ Cardinality(S) \in Nat
           /\ T \subseteq S => IsFiniteSet(T) /\ Cardinality(T) <= Cardinality(S)
                               /\ Cardinality(T) \in Nat
           /\ \A x : T \subseteq S \cup {x} =>
                IsFiniteSet(T) /\ Cardinality(T) <= Cardinality(S) + 1 /\ Cardinality(T) \in Nat
           /\ \A x \in S : T \subseteq S \ {x} =>
                IsFiniteSet(T) /\ Cardinality(T) <= Cardinality(S) - 1 /\ Cardinality(T) \in Nat
<1>1. Cardinality(S) \in Nat
  BY FS_CardinalityType
<1>2. ASSUME NEW U, IsFiniteSet(U), T \subseteq U
      PROVE  IsFiniteSet(T) /\ Cardinality(T) <= Cardinality(U) /\ Cardinality(T) \in Nat
  BY <1>2, FS_Subset, FS_CardinalityType
<1>3. ASSUME NEW x, T \subseteq S \cup {x}
      PROVE  IsFiniteSet(T) /\ Cardinality(T) <= Cardinality(S) + 1 /\ Cardinality(T) \in Nat
  <2>1. /\ IsFiniteSet(S \cup {x}) /\ Cardinality(S \cup {x}) \in Nat
        /\ Cardinality(S \cup {x}) <= Cardinality(S) + 1
    BY <1>1, FS_AddElement, FS_CardinalityType
  <2> QED  BY <1>1, <1>2, <1>3, <2>1
<1>4. ASSUME NEW x \in S, T \subseteq S \ {x}
      PROVE  IsFiniteSet(T) /\ Cardinality(T) <= Cardinality(S) - 1 /\ Cardinality(T) \in Nat
  <2>1. /\ IsFiniteSet(S \ {x}) /\ Cardinality(S \ {x}) \in Nat
        /\ Cardinality(S \ {x}) = Cardinality(S) - 1
    BY <1>1, FS_RemoveElement, FS_CardinalityType
  <2> QED  BY <1>1, <1>2, <1>4, <2>1
<1> QED  BY <1>1, <1>2, <1>3, <1>4

LEMMA LedgerKept ==
    ASSUME OutsideOK, OutsideOK', NEW a \in Actions, LedgerOf(a), Balanced(a)
    PROVE  LedgerOf(a)'
<1> DEFINE heard == Len(answers[a])
           heardNext == Len(answers'[a])
           extra == Cardinality(Extra(a))
           extraNext == Cardinality(Extra(a)')
           Fewer(k) == IsFiniteSet(Extra(a)') /\ extraNext \in Nat /\ extraNext + k <= extra
<1>1. /\ heard \in Nat /\ heardNext \in Nat /\ faults \in Nat /\ faults' \in Nat
      /\ heardNext <= heard + 1 /\ faults' >= faults
      /\ answers'[a] = answers[a] => heardNext = heard
  BY FaultsGrow DEF OutsideOK, Balanced
<1>2. Rest(a) \in {0, 1} /\ Rest(a)' \in {0, 1}
  BY DEF Rest
<1>3. /\ IsFiniteSet(Extra(a)) /\ extra \in Nat
      /\ heard + Rest(a) + extra <= 1 + faults
  BY CountMoves DEF LedgerOf
<1> HIDE DEF Extra, Rest, heard, heardNext
<1>4. /\ Extra(a)' \subseteq Extra(a) => Fewer(0)
      /\ (\E s : Extra(a)' \subseteq Extra(a) \cup {s}) => Fewer(-1)
      /\ (\E s \in Extra(a) : Extra(a)' \subseteq Extra(a) \ {s}) => Fewer(1)
  <2>1. \A T : T \subseteq Extra(a) =>
           IsFiniteSet(T) /\ Cardinality(T) \in Nat /\ Cardinality(T) <= extra
    BY <1>3, CountMoves
  <2>2. \A T, s : T \subseteq Extra(a) \cup {s} =>
           IsFiniteSet(T) /\ Cardinality(T) \in Nat /\ Cardinality(T) <= extra + 1
    BY <1>3, CountMoves
  <2>3. \A T : \A s \in Extra(a) : T \subseteq Extra(a) \ {s} =>
           IsFiniteSet(T) /\ Cardinality(T) \in Nat /\ Cardinality(T) <= extra - 1
    BY <1>3, CountMoves
  <2>4. extra \in Nat
    BY <1>3
  <2> HIDE DEF extra
  <2> QED  BY <2>1, <2>2, <2>3, <2>4
<1>5. ASSUME IsFiniteSet(Extra(a)'), heardNext + Rest(a)' + extraNext <= 1 + faults'
      PROVE  LedgerOf(a)'
  BY <1>5 DEF LedgerOf, heardNext
<1> HIDE DEF extra, extraNext
<1>6. CASE /\ answers'[a] = answers[a]
           /\ Extra(a)' \subseteq Extra(a) /\ Rest(a)' <= Rest(a)
  <2>1. Fewer(0) /\ heardNext = heard
    BY <1>1, <1>4, <1>6
  <2> QED  BY <1>1, <1>2, <1>3, <1>5, <1>6, <2>1
<1>7. CASE /\ answers'[a] = answers[a]
           /\ faults' = faults + 1 /\ Extra(a)' \subseteq Extra(a)
  <2>1. Fewer(0) /\ heardNext = heard
    BY <1>1, <1>4, <1>7
  <2> QED  BY <1>1, <1>2, <1>3, <1>5, <1>7, <2>1
<1>8. CASE /\ answers'[a] = answers[a]
           /\ faults' = faults + 1 /\ Rest(a)' <= Rest(a)
           /\ \E s : Extra(a)' \subseteq Extra(a) \cup {s}
  <2>1. Fewer(-1) /\ heardNext = heard /\ faults' = faults + 1 /\ Rest(a)' <= Rest(a)
    BY <1>1, <1>4, <1>8
  <2> QED  BY <1>1, <1>2, <1>3, <1>5, <2>1
<1>9. CASE /\ \E s \in Extra(a) : Extra(a)' \subseteq Extra(a) \ {s}
           /\ Rest(a)' <= Rest(a)
  <2>1. Fewer(1) /\ Rest(a)' <= Rest(a)
    BY <1>4, <1>9
  <2>2. heardNext + Rest(a)' + extraNext <= (heard + 1) + Rest(a) + (extra - 1)
    BY <1>1, <1>2, <1>3, <2>1
  <2>3. heardNext + Rest(a)' + extraNext <= 1 + faults'
    BY <1>1, <1>2, <1>3, <2>1, <2>2
  <2> QED  BY <1>5, <2>1, <2>3
<1>10. CASE Extra(a)' \subseteq Extra(a) /\ Rest(a) = 1 /\ Rest(a)' = 0
  <2>1. Fewer(0) /\ Rest(a)' = 0
    BY <1>4, <1>10
  <2>2. heard + extra <= faults
    BY <1>1, <1>3, <1>10
  <2>3. extra \in Nat
    BY <1>3
  <2>4. heardNext + 0 + extraNext <= 1 + faults'
    BY <1>1, <2>1, <2>2, <2>3
  <2> QED  BY <1>5, <2>1, <2>4
<1>11. CASE /\ Extra(a)' \subseteq Extra(a) /\ Rest(a)' <= Rest(a)
            /\ faults' = faults + 1
  <2>1. Fewer(0) /\ Rest(a)' <= Rest(a) /\ faults' = faults + 1
    BY <1>4, <1>11
  <2>2. heardNext + Rest(a)' + extraNext <= (heard + 1) + Rest(a) + extra
    BY <1>1, <1>2, <1>3, <2>1
  <2>3. heardNext + Rest(a)' + extraNext <= 1 + faults'
    BY <1>1, <1>2, <1>3, <2>1, <2>2
  <2> QED  BY <1>5, <2>1, <2>3
<1> QED  BY <1>6, <1>7, <1>8, <1>9, <1>10, <1>11 DEF Balanced

\* What a statement of a goroutine does to its attempt and to its session.
LEMMA ExecuteMoves ==
    ASSUME Inv, SharedInv, Tracked, NEW s \in Sessions, NEW a \in Actions, Execute(s, a)
    PROVE  /\ Working(s, a) /\ pc[s][a] # "handle" /\ UNCHANGED <<loop, stopping>>
           /\ open' = open \/ (open' = open \ {s} /\ UNCHANGED status /\ pc'[s][a] = "unlock")
           /\ \E step \in Steps :
                /\ \A t \in Sessions, b \in Actions :
                     pc'[t][b] = IF t = s /\ b = a THEN step ELSE pc[t][b]
                /\ step = "handle" => CanExec(s) /\ s \in open'
                /\ step \in Trying => pc[s][a] \in Trying
                /\ pc[s][a] \in Settling /\ CanExec(s) /\ a \notin crossed' =>
                     \/ s \notin open'
                     \/ step \in Settling
                     \/ step = "unlock" /\ status'[a] \notin OpenStates
                     \/ pc[s][a] = "failed" /\ step = "unlock" /\ UNCHANGED status /\ ConnBusy(s, a)
<1> DEFINE Moved(step) ==
      /\ Goto(s, a, step)
      /\ open' = open \/ (open' = open \ {s} /\ UNCHANGED status /\ step = "unlock")
      /\ step = "handle" => CanExec(s) /\ s \in open'
      /\ step \in Trying => pc[s][a] \in Trying
      /\ pc[s][a] \in Settling /\ CanExec(s) /\ a \notin crossed' =>
           \/ s \notin open'
           \/ step \in Settling
           \/ step = "unlock" /\ status'[a] \notin OpenStates
           \/ pc[s][a] = "failed" /\ step = "unlock" /\ UNCHANGED status /\ ConnBusy(s, a)
<1> USE DEF Settling, Trying, Undecided, Steps, Windows, AfterHandling
<1>0. Working(s, a) /\ pc[s][a] # "handle" /\ UNCHANGED <<loop, stopping>>
  BY DEF Execute, Begin, Insert, Commit, Undo, HandleError, Rollback, RecordError, Unlock, Working
<1>1. crossed \subseteq crossed' /\ pc \in [Sessions -> [Actions -> Steps]]
  BY DEF Tracked, Inv, TypeOK
<1>2. ASSUME Begin(s, a) PROVE \E step \in Steps : Moved(step)
  <2>1. Moved("insert") \/ Moved("unlock")
    BY <1>2 DEF Begin, BeginTx, EndSessions
  <2> QED  BY <2>1
<1>3. ASSUME Insert(s, a) PROVE \E step \in Steps : Moved(step)
  <2>1. Moved("handle") \/ Moved("undo")
    BY <1>3 DEF Insert, InsertEvent, CanExec
  <2> QED  BY <2>1
<1>4. ASSUME Commit(s, a) PROVE \E step \in Steps : Moved(step)
  <2>1. CASE CanExec(s) /\ CommitTx(s)
    <3>1. a \notin crossed => status'[a] = SuccessEvent(a)
      BY <1>0, <1>4, <2>1, AtWork, NoEventAssumption
      DEF Commit, CommitTx, CanExec, Inserted, SuccessEvent, DoneStates, Statuses
    <3>2. SuccessEvent(a) \notin OpenStates
      BY DEF SuccessEvent, OpenStates
    <3>3. Moved("unlock")
      BY <1>1, <1>4, <2>1, <3>1, <3>2 DEF Commit, CommitTx
    <3> QED  BY <3>3
  <2>2. CASE EndSessions({s})
    <3>1. Moved("unlock")
      BY <1>4, <2>2 DEF Commit, EndSessions
    <3> QED  BY <3>1
  <2>3. CASE s \notin inTx /\ UNCHANGED dbVars
    <3>1. a \in crossed \/ s \notin open
      BY <1>0, <1>4, <2>3, AtWork DEF Commit
    <3>2. Moved("unlock")
      BY <1>1, <1>4, <2>3, <3>1 DEF Commit, CanExec
    <3> QED  BY <3>2
  <2> QED  BY <1>4, <2>1, <2>2, <2>3 DEF Commit
<1>5. ASSUME Undo(s, a) PROVE \E step \in Steps : Moved(step)
  <2>1. Moved("unlock")
    BY <1>5 DEF Undo, Rollback, RollbackTx, EndSessions
  <2> QED  BY <2>1
<1>6. ASSUME HandleError(s, a) PROVE \E step \in Steps : Moved(step)
  <2>1. Moved("backoff") \/ Moved("failed") \/ Moved("unlock")
    BY <1>6 DEF HandleError, Rollback, RollbackTx, EndSessions
  <2> QED  BY <2>1
<1>7. ASSUME RecordError(s, a) PROVE \E step \in Steps : Moved(step)
  <2>0. Goto(s, a, "unlock") /\ pc'[s][a] = "unlock" /\ pc[s][a] \in {"backoff", "failed"}
    BY <1>1, <1>7 DEF RecordError, Goto
  <2>1. CASE CanExec(s) /\ InsertEvent(s, a, ErrorEvent(s, a)) /\ s \in inTx
    <3>1. ErrorAstray(s, a)
      BY <1>1, <2>0, <2>1 DEF InsertEvent, CanExec, ErrorAstray, ErrorRecorded, Inv, TypeOK, DBTypeOK
    <3>2. Moved("unlock")
      BY <2>0, <2>1, <3>1 DEF InsertEvent, Tracked
    <3> QED  BY <3>2
  <2>2. CASE CanExec(s) /\ InsertEvent(s, a, ErrorEvent(s, a)) /\ s \notin inTx
    <3>1. pc[s][a] = "failed" => status'[a] = "FAILED"
      BY <2>2 DEF InsertEvent, ErrorEvent, Inv, TypeOK, DBTypeOK
    <3>2. Moved("unlock")
      BY <2>0, <2>2, <3>1 DEF InsertEvent, OpenStates
    <3> QED  BY <3>2
  <2>3. CASE CanFail(s, a) /\ UNCHANGED dbVars
    <3>1. ASSUME pc[s][a] = "failed", CanExec(s), a \notin crossed', ~ConnBusy(s, a)
          PROVE  status'[a] \notin OpenStates
      <4>1. ErrorRecorded(s, a)
        BY <2>3, <3>1 DEF ConnBusy, CanFail
      <4>2. s \notin inTx
        <5> SUFFICES ASSUME s \in inTx PROVE FALSE
          OBVIOUS
        <5>1. ErrorAstray(s, a)
          BY <2>0, <2>3, <3>1, <4>1 DEF ErrorAstray, CanExec
        <5> QED  BY <3>1, <5>1 DEF Tracked
      <4> QED  BY <3>1, <4>1, <4>2 DEF ErrorRecorded, ErrorEvent, OpenStates
    <3>2. Moved("unlock")
      BY <2>0, <2>3, <3>1
    <3> QED  BY <3>2
  <2> QED  BY <1>7, <2>1, <2>2, <2>3 DEF RecordError
<1>8. ASSUME Unlock(s, a) PROVE \E step \in Steps : Moved(step)
  <2>1. Moved("none")
    BY <1>8 DEF Unlock, UnlockThread
  <2> QED  BY <2>1
<1>9. \E step \in Steps : Moved(step)
  BY <1>2, <1>3, <1>4, <1>5, <1>6, <1>7, <1>8 DEF Execute
<1>10. ASSUME NEW step \in Steps, Goto(s, a, step)
       PROVE  \A t \in Sessions, b \in Actions :
                 pc'[t][b] = IF t = s /\ b = a THEN step ELSE pc[t][b]
  BY <1>1, <1>10 DEF Goto
<1> HIDE DEF Settling, Trying, Undecided, Steps, Windows, AfterHandling
<1> QED  BY <1>0, <1>9, <1>10

\* The loops of a process that has just been launched.
Fresh(s) == \A t \in SessionsOf(ProcessOf[s]) : loop[t] = "connect"

\* What a step of the conductor by which nothing goes wrong does to sessions,
\* loops and attempts.
Orderly(a) ==
    /\ \A s \in Sessions :
         /\ s \in open' => s \in open \/ loop[s] = "connect"
         /\ loop'[s] = "connect" => loop[s] = "connect" \/ Fresh(s)'
         /\ Lost(s)' => Lost(s) \/ Stopped(s)'
         /\ Stopped(s)' => Stopped(s)
         /\ Stopped(s) => Stopped(s)' \/ loop'[s] = "down" \/ Fresh(s)'
    /\ \A s \in Sessions :
         /\ pc'[s][a] = "handle" =>
              \/ pc[s][a] = "handle" /\ (s \in open => s \in open' \/ Stopped(s))
              \/ s \in open' /\ ~Stopped(s)'
         /\ s \in open' /\ pc'[s][a] \in Trying =>
              (s \in open /\ pc[s][a] \in Trying) \/ status[a] \in OpenStates
         /\ s \in open /\ ~Stopped(s) /\ pc[s][a] \in Settling =>
              \/ s \in open' /\ pc'[s][a] \in Settling
              \/ /\ status'[a] \notin OpenStates
                 /\ \A t \in open' : pc'[t][a] \notin Trying
              \/ loop'[s] = "down" /\ MateLost(s)

\* The error that handleFn returned for good cannot be recorded.
Unrecorded(s, a) ==
    pc[s][a] = "failed" /\ pc'[s][a] = "unlock" /\ UNCHANGED status /\ ConnBusy(s, a)

\* A goroutine's statement is in order for the other actions, and for its own,
\* unless it costs the session or an answer its record.
LEMMA ExecuteOrderly ==
    ASSUME Inv, SharedInv, Tracked, NEW s \in Sessions, NEW b \in Actions, Execute(s, b)
    PROVE  \A a \in Actions \ crossed' :
              \/ CanExec(s) /\ s \notin open'
              \/ a = b /\ Unrecorded(s, b)
              \/ Orderly(a)
<1>1. PICK step \in Steps :
        /\ \A t \in Sessions, c \in Actions :
             pc'[t][c] = IF t = s /\ c = b THEN step ELSE pc[t][c]
        /\ step = "handle" => CanExec(s) /\ s \in open'
        /\ step \in Trying => pc[s][b] \in Trying
        /\ pc[s][b] \in Settling /\ CanExec(s) /\ b \notin crossed' =>
             \/ s \notin open'
             \/ step \in Settling
             \/ step = "unlock" /\ status'[b] \notin OpenStates
             \/ pc[s][b] = "failed" /\ step = "unlock" /\ UNCHANGED status /\ ConnBusy(s, b)
  BY ExecuteMoves
<1>2. /\ Working(s, b) /\ pc[s][b] # "handle" /\ UNCHANGED <<loop, stopping>>
      /\ open' = open \/ open' = open \ {s}
  BY ExecuteMoves
<1>3. loop[s] = "batch" /\ open \subseteq Sessions
  BY <1>2 DEF Inv, LoopsOK, TypeOK, DBTypeOK
<1>4. \A t \in Sessions, c \in Actions : pc'[t][c] \in Trying => pc[t][c] \in Trying
  BY <1>1
<1> SUFFICES ASSUME NEW a \in Actions \ crossed', CanExec(s) => s \in open',
                    ~(a = b /\ Unrecorded(s, b))
             PROVE  Orderly(a)
  OBVIOUS
<1>5. ASSUME NEW t \in Sessions
      PROVE  /\ t \in open' => t \in open
             /\ Stopped(t)' = Stopped(t) /\ loop'[t] = loop[t]
             /\ Lost(t)' => Lost(t) \/ Stopped(t)'
             /\ t \in open /\ ~Stopped(t) => t \in open'
  BY <1>2, <1>3 DEF Stopped, Lost, CanExec
<1>6. ASSUME NEW t \in Sessions, pc'[t][a] = "handle"
      PROVE  \/ pc[t][a] = "handle" /\ (t \in open => t \in open' \/ Stopped(t))
             \/ t \in open' /\ ~Stopped(t)'
  <2>1. CASE t = s /\ a = b
    BY <1>1, <1>5, <1>6, <2>1 DEF CanExec
  <2>2. CASE ~(t = s /\ a = b)
    BY <1>1, <1>5, <1>6, <2>2
  <2> QED  BY <2>1, <2>2
<1>7. ASSUME NEW t \in Sessions, t \in open, ~Stopped(t), pc[t][a] \in Settling
      PROVE  \/ t \in open' /\ pc'[t][a] \in Settling
             \/ /\ status'[a] \notin OpenStates
                /\ \A u \in open' : pc'[u][a] \notin Trying
  <2>1. CASE ~(t = s /\ a = b)
    BY <1>1, <1>5, <1>7, <2>1
  <2>2. CASE t = s /\ a = b
    <3>1. \/ step \in Settling
          \/ step = "unlock" /\ status'[a] \notin OpenStates
      BY <1>1, <1>7, <2>2 DEF CanExec, Unrecorded
    <3>2. ASSUME NEW u \in open', pc'[u][a] \in Trying PROVE step \in Trying
      <4>1. u \in open /\ u \in Sessions
        BY <1>2, <1>3
      <4>2. CASE u # s
        <5>1. Working(u, a)
          BY <1>1, <3>2, <4>1, <4>2 DEF Working, Trying, Undecided
        <5> QED  BY <1>2, <1>7, <2>2, <4>1, <4>2, <5>1, OneAttempt
      <4> QED  BY <1>1, <2>2, <3>2, <4>1, <4>2
    <3>3. "unlock" \notin Trying
      BY DEF Trying, Undecided
    <3> QED  BY <1>1, <1>5, <1>7, <2>2, <3>1, <3>2, <3>3
  <2> QED  BY <2>1, <2>2
<1> QED  BY <1>4, <1>5, <1>6, <1>7 DEF Orderly

\* A process that exits because a loop has lost its session, or is stopped.
LEMMA ExitOrderly ==
    ASSUME Inv, NEW p \in Processes, Exit(p),
           \A s \in SessionsOf(p) : Stopped(s) \/ MateLost(s)
    PROVE  \A a \in Actions : Orderly(a)
<1> USE DEF SessionsOf
<1>1. ASSUME NEW s \in Sessions, ProcessOf[s] = p
      PROVE  /\ s \notin open' /\ loop'[s] = "down" /\ ~Stopped(s)'
             /\ \A a \in Actions : pc'[s][a] = "none"
  BY <1>1 DEF Exit, EndSessions, Stopped, NoGoroutines
<1>2. ASSUME NEW s \in Sessions, ProcessOf[s] # p
      PROVE  /\ s \in open' <=> s \in open
             /\ loop'[s] = loop[s] /\ Stopped(s)' = Stopped(s) /\ pc'[s] = pc[s]
  BY <1>2 DEF Exit, EndSessions, Stopped
<1>3. ASSUME NEW s \in Sessions
      PROVE  /\ s \in open' => s \in open
             /\ loop'[s] = "connect" => loop[s] = "connect"
             /\ Lost(s)' => Lost(s)
             /\ Stopped(s)' => Stopped(s)
             /\ Stopped(s) => Stopped(s)' \/ loop'[s] = "down"
  BY <1>1, <1>2 DEF Lost
<1>4. ASSUME NEW s \in Sessions, NEW a \in Actions
      PROVE  /\ pc'[s][a] = "handle" => pc[s][a] = "handle" /\ (s \in open => s \in open')
             /\ s \in open' /\ pc'[s][a] \in Trying => s \in open /\ pc[s][a] \in Trying
             /\ s \in open /\ ~Stopped(s) /\ pc[s][a] \in Settling =>
                  \/ s \in open' /\ pc'[s][a] \in Settling
                  \/ loop'[s] = "down" /\ MateLost(s)
  <2>1. CASE ProcessOf[s] = p
    BY <1>1, <2>1 DEF Working
  <2>2. CASE ProcessOf[s] # p
    BY <1>2, <2>2 DEF Working
  <2> QED  BY <2>1, <2>2
<1> QED  BY <1>3, <1>4 DEF Orderly

\* The steps that no goroutine makes, as long as nothing goes wrong.
LEMMA LoopOrderly ==
    ASSUME Inv, NEW s \in Sessions, LoopStep(s),
           loop[s] = "connect" /\ s \notin open' => Stopped(s)
    PROVE  \A a \in Actions : Orderly(a)
<1> USE DEF Inv, TypeOK, DBTypeOK
<1>0. ProcessOf[s] \in Processes /\ s \in SessionsOf(ProcessOf[s])
  BY ConductorAssumption DEF SessionsOf
<1>1. \A t \in SessionsOf(ProcessOf[s]) : Stopped(t) = Stopped(s)
  BY DEF SessionsOf, Stopped
<1>2. Lost(s) => \A t \in SessionsOf(ProcessOf[s]) : MateLost(t)
  BY <1>0 DEF SessionsOf, MateLost
<1>3. CASE ConnectHandler(s)
  <2>1. CASE Exit(ProcessOf[s])
    <3>1. s \notin open'
      BY <2>1 DEF Exit, EndSessions, SessionsOf
    <3> QED  BY <1>0, <1>1, <1>3, <2>1, <3>1, ExitOrderly DEF ConnectHandler
  <2>2. CASE /\ ~Stopped(s) /\ Connect(s)
             /\ loop' = [loop EXCEPT ![s] = "wait"]
             /\ UNCHANGED <<pc, notified, stopping>>
    <3>1. \A a \in Actions : pc[s][a] = "none"
      BY <1>3 DEF ConnectHandler, LoopsOK, Working
    <3>2. UNCHANGED <<pc, status, stopping>> /\ open' = open \cup {s} /\ loop[s] = "connect"
      BY <1>3, <2>2 DEF ConnectHandler, Connect
    <3> QED  BY <2>2, <3>1, <3>2 DEF Orderly, Lost, Stopped, Working, Trying, Undecided, Settling
  <2> QED  BY <1>3, <2>1, <2>2 DEF ConnectHandler
<1>4. CASE Run(s)
  <2>1. CASE Exit(ProcessOf[s])
    <3>1. loop[s] = "wait" /\ ~CanExec(s)
      <4>1. CanExec(s) => UNCHANGED open /\ s \in open
        BY <1>4 DEF Run, LockThreads, CanExec
      <4>2. s \notin open'
        BY <2>1 DEF Exit, EndSessions, SessionsOf
      <4> QED  BY <1>4, <4>1, <4>2 DEF Run
    <3>2. Stopped(s) \/ Lost(s)
      BY <3>1 DEF CanExec, Lost
    <3> QED  BY <1>0, <1>1, <1>2, <2>1, <3>2, ExitOrderly
  <2>2. CASE ~Exit(ProcessOf[s])
    <3> PICK batch \in Batches(s) :
          /\ LockThreads(s, batch)
          /\ pc' = [pc EXCEPT ![s] = [a \in Actions |-> IF a \in batch THEN "begin" ELSE "none"]]
      BY <1>4, <2>2 DEF Run
    <3>1. \A a \in Actions : pc[s][a] = "none"
      BY <1>4 DEF Run, LoopsOK, Working
    <3>2. batch \subseteq Claimable(s, Serves[s])
      BY DEF Batches
    <3>3. \A a \in batch : a \in Serves[s] /\ status[a] \in OpenStates
      BY <3>2 DEF Claimable, Processable, OpenStates
    <3>4. /\ UNCHANGED <<status, open, stopping>> /\ s \in open
          /\ loop' = [loop EXCEPT ![s] = "batch"]
      BY <1>4, <2>2 DEF Run, LockThreads, CanExec
    <3>5. \A t \in Sessions, a \in Actions :
             pc'[t][a] = IF t = s THEN IF a \in batch THEN "begin" ELSE "none" ELSE pc[t][a]
      OBVIOUS
    <3>6. "none" \notin Trying /\ "none" \notin Settling
      BY DEF Trying, Undecided, Settling
    <3> QED  BY <3>1, <3>3, <3>4, <3>5, <3>6 DEF Orderly, Lost, Stopped, Working
  <2> QED  BY <2>1, <2>2
<1>5. CASE BatchDone(s)
  <2>1. UNCHANGED <<pc, status, open, stopping>> /\ loop[s] = "batch"
        /\ loop' = [loop EXCEPT ![s] = "wait"]
    BY <1>5 DEF BatchDone
  <2> QED  BY <2>1 DEF Orderly, Lost, Stopped, Working
<1>6. CASE HandlerReturns(s)
  <2>1. /\ UNCHANGED <<pc, status, stopping>> /\ open' = open \ {s} /\ Stopped(s)
        /\ loop' = [loop EXCEPT ![s] = "down"]
    BY <1>6 DEF HandlerReturns, EndSessions
  <2>2. \A a \in Actions : pc[s][a] = "none"
    BY <1>6 DEF HandlerReturns, LoopsOK, Working
  <2> QED  BY <2>1, <2>2 DEF Orderly, Lost, Stopped, Working
<1> QED  BY <1>3, <1>4, <1>5, <1>6 DEF LoopStep

LEMMA AsideOrderly ==
    ASSUME Inv, \/ \E s \in Sessions : NotifyNow(s)
                \/ \E p \in Processes : Launch(p)
                \/ \E a \in Actions : Elapse(a)
    PROVE  \A a \in Actions : Orderly(a)
<1>1. ASSUME NEW p \in Processes, Launch(p)
      PROVE  \A a \in Actions : Orderly(a)
  <2>1. UNCHANGED <<pc, status, open>> /\ \A s \in SessionsOf(p) : loop[s] = "down"
    BY <1>1 DEF Launch
  <2>2. ASSUME NEW s \in Sessions, ProcessOf[s] = p
        PROVE  Fresh(s)' /\ loop'[s] = "connect" /\ ~Stopped(s)' /\ s \notin open
    BY <1>1, <2>1, <2>2 DEF Launch, SessionsOf, Fresh, Stopped, Inv, LoopsOK
  <2>3. ASSUME NEW s \in Sessions, ProcessOf[s] # p
        PROVE  loop'[s] = loop[s] /\ Stopped(s)' = Stopped(s)
    BY <1>1, <2>3 DEF Launch, Stopped
  <2> QED  BY <2>1, <2>2, <2>3 DEF Orderly, Lost, Working
<1>2. CASE (\E s \in Sessions : NotifyNow(s)) \/ (\E a \in Actions : Elapse(a))
  <2>1. UNCHANGED <<pc, status, open, loop, stopping>>
    BY <1>2 DEF NotifyNow, Elapse, BackoffElapses
  <2> QED  BY <2>1 DEF Orderly, Lost, Stopped, Working
<1> QED  BY <1>1, <1>2

\* As long as nothing goes wrong nothing has to be paid for.
LEMMA OrderlyBalance ==
    ASSUME Inv, Inv', StatusesKept, NEW a \in Actions \ crossed', Orderly(a)
    PROVE  Extra(a)' \subseteq Extra(a) /\ Rest(a)' <= Rest(a)
<1>0. open \subseteq Sessions /\ open' \subseteq Sessions
  BY DEF Inv, TypeOK, DBTypeOK
<1>1. ASSUME Closed(a) PROVE Closed(a)'
  <2>1. status'[a] \notin OpenStates
    <3> SUFFICES ASSUME status'[a] # status[a] PROVE status'[a] \notin OpenStates
      BY <1>1 DEF Closed
    <3>1. \A s \in open : pc[s][a] # "backoff"
      BY <1>1 DEF Closed, Trying, Undecided, Settling, Steps, AfterHandling
    <3> QED  BY <3>1 DEF StatusesKept, SuccessEvent, OpenStates
  <2>2. \A s \in open' : pc'[s][a] \notin Trying
    BY <1>0, <1>1 DEF Closed, Orderly
  <2> QED  BY <2>1, <2>2 DEF Closed
<1>2. ASSUME NEW s \in Sessions, MateLost(s)', ~Stopped(s)' PROVE MateLost(s) /\ ~Fresh(s)'
  <2>1. PICK t \in SessionsOf(ProcessOf[s]) : Lost(t)'
    BY <1>2 DEF MateLost
  <2>2. t \in Sessions /\ ~Stopped(t)'
    BY <1>2, <2>1 DEF SessionsOf, Stopped
  <2>3. Lost(t)
    BY <2>1, <2>2 DEF Orderly
  <2> QED  BY <2>1, <2>3 DEF MateLost, Fresh, Lost
<1>3. ASSUME Sure(a) PROVE Sure(a)' \/ Closed(a)'
  <2>1. PICK s \in open : ~Doomed(s) /\ pc[s][a] \in Settling
    BY <1>3 DEF Sure
  <2>2. \/ s \in open' /\ pc'[s][a] \in Settling
        \/ Closed(a)'
    BY <1>0, <2>1 DEF Orderly, Doomed, Closed
  <2>3. ~Doomed(s)'
    BY <1>0, <1>2, <2>1 DEF Orderly, Doomed
  <2> QED  BY <2>2, <2>3 DEF Sure
<1>4. ASSUME NEW s \in Late(a)' PROVE s \in Late(a)
  BY <1>4 DEF Late, Orderly
<1>5. ASSUME NEW s \in Vain(a)' PROVE s \in Vain(a)
  <2>1. /\ s \in Sessions /\ ~Closed(a)' /\ ~Stopped(s)' /\ MateLost(s)'
        /\ s \in open' \/ loop'[s] = "connect"
        /\ a \in Serves[s] /\ pc'[s][a] \notin Settling
    BY DEF Vain
  <2>2. MateLost(s) /\ ~Fresh(s)'
    BY <1>2, <2>1
  <2>3. s \in open \/ loop[s] = "connect"
    BY <2>1, <2>2 DEF Orderly
  <2>4. loop'[s] # "down"
    BY <2>1 DEF Inv, LoopsOK
  <2>5. ~Stopped(s)
    BY <2>1, <2>2, <2>4 DEF Orderly
  <2>6. ASSUME pc[s][a] \in Settling PROVE FALSE
    <3>1. loop[s] = "batch"
      BY <2>1, <2>6 DEF Inv, LoopsOK, Working, Settling
    <3>2. s \in open
      BY <2>3, <3>1
    <3> QED  BY <2>1, <2>4, <2>5, <2>6, <3>2 DEF Orderly, Closed
  <2> QED  BY <1>1, <2>1, <2>2, <2>3, <2>5, <2>6 DEF Vain
<1> QED  BY <1>1, <1>3, <1>4, <1>5 DEF Extra, Rest

\* A process is told to stop, or loses one of its sessions: of an action that one
\* of its loops serves a call may be in vain, or the record of an answer is lost.
LEMMA ProcessHit ==
    ASSUME Inv, OneLoopPerAction, ServesOK, NEW p \in Processes, NEW a \in Actions,
           UNCHANGED <<status, loop, answers>>, faults' = faults + 1, faults \in Nat,
           open' \subseteq open,
           \A s \in Sessions :
               \/ pc'[s][a] = pc[s][a]
               \/ s \notin open' /\ pc'[s][a] = "unlock" /\ loop[s] = "batch",
           \A s \in Sessions : Stopped(s) => Stopped(s)',
           \A s \in Sessions \ SessionsOf(p) :
               (s \in open => s \in open') /\ (Stopped(s)' => Stopped(s))
    PROVE  Balanced(a)
<1>0. open \subseteq Sessions /\ open' \subseteq Sessions
  BY DEF Inv, TypeOK, DBTypeOK
<1>1. Closed(a) => Closed(a)'
  BY <1>0 DEF Closed
<1>2. ASSUME NEW s \in Sessions \ SessionsOf(p)
      PROVE  (MateLost(s)' <=> MateLost(s)) /\ (Stopped(s)' <=> Stopped(s))
  <2>1. \A t \in SessionsOf(ProcessOf[s]) : t \in open' <=> t \in open
    BY DEF SessionsOf
  <2> QED  BY <2>1 DEF MateLost, Lost
<1>3. ASSUME NEW s \in Extra(a)', s \notin Extra(a)
      PROVE  s \in SessionsOf(p) /\ a \in Serves[s] /\ pc[s][a] \notin Settling
  <2>1. s \in Sessions
    BY DEF Extra, Late, Vain
  <2>0. pc'[s][a] = pc[s][a]
    BY <2>1 DEF Extra, Late, Vain
  <2>2. s \in SessionsOf(p)
    <3> SUFFICES ASSUME s \in Sessions \ SessionsOf(p) PROVE FALSE
      BY <2>1
    <3> QED  BY <1>1, <1>2, <1>3, <2>0 DEF Extra, Late, Vain
  <2>3. a \in Serves[s] /\ pc[s][a] \notin Settling
    BY <1>3, <2>0, <2>1 DEF Extra, Late, Vain, ServesOK, Working, Settling
  <2> QED  BY <2>2, <2>3
<1>4. CASE Extra(a)' \subseteq Extra(a)
  BY <1>4 DEF Balanced
<1>5. ASSUME NEW s \in Extra(a)', s \notin Extra(a) PROVE Balanced(a)
  <2>1. s \in SessionsOf(p) /\ a \in Serves[s] /\ pc[s][a] \notin Settling /\ s \in Sessions
    BY <1>3, <1>5 DEF SessionsOf
  <2>2. \A t \in SessionsOf(p) : a \in Serves[t] => t = s
    BY <2>1 DEF OneLoopPerAction, SessionsOf
  <2>3. Extra(a)' \subseteq Extra(a) \cup {s}
    BY <1>3, <2>2
  <2>4. Sure(a) => Sure(a)'
    <3> SUFFICES ASSUME NEW t \in open, ~Doomed(t), pc[t][a] \in Settling PROVE Sure(a)'
      BY DEF Sure
    <3>1. a \in Serves[t] /\ t # s /\ t \in Sessions
      BY <1>0, <2>1 DEF ServesOK, Working, Settling
    <3>2. t \in Sessions \ SessionsOf(p)
      BY <2>2, <3>1
    <3> QED  BY <1>2, <3>2 DEF Sure, Doomed
  <2>5. Rest(a)' <= Rest(a)
    BY <1>1, <2>4 DEF Rest
  <2> QED  BY <2>3, <2>5 DEF Balanced
<1> QED  BY <1>4, <1>5

\* A process that exits has nothing more to pay for.
LEMMA ExitBalance ==
    ASSUME Inv, NEW p \in Processes, Exit(p), UNCHANGED answers,
           faults' = faults + 1, faults \in Nat, NEW a \in Actions
    PROVE  Balanced(a)
<1>1. ASSUME NEW s \in SessionsOf(p)
      PROVE  s \notin open' /\ loop'[s] = "down" /\ pc'[s][a] = "none"
  BY <1>1 DEF Exit, EndSessions, NoGoroutines, SessionsOf
<1>2. ASSUME NEW s \in Sessions \ SessionsOf(p)
      PROVE  /\ s \in open' <=> s \in open
             /\ pc'[s] = pc[s] /\ loop'[s] = loop[s] /\ Stopped(s)' = Stopped(s)
             /\ MateLost(s)' <=> MateLost(s)
  <2>1. \A t \in Sessions \ SessionsOf(p) :
          /\ t \in open' <=> t \in open
          /\ pc'[t] = pc[t] /\ loop'[t] = loop[t] /\ Stopped(t)' = Stopped(t)
    BY DEF Exit, EndSessions, Stopped, SessionsOf
  <2>2. \A t \in SessionsOf(ProcessOf[s]) : (t \in open' <=> t \in open) /\ loop'[t] = loop[t]
    BY <2>1 DEF SessionsOf
  <2> QED  BY <2>1, <2>2 DEF MateLost, Lost
<1>3. Closed(a) => Closed(a)'
  <2>1. UNCHANGED status /\ open \subseteq Sessions /\ open' \subseteq open
    BY DEF Exit, EndSessions, Inv, TypeOK, DBTypeOK
  <2> QED  BY <1>1, <1>2, <2>1 DEF Closed
<1>4. Extra(a)' \subseteq Extra(a)
  BY <1>1, <1>2, <1>3 DEF Extra, Late, Vain
<1> QED  BY <1>4 DEF Balanced

\* A refused statement ends the session.
LEMMA SessionRefused ==
    ASSUME Inv, SharedInv, Tracked, OneLoopPerAction, ServesOK, NEW s \in Sessions, NEW b \in Actions,
           Execute(s, b), s \in open, s \notin open', UNCHANGED answers,
           faults' = faults + 1, faults \in Nat, NEW a \in Actions
    PROVE  Balanced(a)
<1>1. /\ Working(s, b) /\ UNCHANGED <<loop, stopping, status>>
      /\ open' = open \ {s} /\ pc'[s][b] = "unlock"
  BY ExecuteMoves
<1>2. \A t \in Sessions, c \in Actions : ~(t = s /\ c = b) => pc'[t][c] = pc[t][c]
  BY ExecuteMoves
<1>3. loop[s] = "batch" /\ ProcessOf[s] \in Processes /\ s \in SessionsOf(ProcessOf[s])
  BY <1>1, ConductorAssumption DEF Inv, LoopsOK, SessionsOf
<1>4. \A t \in Sessions : Stopped(t)' = Stopped(t)
  BY <1>1 DEF Stopped
<1>5. \A t \in Sessions :
         pc'[t][a] = pc[t][a] \/ (t \notin open' /\ pc'[t][a] = "unlock" /\ loop[t] = "batch")
  BY <1>1, <1>2, <1>3
<1> QED  BY <1>1, <1>3, <1>4, <1>5, ProcessHit

\* A refused record of a refusal costs the refusal.
LEMMA AnswerRefused ==
    ASSUME Inv, SharedInv, Tracked, NEW s \in Sessions, NEW a \in Actions,
           Execute(s, a), Unrecorded(s, a), s \in open, s \in open', UNCHANGED answers,
           faults' = faults + 1, faults \in Nat, OutsideOK
    PROVE  Balanced(a)
<1>1. /\ Working(s, a) /\ UNCHANGED <<loop, stopping, status, open>>
      /\ pc[s][a] = "failed" /\ pc'[s][a] = "unlock" /\ open \subseteq Sessions
  BY ExecuteMoves DEF Unrecorded, Inv, TypeOK, DBTypeOK
<1>2. \A t \in Sessions \ {s} : pc'[t][a] = pc[t][a]
  BY ExecuteMoves
<1>3. /\ "unlock" \notin Trying /\ "unlock" # "handle" /\ "failed" \in Settling
      /\ "failed" \notin Trying
  BY DEF Trying, Undecided, Settling
<1>4. \A t \in Sessions : (Stopped(t)' <=> Stopped(t)) /\ (MateLost(t)' <=> MateLost(t))
  BY <1>1 DEF Stopped, MateLost, Lost
<1>5. Closed(a)' <=> Closed(a)
  BY <1>1, <1>2, <1>3 DEF Closed
<1>6. \A t \in Sessions \ {s} : t \in Extra(a)' <=> t \in Extra(a)
  BY <1>1, <1>2, <1>4, <1>5 DEF Extra, Late, Vain
<1>7. Extra(a)' \subseteq Extra(a) \cup {s}
  BY <1>6 DEF Extra, Late, Vain
<1>8. Len(answers'[a]) <= Len(answers[a]) + 1 /\ faults' >= faults
  BY DEF OutsideOK
<1>9. CASE s \notin Extra(a)'
  <2>1. Extra(a)' \subseteq Extra(a)
    BY <1>7, <1>9
  <2> QED  BY <1>8, <2>1 DEF Balanced
<1>10. CASE s \in Extra(a)'
  <2>1. MateLost(s)
    BY <1>1, <1>3, <1>4, <1>10 DEF Extra, Late, Vain
  <2>2. ~Sure(a)
    <3> SUFFICES ASSUME NEW t \in open, ~Doomed(t), pc[t][a] \in Settling PROVE FALSE
      BY DEF Sure
    <3>1. t # s /\ Working(t, a)
      BY <2>1 DEF Doomed, Working, Settling
    <3> QED  BY <1>1, <3>1, OneAttempt
  <2>3. Rest(a)' <= Rest(a)
    BY <1>5, <2>2 DEF Rest
  <2> QED  BY <1>7, <1>8, <2>3 DEF Balanced
<1> QED  BY <1>9, <1>10

\* A goroutine works on what its loop serves.
LEMMA ServesKept ==
    ASSUME Inv, SharedInv, Tracked, OutsideOK, ServesOK, ClientsNext
    PROVE  ServesOK'
<1> USE DEF ServesOK, Working
<1>0. pc \in [Sessions -> [Actions -> Steps]]
  BY DEF Inv, TypeOK
<1>1. ASSUME NEW s \in Sessions, NEW a \in Actions, Execute(s, a) \/ Handle(s, a) PROVE ServesOK'
  <2>1. /\ pc[s][a] # "none"
        /\ \A t \in Sessions, b \in Actions : ~(t = s /\ b = a) => pc'[t][b] = pc[t][b]
    BY <1>0, <1>1 DEF Execute, Handle, Begin, Insert, Commit, Undo, HandleError, Rollback,
                      RecordError, Unlock, Goto
  <2> QED  BY <2>1
<1>2. ASSUME NEW p \in Processes, Exit(p) PROVE ServesOK'
  BY <1>2 DEF Exit, NoGoroutines
<1>3. ASSUME NEW s \in Sessions, Run(s), ~Exit(ProcessOf[s]) PROVE ServesOK'
  BY <1>0, <1>3 DEF Run, Batches, Claimable
<1>4. \A s \in Sessions : ProcessOf[s] \in Processes
  BY ConductorAssumption
<1>5. CASE Others
  <2>1. \/ UNCHANGED pc
        \/ \E p \in Processes : Exit(p)
        \/ \E s \in Sessions : Run(s) /\ ~Exit(ProcessOf[s])
    BY <1>4, <1>5 DEF Others, LoopStep, ConnectHandler, Run, BatchDone, HandlerReturns, NotifyNow,
                      ConnLost, Launch, Stop, Crash, Elapse
  <2> QED  BY <1>2, <1>3, <2>1
<1>6. CASE CabooseStep
  BY <1>6, CabooseSteps
<1> QED  BY <1>1, <1>5, <1>6, ThreeKinds, OwnStep, CallIsHandle

LEMMA LedgerOwn ==
    ASSUME Inv, Inv', SharedInv, Tracked, OutsideOK, OneLoopPerAction, ServesOK, Own,
           NEW a \in Actions \ crossed'
    PROVE  Balanced(a)
<1>0. faults \in Nat /\ faults' >= faults /\ UNCHANGED answers
  <2>1. UNCHANGED answers
    BY DEF Own, Conduct, Wake, Restart, Due, Break, outsideVars
  <2>2. OutsideOK' /\ faults' >= faults
    BY OwnStep DEF Remembers
  <2>3. faults \in Nat
    BY FaultsGrow DEF OutsideOK
  <2> QED  BY <2>1, <2>2, <2>3
<1>1. ASSUME Orderly(a), StatusesKept PROVE Balanced(a)
  BY <1>0, <1>1, OrderlyBalance DEF Balanced
<1>2. ASSUME NEW p \in Processes, Exit(p), faults' = faults + 1 PROVE Balanced(a)
  BY <1>0, <1>2, ExitBalance
<1>3. CASE Break
  <2>1. faults' = faults + 1
    BY <1>3, Zenon DEF Break, Goes
  <2>2. ASSUME NEW s \in Sessions, ConnLost(s) PROVE Balanced(a)
    <3>1. UNCHANGED <<status, pc, loop, answers, stopping>> /\ open' = open \ {s}
      BY <1>0, <2>2 DEF ConnLost, EndSessions
    <3>2. ProcessOf[s] \in Processes /\ s \in SessionsOf(ProcessOf[s])
      BY ConductorAssumption DEF SessionsOf
    <3>3. \A t \in Sessions : Stopped(t)' = Stopped(t)
      BY <3>1 DEF Stopped
    <3>4. Balanced(a)
      BY <1>0, <2>1, <3>1, <3>2, <3>3, ProcessHit
    <3> QED  BY <3>4
  <2>3. ASSUME NEW p \in Processes, Stop(p) PROVE Balanced(a)
    <3>1. UNCHANGED <<status, pc, loop, answers, open>> /\ stopping' = stopping \cup {p}
      BY <1>0, <2>3 DEF Stop
    <3>2. \A s \in Sessions : /\ Stopped(s) => Stopped(s)'
                              /\ s \notin SessionsOf(p) => (Stopped(s)' => Stopped(s))
      BY <3>1 DEF Stopped, SessionsOf
    <3>3. Balanced(a)
      BY <1>0, <2>1, <3>1, <3>2, ProcessHit
    <3> QED  BY <3>3
  <2> QED  BY <1>2, <1>3, <2>1, <2>2, <2>3 DEF Break, Crash
<1>4. ASSUME NEW s \in Sessions, Conduct(s) PROVE Balanced(a)
  <2>1. ASSUME NEW b \in Actions, Execute(s, b), ConnBusy(s, b) => Goes(TRUE)
        PROVE  Balanced(a)
    <3>1. StatusesKept
      BY <2>1, ExecuteKeeps DEF Kept
    <3>3. ConnBusy(s, b) => faults' = faults + 1
      BY <2>1, Zenon DEF Goes
    <3>4. CASE Orderly(a)
      BY <1>1, <3>1, <3>4
    <3>5. CASE CanExec(s) /\ s \notin open'
      <4>1. ConnBusy(s, b)
        BY <2>1, <3>5, LossIsBusy
      <4>2. faults' = faults + 1
        BY <3>3, <4>1
      <4> QED  BY <1>0, <2>1, <3>5, <4>2, SessionRefused DEF CanExec
    <3>6. CASE a = b /\ Unrecorded(s, b) /\ s \in open'
      BY <1>0, <2>1, <3>3, <3>6, AnswerRefused DEF Unrecorded, ConnBusy, CanExec
    <3>7. Orderly(a) \/ (CanExec(s) /\ s \notin open') \/ (a = b /\ Unrecorded(s, b))
      BY <2>1, ExecuteOrderly
    <3> QED  BY <3>4, <3>5, <3>6, <3>7 DEF Unrecorded, ConnBusy
  <2>2. CASE /\ LoopStep(s)
             /\ IF loop[s] = "connect" /\ s \notin open' THEN Fails(s) ELSE UNCHANGED faults
    <3>1. StatusesKept
      BY <2>2, OthersKeep DEF Others, Kept
    <3>2. CASE loop[s] = "connect" /\ s \notin open' => Stopped(s)
      BY <1>1, <2>2, <3>1, <3>2, LoopOrderly
    <3>3. CASE loop[s] = "connect" /\ s \notin open' /\ ~Stopped(s)
      <4>1. Goes(TRUE)
        BY <2>2, <3>3, Zenon DEF Fails
      <4>2. faults' = faults + 1
        BY <4>1, Zenon DEF Goes
      <4>3. Exit(ProcessOf[s]) /\ ProcessOf[s] \in Processes
        BY <2>2, <3>3, ConductorAssumption
        DEF LoopStep, ConnectHandler, Connect, Run, BatchDone, HandlerReturns
      <4> QED  BY <1>2, <4>2, <4>3
    <3> QED  BY <3>2, <3>3
  <2>3. \/ \E b \in Actions : Execute(s, b) /\ (ConnBusy(s, b) => Goes(TRUE))
        \/ /\ LoopStep(s)
           /\ IF loop[s] = "connect" /\ s \notin open' THEN Fails(s) ELSE UNCHANGED faults
    BY <1>4, Zenon DEF Conduct
  <2> QED  BY <2>1, <2>2, <2>3, Zenon
<1>5. CASE \/ \E s \in Sessions : Wake(s)
           \/ \E p \in Processes : Restart(p)
           \/ \E b \in Actions : Due(b)
  <2>1. Orderly(a)
    BY <1>5, AsideOrderly DEF Wake, Restart, Due
  <2>2. StatusesKept
    BY <1>5, OthersKeep DEF Wake, Restart, Due, Others, Kept
  <2> QED  BY <1>1, <2>1, <2>2
<1> QED  BY <1>3, <1>4, <1>5 DEF Own

LEMMA LedgerCaboose ==
    ASSUME Inv, SharedInv, Tracked, OutsideOK, ServesOK, CabooseStep, NEW a \in Actions
    PROVE  Balanced(a)
<1>1. UNCHANGED <<loop, pc, open, stopping>> /\ OutsideOK' /\ faults' >= faults
  BY CabooseSteps DEF Remembers
<1>2. UNCHANGED answers
  BY DEF CabooseStep, SettleCallback, WorkflowStarts, WorkflowEnds, WorkflowRemoved, outsideVars
<1>3. status'[a] = status[a] \/ status'[a] \notin OpenStates
  BY CabooseSteps DEF CallbackActions, Argo, DoneStates, OpenStates
<1>4. \A s \in Sessions : Stopped(s)' = Stopped(s) /\ MateLost(s)' = MateLost(s)
  BY <1>1 DEF Stopped, MateLost, Lost
<1>5. (Closed(a) => Closed(a)') /\ Late(a)' = Late(a)
  BY <1>1, <1>3, <1>4 DEF Closed, Late
<1>6. Sure(a)' = Sure(a)
  <2>1. open \subseteq Sessions
    BY DEF Inv, TypeOK, DBTypeOK
  <2> QED  BY <1>1, <1>4, <2>1 DEF Sure, Doomed
<1>7. Extra(a)' \subseteq Extra(a) /\ Rest(a)' <= Rest(a)
  BY <1>1, <1>4, <1>5, <1>6 DEF Extra, Vain, Rest
<1>8. Len(answers'[a]) <= Len(answers[a]) + 1
  BY <1>2 DEF OutsideOK
<1> QED  BY <1>1, <1>2, <1>7, <1>8 DEF Balanced

\* Whatever a client does, it answers once at most, and if what it answers is not
\* to be recorded something has gone wrong, or the context is cancelled.
LEMMA HearCounts ==
    ASSUME OutsideOK, NEW a \in Actions,
           NEW answer \in {"accepted", "refused", "later"}, Hear(a, answer)
    PROVE  /\ \A b \in Actions \ {a} : answers'[b] = answers[b]
           /\ Len(answers'[a]) <= Len(answers[a]) + 1
           /\ answer = "later" => answers'[a] = answers[a]
<1>1. answers[a] \in Seq({"accepted", "refused"})
  BY DEF OutsideOK
<1>2. CASE answer = "later" \/ a \in crossed
  BY <1>1, <1>2 DEF Hear
<1>3. CASE ~(answer = "later" \/ a \in crossed)
  <2>1. answers' = [answers EXCEPT ![a] = Append(@, answer)]
    BY <1>3 DEF Hear
  <2>2. Len(Append(answers[a], answer)) = Len(answers[a]) + 1
    BY <1>1, <1>3
  <2> QED  BY <1>1, <1>3, <2>1, <2>2 DEF OutsideOK
<1> QED  BY <1>2, <1>3

Answered(s, a) ==
    /\ \A b \in Actions \ {a} : answers'[b] = answers[b]
    /\ Len(answers'[a]) <= Len(answers[a]) + 1
    /\ faults' = faults \/ faults' = faults + 1
    /\ \E next \in Verdicts :
         /\ Goto(s, a, next)
         /\ \/ answers'[a] = answers[a]
            \/ next \in Settling
            \/ Stopped(s)
            \/ faults' = faults + 1

LEMMA FailsCounts ==
    ASSUME NEW s \in Sessions, Fails(s)
    PROVE  faults' = faults + 1 \/ (Stopped(s) /\ faults' = faults)
<1>1. Goes(TRUE) => faults' = faults + 1
  BY Zenon DEF Goes
<1> QED  BY <1>1, Zenon DEF Fails

LEMMA CallAnswers ==
    ASSUME OutsideOK, Final, NEW s \in Sessions, NEW a \in Actions, CallHandler(s, a)
    PROVE  Answered(s, a)
<1> USE DEF Verdicts, Settling
<1>0. Len(answers[a]) <= Len(answers[a]) + 1
  BY DEF OutsideOK
<1>1. ASSUME ParamsUnread(s, a) PROVE Answered(s, a)
  <2>1. faults' = faults \/ faults' = faults + 1
    BY <1>1, FailsCounts DEF ParamsUnread
  <2> QED  BY <1>0, <1>1, <2>1 DEF ParamsUnread, Answered
<1>2. ASSUME NotRendered(s, a) \/ UnknownWorkflow(s, a) PROVE Answered(s, a)
  BY <1>2, HearCounts DEF NotRendered, UnknownWorkflow, Answered
<1>3. ASSUME RequestLost(s, a) PROVE Answered(s, a)
  <2>1. /\ \A b \in Actions \ {a} : answers'[b] = answers[b]
        /\ Len(answers'[a]) <= Len(answers[a]) + 1
    <3>1. CASE UNCHANGED answers
      BY <1>0, <3>1
    <3>2. CASE \E r \in Responses : Hear(a, r.means)
      BY <3>2, HearCounts, ClientsAssumption
    <3> QED  BY <1>3, <3>1, <3>2 DEF RequestLost
  <2>2. Fails(s) /\ Goto(s, a, "rollbackRetryable")
    BY <1>3 DEF RequestLost
  <2> QED  BY <2>1, <2>2, FailsCounts DEF Answered
<1>4. ASSUME NEW r \in Responses, Respond(s, a, r) PROVE Answered(s, a)
  <2>1. r.means \in {"accepted", "refused", "later"} /\ Verdict(Check(r)) \in Verdicts
    BY CheckDecides, ClientsAssumption
  <2>2. /\ \A b \in Actions \ {a} : answers'[b] = answers[b]
        /\ Len(answers'[a]) <= Len(answers[a]) + 1
        /\ r.means = "later" => answers'[a] = answers[a]
    BY <1>4, <2>1, HearCounts DEF Respond
  <2>3. r.means # "later" => Verdict(Check(r)) \in Settling
    BY <2>1 DEF Final
  <2> QED  BY <1>4, <2>1, <2>2, <2>3 DEF Respond, Answered
<1>5. ASSUME Submit(s, a) PROVE Answered(s, a)
  BY <1>5, HearCounts DEF Submit, Answered
<1>6. ASSUME SubmitFails(s, a) PROVE Answered(s, a)
  <2>1. \/ Fails(s) /\ UNCHANGED answers
        \/ Fails(s) /\ Hear(a, "accepted")
        \/ UNCHANGED <<answers, faults>>
    BY <1>6 DEF SubmitFails
  <2>2. Goto(s, a, "rollbackRetryable")
    BY <1>6 DEF SubmitFails
  <2>3. /\ \A b \in Actions \ {a} : answers'[b] = answers[b]
        /\ Len(answers'[a]) <= Len(answers[a]) + 1
    BY <1>0, <2>1, HearCounts
  <2> QED  BY <2>1, <2>2, <2>3, FailsCounts DEF Answered
<1> QED
  BY <1>1, <1>2, <1>3, <1>4, <1>5, <1>6 DEF CallHandler, HandleHttp, HandleArgo

LEMMA LedgerCall ==
    ASSUME Inv, OutsideOK, Final, ServesOK,
           NEW s \in Sessions, NEW b \in Actions, CallHandler(s, b), NEW a \in Actions
    PROVE  Balanced(a)
<1>1. Answered(s, b) /\ faults \in Nat /\ open \subseteq Sessions
  BY CallAnswers, FaultsGrow DEF OutsideOK, Inv, TypeOK, DBTypeOK
<1>2. PICK next \in Verdicts :
        /\ Goto(s, b, next)
        /\ \/ answers'[b] = answers[b]
           \/ next \in Settling \/ Stopped(s) \/ faults' = faults + 1
  BY <1>1 DEF Answered
<1>3. /\ UNCHANGED <<status, open, loop, stopping>> /\ pc[s][b] = "handle"
      /\ \A t \in Sessions, c \in Actions :
           pc'[t][c] = IF t = s /\ c = b THEN next ELSE pc[t][c]
  BY <1>2, CallMoves
<1>5. /\ Len(answers'[a]) <= Len(answers[a]) + 1 /\ faults' >= faults
      /\ a # b => answers'[a] = answers[a]
  BY <1>1 DEF Answered, OutsideOK
<1>6. \A t \in Sessions : (Stopped(t)' <=> Stopped(t)) /\ (MateLost(t)' <=> MateLost(t))
  BY <1>3 DEF Stopped, MateLost, Lost
<1>7. "handle" \in Trying /\ "handle" \notin Settling /\ next # "handle"
  BY DEF Trying, Undecided, Settling, Steps, Windows, Verdicts
<1>8. Closed(a) => Closed(a)'
  BY <1>1, <1>3, <1>7 DEF Closed
<1>9. Sure(a) => Sure(a)'
  BY <1>1, <1>3, <1>6, <1>7 DEF Sure, Doomed
<1>10. Extra(a)' \subseteq Extra(a) /\ Rest(a)' <= Rest(a)
  BY <1>3, <1>6, <1>7, <1>8, <1>9 DEF Extra, Late, Vain, Rest
<1>11. CASE answers'[a] = answers[a] \/ faults' = faults + 1
  BY <1>5, <1>10, <1>11 DEF Balanced
<1>12. CASE a = b /\ (next \in Settling \/ Stopped(s))
  <2>1. loop[s] = "batch"
    BY <1>3 DEF Inv, LoopsOK, Working
  <2>2. CASE s \notin open \/ Stopped(s)
    <3>1. s \in Extra(a)
      BY <1>3, <1>12, <2>2 DEF Extra, Late
    <3>2. s \notin Extra(a)'
      BY <1>3, <1>6, <1>7, <1>12, <2>1, <2>2 DEF Extra, Late, Vain
    <3> QED  BY <1>5, <1>10, <3>1, <3>2 DEF Balanced
  <2>3. CASE s \in open /\ ~Stopped(s) /\ MateLost(s)
    <3>1. s \in Extra(a)
      BY <1>3, <1>7, <1>12, <2>3 DEF Extra, Vain, Closed, ServesOK, Working
    <3>2. s \notin Extra(a)'
      BY <1>3, <1>6, <1>7, <1>12, <2>3 DEF Extra, Late, Vain
    <3> QED  BY <1>5, <1>10, <3>1, <3>2 DEF Balanced
  <2>4. CASE s \in open /\ ~Stopped(s) /\ ~MateLost(s)
    <3>1. ~Closed(a)
      BY <1>3, <1>7, <1>12, <2>4 DEF Closed
    <3>2. ~Sure(a)
      <4> SUFFICES ASSUME NEW t \in open, pc[t][a] \in Settling PROVE FALSE
        BY DEF Sure
      <4>1. Working(t, a) /\ Working(s, a)
        BY <1>3, <1>12 DEF Working, Settling
      <4> QED  BY <1>3, <1>7, <1>12, <2>4, <4>1, OneAttempt
    <3>3. Sure(a)'
      BY <1>3, <1>6, <1>12, <2>4 DEF Sure, Doomed
    <3>4. Rest(a) = 1 /\ Rest(a)' = 0
      BY <3>1, <3>2, <3>3 DEF Rest
    <3> QED  BY <1>5, <1>10, <3>4 DEF Balanced
  <2> QED  BY <2>2, <2>3, <2>4
<1> QED  BY <1>2, <1>5, <1>11, <1>12

\* With matchers by which an answer for good is not worth a retry, and no two
\* loops of a process for one action, an action that nobody crossed is answered
\* once, and once more for each fault at most, however many conductors attempt it:
\* a workflow runs once, a callback is accepted or refused once.
THEOREM ActionsAreAnsweredOnce ==
    ASSUME Final, OneLoopPerAction
    PROVE  ClientsSpec => []AnsweredOnce
<1>1. ClientsInit => LedgerInv
  <2> SUFFICES ASSUME ClientsInit, NEW a \in Actions PROVE ServesOK /\ LedgerOf(a)
    BY DEF LedgerInv, ServesOK
  <2>1. /\ open = {} /\ answers[a] = <<>> /\ faults = 0
        /\ \A s \in Sessions : loop[s] = "down" /\ pc[s][a] = "none"
        /\ \A s \in Sessions, b \in Actions : pc[s][b] = "none"
    BY DEF ClientsInit, SharedInit, Init, DBInit, NoGoroutines
  <2>2. Extra(a) = {}
    BY <2>1 DEF Extra, Late, Vain
  <2>3. Rest(a) \in {0, 1} /\ Len(answers[a]) = 0
    BY <2>1 DEF Rest
  <2>4. IsFiniteSet(Extra(a)) /\ Cardinality(Extra(a)) = 0
    BY <2>2, FS_EmptySet
  <2> QED  BY <2>1, <2>3, <2>4 DEF ServesOK, Working, LedgerOf
<1>2. Inv /\ SharedInv /\ OutsideOK /\ LedgerInv
      /\ [ClientsNext /\ Track]_<<clientVars, crossed, stuck>> => LedgerInv'
  <2> SUFFICES ASSUME Inv, SharedInv, OutsideOK, LedgerInv,
                      [ClientsNext /\ Track]_<<clientVars, crossed, stuck>>
               PROVE  LedgerInv'
    OBVIOUS
  <2>0. Inv' /\ OutsideOK' /\ Tracked
    BY ClientsNextInv
  <2>1. CASE UNCHANGED <<clientVars, crossed, stuck>>
    <3>1. UNCHANGED <<status, open, loop, pc, stopping, answers, faults, crossed>>
      BY <2>1 DEF clientVars, outsideVars, vars
    <3>2. ASSUME NEW a \in Actions PROVE Extra(a)' = Extra(a) /\ Rest(a)' = Rest(a)
      BY <3>1 DEF Extra, Rest, Late, Vain, Closed, Sure, Doomed, MateLost, Lost, Stopped
    <3>3. ServesOK'
      BY <3>1 DEF LedgerInv, ServesOK, Working
    <3>4. ASSUME NEW a \in Actions \ crossed PROVE LedgerOf(a)'
      BY <3>1, <3>2 DEF LedgerInv, LedgerOf
    <3> QED  BY <3>1, <3>3, <3>4 DEF LedgerInv
  <2>2. ASSUME ClientsNext, NEW a \in Actions \ crossed' PROVE Balanced(a)
    BY <2>0, <2>2, ThreeKinds, LedgerOwn, LedgerCaboose, LedgerCall DEF LedgerInv
  <2>3. CASE ClientsNext
    <3>1. ServesOK'
      BY <2>0, <2>3, ServesKept DEF LedgerInv
    <3>2. ASSUME NEW a \in Actions \ crossed' PROVE LedgerOf(a)'
      <4>1. a \in Actions \ crossed
        BY <2>0 DEF Tracked
      <4> QED  BY <2>0, <2>2, <2>3, <4>1, LedgerKept DEF LedgerInv
    <3> QED  BY <3>1, <3>2 DEF LedgerInv
  <2> QED  BY <2>1, <2>3
<1>3. OutsideOK /\ LedgerInv => AnsweredOnce
  <2> SUFFICES ASSUME OutsideOK, LedgerInv, NEW a \in Actions \ crossed
               PROVE  Len(answers[a]) <= 1 + faults
    BY DEF AnsweredOnce
  <2>1. /\ Len(answers[a]) \in Nat /\ faults \in Nat
        /\ Rest(a) \in Nat /\ Cardinality(Extra(a)) \in Nat
    BY FaultsGrow, FS_CardinalityType DEF OutsideOK, Rest, LedgerInv, LedgerOf
  <2>2. Len(answers[a]) + Rest(a) + Cardinality(Extra(a)) <= 1 + faults
    BY DEF LedgerInv, LedgerOf
  <2> QED  BY <2>1, <2>2
<1> QED  BY <1>1, <1>2, <1>3, ClientsInvariance, PTL DEF ClientsSpec
=============================================================================
