------------------------------ MODULE Clients ------------------------------
(***************************************************************************)
(* What handleFn does (conductor/http.go, conductor/argo.go, config/http), *)
(* composed with the conductor that calls it and with the caboose at the   *)
(* other end.  Conductor!Handle, which returns anything, is replaced by    *)
(* the steps of the two clients: a callback reads the parameters that the  *)
(* caboose stores after it has inserted the action, and asks a server; a   *)
(* workflow is submitted to the cluster under the uuid of its action,      *)
(* where it runs until the caboose has recorded its end and removes it.    *)
(*                                                                         *)
(* A behaviour starts when the actions are inserted.  Which conductors run *)
(* is chosen once; an action that none of them serves stays pending, and   *)
(* nobody looks at what becomes of it.                                     *)
(***************************************************************************)
EXTENDS SharedConnection, Sequences, SequencesExt

CONSTANTS
    Matchers,   \* `responses' of the handler: [status, bodies, result], where bodies
                \* are those that the message and the jsonPath of the matcher accept;
                \* it has some (without any the check of the first answer panics)
    Responses,  \* what the server may answer: [status, body, means]
    Deployments,  \* the sets of conductor processes that may be run
    MaxFaults   \* bound: what goes wrong outside the code, signals included, and
                \* the statements refused because the connection is in use

ASSUME ClientsAssumption ==
    /\ Matchers \in Seq(ToSet(Matchers))
    /\ \A m \in ToSet(Matchers) : m.result \in {"", "success", "error", "fatal"}
    /\ \A r \in Responses : r.means \in {"accepted", "refused", "later"}
    /\ Deployments \subseteq SUBSET Processes
    /\ MaxFaults \in Nat

VARIABLES
    deployed, \* the processes that are run
    params,   \* of each callback: "unwritten", "stored", "failed" or "left"
    cluster,  \* of each workflow: "absent", "present", or "recorded" by the caboose
    answers,  \* history: what the action was answered for good, in order
    blind,    \* history: the callbacks an attempt could not read the parameters of
    faults

outsideVars == <<deployed, params, cluster, answers, blind, faults>>
clientVars == <<vars, outsideVars>>

CallbackActions == Actions \ AsyncActions
Argo == AsyncActions \cap Actions

ClientsTypeOK ==
    /\ TypeOK
    /\ deployed \in Deployments
    /\ params \in [CallbackActions -> {"unwritten", "stored", "failed", "left"}]
    /\ cluster \in [Argo -> {"absent", "present", "recorded"}]
    /\ answers \in [Actions -> Seq({"accepted", "refused"})]
    /\ blind \subseteq CallbackActions
    /\ faults \in 0 .. MaxFaults

ClientsInit ==
    /\ SharedInit
    /\ deployed \in Deployments
    /\ params = [a \in CallbackActions |-> "unwritten"]
    /\ cluster = [a \in Argo |-> "absent"]
    /\ answers = [a \in Actions |-> <<>>]
    /\ blind = {}
    /\ faults = 0

\* Something goes wrong; once the context is cancelled, any call may.
Goes(wrong) == wrong /\ faults < MaxFaults /\ faults' = faults + 1
Fails(s) == Goes(TRUE) \/ (Stopped(s) /\ UNCHANGED faults)

\* (Of a crossed action nothing is promised: its history ends.)
Hear(a, answer) ==
    answers' = IF answer = "later" \/ a \in crossed THEN answers
               ELSE [answers EXCEPT ![a] = Append(@, answer)]

Calling(s, a) ==
    /\ pc[s][a] = "handle"
    /\ UNCHANGED <<dbVars, loop, notified, stopping, deployed>>

-----------------------------------------------------------------------------
(* The HTTP client.                                                         *)

\* responseMatcher.match
Matches(matcher, r) == matcher.status = r.status /\ r.body \in matcher.bodies

\* Mutant: the last matcher that fits decides.
CheckLast(r) ==
    LET fits == {n \in DOMAIN Matchers : Matches(Matchers[n], r)}
    IN  IF fits # {} THEN Matchers[Max(fits)].result
        ELSE IF r.status \in 200 .. 299 THEN "success" ELSE "error"

\* responseChecker.check: the first matcher that fits decides.
Check(r) ==
    LET fits == {n \in DOMAIN Matchers : Matches(Matchers[n], r)}
    IN  IF fits # {} THEN Matchers[Min(fits)].result
        ELSE IF r.status \in 200 .. 299 THEN "success" ELSE "error"

\* Mutant: a fatal result is an error like any other.
VerdictRetriesFatal(result) ==
    IF result \in {"", "success"} THEN "commit" ELSE "rollbackRetryable"

\* Mutant: the error of a response has lost its class.
VerdictUnclassed(result) ==
    IF result \in {"", "success"} THEN "commit" ELSE "rollback"

\* RequestResult.ToError, and what HandleActionWrapper makes of the error.  A
\* matcher without a result is a success.
Verdict(result) ==
    CASE result \in {"", "success"} -> "commit"
      [] result = "error" -> "rollbackRetryable"
      [] result = "fatal" -> "rollbackFatal"

\* Mutant: an error reading the parameters is worth a retry.
ParamsUnreadRetried(s, a) ==
    /\ Calling(s, a)
    /\ (params[a] # "stored" /\ UNCHANGED faults) \/ Fails(s)
    /\ blind' = blind \cup {a}
    /\ Goto(s, a, "rollbackRetryable")
    /\ UNCHANGED <<params, cluster, answers>>

\* GetCallbackParams fails, for whatever reason: the error is fatal.
ParamsUnread(s, a) ==
    /\ Calling(s, a)
    /\ (params[a] # "stored" /\ UNCHANGED faults) \/ Fails(s)
    /\ blind' = blind \cup {a}
    /\ Goto(s, a, "rollbackFatal")
    /\ UNCHANGED <<params, cluster, answers>>

\* A request that cannot be rendered from the parameters is fatal.
NotRendered(s, a) ==
    /\ Calling(s, a)
    /\ params[a] = "stored"
    /\ Hear(a, "refused")
    /\ Goto(s, a, "rollbackFatal")
    /\ UNCHANGED <<params, cluster, blind, faults>>

\* The request, or its response, is lost: a plain error, and worth a retry.
RequestLost(s, a) ==
    /\ Calling(s, a)
    /\ params[a] = "stored"
    /\ Fails(s)
    /\ UNCHANGED answers \/ \E r \in Responses : Hear(a, r.means)
    /\ Goto(s, a, "rollbackRetryable")
    /\ UNCHANGED <<params, cluster, blind>>

Respond(s, a, r) ==
    /\ Calling(s, a)
    /\ params[a] = "stored"
    /\ Hear(a, r.means)
    /\ Goto(s, a, Verdict(Check(r)))
    /\ UNCHANGED <<params, cluster, blind, faults>>

HandleHttp(s, a) ==
    \/ ParamsUnread(s, a) \/ NotRendered(s, a) \/ RequestLost(s, a)
    \/ \E r \in Responses : Respond(s, a, r)

-----------------------------------------------------------------------------
(* The Argo client.                                                         *)

\* A workflow that this conductor's configuration does not know is fatal.
UnknownWorkflow(s, a) ==
    /\ Calling(s, a)
    /\ Hear(a, "refused")
    /\ Goto(s, a, "rollbackFatal")
    /\ UNCHANGED <<params, cluster, blind, faults>>

Submit(s, a) ==
    /\ Calling(s, a)
    /\ cluster[a] = "absent"
    /\ Hear(a, "accepted")
    /\ cluster' = [cluster EXCEPT ![a] = "present"]
    /\ Goto(s, a, "commit")
    /\ UNCHANGED <<params, blind, faults>>

\* Any error of the cluster is worth a retry: a call that failed, with or
\* without effect, or a workflow of that name that is already there.
SubmitFails(s, a) ==
    /\ Calling(s, a)
    /\ \/ Fails(s) /\ UNCHANGED <<cluster, answers>>
       \/ /\ Fails(s)
          /\ cluster[a] = "absent"
          /\ cluster' = [cluster EXCEPT ![a] = "present"]
          /\ Hear(a, "accepted")
       \/ cluster[a] # "absent" /\ UNCHANGED <<cluster, answers, faults>>
    /\ Goto(s, a, "rollbackRetryable")
    /\ UNCHANGED <<params, blind>>

HandleArgo(s, a) == UnknownWorkflow(s, a) \/ Submit(s, a) \/ SubmitFails(s, a)

CallHandler(s, a) == IF a \in Argo THEN HandleArgo(s, a) ELSE HandleHttp(s, a)

-----------------------------------------------------------------------------
(* The caboose, through connections of its pool.                            *)

\* An event takes the status of its action, once no uncommitted event holds
\* the row of the thread.
Publish(a, e) ==
    /\ \A s \in Sessions : events[s][a] = NoEvent
    /\ status' = [status EXCEPT ![a] = e]
    /\ waiting' = waiting \ {a}
    /\ UNCHANGED <<lock, depth, open, inTx, events, handlerVars, stopping>>

\* processCallback, after insertCallback: the parameters are stored, or the
\* action is failed for a fault of its own, or it is left as it is (the retry
\* of the workflow makes another action).
SettleCallback(a) ==
    /\ params[a] = "unwritten"
    /\ \/ params' = [params EXCEPT ![a] = "stored"] /\ UNCHANGED <<vars, faults>>
       \/ params' = [params EXCEPT ![a] = "failed"] /\ Publish(a, "FAILED") /\ UNCHANGED faults
       \/ params' = [params EXCEPT ![a] = "left"] /\ Goes(TRUE) /\ UNCHANGED vars
    /\ UNCHANGED <<deployed, cluster, answers, blind>>

\* The start event; to the conductor RUNNING is what QUEUED is, not open.
WorkflowStarts(a) ==
    /\ cluster[a] = "present"
    /\ Publish(a, "QUEUED")
    /\ UNCHANGED outsideVars

\* The end event carries the time the workflow finished; if the action has had
\* an event since, it changes nothing.
WorkflowEnds(a) ==
    /\ cluster[a] = "present"
    /\ cluster' = [cluster EXCEPT ![a] = "recorded"]
    /\ (\E e \in {"SUCCESSFUL", "FAILED"} : Publish(a, e)) \/ UNCHANGED vars
    /\ UNCHANGED <<deployed, params, answers, blind, faults>>

WorkflowRemoved(a) ==
    /\ cluster[a] = "recorded"
    /\ cluster' = [cluster EXCEPT ![a] = "absent"]
    /\ UNCHANGED <<vars, deployed, params, answers, blind, faults>>

-----------------------------------------------------------------------------
Served(a) == \E s \in Sessions : a \in Serves[s] /\ ProcessOf[s] \in deployed

\* The conductor on its own; an error connecting, or a connection in use, is a
\* fault.
Conduct(s) ==
    /\ \/ \E a \in Actions :
             /\ Execute(s, a)
             /\ IF ConnBusy(s, a) THEN Goes(TRUE) ELSE UNCHANGED faults
       \/ /\ LoopStep(s)
          /\ IF loop[s] = "connect" /\ s \notin open' THEN Fails(s) ELSE UNCHANGED faults
    /\ UNCHANGED <<deployed, params, cluster, answers, blind>>

Runs(s) == Conduct(s) \/ \E a \in Actions : CallHandler(s, a)
Wake(s) == NotifyNow(s) /\ UNCHANGED outsideVars
Restart(p) == p \in deployed /\ Launch(p) /\ UNCHANGED outsideVars
Due(a) == Elapse(a) /\ UNCHANGED outsideVars

Break ==
    /\ Goes(TRUE)
    /\ (\E s \in Sessions : ConnLost(s)) \/ (\E p \in Processes : Stop(p) \/ Crash(p))
    /\ UNCHANGED <<deployed, params, cluster, answers, blind>>

ClientsNext ==
    \/ \E s \in Sessions : Runs(s) \/ Wake(s)
    \/ \E p \in Processes : Restart(p)
    \/ \E a \in Actions : Due(a)
    \/ \E a \in CallbackActions : Served(a) /\ SettleCallback(a)
    \/ \E a \in Argo : WorkflowStarts(a) \/ WorkflowEnds(a) \/ WorkflowRemoved(a)
    \/ Break

ClientsSpec == ClientsInit /\ [][ClientsNext /\ Track]_<<clientVars, crossed, stuck>>

FinalResponse(s, a) == \E r \in Responses : r.means # "later" /\ Respond(s, a, r)

\* Beyond what the conductor needs to run: the poller wakes its loops, the
\* process is restarted, calls return, the caboose goes on, and a server that
\* is asked again and again answers for good in the end.
ClientsFairSpec ==
    /\ ClientsSpec
    /\ \A s \in Sessions : WF_clientVars(Runs(s)) /\ WF_clientVars(Wake(s))
    /\ \A p \in Processes : WF_clientVars(Restart(p))
    /\ \A a \in Actions : WF_clientVars(Due(a))
    /\ \A a \in CallbackActions : WF_clientVars(Served(a) /\ SettleCallback(a))
    /\ \A a \in Argo : WF_clientVars(WorkflowEnds(a) \/ WorkflowRemoved(a))
    /\ \A a \in CallbackActions :
         SF_clientVars(\E s \in Sessions : FinalResponse(s, a))

-----------------------------------------------------------------------------
(* What a configuration has to be for the properties below: neither the     *)
(* loader nor the conductor checks it.                                      *)

\* The matchers read a response as the server means it ...
Understood ==
    \A r \in Responses :
        /\ Verdict(Check(r)) = "commit" => r.means = "accepted"
        /\ Verdict(Check(r)) = "rollbackFatal" => r.means = "refused"

\* ... and what it has answered for good is not worth a retry.
Final ==
    \A r \in Responses : r.means # "later" => Verdict(Check(r)) # "rollbackRetryable"

\* The handlers that a conductor lists are different ones: no two loops of a
\* process serve the same action.
OneLoopPerAction ==
    \A s, t \in Sessions :
        ProcessOf[s] = ProcessOf[t] /\ s # t => Serves[s] \cap Serves[t] = {}

-----------------------------------------------------------------------------
(* Of an action that no other goroutine of its batch has crossed:           *)

\* However often an action is attempted, by however many conductors, it gets
\* one answer for good, and one more for each fault at most: a workflow runs
\* once, a callback is accepted or refused once.  A success that is not
\* committed, a refusal that is not recorded, and a submission that finds the
\* workflow gone are each paid for by a fault.
AnsweredOnce == \A a \in Actions \ crossed : Len(answers[a]) <= 1 + faults

\* The status tells what happened outside.  An action that is queued or
\* successful was accepted.  A callback that is failed was refused, failed by
\* the caboose, or attempted when its parameters could not be read, which is
\* all it takes: early is as good as faulty.
StatusIsTrue ==
    \A a \in Actions \ crossed :
        /\ status[a] \in DoneStates => "accepted" \in ToSet(answers[a])
        /\ a \in CallbackActions /\ status[a] = "FAILED" =>
             \/ "refused" \in ToSet(answers[a])
             \/ params[a] = "failed"
             \/ a \in blind

\* What is settled stays settled: of a callback always, and of a workflow unless
\* an attempt lost its session.  Then the next attempt finds the workflow there,
\* and may record a backoff after the caboose has recorded its end.
SettledStays ==
    [][\A a \in Actions \ crossed' :
         status[a] \notin OpenStates /\ status'[a] \in OpenStates =>
             a \in Argo /\ faults > 0]_clientVars

\* Every action that a conductor serves is settled for good in the end, whatever
\* is lost on the way (unless its lock is stuck: see MaxDepth).
Settles ==
    \A a \in Actions :
        <>[](Served(a) /\ a \notin crossed \cup stuck => status[a] \notin OpenStates)
=============================================================================
