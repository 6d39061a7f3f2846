-------------------------- MODULE ConductorHistory --------------------------
(***************************************************************************)
(* The conductor with a history variable: what the last calls of handleFn  *)
(* for an action returned, as long as the session that is to record it     *)
(* lives.  An outcome whose session ends first is forgotten: such an       *)
(* action is rightly handled again.  The module adds nothing to the        *)
(* behaviour.                                                              *)
(***************************************************************************)
EXTENDS SharedConnection

VARIABLE outcome  \* "none", "success", "refused" or, after two successes, "repeated"

historyVars == <<sharedVars, outcome>>

\* handleFn returned, over a session that is still there.
Succeeds(s, a) ==
    pc[s][a] = "handle" /\ pc'[s][a] = "commit" /\ s \in open
Refuses(s, a) ==
    pc[s][a] = "handle" /\ pc'[s][a] = "rollbackFatal" /\ s \in open

\* The session ends before the outcome is recorded.
Loses(s, a) ==
    /\ pc[s][a] \in {"commit", "rollbackFatal", "failed"}
    /\ s \in open \ open'

NextOutcome(a) ==
    CASE \E s \in Sessions : Succeeds(s, a) ->
            IF outcome[a] \in {"success", "repeated"} THEN "repeated" ELSE "success"
      [] \E s \in Sessions : Refuses(s, a) -> "refused"
      [] \E s \in Sessions : Loses(s, a) -> "none"
      [] OTHER -> outcome[a]

HistoryInit == SharedInit /\ outcome = [a \in Actions |-> "none"]

HistoryNext == SharedNext /\ outcome' = [a \in Actions |-> NextOutcome(a)]

HistorySpec == HistoryInit /\ [][HistoryNext]_historyVars

-----------------------------------------------------------------------------
(* Of an action that no other goroutine of a batch has crossed:             *)

\* If its status says it was queued or successful it was handled: the event that
\* HandleActionWrapper inserts before it calls handleFn is published by the
\* commit that follows a success, and by nothing else.
SuccessIsHandled ==
    \A a \in Actions \ crossed :
        status[a] \in DoneStates => outcome[a] \in {"success", "repeated"}

\* A success of handleFn is on its way to the database or there.
HandledIsRecorded ==
    \A a \in Actions \ crossed :
        outcome[a] \in {"success", "repeated"} =>
            \/ status[a] \in DoneStates
            \/ \E s \in Sessions : s \in open /\ pc[s][a] = "commit"

\* It is not handled again after a success, unless the success was lost with its
\* session: neither a second conductor, nor a retry, nor a restart submits a
\* workflow that is already submitted and recorded.
HandledOnce == \A a \in Actions \ crossed : outcome[a] # "repeated"

\* Once the batch is over, an action that handleFn refused is not recorded as
\* queued or successful (conductor-test.bash expects it to be FAILED).
RefusedIsNotDone ==
    (\A s \in Sessions, a \in Actions : ~Working(s, a)) =>
        \A a \in Actions : outcome[a] = "refused" => status[a] \notin DoneStates
=============================================================================
