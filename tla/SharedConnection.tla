-------------------------- MODULE SharedConnection --------------------------
(***************************************************************************)
(* The conductor, and what the goroutines of a batch do to each other by   *)
(* sharing the connection of their loop.  Two history variables remember   *)
(* the actions they got in the way of: with them the promises of           *)
(* HandleActionWrapper can be stated for batches of any size, and say      *)
(* which interferences are the only ways to break them.  The module adds   *)
(* nothing to the behaviour.                                               *)
(***************************************************************************)
EXTENDS Conductor

VARIABLES
    crossed,  \* the actions that had another goroutine in their transaction's way
    stuck     \* the actions whose Unlock found the connection in use

sharedVars == <<vars, crossed, stuck>>

\* Another goroutine's COMMIT or ROLLBACK ends the transaction that the
\* goroutine of a takes for its own.
TxTaken(s, a) ==
    /\ s \in inTx \ inTx' /\ s \in open'
    /\ pc[s][a] \in Windows /\ pc'[s][a] \in Windows

\* The event of handleError is where Event.Insert puts it.
ErrorRecorded(s, a) ==
    IF s \in inTx THEN events'[s][a] = ErrorEvent(s, a)
                  ELSE status'[a] = ErrorEvent(s, a)

\* The error of handleFn is recorded in the transaction of another goroutine.
ErrorAstray(s, a) ==
    /\ pc[s][a] \in {"backoff", "failed"} /\ pc'[s][a] = "unlock"
    /\ s \in inTx /\ s \in open'
    /\ ErrorRecorded(s, a)

\* The step of a's goroutine fails although its statement could be sent: the
\* connection is in use.
ConnBusy(s, a) ==
    /\ CanExec(s) /\ InUse(s, a)
    /\ \/ s \notin open'
       \/ pc[s][a] = "insert" /\ pc'[s][a] = "undo"
       \/ pc[s][a] \in {"backoff", "failed"} /\ ~ErrorRecorded(s, a)
       \/ pc[s][a] = "unlock" /\ depth'[a] = depth[a]

\* ... and Unlock returns without its effect.
UnlockRefused(s, a) ==
    /\ pc[s][a] = "unlock" /\ pc'[s][a] = "none"
    /\ s \in open' /\ ConnBusy(s, a)

Track ==
    /\ crossed' = crossed \cup
         {a \in Actions : \E s \in Sessions : TxTaken(s, a) \/ ErrorAstray(s, a)}
    /\ stuck' = stuck \cup {a \in Actions : \E s \in Sessions : UnlockRefused(s, a)}

SharedInit == Init /\ crossed = {} /\ stuck = {}

SharedNext == Next /\ Track

SharedSpec == SharedInit /\ [][SharedNext]_sharedVars

-----------------------------------------------------------------------------
\* No thread stays locked after its goroutine, on any path through
\* HandleActionWrapper, unless its Unlock found the connection in use: the
\* deferred Unlock, or the end of the session, has released it.  While the
\* process shuts down the statement is not sent, and the session ends soon.
LocksReturned ==
    \A s \in Sessions, a \in Actions :
        lock[a] = s => Working(s, a) \/ Stopped(s) \/ a \in stuck

\* What a batch makes of an action, seen from the database: free, held by a
\* goroutine that may still record its verdict, or held by one that will not.
Phase(a) ==
    IF lock[a] = NoSession THEN "free"
    ELSE IF pc[lock[a]][a] \in {"unlock", "none"} THEN "spent" ELSE "held"

Lifecycle == INSTANCE ActionLifecycle
             WITH phase <- [a \in Actions |-> Phase(a)], astray <- crossed \cup stuck

\* HandleActionWrapper implements the life of an action, whatever becomes of the
\* other actions of its batch: one claim, at most one verdict, and a verdict that
\* is not a backoff is never changed.
ImplementsLifecycle == Lifecycle!Spec
=============================================================================
