----------------------------- MODULE Conductor -----------------------------
(***************************************************************************)
(* The conductor (pkg/conductor): processes that run one loop per handler  *)
(* (Handler.Start, Handler.Run).  A loop owns one database session,        *)
(* fetches a batch of threads, which locks them, and runs                  *)
(* HandleActionWrapper in one goroutine per thread.  The goroutines of a   *)
(* batch SHARE the loop's session: each has a transaction of its own in    *)
(* the code, and all of them are the same transaction in the server.       *)
(*                                                                         *)
(* A session stands for the handler loop that owns it.  A pgx connection   *)
(* refuses a statement while another one is in flight ("conn busy"), so a  *)
(* goroutine's statement may fail whenever another goroutine of its batch  *)
(* is at a statement too.                                                  *)
(***************************************************************************)
EXTENDS SwoopDB

CONSTANTS
    Processes,     \* conductor processes
    ProcessOf,     \* the process of each session's handler loop
    Serves,        \* the actions of each session's handler
    AsyncActions,  \* actions of asynchronous handlers (argo workflows)
    BatchSize      \* batchSize

ASSUME ConductorAssumption ==
    /\ ProcessOf \in [Sessions -> Processes]
    /\ Serves \in [Sessions -> SUBSET Actions]
    /\ BatchSize \in Nat \ {0}
    /\ MaxDepth \in Nat \ {0}

VARIABLES
    loop,      \* where the handler loop is
    pc,        \* pc[s][a]: where the goroutine of thread a in s's batch is
    notified,  \* the loops whose isNotified, a channel of one slot, is full
    stopping   \* the processes whose context is cancelled

handlerVars == <<loop, pc, notified>>
vars == <<dbVars, handlerVars, stopping>>

Windows ==  \* the transaction of the goroutine is begun and not closed
    {"insert", "handle", "commit", "undo", "rollbackRetryable", "rollbackFatal"}
AfterHandling ==
    {"commit", "rollbackRetryable", "rollbackFatal", "backoff", "failed", "unlock"}
Steps == Windows \cup AfterHandling \cup {"none", "begin"}
Statements == Steps \ {"none", "handle"}  \* where the session is used

TypeOK ==
    /\ DBTypeOK
    /\ loop \in [Sessions -> {"down", "connect", "wait", "batch"}]
    /\ pc \in [Sessions -> [Actions -> Steps]]
    /\ notified \subseteq Sessions
    /\ stopping \subseteq Processes

NoGoroutines == [a \in Actions |-> "none"]

Init ==
    /\ DBInit
    /\ loop = [s \in Sessions |-> "down"]
    /\ pc = [s \in Sessions |-> NoGoroutines]
    /\ notified = {}
    /\ stopping = {}

SessionsOf(p) == {s \in Sessions : ProcessOf[s] = p}

Stopped(s) == ProcessOf[s] \in stopping

Working(s, a) == pc[s][a] # "none"

\* A statement reaches the server over an open session while the context is
\* not cancelled ...
CanExec(s) == s \in open /\ ~Stopped(s)

\* ... and may fail when either does not hold or the connection is in use by
\* another goroutine of the batch.
InUse(s, a) == \E b \in Actions \ {a} : pc[s][b] \in Statements

CanFail(s, a) == ~CanExec(s) \/ InUse(s, a)

Goto(s, a, step) == pc' = [pc EXCEPT ![s][a] = step]

-----------------------------------------------------------------------------
(* HandleActionWrapper, one action per call it makes.                       *)

\* Mutant: the transaction is never begun.
BeginForgotten(s, a) ==
    /\ pc[s][a] = "begin"
    /\ Goto(s, a, "insert")
    /\ UNCHANGED <<dbVars, loop, notified, stopping>>

\* conn.Begin: pgx closes a connection on which BEGIN failed.
Begin(s, a) ==
    /\ pc[s][a] = "begin"
    /\ \/ CanExec(s) /\ BeginTx(s) /\ Goto(s, a, "insert")
       \/ CanFail(s, a) /\ EndSessions({s}) /\ Goto(s, a, "unlock")
    /\ UNCHANGED <<loop, notified, stopping>>

SuccessEvent(a) == IF a \in AsyncActions THEN "QUEUED" ELSE "SUCCESSFUL"

\* The event of a success is inserted before the action is handled.
Insert(s, a) ==
    /\ pc[s][a] = "insert"
    /\ \/ CanExec(s) /\ InsertEvent(s, a, SuccessEvent(a)) /\ Goto(s, a, "handle")
       \/ CanFail(s, a) /\ Goto(s, a, "undo") /\ UNCHANGED dbVars
    /\ UNCHANGED <<loop, notified, stopping>>

\* handleFn: success, an error worth a retry, or a fatal one.
Handle(s, a) ==
    /\ pc[s][a] = "handle"
    /\ \E next \in {"commit", "rollbackRetryable", "rollbackFatal"} : Goto(s, a, next)
    /\ UNCHANGED <<dbVars, loop, notified, stopping>>

\* Mutant: the deferred rollback runs first.
CommitAfterRollback(s, a) ==
    /\ pc[s][a] = "commit"
    /\ Goto(s, a, "unlock")
    /\ RollbackTx(s)
    /\ UNCHANGED <<loop, notified, stopping>>

\* tx.Commit: when COMMIT fails inside a transaction pgx closes the connection.
Commit(s, a) ==
    /\ pc[s][a] = "commit"
    /\ Goto(s, a, "unlock")
    /\ \/ CanExec(s) /\ CommitTx(s)
       \/ CanFail(s, a) /\ s \in inTx /\ EndSessions({s})
       \/ CanFail(s, a) /\ s \notin inTx /\ UNCHANGED dbVars
    /\ UNCHANGED <<loop, notified, stopping>>

\* tx.Rollback on this goroutine's transaction, whatever its outcome pgx will
\* not roll it back again; when ROLLBACK fails pgx closes the connection.
Rollback(s, a, next) ==
    /\ \/ CanExec(s) /\ RollbackTx(s) /\ Goto(s, a, next)
       \/ CanFail(s, a) /\ EndSessions({s}) /\ Goto(s, a, "unlock")
    /\ UNCHANGED <<loop, notified, stopping>>

\* Mutant: no rollback is deferred.
UndoForgotten(s, a) ==
    /\ pc[s][a] = "undo"
    /\ Goto(s, a, "unlock")
    /\ UNCHANGED <<dbVars, loop, notified, stopping>>

\* The deferred rollback after a failed insert.
Undo(s, a) == pc[s][a] = "undo" /\ Rollback(s, a, "unlock")

\* Mutant: the error is recorded inside the transaction.
HandleErrorInTx(s, a) ==
    /\ \/ pc[s][a] = "rollbackRetryable" /\ Goto(s, a, "backoff")
       \/ pc[s][a] = "rollbackFatal" /\ Goto(s, a, "failed")
    /\ UNCHANGED <<dbVars, loop, notified, stopping>>

\* handleError: roll back, then record the error outside the transaction.
HandleError(s, a) ==
    \/ pc[s][a] = "rollbackRetryable" /\ Rollback(s, a, "backoff")
    \/ pc[s][a] = "rollbackFatal" /\ Rollback(s, a, "failed")

\* Mutant: retries count as exhausted at once.
ErrorEventExhausted(s, a) ==
    IF pc[s][a] = "backoff" THEN "RETRIES_EXHAUSTED" ELSE "FAILED"

ErrorEvent(s, a) == IF pc[s][a] = "backoff" THEN "BACKOFF" ELSE "FAILED"

RecordError(s, a) ==
    /\ pc[s][a] \in {"backoff", "failed"}
    /\ Goto(s, a, "unlock")
    /\ \/ CanExec(s) /\ InsertEvent(s, a, ErrorEvent(s, a))
       \/ CanFail(s, a) /\ UNCHANGED dbVars
    /\ UNCHANGED <<loop, notified, stopping>>

\* Mutant: the thread is not unlocked.
UnlockForgotten(s, a) ==
    /\ pc[s][a] = "unlock"
    /\ Goto(s, a, "none")
    /\ UNCHANGED <<dbVars, loop, notified, stopping>>

\* The deferred thread.Unlock; nobody looks at its error.
Unlock(s, a) ==
    /\ pc[s][a] = "unlock"
    /\ Goto(s, a, "none")
    /\ \/ CanExec(s) /\ UnlockThread(s, a)
       \/ CanFail(s, a) /\ UNCHANGED dbVars
    /\ UNCHANGED <<loop, notified, stopping>>

-----------------------------------------------------------------------------
(* The handler loop.                                                        *)

\* The process exits or panics: all its sessions end.
Exit(p) ==
    /\ EndSessions(SessionsOf(p))
    /\ loop' = [s \in Sessions |-> IF ProcessOf[s] = p THEN "down" ELSE loop[s]]
    /\ pc' = [s \in Sessions |-> IF ProcessOf[s] = p THEN NoGoroutines ELSE pc[s]]
    /\ notified' = notified \ SessionsOf(p)
    /\ stopping' = stopping \ {p}

\* PgConductor.Run starts the loop of every handler; Handler.Start notifies
\* itself before it connects.
Launch(p) ==
    /\ \A s \in SessionsOf(p) : loop[s] = "down"
    /\ loop' = [s \in Sessions |-> IF ProcessOf[s] = p THEN "connect" ELSE loop[s]]
    /\ notified' = notified \cup SessionsOf(p)
    /\ stopping' = stopping \ {p}
    /\ UNCHANGED <<dbVars, pc>>

\* Handler.Start: an error connecting is returned, and PgConductor.Run panics.
ConnectHandler(s) ==
    /\ loop[s] = "connect"
    /\ \/ /\ ~Stopped(s)
          /\ Connect(s)
          /\ loop' = [loop EXCEPT ![s] = "wait"]
          /\ UNCHANGED <<pc, notified, stopping>>
       \/ Exit(ProcessOf[s])

\* What a query for a batch may return: everything s can claim, cut off at
\* BatchSize threads.
Batches(s) ==
    LET claimable == Claimable(s, Serves[s])
    IN  {b \in SUBSET claimable : \/ Cardinality(b) = BatchSize
                                  \/ Cardinality(b) < BatchSize /\ b = claimable}

\* Handler.Run up to its goroutines: take the notification, fetch a batch, and
\* notify the loop again when the batch is full.  A failed query is an error,
\* and PgConductor.Run panics.
Run(s) ==
    /\ loop[s] = "wait"
    /\ s \in notified
    /\ \/ /\ CanExec(s)
          /\ \E batch \in Batches(s) :
               /\ LockThreads(s, batch)
               /\ pc' = [pc EXCEPT ![s] =
                           [a \in Actions |-> IF a \in batch THEN "begin" ELSE "none"]]
               /\ notified' = IF Cardinality(batch) = BatchSize
                                THEN notified ELSE notified \ {s}
          /\ loop' = [loop EXCEPT ![s] = "batch"]
          /\ UNCHANGED <<stopping>>
       \/ ~CanExec(s) /\ Exit(ProcessOf[s])

\* wg.Wait returns and Handler.Start calls Run again.
BatchDone(s) ==
    /\ loop[s] = "batch"
    /\ \A a \in Actions : ~Working(s, a)
    /\ loop' = [loop EXCEPT ![s] = "wait"]
    /\ UNCHANGED <<dbVars, pc, notified, stopping>>

\* Mutant: Handler.Run waits for a notification without watching the context.
HandlerReturnsOnceNotified(s) ==
    /\ loop[s] = "wait"
    /\ s \in notified
    /\ Stopped(s)
    /\ EndSessions({s})
    /\ loop' = [loop EXCEPT ![s] = "down"]
    /\ notified' = notified \ {s}
    /\ UNCHANGED <<pc, stopping>>

\* Handler.Start returns, and closes its connection, once the context is done.
HandlerReturns(s) ==
    /\ loop[s] = "wait"
    /\ Stopped(s)
    /\ EndSessions({s})
    /\ loop' = [loop EXCEPT ![s] = "down"]
    /\ notified' = notified \ {s}
    /\ UNCHANGED <<pc, stopping>>

\* The listener or the poller: a send that does not block.
NotifyNow(s) ==
    /\ loop[s] # "down"
    /\ notified' = notified \cup {s}
    /\ UNCHANGED <<dbVars, loop, pc, stopping>>

\* SignalHandler cancels the context.
Stop(p) ==
    /\ \E s \in SessionsOf(p) : loop[s] # "down"
    /\ stopping' = stopping \cup {p}
    /\ UNCHANGED <<dbVars, handlerVars>>

-----------------------------------------------------------------------------
(* The environment.                                                         *)

Crash(p) ==
    /\ \E s \in SessionsOf(p) : loop[s] # "down"
    /\ Exit(p)

\* The server or the network ends a session; its handler has not noticed.
ConnLost(s) ==
    /\ s \in open
    /\ EndSessions({s})
    /\ UNCHANGED <<handlerVars, stopping>>

Elapse(a) ==
    /\ BackoffElapses(a)
    /\ UNCHANGED <<handlerVars, stopping>>

-----------------------------------------------------------------------------
\* A goroutine's own steps; Handle waits for another system.
Execute(s, a) ==
    \/ Begin(s, a) \/ Insert(s, a) \/ Commit(s, a) \/ Undo(s, a)
    \/ HandleError(s, a) \/ RecordError(s, a) \/ Unlock(s, a)

LoopStep(s) ==
    ConnectHandler(s) \/ Run(s) \/ BatchDone(s) \/ HandlerReturns(s)

Next ==
    \/ \E s \in Sessions, a \in Actions : Execute(s, a) \/ Handle(s, a)
    \/ \E s \in Sessions : LoopStep(s) \/ NotifyNow(s) \/ ConnLost(s)
    \/ \E p \in Processes : Launch(p) \/ Stop(p) \/ Crash(p)
    \/ \E a \in Actions : Elapse(a)

Spec == Init /\ [][Next]_vars

\* The goroutines and the loops run; a handleFn need never return (the http
\* client has no timeout) until its context is cancelled.
FairSpec ==
    /\ Spec
    /\ \A s \in Sessions : WF_vars(LoopStep(s))
    /\ \A s \in Sessions, a \in Actions :
         WF_vars(Execute(s, a)) /\ WF_vars(Stopped(s) /\ Handle(s, a))

-----------------------------------------------------------------------------
\* Of two handler loops that run a goroutine for the same action, in one
\* process or in two, one has lost its session: thread locks keep the attempts
\* of live sessions apart (get_processable_actions, Thread.Unlock).
ExclusiveAttempt ==
    \A a \in Actions : \A s, t \in Sessions :
        Working(s, a) /\ Working(t, a) /\ s # t => ~({s, t} \subseteq open)

\* However the begins, commits and rollbacks of a batch interleave on the one
\* connection, and whichever of them fail, the session is not left inside a
\* transaction by the last goroutine of HandleActionWrapper: the next query
\* and its locks are not part of an old transaction.
BatchLeavesNoTransaction ==
    \A s \in Sessions : s \in inTx => \E a \in Actions : pc[s][a] \in Windows

\* After a signal every handler loop of the process returns, or the process
\* panics: no goroutine waits for another one (SignalHandler, wg.Wait).
ShutdownCompletes ==
    \A p \in Processes :
        p \in stopping ~> \A s \in SessionsOf(p) : loop[s] = "down"

-----------------------------------------------------------------------------
\* "TODO: need a test to verify we don't leak locks" (HandleActionWrapper): no
\* thread stays locked after its goroutine.  While the process shuts down the
\* statement is not sent, and the session ends soon.
NoLockLeak ==
    \A s \in Sessions, a \in Actions :
        lock[a] = s => Working(s, a) \/ Stopped(s)
=============================================================================
