-------------------------- MODULE ConductorProofs --------------------------
(***************************************************************************)
(* Proofs about the conductor, for any number of actions, sessions and     *)
(* processes, and any size of the batches.                                 *)
(***************************************************************************)
EXTENDS Conductor, FiniteSetTheorems, TLAPS

USE DEF dbVars, handlerVars

-----------------------------------------------------------------------------
(* The inductive invariant.                                                 *)

\* A lock has a count exactly while it is held, and only an open session holds
\* locks.
LocksOK ==
    \A a \in Actions :
        /\ lock[a] = NoSession <=> depth[a] = 0
        /\ lock[a] # NoSession => lock[a] \in open

\* A goroutine whose session is open holds the lock of its thread.
AttemptsOK ==
    \A s \in open, a \in Actions : Working(s, a) => lock[a] = s

\* Goroutines exist during a batch only, and a loop has no session before it
\* connects and after it returns.
LoopsOK ==
    \A s \in Sessions :
        /\ loop[s] # "batch" => \A a \in Actions : ~Working(s, a)
        /\ loop[s] \in {"down", "connect"} => s \notin open

Inv == TypeOK /\ LocksOK /\ AttemptsOK /\ LoopsOK /\ BatchLeavesNoTransaction

\* What the statements do to the part of the invariant that is about the
\* database alone.
DBInv == DBTypeOK /\ LocksOK

LEMMA LockThreadsSound ==
    ASSUME DBInv, NEW s \in open, NEW batch \in SUBSET Actions,
           \A a \in batch : lock[a] \in {NoSession, s}, LockThreads(s, batch)
    PROVE  DBInv'
BY NoSessionAssumption DEF DBInv, DBTypeOK, LocksOK, LockThreads

LEMMA StatementsSound ==
    ASSUME DBInv, NEW s \in open, NEW a \in Actions
    PROVE  /\ UnlockThread(s, a) => DBInv'
           /\ BeginTx(s) => DBInv'
           /\ \A e \in Statuses : InsertEvent(s, a, e) => DBInv'
           /\ CommitTx(s) => DBInv'
           /\ RollbackTx(s) => DBInv'
<1> USE NoSessionAssumption DEF DBInv, DBTypeOK, LocksOK, NoEvents
<1>1. UnlockThread(s, a) => DBInv'
  BY DEF UnlockThread
<1>2. BeginTx(s) => DBInv'
  BY DEF BeginTx
<1>3. ASSUME NEW e \in Statuses, InsertEvent(s, a, e)
      PROVE  DBInv'
  BY <1>3 DEF InsertEvent
<1>4. CommitTx(s) => DBInv'
  BY DEF CommitTx
<1>5. RollbackTx(s) => DBInv'
  BY DEF RollbackTx
<1> QED  BY <1>1, <1>2, <1>3, <1>4, <1>5

LEMMA EnvironmentSound ==
    ASSUME DBInv
    PROVE  /\ \A s \in Sessions : Connect(s) => DBInv'
           /\ \A S \in SUBSET Sessions : EndSessions(S) => DBInv'
           /\ \A a \in Actions : BackoffElapses(a) => DBInv'
           /\ UNCHANGED dbVars => DBInv'
<1> USE NoSessionAssumption DEF DBInv, DBTypeOK, LocksOK, NoEvents
<1>1. ASSUME NEW s \in Sessions, Connect(s) PROVE DBInv'
  BY <1>1 DEF Connect
<1>2. ASSUME NEW S \in SUBSET Sessions, EndSessions(S) PROVE DBInv'
  BY <1>2 DEF EndSessions
<1>3. ASSUME NEW a \in Actions, BackoffElapses(a) PROVE DBInv'
  BY <1>3 DEF BackoffElapses
<1>4. UNCHANGED dbVars => DBInv'
  OBVIOUS
<1> QED  BY <1>1, <1>2, <1>3, <1>4

-----------------------------------------------------------------------------
(* The invariant is inductive.                                              *)

LEMMA InitInv == Init => Inv
BY NoSessionAssumption, NoEventAssumption
DEF Init, DBInit, Inv, TypeOK, DBTypeOK, LocksOK, AttemptsOK, LoopsOK,
    BatchLeavesNoTransaction, NoGoroutines, Working, Steps, Statuses, OpenStates

\* Sessions end, whatever becomes of their loops and goroutines.
LEMMA SessionsEndInv ==
    ASSUME Inv, NEW S \in SUBSET Sessions, EndSessions(S), TypeOK',
           \A s \in Sessions \ S : pc'[s] = pc[s] /\ loop'[s] = loop[s],
           \A s \in S : loop'[s] # "batch" => \A a \in Actions : pc'[s][a] = "none"
    PROVE  Inv'
<1>1. DBInv'
  BY EnvironmentSound DEF DBInv, Inv, TypeOK
<1>2. AttemptsOK'
  BY DEF EndSessions, Inv, AttemptsOK, TypeOK, DBTypeOK, Working
<1>3. LoopsOK'
  BY DEF EndSessions, Inv, LoopsOK, TypeOK, DBTypeOK, Working
<1>4. BatchLeavesNoTransaction'
  BY DEF EndSessions, Inv, BatchLeavesNoTransaction, TypeOK, DBTypeOK
<1> QED  BY <1>1, <1>2, <1>3, <1>4 DEF Inv, DBInv

\* A goroutine goes on to `step' after a statement that keeps sessions, locks
\* and the transactions of the other sessions.
LEMMA GoroutineInv ==
    ASSUME Inv, NEW s \in Sessions, NEW a \in Actions, NEW step \in Steps \ {"none"},
           Working(s, a), Goto(s, a, step), DBInv',
           UNCHANGED <<loop, notified, stopping, open, lock>>,
           inTx' \ {s} = inTx \ {s},
           s \in inTx' => step \in Windows \/ (s \in inTx /\ pc[s][a] \notin Windows)
    PROVE  Inv'
<1> USE DEF Inv, TypeOK, DBTypeOK, Goto, Working, DBInv
<1>1. TypeOK'
  OBVIOUS
<1>2. AttemptsOK'
  BY DEF AttemptsOK
<1>3. LoopsOK'
  BY DEF LoopsOK
<1>4. ASSUME NEW t \in Sessions, t \in inTx'
      PROVE  \E b \in Actions : pc'[t][b] \in Windows
  <2>1. CASE t # s
    BY <1>4, <2>1 DEF BatchLeavesNoTransaction
  <2>2. CASE t = s /\ step \in Windows
    BY <2>2
  <2>3. CASE t = s /\ s \in inTx /\ pc[s][a] \notin Windows
    BY <2>3 DEF BatchLeavesNoTransaction
  <2> QED  BY <1>4, <2>1, <2>2, <2>3
<1> QED  BY <1>1, <1>2, <1>3, <1>4 DEF BatchLeavesNoTransaction

\* One step of HandleActionWrapper.
LEMMA ExecuteInv ==
    ASSUME Inv, NEW s \in Sessions, NEW a \in Actions, Execute(s, a) \/ Handle(s, a)
    PROVE  Inv'
<1> USE DEF CanExec
<1> DEFINE Ended == /\ EndSessions({s})
                    /\ Goto(s, a, "unlock")
                    /\ UNCHANGED <<loop, notified, stopping>>
<1>0. DBInv /\ TypeOK
  BY DEF Inv, TypeOK, DBInv
<1>1. ASSUME Working(s, a), Ended
      PROVE  Inv'
  <2>1. TypeOK'
    BY <1>0, <1>1, EnvironmentSound DEF TypeOK, DBInv, Goto, Steps, AfterHandling
  <2>2. loop[s] = "batch"
    BY <1>1 DEF Inv, LoopsOK
  <2>3. \A t \in Sessions \ {s} : pc'[t] = pc[t] /\ loop'[t] = loop[t]
    BY <1>0, <1>1 DEF TypeOK, Goto
  <2>4. loop'[s] = "batch"
    BY <1>1, <2>2
  <2> QED  BY <1>1, <2>1, <2>3, <2>4, SessionsEndInv
<1>2. CASE Begin(s, a)
  <2>1. CASE CanExec(s) /\ BeginTx(s) /\ Goto(s, a, "insert")
    <3>1. DBInv'
      BY <1>0, <2>1, StatementsSound
    <3> QED  BY <1>2, <2>1, <3>1, GoroutineInv
             DEF Begin, BeginTx, Working, Windows, Steps
  <2>2. CASE Ended
    BY <1>2, <2>2, <1>1 DEF Begin, Working
  <2> QED  BY <1>2, <2>1, <2>2 DEF Begin
<1>3. CASE Insert(s, a)
  <2>1. CASE CanExec(s) /\ InsertEvent(s, a, SuccessEvent(a)) /\ Goto(s, a, "handle")
    <3>1. DBInv'
      BY <1>0, <2>1, StatementsSound DEF SuccessEvent, Statuses, DoneStates
    <3> QED  BY <1>3, <2>1, <3>1, GoroutineInv
             DEF Insert, InsertEvent, Working, Windows, Steps
  <2>2. CASE Goto(s, a, "undo") /\ UNCHANGED dbVars
    <3>1. DBInv'
      BY <1>0, <2>2, EnvironmentSound
    <3> QED  BY <1>3, <2>2, <3>1, GoroutineInv DEF Insert, Working, Windows, Steps
  <2> QED  BY <1>3, <2>1, <2>2 DEF Insert
<1>4. CASE Handle(s, a)
  <2>1. DBInv'
    BY <1>0, <1>4, EnvironmentSound DEF Handle
  <2>2. PICK next \in {"commit", "rollbackRetryable", "rollbackFatal"} : Goto(s, a, next)
    BY <1>4 DEF Handle
  <2> QED  BY <1>4, <2>1, <2>2, GoroutineInv DEF Handle, Working, Windows, Steps
<1>5. CASE Commit(s, a)
  <2>1. CASE CanExec(s) /\ CommitTx(s)
    <3>1. DBInv'
      BY <1>0, <2>1, StatementsSound
    <3> QED  BY <1>5, <2>1, <3>1, GoroutineInv
             DEF Commit, CommitTx, Working, AfterHandling, Steps
  <2>2. CASE EndSessions({s})
    BY <1>5, <2>2, <1>1 DEF Commit, Working
  <2>3. CASE s \notin inTx /\ UNCHANGED dbVars
    <3>1. DBInv'
      BY <1>0, <2>3, EnvironmentSound
    <3> QED  BY <1>5, <2>3, <3>1, GoroutineInv DEF Commit, Working, AfterHandling, Steps
  <2> QED  BY <1>5, <2>1, <2>2, <2>3 DEF Commit
<1>6. ASSUME NEW next \in AfterHandling, Working(s, a), Rollback(s, a, next)
      PROVE  Inv'
  <2>1. CASE CanExec(s) /\ RollbackTx(s) /\ Goto(s, a, next)
    <3>1. DBInv'
      BY <1>0, <2>1, StatementsSound
    <3>2. UNCHANGED <<loop, notified, stopping>>
      BY <1>6 DEF Rollback
    <3>3. next \in Steps \ {"none"}
      BY <1>6 DEF AfterHandling, Steps
    <3>4. s \notin inTx' /\ inTx' \ {s} = inTx \ {s} /\ UNCHANGED <<open, lock>>
      BY <2>1 DEF RollbackTx
    <3> QED  BY <1>6, <2>1, <3>1, <3>2, <3>3, <3>4, GoroutineInv
  <2>2. CASE Ended
    BY <1>6, <2>2, <1>1
  <2> QED  BY <1>6, <2>1, <2>2 DEF Rollback
<1>7. CASE Undo(s, a)
  BY <1>7, <1>6 DEF Undo, Working, AfterHandling
<1>8. CASE HandleError(s, a)
  BY <1>8, <1>6 DEF HandleError, Working, AfterHandling
<1>9. CASE RecordError(s, a)
  <2>1. CASE CanExec(s) /\ InsertEvent(s, a, ErrorEvent(s, a))
    <3>1. DBInv'
      BY <1>0, <2>1, StatementsSound DEF ErrorEvent, Statuses, OpenStates
    <3> QED  BY <1>9, <2>1, <3>1, GoroutineInv
             DEF RecordError, InsertEvent, Working, Windows, AfterHandling, Steps
  <2>2. CASE UNCHANGED dbVars
    <3>1. DBInv'
      BY <1>0, <2>2, EnvironmentSound
    <3> QED  BY <1>9, <2>2, <3>1, GoroutineInv
             DEF RecordError, Working, Windows, AfterHandling, Steps
  <2> QED  BY <1>9, <2>1, <2>2 DEF RecordError
<1>10. CASE Unlock(s, a)
  <2>1. DBInv'
    BY <1>0, <1>10, StatementsSound, EnvironmentSound DEF Unlock
  <2> USE <1>0, <1>10 DEF Unlock, UnlockThread, Goto, TypeOK, DBTypeOK, Working
  <2>2. TypeOK'
    BY <2>1 DEF DBInv, Steps
  <2>3. AttemptsOK'
    BY DEF Inv, AttemptsOK
  <2>4. LoopsOK'
    BY DEF Inv, LoopsOK
  <2>5. BatchLeavesNoTransaction'
    <3> SUFFICES ASSUME NEW t \in Sessions, t \in inTx'
                 PROVE  \E b \in Actions : pc'[t][b] \in Windows
      BY DEF BatchLeavesNoTransaction
    <3>1. PICK b \in Actions : pc[t][b] \in Windows
      BY DEF Inv, BatchLeavesNoTransaction
    <3>2. pc'[t][b] = pc[t][b]
      BY <3>1 DEF Windows
    <3> QED  BY <3>1, <3>2
  <2> QED  BY <2>1, <2>2, <2>3, <2>4, <2>5 DEF Inv, DBInv
<1> QED
  BY <1>2, <1>3, <1>4, <1>5, <1>7, <1>8, <1>9, <1>10 DEF Execute

\* The process of a handler ends.
LEMMA ExitInv ==
    ASSUME Inv, NEW p \in Processes, Exit(p)
    PROVE  Inv'
<1> USE DEF Exit, SessionsOf
<1>1. DBInv'
  BY EnvironmentSound DEF Inv, TypeOK, DBInv
<1>2. TypeOK'
  BY <1>1 DEF Inv, TypeOK, DBInv, NoGoroutines, Steps
<1>3. \A s \in Sessions \ SessionsOf(p) : pc'[s] = pc[s] /\ loop'[s] = loop[s]
  OBVIOUS
<1>4. \A s \in SessionsOf(p) : \A a \in Actions : pc'[s][a] = "none"
  BY DEF NoGoroutines
<1> QED  BY <1>2, <1>3, <1>4, SessionsEndInv

\* One step of a handler loop.
LEMMA LoopStepInv ==
    ASSUME Inv, NEW s \in Sessions, LoopStep(s)
    PROVE  Inv'
<1>0. DBInv /\ TypeOK /\ ProcessOf[s] \in Processes
  BY ConductorAssumption DEF Inv, TypeOK, DBInv
<1>1. CASE Exit(ProcessOf[s])
  BY <1>0, <1>1, ExitInv
<1>2. CASE ConnectHandler(s) /\ ~Exit(ProcessOf[s])
  <2>1. DBInv'
    BY <1>0, <1>2, EnvironmentSound DEF ConnectHandler
  <2> USE <1>0, <1>2 DEF ConnectHandler, Connect, TypeOK, DBTypeOK, Working
  <2>2. TypeOK'
    BY <2>1 DEF DBInv
  <2>3. LoopsOK'
    BY DEF Inv, LoopsOK
  <2>4. AttemptsOK'
    BY DEF Inv, AttemptsOK, LoopsOK
  <2>5. BatchLeavesNoTransaction'
    BY DEF Inv, BatchLeavesNoTransaction
  <2> QED  BY <2>1, <2>2, <2>3, <2>4, <2>5 DEF Inv, DBInv
<1>3. CASE Run(s) /\ ~Exit(ProcessOf[s])
  <2> PICK batch \in Batches(s) :
        /\ LockThreads(s, batch)
        /\ pc' = [pc EXCEPT ![s] =
                    [a \in Actions |-> IF a \in batch THEN "begin" ELSE "none"]]
        /\ notified' = IF Cardinality(batch) = BatchSize
                         THEN notified ELSE notified \ {s}
    BY <1>3 DEF Run
  <2>1. /\ CanExec(s)
        /\ loop[s] = "wait" /\ loop' = [loop EXCEPT ![s] = "batch"]
        /\ UNCHANGED stopping
    BY <1>3 DEF Run
  <2>2. batch \subseteq Actions /\ \A a \in batch : lock[a] \in {NoSession, s}
    BY ConductorAssumption DEF Batches, Claimable
  <2>3. DBInv'
    BY <1>0, <2>1, <2>2, LockThreadsSound DEF CanExec
  <2>4. TypeOK'
    BY <1>0, <2>1, <2>3 DEF TypeOK, DBInv, Steps
  <2>5. AttemptsOK'
    <3> SUFFICES ASSUME NEW t \in open', NEW a \in Actions, Working(t, a)'
                 PROVE  lock'[a] = t
      BY DEF AttemptsOK
    <3>1. CASE t = s
      BY <1>0, <2>1, <3>1 DEF LockThreads, TypeOK, DBTypeOK, Working
    <3>2. CASE t # s
      <4>1. t \in open /\ t \in Sessions /\ Working(t, a)
        BY <1>0, <3>2 DEF LockThreads, TypeOK, DBTypeOK, Working
      <4>2. lock[a] = t
        BY <4>1 DEF Inv, AttemptsOK
      <4> QED  BY <2>2, <3>2, <4>1, <4>2, NoSessionAssumption DEF LockThreads
    <3> QED  BY <3>1, <3>2
  <2>6. LoopsOK'
    BY <1>0, <2>1 DEF Inv, LoopsOK, LockThreads, CanExec, Working, TypeOK
  <2>7. s \notin inTx
    BY <2>1 DEF Inv, LoopsOK, BatchLeavesNoTransaction, Working, Windows
  <2>8. BatchLeavesNoTransaction'
    BY <1>0, <2>1, <2>7 DEF Inv, BatchLeavesNoTransaction, LockThreads, TypeOK
  <2> QED  BY <2>3, <2>4, <2>5, <2>6, <2>8 DEF Inv, DBInv
<1>4. CASE BatchDone(s)
  <2>1. DBInv'
    BY <1>0, <1>4, EnvironmentSound DEF BatchDone
  <2> USE <1>0, <1>4 DEF BatchDone, TypeOK, Working
  <2>2. TypeOK'
    BY <2>1 DEF DBInv
  <2>3. AttemptsOK' /\ LoopsOK'
    BY DEF Inv, AttemptsOK, LoopsOK
  <2>4. BatchLeavesNoTransaction'
    BY DEF Inv, BatchLeavesNoTransaction
  <2> QED  BY <2>1, <2>2, <2>3, <2>4 DEF Inv, DBInv
<1>5. CASE HandlerReturns(s)
  <2>1. TypeOK'
    BY <1>0, <1>5, EnvironmentSound DEF HandlerReturns, TypeOK, DBInv
  <2>2. \A t \in Sessions \ {s} : pc'[t] = pc[t] /\ loop'[t] = loop[t]
    BY <1>0, <1>5 DEF HandlerReturns, TypeOK
  <2>3. \A a \in Actions : pc'[s][a] = "none"
    BY <1>5 DEF HandlerReturns, Inv, LoopsOK, Working
  <2> QED  BY <1>5, <2>1, <2>2, <2>3, SessionsEndInv DEF HandlerReturns
<1> QED  BY <1>1, <1>2, <1>3, <1>4, <1>5 DEF LoopStep

LEMMA NextInv == Inv /\ [Next]_vars => Inv'
<1> SUFFICES ASSUME Inv, [Next]_vars PROVE Inv'
  OBVIOUS
<1>0. DBInv /\ TypeOK
  BY DEF Inv, TypeOK, DBInv
<1>1. ASSUME NEW s \in Sessions, NEW a \in Actions, Execute(s, a) \/ Handle(s, a)
      PROVE  Inv'
  BY <1>1, ExecuteInv
<1>2. ASSUME NEW s \in Sessions, LoopStep(s) PROVE Inv'
  BY <1>2, LoopStepInv
<1>3. ASSUME NEW s \in Sessions, ConnLost(s) PROVE Inv'
  <2>1. TypeOK'
    BY <1>0, <1>3, EnvironmentSound DEF ConnLost, TypeOK, DBInv
  <2>2. loop'[s] # "batch" => \A a \in Actions : pc'[s][a] = "none"
    BY <1>3 DEF ConnLost, Inv, LoopsOK, Working
  <2> QED  BY <1>3, <2>1, <2>2, SessionsEndInv DEF ConnLost
<1>4. ASSUME NEW p \in Processes, Crash(p) PROVE Inv'
  BY <1>4, ExitInv DEF Crash
<1>5. CASE \/ \E s \in Sessions : NotifyNow(s)
           \/ \E p \in Processes : Launch(p) \/ Stop(p)
           \/ \E a \in Actions : Elapse(a)
           \/ UNCHANGED vars
  <2>1. DBInv'
    BY <1>0, <1>5, EnvironmentSound DEF NotifyNow, Launch, Stop, Elapse, vars
  <2>2. UNCHANGED <<lock, open, inTx, pc>>
    BY <1>5 DEF NotifyNow, Launch, Stop, Elapse, BackoffElapses, vars
  <2>3. TypeOK'
    BY <1>0, <1>5, <2>1, <2>2
    DEF NotifyNow, Launch, Stop, Elapse, vars, SessionsOf, TypeOK, DBInv
  <2>4. LoopsOK'
    BY <1>0, <1>5, <2>2
    DEF Inv, LoopsOK, Working, NotifyNow, Launch, Stop, Elapse, vars, SessionsOf, TypeOK
  <2>5. AttemptsOK' /\ BatchLeavesNoTransaction'
    BY <2>2 DEF Inv, AttemptsOK, BatchLeavesNoTransaction, Working
  <2> QED  BY <2>1, <2>3, <2>4, <2>5 DEF Inv, DBInv
<1> QED  BY <1>1, <1>2, <1>3, <1>4, <1>5 DEF Next

\* Every reachable state satisfies the inductive invariant.
THEOREM Invariance == Spec => []Inv
BY InitInv, NextInv, PTL DEF Spec

-----------------------------------------------------------------------------
(* What it implies.                                                         *)

\* Every variable of the conductor and of its database keeps its type.
THEOREM TypeCorrect == Spec => []TypeOK
BY Invariance, PTL DEF Inv

\* The goroutines of two live sessions never work on the same action: both
\* would hold its lock.
THEOREM AttemptsExclude == Spec => []ExclusiveAttempt
<1>1. Inv => ExclusiveAttempt
  BY DEF Inv, AttemptsOK, ExclusiveAttempt
<1> QED  BY <1>1, Invariance, PTL

\* A session is inside a transaction only while a goroutine of its batch is:
\* the batch never hands an open transaction to the next query.
THEOREM TransactionsEnd == Spec => []BatchLeavesNoTransaction
BY Invariance, PTL DEF Inv
=============================================================================
