----------------------- MODULE SharedConnectionProofs -----------------------
(***************************************************************************)
(* Proofs about goroutines that share a connection, for any number of      *)
(* actions, sessions and processes and batches of any size: a lock does    *)
(* not outlive its goroutine unless it is stuck, and an action that nobody *)
(* crossed is recorded as what handleFn returned.                          *)
(***************************************************************************)
EXTENDS ConductorHistory, ConductorProofs

USE DEF dbVars, handlerVars

-----------------------------------------------------------------------------
(* The inductive invariant.                                                 *)

\* Where the event of a success is inserted and not yet committed ...
Inserted == {"handle", "commit", "rollbackRetryable", "rollbackFatal"}

\* ... and where the attempt may still give the action a status.
Undecided == Steps \ {"none", "unlock"}

DepthOK ==
    \A a \in Actions : lock[a] # NoSession /\ a \notin stuck => depth[a] = 1

\* A goroutine that nobody crossed is inside the transaction it began ...
TxOK ==
    /\ inTx \subseteq open
    /\ \A s \in open, a \in Actions \ crossed : pc[s][a] \in Windows => s \in inTx

\* ... and has its own event in it and no other.
EventsOK ==
    /\ \A s \in Sessions, a \in Actions : events[s][a] # NoEvent => s \in inTx
    /\ \A s \in Sessions, a \in Actions \ crossed :
          events[s][a] = IF s \in open /\ pc[s][a] \in Inserted
                         THEN SuccessEvent(a) ELSE NoEvent

ClaimOK ==
    \A s \in open, a \in Actions \ crossed :
        pc[s][a] \in Undecided => status[a] \in OpenStates

SharedInv == DepthOK /\ LocksReturned /\ TxOK /\ EventsOK

\* What a step must show: others than the conductor may record events of an action
\* too, and then all but ClaimOK remains.
SharedKept == SharedInv' /\ (ClaimOK => ClaimOK')

\* What is known of the history variables after a step.
Tracked ==
    /\ crossed \subseteq crossed' /\ stuck \subseteq stuck'
    /\ \A s \in Sessions, a \in Actions :
          /\ TxTaken(s, a) \/ ErrorAstray(s, a) => a \in crossed'
          /\ UnlockRefused(s, a) => a \in stuck'

LEMMA TrackTracks ==
    ASSUME Track \/ UNCHANGED <<vars, crossed, stuck>> PROVE Tracked
<1>1. CASE Track
  BY <1>1 DEF Track, Tracked
<1>2. CASE UNCHANGED <<vars, crossed, stuck>>
  <2>1. UNCHANGED <<inTx, pc, crossed, stuck>>
    BY <1>2 DEF vars
  <2>2. \A s \in Sessions, a \in Actions :
          ~TxTaken(s, a) /\ ~ErrorAstray(s, a) /\ ~UnlockRefused(s, a)
    BY <2>1 DEF TxTaken, ErrorAstray, UnlockRefused
  <2> QED  BY <2>1, <2>2 DEF Tracked
<1> QED  BY <1>1, <1>2

LEMMA SharedInitInv == SharedInit => SharedInv /\ ClaimOK
BY NoSessionAssumption
DEF SharedInit, Init, DBInit, SharedInv, DepthOK, LocksReturned, TxOK, EventsOK, ClaimOK,
    NoGoroutines, Working, Windows, Inserted, Undecided

\* Sessions end, and their goroutines go on without them or not at all.
LEMMA SessionsEndShared ==
    ASSUME Inv, Inv', SharedInv, Tracked, NEW S \in SUBSET Sessions, EndSessions(S),
           \A s \in Sessions \ S : pc'[s] = pc[s] /\ (Stopped(s) => Stopped(s)')
    PROVE  SharedKept
<1> USE NoSessionAssumption DEF EndSessions, Inv, TypeOK, DBTypeOK, Tracked
<1>1. DepthOK'
  BY DEF SharedInv, DepthOK
<1>2. LocksReturned'
  BY DEF SharedInv, LocksReturned, Working
<1>3. TxOK'
  BY DEF SharedInv, TxOK
<1>4. EventsOK'
  BY DEF SharedInv, EventsOK, TxOK, NoEvents, SuccessEvent
<1>5. ClaimOK => ClaimOK'
  BY DEF ClaimOK
<1> QED  BY <1>1, <1>2, <1>3, <1>4, <1>5 DEF SharedKept, SharedInv

\* When a goroutine ends the transaction of its session, those whose transaction
\* that was are crossed: the others have no event in it.
LEMMA TakenIsCrossed ==
    ASSUME Inv, SharedInv, Tracked, NEW s \in open', NEW a \in Actions, NEW step,
           Goto(s, a, step), UNCHANGED open, s \notin inTx',
           NEW b \in Actions \ crossed', b # a
    PROVE  pc[s][b] \notin Windows /\ pc[s][b] \notin Inserted /\ events[s][b] = NoEvent
<1>1. s \in Sessions /\ s \in open /\ b \notin crossed
  BY DEF Inv, TypeOK, DBTypeOK, Tracked
<1>2. pc'[s][b] = pc[s][b]
  BY <1>1 DEF Goto, Inv, TypeOK
<1>3. pc[s][b] \notin Windows
  <2> SUFFICES ASSUME pc[s][b] \in Windows PROVE FALSE
    OBVIOUS
  <2>1. s \in inTx
    BY <1>1 DEF SharedInv, TxOK
  <2>2. TxTaken(s, b)
    BY <1>1, <1>2, <2>1 DEF TxTaken
  <2> QED  BY <1>1, <2>2 DEF Tracked
<1>4. pc[s][b] \notin Inserted
  BY <1>3 DEF Inserted, Windows
<1> QED  BY <1>1, <1>3, <1>4 DEF SharedInv, EventsOK

\* A goroutine goes on to `step', and leaves its session's transaction as it is or
\* begins or ends it.
LEMMA GoroutineShared ==
    ASSUME Inv, Inv', SharedInv, Tracked, NEW s \in Sessions, NEW a \in Actions,
           NEW step \in Steps, Working(s, a), step # "none", Goto(s, a, step),
           UNCHANGED <<stopping, open, lock, depth>>,
           \A t \in Sessions \ {s} : (t \in inTx' <=> t \in inTx) /\ events'[t] = events[t],
           s \in inTx' => s \in open,
           \A b \in Actions : events'[s][b] # NoEvent => s \in inTx',
           \A b \in Actions \ {a} :
               \/ events'[s][b] = events[s][b]
               \/ s \in open /\ s \notin inTx' /\ events'[s][b] = NoEvent,
           a \notin crossed' =>
               /\ s \in open /\ step \in Windows => s \in inTx'
               /\ events'[s][a] = IF s \in open /\ step \in Inserted
                                  THEN SuccessEvent(a) ELSE NoEvent
               /\ ClaimOK /\ s \in open /\ step \in Undecided => status'[a] \in OpenStates,
           \A b \in Actions \ crossed' : b # a \/ s \notin open => status'[b] = status[b]
    PROVE  SharedKept
<1>0. pc' = [pc EXCEPT ![s][a] = step] /\ pc \in [Sessions -> [Actions -> Steps]]
      /\ open \subseteq Sessions /\ inTx' \subseteq Sessions
  BY DEF Goto, Inv, TypeOK, DBTypeOK
<1>1. \A t \in Sessions, b \in Actions : pc'[t][b] = IF t = s /\ b = a THEN step ELSE pc[t][b]
  BY <1>0
<1>2. \A t \in Sessions, b \in Actions : Working(t, b)' <=> Working(t, b)
  BY <1>1 DEF Working
<1>3. crossed \subseteq crossed' /\ stuck \subseteq stuck'
  BY DEF Tracked
<1>4. ASSUME s \in open, s \notin inTx', NEW b \in Actions \ crossed', b # a
      PROVE  pc[s][b] \notin Windows /\ pc[s][b] \notin Inserted
  BY <1>4, TakenIsCrossed
<1>5. DepthOK' /\ LocksReturned'
  BY <1>2, <1>3 DEF SharedInv, DepthOK, LocksReturned, Stopped
<1>6. TxOK'
  <2>1. inTx' \subseteq open'
    BY <1>0 DEF SharedInv, TxOK
  <2> SUFFICES ASSUME NEW t \in open, NEW b \in Actions \ crossed', pc'[t][b] \in Windows
               PROVE  t \in inTx'
    BY <2>1 DEF TxOK
  <2>2. CASE t # s
    BY <1>0, <1>1, <1>3, <2>2 DEF SharedInv, TxOK
  <2>3. CASE t = s /\ b = a
    BY <1>0, <1>1, <2>3
  <2>4. CASE t = s /\ b # a
    BY <1>0, <1>1, <1>4, <2>4
  <2> QED  BY <2>2, <2>3, <2>4
<1>7. EventsOK'
  <2>1. \A t \in Sessions, b \in Actions : events'[t][b] # NoEvent => t \in inTx'
    BY DEF SharedInv, EventsOK
  <2> SUFFICES ASSUME NEW t \in Sessions, NEW b \in Actions \ crossed'
               PROVE  events'[t][b] = IF t \in open' /\ pc'[t][b] \in Inserted
                                      THEN SuccessEvent(b) ELSE NoEvent
    BY <2>1 DEF EventsOK, SuccessEvent
  <2>0. events[t][b] = IF t \in open /\ pc[t][b] \in Inserted
                       THEN SuccessEvent(b) ELSE NoEvent
    BY <1>3 DEF SharedInv, EventsOK
  <2>2. CASE t # s
    BY <1>1, <2>0, <2>2
  <2>3. CASE t = s /\ b = a
    BY <1>1, <2>3
  <2>4. CASE t = s /\ b # a
    BY <1>1, <1>4, <2>0, <2>4
  <2> QED  BY <2>2, <2>3, <2>4
<1>8. ASSUME ClaimOK, NEW t \in open, NEW b \in Actions \ crossed', pc'[t][b] \in Undecided
      PROVE  status'[b] \in OpenStates
  <2>1. t \in Sessions /\ b \notin crossed
    BY <1>0, <1>3
  <2>2. CASE t = s /\ b = a
    BY <1>1, <1>8, <2>1, <2>2
  <2>3. CASE t = s /\ b # a
    BY <1>1, <1>8, <2>1, <2>3 DEF ClaimOK
  <2>4. CASE t # s
    <3>1. Working(t, b) /\ pc[t][b] \in Undecided
      BY <1>1, <1>8, <2>1, <2>4 DEF Working, Undecided
    <3>2. b # a \/ s \notin open
      BY <2>4, <3>1 DEF Inv, AttemptsOK
    <3> QED  BY <1>8, <2>1, <3>1, <3>2 DEF ClaimOK
  <2> QED  BY <2>2, <2>3, <2>4
<1>9. SharedInv'
  BY <1>5, <1>6, <1>7 DEF SharedInv
<1> QED  BY <1>8, <1>9 DEF SharedKept, ClaimOK

\* What a goroutine at work knows of its lock, its session and its action.
LEMMA AtWork ==
    ASSUME Inv, SharedInv, NEW s \in Sessions, NEW a \in Actions, Working(s, a)
    PROVE  /\ s \in inTx => s \in open
           /\ \A b \in Actions : events[s][b] # NoEvent => s \in inTx
           /\ s \in open => lock[a] = s
           /\ s \in open /\ a \notin stuck => depth[a] = 1
           /\ a \notin crossed =>
                /\ s \in open /\ pc[s][a] \in Windows => s \in inTx
                /\ events[s][a] = IF s \in open /\ pc[s][a] \in Inserted
                                  THEN SuccessEvent(a) ELSE NoEvent
                /\ ClaimOK /\ s \in open /\ pc[s][a] \in Undecided => status[a] \in OpenStates
<1>1. s \in open => lock[a] = s
  BY DEF Inv, AttemptsOK
<1>2. s \in open /\ a \notin stuck => depth[a] = 1
  BY <1>1, NoSessionAssumption DEF SharedInv, DepthOK
<1> QED  BY <1>1, <1>2 DEF SharedInv, TxOK, EventsOK, ClaimOK

\* One step of HandleActionWrapper.
LEMMA ExecuteShared ==
    ASSUME Inv, Inv', SharedInv, Tracked, NEW s \in Sessions, NEW a \in Actions,
           Execute(s, a) \/ Handle(s, a)
    PROVE  SharedKept
<1>0. Working(s, a)
  BY DEF Execute, Handle, Begin, Insert, Commit, Undo, HandleError, RecordError, Unlock, Working
<1>1. TypeOK /\ open \subseteq Sessions /\ crossed \subseteq crossed'
      /\ events \in [Sessions -> [Actions -> Statuses \cup {NoEvent}]]
      /\ status \in [Actions -> Statuses]
  BY DEF Inv, TypeOK, DBTypeOK, Tracked
<1> DEFINE Rest == UNCHANGED <<loop, notified, stopping>>
<1>3. ASSUME EndSessions({s}), Goto(s, a, "unlock"), Rest
      PROVE  SharedKept
  <2>1. \A t \in Sessions \ {s} : pc'[t] = pc[t] /\ (Stopped(t) => Stopped(t)')
    BY <1>1, <1>3 DEF TypeOK, Goto, Stopped
  <2> QED  BY <1>3, <2>1, SessionsEndShared
<1>4. CASE Begin(s, a)
  <2>1. CASE CanExec(s) /\ BeginTx(s) /\ Goto(s, a, "insert")
    <3>1. /\ UNCHANGED <<stopping, open, lock, depth, events, status>>
          /\ inTx' = inTx \cup {s} /\ s \in open /\ pc[s][a] = "begin"
      BY <1>4, <2>1 DEF Begin, BeginTx, CanExec
    <3> QED  BY <1>0, <1>1, <2>1, <3>1, GoroutineShared, AtWork
             DEF Windows, Inserted, Undecided, Steps
  <2> QED  BY <1>3, <1>4, <2>1 DEF Begin
<1>5. CASE Insert(s, a)
  <2>0. pc[s][a] = "insert" /\ UNCHANGED <<stopping, open, lock, depth, inTx>>
    BY <1>5 DEF Insert, InsertEvent
  <2>1. CASE CanExec(s) /\ InsertEvent(s, a, SuccessEvent(a)) /\ Goto(s, a, "handle")
    <3>0. s \in open
      BY <2>1 DEF CanExec
    <3>1. CASE s \in inTx
      <4>1. events' = [events EXCEPT ![s][a] = SuccessEvent(a)] /\ UNCHANGED status
        BY <2>1, <3>1 DEF InsertEvent
      <4> QED  BY <1>0, <1>1, <2>0, <2>1, <3>0, <3>1, <4>1, GoroutineShared, AtWork
               DEF Windows, Inserted, Undecided, Steps
    <3>2. CASE s \notin inTx
      <4>1. a \in crossed'
        BY <1>0, <1>1, <2>0, <3>0, <3>2, AtWork DEF Windows
      <4>2. UNCHANGED events /\ \A b \in Actions \ {a} : status'[b] = status[b]
        BY <1>1, <2>1, <3>2 DEF InsertEvent
      <4> QED  BY <1>0, <2>0, <2>1, <3>0, <4>1, <4>2, GoroutineShared, AtWork
               DEF Windows, Steps
    <3> QED  BY <3>1, <3>2
  <2>2. CASE Goto(s, a, "undo") /\ UNCHANGED dbVars
    BY <1>0, <1>1, <2>0, <2>2, GoroutineShared, AtWork
    DEF Windows, Inserted, Undecided, Steps
  <2> QED  BY <1>5, <2>1, <2>2 DEF Insert
<1>6. CASE Handle(s, a)
  <2>1. PICK next \in {"commit", "rollbackRetryable", "rollbackFatal"} : Goto(s, a, next)
    BY <1>6 DEF Handle
  <2>2. next \in Windows /\ next \in Inserted /\ next \in Steps /\ next # "none"
    BY DEF Windows, Inserted, Steps
  <2>3. pc[s][a] \in Windows \cap Inserted \cap Undecided /\ UNCHANGED <<dbVars, stopping>>
    BY <1>6 DEF Handle, Windows, Inserted, Undecided, Steps
  <2> QED  BY <1>0, <1>1, <2>1, <2>2, <2>3, GoroutineShared, AtWork
<1>7. ASSUME s \in open, inTx' = inTx \ {s}, events' = [events EXCEPT ![s] = NoEvents],
             UNCHANGED <<stopping, open, lock, depth>>, NEW step \in {"unlock", "backoff", "failed"},
             Goto(s, a, step), \A b \in Actions \ crossed' : b # a => status'[b] = status[b],
             ClaimOK /\ a \notin crossed' /\ step # "unlock" => status'[a] \in OpenStates
      PROVE  SharedKept
  <2>1. /\ step \in Steps /\ step # "none" /\ step \notin Windows /\ step \notin Inserted
        /\ step \in Undecided => step # "unlock"
    BY DEF Windows, Inserted, Undecided, Steps, AfterHandling
  <2>2. \A t \in Sessions \ {s} : events'[t] = events[t]
    BY <1>1, <1>7
  <2>3. \A b \in Actions : events'[s][b] = NoEvent
    BY <1>1, <1>7 DEF NoEvents
  <2> QED  BY <1>0, <1>7, <2>1, <2>2, <2>3, GoroutineShared
<1>8. CASE Commit(s, a)
  <2>0. pc[s][a] = "commit" /\ Goto(s, a, "unlock") /\ UNCHANGED stopping
    BY <1>8 DEF Commit
  <2>1. CASE CanExec(s) /\ CommitTx(s)
    <3>1. s \in open /\ s \notin inTx' /\ UNCHANGED open
      BY <2>1 DEF CanExec, CommitTx
    <3>2. \A b \in Actions \ crossed' : b # a => events[s][b] = NoEvent
      BY <2>0, <3>1, TakenIsCrossed
    <3>3. \A b \in Actions \ crossed' : b # a => status'[b] = status[b]
      BY <2>1, <3>2 DEF CommitTx
    <3> QED  BY <1>7, <2>0, <2>1, <3>1, <3>3 DEF CommitTx
  <2>2. CASE s \notin inTx /\ UNCHANGED dbVars
    BY <1>0, <1>1, <2>0, <2>2, GoroutineShared, AtWork
    DEF Windows, Inserted, Undecided, Steps, AfterHandling
  <2> QED  BY <1>3, <1>8, <2>1, <2>2 DEF Commit
<1>9. ASSUME NEW next \in {"unlock", "backoff", "failed"}, Rollback(s, a, next),
             pc[s][a] \in Undecided
      PROVE  SharedKept
  <2>1. CASE CanExec(s) /\ RollbackTx(s) /\ Goto(s, a, next)
    <3>1. ClaimOK /\ a \notin crossed' /\ s \in open => status[a] \in OpenStates
      BY <1>0, <1>1, <1>9, AtWork
    <3> QED  BY <1>7, <1>9, <2>1, <3>1 DEF Rollback, RollbackTx, CanExec
  <2> QED  BY <1>3, <1>9, <2>1 DEF Rollback
<1>10. CASE Undo(s, a)
  BY <1>9, <1>10 DEF Undo, Undecided, Steps, Windows
<1>11. CASE HandleError(s, a)
  BY <1>9, <1>11 DEF HandleError, Undecided, Steps, Windows
<1>12. CASE RecordError(s, a)
  <2>1. pc[s][a] \in {"backoff", "failed"} /\ pc[s][a] \notin Windows /\ pc[s][a] \notin Inserted
    BY <1>12 DEF RecordError, Windows, Inserted
  <2>2. /\ Goto(s, a, "unlock") /\ pc'[s][a] = "unlock"
        /\ "unlock" \in Steps \ {"none"} /\ "unlock" \notin Windows \cup Inserted \cup Undecided
    BY <1>1, <1>12
    DEF RecordError, Goto, TypeOK, Windows, Inserted, Undecided, Steps, AfterHandling
  <2>4. CASE CanExec(s) /\ InsertEvent(s, a, ErrorEvent(s, a))
    <3>0. s \in open /\ UNCHANGED <<lock, depth, open, inTx, stopping>>
      BY <1>12, <2>4 DEF CanExec, InsertEvent, RecordError
    <3>1. CASE s \in inTx
      <4>1. events' = [events EXCEPT ![s][a] = ErrorEvent(s, a)] /\ UNCHANGED status
        BY <2>4, <3>1 DEF InsertEvent
      <4>2. a \in crossed'
        BY <1>1, <2>1, <2>2, <3>0, <3>1, <4>1 DEF ErrorAstray, ErrorRecorded, Tracked
      <4> QED  BY <1>0, <1>1, <2>2, <3>0, <3>1, <4>1, <4>2, GoroutineShared
    <3>2. CASE s \notin inTx
      <4>1. UNCHANGED events /\ \A b \in Actions \ {a} : status'[b] = status[b]
        BY <1>1, <2>4, <3>2 DEF InsertEvent
      <4> QED  BY <1>0, <1>1, <2>1, <2>2, <3>0, <3>2, <4>1, GoroutineShared, AtWork
    <3> QED  BY <3>1, <3>2
  <2>5. CASE UNCHANGED dbVars
    BY <1>0, <1>1, <1>12, <2>1, <2>2, <2>5, GoroutineShared, AtWork DEF RecordError
  <2> QED  BY <1>12, <2>4, <2>5 DEF RecordError
<1>13. CASE Unlock(s, a)
  <2>1. pc' = [pc EXCEPT ![s][a] = "none"] /\ UNCHANGED <<stopping, open, inTx, events, status>>
    BY <1>13 DEF Unlock, Goto, UnlockThread
  <2>2. \A t \in Sessions, b \in Actions : pc'[t][b] = IF t = s /\ b = a THEN "none" ELSE pc[t][b]
    BY <1>1, <2>1 DEF TypeOK
  <2>3. pc[s][a] = "unlock" /\ stuck \subseteq stuck'
    BY <1>13 DEF Unlock, Tracked
  <2>4. TxOK' /\ EventsOK' /\ (ClaimOK => ClaimOK')
    <3>1. \A t \in Sessions, b \in Actions :
            /\ pc'[t][b] \in Windows <=> pc[t][b] \in Windows
            /\ pc'[t][b] \in Inserted <=> pc[t][b] \in Inserted
            /\ pc'[t][b] \in Undecided => pc[t][b] \in Undecided
      BY <2>2, <2>3 DEF Windows, Inserted, Undecided
    <3>2. TxOK'
      BY <1>1, <2>1, <3>1 DEF SharedInv, TxOK
    <3>3. EventsOK'
      BY <1>1, <2>1, <3>1 DEF SharedInv, EventsOK, SuccessEvent
    <3>5. ClaimOK => ClaimOK'
      BY <1>1, <2>1, <3>1 DEF ClaimOK
    <3> QED  BY <3>2, <3>3, <3>5
  <2>5. CASE CanExec(s) /\ UnlockThread(s, a)
    <3>1. lock[a] = s /\ (a \notin stuck => depth[a] = 1)
      BY <1>0, <2>5, AtWork DEF CanExec
    <3>2. /\ a \notin stuck => lock'[a] = NoSession
          /\ \A b \in Actions \ {a} : lock'[b] = lock[b] /\ depth'[b] = depth[b]
      BY <1>1, <2>5, <3>1 DEF UnlockThread, TypeOK, DBTypeOK
    <3>3. DepthOK'
      BY <2>3, <3>2 DEF SharedInv, DepthOK
    <3>4. LocksReturned'
      BY <2>1, <2>2, <2>3, <3>2, NoSessionAssumption
      DEF SharedInv, LocksReturned, Working, Stopped
    <3> QED  BY <2>4, <3>3, <3>4 DEF SharedKept, SharedInv
  <2>6. CASE CanFail(s, a) /\ UNCHANGED dbVars
    <3>1. s \notin open \/ Stopped(s) \/ a \in stuck'
      BY <2>2, <2>3, <2>6 DEF UnlockRefused, ConnBusy, CanExec, CanFail, Tracked
    <3>2. \A b \in Actions : lock[b] = s => s \in open
      BY NoSessionAssumption DEF Inv, LocksOK
    <3>3. DepthOK' /\ LocksReturned'
      BY <2>1, <2>2, <2>3, <2>6, <3>1, <3>2
      DEF SharedInv, DepthOK, LocksReturned, Working, Stopped
    <3> QED  BY <2>4, <3>3 DEF SharedKept, SharedInv
  <2> QED  BY <1>13, <2>5, <2>6 DEF Unlock
<1> QED
  BY <1>4, <1>5, <1>6, <1>8, <1>10, <1>11, <1>12, <1>13 DEF Execute

\* The process of a handler ends.
LEMMA ExitShared ==
    ASSUME Inv, Inv', SharedInv, Tracked, NEW p \in Processes, Exit(p)
    PROVE  SharedKept
<1>1. \A s \in Sessions \ SessionsOf(p) : pc'[s] = pc[s] /\ (Stopped(s) => Stopped(s)')
  BY DEF Exit, SessionsOf, Stopped
<1> QED  BY <1>1, SessionsEndShared DEF Exit, SessionsOf

\* A batch is of processable actions, and nobody holds the lock of one yet unless
\* it is stuck.
LEMMA BatchIsFree ==
    ASSUME Inv, SharedInv, NEW s \in Sessions, loop[s] = "wait", CanExec(s),
           NEW batch \in Batches(s), NEW a \in batch
    PROVE  a \in Actions /\ Processable(a) /\ (a \notin stuck => lock[a] = NoSession)
<1>1. a \in Claimable(s, Serves[s])
  BY DEF Batches
<1>2. a \in Actions /\ Processable(a) /\ lock[a] \in {NoSession, s}
  BY <1>1, ConductorAssumption DEF Claimable
<1> QED  BY <1>2 DEF SharedInv, LocksReturned, Inv, LoopsOK, CanExec

LEMMA RunShared ==
    ASSUME Inv, Inv', SharedInv, Tracked, NEW s \in Sessions, Run(s), ~Exit(ProcessOf[s])
    PROVE  SharedKept
<1> PICK batch \in Batches(s) :
      /\ LockThreads(s, batch)
      /\ pc' = [pc EXCEPT ![s] = [a \in Actions |-> IF a \in batch THEN "begin" ELSE "none"]]
  BY DEF Run
<1>0. crossed \subseteq crossed' /\ stuck \subseteq stuck' /\ open \subseteq Sessions
  BY DEF Tracked, Inv, TypeOK, DBTypeOK
<1>1. CanExec(s) /\ loop[s] = "wait" /\ UNCHANGED stopping
  BY DEF Run
<1>2. \A a \in batch : a \in Actions /\ Processable(a) /\ (a \notin stuck => lock[a] = NoSession)
  BY <1>1, BatchIsFree
<1>3. \A a \in Actions : pc[s][a] = "none"
  BY <1>1 DEF Inv, LoopsOK, Working
<1>4. \A t \in Sessions, a \in Actions :
        pc'[t][a] = IF t = s THEN IF a \in batch THEN "begin" ELSE "none" ELSE pc[t][a]
  BY DEF Inv, TypeOK
<1>5. \A t \in Sessions, a \in Actions :
        /\ pc'[t][a] \in Windows <=> pc[t][a] \in Windows
        /\ pc'[t][a] \in Inserted <=> pc[t][a] \in Inserted
  BY <1>3, <1>4 DEF Windows, Inserted
<1>7. DepthOK'
  <2>1. \A a \in batch \ stuck : depth[a] = 0
    BY <1>2 DEF Inv, LocksOK
  <2> QED  BY <1>0, <2>1 DEF LockThreads, SharedInv, DepthOK
<1>8. LocksReturned'
  BY <1>0, <1>1, <1>2, <1>3, <1>4 DEF LockThreads, SharedInv, LocksReturned, Working, Stopped
<1>9. TxOK' /\ EventsOK'
  BY <1>0, <1>5 DEF LockThreads, SharedInv, TxOK, EventsOK, SuccessEvent
<1>10. ClaimOK => ClaimOK'
  <2> SUFFICES ASSUME ClaimOK, NEW t \in open, NEW a \in Actions \ crossed',
                      pc'[t][a] \in Undecided
               PROVE  status[a] \in OpenStates
    BY DEF LockThreads, ClaimOK
  <2>1. t \in Sessions
    BY <1>0
  <2>2. CASE t = s
    BY <1>2, <1>4, <2>1, <2>2 DEF Undecided, Processable, OpenStates
  <2>3. CASE t # s
    BY <1>0, <1>4, <2>1, <2>3 DEF ClaimOK
  <2> QED  BY <2>2, <2>3
<1> QED  BY <1>7, <1>8, <1>9, <1>10 DEF SharedKept, SharedInv

\* Steps that touch no goroutine, lock, transaction or event.
LEMMA AsideShared ==
    ASSUME Inv, SharedInv, Tracked, UNCHANGED <<pc, lock, depth, inTx, events, status>>,
           open' = open \/ \E s \in Sessions : open' = open \cup {s} /\ \A a \in Actions : pc[s][a] = "none",
           \A s \in open : Stopped(s) => Stopped(s)'
    PROVE  SharedKept
<1> USE DEF SharedInv, Tracked
<1>1. DepthOK'
  BY DEF DepthOK
<1>2. LocksReturned'
  BY NoSessionAssumption DEF LocksReturned, Working, Inv, LocksOK
<1>3. TxOK'
  BY DEF TxOK, Windows
<1>4. EventsOK'
  BY DEF EventsOK, SuccessEvent, Inserted
<1>5. ClaimOK => ClaimOK'
  BY DEF ClaimOK, Undecided
<1> QED  BY <1>1, <1>2, <1>3, <1>4, <1>5 DEF SharedKept

LEMMA NextShared ==
    ASSUME Inv, Inv', SharedInv, Tracked, [Next]_vars
    PROVE  SharedKept
<1>0. \A s \in Sessions : ProcessOf[s] \in Processes
  BY ConductorAssumption
<1>1. ASSUME NEW s \in Sessions, NEW a \in Actions, Execute(s, a) \/ Handle(s, a)
      PROVE  SharedKept
  BY <1>1, ExecuteShared
<1>2. ASSUME NEW s \in Sessions, Exit(ProcessOf[s]) PROVE SharedKept
  BY <1>0, <1>2, ExitShared
<1>3. ASSUME NEW s \in Sessions, Run(s) PROVE SharedKept
  BY <1>2, <1>3, RunShared
<1>4. ASSUME NEW s \in Sessions, ConnectHandler(s) PROVE SharedKept
  <2>1. CASE Connect(s) /\ UNCHANGED <<pc, stopping>>
    BY <1>4, <2>1, AsideShared DEF ConnectHandler, Connect, Inv, LoopsOK, Working, Stopped
  <2> QED  BY <1>2, <1>4, <2>1 DEF ConnectHandler
<1>5. ASSUME NEW s \in Sessions, HandlerReturns(s) \/ ConnLost(s) PROVE SharedKept
  BY <1>5, SessionsEndShared DEF HandlerReturns, ConnLost, Stopped
<1>6. ASSUME NEW p \in Processes, Crash(p) PROVE SharedKept
  BY <1>6, ExitShared DEF Crash
<1>7. ASSUME NEW p \in Processes, Launch(p) PROVE SharedKept
  <2>1. \A s \in open : ProcessOf[s] # p
    BY <1>7 DEF Launch, SessionsOf, Inv, LoopsOK, TypeOK, DBTypeOK
  <2> QED  BY <1>7, <2>1, AsideShared DEF Launch, Stopped
<1>8. CASE \/ \E s \in Sessions : BatchDone(s) \/ NotifyNow(s)
           \/ \E p \in Processes : Stop(p)
           \/ \E a \in Actions : Elapse(a)
           \/ UNCHANGED vars
  <2>1. UNCHANGED <<pc, lock, depth, inTx, events, status, open>> /\ stopping \subseteq stopping'
    BY <1>8 DEF BatchDone, NotifyNow, Stop, Elapse, BackoffElapses, vars
  <2> QED  BY <2>1, AsideShared DEF Stopped
<1> QED
  BY <1>1, <1>3, <1>4, <1>5, <1>6, <1>7, <1>8 DEF Next, LoopStep

LEMMA SharedStep ==
    ASSUME Inv, SharedInv, [SharedNext]_sharedVars
    PROVE  Inv' /\ SharedKept /\ Tracked
<1>1. [Next]_vars /\ Tracked
  BY TrackTracks DEF SharedNext, sharedVars
<1>2. Inv'
  BY <1>1, NextInv
<1> QED  BY <1>1, <1>2, NextShared

LEMMA SharedInvariance == SharedSpec => [](Inv /\ SharedInv /\ ClaimOK)
<1>1. SharedInit => Inv /\ SharedInv /\ ClaimOK
  BY InitInv, SharedInitInv DEF SharedInit
<1>2. Inv /\ SharedInv /\ ClaimOK /\ [SharedNext]_sharedVars
      => (Inv /\ SharedInv /\ ClaimOK)'
  BY SharedStep DEF SharedKept
<1> QED  BY <1>1, <1>2, PTL DEF SharedSpec

\* No lock outlives its goroutine, however many share the connection, unless
\* Unlock found the connection in use, and except in a process that is about to
\* end.
THEOREM LocksAreReturned == SharedSpec => []LocksReturned
BY SharedInvariance, PTL DEF SharedInv

-----------------------------------------------------------------------------
(* What handleFn did and what is recorded.                                  *)

CommitOK ==
    \A s \in open, a \in Actions \ crossed : pc[s][a] = "commit" => outcome[a] = "success"

HistInv ==
    /\ HandledOnce
    /\ outcome \in [Actions -> {"none", "success", "refused", "repeated"}]
    /\ SuccessIsHandled
    /\ HandledIsRecorded
    /\ CommitOK

\* Where handleFn returns to.
Verdicts == {"commit", "rollbackRetryable", "rollbackFatal"}

\* What a step that is not a return of handleFn does to goroutines and statuses.
StepsKept ==
    \A s \in Sessions, a \in Actions :
        /\ pc[s][a] = "handle" => pc'[s][a] \in {"handle", "none"}
        /\ pc'[s][a] = "handle" => pc[s][a] \in {"handle", "insert"}
        /\ pc'[s][a] \in Verdicts => pc[s][a] = pc'[s][a]
        /\ pc'[s][a] = "backoff" => pc[s][a] \in {"backoff", "rollbackRetryable"}
        /\ pc'[s][a] = "failed" => pc[s][a] \in {"failed", "rollbackFatal"}
        /\ s \in open' /\ pc'[s][a] # "none" => s \in open
        /\ pc'[s][a] \in Undecided => pc[s][a] \in Undecided \/ status[a] \in OpenStates

CommitsKept ==
    \A s \in open, a \in Actions \ crossed' :
        pc[s][a] = "commit" =>
            s \notin open' \/ pc'[s][a] = "commit" \/ status'[a] \in DoneStates

StatusesKept ==
    \A a \in Actions \ crossed' :
        \/ status'[a] = status[a]
        \/ \E s \in open \cap open' : /\ ~Stopped(s)
                                    /\ pc'[s][a] = "unlock"
                                    /\ \/ pc[s][a] = "commit" /\ status'[a] = SuccessEvent(a)
                                       \/ pc[s][a] = "backoff" /\ status'[a] = "BACKOFF"
                                       \/ pc[s][a] = "failed" /\ status'[a] = "FAILED"

Kept == StepsKept /\ CommitsKept /\ StatusesKept

\* A step by which no goroutine gets anywhere.
LEMMA StandStill ==
    ASSUME UNCHANGED status, open \subseteq Sessions,
           \A s \in Sessions, a \in Actions :
               /\ pc'[s][a] \in {pc[s][a], "none", "begin"} \/ (s \notin open' /\ pc'[s][a] = "unlock" /\ pc[s][a] # "handle")
               /\ s \in open /\ pc[s][a] = "commit" => s \notin open' \/ pc'[s][a] = "commit"
               /\ s \in open' /\ s \notin open => pc'[s][a] = "none"
               /\ pc'[s][a] = "begin" => pc[s][a] = "begin" \/ status[a] \in OpenStates
               /\ pc[s][a] = "handle" => pc'[s][a] \in {"handle", "none"}
    PROVE  Kept
BY DEF Kept, StepsKept, CommitsKept, StatusesKept, Verdicts, Undecided, Steps, Windows,
       AfterHandling

LEMMA ExecuteKeeps ==
    ASSUME Inv, SharedInv, Tracked, NEW s \in Sessions, NEW a \in Actions, Execute(s, a)
    PROVE  Kept
<1>0. Working(s, a) /\ pc[s][a] # "handle"
  BY DEF Execute, Begin, Insert, Commit, Undo, HandleError, RecordError, Unlock, Working
<1>1. /\ pc \in [Sessions -> [Actions -> Steps]] /\ open \subseteq Sessions
      /\ status \in [Actions -> Statuses] /\ crossed \subseteq crossed'
  BY DEF Inv, TypeOK, DBTypeOK, Tracked
<1>2. ASSUME NEW step \in Steps, Goto(s, a, step)
      PROVE  \A t \in Sessions, b \in Actions :
                pc'[t][b] = IF t = s /\ b = a THEN step ELSE pc[t][b]
  BY <1>1, <1>2 DEF Goto
<1>3. ASSUME EndSessions({s}), Goto(s, a, "unlock")
      PROVE  Kept
  BY <1>0, <1>1, <1>2, <1>3
  DEF EndSessions, Kept, StepsKept, CommitsKept, StatusesKept, Steps, AfterHandling, Verdicts,
      Undecided
<1>4. ASSUME NEW step \in Steps \ Verdicts, Goto(s, a, step), UNCHANGED open,
             \A b \in Actions \ crossed' : status'[b] = status[b],
             pc[s][a] = "commit" => a \in crossed' \/ s \notin open,
             step \in Undecided => pc[s][a] \in Undecided,
             step = "handle" => pc[s][a] = "insert",
             step = "backoff" => pc[s][a] = "rollbackRetryable",
             step = "failed" => pc[s][a] = "rollbackFatal"
      PROVE  Kept
  BY <1>0, <1>1, <1>2, <1>4 DEF Kept, StepsKept, CommitsKept, StatusesKept, Working
<1>5. CASE Begin(s, a)
  BY <1>3, <1>4, <1>5 DEF Begin, BeginTx, Steps, Windows, Verdicts, Undecided
<1>6. CASE Insert(s, a)
  <2>1. ASSUME InsertEvent(s, a, SuccessEvent(a)), s \in open
        PROVE  UNCHANGED open /\ \A b \in Actions \ crossed' : status'[b] = status[b]
    <3>1. s \in inTx \/ a \in crossed'
      BY <1>0, <1>1, <1>6, <2>1, AtWork DEF Insert, Windows
    <3> QED  BY <1>1, <2>1, <3>1 DEF InsertEvent
  <2> QED  BY <1>4, <1>6, <2>1 DEF Insert, CanExec, Steps, Windows, Verdicts, Undecided
<1>7. CASE Commit(s, a)
  <2>0. pc[s][a] = "commit" /\ Goto(s, a, "unlock") /\ "unlock" \in Steps \ Verdicts
        /\ "unlock" \notin Undecided
    BY <1>7 DEF Commit, Steps, AfterHandling, Verdicts, Undecided
  <2>1. CASE CanExec(s) /\ CommitTx(s)
    <3>0. s \in open /\ ~Stopped(s) /\ UNCHANGED open /\ s \notin inTx'
      BY <2>1 DEF CanExec, CommitTx
    <3>1. \A b \in Actions \ crossed' : b # a => status'[b] = status[b]
      <4>1. \A b \in Actions \ crossed' : b # a => events[s][b] = NoEvent
        BY <2>0, <3>0, TakenIsCrossed
      <4> QED  BY <2>1, <4>1 DEF CommitTx
    <3>2. a \notin crossed' => status'[a] = SuccessEvent(a)
      <4>1. a \notin crossed' => events[s][a] = SuccessEvent(a)
        BY <1>0, <1>1, <2>0, <3>0, AtWork DEF Inserted
      <4> QED  BY <2>1, <4>1, NoEventAssumption
               DEF CommitTx, SuccessEvent, DoneStates, Statuses
    <3>3. \A t \in Sessions, b \in Actions :
             pc'[t][b] = IF t = s /\ b = a THEN "unlock" ELSE pc[t][b]
      BY <1>2, <2>0
    <3>4. SuccessEvent(a) \in DoneStates
      BY DEF SuccessEvent, DoneStates
    <3>5. StepsKept
      BY <2>0, <3>0, <3>3 DEF StepsKept, Verdicts
    <3>6. CommitsKept
      BY <1>1, <3>2, <3>3, <3>4 DEF CommitsKept
    <3>7. StatusesKept
      BY <1>1, <2>0, <3>0, <3>1, <3>2, <3>3 DEF StatusesKept
    <3> QED  BY <3>5, <3>6, <3>7 DEF Kept
  <2>2. CASE s \notin inTx /\ UNCHANGED dbVars
    <3>1. s \notin open \/ a \in crossed'
      BY <1>0, <1>1, <2>0, <2>2, AtWork DEF Windows
    <3> QED  BY <1>4, <2>0, <2>2, <3>1
  <2> QED  BY <1>3, <1>7, <2>1, <2>2 DEF Commit
<1>8. CASE Undo(s, a) \/ HandleError(s, a)
  BY <1>3, <1>4, <1>8
  DEF Undo, HandleError, Rollback, RollbackTx, Steps, Windows, AfterHandling, Verdicts, Undecided
<1>9. CASE RecordError(s, a)
  <2>0. pc[s][a] \in {"backoff", "failed"} /\ Goto(s, a, "unlock") /\ "unlock" \in Steps \ Verdicts
        /\ "unlock" \notin Undecided
    BY <1>9 DEF RecordError, Steps, AfterHandling, Verdicts, Undecided
  <2>1. CASE CanExec(s) /\ InsertEvent(s, a, ErrorEvent(s, a))
    <3>0. s \in open /\ ~Stopped(s) /\ UNCHANGED open
      BY <2>1 DEF CanExec, InsertEvent
    <3>1. CASE s \in inTx
      BY <1>4, <2>0, <2>1, <3>0, <3>1 DEF InsertEvent
    <3>2. CASE s \notin inTx
      <4>1. status' = [status EXCEPT ![a] = ErrorEvent(s, a)]
        BY <2>1, <3>2 DEF InsertEvent
      <4>2. ErrorEvent(s, a) = IF pc[s][a] = "backoff" THEN "BACKOFF" ELSE "FAILED"
        BY DEF ErrorEvent
      <4>3. \A t \in Sessions, b \in Actions :
               pc'[t][b] = IF t = s /\ b = a THEN "unlock" ELSE pc[t][b]
        BY <1>2, <2>0
      <4>4. StepsKept
        BY <2>0, <3>0, <4>3 DEF StepsKept, Verdicts
      <4>5. CommitsKept
        BY <1>1, <2>0, <4>3 DEF CommitsKept
      <4>6. StatusesKept
        BY <1>1, <2>0, <3>0, <4>1, <4>2, <4>3 DEF StatusesKept
      <4> QED  BY <4>4, <4>5, <4>6 DEF Kept
    <3> QED  BY <3>1, <3>2
  <2>2. CASE UNCHANGED dbVars
    BY <1>4, <2>0, <2>2
  <2> QED  BY <1>9, <2>1, <2>2 DEF RecordError
<1>10. CASE Unlock(s, a)
  BY <1>4, <1>10 DEF Unlock, UnlockThread, Steps, Windows, AfterHandling, Verdicts, Undecided
<1> QED
  BY <1>5, <1>6, <1>7, <1>8, <1>9, <1>10 DEF Execute

\* The steps that are not of a goroutine.
Others ==
    \/ \E s \in Sessions : LoopStep(s) \/ NotifyNow(s) \/ ConnLost(s)
    \/ \E p \in Processes : Launch(p) \/ Stop(p) \/ Crash(p)
    \/ \E a \in Actions : Elapse(a)

LEMMA OthersKeep ==
    ASSUME Inv, Others
    PROVE  Kept
<1> USE DEF Inv, TypeOK, DBTypeOK, LoopsOK, Working
<1>1. ASSUME NEW p \in Processes, Exit(p) PROVE Kept
  BY <1>1, StandStill DEF Exit, EndSessions, NoGoroutines, SessionsOf
<1>2. ASSUME NEW s \in Sessions, Run(s) PROVE Kept
  <2>1. CASE Exit(ProcessOf[s])
    BY <1>1, <2>1, ConductorAssumption
  <2>2. CASE ~Exit(ProcessOf[s])
    <3> PICK batch \in Batches(s) :
          /\ LockThreads(s, batch)
          /\ pc' = [pc EXCEPT ![s] = [a \in Actions |-> IF a \in batch THEN "begin" ELSE "none"]]
      BY <1>2, <2>2 DEF Run
    <3>1. \A a \in Actions : pc[s][a] = "none"
      BY <1>2 DEF Run
    <3>2. batch \subseteq Claimable(s, Serves[s])
      BY DEF Batches
    <3>3. \A a \in batch : status[a] \in OpenStates
      BY <3>2 DEF Claimable, Processable, OpenStates
    <3> QED  BY <3>1, <3>3, StandStill DEF LockThreads
  <2> QED  BY <2>1, <2>2
<1>3. ASSUME NEW s \in Sessions, ConnectHandler(s) PROVE Kept
  <2>1. CASE Exit(ProcessOf[s])
    BY <1>1, <2>1, ConductorAssumption
  <2>2. CASE Connect(s) /\ UNCHANGED pc
    BY <1>3, <2>2, StandStill DEF Connect, ConnectHandler
  <2> QED  BY <1>3, <2>1, <2>2 DEF ConnectHandler
<1>4. ASSUME NEW s \in Sessions, HandlerReturns(s) \/ ConnLost(s)
      PROVE  Kept
  BY <1>4, StandStill DEF HandlerReturns, ConnLost, EndSessions
<1>5. CASE \/ \E s \in Sessions : BatchDone(s) \/ NotifyNow(s)
           \/ \E p \in Processes : Launch(p) \/ Stop(p)
           \/ \E a \in Actions : Elapse(a)
  <2>1. UNCHANGED <<pc, status, open>>
    BY <1>5 DEF BatchDone, NotifyNow, Launch, Stop, Elapse, BackoffElapses
  <2> QED  BY <2>1, StandStill
<1> QED
  BY <1>1, <1>2, <1>3, <1>4, <1>5 DEF Others, LoopStep, Crash

\* Two attempts at one action are never both alive.
LEMMA OneAttempt ==
    ASSUME Inv, NEW s \in open, NEW t \in open, NEW a \in Actions, Working(s, a), Working(t, a)
    PROVE  s = t
BY DEF Inv, AttemptsOK

LEMMA OutcomesKept ==
    ASSUME Inv, Inv', ClaimOK, HistInv, Kept, Tracked,
           outcome' = [a \in Actions |-> NextOutcome(a)]
    PROVE  HistInv'
<1>1. open \subseteq Sessions /\ crossed \subseteq crossed'
  BY DEF Inv, TypeOK, DBTypeOK, Tracked
<1>2. \A a \in Actions :
        outcome'[a] = IF \E s \in Sessions : Loses(s, a) THEN "none" ELSE outcome[a]
  BY DEF Kept, StepsKept, NextOutcome, Succeeds, Refuses
<1>3. \A s \in Sessions, a \in Actions :
        Loses(s, a) => /\ s \in open \ open' /\ Working(s, a)
                       /\ a \notin crossed => status[a] \in OpenStates
  BY DEF Loses, Working, ClaimOK, Undecided, Steps, Windows, AfterHandling
<1>4. ASSUME NEW s \in open \cap open', NEW a \in Actions \ crossed', pc[s][a] = "commit"
      PROVE  outcome[a] = "success" /\ outcome'[a] = "success" /\ status[a] \in OpenStates
  <2>1. outcome[a] = "success" /\ status[a] \in OpenStates
    BY <1>1, <1>4 DEF HistInv, CommitOK, ClaimOK, Undecided, Steps, Windows
  <2>2. ~\E t \in Sessions : Loses(t, a)
    BY <1>1, <1>3, <1>4, OneAttempt DEF Working
  <2> QED  BY <1>2, <2>1, <2>2
<1>5. OpenStates \cap DoneStates = {}
  BY DEF OpenStates, DoneStates
<1>6. outcome' \in [Actions -> {"none", "success", "refused", "repeated"}] /\ HandledOnce'
  <2>1. outcome' = [a \in Actions |-> outcome'[a]]
    OBVIOUS
  <2>2. \A a \in Actions : outcome'[a] \in {"none", "success", "refused", "repeated"}
    BY <1>2 DEF HistInv
  <2>3. HandledOnce'
    BY <1>1, <1>2 DEF HistInv, HandledOnce
  <2> QED  BY <2>1, <2>2, <2>3
<1>7. SuccessIsHandled'
  <2> SUFFICES ASSUME NEW a \in Actions \ crossed', status'[a] \in DoneStates
               PROVE  outcome'[a] \in {"success", "repeated"}
    BY DEF SuccessIsHandled
  <2>1. CASE status'[a] = status[a]
    <3>1. outcome[a] \in {"success", "repeated"}
      BY <1>1, <2>1 DEF HistInv, SuccessIsHandled
    <3> QED  BY <1>1, <1>2, <1>3, <1>5, <2>1, <3>1
  <2>2. CASE \E s \in open \cap open' : pc[s][a] = "commit"
    BY <1>4, <2>2
  <2> QED  BY <2>1, <2>2 DEF Kept, StatusesKept, DoneStates
<1>8. HandledIsRecorded'
  <2> SUFFICES ASSUME NEW a \in Actions \ crossed', outcome'[a] \in {"success", "repeated"}
               PROVE  \/ status'[a] \in DoneStates
                      \/ \E s \in Sessions : s \in open' /\ pc'[s][a] = "commit"
    BY DEF HandledIsRecorded
  <2>1. outcome[a] \in {"success", "repeated"} /\ ~\E s \in Sessions : Loses(s, a)
    BY <1>2
  <2>2. CASE status[a] \in DoneStates
    <3>1. \A s \in open : pc[s][a] \notin {"commit", "backoff", "failed"}
      BY <1>1, <1>5, <2>2 DEF ClaimOK, Undecided, Steps, AfterHandling
    <3> QED  BY <2>2, <3>1 DEF Kept, StatusesKept
  <2>3. ASSUME NEW s \in Sessions, s \in open, pc[s][a] = "commit"
        PROVE  s \in open' /\ (pc'[s][a] = "commit" \/ status'[a] \in DoneStates)
    BY <2>1, <2>3 DEF Loses, Kept, CommitsKept
  <2> QED  BY <1>1, <2>1, <2>2, <2>3 DEF HistInv, HandledIsRecorded
<1>9. CommitOK'
  <2> SUFFICES ASSUME NEW s \in open', NEW a \in Actions \ crossed', pc'[s][a] = "commit"
               PROVE  outcome'[a] = "success"
    BY DEF CommitOK
  <2>1. s \in Sessions
    BY DEF Inv, TypeOK, DBTypeOK
  <2> QED  BY <1>4, <2>1 DEF Kept, StepsKept, Verdicts
<1> QED  BY <1>6, <1>7, <1>8, <1>9 DEF HistInv

LEMMA HandleOutcome ==
    ASSUME Inv, ClaimOK, HistInv, Tracked, NEW s \in Sessions, NEW a \in Actions, Handle(s, a),
           outcome' = [b \in Actions |-> NextOutcome(b)]
    PROVE  HistInv'
<1> PICK next \in {"commit", "rollbackRetryable", "rollbackFatal"} : Goto(s, a, next)
  BY DEF Handle
<1>1. /\ \A t \in Sessions, b \in Actions :
            pc'[t][b] = IF t = s /\ b = a THEN next ELSE pc[t][b]
      /\ UNCHANGED <<status, open>> /\ open \subseteq Sessions /\ crossed \subseteq crossed'
      /\ pc[s][a] = "handle"
  BY DEF Goto, Handle, Inv, TypeOK, DBTypeOK, Tracked
<1>2. \A b \in Actions \ {a} : outcome'[b] = outcome[b]
  BY <1>1 DEF NextOutcome, Succeeds, Refuses, Loses
<1>3. s \notin open => outcome'[a] = outcome[a]
  BY <1>1 DEF NextOutcome, Succeeds, Refuses, Loses
<1>4. ASSUME s \in open, a \notin crossed'
      PROVE  /\ status[a] \in OpenStates
             /\ \A t \in open : pc[t][a] # "commit"
             /\ outcome[a] \in {"none", "refused"}
  <2>1. status[a] \in OpenStates
    BY <1>1, <1>4 DEF ClaimOK, Undecided, Steps, Windows
  <2>2. \A t \in open : pc[t][a] # "commit"
    BY <1>1, <1>4, OneAttempt DEF Working
  <2>3. outcome[a] # "success" /\ outcome[a] # "repeated"
    BY <1>1, <1>4, <2>1, <2>2 DEF HistInv, HandledIsRecorded, OpenStates, DoneStates
  <2> QED  BY <2>1, <2>2, <2>3 DEF HistInv
<1>5. ASSUME s \in open
      PROVE  /\ outcome'[a] \in {"none", "success", "refused", "repeated"}
             /\ next = "commit" /\ a \notin crossed' => outcome'[a] = "success"
             /\ outcome'[a] = "success" /\ a \notin crossed' => next = "commit"
             /\ a \notin crossed' => outcome'[a] # "repeated"
  <2>1. (\E t \in Sessions : Succeeds(t, a)) <=> next = "commit"
    BY <1>1, <1>5 DEF Succeeds
  <2>2. ~\E t \in Sessions : Loses(t, a)
    BY <1>1 DEF Loses
  <2>3. (\E t \in Sessions : Refuses(t, a)) => next = "rollbackFatal"
    BY <1>1 DEF Refuses
  <2>4. outcome'[a] = NextOutcome(a) /\ outcome[a] \in {"none", "success", "refused", "repeated"}
    BY DEF HistInv
  <2>5. CASE \E t \in Sessions : Succeeds(t, a)
    BY <1>4, <1>5, <2>1, <2>2, <2>3, <2>4, <2>5 DEF NextOutcome
  <2>6. CASE ~\E t \in Sessions : Succeeds(t, a)
    BY <1>4, <1>5, <2>1, <2>2, <2>4, <2>6 DEF NextOutcome
  <2> QED  BY <2>5, <2>6
<1>6. outcome' \in [Actions -> {"none", "success", "refused", "repeated"}] /\ HandledOnce'
  <2>1. outcome' = [b \in Actions |-> outcome'[b]]
    OBVIOUS
  <2>2. \A b \in Actions : outcome'[b] \in {"none", "success", "refused", "repeated"}
    BY <1>2, <1>3, <1>5 DEF HistInv
  <2>3. HandledOnce'
    BY <1>1, <1>2, <1>3, <1>5 DEF HistInv, HandledOnce
  <2> QED  BY <2>1, <2>2, <2>3
<1>7. SuccessIsHandled'
  <2> SUFFICES ASSUME NEW b \in Actions \ crossed', status'[b] \in DoneStates
               PROVE  outcome'[b] \in {"success", "repeated"}
    BY DEF SuccessIsHandled
  <2>1. b = a => s \notin open
    BY <1>1, <1>4 DEF OpenStates, DoneStates
  <2> QED  BY <1>1, <1>2, <1>3, <2>1 DEF HistInv, SuccessIsHandled
<1>8. HandledIsRecorded'
  <2> SUFFICES ASSUME NEW b \in Actions \ crossed', outcome'[b] \in {"success", "repeated"}
               PROVE  \/ status'[b] \in DoneStates
                      \/ \E t \in Sessions : t \in open' /\ pc'[t][b] = "commit"
    BY DEF HandledIsRecorded
  <2>1. CASE b = a /\ s \in open
    BY <1>1, <1>5, <2>1
  <2>2. CASE b # a \/ s \notin open
    <3>1. outcome[b] \in {"success", "repeated"}
      BY <1>2, <1>3, <2>2
    <3> QED  BY <1>1, <2>2, <3>1 DEF HistInv, HandledIsRecorded
  <2> QED  BY <2>1, <2>2
<1>9. CommitOK'
  <2> SUFFICES ASSUME NEW t \in open, NEW b \in Actions \ crossed', pc'[t][b] = "commit"
               PROVE  outcome'[b] = "success"
    BY <1>1 DEF CommitOK
  <2>1. CASE t = s /\ b = a
    BY <1>1, <1>5, <2>1
  <2>2. CASE ~(t = s /\ b = a)
    BY <1>1, <1>2, <1>3, <1>4, <2>2 DEF HistInv, CommitOK
  <2> QED  BY <2>1, <2>2
<1> QED  BY <1>6, <1>7, <1>8, <1>9 DEF HistInv

LEMMA HistoryInvariance == HistorySpec => [](Inv /\ SharedInv /\ ClaimOK /\ HistInv)
<1> DEFINE All == Inv /\ SharedInv /\ ClaimOK /\ HistInv
<1>1. HistoryInit => All
  <2> SUFFICES ASSUME HistoryInit PROVE HistInv
    BY InitInv, SharedInitInv DEF HistoryInit, SharedInit
  <2> QED  BY DEF HistoryInit, SharedInit, Init, DBInit, HistInv, SuccessIsHandled,
                  HandledIsRecorded, HandledOnce, CommitOK, DoneStates
<1>2. All /\ [HistoryNext]_historyVars => All'
  <2> SUFFICES ASSUME All, [HistoryNext]_historyVars
               PROVE  All'
    OBVIOUS
  <2>1. [SharedNext]_sharedVars
    BY DEF HistoryNext, historyVars
  <2>2. Inv' /\ SharedInv' /\ ClaimOK' /\ Tracked
    BY <2>1, SharedStep DEF SharedKept
  <2>3. CASE UNCHANGED historyVars
    <3>1. UNCHANGED <<status, open, pc, outcome, crossed>>
      BY <2>3 DEF historyVars, sharedVars, vars
    <3> QED  BY <2>2, <3>1
             DEF HistInv, SuccessIsHandled, HandledIsRecorded, HandledOnce, CommitOK
  <2>4. CASE HistoryNext
    <3>1. outcome' = [a \in Actions |-> NextOutcome(a)] /\ Next
      BY <2>4 DEF HistoryNext, SharedNext
    <3>2. ASSUME NEW s \in Sessions, NEW a \in Actions, Execute(s, a) PROVE HistInv'
      BY <2>2, <3>1, <3>2, ExecuteKeeps, OutcomesKept
    <3>3. ASSUME NEW s \in Sessions, NEW a \in Actions, Handle(s, a) PROVE HistInv'
      BY <2>2, <3>1, <3>3, HandleOutcome
    <3>4. CASE Others
      <4>1. Kept
        BY <3>4, OthersKeep
      <4> QED  BY <2>2, <3>1, <4>1, OutcomesKept
    <3> QED  BY <2>2, <3>1, <3>2, <3>3, <3>4 DEF Next, Others
  <2> QED  BY <2>2, <2>3, <2>4
<1> QED  BY <1>1, <1>2, PTL DEF HistorySpec

\* A status that says success was earned: the event of an action that nobody
\* crossed is published by the commit that follows a success of its handleFn.
THEOREM SuccessesAreHandled == HistorySpec => []SuccessIsHandled
BY HistoryInvariance, PTL DEF HistInv

\* A success of handleFn, of an action that nobody crossed, is about to be
\* committed, or committed, or lost with its session.
THEOREM HandledAreRecorded == HistorySpec => []HandledIsRecorded
BY HistoryInvariance, PTL DEF HistInv

\* No action that nobody crossed is handled twice, unless the first success was
\* lost with its session.
THEOREM ActionsAreHandledOnce == HistorySpec => []HandledOnce
BY HistoryInvariance, PTL DEF HistInv
=============================================================================
