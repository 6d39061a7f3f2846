-------------------------- MODULE LifecycleProofs --------------------------
(***************************************************************************)
(* Proof that the conductor implements ActionLifecycle, for any number of  *)
(* actions, sessions and processes and batches of any size.  Taking a      *)
(* batch is Claim, the commit or the recorded error is Decide, a failure   *)
(* before either is GiveUp, an unlock or the end of a session is Release;  *)
(* every other step lets an action Rest.                                   *)
(***************************************************************************)
EXTENDS SharedConnectionProofs

USE DEF dbVars, handlerVars

Over == {"unlock", "none"}  \* no verdict is to come from the goroutine

PhaseAt(step) == IF step \in Over THEN "spent" ELSE "held"

\* What an action may do in a step.
Lives(a) ==
    \/ Lifecycle!Claim(a) \/ Lifecycle!Decide(a) \/ Lifecycle!GiveUp(a)
    \/ Lifecycle!Release(a) \/ Lifecycle!Elapse(a) \/ Lifecycle!Rest(a)

\* Every action that has not gone astray lives on.
LifeGoesOn == \A a \in Actions \ (crossed' \cup stuck') : Lives(a)

-----------------------------------------------------------------------------
(* Steps of the lifecycle, in terms of the conductor.                       *)

LEMMA LifeOf ==
    ASSUME NEW a \in Actions
    PROVE  /\ Lifecycle!KeepStatus(a) <=>
                status'[a] = status[a] /\ (a \in waiting' <=> a \in waiting)
           /\ \A from, to : Lifecycle!Move(a, from, to) <=> Phase(a) = from /\ Phase(a)' = to
           /\ Phase(a)' = Phase(a) /\ Lifecycle!KeepStatus(a) => Lives(a)
           /\ Phase(a) # "free" /\ Phase(a)' = "free" /\ Lifecycle!KeepStatus(a) => Lives(a)
<1>1. [b \in Actions |-> Phase(b)][a] = Phase(a)
  OBVIOUS
<1>2. [b \in Actions |-> Phase(b)]'[a] = Phase(a)'
  OBVIOUS
<1> QED  BY <1>1, <1>2
         DEF Lifecycle!KeepStatus, Lifecycle!Move, Lifecycle!Rest, Lifecycle!Release, Lives

\* What Goto does to the phases while the locks stay where they are.
LEMMA GotoMoves ==
    ASSUME TypeOK, NEW s \in Sessions, NEW a \in Actions, NEW step,
           Goto(s, a, step), UNCHANGED lock
    PROVE  \A b \in Actions :
              Phase(b)' = IF b = a /\ lock[a] = s THEN PhaseAt(step) ELSE Phase(b)
<1>1. pc' = [pc EXCEPT ![s][a] = step] /\ pc \in [Sessions -> [Actions -> Steps]]
      /\ lock \in [Actions -> Sessions \cup {NoSession}]
  BY DEF Goto, TypeOK, DBTypeOK
<1>2. \A t \in Sessions, b \in Actions : pc'[t][b] = IF t = s /\ b = a THEN step ELSE pc[t][b]
  BY <1>1
<1> SUFFICES ASSUME NEW b \in Actions
             PROVE  Phase(b)' = IF b = a /\ lock[a] = s THEN PhaseAt(step) ELSE Phase(b)
  OBVIOUS
<1>3. CASE b = a /\ lock[a] = s
  BY <1>2, <1>3, NoSessionAssumption DEF Phase, PhaseAt, Over
<1>4. CASE ~(b = a /\ lock[a] = s)
  BY <1>1, <1>2, <1>4 DEF Phase
<1> QED  BY <1>3, <1>4

\* The end of sessions releases what they hold.
LEMMA EndReleases ==
    ASSUME TypeOK, NEW S \in SUBSET Sessions, EndSessions(S),
           \A s \in Sessions \ S : pc'[s] = pc[s]
    PROVE  LifeGoesOn
<1> SUFFICES ASSUME NEW a \in Actions PROVE Lives(a)
  BY DEF LifeGoesOn
<1>1. Phase(a)' = IF lock[a] \in S THEN "free" ELSE Phase(a)
  BY NoSessionAssumption DEF EndSessions, Phase, TypeOK, DBTypeOK
<1>2. lock[a] \in S => Phase(a) # "free"
  BY NoSessionAssumption DEF Phase
<1> QED  BY <1>1, <1>2, LifeOf DEF EndSessions

-----------------------------------------------------------------------------
(* The conductor's steps.                                                   *)

\* A goroutine at work goes on, without a verdict or with one.
LEMMA GoroutineLives ==
    ASSUME Inv, SharedInv, ClaimOK, Tracked, NEW s \in Sessions, NEW a \in Actions,
           NEW step \in Steps \ {"none"}, pc[s][a] \in Undecided, Goto(s, a, step),
           UNCHANGED lock,
           \A b \in Actions \ crossed' : b # a =>
               status'[b] = status[b] /\ (b \in waiting' <=> b \in waiting),
           a \notin crossed' =>
               \/ status'[a] = status[a] /\ (a \in waiting' <=> a \in waiting)
               \/ /\ step = "unlock" /\ s \in open /\ status'[a] \in Lifecycle!Verdicts
                  /\ a \in waiting' <=> status'[a] = "BACKOFF"
    PROVE  LifeGoesOn
<1> SUFFICES ASSUME NEW b \in Actions \ crossed' PROVE Lives(b)
  BY DEF LifeGoesOn
<1>1. Phase(b)' = IF b = a /\ lock[a] = s THEN PhaseAt(step) ELSE Phase(b)
  BY GotoMoves DEF Inv
<1>2. lock[a] = s => Phase(a) = "held"
  BY NoSessionAssumption DEF Phase, Undecided
<1>3. CASE b # a \/ (status'[a] = status[a] /\ (a \in waiting' <=> a \in waiting))
  <2>1. Lifecycle!KeepStatus(b)
    BY <1>3, LifeOf
  <2>2. CASE b = a /\ lock[a] = s /\ step = "unlock"
    <3>1. Phase(b) = "held" /\ Phase(b)' = "spent"
      BY <1>1, <1>2, <2>2 DEF PhaseAt, Over
    <3> QED  BY <2>1, <3>1, LifeOf DEF Lives, Lifecycle!GiveUp
  <2>3. CASE ~(b = a /\ lock[a] = s /\ step = "unlock")
    <3>1. Phase(b)' = Phase(b)
      BY <1>1, <1>2, <2>3 DEF PhaseAt, Over
    <3> QED  BY <2>1, <3>1, LifeOf
  <2> QED  BY <2>2, <2>3
<1>4. CASE /\ b = a /\ step = "unlock" /\ s \in open /\ status'[a] \in Lifecycle!Verdicts
           /\ a \in waiting' <=> status'[a] = "BACKOFF"
  <2>1. Working(s, a)
    BY DEF Working, Undecided
  <2>2. lock[a] = s /\ status[a] \in OpenStates
    BY <1>4, <2>1, AtWork DEF Tracked
  <2>3. Phase(b) = "held" /\ Phase(b)' = "spent"
    BY <1>1, <1>2, <1>4, <2>2 DEF PhaseAt, Over
  <2>4. Lifecycle!Move(b, "held", "spent")
    BY <2>3, LifeOf
  <2> QED  BY <1>4, <2>2, <2>4 DEF Lives, Lifecycle!Decide, OpenStates
<1> QED  BY <1>3, <1>4

LEMMA ExecuteLives ==
    ASSUME Inv, SharedInv, ClaimOK, Tracked, NEW s \in Sessions, NEW a \in Actions,
           Execute(s, a) \/ Handle(s, a)
    PROVE  LifeGoesOn
<1>0. Working(s, a) /\ crossed \subseteq crossed' /\ stuck \subseteq stuck'
  BY DEF Execute, Handle, Begin, Insert, Commit, Undo, HandleError, RecordError, Unlock, Working,
         Tracked
<1>1. TypeOK /\ status \in [Actions -> Statuses]
  BY DEF Inv, TypeOK, DBTypeOK
<1>2. ASSUME EndSessions({s}), Goto(s, a, "unlock")
      PROVE  LifeGoesOn
  BY <1>1, <1>2, EndReleases DEF Goto, TypeOK
<1>3. ASSUME NEW step \in Steps \ {"none"}, pc[s][a] \in Undecided, Goto(s, a, step),
             UNCHANGED <<status, waiting, lock>>
      PROVE  LifeGoesOn
  BY <1>3, GoroutineLives
<1>4. CASE Begin(s, a)
  BY <1>2, <1>3, <1>4 DEF Begin, BeginTx, Undecided, Steps, Windows
<1>5. CASE Insert(s, a)
  <2>0. pc[s][a] = "insert" /\ pc[s][a] \in Undecided /\ pc[s][a] \in Windows
        /\ "handle" \in Steps \ {"none"}
    BY <1>5 DEF Insert, Undecided, Steps, Windows
  <2>1. CASE CanExec(s) /\ InsertEvent(s, a, SuccessEvent(a)) /\ Goto(s, a, "handle")
    <3>1. CASE s \in inTx
      BY <1>3, <2>0, <2>1, <3>1 DEF InsertEvent
    <3>2. CASE s \notin inTx
      <4>1. a \in crossed'
        BY <1>0, <2>0, <2>1, <3>2, AtWork DEF CanExec
      <4>2. \A b \in Actions \ {a} : status'[b] = status[b] /\ (b \in waiting' <=> b \in waiting)
        BY <1>1, <2>1, <3>2 DEF InsertEvent
      <4>3. UNCHANGED lock
        BY <2>1 DEF InsertEvent
      <4> QED  BY <2>0, <2>1, <4>1, <4>2, <4>3, GoroutineLives
    <3> QED  BY <3>1, <3>2
  <2>2. CASE Goto(s, a, "undo") /\ UNCHANGED dbVars
    BY <1>3, <2>0, <2>2 DEF Steps, Windows
  <2> QED  BY <1>5, <2>1, <2>2 DEF Insert
<1>6. CASE Handle(s, a)
  BY <1>3, <1>6 DEF Handle, Undecided, Steps, Windows
<1>7. CASE Commit(s, a)
  <2>0. pc[s][a] = "commit" /\ pc[s][a] \in Undecided /\ "unlock" \in Steps \ {"none"}
        /\ Goto(s, a, "unlock")
    BY <1>7 DEF Commit, Undecided, Steps, Windows, AfterHandling
  <2>1. CASE CanExec(s) /\ CommitTx(s)
    <3>0. s \in open /\ s \notin inTx' /\ UNCHANGED <<open, lock>>
      BY <2>1 DEF CanExec, CommitTx
    <3>1. NoEvent # "BACKOFF"
      BY NoEventAssumption DEF Statuses, OpenStates
    <3>2. \A b \in Actions \ crossed' : b # a =>
              status'[b] = status[b] /\ (b \in waiting' <=> b \in waiting)
      <4>1. \A b \in Actions \ crossed' : b # a => events[s][b] = NoEvent
        BY <2>0, <3>0, TakenIsCrossed
      <4> QED  BY <2>1, <3>1, <4>1 DEF CommitTx
    <3>3. a \notin crossed' =>
              /\ status'[a] \in Lifecycle!Verdicts
              /\ a \in waiting' <=> status'[a] = "BACKOFF"
      <4>1. /\ SuccessEvent(a) \in Lifecycle!Verdicts
            /\ SuccessEvent(a) # "BACKOFF" /\ SuccessEvent(a) # NoEvent
        BY NoEventAssumption DEF SuccessEvent, Lifecycle!Verdicts, Statuses, DoneStates
      <4>2. a \notin crossed' => events[s][a] = SuccessEvent(a)
        BY <1>0, <2>0, <3>0, AtWork DEF Inserted
      <4> QED  BY <2>1, <4>1, <4>2 DEF CommitTx
    <3> QED  BY <2>0, <3>0, <3>2, <3>3, GoroutineLives
  <2>2. CASE UNCHANGED dbVars
    BY <1>3, <2>0, <2>2
  <2> QED  BY <1>2, <1>7, <2>1, <2>2 DEF Commit
<1>8. CASE Undo(s, a) \/ HandleError(s, a)
  BY <1>2, <1>3, <1>8
  DEF Undo, HandleError, Rollback, RollbackTx, Undecided, Steps, Windows, AfterHandling
<1>9. CASE RecordError(s, a)
  <2>0. pc[s][a] \in Undecided /\ "unlock" \in Steps \ {"none"} /\ Goto(s, a, "unlock")
    BY <1>9 DEF RecordError, Undecided, Steps, AfterHandling
  <2>1. CASE CanExec(s) /\ InsertEvent(s, a, ErrorEvent(s, a))
    <3>1. CASE s \in inTx
      BY <1>3, <2>0, <2>1, <3>1 DEF InsertEvent
    <3>2. CASE s \notin inTx
      <4>1. /\ s \in open /\ UNCHANGED lock
            /\ \A b \in Actions \ {a} : status'[b] = status[b] /\ (b \in waiting' <=> b \in waiting)
        BY <1>1, <2>1, <3>2 DEF InsertEvent, CanExec
      <4>2. status'[a] = ErrorEvent(s, a) /\ (a \in waiting' <=> status'[a] = "BACKOFF")
        BY <1>1, <2>1, <3>2 DEF InsertEvent
      <4>3. ErrorEvent(s, a) \in Lifecycle!Verdicts
        BY DEF ErrorEvent, Lifecycle!Verdicts
      <4> QED  BY <2>0, <4>1, <4>2, <4>3, GoroutineLives
    <3> QED  BY <3>1, <3>2
  <2>2. CASE UNCHANGED dbVars
    BY <1>3, <2>0, <2>2
  <2> QED  BY <1>9, <2>1, <2>2 DEF RecordError
<1>10. CASE Unlock(s, a)
  <2>1. Goto(s, a, "none") /\ pc[s][a] = "unlock"
    BY <1>10 DEF Unlock
  <2> SUFFICES ASSUME NEW b \in Actions \ stuck' PROVE Lives(b)
    BY DEF LifeGoesOn
  <2>0. Lifecycle!KeepStatus(b)
    BY <1>10, LifeOf DEF Unlock, UnlockThread
  <2>2. CASE CanExec(s) /\ UnlockThread(s, a)
    <3>1. lock[a] = s /\ (a \notin stuck => depth[a] = 1)
      BY <1>0, <2>2, AtWork DEF CanExec
    <3>2. CASE b = a
      <4>1. lock'[b] = NoSession
        BY <1>0, <1>1, <2>2, <3>1, <3>2 DEF UnlockThread, TypeOK, DBTypeOK
      <4>2. Phase(b) # "free" /\ Phase(b)' = "free"
        BY <3>1, <3>2, <4>1, NoSessionAssumption DEF Phase
      <4> QED  BY <2>0, <4>2, LifeOf
    <3>3. CASE b # a
      <4>1. lock'[b] = lock[b] /\ \A t \in Sessions : pc'[t][b] = pc[t][b]
        BY <1>1, <2>1, <2>2, <3>3 DEF UnlockThread, Goto, TypeOK, DBTypeOK
      <4>2. Phase(b)' = Phase(b)
        BY <1>1, <4>1 DEF Phase, TypeOK, DBTypeOK
      <4> QED  BY <2>0, <4>2, LifeOf
    <3> QED  BY <3>2, <3>3
  <2>3. CASE UNCHANGED dbVars
    <3>1. Phase(b)' = IF b = a /\ lock[a] = s THEN "spent" ELSE Phase(b)
      BY <1>1, <2>1, <2>3, GotoMoves DEF PhaseAt, Over
    <3>2. lock[a] = s => Phase(a) = "spent"
      BY <2>1, NoSessionAssumption DEF Phase
    <3> QED  BY <2>0, <3>1, <3>2, LifeOf
  <2> QED  BY <1>10, <2>2, <2>3 DEF Unlock
<1> QED
  BY <1>4, <1>5, <1>6, <1>7, <1>8, <1>9, <1>10 DEF Execute

\* A loop takes a batch.
LEMMA RunLives ==
    ASSUME Inv, SharedInv, Tracked, NEW s \in Sessions, Run(s), ~Exit(ProcessOf[s])
    PROVE  LifeGoesOn
<1> PICK batch \in Batches(s) :
      /\ LockThreads(s, batch)
      /\ pc' = [pc EXCEPT ![s] = [a \in Actions |-> IF a \in batch THEN "begin" ELSE "none"]]
  BY DEF Run
<1>1. CanExec(s) /\ loop[s] = "wait"
  BY DEF Run
<1>3. \A a \in Actions : pc[s][a] = "none"
  BY <1>1 DEF Inv, LoopsOK, Working
<1>4. \A t \in Sessions, a \in Actions :
        pc'[t][a] = IF t = s THEN IF a \in batch THEN "begin" ELSE "none" ELSE pc[t][a]
  BY DEF Inv, TypeOK
<1> SUFFICES ASSUME NEW a \in Actions \ stuck' PROVE Lives(a)
  BY DEF LifeGoesOn
<1>5. Lifecycle!KeepStatus(a)
  BY LifeOf DEF LockThreads
<1>6. CASE a \in batch
  <2>1. Processable(a) /\ lock[a] = NoSession
    BY <1>1, <1>6, BatchIsFree DEF Tracked
  <2>2. Phase(a) = "free" /\ Phase(a)' = "held"
    BY <1>4, <1>6, <2>1, NoSessionAssumption DEF LockThreads, Phase
  <2>3. Lifecycle!Move(a, "free", "held")
    BY <2>2, LifeOf
  <2> QED  BY <1>5, <2>1, <2>3 DEF Lives, Lifecycle!Claim, Processable
<1>7. CASE a \notin batch
  <2>1. lock'[a] = lock[a] /\ \A t \in Sessions : pc'[t][a] = pc[t][a]
    BY <1>3, <1>4, <1>7 DEF LockThreads
  <2>2. Phase(a)' = Phase(a)
    BY <2>1 DEF Phase, Inv, TypeOK, DBTypeOK
  <2> QED  BY <1>5, <2>2, LifeOf
<1> QED  BY <1>6, <1>7

LEMMA NextLives ==
    ASSUME Inv, SharedInv, ClaimOK, Tracked, [Next]_vars
    PROVE  LifeGoesOn
<1>0. TypeOK /\ \A s \in Sessions : ProcessOf[s] \in Processes
  BY ConductorAssumption DEF Inv
<1>1. ASSUME NEW s \in Sessions, NEW a \in Actions, Execute(s, a) \/ Handle(s, a)
      PROVE  LifeGoesOn
  BY <1>1, ExecuteLives
<1>2. ASSUME NEW p \in Processes, Exit(p) PROVE LifeGoesOn
  BY <1>0, <1>2, EndReleases DEF Exit, SessionsOf, TypeOK
<1>3. ASSUME NEW s \in Sessions, Run(s) PROVE LifeGoesOn
  BY <1>0, <1>2, <1>3, RunLives
<1>4. ASSUME NEW s \in Sessions, HandlerReturns(s) \/ ConnLost(s) PROVE LifeGoesOn
  BY <1>0, <1>4, EndReleases DEF HandlerReturns, ConnLost
<1>5. ASSUME NEW a \in Actions, Elapse(a) PROVE LifeGoesOn
  <2> SUFFICES ASSUME NEW b \in Actions PROVE Lives(b)
    BY DEF LifeGoesOn
  <2>1. Phase(b)' = Phase(b)
    BY <1>5 DEF Elapse, BackoffElapses, Phase
  <2>2. CASE b = a
    <3>1. [c \in Actions |-> Phase(c)][b] = Phase(b)
          /\ [c \in Actions |-> Phase(c)]'[b] = Phase(b)'
      OBVIOUS
    <3> QED  BY <1>5, <2>1, <2>2, <3>1 DEF Elapse, BackoffElapses, Lives, Lifecycle!Elapse
  <2>3. CASE b # a
    BY <1>5, <2>1, <2>3, LifeOf DEF Elapse, BackoffElapses
  <2> QED  BY <2>2, <2>3
<1>6. CASE \/ \E s \in Sessions : BatchDone(s) \/ NotifyNow(s)
           \/ \E s \in Sessions : ConnectHandler(s) /\ ~Exit(ProcessOf[s])
           \/ \E p \in Processes : Launch(p) \/ Stop(p)
           \/ UNCHANGED vars
  <2>1. UNCHANGED <<status, waiting, lock, pc>>
    BY <1>6 DEF BatchDone, NotifyNow, ConnectHandler, Connect, Launch, Stop, vars
  <2> QED  BY <2>1, LifeOf DEF Phase, LifeGoesOn
<1> QED
  BY <1>0, <1>1, <1>2, <1>3, <1>4, <1>5, <1>6 DEF Next, LoopStep, Crash

LEMMA StepLives ==
    ASSUME Inv, SharedInv, ClaimOK, [SharedNext]_sharedVars
    PROVE  Lifecycle!Next
<1>1. [Next]_vars /\ Tracked
  BY TrackTracks DEF SharedNext, sharedVars
<1>2. LifeGoesOn
  BY <1>1, NextLives
<1>3. (crossed \cup stuck) \subseteq (crossed' \cup stuck')
  BY <1>1 DEF Tracked
<1> QED  BY <1>2, <1>3 DEF LifeGoesOn, Lives, Lifecycle!Next

LEMMA InitLives == SharedInit => Lifecycle!Init
BY DEF SharedInit, Init, DBInit, Lifecycle!Init, Phase

\* The conductor implements the life of an action that has not gone astray: one
\* claim of an open, due action, at most one verdict, and nothing changes a
\* verdict that is not a backoff, whatever the other goroutines of its batch do
\* on the connection they share.
THEOREM LifecycleImplemented == SharedSpec => ImplementsLifecycle
<1>1. Inv /\ SharedInv /\ ClaimOK /\ [SharedNext]_sharedVars
      => [Lifecycle!Next]_(Lifecycle!vars)
  BY StepLives
<1> QED  BY <1>1, SharedInvariance, InitLives, PTL
         DEF SharedSpec, ImplementsLifecycle, Lifecycle!Spec
=============================================================================
