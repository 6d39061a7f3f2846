------------------------- MODULE NotificationProofs -------------------------
(***************************************************************************)
(* No wakeup is lost, for any number of conductors, handlers and actions   *)
(* and any size of the batches.                                            *)
(***************************************************************************)
EXTENDS Notification, FiniteSetTheorems, TLAPS

\* The handlers of a conductor run only once it has listened.
ListensFirst ==
    \A c \in Conductors, h \in Handlers : loop[c][h] # "off" => listener[c] # "off"

Inv == TypeOK /\ ListensFirst /\ NoLostWakeup

LEMMA InitInv == Init => Inv
BY NotificationAssumption DEF Init, Inv, TypeOK, ListensFirst, NoLostWakeup

\* A query leaves a processable action behind only when it fills its batch.
LEMMA FullOrComplete ==
    ASSUME NEW h \in Handlers, NEW batch \in Batches(h), Cardinality(batch) # BatchSize
    PROVE  batch = Processable(h)
BY DEF Batches

LEMMA StepInv == Inv /\ [Next]_vars => Inv'
<1> SUFFICES ASSUME Inv, [Next]_vars PROVE Inv'
  OBVIOUS
<1> USE NotificationAssumption DEF Inv, TypeOK, Goto, NotifyNow
<1>1. ASSUME NEW c \in Conductors, Start(c) PROVE Inv'
  <2> USE <1>1 DEF Start
  <2>1. TypeOK'
    OBVIOUS
  <2>2. ListensFirst'
    BY DEF ListensFirst
  <2>3. NoLostWakeup'
    BY DEF NoLostWakeup
  <2> QED  BY <2>1, <2>2, <2>3
<1>2. ASSUME NEW c \in Conductors, NEW h \in Handlers, StartHandler(c, h) PROVE Inv'
  <2> USE <1>2 DEF StartHandler
  <2>1. TypeOK'
    OBVIOUS
  <2>2. ListensFirst'
    BY DEF ListensFirst
  <2>3. NoLostWakeup'
    BY DEF NoLostWakeup
  <2> QED  BY <2>1, <2>2, <2>3
<1>3. ASSUME NEW c \in Conductors, NEW h \in Handlers, ConnectHandler(c, h) PROVE Inv'
  <2> USE <1>3 DEF ConnectHandler
  <2>1. TypeOK'
    OBVIOUS
  <2>2. ListensFirst'
    BY DEF ListensFirst
  <2>3. NoLostWakeup'
    BY DEF NoLostWakeup
  <2> QED  BY <2>1, <2>2, <2>3
<1>4. ASSUME NEW c \in Conductors, NEW h \in Handlers, Take(c, h) PROVE Inv'
  <2> USE <1>4 DEF Take
  <2>1. TypeOK'
    OBVIOUS
  <2>2. ListensFirst'
    BY DEF ListensFirst
  <2>3. NoLostWakeup'
    BY DEF NoLostWakeup
  <2> QED  BY <2>1, <2>2, <2>3
<1>5. ASSUME NEW c \in Conductors, NEW h \in Handlers, Query(c, h) PROVE Inv'
  <2> PICK batch \in Batches(h) :
        /\ work' = [a \in Actions |-> IF a \in batch THEN "claimed" ELSE work[a]]
        /\ holder' = [a \in Actions |-> IF a \in batch THEN {c} ELSE holder[a]]
        /\ IF Cardinality(batch) = BatchSize THEN NotifyNow(c, h) ELSE UNCHANGED slot
    BY <1>5 DEF Query
  <2>0. /\ loop[c][h] = "query" /\ loop' = [loop EXCEPT ![c][h] = "batch"]
        /\ UNCHANGED <<listener, sent>>
    BY <1>5 DEF Query
  <2> USE <2>0
  <2>1. TypeOK'
    <3>1. work' \in [Actions -> {"absent", "fresh", "claimed", "backoff", "again", "settled"}]
      OBVIOUS
    <3>2. holder' \in [Actions -> SUBSET Conductors]
      OBVIOUS
    <3>3. slot' \in [Conductors -> SUBSET Handlers]
      <4>1. slot[c] \cup {h} \in SUBSET Handlers
        OBVIOUS
      <4>2. slot' = [slot EXCEPT ![c] = slot[c] \cup {h}] \/ slot' = slot
        OBVIOUS
      <4> HIDE <2>0
      <4> QED  BY <4>1, <4>2
    <3>4. loop' \in [Conductors -> [Handlers ->
                      {"off", "starting", "connect", "wait", "query", "batch"}]]
      OBVIOUS
    <3> QED  BY <3>1, <3>2, <3>3, <3>4
  <2>2. ListensFirst'
    BY DEF ListensFirst
  <2>3. ASSUME NEW a \in Actions, NEW d \in Conductors,
               work'[a] = "fresh", listener'[d] # "dead", loop'[d][HandlerOf[a]] # "off"
        PROVE  \/ HandlerOf[a] \in slot'[d] \cup sent'[d]
               \/ loop'[d][HandlerOf[a]] \in {"starting", "query"}
    <3>1. work[a] = "fresh" /\ a \notin batch
      BY <2>3
    <3>2. \/ HandlerOf[a] \in slot[d] \cup sent[d]
          \/ loop[d][HandlerOf[a]] \in {"starting", "query"}
      BY <2>3, <3>1 DEF NoLostWakeup
    <3>3. CASE d = c /\ HandlerOf[a] = h
      <4>1. batch # Processable(h)
        BY <3>1, <3>3 DEF Processable, ActionsOf
      <4>2. Cardinality(batch) = BatchSize
        BY <4>1, FullOrComplete
      <4> QED  BY <4>2, <3>3
    <3>4. CASE ~(d = c /\ HandlerOf[a] = h)
      BY <2>3, <3>2, <3>4
    <3> QED  BY <3>3, <3>4
  <2>4. NoLostWakeup'
    BY <2>3 DEF NoLostWakeup
  <2> QED  BY <2>1, <2>2, <2>4
<1>6. ASSUME NEW c \in Conductors, NEW h \in Handlers, BatchDone(c, h) PROVE Inv'
  <2> USE <1>6 DEF BatchDone
  <2>1. TypeOK'
    OBVIOUS
  <2>2. ListensFirst'
    BY DEF ListensFirst
  <2>3. NoLostWakeup'
    BY DEF NoLostWakeup
  <2> QED  BY <2>1, <2>2, <2>3
<1>7. ASSUME NEW c \in Conductors, NEW h \in Handlers, Deliver(c, h) \/ Poll(c, h)
      PROVE  Inv'
  <2>1. /\ slot' = [slot EXCEPT ![c] = @ \cup {h}]
        /\ UNCHANGED <<work, holder, listener, loop>>
    BY <1>7 DEF Deliver, Poll
  <2>2. sent' = sent \/ sent' = [sent EXCEPT ![c] = @ \ {h}]
    BY <1>7 DEF Deliver, Poll
  <2>3. sent' \in [Conductors -> SUBSET Handlers]
    BY <2>2
  <2>4. TypeOK'
    BY <2>1, <2>3
  <2>5. ListensFirst'
    BY <2>1 DEF ListensFirst
  <2>6. \A d \in Conductors : sent[d] \cup slot[d] \subseteq sent'[d] \cup slot'[d]
    BY <2>1, <2>2
  <2>7. NoLostWakeup'
    BY <2>1, <2>6 DEF NoLostWakeup
  <2> QED  BY <2>4, <2>5, <2>7
<1>8. ASSUME NEW c \in Conductors, ListenerDies(c) PROVE Inv'
  <2>1. /\ listener' = [listener EXCEPT ![c] = "dead"]
        /\ sent' = [sent EXCEPT ![c] = {}]
        /\ UNCHANGED <<work, holder, slot, loop>>
    BY <1>8 DEF ListenerDies
  <2>2. TypeOK'
    BY <2>1
  <2>3. ListensFirst'
    BY <2>1 DEF ListensFirst
  <2>4. NoLostWakeup'
    BY <2>1 DEF NoLostWakeup
  <2> QED  BY <2>2, <2>3, <2>4
<1>9. ASSUME NEW c \in Conductors, Crash(c) PROVE Inv'
  <2>1. work' = [a \in Actions |-> IF holder[a] = {c} THEN "again" ELSE work[a]]
    BY <1>9 DEF Crash
  <2>2. work' \in [Actions -> {"absent", "fresh", "claimed", "backoff", "again", "settled"}]
    BY <2>1
  <2>3. holder' \in [Actions -> SUBSET Conductors]
    BY <1>9 DEF Crash
  <2>4. /\ listener' = [listener EXCEPT ![c] = "off"]
        /\ sent' = [sent EXCEPT ![c] = {}]
        /\ slot' = [slot EXCEPT ![c] = {}]
        /\ loop' = [loop EXCEPT ![c] = [h \in Handlers |-> "off"]]
    BY <1>9 DEF Crash
  <2>5. TypeOK'
    BY <2>2, <2>3, <2>4
  <2>6. ListensFirst'
    BY <2>4 DEF ListensFirst
  <2>7. \A a \in Actions : work'[a] = "fresh" => work[a] = "fresh"
    BY <2>1
  <2>8. NoLostWakeup'
    BY <2>4, <2>7 DEF NoLostWakeup
  <2> QED  BY <2>5, <2>6, <2>8
<1>10. ASSUME NEW c \in Conductors, NEW a \in Actions, Finish(c, a) PROVE Inv'
  <2> PICK outcome \in {"settled", "backoff", "again"} :
        work' = [work EXCEPT ![a] = outcome]
    BY <1>10 DEF Finish
  <2> USE <1>10 DEF Finish
  <2>1. TypeOK'
    OBVIOUS
  <2>2. ListensFirst'
    BY DEF ListensFirst
  <2>3. \A b \in Actions : work'[b] = "fresh" => work[b] = "fresh"
    OBVIOUS
  <2>4. NoLostWakeup'
    BY <2>3 DEF NoLostWakeup
  <2> QED  BY <2>1, <2>2, <2>4
<1>11. ASSUME NEW a \in Actions, Submit(a) \/ Elapse(a) PROVE Inv'
  <2> USE <1>11 DEF Submit, Elapse
  <2>1. TypeOK'
    OBVIOUS
  <2>2. ListensFirst'
    BY DEF ListensFirst
  <2>3. NoLostWakeup'
    BY DEF ListensFirst, NoLostWakeup
  <2> QED  BY <2>1, <2>2, <2>3
<1>12. CASE UNCHANGED vars
  BY <1>12 DEF vars, ListensFirst, NoLostWakeup
<1> QED
  BY <1>1, <1>2, <1>3, <1>4, <1>5, <1>6, <1>7, <1>8, <1>9, <1>10, <1>11, <1>12
  DEF Next, LoopStep

\* The variables of the notification machinery keep their types.
THEOREM TypeCorrect == Spec => []TypeOK
BY InitInv, StepInv, PTL DEF Spec, Inv

\* While a processable action has been returned by no query, each conductor
\* that listens for it has a wakeup pending or is about to query.
THEOREM WakeupsReach == Spec => []NoLostWakeup
BY InitInv, StepInv, PTL DEF Spec, Inv

-----------------------------------------------------------------------------
(* Batches.                                                                 *)

\* A thread has one holder at most.
OneHolder == \A a \in Actions : holder[a] = {} \/ \E c \in Conductors : holder[a] = {c}

BatchInv == OneHolder /\ BatchesAreWaitedFor

LEMMA BatchStep == Inv /\ BatchInv /\ [Next]_vars => BatchInv'
<1> SUFFICES ASSUME Inv, BatchInv, [Next]_vars PROVE BatchInv'
  OBVIOUS
<1> USE NotificationAssumption DEF Inv, TypeOK, Goto
<1>1. ASSUME UNCHANGED <<work, holder>>,
             \A a \in Actions, c \in Conductors :
                holder[a] = {c} => loop'[c][HandlerOf[a]] = loop[c][HandlerOf[a]]
      PROVE  BatchInv'
  <2>1. OneHolder'
    BY <1>1 DEF BatchInv, OneHolder
  <2>2. BatchesAreWaitedFor'
    BY <1>1 DEF BatchInv, BatchesAreWaitedFor
  <2> QED  BY <2>1, <2>2 DEF BatchInv
<1>2. ASSUME NEW c \in Conductors, Start(c) PROVE BatchInv'
  <2>1. \A a \in Actions : holder[a] # {c}
    BY <1>2 DEF Start, ListensFirst, BatchInv, BatchesAreWaitedFor
  <2> QED  BY <1>1, <1>2, <2>1 DEF Start
<1>3. ASSUME NEW c \in Conductors, NEW h \in Handlers,
             StartHandler(c, h) \/ ConnectHandler(c, h) \/ Take(c, h) \/ BatchDone(c, h)
      PROVE  BatchInv'
  <2>1. \A a \in Actions : holder[a] = {c} => HandlerOf[a] # h
    BY <1>3 DEF StartHandler, ConnectHandler, Take, BatchDone, ActionsOf,
                BatchInv, BatchesAreWaitedFor
  <2> QED  BY <1>1, <1>3, <2>1 DEF StartHandler, ConnectHandler, Take, BatchDone
<1>4. ASSUME NEW c \in Conductors, NEW h \in Handlers, Query(c, h) PROVE BatchInv'
  <2> PICK batch \in Batches(h) :
        /\ work' = [a \in Actions |-> IF a \in batch THEN "claimed" ELSE work[a]]
        /\ holder' = [a \in Actions |-> IF a \in batch THEN {c} ELSE holder[a]]
    BY <1>4 DEF Query
  <2>1. loop' = [loop EXCEPT ![c][h] = "batch"]
    BY <1>4 DEF Query
  <2>2. \A a \in batch : a \in Actions /\ HandlerOf[a] = h
    BY DEF Batches, Processable, ActionsOf
  <2>3. OneHolder'
    BY DEF BatchInv, OneHolder
  <2>4. ASSUME NEW a \in Actions, NEW d \in Conductors, holder'[a] = {d}
        PROVE  work'[a] = "claimed" /\ loop'[d][HandlerOf[a]] = "batch"
    <3>1. CASE a \in batch
      BY <2>1, <2>2, <2>4, <3>1
    <3>2. CASE a \notin batch
      <4>1. work'[a] = work[a] /\ holder[a] = {d}
        BY <2>4, <3>2
      <4>2. work[a] = "claimed" /\ loop[d][HandlerOf[a]] = "batch"
        BY <4>1 DEF BatchInv, BatchesAreWaitedFor
      <4> QED  BY <2>1, <4>1, <4>2
    <3> QED  BY <3>1, <3>2
  <2> QED  BY <2>3, <2>4 DEF BatchInv, BatchesAreWaitedFor
<1>5. ASSUME NEW c \in Conductors, NEW h \in Handlers, Deliver(c, h) \/ Poll(c, h)
      PROVE  BatchInv'
  BY <1>1, <1>5 DEF Deliver, Poll
<1>6. ASSUME NEW c \in Conductors, ListenerDies(c) PROVE BatchInv'
  BY <1>1, <1>6 DEF ListenerDies
<1>7. ASSUME NEW c \in Conductors, Crash(c) PROVE BatchInv'
  <2>1. /\ \A a \in Actions : work'[a] = IF holder[a] = {c} THEN "again" ELSE work[a]
        /\ \A a \in Actions : holder'[a] = holder[a] \ {c}
        /\ \A d \in Conductors \ {c} : loop'[d] = loop[d]
    BY <1>7 DEF Crash
  <2>2. \A a \in Actions : holder'[a] = IF holder[a] = {c} THEN {} ELSE holder[a]
    <3> SUFFICES ASSUME NEW a \in Actions
                 PROVE  holder[a] \ {c} = IF holder[a] = {c} THEN {} ELSE holder[a]
      BY <2>1
    <3>1. CASE holder[a] = {}
      BY <3>1
    <3>2. ASSUME NEW d \in Conductors, holder[a] = {d}
          PROVE  holder[a] \ {c} = IF holder[a] = {c} THEN {} ELSE holder[a]
      <4>1. CASE d = c
        BY <3>2, <4>1
      <4>2. CASE d # c
        BY <3>2, <4>2
      <4> QED  BY <4>1, <4>2
    <3> QED  BY <3>1, <3>2 DEF BatchInv, OneHolder
  <2>3. OneHolder'
    BY <2>2 DEF BatchInv, OneHolder
  <2>4. BatchesAreWaitedFor'
    <3>1. \A a \in Actions, d \in Conductors : holder'[a] = {d} => holder[a] = {d} /\ d # c
      BY <2>2
    <3> QED  BY <2>1, <3>1 DEF BatchInv, BatchesAreWaitedFor
  <2> QED  BY <2>3, <2>4 DEF BatchInv
<1>8. ASSUME NEW c \in Conductors, NEW a \in Actions, Finish(c, a) PROVE BatchInv'
  <2>1. /\ holder' = [holder EXCEPT ![a] = {}]
        /\ \A b \in Actions \ {a} : work'[b] = work[b]
        /\ UNCHANGED loop
    BY <1>8 DEF Finish
  <2>2. OneHolder'
    BY <2>1 DEF BatchInv, OneHolder
  <2>3. \A b \in Actions, d \in Conductors : holder'[b] = {d} => holder[b] = {d} /\ b # a
    BY <2>1
  <2>4. ASSUME NEW b \in Actions, NEW d \in Conductors, holder'[b] = {d}
        PROVE  work'[b] = "claimed" /\ loop'[d][HandlerOf[b]] = "batch"
    <3>1. holder[b] = {d} /\ b # a
      BY <2>3, <2>4
    <3>2. work[b] = "claimed" /\ loop[d][HandlerOf[b]] = "batch"
      BY <3>1 DEF BatchInv, BatchesAreWaitedFor
    <3> QED  BY <2>1, <3>1, <3>2
  <2> QED  BY <2>2, <2>4 DEF BatchInv, BatchesAreWaitedFor
<1>9. ASSUME NEW a \in Actions, Submit(a) \/ Elapse(a) PROVE BatchInv'
  <2>1. /\ UNCHANGED <<holder, loop>> /\ work[a] # "claimed"
        /\ \A b \in Actions \ {a} : work'[b] = work[b]
    BY <1>9 DEF Submit, Elapse
  <2> QED  BY <2>1 DEF BatchInv, OneHolder, BatchesAreWaitedFor
<1>10. CASE UNCHANGED vars
  BY <1>1, <1>10 DEF vars
<1> QED
  BY <1>2, <1>3, <1>4, <1>5, <1>6, <1>7, <1>8, <1>9, <1>10 DEF Next, LoopStep

\* A thread is in the hands of one loop, and that loop waits for its goroutine.
THEOREM BatchesWait == Spec => []BatchesAreWaitedFor
<1>1. Init => BatchInv
  BY DEF Init, BatchInv, OneHolder, BatchesAreWaitedFor
<1>2. BatchInv => BatchesAreWaitedFor
  BY DEF BatchInv
<1> QED  BY <1>1, <1>2, InitInv, StepInv, BatchStep, PTL DEF Spec
=============================================================================
