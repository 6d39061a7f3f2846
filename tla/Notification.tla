---------------------------- MODULE Notification ----------------------------
(***************************************************************************)
(* How a handler loop learns that there is work: the LISTEN/NOTIFY         *)
(* connection of each conductor (pkg/db/listener.go), the one-slot channel *)
(* of each handler, the poller, and the renotification after a full batch  *)
(* (Handler.Run).  Module Conductor has the same loops with their          *)
(* sessions, transactions and locks; here a wakeup may come at the times   *)
(* the code sends one, and at no other.                                    *)
(***************************************************************************)
EXTENDS Naturals, FiniteSets

CONSTANTS
    Conductors,  \* conductor processes
    Handlers,    \* handler names, the channels of the notifications
    Actions,
    HandlerOf,   \* the handler of each action
    BatchSize

ASSUME NotificationAssumption ==
    /\ HandlerOf \in [Actions -> Handlers]
    /\ BatchSize \in Nat \ {0}
    /\ IsFiniteSet(Actions)

VARIABLES
    work,      \* "absent", "fresh" (processable, no query returned it yet),
               \* "claimed", "backoff", "again" (processable once more), "settled"
    holder,    \* the conductors that claimed an action: at most one
    listener,  \* "off", "on", or "dead": the listen goroutine has returned
    sent,      \* channels with a notification on the way to each conductor
    slot,      \* the handlers of each conductor whose isNotified is full
    loop       \* the handler loops

vars == <<work, holder, listener, sent, slot, loop>>

TypeOK ==
    /\ work \in [Actions -> {"absent", "fresh", "claimed", "backoff", "again", "settled"}]
    /\ holder \in [Actions -> SUBSET Conductors]
    /\ listener \in [Conductors -> {"off", "on", "dead"}]
    /\ sent \in [Conductors -> SUBSET Handlers]
    /\ slot \in [Conductors -> SUBSET Handlers]
    /\ loop \in [Conductors -> [Handlers ->
                   {"off", "starting", "connect", "wait", "query", "batch"}]]

Init ==
    /\ work \in [Actions -> {"absent", "fresh"}]
    /\ holder = [a \in Actions |-> {}]
    /\ listener = [c \in Conductors |-> "off"]
    /\ sent = [c \in Conductors |-> {}]
    /\ slot = [c \in Conductors |-> {}]
    /\ loop = [c \in Conductors |-> [h \in Handlers |-> "off"]]

ActionsOf(h) == {a \in Actions : HandlerOf[a] = h}
Processable(h) == {a \in ActionsOf(h) : work[a] \in {"fresh", "again"}}

Goto(c, h, at) == loop' = [loop EXCEPT ![c][h] = at]

\* Handler.NotifyNow: a full slot is left full.
NotifyNow(c, h) == slot' = [slot EXCEPT ![c] = @ \cup {h}]

-----------------------------------------------------------------------------
(* A conductor starts.                                                      *)

\* PgConductor.Run: the handlers whose client could be made are listened for,
\* and only then started.
Start(c) ==
    /\ listener[c] = "off"
    /\ \E ready \in SUBSET Handlers \ {{}} :
         loop' = [loop EXCEPT ![c] =
                    [h \in Handlers |-> IF h \in ready THEN "starting" ELSE "off"]]
    /\ listener' = [listener EXCEPT ![c] = "on"]
    /\ UNCHANGED <<work, holder, sent, slot>>

\* Handler.Start: poll once on start, whatever was missed before.
StartHandler(c, h) ==
    /\ loop[c][h] = "starting"
    /\ NotifyNow(c, h)
    /\ Goto(c, h, "connect")
    /\ UNCHANGED <<work, holder, listener, sent>>

ConnectHandler(c, h) ==
    /\ loop[c][h] = "connect"
    /\ Goto(c, h, "wait")
    /\ UNCHANGED <<work, holder, listener, sent, slot>>

-----------------------------------------------------------------------------
(* Wakeups.                                                                 *)

\* listen: a notification of a known channel notifies its handler.
Deliver(c, h) ==
    /\ listener[c] = "on"
    /\ h \in sent[c]
    /\ sent' = [sent EXCEPT ![c] = @ \ {h}]
    /\ NotifyNow(c, h)
    /\ UNCHANGED <<work, holder, listener, loop>>

\* listen: the connection is closed, and the goroutine returns; nothing starts
\* another one.
ListenerDies(c) ==
    /\ listener[c] = "on"
    /\ listener' = [listener EXCEPT ![c] = "dead"]
    /\ sent' = [sent EXCEPT ![c] = {}]
    /\ UNCHANGED <<work, holder, slot, loop>>

\* Mutant: the poller ends with the listener.
PollWhileListening(c, h) ==
    /\ loop[c][h] \in {"wait", "query", "batch"}
    /\ listener[c] = "on"
    /\ NotifyNow(c, h)
    /\ UNCHANGED <<work, holder, listener, sent, loop>>

\* Handler.poller.
Poll(c, h) ==
    /\ loop[c][h] \in {"wait", "query", "batch"}
    /\ NotifyNow(c, h)
    /\ UNCHANGED <<work, holder, listener, sent, loop>>

-----------------------------------------------------------------------------
(* Handler.Run.                                                             *)

\* The loop takes the notification ...
Take(c, h) ==
    /\ loop[c][h] = "wait"
    /\ h \in slot[c]
    /\ slot' = [slot EXCEPT ![c] = @ \ {h}]
    /\ Goto(c, h, "query")
    /\ UNCHANGED <<work, holder, listener, sent>>

\* Everything processable, cut off at BatchSize.
Batches(h) ==
    {b \in SUBSET Processable(h) : \/ Cardinality(b) = BatchSize
                                   \/ Cardinality(b) < BatchSize /\ b = Processable(h)}

\* Mutant: a full batch is followed by no further query.
QueryOnce(c, h) ==
    /\ loop[c][h] = "query"
    /\ \E batch \in Batches(h) :
         /\ work' = [a \in Actions |-> IF a \in batch THEN "claimed" ELSE work[a]]
         /\ holder' = [a \in Actions |-> IF a \in batch THEN {c} ELSE holder[a]]
    /\ Goto(c, h, "batch")
    /\ UNCHANGED <<listener, sent, slot>>

\* ... queries, and notifies itself again when there may be more.
Query(c, h) ==
    /\ loop[c][h] = "query"
    /\ \E batch \in Batches(h) :
         /\ work' = [a \in Actions |-> IF a \in batch THEN "claimed" ELSE work[a]]
         /\ holder' = [a \in Actions |-> IF a \in batch THEN {c} ELSE holder[a]]
         /\ IF Cardinality(batch) = BatchSize THEN NotifyNow(c, h) ELSE UNCHANGED slot
    /\ Goto(c, h, "batch")
    /\ UNCHANGED <<listener, sent>>

\* Mutant: the error of a thread is kept in a state that no query knows.
FinishInError(c, a) ==
    /\ holder[a] = {c}
    /\ \E outcome \in {"settled", "error", "again"} :
         work' = [work EXCEPT ![a] = outcome]
    /\ holder' = [holder EXCEPT ![a] = {}]
    /\ UNCHANGED <<listener, sent, slot, loop>>

\* A goroutine is done with its thread: settled, backed off, or unlocked with
\* nothing recorded.  None of these sends a notification.
Finish(c, a) ==
    /\ holder[a] = {c}
    /\ \E outcome \in {"settled", "backoff", "again"} :
         work' = [work EXCEPT ![a] = outcome]
    /\ holder' = [holder EXCEPT ![a] = {}]
    /\ UNCHANGED <<listener, sent, slot, loop>>

\* Mutant: the batch is not waited for.
BatchDoneAtOnce(c, h) ==
    /\ loop[c][h] = "batch"
    /\ Goto(c, h, "wait")
    /\ UNCHANGED <<work, holder, listener, sent, slot>>

\* wg.Wait.
BatchDone(c, h) ==
    /\ loop[c][h] = "batch"
    /\ \A a \in ActionsOf(h) : holder[a] # {c}
    /\ Goto(c, h, "wait")
    /\ UNCHANGED <<work, holder, listener, sent, slot>>

\* The conductor stops, panics or crashes: its sessions give up their locks.
Crash(c) ==
    /\ listener[c] # "off"
    /\ work' = [a \in Actions |-> IF holder[a] = {c} THEN "again" ELSE work[a]]
    /\ holder' = [a \in Actions |-> holder[a] \ {c}]
    /\ listener' = [listener EXCEPT ![c] = "off"]
    /\ sent' = [sent EXCEPT ![c] = {}]
    /\ slot' = [slot EXCEPT ![c] = {}]
    /\ loop' = [loop EXCEPT ![c] = [h \in Handlers |-> "off"]]

-----------------------------------------------------------------------------
(* The database.                                                            *)

\* An action is inserted, and every connection that listens to the channel of
\* its handler is sent a notification.
Submit(a) ==
    /\ work[a] = "absent"
    /\ work' = [work EXCEPT ![a] = "fresh"]
    /\ sent' = [c \in Conductors |->
                  IF listener[c] = "on" /\ loop[c][HandlerOf[a]] # "off"
                    THEN sent[c] \cup {HandlerOf[a]} ELSE sent[c]]
    /\ UNCHANGED <<holder, listener, slot, loop>>

\* A backoff is due again; that is a matter of the clock, and sends nothing.
Elapse(a) ==
    /\ work[a] = "backoff"
    /\ work' = [work EXCEPT ![a] = "again"]
    /\ UNCHANGED <<holder, listener, sent, slot, loop>>

-----------------------------------------------------------------------------
LoopStep(c, h) ==
    \/ StartHandler(c, h) \/ ConnectHandler(c, h)
    \/ Take(c, h) \/ Query(c, h) \/ BatchDone(c, h)

Next ==
    \/ \E c \in Conductors : Start(c) \/ ListenerDies(c) \/ Crash(c)
    \/ \E c \in Conductors, h \in Handlers :
         LoopStep(c, h) \/ Deliver(c, h) \/ Poll(c, h)
    \/ \E c \in Conductors, a \in Actions : Finish(c, a)
    \/ \E a \in Actions : Submit(a) \/ Elapse(a)

Spec == Init /\ [][Next]_vars

\* The loops run and the poller's timer fires.  Neither the delivery of a
\* notification is relied upon nor that a handleFn ever returns.
FairSpec ==
    /\ Spec
    /\ \A c \in Conductors, h \in Handlers :
         WF_vars(LoopStep(c, h)) /\ WF_vars(Poll(c, h))

-----------------------------------------------------------------------------
\* No wakeup is lost: while an action that no query has returned is
\* processable, each conductor that listens for its handler has a notification
\* in the slot or on the way, or its loop is about to query anyway.  (The
\* comment on PgConductor.Run: handlers start after the listener so that no
\* notification is missed.)
NoLostWakeup ==
    \A a \in Actions, c \in Conductors :
        LET h == HandlerOf[a]
        IN  work[a] = "fresh" /\ listener[c] # "dead" /\ loop[c][h] # "off" =>
              \/ h \in slot[c] \cup sent[c]
              \/ loop[c][h] \in {"starting", "query"}

\* A thread is handed to one loop only, and a loop does not return to waiting
\* while a goroutine of its batch is at work.
BatchesAreWaitedFor ==
    \A a \in Actions, c \in Conductors :
        holder[a] = {c} => work[a] = "claimed" /\ loop[c][HandlerOf[a]] = "batch"

\* Whatever became of the listener, processable actions are looked for again: a
\* started handler that is not at work on a batch queries and takes one, or the
\* actions are taken by others, or its conductor goes down.
WorkIsFound ==
    \A c \in Conductors, h \in Handlers :
        Processable(h) # {} /\ loop[c][h] # "off"
            ~> Processable(h) = {} \/ loop[c][h] \in {"batch", "off"}
=============================================================================
