------------------------------ MODULE SwoopDB ------------------------------
(***************************************************************************)
(* The swoop database as the statements of pkg/db see it: the status of    *)
(* each action, the advisory lock of its thread, and the sessions (one     *)
(* *pgx.Conn each) that read and write them, with at most one transaction  *)
(* per session.  The schema is another repository's (swoop-db), so what    *)
(* its functions and triggers do is external; what is modelled is their    *)
(* effect on the statements of this repository.                            *)
(*                                                                         *)
(* The operators below are the effects of single statements that reach the *)
(* server.  When a statement may be sent, and when it fails, is decided by *)
(* the module that sends it.                                               *)
(***************************************************************************)
EXTENDS Naturals, FiniteSets

CONSTANTS
    Actions,    \* the actions (rows of swoop.action, with their threads)
    Sessions,   \* the database sessions that may hold locks
    NoSession,  \* the holder of a lock that nobody holds
    NoEvent,    \* no uncommitted event
    MaxDepth    \* bound on the lock count of a thread within one session

ASSUME NoSessionAssumption == NoSession \notin Sessions
ASSUME ActionsAssumption == IsFiniteSet(Actions)

\* pkg/states: an open action may still be claimed by a handler; the others
\* are final as far as the conductor is concerned.
OpenStates == {"PENDING", "BACKOFF"}
DoneStates == {"QUEUED", "SUCCESSFUL"}
Statuses   == OpenStates \cup DoneStates \cup {"FAILED"}

ASSUME NoEventAssumption == NoEvent \notin Statuses

VARIABLES
    status,   \* status of an action: that of its latest committed event
    waiting,  \* the actions whose backoff (retry_seconds) has not elapsed
    lock,     \* the session that holds the advisory lock of the thread
    depth,    \* how many times that session has taken it
    open,     \* the sessions that are connected
    inTx,     \* the sessions that have a transaction open
    events    \* events[s][a]: the last event of a in the transaction of s

dbVars == <<status, waiting, lock, depth, open, inTx, events>>

DBTypeOK ==
    /\ status \in [Actions -> Statuses]
    /\ waiting \subseteq Actions
    /\ lock \in [Actions -> Sessions \cup {NoSession}]
    /\ depth \in [Actions -> Nat]
    /\ open \subseteq Sessions
    /\ inTx \subseteq Sessions
    /\ events \in [Sessions -> [Actions -> Statuses \cup {NoEvent}]]

DBInit ==
    /\ status = [a \in Actions |-> "PENDING"]
    /\ waiting = {}
    /\ lock = [a \in Actions |-> NoSession]
    /\ depth = [a \in Actions |-> 0]
    /\ open = {}
    /\ inTx = {}
    /\ events = [s \in Sessions |-> [a \in Actions |-> NoEvent]]

-----------------------------------------------------------------------------
(* Reading.                                                                 *)

\* What swoop.get_processable_actions looks for: never tried, or backed off
\* and due again.
Processable(a) ==
    \/ status[a] = "PENDING"
    \/ status[a] = "BACKOFF" /\ a \notin waiting

\* Mutant: threads are returned without their locks being tried.
ClaimableUnlocked(s, served) == {a \in served : Processable(a)}

\* The processable actions of `served' whose thread lock s can take.  An
\* advisory lock is re-entrant: a thread the session already holds is not
\* skipped (GetProcessableThreads is always called with nothing ignored).
Claimable(s, served) ==
    {a \in served : /\ Processable(a)
                    /\ lock[a] \in {NoSession, s}
                    /\ depth[a] < MaxDepth}

-----------------------------------------------------------------------------
(* Statements.                                                              *)

Connect(s) ==
    /\ open' = open \cup {s}
    /\ UNCHANGED <<status, waiting, lock, depth, inTx, events>>

\* GetProcessableThreads locks the threads it returns.
LockThreads(s, batch) ==
    /\ lock' = [a \in Actions |-> IF a \in batch THEN s ELSE lock[a]]
    /\ depth' = [a \in Actions |-> IF a \in batch THEN depth[a] + 1 ELSE depth[a]]
    /\ UNCHANGED <<status, waiting, open, inTx, events>>

\* swoop.unlock_thread gives back one count; a session that does not hold the
\* lock only gets a warning.
UnlockThread(s, a) ==
    /\ IF lock[a] = s
         THEN /\ depth' = [depth EXCEPT ![a] = @ - 1]
              /\ lock' = [lock EXCEPT ![a] = IF depth[a] = 1 THEN NoSession ELSE @]
         ELSE UNCHANGED <<lock, depth>>
    /\ UNCHANGED <<status, waiting, open, inTx, events>>

\* A nested BEGIN is only a warning: the session stays in its transaction.
BeginTx(s) ==
    /\ inTx' = inTx \cup {s}
    /\ UNCHANGED <<status, waiting, lock, depth, open, events>>

\* Event.Insert through session s.  Inside a transaction, whoever began it,
\* the event waits for the commit; outside one it takes effect at once.  The
\* row of the thread is locked by another session's uncommitted event.
InsertEvent(s, a, e) ==
    /\ \A t \in Sessions \ {s} : events[t][a] = NoEvent
    /\ IF s \in inTx
         THEN /\ events' = [events EXCEPT ![s][a] = e]
              /\ UNCHANGED <<status, waiting>>
         ELSE /\ status' = [status EXCEPT ![a] = e]
              /\ waiting' = IF e = "BACKOFF" THEN waiting \cup {a} ELSE waiting \ {a}
              /\ UNCHANGED events
    /\ UNCHANGED <<lock, depth, open, inTx>>

NoEvents == [a \in Actions |-> NoEvent]

\* COMMIT publishes every event inserted through the session since its BEGIN;
\* outside a transaction it is only a warning.
CommitTx(s) ==
    /\ status' = [a \in Actions |->
                    IF events[s][a] = NoEvent THEN status[a] ELSE events[s][a]]
    /\ waiting' = {a \in Actions : \/ events[s][a] = "BACKOFF"
                                   \/ events[s][a] = NoEvent /\ a \in waiting}
    /\ inTx' = inTx \ {s}
    /\ events' = [events EXCEPT ![s] = NoEvents]
    /\ UNCHANGED <<lock, depth, open>>

RollbackTx(s) ==
    /\ inTx' = inTx \ {s}
    /\ events' = [events EXCEPT ![s] = NoEvents]
    /\ UNCHANGED <<status, waiting, lock, depth, open>>

\* The sessions of S end: their transactions are rolled back and their locks
\* released by the server.
EndSessions(S) ==
    /\ open' = open \ S
    /\ inTx' = inTx \ S
    /\ events' = [s \in Sessions |-> IF s \in S THEN NoEvents ELSE events[s]]
    /\ lock' = [a \in Actions |-> IF lock[a] \in S THEN NoSession ELSE lock[a]]
    /\ depth' = [a \in Actions |-> IF lock[a] \in S THEN 0 ELSE depth[a]]
    /\ UNCHANGED <<status, waiting>>

\* The retry_seconds of a backoff elapse.
BackoffElapses(a) ==
    /\ a \in waiting
    /\ waiting' = waiting \ {a}
    /\ UNCHANGED <<status, lock, depth, open, inTx, events>>

=============================================================================
