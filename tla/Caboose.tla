------------------------------ MODULE Caboose ------------------------------
(***************************************************************************)
(* The Argo caboose (pkg/caboose/argo/argo.go): informer handlers that     *)
(* turn changes of the workflows in the cluster into events, workers that  *)
(* process them, the retry of what failed, and the process around them.    *)
(*                                                                         *)
(* Each workflow has at most one event of a kind on its way; where it is   *)
(* is at[kind][w].  Workers have no identity: one is busy for each event   *)
(* at a position of Working.                                               *)
(***************************************************************************)
EXTENDS Callbacks

CONSTANTS
    MaxWorkers,  \* maxWorkers
    PoolSize,    \* connections of the pool
    LostReplies, \* whether a call that took effect may still return an error
    MaxFaults    \* bound: failing operations, lost events, signals and crashes

ASSUME CabooseAssumption ==
    /\ MaxWorkers \in Nat \ {0}
    /\ PoolSize \in Nat \ {0}
    /\ LostReplies \in BOOLEAN
    /\ MaxFaults \in Nat

VARIABLES
    cluster,    \* the workflows in the cluster
    proc,       \* "down", "syncing", "up", "stopping" (the context is cancelled)
    unstarted,  \* worker goroutines that have not run yet
    workers,    \* those the wait group counts
    at,
    events,     \* workflow events in the database
    resource,   \* workflows whose resource is in object storage
    faults

cabooseVars == <<cluster, proc, unstarted, workers, at, events, resource, faults>>
vars == <<cabooseVars, rows, todo>>

Kind == {"started", "completed"}

\* Positions of an event between Begin and the return of wfDone.
InTx == {"start", "end", "resource", "inputs", "items", "params", "delete", "commit"}
Working == {"insert", "begin"} \cup InTx
Position == {"none", "queued", "lookup", "send", "dropped", "backoff", "resend"} \cup Working

TypeOK ==
    /\ TypeOKCallbacks
    /\ cluster \in [Workflows -> {"pending", "running", "completed", "gone"}]
    /\ proc \in {"down", "syncing", "up", "stopping"}
    /\ unstarted \in 0 .. MaxWorkers
    /\ workers \in 0 .. MaxWorkers
    /\ at \in [Kind -> [Workflows -> Position]]
    /\ events \in [Workflows -> SUBSET {"start", "end"}]
    /\ resource \subseteq Workflows
    /\ faults \in 0 .. MaxFaults

Init ==
    /\ InitCallbacks
    /\ cluster \in [Workflows -> {"pending", "completed"}]
    /\ proc = "down"
    /\ unstarted = 0
    /\ workers = 0
    /\ at = [k \in Kind |-> [w \in Workflows |-> "none"]]
    /\ events = [w \in Workflows |-> {}]
    /\ resource = {}
    /\ faults = 0

Move(k, w, to) == at' = [at EXCEPT ![k][w] = to]

Busy == {e \in Kind \X Workflows : at[e[1]][e[2]] \in Working}

\* Each worker in wfDone keeps a connection of the pool for its transaction;
\* any other statement needs one more.
Transactions == {w \in Workflows : at["completed"][w] \in InTx}
ConnFree == Cardinality(Transactions) < PoolSize

\* Something goes wrong; once the context is cancelled, anything may.
Goes(wrong) == wrong /\ faults < MaxFaults /\ faults' = faults + 1
Fails == Goes(TRUE) \/ (proc = "stopping" /\ UNCHANGED faults)

\* A worker whose context is cancelled takes no other event.
WorkerReturns == workers' = IF proc = "stopping" THEN workers - 1 ELSE workers

-----------------------------------------------------------------------------
(* The cluster.                                                             *)

Advance(w, from, to, k) ==
    /\ cluster[w] = from
    /\ cluster' = [cluster EXCEPT ![w] = to]
    /\ IF proc = "up" THEN Move(k, w, "queued") ELSE UNCHANGED at
    /\ UNCHANGED <<proc, unstarted, workers, events, resource, faults, rows, todo>>

\* FilterFunc turns the change of a label into an addition, once.
WorkflowRuns(w) == Advance(w, "pending", "running", "started")
WorkflowCompletes(w) ==
    Advance(w, "running", "completed", "completed")
        \/ Advance(w, "pending", "completed", "completed")

-----------------------------------------------------------------------------
(* The process.                                                             *)

\* Run up to the start of the informer.
Launch ==
    /\ proc = "down"
    /\ proc' = "syncing"
    /\ unstarted' = MaxWorkers
    /\ UNCHANGED <<cluster, workers, at, events, resource, faults, rows, todo>>

\* Mutant: a worker is counted both by who starts it and by itself.
StartWorkerTwice ==
    /\ unstarted > 0
    /\ unstarted' = unstarted - 1
    /\ workers' = workers + 2
    /\ UNCHANGED <<cluster, proc, at, events, resource, faults, rows, todo>>

\* worker: it adds itself to the wait group.
StartWorker ==
    /\ unstarted > 0
    /\ unstarted' = unstarted - 1
    /\ workers' = workers + 1
    /\ UNCHANGED <<cluster, proc, at, events, resource, faults, rows, todo>>

\* The cache is synced: what the cluster holds is added.
Sync ==
    /\ proc = "syncing"
    /\ proc' = "up"
    /\ at' = [at EXCEPT
                !["started"] = [w \in Workflows |->
                    IF cluster[w] = "running" THEN "queued" ELSE "none"],
                !["completed"] = [w \in Workflows |->
                    IF cluster[w] = "completed" THEN "queued" ELSE "none"]]
    /\ UNCHANGED <<cluster, unstarted, workers, events, resource, faults, rows, todo>>

Ends ==
    /\ proc' = "down"
    /\ unstarted' = 0
    /\ workers' = 0
    /\ at' = [k \in Kind |-> [w \in Workflows |-> "none"]]
    /\ todo' = [w \in Workflows |-> {}]
    /\ UNCHANGED <<cluster, events, resource, rows>>

\* SignalHandler: the context is cancelled.  Run returns if it waits for the
\* cache, and goes on to wait for the workers if not.
Stop ==
    /\ Goes(proc \in {"syncing", "up"})
    /\ IF proc = "syncing" THEN Ends
       ELSE /\ proc' = "stopping"
            /\ UNCHANGED <<cluster, unstarted, workers, at, events, resource, rows, todo>>

\* wg.Wait returns: no worker is counted, because all have returned, or because
\* none has run yet (which counts as a fault).
WaitReturns ==
    /\ proc \in {"up", "stopping"}
    /\ workers = 0
    /\ IF proc = "up" THEN Goes(TRUE) ELSE UNCHANGED faults
    /\ Ends

Crash == Goes(proc # "down") /\ Ends

-----------------------------------------------------------------------------
(* An informer handler (one goroutine for each kind).                       *)

Handling(k) == \E w \in Workflows : at[k][w] \in {"lookup", "send"}

Handle(k, w) ==
    /\ at[k][w] = "queued"
    /\ ~Handling(k)
    /\ Move(k, w, "lookup")
    /\ UNCHANGED <<cluster, proc, unstarted, workers, events, resource, faults, rows, todo>>

\* newWorkflowEvent: an event whose workflow's name is not found is dropped.
NewWorkflowEvent(k, w) ==
    /\ at[k][w] = "lookup"
    /\ \/ ConnFree /\ Move(k, w, "send") /\ UNCHANGED faults
       \/ Move(k, w, "dropped") /\ Fails
    /\ UNCHANGED <<cluster, proc, unstarted, workers, events, resource, rows, todo>>

-----------------------------------------------------------------------------
(* A worker.                                                                *)

\* A worker receives an event from wfChan.
Receive(k, w) ==
    /\ at[k][w] \in {"send", "resend"}
    /\ Cardinality(Busy) < workers
    /\ Move(k, w, IF k = "started" THEN "insert" ELSE "begin")
    /\ UNCHANGED <<cluster, proc, unstarted, workers, events, resource, faults, rows, todo>>

\* Mutant: a worker that stops stays in the wait group.
WorkerStopsUncounted ==
    /\ proc = "stopping"
    /\ Cardinality(Busy) < workers
    /\ UNCHANGED vars

\* A worker that is not busy sees the context cancelled.
WorkerStops ==
    /\ proc = "stopping"
    /\ Cardinality(Busy) < workers
    /\ workers' = workers - 1
    /\ UNCHANGED <<cluster, proc, unstarted, at, events, resource, faults, rows, todo>>

\* wfStart: process ignores the error.
WfStart(w) ==
    /\ at["started"][w] = "insert"
    /\ \/ ConnFree /\ events' = [events EXCEPT ![w] = @ \cup {"start"}] /\ UNCHANGED faults
       \/ Fails /\ UNCHANGED events
    /\ Move("started", w, "none")
    /\ WorkerReturns
    /\ UNCHANGED <<cluster, proc, unstarted, resource, rows, todo>>

-----------------------------------------------------------------------------
(* wfDone, one action for each of its steps.                                *)

\* Mutant: an event that failed is not tried again.
GiveUp(w) ==
    /\ Fails
    /\ Move("completed", w, "none")
    /\ todo' = [todo EXCEPT ![w] = {}]
    /\ WorkerReturns

\* process: after an error the event waits for its next try.
Retry(w) ==
    /\ Fails
    /\ Move("completed", w, "backoff")
    /\ todo' = [todo EXCEPT ![w] = {}]
    /\ WorkerReturns

\* Once the context is cancelled no further call succeeds.
Proceed(w, to, left) ==
    /\ proc # "stopping"
    /\ Move("completed", w, to)
    /\ todo' = [todo EXCEPT ![w] = left]
    /\ UNCHANGED <<workers, faults>>

\* The effect of a call that was made may still be reported as an error.
Reply(w, to, left) == Proceed(w, to, left) \/ (LostReplies /\ Retry(w))

\* Mutant: parameters that could not be stored are passed over.
StepFailsUnseen(w) ==
    /\ at["completed"][w] \in Working
    /\ \/ at["completed"][w] # "params" /\ Retry(w)
       \/ /\ at["completed"][w] = "params"
          /\ Fails
          /\ LET left == todo[w] \ {Last(w).item}
             IN  /\ Move("completed", w, IF left = {} THEN "delete" ELSE "items")
                 /\ todo' = [todo EXCEPT ![w] = left]
          /\ UNCHANGED workers
    /\ UNCHANGED <<cluster, proc, unstarted, events, resource, rows>>

\* A step fails without an effect.
StepFails(w) ==
    /\ at["completed"][w] \in Working
    /\ Retry(w)
    /\ UNCHANGED <<cluster, proc, unstarted, events, resource, rows>>

Begin(w) ==
    /\ at["completed"][w] = "begin"
    /\ ConnFree
    /\ Proceed(w, "start", {})
    /\ UNCHANGED <<cluster, proc, unstarted, events, resource, rows>>

\* Mutant: a completed workflow is recorded to have ended before it is recorded
\* to have started.
InsertOtherEvent(w, from, event, to) ==
    /\ at["completed"][w] = from
    /\ ConnFree
    /\ events' = [events EXCEPT ![w] = @ \cup {IF event = "start" THEN "end" ELSE "start"}]
    /\ Reply(w, to, {})
    /\ UNCHANGED <<cluster, proc, unstarted, resource, rows>>

InsertEvent(w, from, event, to) ==
    /\ at["completed"][w] = from
    /\ ConnFree
    /\ events' = [events EXCEPT ![w] = @ \cup {event}]
    /\ Reply(w, to, {})
    /\ UNCHANGED <<cluster, proc, unstarted, resource, rows>>

InsertStartEvent(w) == InsertEvent(w, "start", "start", "end")
InsertEndEvent(w) == InsertEvent(w, "end", "end", "resource")

PutWorkflowResource(w) ==
    /\ at["completed"][w] = "resource"
    /\ resource' = resource \cup {w}
    /\ Reply(w, IF CallbacksOf[w] = {} THEN "delete" ELSE "inputs", {})
    /\ UNCHANGED <<cluster, proc, unstarted, events, rows>>

\* ProcessCallbacks reads the input, and the output of a success.
GetInputs(w) ==
    /\ at["completed"][w] = "inputs"
    /\ Proceed(w, IF Items(w) = {} THEN "delete" ELSE "items", Items(w))
    /\ UNCHANGED <<cluster, proc, unstarted, events, resource, rows>>

\* processCallback inserts the action ...
MakeCallback(w) ==
    /\ at["completed"][w] = "items"
    /\ ConnFree
    /\ \E i \in Due(w) : InsertCallback(w, i)
    /\ Reply(w, "params", todo[w])
    /\ UNCHANGED <<cluster, proc, unstarted, events, resource>>

\* ... and then puts its parameters, or fails it.
SettleCallback(w) ==
    /\ at["completed"][w] = "params"
    /\ Fatal(w, Last(w).item) => ConnFree
    /\ PutOrFail(w)
    /\ LET left == todo[w] \ {Last(w).item}
       IN  Reply(w, IF left = {} THEN "delete" ELSE "items", left)
    /\ UNCHANGED <<cluster, proc, unstarted, events, resource>>

\* deleteWorkflow: one that is not found was deleted already.
DeleteWorkflow(w) ==
    /\ at["completed"][w] = "delete"
    /\ cluster' = [cluster EXCEPT ![w] = "gone"]
    /\ Reply(w, "commit", {})
    /\ UNCHANGED <<proc, unstarted, events, resource, rows>>

\* Mutant: a processed event is sent to be processed once more.
CommitAndResend(w) ==
    /\ at["completed"][w] = "commit"
    /\ Move("completed", w, "backoff")
    /\ WorkerReturns
    /\ UNCHANGED <<cluster, proc, unstarted, events, resource, faults, rows, todo>>

\* The transaction that is committed holds nothing.
Commit(w) ==
    /\ at["completed"][w] = "commit"
    /\ Move("completed", w, "none")
    /\ WorkerReturns
    /\ UNCHANGED <<cluster, proc, unstarted, events, resource, faults, rows, todo>>

\* backoff: the timer fires, or the context is cancelled first.
BackoffEnds(w) ==
    /\ at["completed"][w] = "backoff"
    /\ \/ Move("completed", w, "resend")
       \/ proc = "stopping" /\ Move("completed", w, "none")
    /\ UNCHANGED <<cluster, proc, unstarted, workers, events, resource, faults, rows, todo>>

-----------------------------------------------------------------------------
WfDone(w) ==
    \/ Begin(w) \/ InsertStartEvent(w) \/ InsertEndEvent(w) \/ PutWorkflowResource(w)
    \/ GetInputs(w) \/ MakeCallback(w) \/ SettleCallback(w)
    \/ DeleteWorkflow(w) \/ Commit(w) \/ StepFails(w)

EventStep(k, w) == Handle(k, w) \/ NewWorkflowEvent(k, w) \/ Receive(k, w)

Next ==
    \/ Launch \/ StartWorker \/ Sync \/ Stop \/ WorkerStops \/ WaitReturns \/ Crash
    \/ \E w \in Workflows :
         \/ WorkflowRuns(w) \/ WorkflowCompletes(w)
         \/ WfStart(w) \/ WfDone(w) \/ BackoffEnds(w)
         \/ \E k \in Kind : EventStep(k, w)

Spec == Init /\ [][Next]_vars

\* Goroutines run, calls return, timers fire; nothing restarts the process.
FairSpec ==
    /\ Spec
    /\ WF_vars(StartWorker) /\ WF_vars(Sync) /\ WF_vars(WorkerStops)
    /\ WF_vars(proc = "stopping" /\ WaitReturns)
    /\ \A w \in Workflows :
         /\ WF_vars(WfStart(w)) /\ WF_vars(WfDone(w)) /\ WF_vars(BackoffEnds(w))
         /\ \A k \in Kind : WF_vars(EventStep(k, w))

-----------------------------------------------------------------------------
\* Nothing of a workflow that the caboose removed from the cluster is lost,
\* whatever failed or stopped on the way and however often it was retried: its
\* start and its end are recorded, its resource is stored, and every one of its
\* callbacks has an action with parameters, or one failed for its own fault.
GoneIsAccountedFor ==
    \A w \in Workflows : cluster[w] = "gone" =>
        /\ events[w] = {"start", "end"}
        /\ w \in resource
        /\ \A i \in Items(w) : Answered(w, i)

\* Each try makes a callback action once: there are no more actions for an item
\* than one and the tries that something cut short, and no more actions left
\* without parameters than such tries.
WasteIsBounded ==
    \A w \in Workflows :
        /\ \A i \in Items(w) : Cardinality(RowsFor(w, i)) <= 1 + faults
        /\ Cardinality({n \in DOMAIN rows[w] : rows[w][n].state = "waiting"})
             <= faults + (IF at["completed"][w] = "params" THEN 1 ELSE 0)

\* The comment in processCallback: an error extracting params is fatal and
\* should not be retried.
FatalNotRetried ==
    \A w \in Workflows : \A i \in Items(w) :
        Cardinality({n \in RowsFor(w, i) : rows[w][n].state = "failed"}) <= 1

\* The caboose leaves of each workflow the history that module WorkflowLife
\* describes: wfDone stores its start, its end and its resource in that order,
\* then answers its callbacks, then deletes it, and no step that is repeated
\* or that comes late (a started event after the completed one) adds to it.
Life == INSTANCE WorkflowLife WITH
    Owed <- [w \in Workflows |-> Items(w)],
    recorded <- [w \in Workflows |->
                    events[w] \cup (IF w \in resource THEN {"resource"} ELSE {})],
    answered <- [w \in Workflows |-> {i \in Items(w) : Answered(w, i)}]

ImplementsWorkflowLife == Life!Spec

\* A completed workflow is processed and removed, as long as the process runs
\* and the name of the workflow was found.
CompletedAreRecorded ==
    \A w \in Workflows :
        cluster[w] = "completed" ~>
            cluster[w] = "gone" \/ at["completed"][w] = "dropped" \/ proc = "down"

\* The process ends when it is told to, whatever its workers and its handlers
\* are blocked on.
StopsWhenTold == proc = "stopping" ~> proc = "down"
=============================================================================
