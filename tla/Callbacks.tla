----------------------------- MODULE Callbacks -----------------------------
(***************************************************************************)
(* The callbacks of a finished workflow (pkg/caboose/callback.go): which   *)
(* actions they become, and what the executor writes of each.  Every write *)
(* commits at once: the executor is handed the pool, not the transaction   *)
(* of its caller.  Module Caboose says when they happen.                   *)
(***************************************************************************)
EXTENDS Naturals, Sequences, FiniteSets

CONSTANTS
    Workflows,
    Callbacks,     \* the configured callbacks
    CallbacksOf,   \* those that Lookup returns for a workflow and its final state
    TypeOf,        \* "single", "perFeature", or a type the executor does not know
    Features,
    FeaturesOf,    \* the features of a workflow's output
    WithFeatures,  \* the workflows whose output has a list of features at all
    Faulty,        \* callbacks whose parameters cannot be extracted or do not validate
    Whole          \* stands in for the feature of a callback made once

ASSUME CallbacksAssumption ==
    /\ CallbacksOf \in [Workflows -> SUBSET Callbacks]
    /\ TypeOf \in [Callbacks -> {"single", "perFeature", "other"}]
    /\ FeaturesOf \in [Workflows -> SUBSET Features]
    /\ WithFeatures \subseteq Workflows
    /\ Faulty \subseteq Callbacks
    /\ Whole \notin Features

VARIABLES
    rows,  \* the callback actions of each workflow, in the order of their insertion
    todo   \* what is left of the callbacks of a workflow that is being processed

Item == Callbacks \X (Features \cup {Whole})

\* A row without parameters is "waiting": the action is inserted and pending,
\* and anyone may take it.
RowState == {"waiting", "ready", "failed"}

PerFeature(w, cb) == TypeOf[cb] = "perFeature" /\ w \in WithFeatures

\* ProcessCallbacks: the actions that one callback makes ...
ItemsOf(w, cb) ==
    IF PerFeature(w, cb) THEN {<<cb, f>> : f \in FeaturesOf[w]} ELSE {<<cb, Whole>>}

\* ... and the callbacks of a workflow.
Items(w) == UNION {ItemsOf(w, cb) : cb \in CallbacksOf[w]}

\* A fault of the callback itself, which its action is failed for.
Fatal(w, i) ==
    \/ TypeOf[i[1]] # "single" /\ ~PerFeature(w, i[1])
    \/ i[1] \in Faulty

\* The callbacks come one after the other, in an order nobody chose (the
\* configuration is a map), the features of each within it.
Due(w) ==
    {i \in todo[w] : \A j \in todo[w] : j[1] = i[1] \/ ItemsOf(w, j[1]) \subseteq todo[w]}

Last(w) == rows[w][Len(rows[w])]

\* insertCallback
InsertCallback(w, i) ==
    rows' = [rows EXCEPT ![w] = Append(@, [item |-> i, state |-> "waiting"])]

SettleLast(w, state) == rows' = [rows EXCEPT ![w][Len(rows[w])].state = state]

\* The second half of processCallback and of insertAndFailCallback: the action
\* is failed for good, or its parameters are stored.
PutOrFail(w) == SettleLast(w, IF Fatal(w, Last(w).item) THEN "failed" ELSE "ready")

TypeOKCallbacks ==
    /\ rows \in [Workflows -> Seq([item : Item, state : RowState])]
    /\ todo \in [Workflows -> SUBSET Item]

InitCallbacks ==
    /\ rows = [w \in Workflows |-> <<>>]
    /\ todo = [w \in Workflows |-> {}]

\* The rows made for an item.
RowsFor(w, i) == {n \in DOMAIN rows[w] : rows[w][n].item = i}

\* An item is answered by an action that has what it needs, or that was failed
\* for a fault of its own.
Answered(w, i) ==
    \E n \in RowsFor(w, i) : rows[w][n].state = (IF Fatal(w, i) THEN "failed" ELSE "ready")
=============================================================================
