--------------------------- MODULE CabooseProofs ---------------------------
(***************************************************************************)
(* What the caboose removes from the cluster is accounted for, for any     *)
(* workflows, callbacks and features, any number of workers, connections   *)
(* and faults.                                                             *)
(***************************************************************************)
EXTENDS Caboose, FiniteSetTheorems, TLAPS

USE CallbacksAssumption, CabooseAssumption

-----------------------------------------------------------------------------
(* Callback actions.                                                        *)

LEMMA ItemsType == \A w \in Workflows : Items(w) \in SUBSET Item
BY DEF Items, ItemsOf, Item

RowType == [item : Item, state : RowState]

\* An action that is appended leaves those before it alone.
LEMMA InsertKeeps ==
    ASSUME TypeOKCallbacks, NEW w \in Workflows, NEW i \in Item, InsertCallback(w, i)
    PROVE  /\ rows' \in [Workflows -> Seq(RowType)]
           /\ \A v \in Workflows \ {w} : rows'[v] = rows[v]
           /\ \A j \in Item : Answered(w, j) => Answered(w, j)'
           /\ rows'[w] # <<>> /\ Last(w)' = [item |-> i, state |-> "waiting"]
<1> DEFINE new == [item |-> i, state |-> "waiting"]
<1>1. rows' = [rows EXCEPT ![w] = Append(rows[w], new)]
  BY DEF InsertCallback
<1>2. new \in RowType /\ rows[w] \in Seq(RowType)
  BY DEF TypeOKCallbacks, RowState, RowType
<1>3. Append(rows[w], new) \in Seq(RowType)
  BY <1>2
<1>4. rows' \in [Workflows -> Seq(RowType)]
  BY <1>1, <1>3 DEF TypeOKCallbacks, RowType
<1>5. rows'[w] = Append(rows[w], new)
  BY <1>1 DEF TypeOKCallbacks
<1>6. /\ Len(rows'[w]) = Len(rows[w]) + 1
      /\ rows'[w][Len(rows[w]) + 1] = new
      /\ DOMAIN rows[w] = 1 .. Len(rows[w])
      /\ DOMAIN rows'[w] = 1 .. Len(rows[w]) + 1
      /\ \A n \in 1 .. Len(rows[w]) : rows'[w][n] = rows[w][n]
  <2> HIDE DEF new
  <2> QED  BY <1>2, <1>5
<1>7. \A j \in Item : Answered(w, j) => Answered(w, j)'
  BY <1>6 DEF Answered, RowsFor
<1>8. \A v \in Workflows \ {w} : rows'[v] = rows[v]
  BY <1>1 DEF TypeOKCallbacks
<1>9. rows'[w] # <<>> /\ Last(w)' = new
  <2>1. Len(rows[w]) \in Nat
    BY <1>2
  <2> HIDE DEF new
  <2> QED  BY <1>6, <2>1 DEF Last
<1> QED
  BY <1>4, <1>7, <1>8, <1>9

LEMMA LastType ==
    ASSUME TypeOKCallbacks, NEW w \in Workflows, rows[w] # <<>>
    PROVE  /\ Len(rows[w]) \in DOMAIN rows[w]
           /\ Last(w) \in RowType /\ Last(w).item \in Item
<1>1. rows[w] \in Seq(RowType)
  BY DEF TypeOKCallbacks, RowType
<1>2. Len(rows[w]) \in 1 .. Len(rows[w]) /\ DOMAIN rows[w] = 1 .. Len(rows[w])
  BY <1>1
<1>3. \A s : s \in Seq(RowType) => \A n \in 1 .. Len(s) : s[n] \in RowType
  OBVIOUS
<1>4. Last(w) \in RowType
  BY <1>1, <1>2, <1>3 DEF Last
<1> QED  BY <1>2, <1>4 DEF RowType

\* Settling the last action, while it waits, answers its item and takes no
\* answer away.
LEMMA SettleKeeps ==
    ASSUME TypeOKCallbacks, NEW w \in Workflows, PutOrFail(w),
           rows[w] # <<>>, Last(w).state = "waiting", NEW i, i = Last(w).item
    PROVE  /\ rows' \in [Workflows -> Seq(RowType)]
           /\ \A v \in Workflows \ {w} : rows'[v] = rows[v]
           /\ \A j \in Item : Answered(w, j) => Answered(w, j)'
           /\ Answered(w, i)'
<1> DEFINE last == Len(rows[w])
           state == IF Fatal(w, i) THEN "failed" ELSE "ready"
           new == [rows[w][last] EXCEPT !.state = state]
<1>1. rows' = [rows EXCEPT ![w] = [rows[w] EXCEPT ![last] = new]]
  BY DEF PutOrFail, SettleLast
<1>2. rows[w] \in Seq(RowType)
  BY DEF TypeOKCallbacks, RowType
<1>3. last \in DOMAIN rows[w] /\ rows[w][last] \in RowType
  BY LastType DEF Last
<1>4. new \in RowType /\ new.item = i /\ new.state = state
  BY <1>3 DEF RowType, RowState, Last
<1>5. [rows[w] EXCEPT ![last] = new] \in Seq(RowType)
  <2> HIDE DEF new
  <2> QED  BY <1>2, <1>3, <1>4
<1>6. rows' \in [Workflows -> Seq(RowType)]
  <2> HIDE DEF new
  <2> QED  BY <1>1, <1>5 DEF TypeOKCallbacks, RowType
<1>7. rows'[w] = [rows[w] EXCEPT ![last] = new] /\ \A v \in Workflows \ {w} : rows'[v] = rows[v]
  <2> HIDE DEF new
  <2> QED  BY <1>1 DEF TypeOKCallbacks
<1>8. /\ DOMAIN rows'[w] = DOMAIN rows[w]
      /\ rows'[w][last] = new
      /\ \A n \in DOMAIN rows[w] \ {last} : rows'[w][n] = rows[w][n]
  <2> HIDE DEF new
  <2> QED  BY <1>2, <1>3, <1>7
<1>9. \A j \in Item : Answered(w, j) => Answered(w, j)'
  <2> SUFFICES ASSUME NEW j \in Item, Answered(w, j) PROVE Answered(w, j)'
    OBVIOUS
  <2>1. PICK n \in DOMAIN rows[w] :
          rows[w][n].item = j /\ rows[w][n].state = (IF Fatal(w, j) THEN "failed" ELSE "ready")
    BY DEF Answered, RowsFor
  <2>2. n # last
    BY <2>1 DEF Last
  <2> QED  BY <1>8, <2>1, <2>2 DEF Answered, RowsFor
<1>10. Answered(w, i)'
  BY <1>3, <1>4, <1>8 DEF Answered, RowsFor
<1> QED  BY <1>6, <1>7, <1>9, <1>10

-----------------------------------------------------------------------------
(* Workers.                                                                 *)

\* No more events are worked on than there are workers, and no more workers
\* run than were made.
Counted ==
    /\ workers + unstarted <= MaxWorkers
    /\ IsFiniteSet(Busy)
    /\ Cardinality(Busy) <= workers
    /\ proc = "down" => workers = 0 /\ unstarted = 0

LEMMA MoveType ==
    ASSUME TypeOK, NEW k \in Kind, NEW w \in Workflows, NEW to \in Position, Move(k, w, to)
    PROVE  /\ at' \in [Kind -> [Workflows -> Position]]
           /\ at'[k][w] = to
           /\ \A l \in Kind, v \in Workflows : <<l, v>> # <<k, w>> => at'[l][v] = at[l][v]
BY DEF TypeOK, Move

LEMMA MoveBusy ==
    ASSUME TypeOK, Counted, NEW k \in Kind, NEW w \in Workflows, NEW to \in Position,
           Move(k, w, to)
    PROVE  /\ IsFiniteSet(Busy') /\ Cardinality(Busy') \in Nat /\ Cardinality(Busy) \in Nat
           /\ to \in Working /\ at[k][w] \in Working => Busy' = Busy
           /\ to \in Working => Cardinality(Busy') <= Cardinality(Busy) + 1
           /\ to \notin Working => Cardinality(Busy') <= Cardinality(Busy)
           /\ to \notin Working /\ at[k][w] \in Working =>
                Cardinality(Busy) > 0 /\ Cardinality(Busy') = Cardinality(Busy) - 1
<1> DEFINE e == <<k, w>>
<1>1. Busy' = IF to \in Working THEN Busy \cup {e} ELSE Busy \ {e}
  BY MoveType DEF Busy
<1>2. e \in Busy <=> at[k][w] \in Working
  BY DEF Busy
<1>3. /\ IsFiniteSet(Busy) /\ Cardinality(Busy) \in Nat
      /\ IsFiniteSet(Busy \cup {e}) /\ IsFiniteSet(Busy \ {e})
  BY FS_AddElement, FS_RemoveElement, FS_CardinalityType DEF Counted
<1>4. Cardinality(Busy \cup {e}) = IF e \in Busy THEN Cardinality(Busy) ELSE Cardinality(Busy) + 1
  BY FS_AddElement, <1>3
<1>5. Cardinality(Busy \ {e}) = IF e \in Busy THEN Cardinality(Busy) - 1 ELSE Cardinality(Busy)
  BY FS_RemoveElement, <1>3
<1>6. e \in Busy => Cardinality(Busy) > 0
  BY <1>3, FS_EmptySet
<1>7. Cardinality(Busy') \in Nat
  BY <1>1, <1>3, FS_CardinalityType
<1>8. e \in Busy => Busy \cup {e} = Busy
  OBVIOUS
<1> HIDE DEF e
<1> QED  BY <1>1, <1>2, <1>3, <1>4, <1>5, <1>6, <1>7, <1>8

\* A worker that returns after an event was busy with it.
LEMMA ReturnCounted ==
    ASSUME TypeOK, Counted, NEW k \in Kind, NEW w \in Workflows, at[k][w] \in Working,
           NEW to \in Position, to \notin Working, Move(k, w, to), WorkerReturns,
           UNCHANGED <<proc, unstarted>>
    PROVE  workers' \in 0 .. MaxWorkers /\ Counted'
<1>1. workers \in Nat /\ unstarted \in Nat /\ Cardinality(Busy) <= workers
  BY DEF TypeOK, Counted
<1> QED  BY <1>1, MoveBusy DEF TypeOK, Counted, WorkerReturns

LEMMA FaultsType == ASSUME TypeOK, Fails PROVE faults' \in 0 .. MaxFaults
BY DEF TypeOK, Fails, Goes

\* A step of wfDone goes on to the next, or the event backs off.
LEMMA OutcomeType ==
    ASSUME TypeOK, Counted, NEW w \in Workflows, at["completed"][w] \in Working,
           NEW to \in InTx, NEW left \in SUBSET Item,
           Proceed(w, to, left) \/ Retry(w),
           cluster' \in [Workflows -> {"pending", "running", "completed", "gone"}],
           events' \in [Workflows -> SUBSET {"start", "end"}],
           resource' \subseteq Workflows,
           rows' \in [Workflows -> Seq(RowType)],
           UNCHANGED <<proc, unstarted>>
    PROVE  TypeOK' /\ Counted'
<1>1. CASE Proceed(w, to, left)
  <2>1. Move("completed", w, to) /\ UNCHANGED <<workers, faults>>
    BY <1>1 DEF Proceed
  <2>2. to \in Position /\ to \in Working /\ "completed" \in Kind
    BY DEF Position, Working, Kind
  <2>3. at' \in [Kind -> [Workflows -> Position]] /\ Busy' = Busy
    BY <2>1, <2>2, MoveType, MoveBusy
  <2>4. todo' \in [Workflows -> SUBSET Item]
    BY <1>1 DEF Proceed, TypeOK, TypeOKCallbacks
  <2> QED  BY <2>1, <2>3, <2>4 DEF TypeOK, TypeOKCallbacks, Counted, RowType
<1>2. CASE Retry(w)
  <2>1. Move("completed", w, "backoff") /\ Fails /\ WorkerReturns
    BY <1>2 DEF Retry
  <2>2. "backoff" \in Position /\ "backoff" \notin Working /\ "completed" \in Kind
    BY DEF Position, Working, InTx, Kind
  <2>3. at' \in [Kind -> [Workflows -> Position]] /\ workers' \in 0 .. MaxWorkers /\ Counted'
    BY <2>1, <2>2, MoveType, ReturnCounted
  <2>4. todo' \in [Workflows -> SUBSET Item]
    BY <1>2 DEF Retry, TypeOK, TypeOKCallbacks
  <2> QED  BY <2>1, <2>3, <2>4, FaultsType DEF TypeOK, TypeOKCallbacks, RowType
<1> QED  BY <1>1, <1>2

-----------------------------------------------------------------------------
(* Accounts.                                                                *)

\* What an event in wfDone has already made sure of.
Progress(w) ==
    LET here == at["completed"][w]
    IN  /\ here \in InTx \ {"start"} => "start" \in events[w]
        /\ here \in InTx \ {"start", "end"} => "end" \in events[w]
        /\ here \in InTx \ {"start", "end", "resource"} => w \in resource
        /\ here \in {"items", "params"} => \A i \in Items(w) : i \in todo[w] \/ Answered(w, i)
        /\ here = "params" => rows[w] # <<>> /\ Last(w).state = "waiting"
        /\ here \in {"delete", "commit"} => \A i \in Items(w) : Answered(w, i)

Complete(w) ==
    /\ "start" \in events[w] /\ "end" \in events[w]
    /\ w \in resource
    /\ \A i \in Items(w) : Answered(w, i)

Account(w) == Progress(w) /\ (cluster[w] = "gone" => Complete(w))

Inv == TypeOK /\ Counted /\ \A w \in Workflows : Account(w)

\* A workflow whose event leaves wfDone, or stays where it is.
LEMMA AccountKept ==
    ASSUME NEW w \in Workflows, Account(w),
           events[w] \subseteq events'[w],
           w \in resource => w \in resource',
           \A i \in Items(w) : Answered(w, i) => Answered(w, i)',
           cluster'[w] = "gone" => cluster[w] = "gone",
           \/ at'["completed"][w] \notin InTx
           \/ at'["completed"][w] = at["completed"][w] /\ todo'[w] = todo[w] /\ rows'[w] = rows[w]
    PROVE  Account(w)'
<1>1. cluster'[w] = "gone" => Complete(w)'
  BY DEF Account, Complete
<1>2. CASE at'["completed"][w] \notin InTx
  <2>1. Progress(w)'
    BY <1>2 DEF Progress, InTx
  <2> QED  BY <1>1, <2>1 DEF Account
<1>3. CASE at'["completed"][w] = at["completed"][w] /\ todo'[w] = todo[w] /\ rows'[w] = rows[w]
  <2>1. Last(w)' = Last(w)
    BY <1>3 DEF Last
  <2>2. Progress(w)'
    BY <1>3, <2>1 DEF Account, Progress
  <2> QED  BY <1>1, <2>2 DEF Account
<1> QED  BY <1>2, <1>3

\* A step of one workflow's event leaves the accounts of the others alone.
LEMMA OthersKept ==
    ASSUME Inv, NEW k \in Kind, NEW w \in Workflows, NEW to \in Position, Move(k, w, to),
           NEW v \in Workflows, v # w,
           events'[v] = events[v], v \in resource => v \in resource',
           rows'[v] = rows[v], todo'[v] = todo[v], cluster'[v] = cluster[v]
    PROVE  Account(v)'
<1>1. at'["completed"][v] = at["completed"][v]
  BY MoveType DEF Inv, Kind
<1>2. \A i \in Items(v) : Answered(v, i) => Answered(v, i)'
  BY DEF Answered, RowsFor
<1>3. Account(v)
  BY DEF Inv
<1> QED  BY <1>1, <1>2, <1>3, AccountKept

\* A step of wfDone keeps the invariant when it takes nothing back and has done
\* what its next step counts on.
LEMMA DoneStep ==
    ASSUME Inv, NEW w \in Workflows, at["completed"][w] \in Working,
           NEW to \in InTx, NEW left \in SUBSET Item,
           Proceed(w, to, left) \/ Retry(w),
           cluster' \in [Workflows -> {"pending", "running", "completed", "gone"}],
           events' \in [Workflows -> SUBSET {"start", "end"}],
           resource' \subseteq Workflows,
           rows' \in [Workflows -> Seq(RowType)],
           UNCHANGED <<proc, unstarted>>,
           \A v \in Workflows \ {w} :
               events'[v] = events[v] /\ rows'[v] = rows[v] /\ cluster'[v] = cluster[v],
           events[w] \subseteq events'[w],
           resource \subseteq resource',
           \A i \in Items(w) : Answered(w, i) => Answered(w, i)',
           cluster'[w] = "gone" => cluster[w] = "gone" \/ Complete(w),
           Proceed(w, to, left) => Progress(w)'
    PROVE  Inv'
<1>1. TypeOK' /\ Counted'
  BY OutcomeType DEF Inv
<1>2. PICK next \in Position : Move("completed", w, next)
  <2>1. to \in Position /\ "backoff" \in Position
    BY DEF Position, Working
  <2> QED  BY <2>1 DEF Proceed, Retry
<1>3. PICK l : todo' = [todo EXCEPT ![w] = l]
  BY DEF Proceed, Retry
<1>4. ASSUME NEW v \in Workflows \ {w} PROVE Account(v)'
  <2>1. todo'[v] = todo[v]
    BY <1>3 DEF Inv, TypeOK, TypeOKCallbacks
  <2> QED  BY <1>2, <2>1, OthersKept DEF Kind
<1>5. Account(w)'
  <2>1. Complete(w) => Complete(w)'
    BY DEF Complete
  <2>2. cluster'[w] = "gone" => Complete(w)'
    BY <2>1 DEF Inv, Account
  <2>3. CASE Proceed(w, to, left)
    BY <2>2, <2>3 DEF Account
  <2>4. CASE Retry(w)
    <3>1. Move("completed", w, "backoff") /\ "backoff" \in Position /\ "completed" \in Kind
      BY <2>4 DEF Retry, Position, Kind
    <3>2. at'["completed"][w] \notin InTx
      BY <3>1, MoveType DEF Inv, InTx
    <3>3. Progress(w)'
      BY <3>2 DEF Progress, InTx
    <3> QED  BY <2>2, <3>3 DEF Account
  <2> QED  BY <2>3, <2>4
<1> QED  BY <1>1, <1>4, <1>5 DEF Inv

LEMMA AtDone ==
    ASSUME TypeOK, NEW w \in Workflows, NEW to \in InTx, NEW left \in SUBSET Item,
           Proceed(w, to, left)
    PROVE  at'["completed"][w] = to /\ todo'[w] = left
<1>1. Move("completed", w, to) /\ to \in Position /\ "completed" \in Kind
  BY DEF Proceed, Position, Working, Kind
<1>2. at'["completed"][w] = to
  BY <1>1, MoveType
<1>3. todo' = [todo EXCEPT ![w] = left] /\ w \in DOMAIN todo
  BY DEF Proceed, TypeOK, TypeOKCallbacks
<1> QED  BY <1>2, <1>3

LEMMA BeginInv == ASSUME Inv, NEW w \in Workflows, Begin(w) PROVE Inv'
<1>1. /\ Proceed(w, "start", {}) /\ "start" \in InTx /\ {} \in SUBSET Item
      /\ at["completed"][w] \in Working
      /\ UNCHANGED <<cluster, proc, unstarted, events, resource, rows>>
  BY DEF Begin, InTx, Working
<1>2. at'["completed"][w] = "start"
  BY <1>1, AtDone DEF Inv
<1>3. Progress(w)'
  BY <1>2 DEF Progress
<1>4. \A i \in Items(w) : Answered(w, i) => Answered(w, i)'
  BY <1>1 DEF Answered, RowsFor
<1> QED  BY <1>1, <1>3, <1>4, DoneStep DEF Inv, TypeOK, TypeOKCallbacks, RowType

LEMMA InsertStartEventInv ==
    ASSUME Inv, NEW w \in Workflows, InsertStartEvent(w) PROVE Inv'
<1>1. /\ Proceed(w, "end", {}) \/ Retry(w)
      /\ "end" \in InTx /\ {} \in SUBSET Item /\ at["completed"][w] \in Working
      /\ events' = [events EXCEPT ![w] = @ \cup {"start"}]
      /\ UNCHANGED <<cluster, proc, unstarted, resource, rows>>
  BY DEF InsertStartEvent, InsertEvent, Reply, InTx, Working
<1>2. /\ events' \in [Workflows -> SUBSET {"start", "end"}] /\ events'[w] = events[w] \cup {"start"}
      /\ \A v \in Workflows \ {w} : events'[v] = events[v]
  BY <1>1 DEF Inv, TypeOK
<1>3. Proceed(w, "end", {}) => at'["completed"][w] = "end"
  BY <1>1, AtDone DEF Inv
<1>4. Proceed(w, "end", {}) => Progress(w)'
  BY <1>2, <1>3 DEF Progress
<1>5. \A i \in Items(w) : Answered(w, i) => Answered(w, i)'
  BY <1>1 DEF Answered, RowsFor
<1> QED  BY <1>1, <1>2, <1>4, <1>5, DoneStep DEF Inv, TypeOK, TypeOKCallbacks, RowType

LEMMA InsertEndEventInv ==
    ASSUME Inv, NEW w \in Workflows, InsertEndEvent(w) PROVE Inv'
<1>1. /\ Proceed(w, "resource", {}) \/ Retry(w)
      /\ "resource" \in InTx /\ {} \in SUBSET Item /\ at["completed"][w] \in Working
      /\ at["completed"][w] = "end"
      /\ events' = [events EXCEPT ![w] = @ \cup {"end"}]
      /\ UNCHANGED <<cluster, proc, unstarted, resource, rows>>
  BY DEF InsertEndEvent, InsertEvent, Reply, InTx, Working
<1>2. /\ events' \in [Workflows -> SUBSET {"start", "end"}] /\ events'[w] = events[w] \cup {"end"}
      /\ \A v \in Workflows \ {w} : events'[v] = events[v]
  BY <1>1 DEF Inv, TypeOK
<1>3. Proceed(w, "resource", {}) => at'["completed"][w] = "resource"
  BY <1>1, AtDone DEF Inv
<1>4. "start" \in events[w]
  BY <1>1 DEF Inv, Account, Progress, InTx
<1>5. Proceed(w, "resource", {}) => Progress(w)'
  BY <1>2, <1>3, <1>4 DEF Progress
<1>6. \A i \in Items(w) : Answered(w, i) => Answered(w, i)'
  BY <1>1 DEF Answered, RowsFor
<1> QED  BY <1>1, <1>2, <1>5, <1>6, DoneStep DEF Inv, TypeOK, TypeOKCallbacks, RowType

LEMMA PutWorkflowResourceInv ==
    ASSUME Inv, NEW w \in Workflows, PutWorkflowResource(w) PROVE Inv'
<1> DEFINE to == IF CallbacksOf[w] = {} THEN "delete" ELSE "inputs"
<1>1. /\ Proceed(w, to, {}) \/ Retry(w)
      /\ to \in InTx /\ {} \in SUBSET Item /\ at["completed"][w] \in Working
      /\ at["completed"][w] = "resource"
      /\ resource' = resource \cup {w}
      /\ UNCHANGED <<cluster, proc, unstarted, events, rows>>
  BY DEF PutWorkflowResource, Reply, InTx, Working
<1>2. resource' \subseteq Workflows /\ w \in resource'
  BY <1>1 DEF Inv, TypeOK
<1>3. Proceed(w, to, {}) => at'["completed"][w] = to
  BY <1>1, AtDone DEF Inv
<1>4. "start" \in events[w] /\ "end" \in events[w]
  BY <1>1 DEF Inv, Account, Progress, InTx
<1>5. to = "delete" => Items(w) = {}
  BY DEF Items
<1>6. Proceed(w, to, {}) => Progress(w)'
  BY <1>1, <1>2, <1>3, <1>4, <1>5 DEF Progress
<1>7. \A i \in Items(w) : Answered(w, i) => Answered(w, i)'
  BY <1>1 DEF Answered, RowsFor
<1> HIDE DEF to
<1> QED  BY <1>1, <1>2, <1>6, <1>7, DoneStep DEF Inv, TypeOK, TypeOKCallbacks, RowType

LEMMA GetInputsInv == ASSUME Inv, NEW w \in Workflows, GetInputs(w) PROVE Inv'
<1> DEFINE to == IF Items(w) = {} THEN "delete" ELSE "items"
<1>1. /\ Proceed(w, to, Items(w))
      /\ to \in InTx /\ Items(w) \in SUBSET Item /\ at["completed"][w] \in Working
      /\ at["completed"][w] = "inputs"
      /\ UNCHANGED <<cluster, proc, unstarted, events, resource, rows>>
  BY ItemsType DEF GetInputs, InTx, Working
<1>2. at'["completed"][w] = to /\ todo'[w] = Items(w)
  <2> HIDE DEF to
  <2> QED  BY <1>1, AtDone DEF Inv
<1>3. "start" \in events[w] /\ "end" \in events[w] /\ w \in resource
  BY <1>1 DEF Inv, Account, Progress, InTx
<1>4. Progress(w)'
  BY <1>1, <1>2, <1>3 DEF Progress
<1>5. \A i \in Items(w) : Answered(w, i) => Answered(w, i)'
  BY <1>1 DEF Answered, RowsFor
<1> HIDE DEF to
<1> QED  BY <1>1, <1>4, <1>5, DoneStep DEF Inv, TypeOK, TypeOKCallbacks, RowType

LEMMA MakeCallbackInv == ASSUME Inv, NEW w \in Workflows, MakeCallback(w) PROVE Inv'
<1>1. PICK i \in Due(w) : InsertCallback(w, i)
  BY DEF MakeCallback
<1>2. /\ Proceed(w, "params", todo[w]) \/ Retry(w)
      /\ "params" \in InTx /\ at["completed"][w] \in Working /\ at["completed"][w] = "items"
      /\ UNCHANGED <<cluster, proc, unstarted, events, resource>>
  BY DEF MakeCallback, Reply, InTx, Working
<1>3. todo[w] \in SUBSET Item /\ TypeOKCallbacks
  BY DEF Inv, TypeOK, TypeOKCallbacks
<1>4. i \in Item
  BY <1>3 DEF Due
<1>5. /\ rows' \in [Workflows -> Seq(RowType)]
      /\ \A v \in Workflows \ {w} : rows'[v] = rows[v]
      /\ \A j \in Item : Answered(w, j) => Answered(w, j)'
      /\ rows'[w] # <<>> /\ Last(w)' = [item |-> i, state |-> "waiting"]
  BY <1>1, <1>3, <1>4, InsertKeeps
<1>6. \A j \in Items(w) : Answered(w, j) => Answered(w, j)'
  BY <1>5, ItemsType
<1>7. /\ "start" \in events[w] /\ "end" \in events[w] /\ w \in resource
      /\ \A j \in Items(w) : j \in todo[w] \/ Answered(w, j)
  BY <1>2 DEF Inv, Account, Progress, InTx
<1>8. Proceed(w, "params", todo[w]) => at'["completed"][w] = "params" /\ todo'[w] = todo[w]
  BY <1>2, <1>3, AtDone DEF Inv
<1>9. Proceed(w, "params", todo[w]) => Progress(w)'
  BY <1>2, <1>5, <1>6, <1>7, <1>8 DEF Progress
<1> QED  BY <1>2, <1>3, <1>5, <1>6, <1>9, DoneStep DEF Inv, TypeOK

LEMMA SettleCallbackInv == ASSUME Inv, NEW w \in Workflows, SettleCallback(w) PROVE Inv'
<1> DEFINE i == Last(w).item
           left == todo[w] \ {i}
           to == IF left = {} THEN "delete" ELSE "items"
<1>1. /\ Proceed(w, to, left) \/ Retry(w)
      /\ to \in InTx /\ at["completed"][w] \in Working /\ at["completed"][w] = "params"
      /\ PutOrFail(w)
      /\ UNCHANGED <<cluster, proc, unstarted, events, resource>>
  BY DEF SettleCallback, Reply, InTx, Working
<1>2. todo[w] \in SUBSET Item /\ TypeOKCallbacks
  BY DEF Inv, TypeOK, TypeOKCallbacks
<1>3. /\ "start" \in events[w] /\ "end" \in events[w] /\ w \in resource
      /\ \A j \in Items(w) : j \in todo[w] \/ Answered(w, j)
      /\ rows[w] # <<>> /\ Last(w).state = "waiting"
  BY <1>1 DEF Inv, Account, Progress, InTx
<1>4. /\ rows' \in [Workflows -> Seq(RowType)]
      /\ \A v \in Workflows \ {w} : rows'[v] = rows[v]
      /\ \A j \in Item : Answered(w, j) => Answered(w, j)'
      /\ \A j : j = i => Answered(w, j)'
  BY <1>1, <1>2, <1>3, SettleKeeps
<1>5. \A j \in Items(w) : Answered(w, j) => Answered(w, j)'
  BY <1>4, ItemsType
<1>6. \A j \in Items(w) : j \in left \/ Answered(w, j)'
  BY <1>3, <1>4, <1>5
<1>7. left \in SUBSET Item
  BY <1>2
<1>8. to = "delete" \/ to = "items"
  OBVIOUS
<1>9. to = "delete" => left = {}
  OBVIOUS
<1> HIDE DEF i, left, to
<1>10. Proceed(w, to, left) => at'["completed"][w] = to /\ todo'[w] = left
  BY <1>1, <1>7, AtDone DEF Inv
<1>11. Proceed(w, to, left) => Progress(w)'
  BY <1>1, <1>3, <1>6, <1>8, <1>9, <1>10 DEF Progress
<1> QED  BY <1>1, <1>4, <1>5, <1>7, <1>11, DoneStep DEF Inv, TypeOK

LEMMA DeleteWorkflowInv == ASSUME Inv, NEW w \in Workflows, DeleteWorkflow(w) PROVE Inv'
<1>1. /\ Proceed(w, "commit", {}) \/ Retry(w)
      /\ "commit" \in InTx /\ {} \in SUBSET Item /\ at["completed"][w] \in Working
      /\ at["completed"][w] = "delete"
      /\ cluster' = [cluster EXCEPT ![w] = "gone"]
      /\ UNCHANGED <<proc, unstarted, events, resource, rows>>
  BY DEF DeleteWorkflow, Reply, InTx, Working
<1>2. /\ cluster' \in [Workflows -> {"pending", "running", "completed", "gone"}]
      /\ \A v \in Workflows \ {w} : cluster'[v] = cluster[v]
  BY <1>1 DEF Inv, TypeOK
<1>3. Complete(w)
  BY <1>1 DEF Inv, Account, Progress, Complete, InTx
<1>4. Proceed(w, "commit", {}) => at'["completed"][w] = "commit"
  BY <1>1, AtDone DEF Inv
<1>5. \A i \in Items(w) : Answered(w, i) => Answered(w, i)'
  BY <1>1 DEF Answered, RowsFor
<1>6. Proceed(w, "commit", {}) => Progress(w)'
  BY <1>1, <1>3, <1>4, <1>5 DEF Progress, Complete
<1> QED  BY <1>1, <1>2, <1>3, <1>5, <1>6, DoneStep DEF Inv, TypeOK, TypeOKCallbacks, RowType

\* An event of any kind moves to where no worker counts on what was done before.
LEMMA MoveInv ==
    ASSUME Inv, NEW k \in Kind, NEW w \in Workflows, NEW to \in Position \ InTx, Move(k, w, to),
           TypeOK', Counted',
           events[w] \subseteq events'[w],
           \A v \in Workflows \ {w} : events'[v] = events[v] /\ todo'[v] = todo[v],
           k = "started" => todo'[w] = todo[w],
           \A v \in Workflows : cluster'[v] = cluster[v] \/ (v = w /\ cluster'[v] # "gone"),
           UNCHANGED <<resource, rows>>
    PROVE  Inv'
<1>1. \A v \in Workflows : \A i \in Items(v) : Answered(v, i) => Answered(v, i)'
  BY DEF Answered, RowsFor
<1>2. ASSUME NEW v \in Workflows \ {w} PROVE Account(v)'
  BY OthersKept
<1>3. Account(w)'
  <2>1. \/ at'["completed"][w] \notin InTx
        \/ at'["completed"][w] = at["completed"][w] /\ todo'[w] = todo[w]
    BY MoveType DEF Inv, Kind
  <2>2. Account(w) /\ (cluster'[w] = "gone" => cluster[w] = "gone")
    BY DEF Inv
  <2> QED  BY <1>1, <2>1, <2>2, AccountKept
<1> QED  BY <1>2, <1>3 DEF Inv

LEMMA StepFailsInv == ASSUME Inv, NEW w \in Workflows, StepFails(w) PROVE Inv'
<1>1. /\ Retry(w) /\ "start" \in InTx /\ {} \in SUBSET Item
      /\ at["completed"][w] \in Working
      /\ UNCHANGED <<cluster, proc, unstarted, events, resource, rows>>
  BY DEF StepFails, InTx
<1>2. TypeOK' /\ Counted'
  BY <1>1, OutcomeType DEF Inv, TypeOK, TypeOKCallbacks, RowType
<1>3. Move("completed", w, "backoff") /\ "backoff" \in Position \ InTx /\ "completed" \in Kind
  BY <1>1 DEF Retry, Position, InTx, Kind
<1>4. \A v \in Workflows \ {w} : todo'[v] = todo[v]
  BY <1>1 DEF Retry, Inv, TypeOK, TypeOKCallbacks
<1> QED  BY <1>1, <1>2, <1>3, <1>4, MoveInv

\* An event moves between positions that no worker has.
LEMMA IdleMove ==
    ASSUME Inv, NEW k \in Kind, NEW w \in Workflows, NEW to \in Position \ Working, Move(k, w, to),
           \A v \in Workflows : cluster'[v] = cluster[v] \/ (v = w /\ cluster'[v] # "gone"),
           cluster' \in [Workflows -> {"pending", "running", "completed", "gone"}],
           faults' \in 0 .. MaxFaults,
           UNCHANGED <<proc, unstarted, workers, events, resource, rows, todo>>
    PROVE  Inv'
<1>1. to \in Position /\ to \in Position \ InTx
  BY DEF Working
<1>2. at' \in [Kind -> [Workflows -> Position]]
  BY <1>1, MoveType DEF Inv
<1>3. TypeOK'
  BY <1>2 DEF Inv, TypeOK, TypeOKCallbacks
<1>4. workers \in Nat
  BY DEF Inv, TypeOK
<1>5. Counted'
  BY <1>1, <1>4, MoveBusy DEF Inv, Counted
<1> QED  BY <1>1, <1>3, <1>5, MoveInv

LEMMA AdvanceInv ==
    ASSUME Inv, NEW w \in Workflows, WorkflowRuns(w) \/ WorkflowCompletes(w) PROVE Inv'
<1>1. PICK from \in {"pending", "running"}, to \in {"running", "completed"}, k \in Kind :
        Advance(w, from, to, k)
  BY DEF WorkflowRuns, WorkflowCompletes, Kind
<1>2. /\ cluster' \in [Workflows -> {"pending", "running", "completed", "gone"}]
      /\ \A v \in Workflows : cluster'[v] = cluster[v] \/ (v = w /\ cluster'[v] # "gone")
  BY <1>1 DEF Advance, Inv, TypeOK
<1>3. /\ UNCHANGED <<proc, unstarted, workers, events, resource, rows, todo, faults>>
      /\ Move(k, w, "queued") \/ UNCHANGED at
  BY <1>1 DEF Advance
<1>4. faults' \in 0 .. MaxFaults /\ "queued" \in Position \ Working
  BY <1>3 DEF Inv, TypeOK, Position, Working, InTx
<1>5. CASE Move(k, w, "queued")
  BY <1>2, <1>3, <1>4, <1>5, IdleMove
<1>6. CASE UNCHANGED at
  <2>1. TypeOK'
    BY <1>2, <1>3, <1>6 DEF Inv, TypeOK, TypeOKCallbacks
  <2>2. Busy' = Busy
    BY <1>6 DEF Busy
  <2>3. Counted'
    BY <1>3, <2>2 DEF Inv, Counted
  <2>4. \A v \in Workflows : \A i \in Items(v) : Answered(v, i) => Answered(v, i)'
    BY <1>3 DEF Answered, RowsFor
  <2>5. ASSUME NEW v \in Workflows PROVE Account(v)'
    <3>1. Account(v) /\ (cluster'[v] = "gone" => cluster[v] = "gone")
      BY <1>2 DEF Inv
    <3> QED  BY <1>3, <1>6, <2>4, <3>1, AccountKept
  <2> QED  BY <2>1, <2>3, <2>5 DEF Inv
<1> QED  BY <1>3, <1>5, <1>6

LEMMA EventStepInv ==
    ASSUME Inv, NEW k \in Kind, NEW w \in Workflows, EventStep(k, w) PROVE Inv'
<1> USE DEF Inv, TypeOK
<1>1. CASE Handle(k, w)
  <2>1. "lookup" \in Position \ Working
    BY DEF Position, Working, InTx
  <2> QED  BY <1>1, <2>1, IdleMove DEF Handle
<1>2. CASE NewWorkflowEvent(k, w)
  <2>1. "send" \in Position \ Working /\ "dropped" \in Position \ Working
    BY DEF Position, Working, InTx
  <2>2. faults' \in 0 .. MaxFaults
    BY <1>2, FaultsType DEF NewWorkflowEvent
  <2> QED  BY <1>2, <2>1, <2>2, IdleMove DEF NewWorkflowEvent
<1>3. CASE Receive(k, w)
  <2> DEFINE to == IF k = "started" THEN "insert" ELSE "begin"
  <2>1. to \in Position \ InTx /\ to \in Position /\ to \in Working
    BY DEF Position, Working, InTx
  <2>2. /\ Move(k, w, to) /\ Cardinality(Busy) < workers
        /\ UNCHANGED <<cluster, proc, unstarted, workers, events, resource, faults, rows, todo>>
    BY <1>3 DEF Receive
  <2> HIDE DEF to
  <2>3. TypeOK'
    BY <2>1, <2>2, MoveType DEF TypeOKCallbacks
  <2>4. Counted'
    BY <2>1, <2>2, MoveBusy DEF Counted
  <2> QED  BY <2>1, <2>2, <2>3, <2>4, MoveInv
<1> QED  BY <1>1, <1>2, <1>3 DEF EventStep

LEMMA BackoffEndsInv == ASSUME Inv, NEW w \in Workflows, BackoffEnds(w) PROVE Inv'
<1>1. /\ "resend" \in Position \ Working /\ "none" \in Position \ Working
      /\ "completed" \in Kind
  BY DEF Position, Working, InTx, Kind
<1> QED  BY <1>1, IdleMove DEF BackoffEnds, Inv, TypeOK

\* A worker is done with an event.
LEMMA DoneInv ==
    ASSUME Inv, NEW k \in Kind, NEW w \in Workflows, at[k][w] \in Working,
           Move(k, w, "none"), WorkerReturns,
           events' \in [Workflows -> SUBSET {"start", "end"}],
           events[w] \subseteq events'[w],
           \A v \in Workflows \ {w} : events'[v] = events[v],
           faults' \in 0 .. MaxFaults,
           UNCHANGED <<cluster, proc, unstarted, resource, rows, todo>>
    PROVE  Inv'
<1>1. "none" \in Position \ Working /\ "none" \in Position \ InTx
  BY DEF Position, Working, InTx
<1>2. workers' \in 0 .. MaxWorkers /\ Counted'
  BY <1>1, ReturnCounted DEF Inv
<1>3. TypeOK'
  BY <1>1, <1>2, MoveType DEF Inv, TypeOK, TypeOKCallbacks
<1> QED  BY <1>1, <1>2, <1>3, MoveInv

LEMMA WfStartInv == ASSUME Inv, NEW w \in Workflows, WfStart(w) PROVE Inv'
<1>1. /\ at["started"][w] \in Working /\ "started" \in Kind
      /\ Move("started", w, "none") /\ WorkerReturns
      /\ UNCHANGED <<cluster, proc, unstarted, resource, rows, todo>>
  BY DEF WfStart, Working, Kind
<1>2. events' = [events EXCEPT ![w] = @ \cup {"start"}] \/ events' = events
  BY DEF WfStart
<1>3. /\ events' \in [Workflows -> SUBSET {"start", "end"}]
      /\ events[w] \subseteq events'[w]
      /\ \A v \in Workflows \ {w} : events'[v] = events[v]
  BY <1>2 DEF Inv, TypeOK
<1>4. faults' \in 0 .. MaxFaults
  BY FaultsType DEF WfStart, Inv, TypeOK
<1> QED  BY <1>1, <1>3, <1>4, DoneInv

LEMMA CommitInv == ASSUME Inv, NEW w \in Workflows, Commit(w) PROVE Inv'
<1>1. at["completed"][w] \in Working /\ "completed" \in Kind
  BY DEF Commit, Working, InTx, Kind
<1> QED  BY <1>1, DoneInv DEF Commit, Inv, TypeOK

-----------------------------------------------------------------------------
(* The process.                                                             *)

\* Nothing is in wfDone after a step that empties every position.
LEMMA IdleInv ==
    ASSUME Inv, TypeOK', Counted',
           \A v \in Workflows : at'["completed"][v] \notin InTx,
           UNCHANGED <<cluster, events, resource, rows>>
    PROVE  Inv'
<1>1. \A v \in Workflows : \A i \in Items(v) : Answered(v, i) => Answered(v, i)'
  BY DEF Answered, RowsFor
<1>2. ASSUME NEW v \in Workflows PROVE Account(v)'
  <2>1. Account(v)
    BY DEF Inv
  <2> QED  BY <1>1, <2>1, AccountKept
<1> QED  BY <1>2 DEF Inv

LEMMA EndsInv == ASSUME Inv, Ends, faults' \in 0 .. MaxFaults PROVE Inv'
<1>1. TypeOK'
  <2>1. at' \in [Kind -> [Workflows -> Position]]
    BY DEF Ends, Position
  <2>2. todo' \in [Workflows -> SUBSET Item]
    BY DEF Ends
  <2>3. proc' = "down" /\ unstarted' = 0 /\ workers' = 0
        /\ UNCHANGED <<cluster, events, resource, rows>>
    BY DEF Ends
  <2>4. 0 \in 0 .. MaxWorkers
    BY CabooseAssumption
  <2>5. TypeOK
    BY DEF Inv
  <2> QED  BY <2>1, <2>2, <2>3, <2>4, <2>5 DEF TypeOK, TypeOKCallbacks
<1>2. Busy' = {}
  BY DEF Ends, Busy, Working, InTx
<1>3. Counted'
  BY <1>2, FS_EmptySet DEF Ends, Counted
<1>4. \A v \in Workflows : at'["completed"][v] \notin InTx
  BY DEF Ends, InTx, Kind
<1> QED  BY <1>1, <1>3, <1>4, IdleInv DEF Ends

LEMMA SyncInv == ASSUME Inv, Sync PROVE Inv'
<1>1. \A k \in Kind, v \in Workflows : at'[k][v] \in {"queued", "none"}
  BY DEF Inv, TypeOK, Sync, Kind
<1>2. at' \in [Kind -> [Workflows -> Position]]
  BY DEF Inv, TypeOK, Sync, Kind, Position
<1>3. TypeOK'
  BY <1>2 DEF Inv, TypeOK, TypeOKCallbacks, Sync
<1>4. Busy' = {}
  BY <1>1 DEF Busy, Working, InTx
<1>5. Counted'
  BY <1>4, FS_EmptySet DEF Sync, Inv, TypeOK, Counted
<1>6. \A v \in Workflows : at'["completed"][v] \notin InTx
  BY <1>1 DEF InTx, Kind
<1> QED  BY <1>3, <1>5, <1>6, IdleInv DEF Sync

\* Steps that leave every event where it is.
LEMMA StillInv ==
    ASSUME Inv, TypeOK', Counted', UNCHANGED <<cluster, at, events, resource, rows, todo>>
    PROVE  Inv'
<1>1. \A v \in Workflows : \A i \in Items(v) : Answered(v, i) => Answered(v, i)'
  BY DEF Answered, RowsFor
<1>2. ASSUME NEW v \in Workflows PROVE Account(v)'
  <2>1. Account(v)
    BY DEF Inv
  <2> QED  BY <1>1, <2>1, AccountKept
<1> QED  BY <1>2 DEF Inv

LEMMA StillType ==
    ASSUME Inv,
           proc' \in {"down", "syncing", "up", "stopping"},
           unstarted' \in 0 .. MaxWorkers, workers' \in 0 .. MaxWorkers,
           UNCHANGED <<cluster, at, events, resource, faults, rows, todo>>
    PROVE  TypeOK'
<1>1. TypeOK
  BY DEF Inv
<1> QED  BY <1>1 DEF TypeOK, TypeOKCallbacks

LEMMA ProcessInv ==
    ASSUME Inv, Launch \/ StartWorker \/ Sync \/ Stop \/ WorkerStops \/ WaitReturns \/ Crash
    PROVE  Inv'
<1>1. UNCHANGED at => Busy' = Busy
  BY DEF Busy
<1>2. workers \in Nat /\ unstarted \in Nat /\ workers + unstarted <= MaxWorkers
  BY DEF Inv, TypeOK, Counted
<1>a. /\ proc \in {"down", "syncing", "up", "stopping"}
      /\ workers \in 0 .. MaxWorkers /\ unstarted \in 0 .. MaxWorkers
  BY DEF Inv, TypeOK
<1>3. CASE Launch
  <2>1. TypeOK'
    <3>1. proc' = "syncing" /\ workers' \in 0 .. MaxWorkers /\ unstarted' = MaxWorkers
      BY <1>3, <1>a DEF Launch
    <3>2. MaxWorkers \in 0 .. MaxWorkers
      BY CabooseAssumption
    <3> QED  BY <1>3, <3>1, <3>2, StillType DEF Launch
  <2>2. Counted'
    BY <1>1, <1>3 DEF Launch, Inv, Counted
  <2> QED  BY <1>3, <2>1, <2>2, StillInv DEF Launch
<1>4. CASE StartWorker
  <2>1. TypeOK'
    <3>1. workers' = workers + 1 /\ unstarted' = unstarted - 1 /\ unstarted > 0 /\ proc' = proc
      BY <1>4 DEF StartWorker
    <3>2. workers' \in 0 .. MaxWorkers /\ unstarted' \in 0 .. MaxWorkers
      BY <1>2, <3>1, CabooseAssumption
    <3> QED  BY <1>4, <1>a, <3>1, <3>2, StillType DEF StartWorker
  <2>2. Cardinality(Busy) \in Nat
    BY FS_CardinalityType DEF Inv, Counted
  <2>3. Counted'
    BY <1>1, <1>2, <1>4, <2>2 DEF StartWorker, Inv, Counted
  <2> QED  BY <1>4, <2>1, <2>3, StillInv DEF StartWorker
<1>5. CASE Sync
  BY <1>5, SyncInv
<1>6. CASE Stop
  <2>1. faults' \in 0 .. MaxFaults
    BY <1>6 DEF Stop, Goes, Inv, TypeOK
  <2>2. CASE proc = "syncing"
    BY <1>6, <2>1, <2>2, EndsInv DEF Stop
  <2>3. CASE proc # "syncing"
    <3>1. proc' = "stopping" /\ UNCHANGED <<cluster, unstarted, workers, at, events, resource, rows, todo>>
      BY <1>6, <2>3 DEF Stop
    <3>2. TypeOK'
      BY <2>1, <3>1 DEF Inv, TypeOK, TypeOKCallbacks
    <3>3. Counted'
      BY <1>1, <3>1 DEF Inv, Counted
    <3> QED  BY <3>1, <3>2, <3>3, StillInv
  <2> QED  BY <2>2, <2>3
<1>7. CASE WorkerStops
  <2>1. Cardinality(Busy) \in Nat
    BY FS_CardinalityType DEF Inv, Counted
  <2>2. TypeOK'
    <3>1. workers' = workers - 1 /\ workers > 0 /\ UNCHANGED <<proc, unstarted>>
      BY <1>2, <1>7, <2>1 DEF WorkerStops
    <3>2. workers' \in 0 .. MaxWorkers
      BY <1>2, <3>1, CabooseAssumption
    <3> QED  BY <1>7, <1>a, <3>1, <3>2, StillType DEF WorkerStops
  <2>3. Counted'
    BY <1>1, <1>2, <1>7, <2>1 DEF WorkerStops, Inv, Counted
  <2> QED  BY <1>7, <2>2, <2>3, StillInv DEF WorkerStops
<1>8. CASE WaitReturns
  <2>1. faults' \in 0 .. MaxFaults
    BY <1>8 DEF WaitReturns, Goes, Inv, TypeOK
  <2> QED  BY <1>8, <2>1, EndsInv DEF WaitReturns
<1>9. CASE Crash
  <2>1. faults' \in 0 .. MaxFaults
    BY <1>9 DEF Crash, Goes, Inv, TypeOK
  <2> QED  BY <1>9, <2>1, EndsInv DEF Crash
<1> QED  BY <1>3, <1>4, <1>5, <1>6, <1>7, <1>8, <1>9

-----------------------------------------------------------------------------
LEMMA InitInv == Init => Inv
<1> SUFFICES ASSUME Init PROVE Inv
  OBVIOUS
<1>1. TypeOK
  BY DEF Init, TypeOK, InitCallbacks, TypeOKCallbacks, Position
<1>2. Busy = {}
  BY DEF Init, Busy, Working, InTx
<1>3. Counted
  BY <1>2, FS_EmptySet DEF Init, Counted
<1>4. ASSUME NEW w \in Workflows PROVE Account(w)
  <2>1. at["completed"][w] = "none" /\ cluster[w] # "gone"
    BY DEF Init, Kind
  <2> QED  BY <2>1 DEF Account, Progress, InTx
<1> QED  BY <1>1, <1>3, <1>4 DEF Inv

LEMMA StepInv == Inv /\ [Next]_vars => Inv'
<1> SUFFICES ASSUME Inv, [Next]_vars PROVE Inv'
  OBVIOUS
<1>1. CASE UNCHANGED vars
  <2>1. TypeOK'
    BY <1>1 DEF vars, cabooseVars, Inv, TypeOK, TypeOKCallbacks
  <2>2. Busy' = Busy
    BY <1>1 DEF vars, cabooseVars, Busy
  <2>3. Counted'
    BY <1>1, <2>2 DEF vars, cabooseVars, Inv, Counted
  <2> QED  BY <1>1, <2>1, <2>3, StillInv DEF vars, cabooseVars
<1>2. CASE Launch \/ StartWorker \/ Sync \/ Stop \/ WorkerStops \/ WaitReturns \/ Crash
  BY <1>2, ProcessInv
<1>3. ASSUME NEW w \in Workflows, WorkflowRuns(w) \/ WorkflowCompletes(w) PROVE Inv'
  BY <1>3, AdvanceInv
<1>4. ASSUME NEW w \in Workflows, WfStart(w) \/ BackoffEnds(w) PROVE Inv'
  BY <1>4, WfStartInv, BackoffEndsInv
<1>5. ASSUME NEW w \in Workflows, WfDone(w) PROVE Inv'
  BY <1>5, BeginInv, InsertStartEventInv, InsertEndEventInv, PutWorkflowResourceInv,
     GetInputsInv, MakeCallbackInv, SettleCallbackInv, DeleteWorkflowInv, CommitInv,
     StepFailsInv DEF WfDone
<1>6. ASSUME NEW w \in Workflows, NEW k \in Kind, EventStep(k, w) PROVE Inv'
  BY <1>6, EventStepInv
<1> QED  BY <1>1, <1>2, <1>3, <1>4, <1>5, <1>6 DEF Next

\* The caboose's variables keep their types: in particular no more workers are
\* counted in the wait group than were started.
THEOREM TypeCorrect == Spec => []TypeOK
BY InitInv, StepInv, PTL DEF Spec, Inv

\* What is removed from the cluster is accounted for.
THEOREM GoneAccounted == Spec => []GoneIsAccountedFor
<1>1. Inv => GoneIsAccountedFor
  <2> SUFFICES ASSUME Inv, NEW w \in Workflows, cluster[w] = "gone"
               PROVE  /\ events[w] = {"start", "end"}
                      /\ w \in resource
                      /\ \A i \in Items(w) : Answered(w, i)
    BY DEF GoneIsAccountedFor
  <2>1. Complete(w) /\ events[w] \subseteq {"start", "end"}
    BY DEF Inv, TypeOK, Account
  <2> QED  BY <2>1 DEF Complete
<1> QED  BY <1>1, InitInv, StepInv, PTL DEF Spec

\* With a connection more than there are workers no statement waits for one: a
\* transaction is held by a busy worker, and wfDone begins one only.  With no
\* more connections than workers every worker can hold one and wait for ever.
THEOREM PoolSuffices == ASSUME PoolSize > MaxWorkers PROVE Spec => []ConnFree
<1>1. Inv => ConnFree
  <2> SUFFICES ASSUME Inv PROVE Cardinality(Transactions) < PoolSize
    BY DEF ConnFree
  <2> DEFINE event == [w \in Transactions |-> <<"completed", w>>]
  <2>1. event \in Injection(Transactions, Busy)
    BY DEF Injection, IsInjective, Transactions, Busy, Working, Kind
  <2>2. IsFiniteSet(Busy) /\ Cardinality(Busy) \in Nat /\ Cardinality(Busy) <= MaxWorkers
    <3>1. IsFiniteSet(Busy) /\ Cardinality(Busy) <= workers /\ workers \in 0 .. MaxWorkers
      BY DEF Inv, Counted, TypeOK
    <3> QED  BY <3>1, FS_CardinalityType
  <2>3. /\ IsFiniteSet(Transactions) /\ Cardinality(Transactions) \in Nat
        /\ Cardinality(Transactions) <= Cardinality(Busy)
    BY <2>1, <2>2, FS_Injection, FS_CardinalityType
  <2> QED  BY <2>2, <2>3
<1> QED  BY <1>1, InitInv, StepInv, PTL DEF Spec
=============================================================================
