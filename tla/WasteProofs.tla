---------------------------- MODULE WasteProofs ----------------------------
(***************************************************************************)
(* The retries of the caboose, for any workflows, callbacks and features,  *)
(* any number of workers, connections and faults: what they repeat is paid *)
(* for by what went wrong, the life of a workflow shows nothing of them,   *)
(* and how long the pauses before them are.                                *)
(***************************************************************************)
EXTENDS CabooseProofs, Backoff

USE CallbacksAssumption, CabooseAssumption

Waiting(w) == {n \in DOMAIN rows[w] : rows[w][n].state = "waiting"}

\* The present try has made the action of an item, or the last try made it.
Made(w, i) ==
    LET here == at["completed"][w]
    IN  \/ here \in {"items", "params"} /\ i \notin todo[w]
        \/ here = "params" /\ Last(w).item = i
        \/ here \in {"delete", "commit"}
        \/ here = "none" /\ cluster[w] = "gone"

\* How many faults must not be spent yet.  A try spends one before it goes
\* wrong; once the context is cancelled it goes wrong for free, and has one
\* of the cancellation left.
Need(w, spent) ==
    IF proc = "stopping"
    THEN IF at["completed"][w] \in InTx /\ ~spent THEN 1 ELSE 0
    ELSE IF spent THEN -1 ELSE 0

Idle(w) ==
    /\ at["completed"][w] # "none" => cluster[w] \in {"completed", "gone"}
    /\ at["completed"][w] = "commit" => cluster[w] = "gone"
    /\ proc \in {"down", "syncing"} => at["completed"][w] = "none"

Spent(w) ==
    /\ \A i \in Items(w) : Cardinality(RowsFor(w, i)) + Need(w, Made(w, i)) <= faults
    /\ Cardinality(Waiting(w)) + Need(w, at["completed"][w] = "params") <= faults

WasteInv == Inv /\ \A w \in Workflows : Idle(w) /\ Spent(w)

-----------------------------------------------------------------------------
(* Counting rows.                                                           *)

LEMMA RowCounts ==
    ASSUME TypeOKCallbacks, NEW w \in Workflows, NEW i
    PROVE  /\ IsFiniteSet(RowsFor(w, i)) /\ Cardinality(RowsFor(w, i)) \in Nat
           /\ IsFiniteSet(Waiting(w)) /\ Cardinality(Waiting(w)) \in Nat
<1>1. rows[w] \in Seq(RowType)
  BY DEF TypeOKCallbacks, RowType
<1>2. DOMAIN rows[w] = 1 .. Len(rows[w]) /\ Len(rows[w]) \in Nat
  BY <1>1
<1>3. IsFiniteSet(DOMAIN rows[w])
  BY <1>2, FS_Interval
<1>4. RowsFor(w, i) \subseteq DOMAIN rows[w] /\ Waiting(w) \subseteq DOMAIN rows[w]
  BY DEF RowsFor, Waiting
<1> QED  BY <1>3, <1>4, FS_Subset, FS_CardinalityType

\* An action that is inserted is one more for its item, and one more that waits.
LEMMA InsertCounts ==
    ASSUME TypeOKCallbacks, NEW w \in Workflows, NEW i \in Item, InsertCallback(w, i)
    PROVE  /\ Cardinality(RowsFor(w, i)') = Cardinality(RowsFor(w, i)) + 1
           /\ \A j \in Item \ {i} : RowsFor(w, j)' = RowsFor(w, j)
           /\ Cardinality(Waiting(w)') = Cardinality(Waiting(w)) + 1
<1> DEFINE new == [item |-> i, state |-> "waiting"]
           last == Len(rows[w]) + 1
<1>1. rows'[w] = Append(rows[w], new) /\ rows[w] \in Seq(RowType) /\ new \in RowType
  BY DEF TypeOKCallbacks, InsertCallback, RowType, RowState
<1>2. /\ DOMAIN rows[w] = 1 .. Len(rows[w]) /\ Len(rows[w]) \in Nat
      /\ DOMAIN rows'[w] = 1 .. last
      /\ rows'[w][last] = new
      /\ \A n \in DOMAIN rows[w] : rows'[w][n] = rows[w][n]
  <2> HIDE DEF new
  <2> QED  BY <1>1
<1>3. last \notin DOMAIN rows[w] /\ DOMAIN rows'[w] = DOMAIN rows[w] \cup {last}
  BY <1>2
<1>4. new.item = i /\ new.state = "waiting"
  OBVIOUS
<1> HIDE DEF new, last
<1>5. RowsFor(w, i)' = RowsFor(w, i) \cup {last} /\ last \notin RowsFor(w, i)
  BY <1>2, <1>3, <1>4 DEF RowsFor
<1>6. Waiting(w)' = Waiting(w) \cup {last} /\ last \notin Waiting(w)
  BY <1>2, <1>3, <1>4 DEF Waiting
<1>7. \A j \in Item \ {i} : RowsFor(w, j)' = RowsFor(w, j)
  BY <1>2, <1>3, <1>4 DEF RowsFor
<1>8. IsFiniteSet(RowsFor(w, i)) /\ IsFiniteSet(Waiting(w))
  BY RowCounts
<1>9. Cardinality(RowsFor(w, i)') = Cardinality(RowsFor(w, i)) + 1
  BY <1>5, <1>8, FS_AddElement
<1>10. Cardinality(Waiting(w)') = Cardinality(Waiting(w)) + 1
  BY <1>6, <1>8, FS_AddElement
<1> QED  BY <1>7, <1>9, <1>10

\* An action that is settled is one less that waits.
LEMMA SettleCounts ==
    ASSUME TypeOKCallbacks, NEW w \in Workflows, PutOrFail(w),
           rows[w] # <<>>, Last(w).state = "waiting"
    PROVE  /\ \A j \in Item : RowsFor(w, j)' = RowsFor(w, j)
           /\ Cardinality(Waiting(w)') = Cardinality(Waiting(w)) - 1
<1> DEFINE last == Len(rows[w])
           state == IF Fatal(w, Last(w).item) THEN "failed" ELSE "ready"
           new == [rows[w][last] EXCEPT !.state = state]
<1>1. rows[w] \in Seq(RowType) /\ last \in DOMAIN rows[w] /\ rows[w][last] \in RowType
  BY LastType DEF TypeOKCallbacks, RowType, Last
<1>2. new.item = rows[w][last].item /\ new.state # "waiting"
  BY <1>1 DEF RowType
<1>3. rows'[w] = [rows[w] EXCEPT ![last] = new]
  BY DEF PutOrFail, SettleLast, TypeOKCallbacks
<1>4. rows[w][last].state = "waiting"
  BY DEF Last
<1> HIDE DEF new, last
<1>5. /\ DOMAIN rows'[w] = DOMAIN rows[w] /\ rows'[w][last] = new
      /\ \A n \in DOMAIN rows[w] \ {last} : rows'[w][n] = rows[w][n]
  BY <1>1, <1>3
<1>6. \A j \in Item : RowsFor(w, j)' = RowsFor(w, j)
  BY <1>2, <1>5 DEF RowsFor
<1>7. Waiting(w)' = Waiting(w) \ {last} /\ last \in Waiting(w)
  BY <1>1, <1>2, <1>4, <1>5 DEF Waiting
<1>8. IsFiniteSet(Waiting(w))
  BY RowCounts
<1>9. Cardinality(Waiting(w)') = Cardinality(Waiting(w)) - 1
  <2> DEFINE S == Waiting(w)
  <2>1. IsFiniteSet(S) /\ last \in S
    BY <1>7, <1>8
  <2> HIDE DEF S
  <2>2. Cardinality(S \ {last}) = Cardinality(S) - 1
    BY <2>1, FS_RemoveElement
  <2> QED  BY <1>7, <2>2 DEF S
<1> QED  BY <1>6, <1>9

LEMMA NeedType ==
    ASSUME NEW w \in Workflows, NEW spent
    PROVE  Need(w, spent) \in {-1, 0, 1} /\ Need(w, spent)' \in {-1, 0, 1}
BY DEF Need

\* Nothing is made, and what was needed more than before went wrong.
LEMMA SpentKept ==
    ASSUME WasteInv, NEW w \in Workflows, rows'[w] = rows[w], faults' \in Nat,
           \A i \in Items(w) :
              faults + Need(w, Made(w, i))' <= faults' + Need(w, Made(w, i)),
           faults + Need(w, at["completed"][w] = "params")'
              <= faults' + Need(w, at["completed"][w] = "params")
    PROVE  Spent(w)'
<1>1. TypeOKCallbacks /\ faults \in Nat /\ Spent(w)
  BY DEF WasteInv, Inv, TypeOK
<1>2. Waiting(w)' = Waiting(w) /\ \A i : RowsFor(w, i)' = RowsFor(w, i)
  BY DEF Waiting, RowsFor
<1>3. Cardinality(Waiting(w)) \in Nat /\ \A i : Cardinality(RowsFor(w, i)) \in Nat
  BY <1>1, RowCounts
<1>4. ASSUME NEW i \in Items(w)
      PROVE  Cardinality(RowsFor(w, i))' + Need(w, Made(w, i))' <= faults'
  <2>1. Need(w, Made(w, i)) \in {-1, 0, 1} /\ Need(w, Made(w, i))' \in {-1, 0, 1}
    BY DEF Need
  <2>2. Cardinality(RowsFor(w, i)) + Need(w, Made(w, i)) <= faults
    BY <1>1 DEF Spent
  <2> QED  BY <1>1, <1>2, <1>3, <2>1, <2>2
<1>5. Cardinality(Waiting(w))' + Need(w, at["completed"][w] = "params")' <= faults'
  <2>1. /\ Need(w, at["completed"][w] = "params") \in {-1, 0, 1}
        /\ Need(w, at["completed"][w] = "params")' \in {-1, 0, 1}
    BY DEF Need
  <2>2. Cardinality(Waiting(w)) + Need(w, at["completed"][w] = "params") <= faults
    BY <1>1 DEF Spent
  <2> QED  BY <1>1, <1>2, <1>3, <2>1, <2>2
<1> QED  BY <1>4, <1>5 DEF Spent

\* A workflow that the step is not about.
LEMMA SpentByOthers ==
    ASSUME WasteInv, NEW v \in Workflows,
           at'["completed"][v] = at["completed"][v], todo'[v] = todo[v], rows'[v] = rows[v],
           cluster'[v] = cluster[v], proc' = proc, faults' \in Nat, faults <= faults'
    PROVE  Idle(v)' /\ Spent(v)'
<1>1. Idle(v)'
  BY DEF WasteInv, Idle
<1>2. Last(v)' = Last(v)
  BY DEF Last
<1>3. \A i \in Items(v) : Made(v, i)' <=> Made(v, i)
  BY <1>2 DEF Made
<1>4. /\ \A i \in Items(v) : Need(v, Made(v, i))' = Need(v, Made(v, i))
      /\ Need(v, at["completed"][v] = "params")' = Need(v, at["completed"][v] = "params")
  BY <1>3 DEF Need
<1>5. \A spent : Need(v, spent) \in Int
  BY DEF Need
<1>6. faults \in Nat
  BY DEF WasteInv, Inv, TypeOK
<1>7. Spent(v)'
  BY <1>4, <1>5, <1>6, SpentKept
<1> QED  BY <1>1, <1>7

LEMMA FailsSpends ==
    ASSUME WasteInv, Fails
    PROVE  /\ faults \in Nat /\ faults' \in Nat
           /\ faults' = faults + 1 \/ faults' = faults
           /\ proc # "stopping" => faults' = faults + 1
BY DEF WasteInv, Inv, TypeOK, Fails, Goes

\* An event that a worker gives up for now.
LEMMA RetrySpends ==
    ASSUME WasteInv, NEW w \in Workflows, at["completed"][w] \in Working, Retry(w),
           rows'[w] = rows[w], cluster'[w] \in {cluster[w], "gone"}, proc' = proc
    PROVE  Idle(w)' /\ Spent(w)'
<1>1. at'["completed"][w] = "backoff"
  BY MoveType DEF WasteInv, Inv, Retry, Kind, Position
<1>2. at["completed"][w] # "none"
  BY DEF Working, InTx
<1>3. Idle(w)'
  BY <1>1, <1>2 DEF WasteInv, Idle
<1>4. Fails
  BY DEF Retry
<1>5. ~(at["completed"][w] = "params")' /\ \A i \in Items(w) : ~Made(w, i)'
  BY <1>1 DEF Made
<1>6. at'["completed"][w] \notin InTx
  BY <1>1 DEF InTx
<1>7. /\ \A i \in Items(w) : Need(w, Made(w, i))' = 0
      /\ Need(w, at["completed"][w] = "params")' = 0
  BY <1>5, <1>6 DEF Need
<1>8. \A spent : /\ Need(w, spent) \in {-1, 0, 1}
                 /\ proc = "stopping" => Need(w, spent) \in {0, 1}
  BY DEF Need
<1>9. \A spent : faults + 0 <= faults' + Need(w, spent)
  BY <1>4, <1>8, FailsSpends
<1>10. Spent(w)'
  BY <1>4, <1>7, <1>9, FailsSpends, SpentKept
<1> QED  BY <1>3, <1>10

\* A step of wfDone that makes nothing, and forgets nothing that was made.
LEMMA ProceedSpends ==
    ASSUME WasteInv, NEW w \in Workflows, at["completed"][w] \in Working \ {"params"},
           NEW to \in Working, NEW left, Proceed(w, to, left),
           rows'[w] = rows[w], cluster'[w] \in {cluster[w], "gone"}, proc' = proc,
           to = "commit" => cluster'[w] = "gone",
           \A i \in Items(w) : Made(w, i) => Made(w, i)'
    PROVE  Idle(w)' /\ Spent(w)'
<1>1. at'["completed"][w] = to
  BY MoveType DEF WasteInv, Inv, Proceed, Kind, Position
<1>2. at["completed"][w] # "none"
  BY DEF Working, InTx
<1>3. Idle(w)'
  BY <1>1, <1>2 DEF WasteInv, Idle
<1>4. faults' = faults /\ proc # "stopping" /\ faults \in Nat
  BY DEF Proceed, WasteInv, Inv, TypeOK
<1>5. ASSUME NEW i \in Items(w)
      PROVE  faults + Need(w, Made(w, i))' <= faults' + Need(w, Made(w, i))
  BY <1>4, <1>5 DEF Need
<1>6. faults + Need(w, at["completed"][w] = "params")'
        <= faults' + Need(w, at["completed"][w] = "params")
  BY <1>4 DEF Need
<1>7. Spent(w)'
  BY <1>4, <1>5, <1>6, SpentKept
<1> QED  BY <1>3, <1>7

-----------------------------------------------------------------------------
(* The steps of wfDone.                                                     *)

\* They concern no other workflow.
LEMMA DoneByOthers ==
    ASSUME WasteInv, NEW w \in Workflows, NEW to \in Position, NEW left,
           Proceed(w, to, left) \/ Retry(w),
           NEW v \in Workflows \ {w}, rows'[v] = rows[v], cluster'[v] = cluster[v], proc' = proc
    PROVE  Idle(v)' /\ Spent(v)'
<1>1. at'["completed"][v] = at["completed"][v]
  <2>1. \E t \in Position : Move("completed", w, t)
    BY DEF Proceed, Retry, Position
  <2> QED  BY <2>1, MoveType DEF WasteInv, Inv, Kind
<1>2. todo'[v] = todo[v]
  BY DEF Proceed, Retry, WasteInv, Inv, TypeOK, TypeOKCallbacks
<1>3. faults' \in Nat /\ faults <= faults'
  BY FailsSpends DEF Proceed, Retry, WasteInv, Inv, TypeOK
<1> QED  BY <1>1, <1>2, <1>3, SpentByOthers

\* Up to the callbacks nothing is made.
LEMMA EarlySpends ==
    ASSUME WasteInv, NEW w \in Workflows,
           Begin(w) \/ InsertStartEvent(w) \/ InsertEndEvent(w) \/ StepFails(w)
    PROVE  \A v \in Workflows : Idle(v)' /\ Spent(v)'
<1>1. PICK to \in {"start", "end", "resource"} :
         /\ \/ Proceed(w, to, {}) /\ at["completed"][w] \in {"begin", "start", "end"}
            \/ Retry(w)
         /\ at["completed"][w] \in Working
         /\ UNCHANGED <<rows, cluster, proc>>
  <2>1. CASE Begin(w)
    BY <2>1 DEF Begin, Working
  <2>2. CASE InsertStartEvent(w)
    <3>1. Proceed(w, "end", {}) \/ Retry(w)
      BY <2>2 DEF InsertStartEvent, InsertEvent, Reply
    <3> QED  BY <2>2, <3>1 DEF InsertStartEvent, InsertEvent, Working, InTx
  <2>3. CASE InsertEndEvent(w)
    <3>1. Proceed(w, "resource", {}) \/ Retry(w)
      BY <2>3 DEF InsertEndEvent, InsertEvent, Reply
    <3> QED  BY <2>3, <3>1 DEF InsertEndEvent, InsertEvent, Working, InTx
  <2>4. CASE StepFails(w)
    BY <2>4 DEF StepFails
  <2> QED  BY <2>1, <2>2, <2>3, <2>4
<1>2. to \in Position /\ to \in Working /\ to # "commit"
  BY DEF Position, Working, InTx
<1>3. \A v \in Workflows \ {w} : Idle(v)' /\ Spent(v)'
  BY <1>1, <1>2, DoneByOthers
<1>4. CASE Proceed(w, to, {}) /\ at["completed"][w] \in {"begin", "start", "end"}
  <2>1. \A i \in Items(w) : ~Made(w, i)
    BY <1>1, <1>4 DEF Made
  <2> QED  BY <1>1, <1>2, <1>3, <1>4, <2>1, ProceedSpends
<1>5. CASE Retry(w)
  BY <1>1, <1>3, <1>5, RetrySpends
<1> QED  BY <1>1, <1>4, <1>5

LEMMA ReadSpends ==
    ASSUME WasteInv, NEW w \in Workflows, PutWorkflowResource(w) \/ GetInputs(w)
    PROVE  \A v \in Workflows : Idle(v)' /\ Spent(v)'
<1>1. PICK to \in {"inputs", "items", "delete"}, left \in {{}, Items(w)} :
         /\ Proceed(w, to, left) \/ Retry(w)
         /\ at["completed"][w] \in {"resource", "inputs"}
         /\ UNCHANGED <<rows, cluster, proc>>
  <2>1. CASE PutWorkflowResource(w)
    <3> DEFINE to == IF CallbacksOf[w] = {} THEN "delete" ELSE "inputs"
    <3>1. Proceed(w, to, {}) \/ Retry(w)
      BY <2>1 DEF PutWorkflowResource, Reply
    <3>2. to \in {"inputs", "items", "delete"}
      OBVIOUS
    <3> HIDE DEF to
    <3> QED  BY <2>1, <3>1, <3>2 DEF PutWorkflowResource
  <2>2. CASE GetInputs(w)
    <3> DEFINE to == IF Items(w) = {} THEN "delete" ELSE "items"
    <3>1. Proceed(w, to, Items(w))
      BY <2>2 DEF GetInputs
    <3>2. to \in {"inputs", "items", "delete"}
      OBVIOUS
    <3> HIDE DEF to
    <3> QED  BY <2>2, <3>1, <3>2 DEF GetInputs
  <2> QED  BY <2>1, <2>2
<1>2. /\ to \in Position /\ to \in Working /\ to # "commit"
      /\ at["completed"][w] \in Working \ {"params"}
  BY <1>1 DEF Position, Working, InTx
<1>3. \A v \in Workflows \ {w} : Idle(v)' /\ Spent(v)'
  BY <1>1, <1>2, DoneByOthers
<1>4. CASE Proceed(w, to, left)
  <2>1. \A i \in Items(w) : ~Made(w, i)
    BY <1>1 DEF Made
  <2> QED  BY <1>1, <1>2, <1>3, <1>4, <2>1, ProceedSpends
<1>5. CASE Retry(w)
  BY <1>1, <1>2, <1>3, <1>5, RetrySpends
<1> QED  BY <1>1, <1>4, <1>5

LEMMA DeleteSpends ==
    ASSUME WasteInv, NEW w \in Workflows, DeleteWorkflow(w)
    PROVE  \A v \in Workflows : Idle(v)' /\ Spent(v)'
<1>1. /\ Proceed(w, "commit", {}) \/ Retry(w)
      /\ at["completed"][w] = "delete"
      /\ cluster' = [cluster EXCEPT ![w] = "gone"]
      /\ UNCHANGED <<rows, proc>>
  BY DEF DeleteWorkflow, Reply
<1>2. cluster'[w] = "gone" /\ \A v \in Workflows \ {w} : cluster'[v] = cluster[v]
  BY <1>1 DEF WasteInv, Inv, TypeOK
<1>3. /\ "commit" \in Position /\ "commit" \in Working
      /\ at["completed"][w] \in Working \ {"params"}
  BY <1>1 DEF Position, Working, InTx
<1>4. \A v \in Workflows \ {w} : Idle(v)' /\ Spent(v)'
  BY <1>1, <1>2, <1>3, DoneByOthers
<1>5. CASE Proceed(w, "commit", {})
  <2>1. at'["completed"][w] = "commit"
    BY <1>3, <1>5, MoveType DEF WasteInv, Inv, Proceed, Kind
  <2>2. \A i \in Items(w) : Made(w, i)'
    BY <2>1 DEF Made
  <2> QED  BY <1>1, <1>2, <1>3, <1>4, <1>5, <2>2, ProceedSpends
<1>6. CASE Retry(w)
  BY <1>1, <1>2, <1>3, <1>4, <1>6, RetrySpends
<1> QED  BY <1>1, <1>5, <1>6

\* The action that is made is what its try may spend.
LEMMA MakeSpends ==
    ASSUME WasteInv, NEW w \in Workflows, MakeCallback(w)
    PROVE  \A v \in Workflows : Idle(v)' /\ Spent(v)'
<1>1. PICK i \in Due(w) : InsertCallback(w, i)
  BY DEF MakeCallback
<1>2. /\ Proceed(w, "params", todo[w]) \/ Retry(w)
      /\ at["completed"][w] = "items"
      /\ UNCHANGED <<cluster, proc>>
      /\ "params" \in Position /\ "params" \in InTx
  BY DEF MakeCallback, Reply, Position, Working, InTx
<1>3. /\ todo[w] \in SUBSET Item /\ TypeOKCallbacks /\ i \in todo[w] /\ i \in Item
      /\ Idle(w) /\ Spent(w) /\ faults \in Nat
  <2>1. TypeOK /\ Idle(w) /\ Spent(w)
    BY DEF WasteInv, Inv
  <2>2. TypeOKCallbacks /\ faults \in Nat
    BY <2>1 DEF TypeOK
  <2>3. todo[w] \in SUBSET Item
    BY <2>2 DEF TypeOKCallbacks
  <2>4. i \in todo[w]
    BY DEF Due
  <2> QED  BY <2>1, <2>2, <2>3, <2>4
<1>4. /\ \A v \in Workflows \ {w} : rows'[v] = rows[v]
      /\ Last(w)' = [item |-> i, state |-> "waiting"]
  BY <1>1, <1>3, InsertKeeps
<1>5. /\ Cardinality(RowsFor(w, i)') = Cardinality(RowsFor(w, i)) + 1
      /\ \A j \in Item \ {i} : RowsFor(w, j)' = RowsFor(w, j)
      /\ Cardinality(Waiting(w)') = Cardinality(Waiting(w)) + 1
  BY <1>1, <1>3, InsertCounts
<1>6. \A v \in Workflows \ {w} : Idle(v)' /\ Spent(v)'
  BY <1>2, <1>4, DoneByOthers
<1>7. /\ Items(w) \subseteq Item /\ \A j : Cardinality(RowsFor(w, j)) \in Nat
      /\ Cardinality(Waiting(w)) \in Nat
  BY <1>3, ItemsType, RowCounts
<1>8. /\ Need(w, Made(w, i)) = (IF proc = "stopping" THEN 1 ELSE 0)
      /\ Need(w, at["completed"][w] = "params") = (IF proc = "stopping" THEN 1 ELSE 0)
  BY <1>2, <1>3 DEF Made, Need, InTx
<1>9. \A spent : Need(w, spent) \in {-1, 0, 1} /\ (proc = "stopping" => Need(w, spent) \in {0, 1})
  BY DEF Need
<1>10. CASE Proceed(w, "params", todo[w])
  <2>1. /\ at'["completed"][w] = "params" /\ todo'[w] = todo[w]
        /\ proc # "stopping" /\ proc' = proc /\ faults' = faults
    BY <1>2, <1>3, <1>10, AtDone DEF Proceed, WasteInv, Inv
  <2>2. Idle(w)'
    BY <1>2, <1>3, <2>1 DEF Idle
  <2>3. Made(w, i)' /\ \A j \in Items(w) : Made(w, j) => Made(w, j)'
    BY <1>2, <1>4, <2>1 DEF Made
  <2>4. /\ Need(w, Made(w, i))' = -1 /\ Need(w, at["completed"][w] = "params")' = -1
        /\ \A j \in Items(w) : Need(w, Made(w, j))' <= Need(w, Made(w, j))
        /\ \A j \in Items(w) : Need(w, Made(w, j))' \in {-1, 0}
    BY <2>1, <2>3 DEF Need
  <2>5. ASSUME NEW j \in Items(w)
        PROVE  Cardinality(RowsFor(w, j))' + Need(w, Made(w, j))' <= faults'
    <3>1. Cardinality(RowsFor(w, j)) + Need(w, Made(w, j)) <= faults
      BY <1>3 DEF Spent
    <3>2. CASE j = i
      BY <1>3, <1>5, <1>7, <1>8, <2>1, <2>4, <3>1, <3>2
    <3>3. CASE j # i
      BY <1>3, <1>5, <1>7, <1>9, <2>1, <2>4, <3>1, <3>3
    <3> QED  BY <3>2, <3>3
  <2>6. Cardinality(Waiting(w))' + Need(w, at["completed"][w] = "params")' <= faults'
    BY <1>3, <1>5, <1>7, <1>8, <2>1, <2>4 DEF Spent
  <2> QED  BY <1>6, <2>2, <2>5, <2>6 DEF Spent
<1>11. CASE Retry(w)
  <2>1. at'["completed"][w] = "backoff" /\ proc' = proc /\ Fails
    BY <1>2, <1>11, MoveType DEF Retry, WasteInv, Inv, Kind, Position
  <2>2. Idle(w)'
    BY <1>2, <1>3, <2>1 DEF Idle
  <2>3. /\ Need(w, at["completed"][w] = "params")' = 0
        /\ \A j \in Items(w) : Need(w, Made(w, j))' = 0
    BY <2>1 DEF Need, Made, InTx
  <2>4. ASSUME NEW j \in Items(w)
        PROVE  Cardinality(RowsFor(w, j))' + Need(w, Made(w, j))' <= faults'
    <3>1. Cardinality(RowsFor(w, j)) + Need(w, Made(w, j)) <= faults
      BY <1>3 DEF Spent
    <3>2. CASE j = i
      BY <1>3, <1>5, <1>7, <1>8, <2>1, <2>3, <3>1, <3>2, FailsSpends
    <3>3. CASE j # i
      BY <1>3, <1>5, <1>7, <1>9, <2>1, <2>3, <3>1, <3>3, FailsSpends
    <3> QED  BY <3>2, <3>3
  <2>5. Cardinality(Waiting(w))' + Need(w, at["completed"][w] = "params")' <= faults'
    BY <1>3, <1>5, <1>7, <1>8, <2>1, <2>3, FailsSpends DEF Spent
  <2> QED  BY <1>6, <2>2, <2>4, <2>5 DEF Spent
<1> QED  BY <1>2, <1>10, <1>11

\* The action that is settled waits no longer.
LEMMA SettleSpends ==
    ASSUME WasteInv, NEW w \in Workflows, SettleCallback(w)
    PROVE  \A v \in Workflows : Idle(v)' /\ Spent(v)'
<1> DEFINE left == todo[w] \ {Last(w).item}
           to == IF left = {} THEN "delete" ELSE "items"
<1>1. /\ Proceed(w, to, left) \/ Retry(w)
      /\ at["completed"][w] = "params" /\ PutOrFail(w)
      /\ UNCHANGED <<cluster, proc>>
      /\ to \in {"delete", "items"} /\ (to = "delete" => left = {})
  BY DEF SettleCallback, Reply
<1>2. /\ todo[w] \in SUBSET Item /\ TypeOKCallbacks
      /\ Idle(w) /\ Spent(w) /\ faults \in Nat
      /\ rows[w] # <<>> /\ Last(w).state = "waiting"
  <2>1. TypeOK /\ Idle(w) /\ Spent(w) /\ Account(w)
    BY DEF WasteInv, Inv
  <2>2. TypeOKCallbacks /\ faults \in Nat
    BY <2>1 DEF TypeOK
  <2>3. todo[w] \in SUBSET Item
    BY <2>2 DEF TypeOKCallbacks
  <2>4. rows[w] # <<>> /\ Last(w).state = "waiting"
    BY <1>1, <2>1 DEF Account, Progress
  <2> QED  BY <2>1, <2>2, <2>3, <2>4
<1>3. \A v \in Workflows \ {w} : rows'[v] = rows[v]
  BY <1>1, <1>2, SettleKeeps
<1>4. /\ \A j \in Item : RowsFor(w, j)' = RowsFor(w, j)
      /\ Cardinality(Waiting(w)') = Cardinality(Waiting(w)) - 1
  BY <1>1, <1>2, SettleCounts
<1>5. /\ Items(w) \subseteq Item /\ \A j : Cardinality(RowsFor(w, j)) \in Nat
      /\ Cardinality(Waiting(w)) \in Nat
  BY <1>2, ItemsType, RowCounts
<1>6. \A spent : Need(w, spent) \in {-1, 0, 1} /\ (proc = "stopping" => Need(w, spent) \in {0, 1})
  BY DEF Need
<1>7. \A j \in Items(w) : Made(w, j) => j \notin left
  BY <1>1 DEF Made
<1>8. left \in SUBSET Item
  BY <1>2
<1> HIDE DEF left, to
<1>9. to \in Position /\ to \in InTx
  BY <1>1 DEF Position, Working, InTx
<1>10. \A v \in Workflows \ {w} : Idle(v)' /\ Spent(v)'
  BY <1>1, <1>3, <1>9, DoneByOthers
<1>11. CASE Proceed(w, to, left)
  <2>1. /\ at'["completed"][w] = to /\ todo'[w] = left
        /\ proc # "stopping" /\ proc' = proc /\ faults' = faults
    BY <1>1, <1>8, <1>9, <1>11, AtDone DEF Proceed, WasteInv, Inv
  <2>2. Idle(w)'
    BY <1>1, <1>2, <2>1 DEF Idle
  <2>3. \A j \in Items(w) : Made(w, j) => Made(w, j)'
    BY <1>1, <1>7, <2>1 DEF Made
  <2>4. /\ Need(w, at["completed"][w] = "params")' = 0 /\ Need(w, at["completed"][w] = "params") = -1
        /\ \A j \in Items(w) : Need(w, Made(w, j))' <= Need(w, Made(w, j))
        /\ \A j \in Items(w) : Need(w, Made(w, j))' \in {-1, 0}
    BY <1>1, <2>1, <2>3 DEF Need
  <2>5. ASSUME NEW j \in Items(w)
        PROVE  Cardinality(RowsFor(w, j))' + Need(w, Made(w, j))' <= faults'
    <3>1. Cardinality(RowsFor(w, j)) + Need(w, Made(w, j)) <= faults
      BY <1>2 DEF Spent
    <3> QED  BY <1>2, <1>4, <1>5, <1>6, <2>1, <2>4, <3>1
  <2>6. Cardinality(Waiting(w))' + Need(w, at["completed"][w] = "params")' <= faults'
    BY <1>2, <1>4, <1>5, <2>1, <2>4 DEF Spent
  <2> QED  BY <1>10, <2>2, <2>5, <2>6 DEF Spent
<1>12. CASE Retry(w)
  <2>1. at'["completed"][w] = "backoff" /\ proc' = proc /\ Fails
    BY <1>1, <1>12, MoveType DEF Retry, WasteInv, Inv, Kind, Position
  <2>2. Idle(w)'
    BY <1>1, <1>2, <2>1 DEF Idle
  <2>3. /\ Need(w, at["completed"][w] = "params")' = 0
        /\ \A j \in Items(w) : Need(w, Made(w, j))' = 0
    BY <2>1 DEF Need, Made, InTx
  <2>4. ASSUME NEW j \in Items(w)
        PROVE  Cardinality(RowsFor(w, j))' + Need(w, Made(w, j))' <= faults'
    <3>1. Cardinality(RowsFor(w, j)) + Need(w, Made(w, j)) <= faults
      BY <1>2 DEF Spent
    <3> QED  BY <1>2, <1>4, <1>5, <1>6, <2>1, <2>3, <3>1, FailsSpends
  <2>5. Cardinality(Waiting(w))' + Need(w, at["completed"][w] = "params")' <= faults'
    BY <1>2, <1>4, <1>5, <1>6, <2>1, <2>3, FailsSpends DEF Spent
  <2> QED  BY <1>10, <2>2, <2>4, <2>5 DEF Spent
<1> QED  BY <1>1, <1>11, <1>12

LEMMA CommitSpends ==
    ASSUME WasteInv, NEW w \in Workflows, Commit(w)
    PROVE  \A v \in Workflows : Idle(v)' /\ Spent(v)'
<1>1. /\ Move("completed", w, "none") /\ "completed" \in Kind /\ "none" \in Position
      /\ at["completed"][w] = "commit"
      /\ UNCHANGED <<cluster, proc, faults, rows, todo>>
  BY DEF Commit, Kind, Position
<1>2. /\ at'["completed"][w] = "none"
      /\ \A v \in Workflows \ {w} : at'["completed"][v] = at["completed"][v]
  BY <1>1, MoveType DEF WasteInv, Inv
<1>3. faults \in Nat /\ Idle(w)
  BY DEF WasteInv, Inv, TypeOK
<1>4. ASSUME NEW v \in Workflows \ {w} PROVE Idle(v)' /\ Spent(v)'
  BY <1>1, <1>2, <1>3, SpentByOthers
<1>5. Idle(w)'
  BY <1>1, <1>2, <1>3 DEF Idle
<1>6. cluster[w] = "gone"
  BY <1>1, <1>3 DEF Idle
<1>7. \A i \in Items(w) : Made(w, i) /\ Made(w, i)'
  BY <1>1, <1>2, <1>6 DEF Made
<1>8. /\ \A i \in Items(w) : Need(w, Made(w, i))' = Need(w, Made(w, i))
      /\ \A i \in Items(w) : Need(w, Made(w, i)) \in Int
  BY <1>1, <1>7 DEF Need
<1>9. /\ Need(w, at["completed"][w] = "params")' = 0
      /\ Need(w, at["completed"][w] = "params") \in {0, 1}
  BY <1>1, <1>2 DEF Need, InTx
<1>10. Spent(w)'
  BY <1>1, <1>3, <1>8, <1>9, SpentKept
<1> QED  BY <1>4, <1>5, <1>10

-----------------------------------------------------------------------------
(* The steps around wfDone.                                                 *)

\* An event that is not in wfDone.
LEMMA NothingNeeded ==
    ASSUME NEW w \in Workflows, at["completed"][w] \notin InTx,
           at["completed"][w] = "none" => cluster[w] # "gone"
    PROVE  /\ \A i \in Items(w) : Need(w, Made(w, i)) = 0
           /\ Need(w, at["completed"][w] = "params") = 0
BY DEF Made, Need, InTx

\* A completed event on its way to a worker, or dropped.
LEMMA WaySpends ==
    ASSUME WasteInv, NEW w \in Workflows,
           at["completed"][w] \notin InTx \cup {"none"},
           NEW to \in Position, to \notin InTx, Move("completed", w, to),
           to = "none" => proc = "stopping",
           faults' \in Nat, faults <= faults', UNCHANGED <<cluster, proc, rows, todo>>
    PROVE  \A v \in Workflows : Idle(v)' /\ Spent(v)'
<1>1. /\ at'["completed"][w] = to
      /\ \A v \in Workflows \ {w} : at'["completed"][v] = at["completed"][v]
  BY MoveType DEF WasteInv, Inv, Kind
<1>2. ASSUME NEW v \in Workflows \ {w} PROVE Idle(v)' /\ Spent(v)'
  BY <1>1, SpentByOthers
<1>3. Idle(w) /\ faults \in Nat
  BY DEF WasteInv, Inv, TypeOK
<1>4. Idle(w)'
  BY <1>1, <1>3 DEF Idle, InTx
<1>5. /\ \A i \in Items(w) : Need(w, Made(w, i)) = 0
      /\ Need(w, at["completed"][w] = "params") = 0
  BY NothingNeeded
<1>6. /\ \A i \in Items(w) : Need(w, Made(w, i))' = 0
      /\ Need(w, at["completed"][w] = "params")' = 0
  BY <1>1 DEF Made, Need, InTx
<1>7. Spent(w)'
  BY <1>3, <1>5, <1>6, SpentKept
<1> QED  BY <1>2, <1>4, <1>7

\* A started event spends nothing.
LEMMA StartedSpends ==
    ASSUME WasteInv, NEW w \in Workflows, NEW to \in Position, Move("started", w, to),
           faults' \in Nat, faults <= faults', UNCHANGED <<cluster, proc, rows, todo>>
    PROVE  \A v \in Workflows : Idle(v)' /\ Spent(v)'
<1>1. \A v \in Workflows : at'["completed"][v] = at["completed"][v]
  BY MoveType DEF WasteInv, Inv, Kind
<1> QED  BY <1>1, SpentByOthers

LEMMA EventSpends ==
    ASSUME WasteInv, NEW w \in Workflows,
           BackoffEnds(w) \/ WfStart(w) \/ \E k \in Kind : EventStep(k, w)
    PROVE  \A v \in Workflows : Idle(v)' /\ Spent(v)'
<1>1. {"lookup", "send", "dropped", "insert", "begin", "resend", "none"} \subseteq Position \ InTx
  BY DEF Position, Working, InTx
<1>2. faults \in Nat
  BY DEF WasteInv, Inv, TypeOK
<1>3. Fails \/ UNCHANGED faults => faults' \in Nat /\ faults <= faults'
  BY <1>2, FailsSpends
<1>4. CASE BackoffEnds(w)
  <2>1. at["completed"][w] \notin InTx \cup {"none"}
    BY <1>4 DEF BackoffEnds, InTx
  <2>2. \E to \in {"resend", "none"} :
           Move("completed", w, to) /\ (to = "none" => proc = "stopping")
    BY <1>4 DEF BackoffEnds
  <2> QED  BY <1>1, <1>3, <1>4, <2>1, <2>2, WaySpends DEF BackoffEnds
<1>5. CASE WfStart(w)
  BY <1>1, <1>3, <1>5, StartedSpends DEF WfStart
<1>6. ASSUME NEW k \in Kind, EventStep(k, w)
      PROVE  \A v \in Workflows : Idle(v)' /\ Spent(v)'
  <2>1. PICK to \in {"lookup", "send", "dropped", "insert", "begin"} :
           /\ Move(k, w, to)
           /\ at[k][w] \in {"queued", "lookup", "send", "resend"}
           /\ Fails \/ UNCHANGED faults
           /\ UNCHANGED <<cluster, proc, rows, todo>>
    <3>1. CASE Handle(k, w)
      BY <3>1 DEF Handle
    <3>2. CASE NewWorkflowEvent(k, w)
      BY <3>2 DEF NewWorkflowEvent
    <3>3. CASE Receive(k, w)
      BY <3>3 DEF Receive
    <3> QED  BY <1>6, <3>1, <3>2, <3>3 DEF EventStep
  <2>2. CASE k = "completed"
    <3>1. at["completed"][w] \notin InTx \cup {"none"}
      BY <2>1, <2>2 DEF InTx
    <3> QED  BY <1>1, <1>3, <2>1, <2>2, <3>1, WaySpends
  <2>3. CASE k = "started"
    BY <1>1, <1>3, <2>1, <2>3, StartedSpends
  <2> QED  BY <2>2, <2>3 DEF Kind
<1> QED  BY <1>4, <1>5, <1>6

\* A workflow that is not done has no completed event yet.
LEMMA AdvanceSpends ==
    ASSUME WasteInv, NEW w \in Workflows, WorkflowRuns(w) \/ WorkflowCompletes(w)
    PROVE  \A v \in Workflows : Idle(v)' /\ Spent(v)'
<1>1. PICK from \in {"pending", "running"}, to \in {"running", "completed"}, k \in Kind :
         Advance(w, from, to, k) /\ (k = "completed" => to = "completed")
  BY DEF WorkflowRuns, WorkflowCompletes, Kind
<1>2. /\ cluster[w] \in {"pending", "running"}
      /\ cluster'[w] \in {"running", "completed"} /\ (k = "completed" => cluster'[w] = "completed")
      /\ \A v \in Workflows \ {w} : cluster'[v] = cluster[v]
      /\ UNCHANGED <<proc, faults, rows, todo>>
      /\ (proc = "up" /\ Move(k, w, "queued")) \/ UNCHANGED at
  BY <1>1 DEF Advance, WasteInv, Inv, TypeOK
<1>3. "queued" \in Position
  BY DEF Position
<1>4. /\ \A v \in Workflows \ {w} : at'["completed"][v] = at["completed"][v]
      /\ \/ at'["completed"][w] = at["completed"][w]
         \/ proc = "up" /\ k = "completed" /\ at'["completed"][w] = "queued"
  BY <1>2, <1>3, MoveType DEF WasteInv, Inv, Kind
<1>5. Idle(w) /\ faults \in Nat
  BY DEF WasteInv, Inv, TypeOK
<1>6. ASSUME NEW v \in Workflows \ {w} PROVE Idle(v)' /\ Spent(v)'
  BY <1>2, <1>4, <1>5, SpentByOthers
<1>7. at["completed"][w] = "none"
  BY <1>2, <1>5 DEF Idle
<1>8. Idle(w)'
  BY <1>2, <1>4, <1>7 DEF Idle
<1>9. /\ \A i \in Items(w) : Need(w, Made(w, i)) = 0
      /\ Need(w, at["completed"][w] = "params") = 0
  BY <1>2, <1>7, NothingNeeded DEF InTx
<1>10. at'["completed"][w] \in {"none", "queued"} /\ cluster'[w] # "gone"
  BY <1>2, <1>4, <1>7
<1>11. /\ \A i \in Items(w) : Need(w, Made(w, i))' = 0
       /\ Need(w, at["completed"][w] = "params")' = 0
  BY <1>10 DEF Made, Need, InTx
<1>12. Spent(w)'
  BY <1>2, <1>5, <1>9, <1>11, SpentKept
<1> QED  BY <1>6, <1>8, <1>12

-----------------------------------------------------------------------------
(* The process.                                                             *)

LEMMA EndsSpend ==
    ASSUME WasteInv, Ends, faults' \in Nat,
           faults' = faults + 1 \/ (faults' = faults /\ proc = "stopping")
    PROVE  \A v \in Workflows : Idle(v)' /\ Spent(v)'
<1> SUFFICES ASSUME NEW v \in Workflows PROVE Idle(v)' /\ Spent(v)'
  OBVIOUS
<1>1. /\ at'["completed"][v] = "none" /\ proc' = "down"
      /\ UNCHANGED <<cluster, rows>>
  BY DEF Ends, Kind
<1>2. Idle(v)'
  BY <1>1 DEF Idle
<1>3. /\ \A i \in Items(v) : Need(v, Made(v, i))' \in {-1, 0}
      /\ Need(v, at["completed"][v] = "params")' = 0
  BY <1>1 DEF Need
<1>4. \A spent : Need(v, spent) \in {-1, 0, 1} /\ (proc = "stopping" => Need(v, spent) \in {0, 1})
  BY DEF Need
<1>5. faults \in Nat
  BY DEF WasteInv, Inv, TypeOK
<1>6. Spent(v)'
  BY <1>1, <1>3, <1>4, <1>5, SpentKept
<1> QED  BY <1>2, <1>6

\* The event of a workflow that is gone is over, and the others begin.
LEMMA SyncSpends ==
    ASSUME WasteInv, Sync
    PROVE  \A v \in Workflows : Idle(v)' /\ Spent(v)'
<1> SUFFICES ASSUME NEW v \in Workflows PROVE Idle(v)' /\ Spent(v)'
  OBVIOUS
<1>1. /\ proc = "syncing" /\ proc' = "up"
      /\ UNCHANGED <<cluster, rows, faults>>
      /\ at'["completed"][v] = IF cluster[v] = "completed" THEN "queued" ELSE "none"
  BY DEF Sync, WasteInv, Inv, TypeOK, Kind
<1>2. faults \in Nat /\ Idle(v)
  BY DEF WasteInv, Inv, TypeOK
<1>3. at["completed"][v] = "none" /\ at'["completed"][v] \in {"none", "queued"}
  BY <1>1, <1>2 DEF Idle
<1>4. Idle(v)'
  BY <1>1, <1>3 DEF Idle
<1>5. /\ \A i \in Items(v) : Made(v, i)' <=> Made(v, i)
      /\ ~(at["completed"][v] = "params") /\ ~(at["completed"][v] = "params")'
  BY <1>1, <1>3 DEF Made
<1>6. /\ \A i \in Items(v) : Need(v, Made(v, i))' = Need(v, Made(v, i))
      /\ Need(v, at["completed"][v] = "params")' = Need(v, at["completed"][v] = "params")
  BY <1>1, <1>5 DEF Need
<1>7. \A spent : Need(v, spent) \in {-1, 0, 1}
  BY DEF Need
<1>8. Spent(v)'
  BY <1>1, <1>2, <1>6, <1>7, SpentKept
<1> QED  BY <1>4, <1>8

\* The cancellation is a fault, and pays for what goes wrong after it.
LEMMA StopSpends ==
    ASSUME WasteInv, proc \notin {"down", "syncing", "stopping"}, proc' = "stopping",
           faults' = faults + 1, UNCHANGED <<cluster, at, rows, todo>>
    PROVE  \A v \in Workflows : Idle(v)' /\ Spent(v)'
<1> SUFFICES ASSUME NEW v \in Workflows PROVE Idle(v)' /\ Spent(v)'
  OBVIOUS
<1>1. faults \in Nat /\ faults' \in Nat /\ Idle(v)
  BY DEF WasteInv, Inv, TypeOK
<1>2. Idle(v)'
  BY <1>1 DEF Idle
<1>3. Last(v)' = Last(v)
  BY DEF Last
<1>4. \A i \in Items(v) : Made(v, i)' <=> Made(v, i)
  BY <1>3 DEF Made
<1>5. /\ \A i \in Items(v) : Need(v, Made(v, i))' <= Need(v, Made(v, i)) + 1
      /\ Need(v, at["completed"][v] = "params")' <= Need(v, at["completed"][v] = "params") + 1
  BY <1>4 DEF Need
<1>6. \A spent : Need(v, spent) \in {-1, 0, 1}
  BY DEF Need
<1>7. /\ \A i \in Items(v) : Need(v, Made(v, i))' \in {-1, 0, 1}
      /\ Need(v, at["completed"][v] = "params")' \in {-1, 0, 1}
  BY DEF Need
<1>8. Spent(v)'
  BY <1>1, <1>5, <1>6, <1>7, SpentKept
<1> QED  BY <1>2, <1>8

LEMMA StillSpends ==
    ASSUME WasteInv, UNCHANGED <<cluster, at, faults, rows, todo>>,
           proc' = proc \/ (proc = "down" /\ proc' = "syncing")
    PROVE  \A v \in Workflows : Idle(v)' /\ Spent(v)'
<1> SUFFICES ASSUME NEW v \in Workflows PROVE Idle(v)' /\ Spent(v)'
  OBVIOUS
<1>1. faults \in Nat /\ Idle(v)
  BY DEF WasteInv, Inv, TypeOK
<1>2. Idle(v)'
  BY <1>1 DEF Idle
<1>3. Last(v)' = Last(v)
  BY DEF Last
<1>4. \A i \in Items(v) : Made(v, i)' <=> Made(v, i)
  BY <1>3 DEF Made
<1>5. /\ \A i \in Items(v) : Need(v, Made(v, i))' = Need(v, Made(v, i))
      /\ Need(v, at["completed"][v] = "params")' = Need(v, at["completed"][v] = "params")
  BY <1>4 DEF Need
<1>6. \A spent : Need(v, spent) \in {-1, 0, 1}
  BY DEF Need
<1>7. Spent(v)'
  BY <1>1, <1>5, <1>6, SpentKept
<1> QED  BY <1>2, <1>7

LEMMA ProcessSpends ==
    ASSUME WasteInv, Launch \/ StartWorker \/ Sync \/ Stop \/ WorkerStops \/ WaitReturns \/ Crash
    PROVE  \A v \in Workflows : Idle(v)' /\ Spent(v)'
<1>1. faults \in Nat
  BY DEF WasteInv, Inv, TypeOK
<1>2. CASE Launch \/ StartWorker \/ WorkerStops
  BY <1>2, StillSpends DEF Launch, StartWorker, WorkerStops
<1>3. CASE Sync
  BY <1>3, SyncSpends
<1>4. CASE Stop
  <2>1. faults' = faults + 1 /\ faults' \in Nat /\ proc \in {"syncing", "up"}
    BY <1>1, <1>4 DEF Stop, Goes
  <2>2. CASE proc = "syncing"
    BY <1>4, <2>1, <2>2, EndsSpend DEF Stop
  <2>3. CASE proc = "up"
    BY <1>4, <2>1, <2>3, StopSpends DEF Stop
  <2> QED  BY <2>1, <2>2, <2>3
<1>5. CASE WaitReturns
  <2>1. faults' \in Nat /\ (faults' = faults + 1 \/ (faults' = faults /\ proc = "stopping"))
    BY <1>1, <1>5 DEF WaitReturns, Goes
  <2> QED  BY <1>5, <2>1, EndsSpend DEF WaitReturns
<1>6. CASE Crash
  <2>1. faults' \in Nat /\ faults' = faults + 1
    BY <1>1, <1>6 DEF Crash, Goes
  <2> QED  BY <1>6, <2>1, EndsSpend DEF Crash
<1> QED  BY <1>2, <1>3, <1>4, <1>5, <1>6

-----------------------------------------------------------------------------
LEMMA WasteInit == Init => WasteInv
<1> SUFFICES ASSUME Init PROVE WasteInv
  OBVIOUS
<1>1. ASSUME NEW w \in Workflows PROVE Idle(w) /\ Spent(w)
  <2>1. /\ at["completed"][w] = "none" /\ cluster[w] # "gone" /\ rows[w] = <<>> /\ faults = 0
        /\ proc = "down"
    BY DEF Init, InitCallbacks, Kind
  <2>2. /\ \A i \in Items(w) : Need(w, Made(w, i)) = 0
        /\ Need(w, at["completed"][w] = "params") = 0
    BY <2>1, NothingNeeded DEF InTx
  <2>3. Waiting(w) = {} /\ \A i : RowsFor(w, i) = {}
    BY <2>1 DEF Waiting, RowsFor
  <2>4. Cardinality(Waiting(w)) = 0 /\ \A i : Cardinality(RowsFor(w, i)) = 0
    BY <2>3, FS_EmptySet
  <2>5. Spent(w)
    BY <2>1, <2>2, <2>4 DEF Spent
  <2> QED  BY <2>1, <2>5 DEF Idle
<1> QED  BY <1>1, InitInv DEF WasteInv

LEMMA WasteStep == WasteInv /\ [Next]_vars => WasteInv'
<1> SUFFICES ASSUME WasteInv, [Next]_vars PROVE WasteInv'
  OBVIOUS
<1>1. Inv'
  BY StepInv DEF WasteInv
<1>2. CASE UNCHANGED vars
  BY <1>2, StillSpends, <1>1 DEF vars, cabooseVars, WasteInv
<1>3. CASE Launch \/ StartWorker \/ Sync \/ Stop \/ WorkerStops \/ WaitReturns \/ Crash
  BY <1>1, <1>3, ProcessSpends DEF WasteInv
<1>4. ASSUME NEW w \in Workflows, WorkflowRuns(w) \/ WorkflowCompletes(w) PROVE WasteInv'
  BY <1>1, <1>4, AdvanceSpends DEF WasteInv
<1>5. ASSUME NEW w \in Workflows,
             WfStart(w) \/ BackoffEnds(w) \/ \E k \in Kind : EventStep(k, w)
      PROVE  WasteInv'
  BY <1>1, <1>5, EventSpends DEF WasteInv
<1>6. ASSUME NEW w \in Workflows, WfDone(w) PROVE WasteInv'
  <2>1. \A v \in Workflows : Idle(v)' /\ Spent(v)'
    BY <1>6, EarlySpends, ReadSpends, MakeSpends, SettleSpends, DeleteSpends, CommitSpends
       DEF WfDone
  <2> QED  BY <1>1, <2>1 DEF WasteInv
<1> QED  BY <1>2, <1>3, <1>4, <1>5, <1>6 DEF Next

\* A retry repeats no more than what went wrong: an item has one action and one
\* more for each fault at most, and no more actions are left without parameters
\* than there were faults.
THEOREM WasteBounded == Spec => []WasteIsBounded
<1>1. WasteInv => WasteIsBounded
  <2> SUFFICES ASSUME WasteInv, NEW w \in Workflows
               PROVE  /\ \A i \in Items(w) : Cardinality(RowsFor(w, i)) <= 1 + faults
                      /\ Cardinality(Waiting(w))
                           <= faults + (IF at["completed"][w] = "params" THEN 1 ELSE 0)
    BY DEF WasteIsBounded, Waiting
  <2>1. Spent(w) /\ faults \in Nat /\ TypeOKCallbacks
    BY DEF WasteInv, Inv, TypeOK
  <2>2. Cardinality(Waiting(w)) \in Nat /\ \A i : Cardinality(RowsFor(w, i)) \in Nat
    BY <2>1, RowCounts
  <2>3. \A spent : Need(w, spent) \in {-1, 0, 1}
    BY DEF Need
  <2>4. Cardinality(Waiting(w)) <= faults + (IF at["completed"][w] = "params" THEN 1 ELSE 0)
    <3>1. Cardinality(Waiting(w)) + Need(w, at["completed"][w] = "params") <= faults
      BY <2>1 DEF Spent
    <3>2. /\ Need(w, at["completed"][w] = "params") \in {-1, 0, 1}
          /\ at["completed"][w] # "params" => Need(w, at["completed"][w] = "params") \in {0, 1}
      BY DEF Need
    <3> QED  BY <2>1, <2>2, <3>1, <3>2
  <2>5. ASSUME NEW i \in Items(w) PROVE Cardinality(RowsFor(w, i)) <= 1 + faults
    <3>1. Cardinality(RowsFor(w, i)) + Need(w, Made(w, i)) <= faults
      BY <2>1 DEF Spent
    <3> QED  BY <2>1, <2>2, <2>3, <3>1
  <2> QED  BY <2>4, <2>5
<1> QED  BY <1>1, WasteInit, WasteStep, PTL DEF Spec

-----------------------------------------------------------------------------
(* The history of a workflow.                                               *)

Recorded(w) == events[w] \cup (IF w \in resource THEN {"resource"} ELSE {})
Answers(w) == {i \in Items(w) : Answered(w, i)}
All == {"start", "end", "resource"}

\* What is stored was stored in order, and only of what has run.
Ordered(w) ==
    /\ "end" \in events[w] => "start" \in events[w]
    /\ w \in resource => "end" \in events[w]
    /\ at["started"][w] # "none" => cluster[w] # "pending"

LifeInv == WasteInv /\ \A w \in Workflows : Ordered(w)

LEMMA OrderedKept ==
    ASSUME LifeInv, NEW w \in Workflows,
           events'[w] = events[w], resource' = resource,
           at'["started"][w] \in {at["started"][w], "none"} \/ cluster'[w] # "pending",
           cluster'[w] = "pending" => cluster[w] = "pending"
    PROVE  Ordered(w)'
BY DEF LifeInv, Ordered

\* Steps that touch neither the database nor object storage nor the cluster.
Unseen ==
    \/ Launch \/ StartWorker \/ Sync \/ Stop \/ WorkerStops \/ WaitReturns \/ Crash
    \/ UNCHANGED vars
    \/ \E w \in Workflows :
         \/ Begin(w) \/ GetInputs(w) \/ StepFails(w) \/ Commit(w) \/ BackoffEnds(w)
         \/ \E k \in Kind : EventStep(k, w)

LEMMA UnseenLeaves == Unseen => UNCHANGED <<cluster, events, resource, rows>>
<1> SUFFICES ASSUME Unseen PROVE UNCHANGED <<cluster, events, resource, rows>>
  OBVIOUS
<1>1. Launch \/ StartWorker \/ Sync \/ WorkerStops => UNCHANGED <<cluster, events, resource, rows>>
  BY DEF Launch, StartWorker, Sync, WorkerStops
<1>2. Stop \/ WaitReturns \/ Crash => UNCHANGED <<cluster, events, resource, rows>>
  BY DEF Stop, WaitReturns, Crash, Ends
<1>3. UNCHANGED vars => UNCHANGED <<cluster, events, resource, rows>>
  BY DEF vars, cabooseVars
<1>4. ASSUME NEW w \in Workflows,
             Begin(w) \/ GetInputs(w) \/ StepFails(w) \/ Commit(w) \/ BackoffEnds(w)
      PROVE  UNCHANGED <<cluster, events, resource, rows>>
  BY <1>4 DEF Begin, GetInputs, StepFails, Commit, BackoffEnds
<1>5. ASSUME NEW w \in Workflows, NEW k \in Kind, EventStep(k, w)
      PROVE  UNCHANGED <<cluster, events, resource, rows>>
  BY <1>5 DEF EventStep, Handle, NewWorkflowEvent, Receive
<1> QED  BY <1>1, <1>2, <1>3, <1>4, <1>5 DEF Unseen

LEMMA LifeStays ==
    ASSUME UNCHANGED cluster,
           \A w \in Workflows : Recorded(w)' = Recorded(w) /\ Answers(w)' = Answers(w)
    PROVE  UNCHANGED Life!vars
BY DEF Life!vars, Recorded, Answers

\* An entry that is stored already, or the next one of a workflow that is there.
LEMMA LifeRecords ==
    ASSUME UNCHANGED <<cluster, rows>>, NEW w \in Workflows, NEW entry \in All,
           \A v \in Workflows \ {w} : Recorded(v)' = Recorded(v),
           Recorded(w)' = Recorded(w) \cup {entry},
           entry \in Recorded(w)
              \/ /\ cluster[w] = "completed" \/ (cluster[w] = "running" /\ entry = "start")
                 /\ Recorded(w) = Life!Before(entry)
    PROVE  [Life!Next]_(Life!vars)
<1>1. \A v \in Workflows : Answers(v)' = Answers(v)
  BY DEF Answers, Answered, RowsFor
<1>2. CASE entry \in Recorded(w)
  BY <1>1, <1>2, LifeStays
<1>3. CASE entry \notin Recorded(w)
  <2>1. [v \in Workflows |-> Recorded(v)']
           = [[v \in Workflows |-> Recorded(v)] EXCEPT ![w] = @ \cup {entry}]
    OBVIOUS
  <2>2. [v \in Workflows |-> Answers(v)'] = [v \in Workflows |-> Answers(v)]
    BY <1>1
  <2>3. [v \in Workflows |-> Recorded(v)][w] = Recorded(w)
    OBVIOUS
  <2>4. Life!Record(w, entry)
    BY <1>3, <2>1, <2>2, <2>3 DEF Life!Record, Recorded, Answers
  <2> QED  BY <2>4 DEF Life!Next, All
<1> QED  BY <1>2, <1>3

LEMMA HistoryOf ==
    ASSUME LifeInv, NEW w \in Workflows
    PROVE  /\ Ordered(w) /\ Progress(w) /\ Idle(w)
           /\ cluster[w] = "gone" => Complete(w)
           /\ cluster[w] \in {"pending", "running", "completed", "gone"}
           /\ events[w] \in SUBSET {"start", "end"}
<1>1. TypeOK /\ Account(w) /\ Idle(w) /\ Ordered(w)
  BY DEF LifeInv, WasteInv, Inv
<1> QED  BY <1>1 DEF TypeOK, Account

\* An event is inserted for a workflow whose history has come so far.
LEMMA InsertLife ==
    ASSUME LifeInv, NEW w \in Workflows, NEW entry \in {"start", "end"},
           events' = [events EXCEPT ![w] = @ \cup {entry}],
           UNCHANGED <<cluster, resource, rows>>,
           \A v \in Workflows : at'["started"][v] \in {at["started"][v], "none"},
           cluster[w] # "pending",
           entry = "end" => "start" \in events[w] /\ cluster[w] \in {"completed", "gone"}
    PROVE  (\A v \in Workflows : Ordered(v)') /\ [Life!Next]_(Life!vars)
<1>1. /\ events'[w] = events[w] \cup {entry}
      /\ \A v \in Workflows \ {w} : events'[v] = events[v]
  BY DEF LifeInv, WasteInv, Inv, TypeOK
<1>2. \A v \in Workflows : Ordered(v)'
  BY <1>1, HistoryOf DEF Ordered
<1>3. /\ Recorded(w)' = Recorded(w) \cup {entry} /\ entry \in All
      /\ \A v \in Workflows \ {w} : Recorded(v)' = Recorded(v)
  BY <1>1 DEF Recorded, All
<1>4. CASE entry \in events[w]
  <2>1. entry \in Recorded(w)
    BY <1>4 DEF Recorded
  <2> QED  BY <1>2, <1>3, <2>1, LifeRecords
<1>5. CASE entry \notin events[w]
  <2>1. cluster[w] # "gone"
    BY <1>5, HistoryOf DEF Complete
  <2>2. cluster[w] = "completed" \/ (cluster[w] = "running" /\ entry = "start")
    BY <2>1, HistoryOf
  <2>3. Recorded(w) = Life!Before(entry)
    BY <1>5, HistoryOf DEF Ordered, Recorded, Life!Before
  <2> QED  BY <1>2, <1>3, <2>2, <2>3, LifeRecords
<1> QED  BY <1>2, <1>4, <1>5

\* A step of wfDone takes no started event away from where it is.
LEMMA StartedStays ==
    ASSUME LifeInv, NEW w \in Workflows, NEW to \in Position, NEW left,
           Proceed(w, to, left) \/ Retry(w)
    PROVE  \A v \in Workflows : at'["started"][v] = at["started"][v]
<1>1. \E t \in Position : Move("completed", w, t)
  BY DEF Proceed, Retry, Position
<1> QED  BY <1>1, MoveType DEF LifeInv, WasteInv, Inv, Kind

LEMMA EventLife ==
    ASSUME LifeInv, NEW w \in Workflows,
           WfStart(w) \/ InsertStartEvent(w) \/ InsertEndEvent(w)
    PROVE  (\A v \in Workflows : Ordered(v)') /\ [Life!Next]_(Life!vars)
<1>1. CASE WfStart(w)
  <2>1. /\ at["started"][w] = "insert" /\ Move("started", w, "none")
        /\ UNCHANGED <<cluster, resource, rows>>
        /\ events' = [events EXCEPT ![w] = @ \cup {"start"}] \/ events' = events
    BY <1>1 DEF WfStart
  <2>2. \A v \in Workflows : at'["started"][v] \in {at["started"][v], "none"}
    BY <2>1, MoveType DEF LifeInv, WasteInv, Inv, Kind, Position
  <2>3. cluster[w] # "pending"
    BY <2>1, HistoryOf DEF Ordered
  <2>4. CASE events' = events
    <3>1. \A v \in Workflows : Ordered(v)'
      BY <2>1, <2>2, <2>4, OrderedKept
    <3>2. \A v \in Workflows : Recorded(v)' = Recorded(v) /\ Answers(v)' = Answers(v)
      BY <2>1, <2>4 DEF Recorded, Answers, Answered, RowsFor
    <3> QED  BY <2>1, <3>1, <3>2, LifeStays
  <2>5. CASE events' = [events EXCEPT ![w] = @ \cup {"start"}]
    BY <2>1, <2>2, <2>3, <2>5, InsertLife
  <2> QED  BY <2>1, <2>4, <2>5
<1>2. CASE InsertStartEvent(w)
  <2>1. /\ at["completed"][w] = "start"
        /\ events' = [events EXCEPT ![w] = @ \cup {"start"}]
        /\ Proceed(w, "end", {}) \/ Retry(w)
        /\ UNCHANGED <<cluster, resource, rows>>
    BY <1>2 DEF InsertStartEvent, InsertEvent, Reply
  <2>2. "end" \in Position
    BY DEF Position, Working, InTx
  <2>3. cluster[w] # "pending"
    BY <2>1, HistoryOf DEF Idle
  <2> QED  BY <2>1, <2>2, <2>3, StartedStays, InsertLife
<1>3. CASE InsertEndEvent(w)
  <2>1. /\ at["completed"][w] = "end"
        /\ events' = [events EXCEPT ![w] = @ \cup {"end"}]
        /\ Proceed(w, "resource", {}) \/ Retry(w)
        /\ UNCHANGED <<cluster, resource, rows>>
    BY <1>3 DEF InsertEndEvent, InsertEvent, Reply
  <2>2. "resource" \in Position
    BY DEF Position, Working, InTx
  <2>3. cluster[w] \in {"completed", "gone"} /\ "start" \in events[w]
    BY <2>1, HistoryOf DEF Idle, Progress, InTx
  <2> QED  BY <2>1, <2>2, <2>3, StartedStays, InsertLife
<1> QED  BY <1>1, <1>2, <1>3

LEMMA PutLife ==
    ASSUME LifeInv, NEW w \in Workflows, PutWorkflowResource(w)
    PROVE  (\A v \in Workflows : Ordered(v)') /\ [Life!Next]_(Life!vars)
<1> DEFINE to == IF CallbacksOf[w] = {} THEN "delete" ELSE "inputs"
<1>1. /\ at["completed"][w] = "resource" /\ resource' = resource \cup {w}
      /\ Proceed(w, to, {}) \/ Retry(w)
      /\ UNCHANGED <<cluster, events, rows>>
  BY DEF PutWorkflowResource, Reply
<1>2. to \in Position
  BY DEF Position, Working, InTx
<1> HIDE DEF to
<1>3. \A v \in Workflows : at'["started"][v] = at["started"][v]
  BY <1>1, <1>2, StartedStays
<1>4. cluster[w] \in {"completed", "gone"} /\ "start" \in events[w] /\ "end" \in events[w]
  BY <1>1, HistoryOf DEF Idle, Progress, InTx
<1>5. \A v \in Workflows : Ordered(v)'
  BY <1>1, <1>3, <1>4, HistoryOf DEF Ordered
<1>6. /\ Recorded(w)' = Recorded(w) \cup {"resource"} /\ "resource" \in All
      /\ \A v \in Workflows \ {w} : Recorded(v)' = Recorded(v)
  BY <1>1 DEF Recorded, All
<1>7. CASE w \in resource
  <2>1. "resource" \in Recorded(w)
    BY <1>7 DEF Recorded
  <2> QED  BY <1>1, <1>5, <1>6, <2>1, LifeRecords
<1>8. CASE w \notin resource
  <2>1. cluster[w] = "completed"
    BY <1>4, <1>8, HistoryOf DEF Complete
  <2>2. Recorded(w) = Life!Before("resource")
    BY <1>4, <1>8, HistoryOf DEF Recorded, Life!Before
  <2> QED  BY <1>1, <1>5, <1>6, <2>1, <2>2, LifeRecords
<1> QED  BY <1>5, <1>7, <1>8

\* Callback actions change, and nothing else that is stored.
LEMMA AnswerLife ==
    ASSUME LifeInv, NEW w \in Workflows, NEW i \in Item,
           UNCHANGED <<cluster, events, resource>>,
           \A v \in Workflows \ {w} : rows'[v] = rows[v],
           Answers(w)' = Answers(w) \cup ({i} \cap Items(w)) \/ Answers(w)' = Answers(w),
           cluster[w] \in {"completed", "gone"}, w \in resource
    PROVE  [Life!Next]_(Life!vars)
<1>1. \A v \in Workflows : Recorded(v)' = Recorded(v)
  BY DEF Recorded
<1>2. \A v \in Workflows \ {w} : Answers(v)' = Answers(v)
  BY DEF Answers, Answered, RowsFor
<1>3. CASE Answers(w)' = Answers(w)
  BY <1>1, <1>2, <1>3, LifeStays
<1>4. CASE Answers(w)' # Answers(w)
  <2>1. /\ i \in Items(w) \ Answers(w)
        /\ Answers(w)' = Answers(w) \cup {i}
    BY <1>4
  <2>2. cluster[w] = "completed"
    BY <2>1, HistoryOf DEF Complete, Answers
  <2>3. Recorded(w) = {"start", "end", "resource"}
    BY HistoryOf DEF Ordered, Recorded
  <2>4. [v \in Workflows |-> Answers(v)']
           = [[v \in Workflows |-> Answers(v)] EXCEPT ![w] = @ \cup {i}]
    BY <1>2, <2>1
  <2>5. /\ [v \in Workflows |-> Recorded(v)'] = [v \in Workflows |-> Recorded(v)]
        /\ [v \in Workflows |-> Recorded(v)][w] = Recorded(w)
        /\ [v \in Workflows |-> Answers(v)][w] = Answers(w)
        /\ [v \in Workflows |-> Items(v)][w] = Items(w)
    BY <1>1
  <2>6. Life!Answer(w)
    BY <2>1, <2>2, <2>3, <2>4, <2>5 DEF Life!Answer, Recorded, Answers
  <2> QED  BY <2>6 DEF Life!Next
<1> QED  BY <1>3, <1>4

LEMMA MakeLife ==
    ASSUME LifeInv, NEW w \in Workflows, MakeCallback(w)
    PROVE  (\A v \in Workflows : Ordered(v)') /\ [Life!Next]_(Life!vars)
<1>0. TypeOKCallbacks /\ todo[w] \in SUBSET Item
  BY DEF LifeInv, WasteInv, Inv, TypeOK, TypeOKCallbacks
<1>1. PICK i \in Item : InsertCallback(w, i)
  BY <1>0 DEF MakeCallback, Due
<1>2. /\ Proceed(w, "params", todo[w]) \/ Retry(w)
      /\ at["completed"][w] = "items" /\ "params" \in Position
      /\ UNCHANGED <<cluster, events, resource>>
  BY DEF MakeCallback, Reply, Position, Working, InTx
<1>3. \A v \in Workflows : at'["started"][v] = at["started"][v]
  BY <1>2, StartedStays
<1>4. \A v \in Workflows : Ordered(v)'
  BY <1>2, <1>3, OrderedKept
<1>5. /\ \A v \in Workflows \ {w} : rows'[v] = rows[v]
      /\ \A j \in Item : Answered(w, j) => Answered(w, j)'
  BY <1>0, <1>1, InsertKeeps
<1>6. \A j \in Item : Answered(w, j)' => Answered(w, j)
  <2> DEFINE new == [item |-> i, state |-> "waiting"]
             last == Len(rows[w]) + 1
  <2>1. rows'[w] = Append(rows[w], new) /\ rows[w] \in Seq(RowType) /\ new \in RowType
    BY <1>0, <1>1 DEF TypeOKCallbacks, InsertCallback, RowType, RowState
  <2>2. /\ DOMAIN rows'[w] = DOMAIN rows[w] \cup {last}
        /\ rows'[w][last] = new
        /\ \A n \in DOMAIN rows[w] : rows'[w][n] = rows[w][n]
    <3> HIDE DEF new
    <3> QED  BY <2>1
  <2>3. new.state = "waiting"
    OBVIOUS
  <2> HIDE DEF new, last
  <2> QED  BY <2>2, <2>3 DEF Answered, RowsFor
<1>7. Answers(w)' = Answers(w)
  BY <1>5, <1>6, ItemsType DEF Answers
<1>8. cluster[w] \in {"completed", "gone"} /\ w \in resource
  BY <1>2, HistoryOf DEF Idle, Progress, InTx
<1> QED  BY <1>2, <1>4, <1>5, <1>7, <1>8, AnswerLife

LEMMA SettleLife ==
    ASSUME LifeInv, NEW w \in Workflows, SettleCallback(w)
    PROVE  (\A v \in Workflows : Ordered(v)') /\ [Life!Next]_(Life!vars)
<1>0. PICK i : i = Last(w).item
  OBVIOUS
<1> DEFINE left == todo[w] \ {i}
           to == IF left = {} THEN "delete" ELSE "items"
<1>1. /\ Proceed(w, to, left) \/ Retry(w)
      /\ at["completed"][w] = "params" /\ PutOrFail(w)
      /\ UNCHANGED <<cluster, events, resource>>
  BY <1>0 DEF SettleCallback, Reply
<1>2. to \in Position
  BY DEF Position, Working, InTx
<1>3. TypeOKCallbacks /\ rows[w] # <<>> /\ Last(w).state = "waiting"
  BY <1>1, HistoryOf DEF Progress, LifeInv, WasteInv, Inv, TypeOK
<1>4. i \in Item
  BY <1>0, <1>3, LastType
<1>5. /\ \A v \in Workflows \ {w} : rows'[v] = rows[v]
      /\ \A j \in Item : Answered(w, j) => Answered(w, j)'
      /\ Answered(w, i)'
  BY <1>0, <1>1, <1>3, SettleKeeps
<1>6. \A j \in Item \ {i} : Answered(w, j)' => Answered(w, j)
  <2> DEFINE last == Len(rows[w])
             state == IF Fatal(w, i) THEN "failed" ELSE "ready"
             new == [rows[w][last] EXCEPT !.state = state]
  <2>1. rows[w] \in Seq(RowType) /\ last \in DOMAIN rows[w] /\ rows[w][last] \in RowType
    BY <1>3, LastType DEF TypeOKCallbacks, RowType, Last
  <2>2. new.item = i
    BY <1>0, <2>1 DEF RowType, Last
  <2>3. rows'[w] = [rows[w] EXCEPT ![last] = new]
    BY <1>0, <1>1, <1>3 DEF PutOrFail, SettleLast, TypeOKCallbacks
  <2> HIDE DEF new, last
  <2>4. /\ DOMAIN rows'[w] = DOMAIN rows[w] /\ rows'[w][last] = new
        /\ \A n \in DOMAIN rows[w] \ {last} : rows'[w][n] = rows[w][n]
    BY <2>1, <2>3
  <2> QED  BY <2>2, <2>4 DEF Answered, RowsFor
<1> HIDE DEF left, to
<1>7. Answers(w)' = Answers(w) \cup ({i} \cap Items(w))
  BY <1>4, <1>5, <1>6, ItemsType DEF Answers
<1>8. \A v \in Workflows : at'["started"][v] = at["started"][v]
  BY <1>1, <1>2, StartedStays
<1>9. \A v \in Workflows : Ordered(v)'
  BY <1>1, <1>8, OrderedKept
<1>10. cluster[w] \in {"completed", "gone"} /\ w \in resource
  BY <1>1, HistoryOf DEF Idle, Progress, InTx
<1> QED  BY <1>1, <1>4, <1>5, <1>7, <1>9, <1>10, AnswerLife

LEMMA DeleteLife ==
    ASSUME LifeInv, NEW w \in Workflows, DeleteWorkflow(w)
    PROVE  (\A v \in Workflows : Ordered(v)') /\ [Life!Next]_(Life!vars)
<1>1. /\ at["completed"][w] = "delete" /\ cluster' = [cluster EXCEPT ![w] = "gone"]
      /\ Proceed(w, "commit", {}) \/ Retry(w)
      /\ UNCHANGED <<events, resource, rows>> /\ "commit" \in Position
  BY DEF DeleteWorkflow, Reply, Position, Working, InTx
<1>2. \A v \in Workflows : at'["started"][v] = at["started"][v]
  BY <1>1, StartedStays
<1>3. cluster \in [Workflows -> {"pending", "running", "completed", "gone"}]
  BY DEF LifeInv, WasteInv, Inv, TypeOK
<1>4. \A v \in Workflows : cluster'[v] = IF v = w THEN "gone" ELSE cluster[v]
  BY <1>1, <1>3
<1>5. \A v \in Workflows : Ordered(v)'
  BY <1>1, <1>2, <1>4, OrderedKept
<1>6. \A v \in Workflows : Recorded(v)' = Recorded(v) /\ Answers(v)' = Answers(v)
  BY <1>1 DEF Recorded, Answers, Answered, RowsFor
<1>7. /\ cluster[w] \in {"completed", "gone"}
      /\ Recorded(w) = {"start", "end", "resource"} /\ Answers(w) = Items(w)
  BY <1>1, HistoryOf DEF Idle, Progress, InTx, Recorded, Answers
<1>8. CASE cluster[w] = "gone"
  <2>1. cluster' = cluster
    BY <1>1, <1>3, <1>8
  <2> QED  BY <1>5, <1>6, <2>1, LifeStays
<1>9. CASE cluster[w] = "completed"
  <2>1. /\ [v \in Workflows |-> Recorded(v)'] = [v \in Workflows |-> Recorded(v)]
        /\ [v \in Workflows |-> Answers(v)'] = [v \in Workflows |-> Answers(v)]
        /\ [v \in Workflows |-> Recorded(v)][w] = Recorded(w)
        /\ [v \in Workflows |-> Answers(v)][w] = Answers(w)
        /\ [v \in Workflows |-> Items(v)][w] = Items(w)
    BY <1>6
  <2>2. Life!Remove(w)
    BY <1>1, <1>7, <1>9, <2>1 DEF Life!Remove, Recorded, Answers
  <2> QED  BY <1>5, <2>2 DEF Life!Next
<1> QED  BY <1>7, <1>8, <1>9

LEMMA AdvanceLife ==
    ASSUME LifeInv, NEW w \in Workflows, WorkflowRuns(w) \/ WorkflowCompletes(w)
    PROVE  (\A v \in Workflows : Ordered(v)') /\ [Life!Next]_(Life!vars)
<1>1. PICK from \in {"pending", "running"}, to \in {"running", "completed"}, k \in Kind :
         Advance(w, from, to, k) /\ (to = "running" => from = "pending")
  BY DEF WorkflowRuns, WorkflowCompletes, Kind
<1>2. /\ cluster[w] = from /\ cluster' = [cluster EXCEPT ![w] = to]
      /\ Move(k, w, "queued") \/ UNCHANGED at
      /\ UNCHANGED <<events, resource, rows>> /\ "queued" \in Position
  BY <1>1 DEF Advance, Position
<1>3. TypeOK
  BY DEF LifeInv, WasteInv, Inv
<1>4. \A v \in Workflows : cluster'[v] = IF v = w THEN to ELSE cluster[v]
  BY <1>2, <1>3 DEF TypeOK
<1>5. \A v \in Workflows \ {w} : at'["started"][v] = at["started"][v]
  BY <1>2, <1>3, MoveType DEF Kind
<1>6. \A v \in Workflows : Ordered(v)'
  <2>1. Ordered(w)'
    BY <1>1, <1>2, <1>4, OrderedKept
  <2>2. ASSUME NEW v \in Workflows \ {w} PROVE Ordered(v)'
    BY <1>2, <1>4, <1>5, <2>2, OrderedKept
  <2> QED  BY <2>1, <2>2
<1>7. \A v \in Workflows : Recorded(v)' = Recorded(v) /\ Answers(v)' = Answers(v)
  BY <1>2 DEF Recorded, Answers, Answered, RowsFor
<1>8. /\ [v \in Workflows |-> Recorded(v)'] = [v \in Workflows |-> Recorded(v)]
      /\ [v \in Workflows |-> Answers(v)'] = [v \in Workflows |-> Answers(v)]
  BY <1>7
<1>9. Life!Run(w) \/ Life!Complete(w)
  BY <1>1, <1>2, <1>8 DEF Life!Run, Life!Complete, Recorded, Answers
<1> QED  BY <1>6, <1>9 DEF Life!Next

LEMMA UnseenLife ==
    ASSUME LifeInv, Unseen
    PROVE  (\A v \in Workflows : Ordered(v)') /\ [Life!Next]_(Life!vars)
<1>1. UNCHANGED <<cluster, events, resource, rows>>
  BY UnseenLeaves
<1>2. \A v \in Workflows : Recorded(v)' = Recorded(v) /\ Answers(v)' = Answers(v)
  BY <1>1 DEF Recorded, Answers, Answered, RowsFor
<1>3. ASSUME NEW v \in Workflows
      PROVE  at'["started"][v] \in {at["started"][v], "none"} \/ cluster'[v] # "pending"
  <2>0. TypeOK
    BY DEF LifeInv, WasteInv, Inv
  <2>1. CASE Launch \/ StartWorker \/ WorkerStops \/ UNCHANGED vars
    BY <2>1 DEF Launch, StartWorker, WorkerStops, vars, cabooseVars
  <2>2. CASE Stop \/ WaitReturns \/ Crash
    <3>1. CASE Ends
      BY <3>1 DEF Ends, Kind
    <3>2. CASE UNCHANGED at
      BY <3>2
    <3> QED  BY <2>2, <3>1, <3>2 DEF Stop, WaitReturns, Crash
  <2>3. CASE Sync
    <3>1. at'["started"][v] = IF cluster[v] = "running" THEN "queued" ELSE "none"
      BY <2>0, <2>3 DEF Sync, TypeOK, Kind
    <3> QED  BY <1>1, <3>1
  <2>4. ASSUME NEW w \in Workflows,
               Begin(w) \/ GetInputs(w) \/ StepFails(w) \/ Commit(w) \/ BackoffEnds(w)
        PROVE  at'["started"][v] = at["started"][v]
    <3>1. \E to \in Position : Move("completed", w, to)
      BY <2>4 DEF Begin, GetInputs, StepFails, Commit, BackoffEnds, Proceed, Retry,
                  Position, Working, InTx
    <3> QED  BY <3>1, MoveType DEF LifeInv, WasteInv, Inv, Kind
  <2>5. ASSUME NEW w \in Workflows, NEW k \in Kind, EventStep(k, w)
        PROVE  at'["started"][v] = at["started"][v] \/ cluster'[v] # "pending"
    <3>1. \E to \in Position : Move(k, w, to) /\ at[k][w] # "none"
      BY <2>5 DEF EventStep, Handle, NewWorkflowEvent, Receive, Position, Working
    <3> QED  BY <1>1, <3>1, MoveType, HistoryOf DEF Ordered, LifeInv, WasteInv, Inv, Kind
  <2> QED  BY <2>1, <2>2, <2>3, <2>4, <2>5 DEF Unseen
<1>4. \A v \in Workflows : Ordered(v)'
  BY <1>1, <1>3, OrderedKept
<1> QED  BY <1>1, <1>2, <1>4, LifeStays

LEMMA LifeStep == LifeInv /\ [Next]_vars => LifeInv' /\ [Life!Next]_(Life!vars)
<1> SUFFICES ASSUME LifeInv, [Next]_vars
             PROVE  LifeInv' /\ [Life!Next]_(Life!vars)
  OBVIOUS
<1>1. (\A v \in Workflows : Ordered(v)') /\ [Life!Next]_(Life!vars)
  <2>1. CASE Unseen
    BY <2>1, UnseenLife
  <2>2. ASSUME NEW w \in Workflows, WorkflowRuns(w) \/ WorkflowCompletes(w)
        PROVE  (\A v \in Workflows : Ordered(v)') /\ [Life!Next]_(Life!vars)
    BY <2>2, AdvanceLife
  <2>3. ASSUME NEW w \in Workflows, WfStart(w) \/ InsertStartEvent(w) \/ InsertEndEvent(w)
        PROVE  (\A v \in Workflows : Ordered(v)') /\ [Life!Next]_(Life!vars)
    BY <2>3, EventLife
  <2>4. ASSUME NEW w \in Workflows,
               \/ PutWorkflowResource(w) \/ MakeCallback(w) \/ SettleCallback(w)
               \/ DeleteWorkflow(w)
        PROVE  (\A v \in Workflows : Ordered(v)') /\ [Life!Next]_(Life!vars)
    BY <2>4, PutLife, MakeLife, SettleLife, DeleteLife
  <2> QED  BY <2>1, <2>2, <2>3, <2>4 DEF Next, WfDone, Unseen
<1>2. WasteInv'
  BY WasteStep DEF LifeInv
<1> QED  BY <1>1, <1>2 DEF LifeInv

LEMMA LifeInit == Init => LifeInv /\ Life!Init
<1> SUFFICES ASSUME Init PROVE LifeInv /\ Life!Init
  OBVIOUS
<1>1. \A w \in Workflows : events[w] = {} /\ w \notin resource /\ at["started"][w] = "none"
  BY DEF Init, Kind
<1>2. \A w \in Workflows : Recorded(w) = {}
  BY <1>1 DEF Recorded
<1>3. \A w \in Workflows : Answers(w) = {}
  BY DEF Init, InitCallbacks, Answers, Answered, RowsFor
<1>4. Life!Init
  BY <1>2, <1>3 DEF Init, Life!Init, Recorded, Answers
<1>5. LifeInv
  BY <1>1, WasteInit DEF LifeInv, Ordered
<1> QED  BY <1>4, <1>5

\* The caboose leaves every workflow the history it is to have: start, end and
\* resource in that order, then its callback actions, each once, and only then
\* is it gone; no retry, late event, crash or restart adds to it.
THEOREM WorkflowLifeImplemented == Spec => ImplementsWorkflowLife
BY LifeInit, LifeStep, PTL DEF Spec, ImplementsWorkflowLife, Life!Spec

-----------------------------------------------------------------------------
(* The pause before a retry.  Powers of two are evaluated, one by one.      *)

Bit(n, k) == (n \div 2^k) % 2 = 1

LEMMA BitsAreBits == \A n : Bits(n) = {k \in 0 .. 30 : Bit(n, k)}
BY SMT DEF Bits, Bit

LEMMA Places ==
    0 .. 30 = {0, 1, 2, 3, 4, 5, 6, 7, 8, 9, 10, 11, 12, 13, 14, 15,
               16, 17, 18, 19, 20, 21, 22, 23, 24, 25, 26, 27, 28, 29, 30}
BY SMT

\* 5^9 has 21 bits.
LEMMA FiveBits == Bits(1953125) = {0, 2, 5, 6, 8, 10, 11, 14, 15, 16, 18, 19, 20}
<1> DEFINE digits(n) ==
             /\ Bit(n, 0) /\ ~Bit(n, 1) /\ Bit(n, 2) /\ ~Bit(n, 3) /\ ~Bit(n, 4)
             /\ Bit(n, 5) /\ Bit(n, 6) /\ ~Bit(n, 7) /\ Bit(n, 8) /\ ~Bit(n, 9)
             /\ Bit(n, 10) /\ Bit(n, 11) /\ ~Bit(n, 12) /\ ~Bit(n, 13) /\ Bit(n, 14)
             /\ Bit(n, 15) /\ Bit(n, 16) /\ ~Bit(n, 17) /\ Bit(n, 18) /\ Bit(n, 19)
             /\ Bit(n, 20) /\ ~Bit(n, 21) /\ ~Bit(n, 22) /\ ~Bit(n, 23) /\ ~Bit(n, 24)
             /\ ~Bit(n, 25) /\ ~Bit(n, 26) /\ ~Bit(n, 27) /\ ~Bit(n, 28) /\ ~Bit(n, 29)
             /\ ~Bit(n, 30)
<1>1. ASSUME NEW n, digits(n) PROVE Bits(n) = {0, 2, 5, 6, 8, 10, 11, 14, 15, 16, 18, 19, 20}
  BY SMT, <1>1, BitsAreBits, Places
<1>2. digits(1953125)
  BY SMT DEF Bit
<1> HIDE DEF digits
<1> QED  BY SMT, <1>1, <1>2

\* 75 * 5^9 has 28.
LEMMA SeventyFiveBits == Bits(146484375) = {0, 1, 2, 4, 7, 10, 11, 13, 16, 17, 19, 20, 21, 23, 27}
<1> DEFINE digits(n) ==
             /\ Bit(n, 0) /\ Bit(n, 1) /\ Bit(n, 2) /\ ~Bit(n, 3) /\ Bit(n, 4)
             /\ ~Bit(n, 5) /\ ~Bit(n, 6) /\ Bit(n, 7) /\ ~Bit(n, 8) /\ ~Bit(n, 9)
             /\ Bit(n, 10) /\ Bit(n, 11) /\ ~Bit(n, 12) /\ Bit(n, 13) /\ ~Bit(n, 14)
             /\ ~Bit(n, 15) /\ Bit(n, 16) /\ Bit(n, 17) /\ ~Bit(n, 18) /\ Bit(n, 19)
             /\ Bit(n, 20) /\ Bit(n, 21) /\ ~Bit(n, 22) /\ Bit(n, 23) /\ ~Bit(n, 24)
             /\ ~Bit(n, 25) /\ ~Bit(n, 26) /\ Bit(n, 27) /\ ~Bit(n, 28) /\ ~Bit(n, 29)
             /\ ~Bit(n, 30)
<1>1. ASSUME NEW n, digits(n) PROVE Bits(n) = {0, 1, 2, 4, 7, 10, 11, 13, 16, 17, 19, 20, 21, 23, 27}
  BY SMT, <1>1, BitsAreBits, Places
<1>2. digits(146484375)
  BY SMT DEF Bit
<1> HIDE DEF digits
<1> QED  BY SMT, <1>1, <1>2

\* Doubling moves the bits up.
LEMMA BitsDouble ==
    ASSUME NEW n \in Nat, n < 1073741824
    PROVE  Bits(2 * n) = {i + 1 : i \in Bits(n)}
<1>1. /\ (Bit(2 * n, 1) <=> Bit(n, 0)) /\ (Bit(2 * n, 2) <=> Bit(n, 1))
      /\ (Bit(2 * n, 3) <=> Bit(n, 2)) /\ (Bit(2 * n, 4) <=> Bit(n, 3))
      /\ (Bit(2 * n, 5) <=> Bit(n, 4)) /\ (Bit(2 * n, 6) <=> Bit(n, 5))
      /\ (Bit(2 * n, 7) <=> Bit(n, 6)) /\ (Bit(2 * n, 8) <=> Bit(n, 7))
      /\ (Bit(2 * n, 9) <=> Bit(n, 8)) /\ (Bit(2 * n, 10) <=> Bit(n, 9))
      /\ (Bit(2 * n, 11) <=> Bit(n, 10)) /\ (Bit(2 * n, 12) <=> Bit(n, 11))
      /\ (Bit(2 * n, 13) <=> Bit(n, 12)) /\ (Bit(2 * n, 14) <=> Bit(n, 13))
      /\ (Bit(2 * n, 15) <=> Bit(n, 14)) /\ (Bit(2 * n, 16) <=> Bit(n, 15))
      /\ (Bit(2 * n, 17) <=> Bit(n, 16)) /\ (Bit(2 * n, 18) <=> Bit(n, 17))
      /\ (Bit(2 * n, 19) <=> Bit(n, 18)) /\ (Bit(2 * n, 20) <=> Bit(n, 19))
      /\ (Bit(2 * n, 21) <=> Bit(n, 20)) /\ (Bit(2 * n, 22) <=> Bit(n, 21))
      /\ (Bit(2 * n, 23) <=> Bit(n, 22)) /\ (Bit(2 * n, 24) <=> Bit(n, 23))
      /\ (Bit(2 * n, 25) <=> Bit(n, 24)) /\ (Bit(2 * n, 26) <=> Bit(n, 25))
      /\ (Bit(2 * n, 27) <=> Bit(n, 26)) /\ (Bit(2 * n, 28) <=> Bit(n, 27))
      /\ (Bit(2 * n, 29) <=> Bit(n, 28)) /\ (Bit(2 * n, 30) <=> Bit(n, 29))
  BY SMT DEF Bit
<1>2. \A k \in 0 .. 30 \ {30} : Bit(2 * n, k + 1) <=> Bit(n, k)
  BY SMT, <1>1, Places
<1>3. ~Bit(2 * n, 0) /\ ~Bit(n, 30)
  BY SMT DEF Bit
<1> QED  BY SMT, <1>2, <1>3, BitsAreBits

\* Two seconds, and any number of seconds, in units of 2^10 and of 2^9 nanoseconds.
Five == Bits(1953125)
Fives(n) == n * 1953125

LEMMA BitsDoubled ==
    ASSUME NEW r \in 1 .. 8
    PROVE  Bits(Fives(2^r)) = {i + r : i \in Five}
<1>0. Five \in SUBSET Nat
  BY SMT DEF Bits, Five
<1>1. Bits(3906250) = {i + 1 : i \in Five}
  <2>1. Bits(2 * 1953125) = {i + 1 : i \in Five}
    BY SMT, BitsDouble DEF Five
  <2> QED  BY SMT, <2>1
<1>2. Bits(7812500) = {i + 2 : i \in Five}
  <2>1. Bits(2 * 3906250) = {i + 1 : i \in Bits(3906250)}
    BY SMT, BitsDouble
  <2> QED  BY SMT, <1>0, <1>1, <2>1
<1>3. Bits(15625000) = {i + 3 : i \in Five}
  <2>1. Bits(2 * 7812500) = {i + 1 : i \in Bits(7812500)}
    BY SMT, BitsDouble
  <2> QED  BY SMT, <1>0, <1>2, <2>1
<1>4. Bits(31250000) = {i + 4 : i \in Five}
  <2>1. Bits(2 * 15625000) = {i + 1 : i \in Bits(15625000)}
    BY SMT, BitsDouble
  <2> QED  BY SMT, <1>0, <1>3, <2>1
<1>5. Bits(62500000) = {i + 5 : i \in Five}
  <2>1. Bits(2 * 31250000) = {i + 1 : i \in Bits(31250000)}
    BY SMT, BitsDouble
  <2> QED  BY SMT, <1>0, <1>4, <2>1
<1>6. Bits(125000000) = {i + 6 : i \in Five}
  <2>1. Bits(2 * 62500000) = {i + 1 : i \in Bits(62500000)}
    BY SMT, BitsDouble
  <2> QED  BY SMT, <1>0, <1>5, <2>1
<1>7. Bits(250000000) = {i + 7 : i \in Five}
  <2>1. Bits(2 * 125000000) = {i + 1 : i \in Bits(125000000)}
    BY SMT, BitsDouble
  <2> QED  BY SMT, <1>0, <1>6, <2>1
<1>8. Bits(500000000) = {i + 8 : i \in Five}
  <2>1. Bits(2 * 250000000) = {i + 1 : i \in Bits(250000000)}
    BY SMT, BitsDouble
  <2> QED  BY SMT, <1>0, <1>7, <2>1
<1>9. Five = Bits(1953125)
  BY SMT DEF Five
<1>10. CASE r = 1
  <2>1. Fives(2^r) = 3906250
    BY SMT, <1>10 DEF Fives
  <2> QED  BY SMT, <1>1, <1>9, <1>10, <2>1
<1>11. CASE r = 2
  <2>1. Fives(2^r) = 7812500
    BY SMT, <1>11 DEF Fives
  <2> QED  BY SMT, <1>2, <1>9, <1>11, <2>1
<1>12. CASE r = 3
  <2>1. Fives(2^r) = 15625000
    BY SMT, <1>12 DEF Fives
  <2> QED  BY SMT, <1>3, <1>9, <1>12, <2>1
<1>13. CASE r = 4
  <2>1. Fives(2^r) = 31250000
    BY SMT, <1>13 DEF Fives
  <2> QED  BY SMT, <1>4, <1>9, <1>13, <2>1
<1>14. CASE r = 5
  <2>1. Fives(2^r) = 62500000
    BY SMT, <1>14 DEF Fives
  <2> QED  BY SMT, <1>5, <1>9, <1>14, <2>1
<1>15. CASE r = 6
  <2>1. Fives(2^r) = 125000000
    BY SMT, <1>15 DEF Fives
  <2> QED  BY SMT, <1>6, <1>9, <1>15, <2>1
<1>16. CASE r = 7
  <2>1. Fives(2^r) = 250000000
    BY SMT, <1>16 DEF Fives
  <2> QED  BY SMT, <1>7, <1>9, <1>16, <2>1
<1>17. CASE r = 8
  <2>1. Fives(2^r) = 500000000
    BY SMT, <1>17 DEF Fives
  <2> QED  BY SMT, <1>8, <1>9, <1>17, <2>1
<1> QED  BY SMT, <1>10, <1>11, <1>12, <1>13, <1>14, <1>15, <1>16, <1>17

\* Five minutes, in seconds and in units of 2^11.
LEMMA FiveMinutes == Bits(300 * 1953125) = {2, 3, 4, 6, 9, 12, 13, 15, 18, 19, 21, 22, 23, 25, 29}
<1>1. Bits(2 * 146484375) = {i + 1 : i \in Bits(146484375)}
  BY SMT, BitsDouble
<1>2. Bits(2 * 292968750) = {i + 1 : i \in Bits(292968750)}
  BY SMT, BitsDouble
<1>3. Bits(292968750) = {1, 2, 3, 5, 8, 11, 12, 14, 17, 18, 20, 21, 22, 24, 28}
  BY SMT, <1>1, SeventyFiveBits
<1> QED  BY SMT, <1>2, <1>3

\* Of two words without a sign the one is greater that has the highest of the
\* bits in which they differ.
LEMMA GreaterIs ==
    ASSUME NEW a \in SUBSET Word, NEW b \in SUBSET Word, ~Negative(a), ~Negative(b),
           NEW n \in a \ b, \A i \in (a \ b) \cup (b \ a) : i <= n
    PROVE  Greater(a, b) /\ ~Greater(b, a)
<1>1. Max((a \ b) \cup (b \ a)) = n /\ Max((b \ a) \cup (a \ b)) = n
  <2>1. ASSUME NEW S \in SUBSET Word, n \in S, \A i \in S : i <= n
        PROVE  Max(S) = n
    <3>1. \A m \in S : (\A i \in S : m >= i) => m = n
      BY <2>1 DEF Word
    <3>2. \E m \in S : \A i \in S : m >= i
      BY <2>1 DEF Word
    <3> QED  BY <3>1, <3>2 DEF Max
  <2> QED  BY <2>1
<1>2. (a \ b) \cup (b \ a) # {} /\ n \notin b
  OBVIOUS
<1>3. 63 \notin a /\ 63 \notin b
  BY DEF Negative
<1> QED  BY <1>1, <1>2, <1>3 DEF Greater, Negative

LEMMA MaxBackoffIs ==
    /\ maxBackoff \in SUBSET Word /\ ~Negative(maxBackoff)
    /\ 38 \in maxBackoff /\ 37 \notin maxBackoff /\ \A i \in maxBackoff : i <= 38
    /\ maxBackoff = Seconds(300)
<1>1. maxBackoff = {11, 12, 13, 15, 18, 21, 22, 24, 27, 28, 30, 31, 32, 34, 38}
  BY SMT, SeventyFiveBits DEF maxBackoff, Shift, Word
<1>2. Seconds(300) = {11, 12, 13, 15, 18, 21, 22, 24, 27, 28, 30, 31, 32, 34, 38}
  BY SMT, FiveMinutes DEF Seconds, Shift, Word
<1> QED  BY <1>1, <1>2 DEF Word, Negative

\* Two seconds times 2^m, as far as it fits.
Product(m) == {i + 10 + m : i \in Five} \cap Word

LEMMA FiveIs == Five = {0, 2, 5, 6, 8, 10, 11, 14, 15, 16, 18, 19, 20}
BY SMT, FiveBits DEF Five

LEMMA BackoffSecsIs ==
    ASSUME NEW m \in Nat
    PROVE  /\ Product(m) \in SUBSET Word
           /\ BackoffSecs(m) = IF Greater(Product(m), maxBackoff) THEN maxBackoff ELSE Product(m)
<1>1. minBackoff = {i + 10 : i \in Five}
  <2>1. minBackoff = {i + 10 : i \in Five} \cap Word
    BY SMT DEF minBackoff, Shift, Five
  <2>2. \A i \in Five : i + 10 \in Word
    BY FiveIs DEF Word
  <2> QED  BY <2>1, <2>2
<1>2. UNION {Shift(minBackoff, k) : k \in IntPow2(m)} = Product(m)
  <2>1. CASE m \in Word
    <3>1. IntPow2(m) = {m}
      BY <2>1 DEF IntPow2, Shift, Word
    <3>2. {i + m : i \in {j + 10 : j \in Five}} = {(i + 10) + m : i \in Five}
      OBVIOUS
    <3>3. Shift(minBackoff, m) = Product(m)
      BY <1>1, <3>2 DEF Shift, Product
    <3> QED  BY <3>1, <3>3
  <2>2. CASE m \notin Word
    <3>1. IntPow2(m) = {}
      BY <2>2 DEF IntPow2, Shift, Word
    <3>2. Product(m) = {}
      BY <2>2, FiveIs DEF Product, Word
    <3> QED  BY <3>1, <3>2
  <2> QED  BY <2>1, <2>2
<1> QED  BY <1>2 DEF BackoffSecs, Product

\* Below five minutes the product is the pause.
LEMMA EarlyPauses == ASSUME NEW m \in 0 .. 7 PROVE BackoffSecs(m) = Seconds(2^(m + 1))
<1>1. \A i \in Product(m) : i \in 0 .. 37
  BY FiveIs DEF Product
<1>2. ~Greater(Product(m), maxBackoff)
  <2>1. ~Negative(Product(m)) /\ 38 \notin Product(m)
    BY <1>1 DEF Negative
  <2>2. \A i \in (maxBackoff \ Product(m)) \cup (Product(m) \ maxBackoff) : i <= 38
    BY <1>1, MaxBackoffIs
  <2> QED  BY <2>1, <2>2, GreaterIs, MaxBackoffIs DEF Product
<1>3. Seconds(2^(m + 1)) = Product(m)
  <2>1. PICK r \in 1 .. 8 : r = m + 1
    OBVIOUS
  <2>2. Bits(2^r * 1953125) = {i + r : i \in Five}
    <3>1. Bits(Fives(2^r)) = {i + r : i \in Five}
      BY BitsDoubled
    <3> QED  BY SMT, <3>1 DEF Fives
  <2>3. Seconds(2^r) = {i + 9 : i \in {i + r : i \in Five}} \cap Word
    BY SMT, <2>2 DEF Seconds, Shift
  <2>4. \A i \in Five : i \in Nat
    BY FiveIs
  <2>5. {i + 9 : i \in {i + r : i \in Five}} = {i + 10 + m : i \in Five}
    <3>1. \A i \in Five : (i + r) + 9 = i + 10 + m
      BY <2>1, <2>4
    <3>2. {i + 9 : i \in {i + r : i \in Five}} = {(i + r) + 9 : i \in Five}
      OBVIOUS
    <3> QED  BY <3>1, <3>2
  <2> QED  BY <2>1, <2>3, <2>5 DEF Product
<1> QED  BY <1>2, <1>3, BackoffSecsIs

\* From there on it is five minutes, until the product needs the bit of the sign.
LEMMA LatePauses == ASSUME NEW m \in 8 .. 32 PROVE BackoffSecs(m) = maxBackoff
<1>1. /\ \A i \in Product(m) : i \in 10 + m .. 30 + m
      /\ 30 + m \in Product(m) /\ 29 + m \in Product(m)
  BY FiveIs DEF Product, Word
<1>2. ~Negative(Product(m)) /\ Product(m) \in SUBSET Word
  BY <1>1 DEF Negative, Product
<1>3. CASE m = 8
  <2>1. 37 \in Product(m) \ maxBackoff /\ 38 \in Product(m)
    BY <1>1, <1>3, MaxBackoffIs
  <2>2. \A i \in (Product(m) \ maxBackoff) \cup (maxBackoff \ Product(m)) : i <= 37
    BY <1>1, <1>3, <2>1, MaxBackoffIs DEF Word
  <2> QED  BY <1>2, <2>1, <2>2, GreaterIs, MaxBackoffIs, BackoffSecsIs
<1>4. CASE m # 8
  <2>1. 30 + m \in Product(m) \ maxBackoff
    BY <1>1, <1>4, MaxBackoffIs
  <2>2. \A i \in (Product(m) \ maxBackoff) \cup (maxBackoff \ Product(m)) : i <= 30 + m
    BY <1>1, MaxBackoffIs DEF Word
  <2> QED  BY <1>2, <2>1, <2>2, GreaterIs, MaxBackoffIs, BackoffSecsIs
<1> QED  BY <1>3, <1>4

LEMMA NeverLonger == \A m \in Nat : ~Greater(BackoffSecs(m), maxBackoff)
<1>1. ~Greater(maxBackoff, maxBackoff)
  BY DEF Greater
<1> QED  BY <1>1, BackoffSecsIs

\* The product of more than 53 doublings has no bit left.
LEMMA NoPause == ASSUME NEW m \in Nat, m >= 54 PROVE BackoffSecs(m) = {}
<1>1. Product(m) = {}
  BY FiveIs DEF Product, Word
<1>2. ~Greater({}, maxBackoff)
  BY GreaterIs, MaxBackoffIs DEF Negative, Word
<1> QED  BY <1>1, <1>2, BackoffSecsIs

RetriesAreCounted == retries \in Nat

LEMMA RetriesCounted == BackoffSpec => []RetriesAreCounted
<1>1. BackoffInit => RetriesAreCounted
  BY DEF BackoffInit, RetriesAreCounted
<1>2. RetriesAreCounted /\ [backoff]_backoffVars => RetriesAreCounted'
  BY DEF backoff, backoffVars, RetriesAreCounted
<1> QED  BY <1>1, <1>2, PTL DEF BackoffSpec

\* The pauses between the tries of a workflow double from two seconds to five
\* minutes, stay there until the 33rd, are never longer, and are nothing at all
\* after the 54th, for any number of tries.
THEOREM PausesKept == BackoffSpec => []PausesAreKept
<1>1. BackoffInit => PausesAreKept
  <2> SUFFICES ASSUME BackoffInit PROVE PausesAreKept
    OBVIOUS
  <2>1. retries = 0 /\ pause = {}
    BY DEF BackoffInit
  <2>2. BackoffSecs(54) = {}
    BY SMT, NoPause
  <2>3. ~Greater({}, maxBackoff)
    BY <2>2, NeverLonger
  <2> QED  BY <2>1, <2>3 DEF PausesAreKept
<1>2. RetriesAreCounted /\ PausesAreKept /\ [backoff]_backoffVars => PausesAreKept'
  <2> SUFFICES ASSUME RetriesAreCounted, PausesAreKept, [backoff]_backoffVars PROVE PausesAreKept'
    OBVIOUS
  <2>1. CASE backoff
    <3> DEFINE m == retries
    <3>1. m \in Nat /\ retries' = m + 1 /\ pause' = BackoffSecs(m)
      BY <2>1 DEF backoff, RetriesAreCounted
    <3>2. ASSUME retries' \in 1 .. 33
          PROVE  pause' = Seconds(IF retries' > 8 THEN 300 ELSE 2^retries')
      <4>1. CASE m \in 0 .. 7
        <5>1. BackoffSecs(m) = Seconds(2^(m + 1))
          BY <4>1, EarlyPauses
        <5>2. ~(retries' > 8)
          BY <3>1, <4>1
        <5> QED  BY <3>1, <5>1, <5>2
      <4>2. CASE m \in 8 .. 32
        <5>1. pause' = Seconds(300) /\ retries' > 8
          BY <3>1, <4>2, LatePauses, MaxBackoffIs
        <5> QED  BY <5>1
      <4> QED  BY <3>1, <3>2, <4>1, <4>2
    <3>3. ~Greater(pause', maxBackoff)
      BY <3>1, NeverLonger
    <3>4. retries' > 54 => pause' = {}
      BY <3>1, NoPause
    <3> QED  BY <3>2, <3>3, <3>4 DEF PausesAreKept
  <2>2. CASE UNCHANGED backoffVars
    BY <2>2 DEF backoffVars, PausesAreKept
  <2> QED  BY <2>1, <2>2
<1> QED  BY <1>1, <1>2, RetriesCounted, PTL DEF BackoffSpec
=============================================================================
