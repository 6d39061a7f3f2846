---------------------------- MODULE WorkflowLife ----------------------------
(***************************************************************************)
(* What the caboose promises about a workflow, whichever worker processes  *)
(* it, whatever fails on the way and however often it is tried again.  Its *)
(* history is written in order, each entry and each answer once, from what *)
(* the cluster has reached, and it leaves the cluster last.                *)
(***************************************************************************)
EXTENDS Naturals

CONSTANTS
    Workflows,
    Owed        \* the callback actions that each workflow has to have

VARIABLES
    cluster,
    recorded,   \* of each workflow, what of "start", "end", "resource" is stored
    answered    \* of each workflow, the callback actions it has

vars == <<cluster, recorded, answered>>

Init ==
    /\ cluster \in [Workflows -> {"pending", "completed"}]
    /\ recorded = [w \in Workflows |-> {}]
    /\ answered = [w \in Workflows |-> {}]

\* What has to be stored before an entry is.
Before(entry) ==
    CASE entry = "start" -> {}
      [] entry = "end" -> {"start"}
      [] entry = "resource" -> {"start", "end"}

Run(w) ==
    /\ cluster[w] = "pending"
    /\ cluster' = [cluster EXCEPT ![w] = "running"]
    /\ UNCHANGED <<recorded, answered>>

Complete(w) ==
    /\ cluster[w] \in {"pending", "running"}
    /\ cluster' = [cluster EXCEPT ![w] = "completed"]
    /\ UNCHANGED <<recorded, answered>>

Record(w, entry) ==
    /\ cluster[w] = "completed" \/ (cluster[w] = "running" /\ entry = "start")
    /\ recorded[w] = Before(entry)
    /\ recorded' = [recorded EXCEPT ![w] = @ \cup {entry}]
    /\ UNCHANGED <<cluster, answered>>

Answer(w) ==
    /\ cluster[w] = "completed"
    /\ recorded[w] = {"start", "end", "resource"}
    /\ \E i \in Owed[w] \ answered[w] : answered' = [answered EXCEPT ![w] = @ \cup {i}]
    /\ UNCHANGED <<cluster, recorded>>

Remove(w) ==
    /\ cluster[w] = "completed"
    /\ cluster' = [cluster EXCEPT ![w] = "gone"]
    /\ recorded[w] = {"start", "end", "resource"}
    /\ answered[w] = Owed[w]
    /\ UNCHANGED <<recorded, answered>>

Next ==
    \E w \in Workflows :
        \/ Run(w) \/ Complete(w) \/ Answer(w) \/ Remove(w)
        \/ \E entry \in {"start", "end", "resource"} : Record(w, entry)

Spec == Init /\ [][Next]_vars
=============================================================================
