-------------------------- MODULE ActionLifecycle --------------------------
(***************************************************************************)
(* What the conductor promises about an action, whoever handles it and     *)
(* whatever fails on the way.  A claim needs an action that is open and    *)
(* due; a claim leads to at most one verdict, and only a claim does; once  *)
(* the verdict is not a backoff nothing changes it.  Several actions may   *)
(* move at once, each as if it were alone, and nothing is promised about   *)
(* those that have gone astray.                                            *)
(***************************************************************************)
CONSTANT Actions

VARIABLES
    status,   \* the status of each action
    waiting,  \* the actions whose backoff has not elapsed
    phase,    \* "free", "held" (claimed, no verdict), "spent" (claim used up)
    astray    \* the actions nothing is promised about

vars == <<status, waiting, phase, astray>>

Verdicts == {"QUEUED", "SUCCESSFUL", "FAILED", "BACKOFF"}

Init ==
    /\ status = [a \in Actions |-> "PENDING"]
    /\ waiting = {}
    /\ phase = [a \in Actions |-> "free"]
    /\ astray = {}

Move(a, from, to) == phase[a] = from /\ phase'[a] = to

KeepStatus(a) == status'[a] = status[a] /\ (a \in waiting' <=> a \in waiting)

Claim(a) ==
    /\ Move(a, "free", "held")
    /\ status[a] = "PENDING" \/ (status[a] = "BACKOFF" /\ a \notin waiting)
    /\ KeepStatus(a)

Decide(a) ==
    /\ Move(a, "held", "spent")
    /\ status[a] \in {"PENDING", "BACKOFF"}
    /\ status'[a] \in Verdicts
    /\ a \in waiting' <=> status'[a] = "BACKOFF"

\* The attempt fails before a verdict is recorded.
GiveUp(a) == Move(a, "held", "spent") /\ KeepStatus(a)

\* Unlocked, or the session that held the lock is gone.
Release(a) == phase[a] # "free" /\ phase'[a] = "free" /\ KeepStatus(a)

Elapse(a) ==
    /\ a \in waiting \ waiting'
    /\ status'[a] = status[a] /\ phase'[a] = phase[a]

Rest(a) == phase'[a] = phase[a] /\ KeepStatus(a)

Next ==
    /\ astray \subseteq astray'
    /\ \A a \in Actions \ astray' :
         Claim(a) \/ Decide(a) \/ GiveUp(a) \/ Release(a) \/ Elapse(a) \/ Rest(a)

Spec == Init /\ [][Next]_vars
=============================================================================
