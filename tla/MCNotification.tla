--------------------------- MODULE MCNotification ---------------------------
(***************************************************************************)
(* Conductors whose handler h1 has every action.                           *)
(***************************************************************************)
EXTENDS Notification

CONSTANT h1

MCHandlerOf == [a \in Actions |-> h1]
=============================================================================
