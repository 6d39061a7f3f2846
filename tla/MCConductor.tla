---------------------------- MODULE MCConductor -----------------------------
(***************************************************************************)
(* One conductor process with one handler that serves all actions.         *)
(***************************************************************************)
EXTENDS Conductor

MCProcessOf == [s \in Sessions |-> s]
MCServes == [s \in Sessions |-> Actions]
=============================================================================
