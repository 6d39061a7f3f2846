------------------------- MODULE MCConductorHistory -------------------------
(***************************************************************************)
(* Conductor processes with one handler of the same name each: as many     *)
(* loops that compete for the same actions.                                *)
(***************************************************************************)
EXTENDS ConductorHistory

MCProcessOf == [s \in Sessions |-> s]
MCServes == [s \in Sessions |-> Actions]
=============================================================================
