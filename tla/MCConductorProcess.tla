------------------------- MODULE MCConductorProcess -------------------------
(***************************************************************************)
(* One conductor process with two handlers: s1 runs batches of up to two   *)
(* actions, s2 has nothing to do.  A panic of either ends both.            *)
(***************************************************************************)
EXTENDS Conductor

CONSTANTS p1, s1, s2

MCProcessOf == [s \in Sessions |-> p1]
MCServes == [s \in Sessions |-> IF s = s1 THEN Actions ELSE {}]
=============================================================================
