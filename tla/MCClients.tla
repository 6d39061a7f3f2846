----------------------------- MODULE MCClients ------------------------------
(***************************************************************************)
(* Either two conductors that submit the workflow w, or two that send the  *)
(* callback cb, to a server that its matchers understand: a 400 that says  *)
(* "busy" is worth a retry, any other 400 is final, and a 404 is as good   *)
(* as a success.                                                           *)
(***************************************************************************)
EXTENDS Clients

CONSTANTS p1, p2, p3, p4, s1, s2, s3, s4, w, cb

MCProcessOf == (s1 :> p1) @@ (s2 :> p2) @@ (s3 :> p3) @@ (s4 :> p4)
MCServes == (s1 :> {w}) @@ (s2 :> {w}) @@ (s3 :> {cb}) @@ (s4 :> {cb})
MCDeployments == {{p1, p2}, {p3, p4}}

MCMatchers ==
    << [status |-> 400, bodies |-> {"busy"}, result |-> "error"],
       [status |-> 404, bodies |-> {"", "busy"}, result |-> ""],
       [status |-> 400, bodies |-> {"", "busy"}, result |-> "fatal"] >>

MCResponses ==
    { [status |-> 200, body |-> "", means |-> "accepted"],
      [status |-> 404, body |-> "", means |-> "accepted"],
      [status |-> 400, body |-> "", means |-> "refused"],
      [status |-> 400, body |-> "busy", means |-> "later"],
      [status |-> 500, body |-> "", means |-> "later"] }

ASSUME MCClientsAssumption == OneLoopPerAction
=============================================================================
