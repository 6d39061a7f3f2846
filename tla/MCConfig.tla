------------------------------ MODULE MCConfig ------------------------------
(***************************************************************************)
(* A program reads one of the files below; a caboose that has read its     *)
(* file then tries one workflow again and again.  The files differ in one  *)
(* respect at a time: the `when' of a callback, the parameters of a        *)
(* handler and of a callback, or how handlers, conductors and workflows    *)
(* are linked.                                                             *)
(***************************************************************************)
EXTENDS Config, Backoff

CONSTANTS Successful, Failed, Invalid, Unknown

MCFinalStates == {Successful, Failed, Invalid}
MCLabelNames == {"mirror", "publish"}

handlers == [argo |-> [type |-> "argoworkflows", conf |-> "good", parameters |-> Missing],
             http |-> [type |-> "synchttp", conf |-> "good", parameters |-> [x |-> "required"]]]
conductors == [a |-> {"argo", "http"}]
callback == [handler |-> "http", type |-> "single",
             when |-> <<[state |-> Successful, not |-> FALSE]>>, parameters |-> [x |-> "path"]]
workflow == [handler |-> "argo", argoOpts |-> "whole", cirrusOpts |-> "some",
             callbacks |-> [push |-> callback]]

Clauses == [state : {Successful, Failed, Unknown, Empty}, not : BOOLEAN]

WhenFiles ==
    {[handlers |-> handlers, conductors |-> conductors,
      workflows |-> [mirror |-> [workflow EXCEPT !.callbacks.push.when = when]]] :
     when \in {Missing} \cup UNION {[1 .. n -> Clauses] : n \in 0 .. 3}}

Schemas == {Missing} \cup UNION {[names -> {"required", "default"}] : names \in SUBSET {"x", "y"}}
Givens == {Missing} \cup UNION {[names -> {"path", "good", "bad", Empty}] : names \in SUBSET {"x", "y"}}

ParameterFiles ==
    {[handlers |-> [handlers EXCEPT !.http.parameters = schema], conductors |-> conductors,
      workflows |-> [mirror |-> [workflow EXCEPT !.callbacks.push.parameters = given,
                                                 !.callbacks.push.type = type]]] :
     schema \in Schemas, given \in Givens, type \in {"perfeature", Missing, "other"}}

LinkFiles ==
    {[handlers |-> [handlers EXCEPT !.argo.type = type, !.argo.conf = conf],
      conductors |-> [a |-> listed],
      workflows |-> [mirror |-> [workflow EXCEPT !.handler = handler, !.callbacks.push.handler = cb]]
                    @@ (other :> [workflow EXCEPT !.callbacks = Nothing,
                                                  !.argoOpts = argoOpts, !.cirrusOpts = cirrusOpts])] :
     type \in HandlerTypes \cup {Missing, "other"}, conf \in {Missing, "good", "bad"},
     listed \in SUBSET {"argo", "http", "none"},
     handler \in {"argo", "http", "none"}, cb \in {"http", "none"},
     other \in {"publish", "not a label"},
     argoOpts \in {Missing, "whole", "broken"}, cirrusOpts \in {Missing, "some"}}

MCFiles == WhenFiles \cup ParameterFiles \cup LinkFiles

MCInit == ConfigInit /\ BackoffInit

MCNext ==
    \/ ConfigNext /\ UNCHANGED backoffVars
    \/ phase = "caboose" /\ backoff /\ UNCHANGED configVars

MCSpec == MCInit /\ [][MCNext]_<<configVars, backoffVars>>
=============================================================================
