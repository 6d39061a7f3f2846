----------------------------- MODULE MCCaboose -----------------------------
(***************************************************************************)
(* Two workflows, and three ways to give them callbacks.                   *)
(***************************************************************************)
EXTENDS Caboose, TLC

CONSTANTS w1, w2, each, once, f1, f2

MCTypeOf == (each :> "perFeature") @@ (once :> "single")
MCFeaturesOf == (w1 :> {f1, f2}) @@ (w2 :> {})

\* The two features of w1's output are alike.
MCSymmetry == Permutations({f1, f2})

\* A callback for each feature; the same for an output that has none.
CallbacksForFeatures == (w1 :> {each}) @@ (w2 :> {each})

\* Two callbacks, and none.
CallbacksForOne == (w1 :> {each, once}) @@ (w2 :> {})

\* One callback, and none.
CallbacksOnce == (w1 :> {once}) @@ (w2 :> {})
=============================================================================
