--------------------------- MODULE MCModelSeeding ----------------------------
(***************************************************************************)
(* Small instances of ModelSeeding for TLC: two requests of one namespace, *)
(* a and b, with one model in common.  An annotation may give the copy of  *)
(* the second one a directory of its own.                                  *)
(***************************************************************************)
EXTENDS ModelSeeding, TLC

CONSTANTS a, b, m1, hf, n1, n2

CommonModel == a :> {m1} @@ b :> {m1}
CommonAndHuggingface == a :> {m1, hf} @@ b :> {m1}

OneNamespace == a :> n1 @@ b :> n1

NotAnnotated == a :> Shared @@ b :> Shared
SecondAnnotated == a :> Shared @@ b :> n2
=============================================================================
