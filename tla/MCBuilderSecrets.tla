-------------------------- MODULE MCBuilderSecrets ---------------------------
(***************************************************************************)
(* A small instance of BuilderSecrets for TLC.  Two managers prepare jobs  *)
(* that want every secret, while the API token is configured and then one  *)
(* more thing happens: a source is rotated, a call fails or a process      *)
(* dies.                                                                   *)
(***************************************************************************)
EXTENDS BuilderSecrets, TLC

CONSTANTS a, b

\* The other sources are configured while requests wait for them, or pass them over.
AtFirst == {"regcred", "aws"}

Everything == {Kinds}

(* Bounds.  The token comes first; its configuration and one more event.   *)
(* b sees a new source before anything else happens; a sees it later, and  *)
(* both see the copies later.                                              *)
OneEvent ==
    /\ rotations' + faults' <= 2
    /\ sources["apiToken"] = 0 => sources' = sources \/ sources'["apiToken"] = 1
    /\ cache[b].sources # Seen(b) => cache'[b].sources # cache[b].sources
=============================================================================
