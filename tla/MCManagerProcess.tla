-------------------------- MODULE MCManagerProcess ---------------------------
(***************************************************************************)
(* A small instance of ManagerProcess for TLC: requests in the namespaces  *)
(* yatai and yatai-dev, and the image builder in yatai or in one of its    *)
(* own.                                                                    *)
(***************************************************************************)
EXTENDS ManagerProcess, TLC

CONSTANTS a, b

Yatai == <<"yatai">>
YataiDev == <<"yatai", "-dev">>
Builder == <<"builder">>

InTwoNamespaces == a :> Yatai @@ b :> YataiDev

\* What the helm chart sets: a list of namespaces, or all of them.
Charted ==
    {s \in [watch : {{}, {Yatai}, {Yatai, YataiDev}}, all : BOOLEAN,
            system : {Yatai, Builder}, skipCheck : BOOLEAN] :
        s.all = (s.watch = {})}
=============================================================================
