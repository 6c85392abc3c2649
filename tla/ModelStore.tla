----------------------------- MODULE ModelStore ------------------------------
(***************************************************************************)
(* What model seeding promises the users of the shared volume: a model     *)
(* that has been seeded stays whole, and a request's models are announced  *)
(* as seeded only when all of them are.                                    *)
(***************************************************************************)
CONSTANTS Requests, Places, PlacesOf(_)

VARIABLES stored,     \* the places whose model is whole and marked as seeded
          announced   \* the requests whose ModelsExists condition is True

vars == <<stored, announced>>

Init == stored = {} /\ announced = {}

Store(p) ==
    /\ stored' = stored \cup {p}
    /\ UNCHANGED announced

Announce(r) ==
    /\ PlacesOf(r) \subseteq stored
    /\ announced' = announced \cup {r}
    /\ UNCHANGED stored

Next == (\E p \in Places : Store(p)) \/ (\E r \in Requests : Announce(r))

Spec == Init /\ [][Next]_vars
=============================================================================
