--------------------------- MODULE BentoGeneration ---------------------------
(***************************************************************************)
(* What the image builder promises to the components that deploy Bentos,   *)
(* and to the user who reads a BentoRequest's status.  A Bento is          *)
(* generated for the revision the user wants at that moment, once its      *)
(* image can be pulled and the models its pods mount have been seeded; it  *)
(* is never taken away; and it is announced only after it was generated.   *)
(* BentoRequestReconciler implements this specification.                   *)
(***************************************************************************)
CONSTANTS
    Wanted,         \* contents a user may ask for
    ImageFor,       \* the image of each
    ModelsFor,      \* the models each needs beside its image
    FirstWanted

VARIABLES
    desired,        \* what the user wants
    images, models, \* what can be pulled, what can be mounted
    generated,      \* the Bento, in a set that is empty before: its content and its image
    announced       \* does the status say that the Bento is available?

generationVars == <<desired, images, models, generated, announced>>

Begin ==
    /\ desired = FirstWanted
    /\ generated = {}
    /\ announced = FALSE

Want(content) ==
    /\ desired' = content
    /\ UNCHANGED <<images, models, generated, announced>>

\* A builder pushes an image, or a seeder fills the shared file system.
Provide ==
    /\ images \subseteq images'
    /\ models \subseteq models'
    /\ UNCHANGED <<desired, generated, announced>>

Generate ==
    /\ ImageFor[desired] \in images
    /\ ModelsFor[desired] \subseteq models
    /\ generated' = {[content |-> desired, image |-> ImageFor[desired]]}
    /\ UNCHANGED <<desired, images, models, announced>>

Announce ==
    /\ generated # {}
    /\ announced' = TRUE
    /\ UNCHANGED <<desired, images, models, generated>>

Withdraw ==
    /\ announced' = FALSE
    /\ UNCHANGED <<desired, images, models, generated>>

Act == (\E content \in Wanted : Want(content)) \/ Provide \/ Generate \/ Announce \/ Withdraw

GenerationSpec == Begin /\ [][Act]_generationVars

=============================================================================
