---------------------------- MODULE MCReconciler -----------------------------
(***************************************************************************)
(* Small instances of BentoRequestReconciler for TLC: two revisions of the *)
(* request, r1 and r2; the user edits it from the one to the other.        *)
(***************************************************************************)
EXTENDS ReconcilerInvariant, TLC

CONSTANTS r1, r2, i1, i2, m1, m2, j1, j2, a, b

TwoImages == r1 :> i1 @@ r2 :> i2
Distinct == r1 :> r1 @@ r2 :> r2

Never == r1 :> FALSE @@ r2 :> FALSE
Always == r1 :> TRUE @@ r2 :> TRUE
InSecond == r1 :> FALSE @@ r2 :> TRUE

NoTags == r1 :> <<>> @@ r2 :> <<>>
TagInSecond == r1 :> <<>> @@ r2 :> <<m2>>
OneTag == r1 :> <<m1>> @@ r2 :> <<m2>>
TwoTags == r1 :> <<m1, m2>> @@ r2 :> <<m1, m2>>

\* Jobs are told apart by nothing but their names.
JobSymmetry == Permutations(JobNames)
Symmetry == Permutations(JobNames) \cup Permutations(Managers)

(* A bound for two managers: what they write to the request's status is    *)
(* seen by both before anything else happens.  Job caches still lag.       *)
PromptStatus ==
    (\E m \in Managers : cache[m].request # request)
        => /\ UNCHANGED <<request, jobs, worker>>
           /\ \E m \in Managers : cache'[m].request # cache[m].request
=============================================================================
