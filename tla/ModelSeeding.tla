---------------------------- MODULE ModelSeeding -----------------------------
(***************************************************************************)
(* Several requests whose models are kept apart from their images share    *)
(* volume claims and directories of one JuiceFS volume.  One manager with  *)
(* one worker reconciles them; the seeder pods it starts run the script of *)
(* generateModelSeederPodTemplateSpec, step by step, next to each other    *)
(* and to the clean-up at the end of each request's reconcile.             *)
(*                                                                         *)
(* The requests are not edited here and the worker's reads are up to date: *)
(* those are the subject of BentoRequestReconciler.                        *)
(***************************************************************************)
EXTENDS Naturals, FiniteSets

CONSTANTS
    Requests,            \* the BentoRequest objects
    Models,              \* the model tags
    ModelsOf,            \* [Requests -> SUBSET Models], their spec.models
    Namespaces,          \* the namespaces of the cluster
    NamespaceOf,         \* [Requests -> Namespaces]
    ModelStorageNS,      \* [Requests -> storage namespace of the annotation or Shared]
    Shared,              \* the empty storage namespace
    AddNamespacePrefix,  \* isAddNamespacePrefix()
    Huggingface,         \* the models whose URL starts with hf://
    MaxFaults,           \* bound on failed calls, abandoned reconciles and dead pods
    NoRequest

\* No request is NoRequest, and every request lists its models.
ASSUME SeedingAssumption ==
    /\ NoRequest \notin Requests
    /\ ModelsOf \in [Requests -> SUBSET Models]
    /\ NamespaceOf \in [Requests -> Namespaces]
    /\ DOMAIN ModelStorageNS = Requests
    /\ Huggingface \subseteq Models
    /\ MaxFaults \in Nat
    /\ {"none", "whole"} \cap Requests = {}

VARIABLES
    claims,     \* [Claims -> "absent", "bound" or "terminating"]
    seeder,     \* [Requests -> [Models -> the seeder job, with the step its pod is at]]
    content,    \* [Places -> "none", "whole" or the request whose seeder began last]
    marker,     \* [Places -> whether the .exists file is there]
    image,      \* [Requests -> whether the image is built]
    recorded,   \* [Requests -> whether ModelsExists is True]
    available,  \* [Requests -> whether BentoAvailable is True]
    queue,      \* the work queue
    worker,     \* the worker's call
    faults

vars == <<claims, seeder, content, marker, image, recorded, available, queue, worker, faults>>

podVars == <<content, marker>>
requestVars == <<image, recorded, available>>

-----------------------------------------------------------------------------
\* getModelNamespace
ModelNamespace(r) ==
    IF ModelStorageNS[r] # Shared THEN ModelStorageNS[r]
    ELSE IF AddNamespacePrefix THEN NamespaceOf[r] ELSE Shared

(* getModelPVCName hashes storage namespace and tag; the claim lives in    *)
(* the namespace of the request.  The request is not part of its name.     *)
Claim(r, m) == <<NamespaceOf[r], ModelNamespace(r), m>>
Claims == {Claim(r, m) : r \in Requests, m \in Models}

(* getJuiceFSModelPath: the directory on the volume that the claim is      *)
(* bound to (for a Huggingface model the part of the repository's shared   *)
(* directory that belongs to the version), with its marker file.           *)
Place(r, m) == <<ModelNamespace(r), m>>
Places == {Place(r, m) : r \in Requests, m \in Models}

NoSeeder == [step |-> "none", failures |-> 0]
Running == {"check", "download", "extract", "extracting", "touch", "exit"}
Steps == Running \cup {"none", "pending", "succeeded", "failed"}

Idle == [request |-> NoRequest, pc |-> "idle", todo |-> {}, failed |-> FALSE]

Init ==
    /\ claims = [c \in Claims |-> "absent"]
    /\ seeder = [r \in Requests |-> [m \in Models |-> NoSeeder]]
    /\ content = [p \in Places |-> "none"]
    /\ marker = [p \in Places |-> FALSE]
    /\ image = [r \in Requests |-> FALSE]
    /\ recorded = [r \in Requests |-> FALSE]
    /\ available = [r \in Requests |-> FALSE]
    /\ queue = Requests
    /\ worker = Idle
    /\ faults = 0

Fault == faults < MaxFaults /\ faults' = faults + 1
Healthy == UNCHANGED faults

-----------------------------------------------------------------------------
(* Reconcile, from the queue to the models' half.  A request that is       *)
(* available, or whose models are recorded as seeded, skips that half.     *)
StartReconcile(r) ==
    /\ worker = Idle /\ r \in queue
    /\ queue' = queue \ {r}
    /\ worker' = IF available[r] THEN Idle
                 ELSE [request |-> r, failed |-> FALSE,
                       pc |-> IF recorded[r] THEN "image" ELSE "seed",
                       todo |-> {m \in ModelsOf[r] : seeder[r][m].step = "none"}]
    /\ UNCHANGED <<claims, seeder, faults, podVars, requestVars>>

\* Mutant: what is queued again is read after the call was forgotten.
AbandonAndForget ==
    /\ worker # Idle
    /\ Fault
    /\ worker' = Idle
    /\ queue' = queue \cup {worker'.request}
    /\ UNCHANGED <<claims, seeder, podVars, requestVars>>

\* An error, or the death of the process: the request is queued again.
Abandon ==
    /\ worker # Idle
    /\ Fault
    /\ queue' = queue \cup {worker.request}
    /\ worker' = Idle
    /\ UNCHANGED <<claims, seeder, podVars, requestVars>>

\* Mutant: the claim is taken to be there.
GetModelPVC(m) ==
    /\ worker.pc = "seed" /\ m \in worker.todo
    /\ worker' = [worker EXCEPT !.pc = "job", !.todo = {m}]
    /\ UNCHANGED <<claims, seeder, queue, faults, podVars, requestVars>>

\* The claim of a model without a job is created unless it is found, be it being deleted.
EnsureModelPVC(m) ==
    /\ worker.pc = "seed" /\ m \in worker.todo
    /\ claims' = [claims EXCEPT ![Claim(worker.request, m)] = IF @ = "absent" THEN "bound" ELSE @]
    /\ worker' = [worker EXCEPT !.pc = "job", !.todo = {m}]
    /\ UNCHANGED <<seeder, queue, faults, podVars, requestVars>>

CreateSeederJob ==
    LET r == worker.request IN
    /\ worker.pc = "job"
    /\ \E m \in worker.todo :
          LET now == [seeder[r] EXCEPT ![m] = [NoSeeder EXCEPT !.step = "pending"]] IN
          /\ seeder' = [seeder EXCEPT ![r] = now]
          /\ worker' = [worker EXCEPT !.pc = "seed",
                           !.todo = {n \in ModelsOf[r] : now[n].step = "none"}]
    /\ UNCHANGED <<claims, queue, faults, podVars, requestVars>>

FailedPods(r) == {m \in ModelsOf[r] : seeder[r][m].step # "succeeded" /\ seeder[r][m].failures > 0}

AllSucceeded(r) == \A m \in ModelsOf[r] : seeder[r][m].step = "succeeded"

\* The end of ensureModelsExists: a failed pod is an error, all jobs done sets ModelsExists.
ReportSeeding ==
    LET r == worker.request IN
    /\ worker.pc = "seed" /\ worker.todo = {}
    /\ recorded' = [recorded EXCEPT ![r] = FailedPods(r) = {} /\ AllSucceeded(r)]
    /\ worker' = [worker EXCEPT !.pc = "image", !.failed = FailedPods(r) # {}]
    /\ UNCHANGED <<claims, seeder, queue, faults, podVars, image, available>>

(* Without its image the call ends; the error of the models' half comes    *)
(* only then, and the clean-up only when every model is there.             *)
CheckImage ==
    LET r == worker.request IN
    /\ worker.pc = "image"
    /\ worker' = IF image[r] /\ recorded[r]
                 THEN [worker EXCEPT !.pc = "clean", !.todo = ModelsOf[r]] ELSE Idle
    /\ queue' = IF image[r] /\ worker.failed THEN queue \cup {r} ELSE queue
    /\ UNCHANGED <<claims, seeder, faults, podVars, requestVars>>

-----------------------------------------------------------------------------
\* The pods that hold the claim: those that run.
Holders(c) ==
    {s \in Requests \X Models : Claim(s[1], s[2]) = c /\ seeder[s[1]][s[2]].step \in Running}

Deleted(c) == IF claims[c] = "absent" THEN "absent"
              ELSE IF Holders(c) = {} THEN "absent" ELSE "terminating"

(* The clean-up of one model: deleteModelSeederJobs and deleteModelPVC.    *)
(* A deletion that fails is only logged.                                   *)
CleanUp(m) ==
    LET r == worker.request IN
    /\ worker.pc = "clean" /\ m \in worker.todo
    /\ worker' = [worker EXCEPT !.todo = @ \ {m}]
    /\ \/ /\ seeder' = [seeder EXCEPT ![r][m] = NoSeeder]
          /\ claims' = [claims EXCEPT ![Claim(r, m)] = Deleted(Claim(r, m))]
          /\ Healthy
       \/ /\ seeder' = [seeder EXCEPT ![r][m] = NoSeeder]
          /\ Fault
          /\ UNCHANGED claims
       \/ /\ claims' = [claims EXCEPT ![Claim(r, m)] = Deleted(Claim(r, m))]
          /\ Fault
          /\ UNCHANGED seeder
    /\ UNCHANGED <<queue, podVars, requestVars>>

\* The Bento is generated, the request is available.
GenerateBento ==
    /\ worker.pc = "clean" /\ worker.todo = {}
    /\ available' = [available EXCEPT ![worker.request] = TRUE]
    /\ worker' = Idle
    /\ UNCHANGED <<claims, seeder, queue, faults, podVars, image, recorded>>

Reconcile ==
    \/ Abandon \/ CreateSeederJob \/ ReportSeeding \/ CheckImage \/ GenerateBento
    \/ \E m \in Models : EnsureModelPVC(m) \/ CleanUp(m)

-----------------------------------------------------------------------------
\* The builder job pushes the image; its event queues the request.
FinishBuild(r) ==
    /\ ~image[r]
    /\ image' = [image EXCEPT ![r] = TRUE]
    /\ queue' = queue \cup {r}
    /\ UNCHANGED <<claims, seeder, worker, faults, recorded, available, podVars>>

\* A claim that is being deleted goes when no running pod holds it.
ReleaseClaim(c) ==
    /\ claims[c] = "terminating" /\ Holders(c) = {}
    /\ claims' = [claims EXCEPT ![c] = "absent"]
    /\ UNCHANGED <<seeder, queue, worker, faults, podVars, requestVars>>

At(r, m, step) == seeder[r][m].step = step
Go(r, m, step) == seeder' = [seeder EXCEPT ![r][m] = [@ EXCEPT !.step = step]]
WakeUp(r) == queue' = queue \cup {r}

\* A pod is scheduled only onto a claim that is there and not being deleted.
SchedulePod(r, m) ==
    /\ At(r, m, "pending") /\ claims[Claim(r, m)] = "bound"
    /\ Go(r, m, "check")
    /\ UNCHANGED <<claims, queue, worker, faults, podVars, requestVars>>

\* Mutant: a model is downloaded again although it is marked.
IgnoreMarker(r, m) ==
    /\ At(r, m, "check")
    /\ Go(r, m, "download")
    /\ UNCHANGED <<claims, queue, worker, faults, podVars, requestVars>>

\* The script: a model that is marked is skipped.
CheckMarker(r, m) ==
    /\ At(r, m, "check")
    /\ Go(r, m, IF marker[Place(r, m)] THEN "exit" ELSE "download")
    /\ UNCHANGED <<claims, queue, worker, faults, podVars, requestVars>>

(* An archive is downloaded to the pod's own disk; huggingface-cli writes  *)
(* into the directory, but each file under another name until it is whole. *)
Download(r, m) ==
    /\ At(r, m, "download")
    /\ IF m \in Huggingface
       THEN Go(r, m, "touch") /\ content' = [content EXCEPT ![Place(r, m)] = "whole"]
       ELSE Go(r, m, "extract") /\ UNCHANGED content
    /\ UNCHANGED <<claims, queue, worker, faults, marker, requestVars>>

\* Mutant: the marker is written before the archive is extracted.
TouchFirst(r, m) ==
    /\ At(r, m, "extract")
    /\ Go(r, m, "extracting")
    /\ content' = [content EXCEPT ![Place(r, m)] = r]
    /\ marker' = [marker EXCEPT ![Place(r, m)] = TRUE]
    /\ UNCHANGED <<claims, queue, worker, faults, requestVars>>

(* tar replaces the files of the directory: they are those of the seeder   *)
(* that began last, and whole when that one has finished.                  *)
BeginExtract(r, m) ==
    /\ At(r, m, "extract")
    /\ Go(r, m, "extracting")
    /\ content' = [content EXCEPT ![Place(r, m)] = r]
    /\ UNCHANGED <<claims, queue, worker, faults, marker, requestVars>>

\* Mutant: the clean-up at the end of the script removes what was extracted.
EndExtractAndRemove(r, m) ==
    /\ At(r, m, "extracting")
    /\ Go(r, m, "touch")
    /\ content' = [content EXCEPT ![Place(r, m)] = "none"]
    /\ UNCHANGED <<claims, queue, worker, faults, marker, requestVars>>

EndExtract(r, m) ==
    /\ At(r, m, "extracting")
    /\ Go(r, m, "touch")
    /\ content' = [content EXCEPT ![Place(r, m)] = IF @ = r THEN "whole" ELSE @]
    /\ UNCHANGED <<claims, queue, worker, faults, marker, requestVars>>

\* The marker is written last.
TouchMarker(r, m) ==
    /\ At(r, m, "touch")
    /\ Go(r, m, "exit")
    /\ marker' = [marker EXCEPT ![Place(r, m)] = TRUE]
    /\ UNCHANGED <<claims, queue, worker, faults, content, requestVars>>

\* The pod exits with 0, the job has succeeded, and its event queues the request.
ExitPod(r, m) ==
    /\ At(r, m, "exit")
    /\ Go(r, m, "succeeded")
    /\ WakeUp(r)
    /\ UNCHANGED <<claims, worker, faults, podVars, requestVars>>

\* A pod dies at any step; the job starts one more pod (backoffLimit 1).
PodDies(r, m) ==
    /\ seeder[r][m].step \in Running
    /\ Fault
    /\ seeder' = [seeder EXCEPT ![r][m] =
                     [step |-> IF @.failures = 0 THEN "pending" ELSE "failed",
                      failures |-> @.failures + 1]]
    /\ WakeUp(r)
    /\ UNCHANGED <<claims, worker, podVars, requestVars>>

RunPod(r, m) ==
    \/ SchedulePod(r, m) \/ CheckMarker(r, m) \/ Download(r, m)
    \/ BeginExtract(r, m) \/ EndExtract(r, m) \/ TouchMarker(r, m) \/ ExitPod(r, m)

Next ==
    \/ Reconcile
    \/ \E r \in Requests : StartReconcile(r) \/ FinishBuild(r)
    \/ \E r \in Requests, m \in Models : RunPod(r, m) \/ PodDies(r, m)
    \/ \E c \in Claims : ReleaseClaim(c)

Spec == Init /\ [][Next]_vars

(* The worker takes its requests in order and finishes each call; builder  *)
(* jobs, pods and the claim controller go on as long as they can.  Nothing *)
(* has to fail.                                                            *)
Fairness ==
    /\ WF_vars(Reconcile /\ Healthy)
    /\ \A r \in Requests : SF_vars(StartReconcile(r)) /\ WF_vars(FinishBuild(r))
    /\ \A r \in Requests, m \in Models : WF_vars(RunPod(r, m))
    /\ \A c \in Claims : WF_vars(ReleaseClaim(c))

FairSpec == Spec /\ Fairness

-----------------------------------------------------------------------------
Seeders == [Requests -> [Models -> [step : Steps, failures : Nat]]]
Calls == [request : Requests \cup {NoRequest}, todo : SUBSET Models, failed : BOOLEAN,
          pc : {"idle", "seed", "job", "image", "clean"}]

\* Every variable has its type.
SeedingTypeOK ==
    /\ claims \in [Claims -> {"absent", "bound", "terminating"}]
    /\ seeder \in Seeders
    /\ content \in [Places -> {"none", "whole"} \cup Requests]
    /\ marker \in [Places -> BOOLEAN]
    /\ image \in [Requests -> BOOLEAN]
    /\ recorded \in [Requests -> BOOLEAN]
    /\ available \in [Requests -> BOOLEAN]
    /\ queue \subseteq Requests
    /\ worker \in Calls
    /\ faults \in 0 .. MaxFaults

\* The places of a request's models.
PlacesOf(r) == {Place(r, m) : m \in ModelsOf[r]}

\* No two seeders ever work in the same directory.
ExclusivePlaces ==
    \A r, s \in Requests, m, n \in Models : Place(r, m) = Place(s, n) => r = s /\ m = n

(* What the condition says ("All models have been seeded."): the models of *)
(* a request whose ModelsExists condition is True are whole on the volume. *)
SeededModelsAreWhole ==
    \A r \in Requests : recorded[r] => \A p \in PlacesOf(r) : marker[p] /\ content[p] = "whole"

(* Seeding implements the abstract model store: a place that is marked and *)
(* whole stays so, and only then are a request's models announced.         *)
Store == INSTANCE ModelStore WITH
            stored <- {p \in Places : marker[p] /\ content[p] = "whole"},
            announced <- {r \in Requests : recorded[r]}
StoreSpec == Store!Spec

(* Also when two requests seed one directory at a time, and no pod dies,   *)
(* a model announced as seeded ends up whole for good.                     *)
SeededModelsBecomeWhole ==
    \A r \in Requests :
        recorded[r] ~> [](\A p \in PlacesOf(r) : content[p] = "whole")

(* A request whose seeder jobs do not fail becomes available: none waits   *)
(* for ever for a claim, a pod or an event.                                *)
EveryRequestIsServed ==
    \A r \in Requests :
        <>(available[r] \/ \E m \in ModelsOf[r] : seeder[r][m].step = "failed")
=============================================================================
