------------------------- MODULE ReconcilerInvariant -------------------------
(***************************************************************************)
(* The inductive invariants behind the safety properties of                *)
(* BentoRequestReconciler.                                                 *)
(*                                                                         *)
(* BeliefsAreTrue is for systems in which the request a manager sees does  *)
(* not change while it reconciles (~MidReconcileEdits).  What a manager    *)
(* believes is spread over the status conditions, its cache, the jobs'     *)
(* phases and the locals of Reconcile; each belief was true once, and      *)
(* stays true because images are never unpushed, models never unseeded and *)
(* the Bento never deleted.  The operators say what a belief means in a    *)
(* state with the pushed images p, the seeded models s and the Bento b.    *)
(*                                                                         *)
(* RequestIsAttended and FailureIsWatched follow who will look at the      *)
(* request, and hold with edits at any moment.  FailureStaysWatched adds   *)
(* what the status says of a Bento that is there.                          *)
(***************************************************************************)
EXTENDS BentoRequestReconciler

PushedIn(image, p) == \E inS3 \in BOOLEAN : <<image, inS3>> \in p

\* Conditions that claim nothing that is not so, wherever a copy of them is kept.
TrueConditions(conds, p, s, b) ==
    /\ \A image \in Images : ImageExistsCondition(conds, image) => PushedIn(image, p)
    /\ \A rev \in Revisions :
          ModelsExistsCondition(conds, ModelTags[rev]) => ModelsOf(rev) \subseteq s
    /\ conds["BentoAvailable"].status = "True" => b # NoBento

\* A job, at the API server or in a cache, whose phase tells what its pods have done.
SoundJob(job, p, s) ==
    \/ job = NoJob
    \/ /\ job.kind = "builder"
       /\ job.image = ImageName[job.rev]
       /\ job.phase \in {"Finished", "Succeeded"} => PushedIn(job.image, p)
    \/ /\ job.kind = "seeder"
       /\ job.phase \in {"Finished", "Succeeded"} => job.model \in s

\* The places between the two calls of isSeparateModels and the use of separateModels.
SeparateKnown == {"listSeeders", "deleteSeeders", "seed", "image", "checkImage", "checked",
                  "listJobs", "jobStatus", "afterImage"}

\* A Reconcile call of revision rev.
SoundWorker(w, rev, p, s, b) ==
    /\ TrueConditions(w.br.conds, p, s, b)
    /\ w.br # Returned => w.br.rev = rev
    /\ w.pc \in AfterGetImageInfo => w.image = ImageName[rev]
    /\ w.pc = "checked" /\ w.imageExists => PushedIn(w.image, p)
    /\ w.pc = "jobStatus" /\ w.phase = "Succeeded" => PushedIn(w.image, p)
    /\ w.pc \in {"afterImage", "bento"} => PushedIn(w.image, p)
    /\ w.pc \in {"listSeeders", "deleteSeeders", "seed"} => w.tags = ModelTags[rev]
    /\ w.pc \in SeparateKnown => w.separate = SeparateModels[rev]
    /\ w.modelsExists => ModelsOf(rev) \subseteq s
    /\ w.pc = "bento" /\ SeparateModels[rev] /\ ~StoredInS3[rev] => ModelsOf(rev) \subseteq s
    /\ w.pc = "available" => b # NoBento

SoundBento(b, p, s) ==
    b # NoBento =>
        /\ PushedIn(b.image, p)
        /\ b.image = ImageName[b.rev]
        /\ SeparateModels[b.rev] /\ ~StoredInS3[b.rev] => ModelsOf(b.rev) \subseteq s

SoundManager(m) ==
    /\ TrueConditions(cache[m].request.conds, pushed, seeded, bento)
    /\ \A j \in JobNames : SoundJob(cache[m].jobs[j], pushed, seeded)
    /\ IF At(m, "idle") THEN worker[m] = Idle
       ELSE /\ cache[m].request.rev = request.rev
            /\ SoundWorker(worker[m], request.rev, pushed, seeded, bento)

(* Every belief in the system is true.  The runs check this invariant      *)
(* too: it is what the theorems rest on.                                   *)
BeliefsAreTrue ==
    /\ TrueConditions(request.conds, pushed, seeded, bento)
    /\ \A j \in JobNames : SoundJob(jobs[j], pushed, seeded)
    /\ SoundBento(bento, pushed, seeded)
    /\ \A m \in Managers : SoundManager(m)

-----------------------------------------------------------------------------
(***************************************************************************)
(* The inductive invariant behind NoLostWakeup.  A manager attends to the  *)
(* request when it has it in its queue, when its call will still create a  *)
(* job, a Bento or an error, or when something it has not seen or a job it *)
(* waits for will put the request in its queue.  Each of these ends only   *)
(* in another one, of this manager or of the one that deleted the job.     *)
(***************************************************************************)

Going(j) == jobs[j] = NoJob \/ jobs[j].deleting

\* The call has been told that models are still being seeded, and will return without an error.
AwaitsSeeders(m) ==
    /\ worker[m].separate /\ ~StoredInS3[request.rev]
    /\ ~worker[m].modelsExists /\ ~worker[m].modelsErr

\* The places from which a call cannot return without making a job, a Bento or an error ...
BusyPlaces == {"init", "mark", "marked", "listSeeders", "deleteSeeders", "bento", "available", "fail"}

\* ... and those of ensureImageExists, from which it can when models are being seeded.
ImagePlaces == {"image", "checkImage", "checked", "listJobs", "jobStatus", "afterImage"}

\* A call whose outcome does not rest on a job it has made or seen.
Busy(m) ==
    \/ worker[m].pc \in BusyPlaces
    \/ worker[m].pc \in ImagePlaces /\ ~AwaitsSeeders(m)
    \/ /\ At(m, "seed")
       /\ \/ worker[m].toSeed # {}
          \/ ModelsOf(request.rev) \subseteq SucceededTags(m)
          \/ FailedSeeders(m) # {}

\* The cache shows a job that is kept and has not succeeded.
WaitsForJob(m) ==
    \E j \in JobNames : LET job == cache[m].jobs[j] IN
        job # NoJob /\ job.phase # "Succeeded" /\ ~HashChanged(job, request.rev)

\* The request is in the manager's queue, or will be when its cache shows an edit.
HearsAnew(m) == queue[m] \/ cache[m].request.generation # request.generation

Attends(m) ==
    \/ HearsAnew(m) \/ Busy(m) \/ WaitsForJob(m)
    \/ \E j \in JobNames : cache[m].jobs[j] # NoJob /\ Going(j)
    \/ \E j \in JobNames : cache[m].jobs[j] = NoJob /\ ~Going(j)

\* A call holds the revision of now, and what it has derived is of that revision.
CallIsCurrent(m) ==
    ~At(m, "idle") =>
        /\ BentoRequest(m).rev = request.rev
        /\ worker[m].pc \in AfterGetImageInfo => worker[m].image = ImageName[request.rev]
        /\ worker[m].pc \in {"checkImage", "checked", "listJobs"}
              => worker[m].listSeparate = SeparateModels[request.rev]

\* What a call remembers of the jobs it has listed is still so.
RemembersJobs(m) ==
    /\ At(m, "jobStatus") /\ worker[m].phase # "Succeeded" => WaitsForJob(m)
    /\ At(m, "deleteSeeders") => \A model \in worker[m].existing : \E j \in CachedSeeders(m) :
          /\ cache[m].jobs[j].model = model /\ model \in Versioned
          /\ ~HashChanged(cache[m].jobs[j], request.rev)

(* A manager goes by the present request and the jobs it has listed, or    *)
(* will look again; once it has seen the generation, it has the revision.  *)
KeepsUp(m) ==
    /\ cache[m].request.generation <= request.generation
    /\ cache[m].request.generation = request.generation => cache[m].request.rev = request.rev
    /\ HearsAnew(m) \/ (CallIsCurrent(m) /\ RemembersJobs(m))

\* What manager m's cache says of the request; True ends its calls at once.
KnowsAvailable(m) == cache[m].request.conds["BentoAvailable"].status = "True"

\* Whoever says that the Bento is available is right.
AvailabilityIsTrue ==
    Available \/ (\E m \in Managers : KnowsAvailable(m) \/ At(m, "available"))
        => bento # NoBento

Attended == bento # NoBento \/ \E m \in Managers : Attends(m)

(* Somebody attends to a request without a Bento.  The runs check this     *)
(* invariant too: NoLostWakeup follows from it.                            *)
RequestIsAttended ==
    /\ Attended
    /\ AvailabilityIsTrue
    /\ \A m \in Managers : KeepsUp(m)

-----------------------------------------------------------------------------
(***************************************************************************)
(* The inductive invariant behind FailedBuildIsReported.  A failed build   *)
(* has been told of, or a manager will look at the builder jobs again:     *)
(* whoever overwrites the report does so in a call that has yet to list    *)
(* the jobs, or that has listed them from a cache that lags behind.        *)
(***************************************************************************)

\* The call waits for its seeders and takes the image for existing: it will not list builder jobs.
TakesImageForExisting(m) ==
    /\ At(m, "image") /\ AwaitsSeeders(m)
    /\ ImageExistsCondition(BentoRequest(m).conds, ImageName[request.rev])

\* The places from which a call lists builder jobs, fails, or makes the request available ...
LookingPlaces == BusyPlaces \cup {"seed", "checkImage", "checked", "listJobs"}

\* ... and those from which it does so depending on its locals, or has found the failure.
WillLook(m) ==
    \/ worker[m].pc \in LookingPlaces
    \/ At(m, "image") /\ ~TakesImageForExisting(m)
    \/ At(m, "jobStatus") /\ worker[m].phase \in {"Succeeded", "Failed"}
    \/ At(m, "afterImage") /\ ~AwaitsSeeders(m)

\* Manager m looks at job j, or something it has not seen will make it do so.
Watches(m, j) ==
    \/ HearsAnew(m) \/ WillLook(m)
    \/ cache[m].jobs[j] # jobs[j]
    \/ \E k \in JobNames : cache[m].jobs[k] # NoJob /\ Going(k)

WatchesAll(m) == \A j \in JobNames : FailedBuild(j) => Watches(m, j)

FailuresWatched == \A j \in JobNames : FailedBuild(j) => \E m \in Managers : Watches(m, j)

\* A call that reports a running job has missed all failures, or will look again.
ListsOwnJobs(m) ==
    At(m, "jobStatus") /\ worker[m].phase \notin {"Succeeded", "Failed"}
        => HearsAnew(m) \/ \A j \in JobNames : FailedBuild(j) => cache[m].jobs[j] # jobs[j]

\* A job that was once seen to have failed has failed, or goes.
FailuresLast(m) ==
    \A j \in JobNames : cache[m].jobs[j].phase = "Failed" => Going(j) \/ jobs[j].phase = "Failed"

ListingIsSound == \A m \in Managers : ListsOwnJobs(m) /\ FailuresLast(m)

(* A failed build has been told of or is watched, as long as there is no   *)
(* Bento.  The runs check this invariant too.                              *)
FailureIsWatched ==
    /\ bento # NoBento \/ FailureTold \/ FailuresWatched
    /\ ListingIsSound

-----------------------------------------------------------------------------
(***************************************************************************)
(* What is added with a Bento, for one manager that seeds no models.  A    *)
(* call that finds BentoAvailable True ends at once, and a failed build    *)
(* may go untold while it is True; so a call that takes True back, and the *)
(* cache that still shows it, must find the image existing.                *)
(***************************************************************************)

\* A copy of the conditions that shows an image as looked up shows it as existing, and is right.
CopyHolds(copy, conds) ==
    \A image \in Images : ImageChecked(copy, image)
        => ImageExistsCondition(copy, image) /\ ImageExistsCondition(conds, image)

\* What the conditions say while a call for an image is at place pc.
PlaceHolds(pc, conds, image) ==
    LET checked == conds["ImageExistsChecked"].status
        available == conds["BentoAvailable"].status = "True"
        exists == ImageExistsCondition(conds, image)
    IN
    /\ pc \in {"checkImage", "checked"} => checked = "Unknown"
    /\ pc \in {"init", "listJobs", "jobStatus"} => checked # "True"
    /\ pc \in {"init", "checkImage", "checked", "listJobs"} => ~available
    /\ pc \in {"afterImage", "bento", "available"} => exists
    /\ pc # "idle" /\ available => exists
    /\ pc \notin {"listSeeders", "deleteSeeders", "seed", "image"}

AvailabilityHolds(m) ==
    LET seen == cache[m].request IN
    /\ CopyHolds(request.conds, request.conds)
    /\ CopyHolds(seen.conds, request.conds)
    /\ worker[m].pc \in {"mark", "marked"} => CopyHolds(worker[m].br.conds, request.conds)
    /\ PlaceHolds(worker[m].pc, request.conds, ImageName[request.rev])
    /\ seen.conds = NoConditions => PlaceHolds("init", request.conds, ImageName[request.rev])
    /\ (Available <=> KnowsAvailable(m)) \/ ImageExistsCondition(request.conds, ImageName[seen.rev])

(* A failed build has been told of or is watched, unless the request is    *)
(* available, after there is a Bento as before.  The runs check this       *)
(* invariant too.                                                          *)
FailureStaysWatched ==
    /\ Available \/ FailureTold \/ FailuresWatched
    /\ ListingIsSound
    /\ \A m \in Managers : AvailabilityHolds(m)
=============================================================================
