------------------------ MODULE BentoRequestReconciler -----------------------
(***************************************************************************)
(* Reconcile, the handler of the image builder's controller, and the whole *)
(* system: managers that reconcile one BentoRequest in the cluster of      *)
(* BentoRequestCluster.                                                    *)
(***************************************************************************)
EXTENDS EnsureImageExists, EnsureModelsExists

\* separateModels && !isImageStoredInS3(bentoRequest)
SeedsModels(m) == worker[m].separate /\ ~StoredInS3[BentoRequest(m).rev]

-----------------------------------------------------------------------------
(* The worker takes the request from the queue and reads it.               *)
StartReconcile(m) ==
    LET br == cache[m].request
        available == br.conds["BentoAvailable"].status
    IN
    /\ At(m, "idle")
    /\ queue[m]
    /\ MidReconcileEdits \/ br.rev = request.rev
    /\ queue' = [queue EXCEPT ![m] = FALSE]
    /\ worker' = [worker EXCEPT ![m] =
          IF available = "True" THEN Idle
          ELSE IF br.conds = NoConditions THEN [Idle EXCEPT !.br = br, !.pc = "init"]
          ELSE [Idle EXCEPT !.br = br, !.pc = "mark"]]
    /\ UNCHANGED <<request, cache, faults>>
    /\ UNCHANGED clusterVars

\* The first three conditions.  The deferred error handler is not installed yet.
InitConditions(m) ==
    /\ At(m, "init")
    /\ \/ /\ UpdateStatus(m, Apply(request.conds,
                [c \in {"ModelsSeeding", "ImageBuilding", "ImageExists"} |-> Cond("Unknown")]))
          /\ worker' = [worker EXCEPT ![m].br = Returned, ![m].pc = "mark"]
          /\ UNCHANGED faults
       \/ /\ Fault
          /\ worker' = [worker EXCEPT ![m] = Idle]
          /\ queue' = [queue EXCEPT ![m] = TRUE]
          /\ UNCHANGED <<request, cache>>
    /\ UNCHANGED clusterVars

MarkReconciling(m) ==
    LET br == BentoRequest(m) IN
    /\ At(m, "mark")
    /\ \/ /\ br.conds["BentoAvailable"].status # "Unknown"
          /\ SetStatusConditions(m, [c \in {"BentoAvailable"} |-> Cond("Unknown")],
                [worker[m] EXCEPT !.br = Returned, !.pc = "marked"], Failing)
       \/ /\ br.conds["BentoAvailable"].status = "Unknown"
          /\ worker' = [worker EXCEPT ![m].br = br, ![m].pc = "marked"]
          /\ UNCHANGED <<request, cache, queue, faults>>
    /\ UNCHANGED clusterVars

-----------------------------------------------------------------------------
\* imageExists is FALSE: whatever the reason, the Bento is reported as being built.
AwaitImage(m) ==
    /\ At(m, "building")
    /\ SetStatusConditions(m, [c \in {"BentoAvailable"} |-> Cond("Unknown")], Idle, Failing)
    /\ UNCHANGED clusterVars

\* An error of ensureModelsExists is only looked at once the image exists.
ReturnModelsError(m) ==
    /\ At(m, "afterImage")
    /\ worker[m].modelsErr
    /\ worker' = [worker EXCEPT ![m] = Failing]
    /\ UNCHANGED <<request, cache, queue, faults>>
    /\ UNCHANGED clusterVars

AwaitModels(m) ==
    /\ At(m, "afterImage")
    /\ ~worker[m].modelsErr /\ ~worker[m].modelsExists
    /\ SeedsModels(m)
    /\ SetStatusConditions(m, [c \in {"BentoAvailable"} |-> Cond("Unknown")], Idle, Failing)
    /\ UNCHANGED clusterVars

\* The cached jobs under the labels of getModelSeederJobLabels, for any model of rev.
SeederJobsOf(m, rev) ==
    {j \in CachedSeeders(m) : /\ BentoTag[cache[m].jobs[j].rev] = BentoTag[rev]
                              /\ cache[m].jobs[j].model \in ModelsOf(rev)}

(* The seeder jobs and claims of all seeded models are deleted; errors are *)
(* logged only.  Background propagation removes a job at once.             *)
CleanUpSeeders(m) ==
    LET br == BentoRequest(m)
        seeders == SeederJobsOf(m, br.rev)
        claims == ModelsOf(br.rev)
    IN
    /\ At(m, "afterImage")
    /\ ~worker[m].modelsErr /\ worker[m].modelsExists
    /\ SeedsModels(m)
    /\ \E doneJobs \in SUBSET seeders, doneClaims \in SUBSET claims :
          /\ \/ doneJobs = seeders /\ doneClaims = claims /\ UNCHANGED faults
             \/ ~Exist(seeders) /\ doneClaims = claims /\ UNCHANGED faults
             \/ Fault
          /\ jobs' = [j \in JobNames |-> IF j \in doneJobs THEN NoJob ELSE jobs[j]]
          /\ pvcs' = pvcs \ doneClaims
    /\ worker' = [worker EXCEPT ![m].br = br, ![m].pc = "bento"]
    /\ UNCHANGED <<request, cache, queue, bento, pushed, seeded, edits>>

\* Mutant: the Bento does not wait for its models.
SkipSeedersAlways(m) ==
    /\ At(m, "afterImage")
    /\ ~worker[m].modelsErr
    /\ worker' = [worker EXCEPT ![m].br = BentoRequest(m), ![m].pc = "bento"]
    /\ UNCHANGED <<request, cache, queue, faults>>
    /\ UNCHANGED clusterVars

SkipSeeders(m) ==
    /\ At(m, "afterImage")
    /\ ~worker[m].modelsErr
    /\ ~SeedsModels(m)
    /\ worker' = [worker EXCEPT ![m].br = BentoRequest(m), ![m].pc = "bento"]
    /\ UNCHANGED <<request, cache, queue, faults>>
    /\ UNCHANGED clusterVars

-----------------------------------------------------------------------------
\* Mutant: an existing Bento keeps its image.
CreateBentoKeepImage(m) ==
    LET br == BentoRequest(m) IN
    /\ At(m, "bento")
    /\ bento' = [rev |-> br.rev, image |-> IF bento = NoBento THEN worker[m].image ELSE bento.image,
                 separate |-> IF bento = NoBento THEN SeedsModels(m) ELSE bento.separate]
    /\ worker' = [worker EXCEPT ![m] = [Idle EXCEPT !.pc = "available"]]
    /\ queue' = [n \in Managers |-> TRUE]
    /\ UNCHANGED <<request, cache, jobs, pvcs, pushed, seeded, edits, faults>>

\* Mutant: the error of the create is logged only.
CreateBentoIgnoreError(m) ==
    /\ At(m, "bento")
    /\ \/ /\ bento' = [rev |-> BentoRequest(m).rev, image |-> worker[m].image,
                        separate |-> SeedsModels(m)]
          /\ UNCHANGED faults
       \/ Fault /\ UNCHANGED bento
    /\ worker' = [worker EXCEPT ![m] = [Idle EXCEPT !.pc = "available"]]
    /\ queue' = [n \in Managers |-> TRUE]
    /\ UNCHANGED <<request, cache, jobs, pvcs, pushed, seeded, edits>>

(* The Bento: created, or given the new spec (its annotations stay).  Its  *)
(* content is that of the request last read, its image the one looked up.  *)
CreateBento(m) ==
    LET br == BentoRequest(m) IN
    /\ At(m, "bento")
    /\ \/ /\ bento' = [rev |-> br.rev, image |-> worker[m].image,
                       separate |-> IF bento = NoBento THEN SeedsModels(m) ELSE bento.separate]
          /\ worker' = [worker EXCEPT ![m] = [Idle EXCEPT !.pc = "available"]]
          /\ queue' = IF bento' = bento THEN queue ELSE [n \in Managers |-> TRUE]
          /\ UNCHANGED faults
       \/ /\ Fault
          /\ worker' = [worker EXCEPT ![m] = Failing]
          /\ UNCHANGED <<bento, queue>>
    /\ UNCHANGED <<request, cache, jobs, pvcs, pushed, seeded, edits>>

SetAvailable(m) ==
    /\ At(m, "available")
    /\ SetStatusConditions(m, [c \in {"BentoAvailable"} |-> Cond("True")], Idle, Failing)
    /\ UNCHANGED clusterVars

\* Mutant: the error is put into the status and not returned.
HandleErrorNoRequeue(m) ==
    /\ At(m, "fail")
    /\ worker' = [worker EXCEPT ![m] = Idle]
    /\ request' = [request EXCEPT !.conds["BentoAvailable"] = Cond("False")]
    /\ cache' = [cache EXCEPT ![m].request = request]
    /\ UNCHANGED <<queue, faults>>
    /\ UNCHANGED clusterVars

\* The deferred function: the error is put into BentoAvailable, and the request requeued.
HandleError(m) ==
    /\ At(m, "fail")
    /\ worker' = [worker EXCEPT ![m] = Idle]
    /\ queue' = [queue EXCEPT ![m] = TRUE]
    /\ \/ /\ request' = [request EXCEPT !.conds["BentoAvailable"] = Cond("False")]
          /\ cache' = [cache EXCEPT ![m].request = request]
          /\ UNCHANGED faults
       \/ /\ Fault
          /\ UNCHANGED <<request, cache>>
    /\ UNCHANGED clusterVars

Reconcile(m) ==
    \/ StartReconcile(m) \/ InitConditions(m) \/ MarkReconciling(m)
    \/ ensureModelsExists(m) \/ ensureImageExists(m)
    \/ AwaitImage(m) \/ ReturnModelsError(m) \/ AwaitModels(m)
    \/ CleanUpSeeders(m) \/ SkipSeeders(m)
    \/ CreateBento(m) \/ SetAvailable(m) \/ HandleError(m)

-----------------------------------------------------------------------------
Next == (\E m \in Managers : Reconcile(m)) \/ Environment

Spec == Init /\ [][Next]_vars

PCs == {"idle", "init", "mark", "marked", "listSeeders", "deleteSeeders", "seed",
        "image", "checkImage", "checked", "listJobs", "jobStatus", "building",
        "afterImage", "bento", "available", "fail"}

WorkerRecords ==
    [pc : PCs, br : Requests \cup {Returned}, separate : BOOLEAN,
     modelsExists : BOOLEAN, modelsErr : BOOLEAN, tags : Seq(Models),
     stale : SUBSET JobNames, orphans : SUBSET JobNames,
     existing : SUBSET Models, toSeed : SUBSET Models,
     image : Images \cup {NoImage}, listSeparate : BOOLEAN,
     imageExists : BOOLEAN, phase : JobPhases]

\* The places after getImageInfo has returned.
AfterGetImageInfo == {"checkImage", "checked", "listJobs", "jobStatus", "afterImage", "bento"}

Workers == {w \in WorkerRecords : w.pc \in AfterGetImageInfo => w.image \in Images}

Caches == [request : Requests, jobs : [JobNames -> Jobs \cup {NoJob}], pvcs : SUBSET Models]

TypeOK ==
    /\ request \in Requests
    /\ jobs \in [JobNames -> Jobs \cup {NoJob}]
    /\ pvcs \subseteq Models
    /\ bento \in Bentos \cup {NoBento}
    /\ pushed \subseteq Images \X BOOLEAN
    /\ seeded \subseteq Models
    /\ cache \in [Managers -> Caches]
    /\ queue \in [Managers -> BOOLEAN]
    /\ worker \in [Managers -> Workers]
    /\ edits \in 0..MaxEdits /\ faults \in 0..MaxFaults

-----------------------------------------------------------------------------
(* Safety. *)

Built(image) == \E inS3 \in BOOLEAN : <<image, inS3>> \in pushed

(* A Bento is only generated with an image that has been pushed, whoever   *)
(* checked the registry or built it: Reconcile reaches r.Create of the     *)
(* Bento only through imageExists.                                         *)
BentoImageBuilt == bento # NoBento => Built(bento.image)

(* A Bento's image is the image of the very revision its tag, models and   *)
(* runners come from, although imageInfo and bentoRequest are read at      *)
(* different moments of one Reconcile.                                     *)
BentoIsOneRevision == bento # NoBento => bento.image = ImageName[bento.rev]

(* The models of a Bento that is to be served without models in its image  *)
(* have all been seeded into the shared file system before it is generated.*)
BentoModelsSeeded ==
    bento # NoBento /\ SeparateModels[bento.rev] /\ ~StoredInS3[bento.rev]
        => ModelsOf(bento.rev) \subseteq seeded

(* The status never claims what is not so: an ImageExists condition that   *)
(* is True names a pushed image, a True ModelsExists names seeded models,  *)
(* and BentoAvailable is True only when the Bento is there.                *)
StatusIsTruthful ==
    /\ \A image \in Images : ImageExistsCondition(request.conds, image) => Built(image)
    /\ \A rev \in Revisions :
          ModelsExistsCondition(request.conds, ModelTags[rev]) => ModelsOf(rev) \subseteq seeded
    /\ request.conds["BentoAvailable"].status = "True" => bento # NoBento

Available == request.conds["BentoAvailable"].status = "True"

Quiescent(m) ==
    /\ At(m, "idle") /\ ~queue[m]
    /\ cache[m] = [request |-> request, jobs |-> jobs, pvcs |-> pvcs]

(* No wake-up is lost: when every manager is idle with an empty queue and  *)
(* has seen all there is to see, either the Bento is there, or a job of    *)
(* the current revision, or one being deleted, has yet to report.          *)
NoLostWakeup ==
    (\A m \in Managers : Quiescent(m))
        => \/ bento # NoBento
           \/ \E j \in JobNames :
                 /\ jobs[j] # NoJob
                 /\ \/ jobs[j].deleting
                    \/ jobs[j].phase # "Succeeded" /\ ~HashChanged(jobs[j], request.rev)

\* A failed builder job that a call would keep and report.
FailedBuild(j) ==
    /\ jobs[j].kind = "builder" /\ jobs[j].phase = "Failed"
    /\ ~jobs[j].deleting /\ ~HashChanged(jobs[j], request.rev)

\* The status says that nothing is being built, or that the image was there before.
FailureTold ==
    \/ request.conds["ImageBuilding"].status = "False"
    \/ ImageExistsCondition(request.conds, ImageName[request.rev])

(* A failed build does not go unnoticed ("Image building job %s is         *)
(* failed."): when all managers rest, no job is being deleted and a builder*)
(* job of the current revision has failed, ImageBuilding is False, although*)
(* calls reset conditions, or the image exists nevertheless, or the request*)
(* is available, which ends every call before it looks at jobs.            *)
FailedBuildIsReported ==
    (\A m \in Managers : Quiescent(m)) /\ (\A j \in JobNames : ~jobs[j].deleting)
        => \A j \in JobNames : FailedBuild(j) => FailureTold \/ Available

-----------------------------------------------------------------------------
(* The promise to whoever uses the Bento. *)

ModelsNeeded ==
    [rev \in Revisions |-> IF SeparateModels[rev] /\ ~StoredInS3[rev] THEN ModelsOf(rev) ELSE {}]

Generated ==
    IF bento = NoBento THEN {} ELSE {[content |-> bento.rev, image |-> bento.image]}

Promise == INSTANCE BentoGeneration WITH
    Wanted <- Revisions, ImageFor <- ImageName, ModelsFor <- ModelsNeeded,
    FirstWanted <- InitialRevision, desired <- request.rev,
    images <- {image \in Images : Built(image)}, models <- seeded,
    generated <- Generated, announced <- Available

(* Reconcile keeps the promise of BentoGeneration: in particular it never  *)
(* generates the Bento of a revision the user has replaced meanwhile, and  *)
(* it never takes back an image, a model or a Bento.                       *)
KeepsPromise == Promise!GenerationSpec

-----------------------------------------------------------------------------
(* Liveness.  The manager's worker, the informers and the job controller   *)
(* keep running; faults are bounded by MaxFaults.                          *)

Fairness ==
    /\ \A m \in Managers : /\ WF_vars(Reconcile(m))
                           /\ WF_vars(SyncRequest(m))
                           /\ WF_vars(SyncJobs(m))
                           /\ WF_vars(SyncPVCs(m))
                           /\ WF_vars(Resync(m))
    /\ \A j \in JobNames : /\ WF_vars(StartPod(j))
                           /\ WF_vars(FinishPod(j))
                           /\ WF_vars(RecordSuccess(j))
                           /\ WF_vars(FinalizeJob(j))

FairSpec == Spec /\ Fairness

SomeJobFailed == \E j \in JobNames : jobs[j].failedPods

\* A model tag without a version has a seeder job that no label finds again.
Unservable ==
    SeparateModels[request.rev] /\ ~StoredInS3[request.rev] /\ ~(ModelsOf(request.rev) \subseteq Versioned)

(* A request never stays unserved for good: again and again it is          *)
(* available, or one of its jobs has had a failed pod, or it names a model *)
(* without a version.  (It need not stay available: a Reconcile that       *)
(* starts from a cache without the manager's own last status update sets   *)
(* BentoAvailable back to Unknown on its way.)                             *)
KeepsBecomingAvailable == []<>(Available \/ SomeJobFailed \/ Unservable)

=============================================================================
