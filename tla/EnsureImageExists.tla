-------------------------- MODULE EnsureImageExists --------------------------
(***************************************************************************)
(* ensureImageExists: one step per write to the API server or call of the  *)
(* registry, with the reads before it.  It returns to Reconcile with       *)
(* imageExists = TRUE ("afterImage"), with imageExists = FALSE             *)
(* ("building"), or with an error ("fail").                                *)
(***************************************************************************)
EXTENDS BentoRequestCluster


\* The registry's answer for an image; S3 is never asked.
ImageInRegistry(image) == <<image, FALSE>> \in pushed

-----------------------------------------------------------------------------
\* The function returns with imageExists = FALSE: no local is used any more.
Building == [Idle EXCEPT !.pc = "building"]

(* Has this image name been looked up in the registry with success? *)
ImageChecked(conds, image) ==
    conds["ImageExistsChecked"] = CondMsg("True", image)

ImageExistsCondition(conds, image) ==
    conds["ImageExists"] = CondMsg("True", image)

\* separateModels, when the models have not been looked at before.
SeparateFlag(m, rev) == IF At(m, "marked") THEN SeparateModels[rev] ELSE worker[m].separate

\* getImageInfo, and the status update announcing the look-up unless it was done before.
EnterEnsureImageExists(m) ==
    LET br == BentoRequest(m)
        image == ImageName[br.rev]
        entered == [worker[m] EXCEPT !.br = br, !.image = image,
                                     !.separate = SeparateFlag(m, br.rev),
                                     !.listSeparate = SeparateModels[br.rev]]
    IN
    /\ \/ At(m, "image")
       \/ At(m, "marked") /\ ~(SeparateModels[br.rev] /\ ~StoredInS3[br.rev])
    /\ \/ /\ ~ImageChecked(br.conds, image)
          /\ SetStatusConditions(m,
                [c \in {"ImageExistsChecked", "BentoAvailable"} |->
                    IF c = "ImageExistsChecked" THEN CondMsg("Unknown", image)
                                                ELSE Cond("Unknown")],
                [entered EXCEPT !.br = Returned, !.pc = "checkImage"], Failing)
       \/ /\ ImageChecked(br.conds, image)
          /\ worker' = [worker EXCEPT ![m] =
                [entered EXCEPT !.imageExists = ImageExistsCondition(br.conds, image),
                                !.pc = IF ImageExistsCondition(br.conds, image)
                                       THEN "afterImage" ELSE "listJobs"]]
          /\ UNCHANGED <<request, cache, queue, faults>>
       \/ /\ Fault                                  \* no image info
          /\ worker' = [worker EXCEPT ![m] = Failing]
          /\ UNCHANGED <<request, cache, queue>>
    /\ UNCHANGED clusterVars

\* checkImageExists, and the r.Get after it.
CheckImageExists(m) ==
    /\ At(m, "checkImage")
    /\ \/ /\ worker' = [worker EXCEPT ![m].br = Returned, ![m].pc = "checked",
                                      ![m].imageExists = /\ ~ForceBuild[BentoRequest(m).rev]
                                                         /\ ImageInRegistry(worker[m].image)]
          /\ UNCHANGED faults
       \/ /\ Fault
          /\ worker' = [worker EXCEPT ![m] = Failing]
    /\ UNCHANGED <<request, cache, queue>>
    /\ UNCHANGED clusterVars

\* The two conditions that keep the look-up's answer.
RecordImageExists(m) ==
    LET image == worker[m].image
        found == worker[m].imageExists
    IN
    /\ At(m, "checked")
    /\ SetStatusConditions(m,
          [c \in {"ImageExists", "ImageExistsChecked"} |->
              IF found THEN CondMsg("True", image) ELSE Cond("False")],
          [worker[m] EXCEPT !.br = Returned,
                            !.pc = IF found THEN "afterImage" ELSE "listJobs"],
          Failing)
    /\ UNCHANGED clusterVars

-----------------------------------------------------------------------------
(* Image builder jobs in the manager's cache under the labels it lists by. *)
ListedJobs(m) ==
    {j \in JobNames : LET job == cache[m].jobs[j] IN
        /\ job # NoJob /\ job.kind = "builder"
        /\ SeparateModels[job.rev] = worker[m].listSeparate}

StaleJobs(m) == {j \in ListedJobs(m) : HashChanged(cache[m].jobs[j], BentoRequest(m).rev)}

(* The first listed job whose hash differs is deleted, every condition is  *)
(* set to Unknown, and the function returns: the new job has to wait for   *)
(* another Reconcile.                                                      *)
DeleteStaleJob(m) ==
    /\ At(m, "listJobs")
    /\ \E j \in StaleJobs(m) :
          \/ /\ Exist({j})
             /\ MarkDeleted({j})
             /\ \/ /\ UpdateStatus(m, AllUnknown(request.conds))
                   /\ worker' = [worker EXCEPT ![m] = Building]
                   /\ UNCHANGED faults
                \/ /\ Fault
                   /\ worker' = [worker EXCEPT ![m] = Failing]
                   /\ UNCHANGED <<request, cache, queue>>
          \/ /\ DeleteFails(j)
             /\ worker' = [worker EXCEPT ![m] = Failing]
             /\ UNCHANGED <<request, cache, queue, jobs>>
    /\ UNCHANGED <<pvcs, bento, pushed, seeded, edits>>

(* With no job there is one to generate and create.  Its image is the one  *)
(* looked up above; its labels and hash are those of the request read last.*)
CreateImageBuilderJob(m) ==
    /\ At(m, "listJobs")
    /\ ListedJobs(m) = {}
    /\ \/ /\ CreateJob(BuilderJob(BentoRequest(m).rev, worker[m].image))
          /\ worker' = [worker EXCEPT ![m] = Building]
          /\ UNCHANGED faults
       \/ /\ CreateFails
          /\ worker' = [worker EXCEPT ![m] = Failing]
          /\ UNCHANGED jobs
    /\ UNCHANGED <<request, cache, queue, pvcs, bento, pushed, seeded, edits>>

(* All listed jobs have the right hash: the first is kept, the others are  *)
(* deleted one by one, up to the first that fails; then r.Get.             *)
KeepOneJob(m) ==
    /\ At(m, "listJobs")
    /\ StaleJobs(m) = {}
    /\ \E kept \in ListedJobs(m) :
          LET extra == ListedJobs(m) \ {kept} IN
          \/ /\ Exist(extra)
             /\ MarkDeleted(extra)
             /\ worker' = [worker EXCEPT ![m].br = Returned, ![m].pc = "jobStatus",
                                         ![m].phase = cache[m].jobs[kept].phase]
             /\ UNCHANGED faults
          \/ \E failed \in extra : \E done \in SUBSET (extra \ {failed}) :
             /\ Exist(done)
             /\ DeleteFails(failed)
             /\ MarkDeleted(done)
             /\ worker' = [worker EXCEPT ![m] = Failing]
    /\ UNCHANGED <<request, cache, queue, pvcs, bento, pushed, seeded, edits>>

-----------------------------------------------------------------------------
(* The phase of the kept job, as it was when it was listed. *)

\* Running: an ImageBuilding condition, or the timeout's error.
ReportRunningJob(m) ==
    LET br == BentoRequest(m)
        status == IF worker[m].phase \in {"Active", "Finished"} THEN "True" ELSE "Unknown"
    IN
    /\ At(m, "jobStatus")
    /\ worker[m].phase \notin {"Succeeded", "Failed"}
    /\ \/ SetStatusConditions(m, [c \in {"ImageBuilding"} |-> Cond(status)],
             Building, Failing)
       \/ \* spec.imageBuildTimeout has passed since ImageBuilding last changed
          /\ HasTimeout[br.rev] /\ br.conds["ImageBuilding"].status # "Absent"
          /\ Fault
          /\ UpdateStatus(m, Apply(request.conds, [c \in {"ImageBuilding"} |-> Cond("False")]))
          /\ worker' = [worker EXCEPT ![m] = Failing]
    /\ UNCHANGED clusterVars

\* Mutant: only the Bento's condition is written.
ReportFailedBento(m) ==
    /\ At(m, "jobStatus")
    /\ worker[m].phase = "Failed"
    /\ SetStatusConditions(m, [c \in {"BentoAvailable"} |-> Cond("False")], Building, Failing)
    /\ UNCHANGED clusterVars

ReportFailedJob(m) ==
    /\ At(m, "jobStatus")
    /\ worker[m].phase = "Failed"
    /\ SetStatusConditions(m, [c \in {"ImageBuilding", "BentoAvailable"} |-> Cond("False")],
          Building, Failing)
    /\ UNCHANGED clusterVars

\* The job's success is taken as the existence of the image looked up above.
ReportSucceededJob(m) ==
    /\ At(m, "jobStatus")
    /\ worker[m].phase = "Succeeded"
    /\ SetStatusConditions(m,
          [c \in {"ImageBuilding", "ImageExists"} |->
              IF c = "ImageBuilding" THEN Cond("False") ELSE CondMsg("True", worker[m].image)],
          [worker[m] EXCEPT !.br = Returned, !.imageExists = TRUE, !.pc = "afterImage"], Failing)
    /\ UNCHANGED clusterVars

ensureImageExists(m) ==
    \/ EnterEnsureImageExists(m) \/ CheckImageExists(m) \/ RecordImageExists(m)
    \/ DeleteStaleJob(m) \/ CreateImageBuilderJob(m) \/ KeepOneJob(m)
    \/ ReportRunningJob(m) \/ ReportFailedJob(m) \/ ReportSucceededJob(m)

=============================================================================
