------------------------- MODULE EnsureModelsExists --------------------------
(***************************************************************************)
(* ensureModelsExists: seeding the models of a request whose models are    *)
(* kept apart from its image.  It always goes on with ensureImageExists    *)
(* ("image"): its result and its error are kept in the worker's locals     *)
(* modelsExists and modelsErr.                                             *)
(***************************************************************************)
EXTENDS BentoRequestCluster

-----------------------------------------------------------------------------
\* Mutant: an error counts as a success.
ReturnModelsDespiteError(w, exists, err, br) ==
    [w EXCEPT !.modelsExists = exists \/ err, !.modelsErr = err, !.br = br, !.pc = "image",
              !.tags = <<>>, !.stale = {}, !.orphans = {}, !.existing = {}, !.toSeed = {}]

(* Returning to Reconcile.  After a status update that failed, the request *)
(* returned is the cached one with the conditions set in memory only.      *)
ReturnModels(w, exists, err, br) ==
    [w EXCEPT !.modelsExists = exists, !.modelsErr = err, !.br = br, !.pc = "image",
              !.tags = <<>>, !.stale = {}, !.orphans = {}, !.existing = {}, !.toSeed = {}]

InMemory(m, conds) == [cache[m].request EXCEPT !.conds = conds]

ModelsExistsCondition(conds, tags) == conds["ModelsExists"] = CondMsg("True", tags)

\* A condition that is missing or Unknown becomes False; one that names these tags is believed.
EnterEnsureModelsExists(m) ==
    LET br == BentoRequest(m)
        tags == ModelTags[br.rev]
        called == [worker[m] EXCEPT !.separate = TRUE]
        entered == [called EXCEPT !.br = br, !.tags = tags, !.pc = "listSeeders"]
        notReady == [c \in {"ModelsExists"} |-> Cond("False")]
    IN
    /\ At(m, "marked")
    /\ SeparateModels[br.rev] /\ ~StoredInS3[br.rev]
    /\ \/ /\ br.conds["ModelsExists"].status \in {"Absent", "Unknown"}
          /\ SetStatusConditions(m, notReady, [entered EXCEPT !.br = Returned],
                ReturnModels(called, FALSE, TRUE,
                             InMemory(m, Apply(cache[m].request.conds, notReady))))
       \/ /\ br.conds["ModelsExists"].status \in {"True", "False"}
          /\ worker' = [worker EXCEPT ![m] =
                           IF ModelsExistsCondition(br.conds, tags)
                           THEN ReturnModels(called, TRUE, FALSE, br) ELSE entered]
          /\ UNCHANGED <<request, cache, queue, faults>>
    /\ UNCHANGED clusterVars

-----------------------------------------------------------------------------
CachedSeeders(m) ==
    {j \in JobNames : cache[m].jobs[j] # NoJob /\ cache[m].jobs[j].kind = "seeder"}

(* The cached seeder jobs, told apart by the hash and the models of the    *)
(* request as it is when they are listed.                                  *)
ListSeederJobs(m) ==
    LET br == BentoRequest(m)
        changed == {j \in CachedSeeders(m) : HashChanged(cache[m].jobs[j], br.rev)}
        unknown == {j \in CachedSeeders(m) \ changed : TagOf(cache[m].jobs[j]) \notin ModelsOf(br.rev)}
    IN
    /\ At(m, "listSeeders")
    /\ worker' = [worker EXCEPT ![m].br = br, ![m].pc = "deleteSeeders",
                     ![m].stale = changed, ![m].orphans = unknown,
                     ![m].existing = {cache[m].jobs[j].model :
                                         j \in CachedSeeders(m) \ (changed \cup unknown)}]
    /\ UNCHANGED <<request, cache, queue, faults>>
    /\ UNCHANGED clusterVars

ReturnError(m, br) == worker' = [worker EXCEPT ![m] = ReturnModels(worker[m], FALSE, TRUE, br)]

\* A job of another hash is deleted, and every condition set to Unknown.
DeleteStaleSeeder(m) ==
    /\ At(m, "deleteSeeders")
    /\ \E j \in worker[m].stale :
          \/ /\ Exist({j})
             /\ MarkDeleted({j})
             /\ \/ /\ UpdateStatus(m, AllUnknown(request.conds))
                   /\ worker' = [worker EXCEPT ![m].br = Returned, ![m].stale = @ \ {j}]
                   /\ UNCHANGED faults
                \/ /\ Fault
                   /\ ReturnError(m, InMemory(m, AllUnknown(cache[m].request.conds)))
                   /\ UNCHANGED <<request, cache, queue>>
          \/ /\ DeleteFails(j)
             /\ ReturnError(m, BentoRequest(m))
             /\ UNCHANGED <<request, cache, queue, jobs>>
    /\ UNCHANGED <<pvcs, bento, pushed, seeded, edits>>

\* A job whose labels name no model of the request is deleted.
DeleteOrphanSeeder(m) ==
    /\ At(m, "deleteSeeders")
    /\ \E j \in worker[m].orphans :
          \/ /\ Exist({j})
             /\ MarkDeleted({j})
             /\ worker' = [worker EXCEPT ![m].orphans = @ \ {j}]
             /\ UNCHANGED faults
          \/ /\ DeleteFails(j)
             /\ ReturnError(m, BentoRequest(m))
             /\ UNCHANGED jobs
    /\ UNCHANGED <<request, cache, queue, pvcs, bento, pushed, seeded, edits>>

\* The models, of the request as it is now, that were found without a job.
StartSeeding(m) ==
    /\ At(m, "deleteSeeders")
    /\ worker[m].stale = {} /\ worker[m].orphans = {}
    /\ worker' = [worker EXCEPT ![m].br = BentoRequest(m), ![m].pc = "seed",
                     ![m].toSeed = ModelsOf(BentoRequest(m).rev) \ worker[m].existing]
    /\ UNCHANGED <<request, cache, queue, faults>>
    /\ UNCHANGED clusterVars

\* The claims once that of model exists: it is created unless the cache has it.
Claimed(m, model) == IF model \in cache[m].pvcs THEN pvcs ELSE pvcs \cup {model}

(* One model: its claim (AlreadyExists is no error), then its job.         *)
CreateSeederJob(m) ==
    /\ At(m, "seed")
    /\ \E model \in worker[m].toSeed :
          \/ /\ CreateJob(SeederJob(BentoRequest(m).rev, model))
             /\ pvcs' = Claimed(m, model)
             /\ worker' = [worker EXCEPT ![m].toSeed = @ \ {model}]
             /\ UNCHANGED faults
          \/ /\ CreateFails
             /\ pvcs' \in {pvcs, Claimed(m, model)}
             /\ ReturnError(m, BentoRequest(m))
             /\ UNCHANGED jobs
    /\ UNCHANGED <<request, cache, queue, bento, pushed, seeded, edits>>

-----------------------------------------------------------------------------
\* Mutant: jobs count whether they have succeeded or not.
AnyTags(m) == {TagOf(cache[m].jobs[j]) : j \in CachedSeeders(m)}

(* The second listing: every cached seeder job counts, whatever its hash   *)
(* and also when it is being deleted.                                      *)
SucceededTags(m) ==
    {TagOf(cache[m].jobs[j]) : j \in {k \in CachedSeeders(m) : cache[m].jobs[k].phase = "Succeeded"}}

\* The models of the request as last read have all been seeded.
AllSeeded(m) == \A model \in ModelsOf(BentoRequest(m).rev) : model \in SucceededTags(m)

FailedSeeders(m) ==
    {j \in CachedSeeders(m) : cache[m].jobs[j].phase # "Succeeded" /\ cache[m].jobs[j].failedPods}

\* Any failed pod, even one the job will replace, is an error.
ReportFailedSeeders(m) ==
    LET failed == [c \in {"ModelsExists", "BentoAvailable"} |-> Cond("False")] IN
    /\ At(m, "seed") /\ worker[m].toSeed = {}
    /\ FailedSeeders(m) # {}
    /\ SetStatusConditions(m, failed,
          ReturnModels(worker[m], FALSE, TRUE, Returned),
          ReturnModels(worker[m], FALSE, TRUE,
                       InMemory(m, Apply(cache[m].request.conds, failed))))
    /\ UNCHANGED clusterVars

\* The tags recorded are those read first.
ReportSeeding(m) ==
    LET exists == AllSeeded(m)
        update == IF exists
                  THEN [c \in {"ModelsExists", "ModelsSeeding"} |->
                           IF c = "ModelsExists" THEN CondMsg("True", worker[m].tags)
                                                 ELSE Cond("False")]
                  ELSE [c \in {"ModelsSeeding"} |-> Cond("True")]
    IN
    /\ At(m, "seed") /\ worker[m].toSeed = {}
    /\ FailedSeeders(m) = {}
    /\ SetStatusConditions(m, update,
          ReturnModels(worker[m], exists, FALSE, Returned),
          ReturnModels(worker[m], exists, TRUE,
                       InMemory(m, Apply(cache[m].request.conds, update))))
    /\ UNCHANGED clusterVars

ensureModelsExists(m) ==
    \/ EnterEnsureModelsExists(m) \/ ListSeederJobs(m)
    \/ DeleteStaleSeeder(m) \/ DeleteOrphanSeeder(m)
    \/ StartSeeding(m) \/ CreateSeederJob(m)
    \/ ReportFailedSeeders(m) \/ ReportSeeding(m)

=============================================================================
