----------------------- MODULE ReconcilerWakeupProofs ------------------------
(***************************************************************************)
(* RequestIsAttended is an invariant of every system with a manager in     *)
(* which every edit changes the spec, wherever in a Reconcile an edit      *)
(* falls; NoLostWakeup follows.  What it takes from elsewhere is TypeOK    *)
(* alone: who attends to a request need not believe what is true of it.    *)
(*                                                                         *)
(* FailureIsWatched is added in the same way: it gives what                *)
(* FailedBuildIsReported says as long as there is no Bento.  Afterwards it *)
(* takes FailureStaysWatched, which needs BeliefsAreTrue, and so edits     *)
(* that wait for the end of a call, and holds of one manager only.         *)
(***************************************************************************)
EXTENDS ReconcilerProofs

\* An edit of labels or annotations only is filtered by GenerationChangedPredicate.
EditsChangeSpec == \A r, s \in Revisions : SpecOf[r] = SpecOf[s] => r = s

-----------------------------------------------------------------------------
(* What makes a manager attend to the request after a step.                *)

\* The call of manager m goes on as w.
GoesOn(m, w) == worker' = [worker EXCEPT ![m] = w]

LEMMA Continues ==
    ASSUME TypeOK, NEW m \in Managers, NEW w, GoesOn(m, w)
    PROVE  /\ worker'[m] = w
           /\ \A n \in Managers \ {m} : worker'[n] = worker[n]
BY DEF GoesOn, TypeOK

LEMMA AttendsPlace ==
    ASSUME TypeOK, NEW m \in Managers, NEW w, GoesOn(m, w), w.pc \in BusyPlaces
    PROVE  Attended'
<1>1. worker'[m].pc \in BusyPlaces  BY Continues
<1>2. QED  BY <1>1 DEF Attended, Attends, Busy

LEMMA AttendsImage ==
    ASSUME TypeOK, NEW m \in Managers, NEW w, GoesOn(m, w), w.pc \in ImagePlaces,
           request'.rev = request.rev,
           ~(w.separate /\ ~StoredInS3[request.rev] /\ ~w.modelsExists /\ ~w.modelsErr)
    PROVE  Attended'
<1>1. worker'[m] = w  BY Continues
<1>2. Busy(m)'  BY <1>1 DEF Busy, AwaitsSeeders
<1>3. QED  BY <1>2 DEF Attended, Attends

\* Only a call that has listed jobs remembers any.
LEMMA RemembersNothing ==
    ASSUME TypeOK, NEW m \in Managers, NEW w, GoesOn(m, w),
           w.pc \notin {"jobStatus", "deleteSeeders"}
    PROVE  RemembersJobs(m)'
<1>1. worker'[m] = w  BY Continues
<1>2. QED  BY <1>1 DEF RemembersJobs, At

\* A job that is cached and going, or new and not yet cached, will put the request in the queue.
LEMMA AttendsJob ==
    ASSUME NEW m \in Managers, NEW j \in JobNames,
           cache'[m].jobs[j] # NoJob <=> Going(j)'
    PROVE  Attended'
BY DEF Attended, Attends

\* What a call has remembered makes its manager attend.
LEMMA RemembersWaiting ==
    ASSUME NEW m \in Managers, WaitsForJob(m)'
    PROVE  Attended'
BY DEF Attended, Attends

-----------------------------------------------------------------------------
(* What every step of a call leaves as it was, or changes in one way only. *)

\* A status update, or none.
Writes(m) == (\E conds : UpdateStatus(m, conds)) \/ UNCHANGED <<request, cache, queue>>

\* Jobs keep to themselves, go, or are new.
JobsSettled ==
    \A j \in JobNames :
        \/ jobs'[j] = jobs[j]
        \/ Going(j)'
        \/ jobs'[j].phase = "Waiting" /\ \A n \in Managers : cache[n].jobs[j] = NoJob

RequestFrame(m) ==
    /\ request'.rev = request.rev /\ request'.generation = request.generation
    /\ \/ cache' = cache
       \/ /\ cache' = [cache EXCEPT ![m].request = request]
          /\ cache[m].request.generation # request.generation => queue'[m]
    /\ \A n \in Managers \ {m} : queue[n] => queue'[n]
    /\ StartReconcile(m) \/ (queue[m] => queue'[m])

LEMMA WritesFrame ==
    ASSUME TypeOK, NEW m \in Managers, Writes(m)
    PROVE  /\ RequestFrame(m)
           /\ \A n \in Managers : queue[n] => queue'[n]
           /\ cache'[m].jobs = cache[m].jobs
<1>1. CASE UNCHANGED <<request, cache, queue>>  BY <1>1 DEF RequestFrame
<1>2. ASSUME NEW conds, UpdateStatus(m, conds)
      PROVE  /\ RequestFrame(m)
             /\ \A n \in Managers : queue[n] => queue'[n]
             /\ cache'[m].jobs = cache[m].jobs
  <2>1. /\ request' = [request EXCEPT !.conds = conds] /\ request \in Requests
        /\ cache' = [cache EXCEPT ![m].request = request] /\ cache \in [Managers -> Caches]
        /\ queue' = [queue EXCEPT ![m] = @ \/ cache[m].request.generation # request.generation]
        /\ queue \in [Managers -> BOOLEAN]
    BY <1>2 DEF UpdateStatus, Observe, TypeOK
  <2>2. request'.rev = request.rev /\ request'.generation = request.generation
    BY <2>1 DEF Requests
  <2>3. cache'[m].jobs = cache[m].jobs  BY <2>1 DEF Caches
  <2>4. /\ cache[m].request.generation # request.generation => queue'[m]
        /\ \A n \in Managers : queue[n] => queue'[n]
    BY <2>1
  <2>5. QED  BY <2>1, <2>2, <2>3, <2>4 DEF RequestFrame
<1>3. QED  BY <1>1, <1>2 DEF Writes

LEMMA DeletionMarks ==
    ASSUME TypeOK, NEW names, MarkDeleted(names), NEW j \in JobNames
    PROVE  (jobs'[j] = jobs[j] \/ Going(j)') /\ (j \in names => Going(j)')
<1>1. jobs[j] # NoJob => jobs[j] \in JobRecords  BY DEF TypeOK, Jobs
<1>2. QED  BY <1>1 DEF MarkDeleted, Going, JobRecords

LEMMA WritesSettle ==
    ASSUME TypeOK,
           \/ UNCHANGED jobs
           \/ \E names : MarkDeleted(names)
           \/ \E job : CreateJob(job) /\ job.phase = "Waiting"
           \/ \E done : jobs' = [j \in JobNames |-> IF j \in done THEN NoJob ELSE jobs[j]]
    PROVE  JobsSettled
<1>1. CASE UNCHANGED jobs  BY <1>1 DEF JobsSettled
<1>2. ASSUME NEW names, MarkDeleted(names)  PROVE JobsSettled
  BY <1>2, DeletionMarks DEF JobsSettled
<1>3. ASSUME NEW job, CreateJob(job), job.phase = "Waiting"  PROVE JobsSettled
  BY <1>3 DEF CreateJob, FreshJobNames, JobsSettled, TypeOK
<1>4. ASSUME NEW done, jobs' = [j \in JobNames |-> IF j \in done THEN NoJob ELSE jobs[j]]
      PROVE  JobsSettled
  BY <1>4 DEF JobsSettled, Going
<1>5. QED  BY <1>1, <1>2, <1>3, <1>4

\* Listing the seeder jobs, and what is done when they are cleaned up, change the call alone.
LEMMA SeedersAreListed ==
    ASSUME TypeOK, NEW m \in Managers, ListSeederJobs(m) \/ StartSeeding(m)
    PROVE  /\ GoesOn(m, worker'[m])
           /\ worker'[m].br = BentoRequest(m)
           /\ worker'[m].pc \in {"deleteSeeders", "seed"}
<1>1. worker[m] \in WorkerRecords /\ worker \in [Managers -> Workers]
  BY DEF TypeOK, Workers
<1>2. CASE ListSeederJobs(m)
  BY <1>1, <1>2 DEF ListSeederJobs, GoesOn, Workers, WorkerRecords
<1>3. CASE StartSeeding(m)
  BY <1>1, <1>3 DEF StartSeeding, GoesOn, Workers, WorkerRecords
<1>4. QED  BY <1>2, <1>3

\* What a call in state next knows comes from the request it held or sees, or was known before.
Derives(m, next) ==
    LET w == worker[m]
        rev == BentoRequest(m).rev
        listing == {"checkImage", "checked", "listJobs"}
    IN
    /\ next.br = Returned \/ next.br.rev \in {rev, cache[m].request.rev}
    /\ next.pc \in AfterGetImageInfo
         => \/ next.image = ImageName[rev]
            \/ w.pc \in AfterGetImageInfo /\ next.image = w.image
    /\ next.pc \in listing
         => \/ next.listSeparate = SeparateModels[rev]
            \/ w.pc \in listing /\ next.listSeparate = w.listSeparate

GoesOnSomehow(m) == \E next : GoesOn(m, next) /\ Derives(m, next)

LEMMA PlainDerives ==
    ASSUME TypeOK, NEW m \in Managers
    PROVE  /\ Derives(m, Idle) /\ Derives(m, Failing) /\ Derives(m, Building)
           /\ Derives(m, [Idle EXCEPT !.pc = "available"])
           /\ \A v \in WorkerRecords : \A exists, err, conds :
                 /\ Derives(m, ReturnModels(v, exists, err, Returned))
                 /\ Derives(m, ReturnModels(v, exists, err, BentoRequest(m)))
                 /\ Derives(m, ReturnModels(v, exists, err, InMemory(m, conds)))
<1>1. \A w \in {Idle, Failing, Building, [Idle EXCEPT !.pc = "available"]} :
         w.br = Returned /\ w.pc \notin AfterGetImageInfo
  BY DEF Idle, Failing, Building, AfterGetImageInfo
<1>2. ASSUME NEW conds  PROVE InMemory(m, conds).rev = cache[m].request.rev
  BY DEF InMemory, TypeOK, Caches, Requests
<1>3. ASSUME NEW v \in WorkerRecords, NEW exists, NEW err, NEW br
      PROVE  /\ ReturnModels(v, exists, err, br).br = br
             /\ ReturnModels(v, exists, err, br).pc = "image"
  BY DEF ReturnModels, WorkerRecords
<1>4. "image" \notin AfterGetImageInfo  BY DEF AfterGetImageInfo
<1>5. {"checkImage", "checked", "listJobs"} \subseteq AfterGetImageInfo  BY DEF AfterGetImageInfo
<1>6. QED  BY <1>1, <1>2, <1>3, <1>4, <1>5 DEF Derives

LEMMA StatusDerives ==
    ASSUME NEW m \in Managers, NEW updates, NEW ok, NEW failed,
           SetStatusConditions(m, updates, ok, failed), Derives(m, ok), Derives(m, failed)
    PROVE  GoesOnSomehow(m) /\ Writes(m)
BY DEF SetStatusConditions, Writes, GoesOnSomehow, GoesOn

\* Where a call goes by a plain change of its fields.
LEMMA FieldsDerive ==
    ASSUME TypeOK, NEW m \in Managers, NEW next,
           next.br = Returned \/ next.br = BentoRequest(m) \/ next.br = worker[m].br,
           next.pc \in AfterGetImageInfo
              => worker[m].pc \in AfterGetImageInfo /\ next.image = worker[m].image,
           next.pc \in {"checkImage", "checked", "listJobs"}
              => /\ worker[m].pc \in {"checkImage", "checked", "listJobs"}
                 /\ next.listSeparate = worker[m].listSeparate
    PROVE  Derives(m, next)
BY DEF Derives, BentoRequest

LEMMA EnsureImageExistsDerives ==
    ASSUME TypeOK, NEW m \in Managers, ensureImageExists(m)
    PROVE  GoesOnSomehow(m) /\ Writes(m) /\ JobsSettled /\ UNCHANGED bento
<1> DEFINE br == BentoRequest(m)
           w == worker[m]
<1>1. w \in WorkerRecords /\ worker \in [Managers -> Workers]  BY DEF TypeOK, Workers
<1>2. Derives(m, Failing) /\ Derives(m, Building)  BY PlainDerives
<1>3. UNCHANGED clusterVars => JobsSettled /\ UNCHANGED bento
  BY WritesSettle DEF clusterVars
<1>4. CASE EnterEnsureImageExists(m)
  <2> DEFINE image == ImageName[br.rev]
             entered == [w EXCEPT !.br = br, !.image = image,
                                  !.separate = SeparateFlag(m, br.rev),
                                  !.listSeparate = SeparateModels[br.rev]]
             up == [c \in {"ImageExistsChecked", "BentoAvailable"} |->
                       IF c = "ImageExistsChecked" THEN CondMsg("Unknown", image)
                                                   ELSE Cond("Unknown")]
             checking == [entered EXCEPT !.br = Returned, !.pc = "checkImage"]
             found == ImageExistsCondition(br.conds, image)
             known == [entered EXCEPT !.imageExists = found,
                                      !.pc = IF found THEN "afterImage" ELSE "listJobs"]
  <2>1. \/ SetStatusConditions(m, up, checking, Failing)
        \/ GoesOn(m, known) /\ UNCHANGED <<request, cache, queue>>
        \/ GoesOn(m, Failing) /\ UNCHANGED <<request, cache, queue>>
    BY <1>4 DEF EnterEnsureImageExists, GoesOn
  <2>2. /\ checking.br = Returned /\ checking.image = image
        /\ checking.listSeparate = SeparateModels[br.rev]
        /\ known.br = br /\ known.image = image /\ known.listSeparate = SeparateModels[br.rev]
    BY <1>1 DEF WorkerRecords
  <2>3. UNCHANGED clusterVars  BY <1>4 DEF EnterEnsureImageExists
  <2> HIDE DEF checking, known, up
  <2>4. Derives(m, checking) /\ Derives(m, known)  BY <2>2 DEF Derives
  <2>5. QED  BY <1>2, <1>3, <2>1, <2>3, <2>4, StatusDerives DEF GoesOnSomehow, Writes
<1>5. CASE CheckImageExists(m)
  <2> DEFINE next == [w EXCEPT !.br = Returned, !.pc = "checked",
                               !.imageExists = ~ForceBuild[br.rev] /\ ImageInRegistry(w.image)]
  <2>1. GoesOn(m, next) \/ GoesOn(m, Failing)
    BY <1>1, <1>5 DEF CheckImageExists, GoesOn
  <2>2. /\ next.br = Returned /\ next.image = w.image /\ next.listSeparate = w.listSeparate
        /\ w.pc = "checkImage"
    BY <1>1, <1>5 DEF CheckImageExists, At, WorkerRecords
  <2>3. UNCHANGED <<request, cache, queue>> /\ UNCHANGED clusterVars
    BY <1>5 DEF CheckImageExists
  <2> HIDE DEF next
  <2>4. Derives(m, next)  BY <2>2, FieldsDerive DEF AfterGetImageInfo
  <2>5. QED  BY <1>2, <1>3, <2>1, <2>3, <2>4 DEF GoesOnSomehow, Writes
<1>6. CASE RecordImageExists(m)
  <2> DEFINE up == [c \in {"ImageExists", "ImageExistsChecked"} |->
                       IF w.imageExists THEN CondMsg("True", w.image) ELSE Cond("False")]
             next == [w EXCEPT !.br = Returned,
                               !.pc = IF w.imageExists THEN "afterImage" ELSE "listJobs"]
  <2>1. /\ SetStatusConditions(m, up, next, Failing) /\ UNCHANGED clusterVars
        /\ w.pc = "checked"
    BY <1>6 DEF RecordImageExists, At
  <2>2. next.br = Returned /\ next.image = w.image /\ next.listSeparate = w.listSeparate
    BY <1>1 DEF WorkerRecords
  <2> HIDE DEF next, up
  <2>3. Derives(m, next)  BY <2>1, <2>2, FieldsDerive DEF AfterGetImageInfo
  <2>4. QED  BY <1>2, <1>3, <2>1, <2>3, StatusDerives
<1>7. CASE DeleteStaleJob(m)
  <2>1. /\ GoesOn(m, Building) \/ GoesOn(m, Failing)
        /\ UpdateStatus(m, AllUnknown(request.conds)) \/ UNCHANGED <<request, cache, queue>>
        /\ UNCHANGED jobs \/ \E names : MarkDeleted(names)
        /\ UNCHANGED bento
    BY <1>7 DEF DeleteStaleJob, GoesOn
  <2>2. JobsSettled  BY <2>1, WritesSettle
  <2>3. QED  BY <1>2, <2>1, <2>2 DEF GoesOnSomehow, Writes
<1>8. CASE CreateImageBuilderJob(m)
  <2>1. /\ GoesOn(m, Building) \/ GoesOn(m, Failing)
        /\ UNCHANGED <<request, cache, queue, bento>>
        /\ UNCHANGED jobs \/ CreateJob(BuilderJob(br.rev, w.image))
    BY <1>8 DEF CreateImageBuilderJob, GoesOn
  <2>2. BuilderJob(br.rev, w.image).phase = "Waiting"  BY DEF BuilderJob, NoJob
  <2>3. JobsSettled  BY <2>1, <2>2, WritesSettle
  <2>4. QED  BY <1>2, <2>1, <2>3 DEF GoesOnSomehow, Writes
<1>9. CASE KeepOneJob(m)
  <2>1. PICK kept \in JobNames :
          \/ worker' = [worker EXCEPT ![m].br = Returned, ![m].pc = "jobStatus",
                                      ![m].phase = cache[m].jobs[kept].phase]
          \/ GoesOn(m, Failing)
    BY <1>9 DEF KeepOneJob, ListedJobs, GoesOn
  <2> DEFINE next == [w EXCEPT !.br = Returned, !.pc = "jobStatus",
                               !.phase = cache[m].jobs[kept].phase]
  <2>2. GoesOn(m, next) \/ GoesOn(m, Failing)  BY <1>1, <2>1 DEF GoesOn
  <2>3. next.br = Returned /\ next.image = w.image /\ next.pc = "jobStatus" /\ w.pc = "listJobs"
    BY <1>1, <1>9 DEF KeepOneJob, At, WorkerRecords
  <2>4. UNCHANGED <<request, cache, queue, bento>> /\ \E names : MarkDeleted(names)
    BY <1>9 DEF KeepOneJob
  <2> HIDE DEF next
  <2>5. Derives(m, next)  BY <2>3, FieldsDerive DEF AfterGetImageInfo
  <2>6. JobsSettled  BY <2>4, WritesSettle
  <2>7. QED  BY <1>2, <2>2, <2>4, <2>5, <2>6 DEF GoesOnSomehow, Writes
<1>10. CASE ReportRunningJob(m) \/ ReportFailedJob(m)
  <2>1. /\ GoesOn(m, Building) \/ GoesOn(m, Failing)
        /\ Writes(m) /\ UNCHANGED clusterVars
    BY <1>10 DEF ReportRunningJob, ReportFailedJob, SetStatusConditions, GoesOn, Writes
  <2>2. QED  BY <1>2, <1>3, <2>1 DEF GoesOnSomehow
<1>11. CASE ReportSucceededJob(m)
  <2> DEFINE up == [c \in {"ImageBuilding", "ImageExists"} |->
                       IF c = "ImageBuilding" THEN Cond("False") ELSE CondMsg("True", w.image)]
             next == [w EXCEPT !.br = Returned, !.imageExists = TRUE, !.pc = "afterImage"]
  <2>1. /\ SetStatusConditions(m, up, next, Failing) /\ UNCHANGED clusterVars
        /\ w.pc = "jobStatus"
    BY <1>11 DEF ReportSucceededJob, At
  <2>2. next.br = Returned /\ next.image = w.image /\ next.pc = "afterImage"
    BY <1>1 DEF WorkerRecords
  <2> HIDE DEF next, up
  <2>3. Derives(m, next)  BY <2>1, <2>2, FieldsDerive DEF AfterGetImageInfo
  <2>4. QED  BY <1>2, <1>3, <2>1, <2>3, StatusDerives
<1>12. QED
  BY <1>4, <1>5, <1>6, <1>7, <1>8, <1>9, <1>10, <1>11 DEF ensureImageExists

LEMMA EnsureModelsExistsDerives ==
    ASSUME TypeOK, NEW m \in Managers, ensureModelsExists(m)
    PROVE  GoesOnSomehow(m) /\ Writes(m) /\ JobsSettled /\ UNCHANGED bento
<1> DEFINE br == BentoRequest(m)
           cached == cache[m].request
           w == worker[m]
<1>1. w \in WorkerRecords /\ worker \in [Managers -> Workers]  BY DEF TypeOK, Workers
<1>2. ASSUME NEW v \in WorkerRecords, NEW exists, NEW err, NEW conds
      PROVE  /\ Derives(m, ReturnModels(v, exists, err, Returned))
             /\ Derives(m, ReturnModels(v, exists, err, br))
             /\ Derives(m, ReturnModels(v, exists, err, InMemory(m, conds)))
  BY PlainDerives
<1>3. UNCHANGED clusterVars => JobsSettled /\ UNCHANGED bento
  BY WritesSettle DEF clusterVars
\* The places of this function come before getImageInfo.
<1>4. ASSUME NEW next, next.br = Returned \/ next.br = br \/ next.br = w.br,
             next.pc \in {"listSeeders", "deleteSeeders", "seed"}
      PROVE  Derives(m, next)
  BY <1>4, FieldsDerive DEF AfterGetImageInfo
<1>5. CASE EnterEnsureModelsExists(m)
  <2> DEFINE tags == ModelTags[br.rev]
             called == [w EXCEPT !.separate = TRUE]
             entered == [called EXCEPT !.br = br, !.tags = tags, !.pc = "listSeeders"]
             waiting == [entered EXCEPT !.br = Returned]
             notReady == [c \in {"ModelsExists"} |-> Cond("False")]
             gaveUp == ReturnModels(called, FALSE, TRUE,
                                    InMemory(m, Apply(cached.conds, notReady)))
             known == ReturnModels(called, TRUE, FALSE, br)
  <2>1. /\ \/ SetStatusConditions(m, notReady, waiting, gaveUp)
           \/ /\ GoesOn(m, known) \/ GoesOn(m, entered)
              /\ UNCHANGED <<request, cache, queue>>
        /\ UNCHANGED clusterVars
    BY <1>5 DEF EnterEnsureModelsExists, GoesOn
  <2>2. /\ called \in WorkerRecords /\ waiting.br = Returned /\ waiting.pc = "listSeeders"
        /\ entered.br = br /\ entered.pc = "listSeeders"
    BY <1>1 DEF WorkerRecords
  <2> HIDE DEF br, called, entered, waiting, notReady
  <2>3. Derives(m, gaveUp) /\ Derives(m, known)  BY <1>2, <2>2
  <2> HIDE DEF gaveUp, known
  <2>4. Derives(m, entered) /\ Derives(m, waiting)  BY <1>4, <2>2
  <2>5. QED  BY <1>3, <2>1, <2>3, <2>4, StatusDerives DEF GoesOnSomehow, Writes
<1>6. CASE ListSeederJobs(m) \/ StartSeeding(m)
  <2>1. UNCHANGED <<request, cache, queue>> /\ UNCHANGED clusterVars
    BY <1>6 DEF ListSeederJobs, StartSeeding
  <2>2. Derives(m, worker'[m])  BY <1>4, <1>6, SeedersAreListed
  <2>3. QED  BY <1>3, <1>6, <2>1, <2>2, SeedersAreListed DEF GoesOnSomehow, Writes
<1>7. CASE DeleteStaleSeeder(m)
  <2> DEFINE gaveUp == ReturnModels(w, FALSE, TRUE, InMemory(m, AllUnknown(cached.conds)))
             failed == ReturnModels(w, FALSE, TRUE, br)
  <2>1. PICK j \in w.stale :
          /\ MarkDeleted({j}) \/ UNCHANGED jobs
          /\ \/ /\ UpdateStatus(m, AllUnknown(request.conds))
                /\ worker' = [worker EXCEPT ![m].br = Returned, ![m].stale = @ \ {j}]
             \/ /\ GoesOn(m, gaveUp) \/ GoesOn(m, failed)
                /\ UNCHANGED <<request, cache, queue>>
    BY <1>7 DEF DeleteStaleSeeder, ReturnError, GoesOn
  <2> DEFINE next == [w EXCEPT !.br = Returned, !.stale = @ \ {j}]
  <2>2. next.pc = "deleteSeeders" /\ next.br = Returned /\ UNCHANGED bento
    BY <1>1, <1>7 DEF DeleteStaleSeeder, At, WorkerRecords
  <2>3. \/ UpdateStatus(m, AllUnknown(request.conds)) /\ GoesOn(m, next)
        \/ /\ GoesOn(m, gaveUp) \/ GoesOn(m, failed)
           /\ UNCHANGED <<request, cache, queue>>
    BY <1>1, <2>1 DEF GoesOn
  <2> HIDE DEF next
  <2>4. Derives(m, next) /\ Derives(m, gaveUp) /\ Derives(m, failed)
    BY <1>1, <1>2, <1>4, <2>2
  <2> HIDE DEF gaveUp, failed
  <2>5. JobsSettled  BY <2>1, WritesSettle
  <2>6. QED  BY <2>2, <2>3, <2>4, <2>5 DEF GoesOnSomehow, Writes
<1>8. CASE DeleteOrphanSeeder(m)
  <2> DEFINE failed == ReturnModels(w, FALSE, TRUE, br)
  <2>1. PICK j \in w.orphans :
          /\ MarkDeleted({j}) \/ UNCHANGED jobs
          /\ \/ worker' = [worker EXCEPT ![m].orphans = @ \ {j}]
             \/ GoesOn(m, failed)
    BY <1>8 DEF DeleteOrphanSeeder, ReturnError, GoesOn
  <2> DEFINE next == [w EXCEPT !.orphans = @ \ {j}]
  <2>2. /\ next.pc = "deleteSeeders" /\ next.br = w.br
        /\ UNCHANGED <<request, cache, queue, bento>>
    BY <1>1, <1>8 DEF DeleteOrphanSeeder, At, WorkerRecords
  <2>3. GoesOn(m, next) \/ GoesOn(m, failed)  BY <1>1, <2>1 DEF GoesOn
  <2> HIDE DEF next
  <2>4. Derives(m, next) /\ Derives(m, failed)  BY <1>1, <1>2, <1>4, <2>2
  <2> HIDE DEF failed
  <2>5. JobsSettled  BY <2>1, WritesSettle
  <2>6. QED  BY <2>2, <2>3, <2>4, <2>5 DEF GoesOnSomehow, Writes
<1>9. CASE CreateSeederJob(m)
  <2> DEFINE failed == ReturnModels(w, FALSE, TRUE, br)
  <2>1. PICK model \in w.toSeed :
          \/ /\ CreateJob(SeederJob(br.rev, model))
             /\ worker' = [worker EXCEPT ![m].toSeed = @ \ {model}]
          \/ UNCHANGED jobs /\ GoesOn(m, failed)
    BY <1>9 DEF CreateSeederJob, ReturnError, GoesOn
  <2> DEFINE next == [w EXCEPT !.toSeed = @ \ {model}]
  <2>2. /\ next.pc = "seed" /\ next.br = w.br
        /\ UNCHANGED <<request, cache, queue, bento>>
    BY <1>1, <1>9 DEF CreateSeederJob, At, WorkerRecords
  <2>3. GoesOn(m, next) \/ GoesOn(m, failed)  BY <1>1, <2>1 DEF GoesOn
  <2> HIDE DEF next
  <2>4. Derives(m, next) /\ Derives(m, failed)  BY <1>1, <1>2, <1>4, <2>2
  <2> HIDE DEF failed
  <2>5. SeederJob(br.rev, model).phase = "Waiting"  BY DEF SeederJob, NoJob
  <2>6. JobsSettled  BY <2>1, <2>5, WritesSettle
  <2>7. QED  BY <2>2, <2>3, <2>4, <2>6 DEF GoesOnSomehow, Writes
<1>10. CASE ReportFailedSeeders(m) \/ ReportSeeding(m)
  <2>1. PICK up, exists, err :
          /\ SetStatusConditions(m, up, ReturnModels(w, exists, err, Returned),
                ReturnModels(w, exists, TRUE, InMemory(m, Apply(cached.conds, up))))
          /\ UNCHANGED clusterVars
    BY <1>10 DEF ReportFailedSeeders, ReportSeeding
  <2>2. QED  BY <1>1, <1>2, <1>3, <2>1, StatusDerives
<1>11. QED
  BY <1>5, <1>6, <1>7, <1>8, <1>9, <1>10 DEF ensureModelsExists

LEMMA ReconcileDerives ==
    ASSUME TypeOK, NEW m \in Managers, Reconcile(m)
    PROVE  /\ GoesOnSomehow(m) /\ RequestFrame(m) /\ JobsSettled
           /\ bento # NoBento => bento' # NoBento
<1> DEFINE br == BentoRequest(m)
           cached == cache[m].request
           w == worker[m]
<1>1. w \in WorkerRecords /\ worker \in [Managers -> Workers]  BY DEF TypeOK, Workers
<1>2. /\ Derives(m, Idle) /\ Derives(m, Failing)
      /\ Derives(m, [Idle EXCEPT !.pc = "available"])
  BY PlainDerives
<1>3. UNCHANGED clusterVars => JobsSettled /\ UNCHANGED bento
  BY WritesSettle DEF clusterVars
<1>4. Writes(m) => RequestFrame(m)  BY WritesFrame
<1>5. CASE StartReconcile(m)
  <2>1. /\ \/ GoesOn(m, Idle)
           \/ GoesOn(m, [Idle EXCEPT !.br = cached, !.pc = "init"])
           \/ GoesOn(m, [Idle EXCEPT !.br = cached, !.pc = "mark"])
        /\ queue' = [queue EXCEPT ![m] = FALSE]
        /\ UNCHANGED <<request, cache>> /\ UNCHANGED clusterVars
    BY <1>5 DEF StartReconcile, GoesOn
  <2>2. /\ Derives(m, [Idle EXCEPT !.br = cached, !.pc = "init"])
        /\ Derives(m, [Idle EXCEPT !.br = cached, !.pc = "mark"])
    BY DEF Derives, Idle, AfterGetImageInfo
  <2>3. RequestFrame(m)  BY <1>5, <2>1 DEF RequestFrame, TypeOK
  <2>4. GoesOnSomehow(m)  BY <1>2, <2>1, <2>2 DEF GoesOnSomehow
  <2>5. QED  BY <1>3, <2>1, <2>3, <2>4
<1>6. CASE InitConditions(m)
  <2> DEFINE next == [w EXCEPT !.br = Returned, !.pc = "mark"]
  <2>1. /\ \/ Writes(m) /\ GoesOn(m, next)
           \/ /\ GoesOn(m, Idle)
              /\ queue' = [queue EXCEPT ![m] = TRUE]
              /\ UNCHANGED <<request, cache>>
        /\ UNCHANGED clusterVars
    BY <1>1, <1>6 DEF InitConditions, GoesOn, Writes
  <2>2. next.br = Returned /\ next.pc = "mark"  BY <1>1 DEF WorkerRecords
  <2> HIDE DEF next
  <2>3. Derives(m, next)  BY <2>2 DEF Derives, AfterGetImageInfo
  <2>4. RequestFrame(m)  BY <1>4, <2>1 DEF RequestFrame, TypeOK
  <2>5. QED  BY <1>2, <1>3, <2>1, <2>3, <2>4 DEF GoesOnSomehow
<1>7. CASE MarkReconciling(m)
  <2> DEFINE up == [c \in {"BentoAvailable"} |-> Cond("Unknown")]
             next == [w EXCEPT !.br = Returned, !.pc = "marked"]
             known == [w EXCEPT !.br = br, !.pc = "marked"]
  <2>1. /\ \/ SetStatusConditions(m, up, next, Failing)
           \/ GoesOn(m, known) /\ UNCHANGED <<request, cache, queue>>
        /\ UNCHANGED clusterVars
    BY <1>1, <1>7 DEF MarkReconciling, GoesOn
  <2>2. next.br = Returned /\ next.pc = "marked" /\ known.br = br /\ known.pc = "marked"
    BY <1>1 DEF WorkerRecords
  <2> HIDE DEF next, known, up
  <2>3. Derives(m, next) /\ Derives(m, known)  BY <2>2 DEF Derives, AfterGetImageInfo
  <2>4. QED  BY <1>2, <1>3, <1>4, <2>1, <2>3, StatusDerives DEF GoesOnSomehow, Writes
<1>8. CASE ensureModelsExists(m)  BY <1>4, <1>8, EnsureModelsExistsDerives
<1>9. CASE ensureImageExists(m)  BY <1>4, <1>9, EnsureImageExistsDerives
<1>10. CASE AwaitImage(m) \/ AwaitModels(m) \/ SetAvailable(m)
  <2>1. PICK up : SetStatusConditions(m, up, Idle, Failing) /\ UNCHANGED clusterVars
    BY <1>10 DEF AwaitImage, AwaitModels, SetAvailable
  <2>2. QED  BY <1>2, <1>3, <1>4, <2>1, StatusDerives
<1>11. CASE ReturnModelsError(m)
  <2>1. GoesOn(m, Failing) /\ UNCHANGED <<request, cache, queue>> /\ UNCHANGED clusterVars
    BY <1>11 DEF ReturnModelsError, GoesOn
  <2>2. QED  BY <1>2, <1>3, <1>4, <2>1 DEF GoesOnSomehow, Writes
<1>12. CASE CleanUpSeeders(m) \/ SkipSeeders(m)
  <2> DEFINE next == [w EXCEPT !.br = br, !.pc = "bento"]
  <2>1. /\ GoesOn(m, next) /\ UNCHANGED <<request, cache, queue, bento>>
        /\ \/ UNCHANGED jobs
           \/ \E done : jobs' = [j \in JobNames |-> IF j \in done THEN NoJob ELSE jobs[j]]
        /\ w.pc = "afterImage"
    BY <1>1, <1>12 DEF CleanUpSeeders, SkipSeeders, GoesOn, clusterVars, At
  <2>2. next.br = br /\ next.pc = "bento" /\ next.image = w.image  BY <1>1 DEF WorkerRecords
  <2> HIDE DEF next
  <2>3. Derives(m, next)  BY <2>1, <2>2, FieldsDerive DEF AfterGetImageInfo
  <2>4. JobsSettled  BY <2>1, WritesSettle
  <2>5. QED  BY <1>4, <2>1, <2>3, <2>4 DEF GoesOnSomehow, Writes
<1>13. CASE CreateBento(m)
  <2>1. /\ UNCHANGED <<request, cache, jobs>>
        /\ \A n \in Managers : queue[n] => queue'[n]
        /\ bento'.rev = br.rev \/ UNCHANGED bento
        /\ GoesOn(m, [Idle EXCEPT !.pc = "available"]) \/ GoesOn(m, Failing)
    BY <1>13 DEF CreateBento, GoesOn, TypeOK
  <2>2. bento'.rev = br.rev => bento' # NoBento
    BY BentoRequestType, RevisionAssumption DEF NoBento
  <2>3. JobsSettled  BY <2>1, WritesSettle
  <2>4. RequestFrame(m)  BY <2>1 DEF RequestFrame
  <2>5. QED  BY <1>2, <2>1, <2>2, <2>3, <2>4 DEF GoesOnSomehow
<1>14. CASE HandleError(m)
  <2>1. /\ GoesOn(m, Idle) /\ UNCHANGED clusterVars
        /\ \/ cache' = [cache EXCEPT ![m].request = request]
           \/ cache' = cache
        /\ queue' = [queue EXCEPT ![m] = TRUE]
        /\ request'.rev = request.rev /\ request'.generation = request.generation
    BY <1>14 DEF HandleError, GoesOn, TypeOK, Requests
  <2>2. RequestFrame(m)  BY <2>1 DEF RequestFrame, TypeOK
  <2>3. QED  BY <1>2, <1>3, <2>1, <2>2 DEF GoesOnSomehow
<1>15. QED
  BY <1>5, <1>6, <1>7, <1>8, <1>9, <1>10, <1>11, <1>12, <1>13, <1>14, Reconcile(m)
  DEF Reconcile

LEMMA IdleCallsStart ==
    ASSUME NEW m \in Managers, Reconcile(m), ~StartReconcile(m)
    PROVE  ~At(m, "idle")
BY DEF Reconcile, InitConditions, MarkReconciling, AwaitImage, ReturnModelsError, AwaitModels,
       CleanUpSeeders, SkipSeeders, CreateBento, SetAvailable, HandleError, At,
       ensureImageExists, EnterEnsureImageExists, CheckImageExists, RecordImageExists,
       DeleteStaleJob, CreateImageBuilderJob, KeepOneJob, ReportRunningJob, ReportFailedJob,
       ReportSucceededJob, ensureModelsExists, EnterEnsureModelsExists, ListSeederJobs,
       DeleteStaleSeeder, DeleteOrphanSeeder, StartSeeding, CreateSeederJob,
       ReportFailedSeeders, ReportSeeding

\* A call that hears nothing anew goes by the present request before and after its step.
LEMMA StaysCurrent ==
    ASSUME TypeOK, RequestIsAttended, NEW m \in Managers, Reconcile(m), ~HearsAnew(m)'
    PROVE  CallIsCurrent(m) /\ RemembersJobs(m) /\ CallIsCurrent(m)'
<1>1. RequestFrame(m) /\ GoesOnSomehow(m)  BY ReconcileDerives
<1>2. KeepsUp(m)  BY DEF RequestIsAttended
<1>3. cache[m].request.generation = request.generation
  BY <1>1 DEF RequestFrame, HearsAnew
<1>4. cache[m].request.rev = request.rev  BY <1>2, <1>3 DEF KeepsUp
<1>5. CallIsCurrent(m) /\ RemembersJobs(m)
  <2>1. CASE StartReconcile(m)
    BY <2>1 DEF StartReconcile, At, CallIsCurrent, RemembersJobs
  <2>2. CASE ~StartReconcile(m)
    <3>1. ~HearsAnew(m)  BY <1>1, <1>3, <2>2 DEF RequestFrame, HearsAnew
    <3>2. QED  BY <1>2, <3>1 DEF KeepsUp
  <2>3. QED  BY <2>1, <2>2
<1>6. cache'[m].request.rev = request.rev /\ request'.rev = request.rev
  BY <1>1, <1>4 DEF RequestFrame, TypeOK, Caches
<1>7. CASE StartReconcile(m)
  <2>1. \/ worker'[m] = Idle
        \/ worker'[m].br = cache[m].request /\ worker'[m].pc \in {"init", "mark"}
    BY <1>7 DEF StartReconcile, TypeOK, Idle
  <2>2. QED
    BY <1>4, <1>5, <1>6, <2>1 DEF CallIsCurrent, BentoRequest, At, AfterGetImageInfo, Idle
<1>8. CASE ~StartReconcile(m)
  <2>1. ~At(m, "idle")  BY <1>8, IdleCallsStart
  <2>2. /\ BentoRequest(m).rev = request.rev
        /\ worker[m].pc \in AfterGetImageInfo => worker[m].image = ImageName[request.rev]
        /\ worker[m].pc \in {"checkImage", "checked", "listJobs"}
              => worker[m].listSeparate = SeparateModels[request.rev]
    BY <1>5, <2>1 DEF CallIsCurrent
  <2>3. PICK next : GoesOn(m, next) /\ Derives(m, next)  BY <1>1 DEF GoesOnSomehow
  <2>4. worker'[m] = next  BY <2>3, Continues
  <2>5. next.br = Returned \/ next.br.rev = request.rev  BY <1>4, <2>2, <2>3 DEF Derives
  <2>6. BentoRequest(m)'.rev = request.rev  BY <1>6, <2>4, <2>5 DEF BentoRequest
  <2>7. QED  BY <1>5, <1>6, <2>2, <2>3, <2>4, <2>6 DEF CallIsCurrent, Derives
<1>9. QED  BY <1>7, <1>8

-----------------------------------------------------------------------------
(* Who says that the Bento is available. *)

LEMMA FailingFields ==
    /\ Failing.pc = "fail" /\ Building.pc = "building" /\ Idle.pc = "idle"
    /\ Failing.pc \in BusyPlaces
    /\ Failing.pc \notin {"jobStatus", "deleteSeeders"}
    /\ Building.pc \notin {"jobStatus", "deleteSeeders"}
    /\ Idle.pc \notin {"jobStatus", "deleteSeeders"}
BY DEF Failing, Building, Idle, BusyPlaces

\* The step claims nothing about the Bento.
ClaimsNoBento(m) == ~Available' /\ worker'[m].pc # "available"

LEMMA StatusClaimsNoBento ==
    ASSUME TypeOK, NEW m \in Managers, ~Available, NEW updates, NEW ok, NEW failed,
           SetStatusConditions(m, updates, ok, failed),
           "BentoAvailable" \in DOMAIN updates => updates["BentoAvailable"].status # "True",
           ok.pc # "available", failed.pc # "available"
    PROVE  ClaimsNoBento(m)
<1>1. request.conds["BentoAvailable"].status # "True"  BY DEF Available
<1>2. "BentoAvailable" \in ConditionTypes  BY DEF ConditionTypes
<1>3. Apply(request.conds, updates)["BentoAvailable"].status # "True"
  BY <1>1, <1>2 DEF Apply
<1>4. CASE UpdateStatus(m, Apply(request.conds, updates)) /\ worker' = [worker EXCEPT ![m] = ok]
  <2>1. request'.conds = Apply(request.conds, updates)
    BY <1>4 DEF UpdateStatus, TypeOK, Requests
  <2>2. worker'[m] = ok  BY <1>4 DEF TypeOK
  <2>3. QED  BY <1>3, <2>1, <2>2 DEF ClaimsNoBento, Available
<1>5. CASE UNCHANGED request /\ worker' = [worker EXCEPT ![m] = failed]
  <2>1. worker'[m] = failed  BY <1>5 DEF TypeOK
  <2>2. QED  BY <1>5, <2>1 DEF ClaimsNoBento, Available
<1>6. QED  BY <1>4, <1>5 DEF SetStatusConditions

\* Without a status update, or with all conditions Unknown.
LEMMA CallClaimsNoBento ==
    ASSUME TypeOK, NEW m \in Managers, ~Available,
           UNCHANGED request \/ UpdateStatus(m, AllUnknown(request.conds)),
           NEW w, GoesOn(m, w), w.pc # "available"
    PROVE  ClaimsNoBento(m)
<1>1. worker'[m] = w  BY Continues
<1>2. "BentoAvailable" \in ConditionTypes  BY DEF ConditionTypes
<1>3. AllUnknown(request.conds)["BentoAvailable"].status # "True"
  BY <1>2 DEF AllUnknown, Cond
<1>4. ~Available'
  <2>1. CASE UNCHANGED request  BY <2>1 DEF Available
  <2>2. CASE UpdateStatus(m, AllUnknown(request.conds))
    <3>1. request'.conds = AllUnknown(request.conds)
      BY <2>2 DEF UpdateStatus, TypeOK, Requests
    <3>2. QED  BY <1>3, <3>1 DEF Available
  <2>3. QED  BY <2>1, <2>2
<1>5. QED  BY <1>1, <1>4 DEF ClaimsNoBento

LEMMA EnsureImageExistsClaimsNoBento ==
    ASSUME TypeOK, NEW m \in Managers, ~Available, ensureImageExists(m)
    PROVE  ClaimsNoBento(m)
<1> DEFINE w == worker[m]
<1>1. w \in WorkerRecords /\ worker \in [Managers -> Workers]  BY DEF TypeOK, Workers
<1>2. Failing.pc # "available" /\ Building.pc # "available"  BY FailingFields
<1>3. GoesOn(m, Failing) \/ GoesOn(m, Building) =>
        (UNCHANGED request \/ UpdateStatus(m, AllUnknown(request.conds)) => ClaimsNoBento(m))
  BY <1>2, CallClaimsNoBento
<1>4. /\ Cond("Unknown").status # "True" /\ Cond("False").status # "True"  BY DEF Cond
<1>5. CASE EnterEnsureImageExists(m)
  <2> DEFINE br == BentoRequest(m)
             image == ImageName[br.rev]
             entered == [w EXCEPT !.br = br, !.image = image,
                                  !.separate = SeparateFlag(m, br.rev),
                                  !.listSeparate = SeparateModels[br.rev]]
             up == [c \in {"ImageExistsChecked", "BentoAvailable"} |->
                       IF c = "ImageExistsChecked" THEN CondMsg("Unknown", image)
                                                   ELSE Cond("Unknown")]
             checking == [entered EXCEPT !.br = Returned, !.pc = "checkImage"]
             found == ImageExistsCondition(br.conds, image)
             known == [entered EXCEPT !.imageExists = found,
                                      !.pc = IF found THEN "afterImage" ELSE "listJobs"]
  <2>1. \/ SetStatusConditions(m, up, checking, Failing)
        \/ GoesOn(m, known) /\ UNCHANGED request
        \/ GoesOn(m, Failing) /\ UNCHANGED request
    BY <1>5 DEF EnterEnsureImageExists, GoesOn
  <2>2. up["BentoAvailable"].status # "True"  BY <1>4
  <2>3. checking.pc # "available" /\ known.pc # "available"  BY <1>1 DEF WorkerRecords
  <2> HIDE DEF up, checking, known
  <2>4. QED  BY <1>2, <1>3, <2>1, <2>2, <2>3, StatusClaimsNoBento, CallClaimsNoBento
<1>6. CASE CheckImageExists(m)
  <2> DEFINE next == [w EXCEPT !.br = Returned, !.pc = "checked",
                               !.imageExists = /\ ~ForceBuild[BentoRequest(m).rev]
                                               /\ ImageInRegistry(w.image)]
  <2>1. (GoesOn(m, next) \/ GoesOn(m, Failing)) /\ UNCHANGED request
    BY <1>1, <1>6 DEF CheckImageExists, GoesOn
  <2>2. next.pc # "available"  BY <1>1 DEF WorkerRecords
  <2>3. QED  BY <1>3, <2>1, <2>2, CallClaimsNoBento
<1>7. CASE RecordImageExists(m)
  <2> DEFINE up == [c \in {"ImageExists", "ImageExistsChecked"} |->
                       IF w.imageExists THEN CondMsg("True", w.image) ELSE Cond("False")]
             next == [w EXCEPT !.br = Returned,
                               !.pc = IF w.imageExists THEN "afterImage" ELSE "listJobs"]
  <2>1. SetStatusConditions(m, up, next, Failing)  BY <1>7 DEF RecordImageExists
  <2>2. next.pc # "available" /\ "BentoAvailable" \notin DOMAIN up
    BY <1>1 DEF WorkerRecords
  <2> HIDE DEF up, next
  <2>3. QED  BY <1>2, <2>1, <2>2, StatusClaimsNoBento
<1>8. CASE DeleteStaleJob(m)
  BY <1>3, <1>8 DEF DeleteStaleJob, GoesOn
<1>9. CASE CreateImageBuilderJob(m)
  BY <1>3, <1>9 DEF CreateImageBuilderJob, GoesOn
<1>10. CASE KeepOneJob(m)
  <2>1. PICK phase :
          \/ worker' = [worker EXCEPT ![m].br = Returned, ![m].pc = "jobStatus", ![m].phase = phase]
          \/ GoesOn(m, Failing)
    BY <1>10 DEF KeepOneJob, GoesOn
  <2> DEFINE next == [w EXCEPT !.br = Returned, !.pc = "jobStatus", !.phase = phase]
  <2>2. GoesOn(m, next) \/ GoesOn(m, Failing)  BY <1>1, <2>1 DEF GoesOn
  <2>3. next.pc # "available" /\ UNCHANGED request
    BY <1>1, <1>10 DEF KeepOneJob, WorkerRecords
  <2>4. QED  BY <1>3, <2>2, <2>3, CallClaimsNoBento
<1>11. CASE ReportRunningJob(m)
  <2>1. PICK status :
          \/ SetStatusConditions(m, [c \in {"ImageBuilding"} |-> Cond(status)], Building, Failing)
          \/ /\ UpdateStatus(m, Apply(request.conds, [c \in {"ImageBuilding"} |-> Cond("False")]))
             /\ GoesOn(m, Failing)
    BY <1>11 DEF ReportRunningJob, GoesOn
  <2>2. \A s : "BentoAvailable" \notin DOMAIN [c \in {"ImageBuilding"} |-> Cond(s)]
    OBVIOUS
  <2>3. ASSUME NEW up, "BentoAvailable" \notin DOMAIN up,
               UpdateStatus(m, Apply(request.conds, up)), GoesOn(m, Failing)
        PROVE  ClaimsNoBento(m)
    <3>1. worker'[m] = Failing  BY <2>3, Continues
    <3>2. request'.conds["BentoAvailable"] = request.conds["BentoAvailable"]
      BY <2>3 DEF UpdateStatus, TypeOK, Requests, Apply, ConditionTypes
    <3>3. QED  BY <1>2, <3>1, <3>2 DEF ClaimsNoBento, Available
  <2>4. QED  BY <1>2, <2>1, <2>2, <2>3, StatusClaimsNoBento
<1>12. CASE ReportFailedJob(m)
  <2> DEFINE up == [c \in {"ImageBuilding", "BentoAvailable"} |-> Cond("False")]
  <2>1. SetStatusConditions(m, up, Building, Failing) /\ up["BentoAvailable"].status # "True"
    BY <1>4, <1>12 DEF ReportFailedJob
  <2>2. QED  BY <1>2, <2>1, StatusClaimsNoBento
<1>13. CASE ReportSucceededJob(m)
  <2> DEFINE up == [c \in {"ImageBuilding", "ImageExists"} |->
                       IF c = "ImageBuilding" THEN Cond("False") ELSE CondMsg("True", w.image)]
             next == [w EXCEPT !.br = Returned, !.imageExists = TRUE, !.pc = "afterImage"]
  <2>1. SetStatusConditions(m, up, next, Failing)  BY <1>13 DEF ReportSucceededJob
  <2>2. next.pc # "available" /\ "BentoAvailable" \notin DOMAIN up
    BY <1>1 DEF WorkerRecords
  <2> HIDE DEF up, next
  <2>3. QED  BY <1>2, <2>1, <2>2, StatusClaimsNoBento
<1>14. QED
  BY <1>5, <1>6, <1>7, <1>8, <1>9, <1>10, <1>11, <1>12, <1>13 DEF ensureImageExists

LEMMA EnsureModelsExistsClaimsNoBento ==
    ASSUME TypeOK, NEW m \in Managers, ~Available, ensureModelsExists(m)
    PROVE  ClaimsNoBento(m)
<1> DEFINE br == BentoRequest(m)
           cached == cache[m].request
           w == worker[m]
<1>1. w \in WorkerRecords /\ worker \in [Managers -> Workers]  BY DEF TypeOK, Workers
<1>2. ASSUME NEW v \in WorkerRecords, NEW exists, NEW err, NEW r
      PROVE  ReturnModels(v, exists, err, r).pc # "available"
  BY DEF ReturnModels, WorkerRecords
<1>3. ASSUME UNCHANGED request, NEW v \in WorkerRecords, NEW exists, NEW err, NEW r,
             GoesOn(m, ReturnModels(v, exists, err, r))
      PROVE  ClaimsNoBento(m)
  BY <1>2, <1>3, CallClaimsNoBento
<1>4. CASE EnterEnsureModelsExists(m)
  <2> DEFINE called == [w EXCEPT !.separate = TRUE]
             entered == [called EXCEPT !.br = br, !.tags = ModelTags[br.rev], !.pc = "listSeeders"]
             waiting == [entered EXCEPT !.br = Returned]
             notReady == [c \in {"ModelsExists"} |-> Cond("False")]
             gaveUp == ReturnModels(called, FALSE, TRUE,
                                    InMemory(m, Apply(cached.conds, notReady)))
             known == ReturnModels(called, TRUE, FALSE, br)
  <2>1. \/ SetStatusConditions(m, notReady, waiting, gaveUp)
        \/ (GoesOn(m, known) \/ GoesOn(m, entered)) /\ UNCHANGED request
    BY <1>4 DEF EnterEnsureModelsExists, GoesOn
  <2>2. called \in WorkerRecords  BY <1>1 DEF WorkerRecords
  <2>3. waiting.pc # "available" /\ entered.pc # "available"  BY <1>1 DEF WorkerRecords
  <2>4. gaveUp.pc # "available"  BY <1>2, <2>2
  <2>5. "BentoAvailable" \notin DOMAIN notReady  OBVIOUS
  <2>6. GoesOn(m, known) /\ UNCHANGED request => ClaimsNoBento(m)  BY <1>3, <2>2
  <2> HIDE DEF called, entered, waiting, notReady, gaveUp, known
  <2>7. QED  BY <2>1, <2>3, <2>4, <2>5, <2>6, StatusClaimsNoBento, CallClaimsNoBento
<1>5. CASE ListSeederJobs(m) \/ StartSeeding(m)
  BY <1>5, SeedersAreListed, CallClaimsNoBento DEF ListSeederJobs, StartSeeding
<1>6. CASE DeleteStaleSeeder(m)
  <2>1. PICK j \in w.stale :
          \/ /\ UpdateStatus(m, AllUnknown(request.conds))
             /\ worker' = [worker EXCEPT ![m].br = Returned, ![m].stale = @ \ {j}]
          \/ /\ \E r : GoesOn(m, ReturnModels(w, FALSE, TRUE, r))
             /\ UNCHANGED request
    BY <1>6 DEF DeleteStaleSeeder, ReturnError, GoesOn
  <2> DEFINE next == [w EXCEPT !.br = Returned, !.stale = @ \ {j}]
  <2>2. next.pc = "deleteSeeders"  BY <1>1, <1>6 DEF DeleteStaleSeeder, At, WorkerRecords
  <2>3. \/ GoesOn(m, next) /\ UpdateStatus(m, AllUnknown(request.conds))
        \/ UNCHANGED request /\ \E r : GoesOn(m, ReturnModels(w, FALSE, TRUE, r))
    BY <1>1, <2>1 DEF GoesOn
  <2> HIDE DEF next
  <2>4. QED  BY <1>1, <1>3, <2>2, <2>3, CallClaimsNoBento
<1>7. CASE DeleteOrphanSeeder(m)
  <2>1. PICK j \in w.orphans :
          \/ worker' = [worker EXCEPT ![m].orphans = @ \ {j}]
          \/ \E r : GoesOn(m, ReturnModels(w, FALSE, TRUE, r))
    BY <1>7 DEF DeleteOrphanSeeder, ReturnError, GoesOn
  <2> DEFINE next == [w EXCEPT !.orphans = @ \ {j}]
  <2>2. next.pc = "deleteSeeders"  BY <1>1, <1>7 DEF DeleteOrphanSeeder, At, WorkerRecords
  <2>3. GoesOn(m, next) \/ \E r : GoesOn(m, ReturnModels(w, FALSE, TRUE, r))
    BY <1>1, <2>1 DEF GoesOn
  <2>4. UNCHANGED request  BY <1>7 DEF DeleteOrphanSeeder
  <2> HIDE DEF next
  <2>5. QED  BY <1>1, <1>3, <2>2, <2>3, <2>4, CallClaimsNoBento
<1>8. CASE CreateSeederJob(m)
  <2>1. PICK model \in w.toSeed :
          \/ worker' = [worker EXCEPT ![m].toSeed = @ \ {model}]
          \/ \E r : GoesOn(m, ReturnModels(w, FALSE, TRUE, r))
    BY <1>8 DEF CreateSeederJob, ReturnError, GoesOn
  <2> DEFINE next == [w EXCEPT !.toSeed = @ \ {model}]
  <2>2. next.pc = "seed"  BY <1>1, <1>8 DEF CreateSeederJob, At, WorkerRecords
  <2>3. GoesOn(m, next) \/ \E r : GoesOn(m, ReturnModels(w, FALSE, TRUE, r))
    BY <1>1, <2>1 DEF GoesOn
  <2>4. UNCHANGED request  BY <1>8 DEF CreateSeederJob
  <2> HIDE DEF next
  <2>5. QED  BY <1>1, <1>3, <2>2, <2>3, <2>4, CallClaimsNoBento
<1>9. CASE ReportFailedSeeders(m) \/ ReportSeeding(m)
  <2>1. PICK up, exists, err, conds :
          /\ SetStatusConditions(m, up, ReturnModels(w, exists, err, Returned),
                                 ReturnModels(w, exists, TRUE, InMemory(m, conds)))
          /\ "BentoAvailable" \in DOMAIN up => up["BentoAvailable"].status # "True"
    <3>1. CASE ReportFailedSeeders(m)
      <4> DEFINE up == [c \in {"ModelsExists", "BentoAvailable"} |-> Cond("False")]
      <4>1. up["BentoAvailable"].status # "True"  BY DEF Cond
      <4> HIDE DEF up
      <4>2. SetStatusConditions(m, up, ReturnModels(w, FALSE, TRUE, Returned),
               ReturnModels(w, FALSE, TRUE, InMemory(m, Apply(cached.conds, up))))
        BY <3>1 DEF ReportFailedSeeders, up
      <4>3. QED  BY <4>1, <4>2
    <3>2. CASE ReportSeeding(m)
      <4> DEFINE exists == AllSeeded(m)
                 up == IF exists
                       THEN [c \in {"ModelsExists", "ModelsSeeding"} |->
                                IF c = "ModelsExists" THEN CondMsg("True", w.tags)
                                                      ELSE Cond("False")]
                       ELSE [c \in {"ModelsSeeding"} |-> Cond("True")]
      <4>1. "BentoAvailable" \notin DOMAIN up  OBVIOUS
      <4>2. SetStatusConditions(m, up, ReturnModels(w, exists, FALSE, Returned),
               ReturnModels(w, exists, TRUE, InMemory(m, Apply(cached.conds, up))))
        BY <3>2 DEF ReportSeeding
      <4> HIDE DEF up, exists
      <4>3. QED  BY <4>1, <4>2
    <3>3. QED  BY <1>9, <3>1, <3>2
  <2>2. /\ ReturnModels(w, exists, err, Returned).pc # "available"
        /\ ReturnModels(w, exists, TRUE, InMemory(m, conds)).pc # "available"
    BY <1>1, <1>2
  <2>3. QED  BY <2>1, <2>2, StatusClaimsNoBento
<1>10. QED
  BY <1>4, <1>5, <1>6, <1>7, <1>8, <1>9 DEF ensureModelsExists

\* As long as there is no Bento, only its creation leads to a claim that there is one.
LEMMA StaysAvailable ==
    ASSUME TypeOK, RequestIsAttended, NEW m \in Managers, Reconcile(m)
    PROVE  AvailabilityIsTrue'
<1> DEFINE w == worker[m]
<1>1. AvailabilityIsTrue  BY DEF RequestIsAttended
<1>2. CASE bento # NoBento
  <2>1. bento' # NoBento  BY <1>2, ReconcileDerives
  <2>2. QED  BY <2>1 DEF AvailabilityIsTrue
<1>3. CASE bento = NoBento
  <2>1. ~Available /\ \A n \in Managers : ~KnowsAvailable(n) /\ ~At(n, "available")
    BY <1>1, <1>3 DEF AvailabilityIsTrue
  <2>2. w \in WorkerRecords /\ worker \in [Managers -> Workers]  BY DEF TypeOK, Workers
  <2>3. Failing.pc # "available" /\ Idle.pc # "available"  BY FailingFields
  <2>4. bento' # NoBento \/ ClaimsNoBento(m)
    <3>1. ASSUME NEW next, GoesOn(m, next), next.pc # "available", UNCHANGED request
          PROVE  ClaimsNoBento(m)
      BY <2>1, <3>1, CallClaimsNoBento
    <3>2. CASE StartReconcile(m)
      <4>1. \/ GoesOn(m, Idle)
            \/ GoesOn(m, [Idle EXCEPT !.br = cache[m].request, !.pc = "init"])
            \/ GoesOn(m, [Idle EXCEPT !.br = cache[m].request, !.pc = "mark"])
        BY <3>2 DEF StartReconcile, GoesOn
      <4>2. /\ [Idle EXCEPT !.br = cache[m].request, !.pc = "init"].pc # "available"
            /\ [Idle EXCEPT !.br = cache[m].request, !.pc = "mark"].pc # "available"
        BY DEF Idle
      <4>3. UNCHANGED request  BY <3>2 DEF StartReconcile
      <4>4. QED  BY <2>3, <3>1, <4>1, <4>2, <4>3
    <3>3. CASE InitConditions(m)
      <4> DEFINE up == [c \in {"ModelsSeeding", "ImageBuilding", "ImageExists"} |-> Cond("Unknown")]
                 next == [w EXCEPT !.br = Returned, !.pc = "mark"]
      <4>1. \/ SetStatusConditions(m, up, next, Idle)
            \/ GoesOn(m, Idle) /\ UNCHANGED request
        BY <2>2, <3>3 DEF InitConditions, SetStatusConditions, GoesOn
      <4>2. next.pc # "available" /\ "BentoAvailable" \notin DOMAIN up
        BY <2>2 DEF WorkerRecords
      <4> HIDE DEF up, next
      <4>3. QED  BY <2>1, <2>3, <3>1, <4>1, <4>2, StatusClaimsNoBento
    <3>4. CASE MarkReconciling(m)
      <4> DEFINE up == [c \in {"BentoAvailable"} |-> Cond("Unknown")]
                 next == [w EXCEPT !.br = Returned, !.pc = "marked"]
                 known == [w EXCEPT !.br = BentoRequest(m), !.pc = "marked"]
      <4>1. \/ SetStatusConditions(m, up, next, Failing)
            \/ GoesOn(m, known) /\ UNCHANGED request
        BY <2>2, <3>4 DEF MarkReconciling, GoesOn
      <4>2. /\ next.pc # "available" /\ known.pc # "available"
            /\ up["BentoAvailable"].status # "True"
        BY <2>2 DEF WorkerRecords, Cond
      <4> HIDE DEF up, next, known
      <4>3. QED  BY <2>1, <2>3, <3>1, <4>1, <4>2, StatusClaimsNoBento
    <3>5. CASE ensureModelsExists(m)  BY <2>1, <3>5, EnsureModelsExistsClaimsNoBento
    <3>6. CASE ensureImageExists(m)  BY <2>1, <3>6, EnsureImageExistsClaimsNoBento
    <3>7. CASE AwaitImage(m) \/ AwaitModels(m)
      <4> DEFINE up == [c \in {"BentoAvailable"} |-> Cond("Unknown")]
      <4>1. SetStatusConditions(m, up, Idle, Failing) /\ up["BentoAvailable"].status # "True"
        BY <3>7 DEF AwaitImage, AwaitModels, Cond
      <4>2. QED  BY <2>1, <2>3, <4>1, StatusClaimsNoBento
    <3>8. CASE ReturnModelsError(m)
      BY <2>3, <3>1, <3>8 DEF ReturnModelsError, GoesOn
    <3>9. CASE CleanUpSeeders(m) \/ SkipSeeders(m)
      <4> DEFINE next == [w EXCEPT !.br = BentoRequest(m), !.pc = "bento"]
      <4>1. GoesOn(m, next) /\ UNCHANGED request
        BY <2>2, <3>9 DEF CleanUpSeeders, SkipSeeders, GoesOn
      <4>2. next.pc # "available"  BY <2>2 DEF WorkerRecords
      <4>3. QED  BY <3>1, <4>1, <4>2
    <3>10. CASE CreateBento(m)
      <4>1. \/ bento'.rev = BentoRequest(m).rev
            \/ GoesOn(m, Failing) /\ UNCHANGED request
        BY <3>10 DEF CreateBento, GoesOn
      <4>2. bento'.rev = BentoRequest(m).rev => bento' # NoBento
        BY BentoRequestType, RevisionAssumption DEF NoBento
      <4>3. QED  BY <2>3, <3>1, <4>1, <4>2
    <3>11. ~SetAvailable(m)  BY <2>1 DEF SetAvailable
    <3>12. CASE HandleError(m)
      <4>1. /\ worker'[m] = Idle
            /\ \/ request' = [request EXCEPT !.conds["BentoAvailable"] = Cond("False")]
               \/ UNCHANGED request
        BY <3>12 DEF HandleError, TypeOK
      <4>2. ~Available'
        BY <2>1, <4>1 DEF Available, TypeOK, Requests, Conditions, ConditionTypes, Cond
      <4>3. QED  BY <2>3, <4>1, <4>2 DEF ClaimsNoBento
    <3>13. QED
      BY <3>2, <3>3, <3>4, <3>5, <3>6, <3>7, <3>8, <3>9, <3>10, <3>11, <3>12, Reconcile(m)
      DEF Reconcile
  <2>5. ASSUME ClaimsNoBento(m), NEW n \in Managers
        PROVE  ~KnowsAvailable(n)' /\ ~At(n, "available")'
    <3>1. cache'[n].request \in {cache[n].request, request}
      BY ReconcileDerives DEF RequestFrame, TypeOK, Caches
    <3>2. ~KnowsAvailable(n)'  BY <2>1, <3>1 DEF KnowsAvailable, Available
    <3>3. worker'[n] = worker[n] \/ n = m
      BY ReconcileDerives, Continues DEF GoesOnSomehow
    <3>4. QED  BY <2>1, <2>5, <3>2, <3>3 DEF ClaimsNoBento, At
  <2>6. QED  BY <2>4, <2>5 DEF AvailabilityIsTrue, ClaimsNoBento
<1>4. QED  BY <1>2, <1>3

-----------------------------------------------------------------------------
(* Steps of a manager. *)

\* Jobs that start to go are attended to.
JobsAttended == \A j \in JobNames : Going(j)' => Going(j) \/ Attended'

\* A call that starts is busy, unless it finds the request available.
LEMMA StartAttended ==
    ASSUME TypeOK, RequestIsAttended, NEW m \in Managers, StartReconcile(m)
    PROVE  Attended'
<1> DEFINE first == [Idle EXCEPT !.br = cache[m].request, !.pc = "init"]
           again == [Idle EXCEPT !.br = cache[m].request, !.pc = "mark"]
<1>1. KnowsAvailable(m) \/ GoesOn(m, first) \/ GoesOn(m, again)
  BY DEF StartReconcile, GoesOn, KnowsAvailable
<1>2. first.pc \in BusyPlaces /\ again.pc \in BusyPlaces  BY DEF Idle, BusyPlaces
<1> HIDE DEF first, again
<1>3. CASE KnowsAvailable(m)
  <2>1. bento # NoBento  BY <1>3 DEF RequestIsAttended, AvailabilityIsTrue
  <2>2. QED  BY <2>1 DEF StartReconcile, clusterVars, Attended
<1>4. QED  BY <1>1, <1>2, <1>3, AttendsPlace

LEMMA CallStep ==
    ASSUME TypeOK, RequestIsAttended, NEW m \in Managers, Reconcile(m), JobsAttended,
           Busy(m) => Attended', HearsAnew(m)' \/ RemembersJobs(m)'
    PROVE  RequestIsAttended'
<1>1. /\ RequestFrame(m) /\ JobsSettled
      /\ bento # NoBento => bento' # NoBento
  BY ReconcileDerives
<1>2. PICK w : GoesOn(m, w)  BY ReconcileDerives DEF GoesOnSomehow
<1>3. ASSUME NEW n \in Managers
      PROVE  /\ cache'[n].jobs = cache[n].jobs
             /\ cache'[n].request \in {cache[n].request, request}
             /\ \/ cache'[n].request = cache[n].request
                \/ cache[n].request.generation # request.generation => queue'[n]
  BY <1>1 DEF RequestFrame, TypeOK, Caches
<1>4. ASSUME NEW n \in Managers \ {m}
      PROVE  /\ Busy(n) => Busy(n)'
             /\ HearsAnew(n) => HearsAnew(n)'
             /\ HearsAnew(n)' \/ (CallIsCurrent(n)' /\ RemembersJobs(n)')
  <2>1. worker'[n] = worker[n]  BY <1>2, Continues
  <2>2. cache'[n] = cache[n]  BY <1>1 DEF RequestFrame, TypeOK
  <2>3. Busy(n) => Busy(n)'
    BY <1>1, <2>1, <2>2
    DEF RequestFrame, Busy, AwaitsSeeders, At, SucceededTags, FailedSeeders, CachedSeeders
  <2>4. HearsAnew(n) => HearsAnew(n)'  BY <1>1, <2>2 DEF RequestFrame, HearsAnew
  <2>5. HearsAnew(n) \/ (CallIsCurrent(n) /\ RemembersJobs(n))  BY DEF RequestIsAttended, KeepsUp
  <2>6. RemembersJobs(n) => RemembersJobs(n)'
    BY <1>1, <2>1, <2>2 DEF RequestFrame, RemembersJobs, At, WaitsForJob, CachedSeeders
  <2>7. CallIsCurrent(n) => CallIsCurrent(n)'
    BY <1>1, <2>1, <2>2 DEF RequestFrame, CallIsCurrent, BentoRequest, At
  <2>8. QED  BY <2>3, <2>4, <2>5, <2>6, <2>7
<1>5. ASSUME NEW n \in Managers
      PROVE  KeepsUp(n)'
  <2>1. request.generation \in Nat  BY DEF TypeOK, Requests
  <2>2. /\ cache[n].request.generation <= request.generation
        /\ cache[n].request.generation = request.generation
              => cache[n].request.rev = request.rev
    BY DEF RequestIsAttended, KeepsUp
  <2>3. /\ cache'[n].request.generation <= request'.generation
        /\ cache'[n].request.generation = request'.generation
              => cache'[n].request.rev = request'.rev
    BY <1>1, <1>3, <2>1, <2>2 DEF RequestFrame
  <2>4. HearsAnew(n)' \/ (CallIsCurrent(n)' /\ RemembersJobs(n)')
    BY <1>4, StaysCurrent, n = m \/ n # m
  <2>5. QED  BY <2>3, <2>4 DEF KeepsUp
<1>6. Attended'
  <2>1. CASE bento # NoBento  BY <1>1, <2>1 DEF Attended
  <2>2. ASSUME NEW n \in Managers, Attends(n)  PROVE Attended'
    <3>1. CASE HearsAnew(n)
      <4>1. CASE n # m  BY <1>4, <3>1, <4>1 DEF Attended, Attends
      <4>2. CASE n = m /\ ~StartReconcile(m)
        <5>1. HearsAnew(m)'  BY <1>1, <1>3, <3>1, <4>2 DEF RequestFrame, HearsAnew
        <5>2. QED  BY <5>1 DEF Attended, Attends
      <4>3. QED  BY <4>1, <4>2, StartAttended
    <3>2. CASE Busy(n)  BY <1>4, <3>2, n = m \/ n # m DEF Attended, Attends
    <3>3. CASE WaitsForJob(n)
      <4>1. WaitsForJob(n)'  BY <1>1, <1>3, <3>3 DEF RequestFrame, WaitsForJob
      <4>2. QED  BY <4>1 DEF Attended, Attends
    <3>4. ASSUME NEW j \in JobNames, cache[n].jobs[j] # NoJob, Going(j)  PROVE Attended'
      <4>1. Going(j)'  BY <1>1, <3>4 DEF JobsSettled, Going
      <4>2. QED  BY <1>3, <3>4, <4>1, AttendsJob
    <3>5. ASSUME NEW j \in JobNames, cache[n].jobs[j] = NoJob, ~Going(j)  PROVE Attended'
      <4>1. ~Going(j)' \/ Attended'  BY <3>5 DEF JobsAttended
      <4>2. QED  BY <1>3, <3>5, <4>1, AttendsJob
    <3>6. QED  BY <2>2, <3>1, <3>2, <3>3, <3>4, <3>5 DEF Attends
  <2>3. QED  BY <2>1, <2>2 DEF RequestIsAttended, Attended
<1>7. AvailabilityIsTrue'  BY StaysAvailable
<1>8. QED  BY <1>5, <1>6, <1>7 DEF RequestIsAttended

\* A manager that hears of the request anew attends to it, whatever its call does.
LEMMA HeardStep ==
    ASSUME TypeOK, RequestIsAttended, NEW m \in Managers, Reconcile(m), HearsAnew(m)'
    PROVE  RequestIsAttended'
<1>1. Attended'  BY DEF Attended, Attends
<1>2. QED  BY <1>1, CallStep DEF JobsAttended

\* No job is touched.
LEMMA JobsStandStill ==
    ASSUME UNCHANGED jobs
    PROVE  JobsAttended
BY DEF JobsAttended, Going

\* Either outcome of a status update keeps the request attended to.
LEMMA StatusCallStep ==
    ASSUME TypeOK, RequestIsAttended, NEW m \in Managers, Reconcile(m),
           NEW updates, NEW ok, NEW failed,
           SetStatusConditions(m, updates, ok, failed), UNCHANGED clusterVars,
           ok.pc \notin {"jobStatus", "deleteSeeders"},
           failed.pc \notin {"jobStatus", "deleteSeeders"},
           Busy(m) /\ GoesOn(m, ok) => Attended',
           Busy(m) /\ GoesOn(m, failed) => Attended'
    PROVE  RequestIsAttended'
<1>1. JobsAttended  BY JobsStandStill DEF clusterVars
<1>2. GoesOn(m, ok) \/ GoesOn(m, failed)  BY DEF SetStatusConditions, GoesOn
<1>3. RemembersJobs(m)'  BY <1>2, RemembersNothing
<1>4. QED  BY <1>1, <1>2, <1>3, CallStep

-----------------------------------------------------------------------------
(* What is done to jobs. *)

\* Deleting jobs the manager still sees: their end will put the request in its queue.
LEMMA DeletionAttended ==
    ASSUME TypeOK, NEW m \in Managers, NEW names, MarkDeleted(names),
           cache'[m].jobs = cache[m].jobs,
           \A j \in names : cache[m].jobs[j] # NoJob \/ Attended'
    PROVE  JobsAttended
<1>1. ASSUME NEW j \in JobNames, Going(j)'  PROVE Going(j) \/ j \in names
  BY <1>1 DEF MarkDeleted, Going, TypeOK
<1>2. QED  BY <1>1, AttendsJob DEF JobsAttended

\* A new job is unknown to every cache, and will put the request in the queue.
LEMMA CreationAttended ==
    ASSUME TypeOK, NEW m \in Managers, NEW job, CreateJob(job),
           job.rev \in Revisions, ~job.deleting, cache' = cache
    PROVE  Attended'
<1>1. PICK k \in FreshJobNames : jobs' = [jobs EXCEPT ![k] = job]  BY DEF CreateJob
<1>2. k \in JobNames /\ jobs'[k] = job /\ cache[m].jobs[k] = NoJob
  BY <1>1 DEF FreshJobNames, TypeOK
<1>3. ~Going(k)'
  <2>1. job # NoJob  BY RevisionAssumption DEF NoJob
  <2>2. QED  BY <1>2, <2>1 DEF Going
<1>4. QED  BY <1>2, <1>3, AttendsJob

-----------------------------------------------------------------------------
(* ensureImageExists. *)

LEMMA EnsureImageExistsAttended ==
    ASSUME TypeOK, RequestIsAttended, NEW m \in Managers, Reconcile(m), ~HearsAnew(m)',
           ensureImageExists(m)
    PROVE  RequestIsAttended'
<1> DEFINE br == BentoRequest(m)
           w == worker[m]
           rev == request.rev
<1>1. ~At(m, "idle")
  BY DEF ensureImageExists, At, EnterEnsureImageExists, CheckImageExists, RecordImageExists,
         DeleteStaleJob, CreateImageBuilderJob, KeepOneJob, ReportRunningJob, ReportFailedJob,
         ReportSucceededJob
<1>2. br.rev = rev  BY <1>1, StaysCurrent DEF CallIsCurrent
<1>3. w \in WorkerRecords /\ worker \in [Managers -> Workers] /\ rev \in Revisions
  BY DEF TypeOK, Workers, Requests
<1>4. GoesOn(m, Failing) => Attended' /\ RemembersJobs(m)'
  BY AttendsPlace, RemembersNothing, FailingFields
<1>5. RemembersJobs(m)  BY StaysCurrent
\* Going on inside the function, with the same result of ensureModelsExists.
<1>6. ASSUME NEW next, GoesOn(m, next), next.pc \in ImagePlaces, request'.rev = rev,
             w.pc \in ImagePlaces, Busy(m),
             next.separate = w.separate, next.modelsExists = w.modelsExists,
             next.modelsErr = w.modelsErr
      PROVE  Attended'
  <2>1. ~AwaitsSeeders(m)
    BY <1>6 DEF Busy, At, BusyPlaces, ImagePlaces
  <2>2. QED  BY <1>6, <2>1, AttendsImage DEF AwaitsSeeders
<1>7. \A updates, ok, failed : SetStatusConditions(m, updates, ok, failed) => request'.rev = rev
  BY SetStatusKeepsRevision
<1>8. CASE EnterEnsureImageExists(m)
  <2> DEFINE image == ImageName[br.rev]
             entered == [w EXCEPT !.br = br, !.image = image,
                                  !.separate = SeparateFlag(m, br.rev),
                                  !.listSeparate = SeparateModels[br.rev]]
             up == [c \in {"ImageExistsChecked", "BentoAvailable"} |->
                       IF c = "ImageExistsChecked" THEN CondMsg("Unknown", image)
                                                   ELSE Cond("Unknown")]
             checking == [entered EXCEPT !.br = Returned, !.pc = "checkImage"]
             found == ImageExistsCondition(br.conds, image)
             known == [entered EXCEPT !.imageExists = found,
                                      !.pc = IF found THEN "afterImage" ELSE "listJobs"]
  <2>1. /\ checking.pc = "checkImage" /\ checking.separate = SeparateFlag(m, br.rev)
        /\ checking.modelsExists = w.modelsExists /\ checking.modelsErr = w.modelsErr
        /\ known.pc \in {"afterImage", "listJobs"} /\ known.separate = SeparateFlag(m, br.rev)
        /\ known.modelsExists = w.modelsExists /\ known.modelsErr = w.modelsErr
    BY <1>3 DEF WorkerRecords
  <2>2. /\ \/ SetStatusConditions(m, up, checking, Failing)
           \/ GoesOn(m, known) /\ UNCHANGED <<request, cache, queue>>
           \/ GoesOn(m, Failing) /\ UNCHANGED <<request, cache, queue>>
        /\ \/ w.pc = "image"
           \/ w.pc = "marked" /\ ~(SeparateModels[rev] /\ ~StoredInS3[rev])
        /\ UNCHANGED clusterVars
    BY <1>2, <1>8 DEF EnterEnsureImageExists, GoesOn, At
  <2> HIDE DEF image, entered, up, checking, found, known
  <2>3. ASSUME NEW next \in {checking, known}, GoesOn(m, next), request'.rev = rev, Busy(m)
        PROVE  Attended'
    <3>1. /\ next.pc \in ImagePlaces /\ next.separate = SeparateFlag(m, br.rev)
          /\ next.modelsExists = w.modelsExists /\ next.modelsErr = w.modelsErr
      BY <2>1, <2>3 DEF ImagePlaces
    <3>2. CASE w.pc = "image"
      <4>1. next.separate = w.separate  BY <3>1, <3>2 DEF SeparateFlag, At
      <4>2. w.pc \in ImagePlaces  BY <3>2 DEF ImagePlaces
      <4>3. QED  BY <1>6, <2>3, <3>1, <4>1, <4>2
    <3>3. CASE w.pc = "marked" /\ ~(SeparateModels[rev] /\ ~StoredInS3[rev])
      <4>1. next.separate = SeparateModels[rev]  BY <1>2, <3>1, <3>3 DEF SeparateFlag, At
      <4>2. QED  BY <2>3, <3>1, <3>3, <4>1, AttendsImage
    <3>4. QED  BY <2>2, <3>2, <3>3
  <2>4. CASE SetStatusConditions(m, up, checking, Failing)
    <3>1. request'.rev = rev  BY <1>7, <2>4
    <3>2. QED  BY <1>4, <2>1, <2>2, <2>3, <2>4, <3>1, FailingFields, StatusCallStep
  <2>5. CASE GoesOn(m, known) /\ UNCHANGED <<request, cache, queue>>
    <3>1. RemembersJobs(m)'  BY <2>1, <2>5, RemembersNothing
    <3>2. UNCHANGED <<jobs, bento>>  BY <2>2 DEF clusterVars
    <3>3. QED  BY <2>3, <2>5, <3>1, <3>2, JobsStandStill, CallStep
  <2>6. CASE GoesOn(m, Failing) /\ UNCHANGED <<request, cache, queue>>
    <3>1. UNCHANGED <<jobs, bento>>  BY <2>2 DEF clusterVars
    <3>2. QED  BY <1>4, <2>6, <3>1, JobsStandStill, CallStep
  <2>7. QED  BY <2>2, <2>4, <2>5, <2>6
<1>9. CASE CheckImageExists(m)
  <2> DEFINE answer == ~ForceBuild[br.rev] /\ ImageInRegistry(w.image)
             next == [w EXCEPT !.br = Returned, !.pc = "checked", !.imageExists = answer]
  <2>1. /\ next.pc = "checked" /\ next.separate = w.separate
        /\ next.modelsExists = w.modelsExists /\ next.modelsErr = w.modelsErr
    BY <1>3 DEF WorkerRecords
  <2>2. GoesOn(m, next) \/ GoesOn(m, Failing)
    BY <1>3, <1>9 DEF CheckImageExists, GoesOn
  <2>3. w.pc = "checkImage" /\ UNCHANGED <<request, cache, queue, jobs, bento>>
    BY <1>9 DEF CheckImageExists, At, clusterVars
  <2> HIDE DEF next
  <2>4. CASE GoesOn(m, next)
    <3>1. RemembersJobs(m)'  BY <2>1, <2>4, RemembersNothing
    <3>2. Busy(m) => Attended'  BY <1>6, <2>1, <2>3, <2>4 DEF ImagePlaces
    <3>3. QED  BY <2>3, <2>4, <3>1, <3>2, JobsStandStill, CallStep
  <2>5. CASE GoesOn(m, Failing)  BY <1>4, <2>3, <2>5, JobsStandStill, CallStep
  <2>6. QED  BY <2>2, <2>4, <2>5
<1>10. CASE RecordImageExists(m)
  <2> DEFINE image == w.image
             found == w.imageExists
             up == [c \in {"ImageExists", "ImageExistsChecked"} |->
                       IF found THEN CondMsg("True", image) ELSE Cond("False")]
             next == [w EXCEPT !.br = Returned, !.pc = IF found THEN "afterImage" ELSE "listJobs"]
  <2>1. /\ next.pc \in {"afterImage", "listJobs"} /\ next.separate = w.separate
        /\ next.modelsExists = w.modelsExists /\ next.modelsErr = w.modelsErr
    BY <1>3 DEF WorkerRecords
  <2>2. w.pc = "checked" /\ SetStatusConditions(m, up, next, Failing) /\ UNCHANGED clusterVars
    BY <1>10 DEF RecordImageExists, At
  <2> HIDE DEF next, up
  <2>3. request'.rev = rev  BY <1>7, <2>2
  <2>4. Busy(m) /\ GoesOn(m, next) => Attended'
    BY <1>6, <2>1, <2>2, <2>3 DEF ImagePlaces
  <2>5. QED  BY <1>4, <2>1, <2>2, <2>4, FailingFields, StatusCallStep
<1>11. CASE DeleteStaleJob(m)
  <2>1. PICK j \in StaleJobs(m) :
          \/ /\ MarkDeleted({j})
             /\ UpdateStatus(m, AllUnknown(request.conds))
             /\ GoesOn(m, Building)
          \/ /\ MarkDeleted({j}) \/ UNCHANGED jobs
             /\ GoesOn(m, Failing)
             /\ UNCHANGED <<request, cache, queue>>
    BY <1>11 DEF DeleteStaleJob, GoesOn
  <2>2. UNCHANGED bento  BY <1>11 DEF DeleteStaleJob
  <2>3. j \in JobNames /\ cache[m].jobs[j] # NoJob  BY <2>1 DEF StaleJobs, ListedJobs
  <2>4. CASE /\ MarkDeleted({j})
             /\ UpdateStatus(m, AllUnknown(request.conds))
             /\ GoesOn(m, Building)
    <3>2. cache'[m].jobs = cache[m].jobs  BY <2>4, WritesFrame DEF Writes
    <3>4. JobsAttended  BY <2>3, <2>4, <3>2, DeletionAttended
    <3>5. Attended'
      <4>1. Going(j)'
        <5>1. jobs[j] # NoJob => jobs[j] \in JobRecords  BY <2>3 DEF TypeOK, Jobs
        <5>2. QED  BY <2>3, <2>4, <5>1 DEF Going, MarkDeleted, JobRecords
      <4>2. QED  BY <2>3, <3>2, <4>1, AttendsJob
    <3>6. RemembersJobs(m)'  BY <2>4, RemembersNothing, FailingFields
    <3>7. QED  BY <3>4, <3>5, <3>6, CallStep
  <2>5. CASE /\ MarkDeleted({j}) \/ UNCHANGED jobs
             /\ GoesOn(m, Failing)
             /\ UNCHANGED <<request, cache, queue>>
    <3>1. JobsAttended  BY <2>3, <2>5, DeletionAttended, JobsStandStill
    <3>2. QED  BY <1>4, <2>2, <2>5, <3>1, CallStep
  <2>6. QED  BY <2>1, <2>4, <2>5
<1>12. CASE CreateImageBuilderJob(m)
  <2> DEFINE job == BuilderJob(br.rev, w.image)
  <2>1. job.rev \in Revisions /\ ~job.deleting  BY <1>2, <1>3 DEF BuilderJob, NoJob
  <2>2. UNCHANGED <<request, cache, queue, bento>>  BY <1>12 DEF CreateImageBuilderJob
  <2>3. \/ CreateJob(job) /\ GoesOn(m, Building)
        \/ UNCHANGED jobs /\ GoesOn(m, Failing)
    BY <1>12 DEF CreateImageBuilderJob, GoesOn
  <2> HIDE DEF job
  <2>4. CASE CreateJob(job) /\ GoesOn(m, Building)
    <3>1. Attended'  BY <2>1, <2>2, <2>4, CreationAttended
    <3>2. RemembersJobs(m)'  BY <2>4, RemembersNothing, FailingFields
    <3>3. QED  BY <3>1, <3>2, CallStep DEF JobsAttended
  <2>5. CASE UNCHANGED jobs /\ GoesOn(m, Failing)
    BY <1>4, <2>2, <2>5, JobsStandStill, CallStep
  <2>6. QED  BY <2>3, <2>4, <2>5
<1>13. CASE KeepOneJob(m)
  <2>1. PICK kept \in ListedJobs(m), names \in SUBSET ListedJobs(m) :
          /\ MarkDeleted(names)
          /\ \/ worker' = [worker EXCEPT ![m].br = Returned, ![m].pc = "jobStatus",
                                         ![m].phase = cache[m].jobs[kept].phase]
             \/ GoesOn(m, Failing)
    BY <1>13 DEF KeepOneJob, GoesOn
  <2> DEFINE job == cache[m].jobs[kept]
             next == [w EXCEPT !.br = Returned, !.pc = "jobStatus", !.phase = job.phase]
  <2>2. /\ next.pc = "jobStatus" /\ next.phase = job.phase /\ next.separate = w.separate
        /\ next.modelsExists = w.modelsExists /\ next.modelsErr = w.modelsErr
    BY <1>3 DEF WorkerRecords
  <2>3. GoesOn(m, next) \/ GoesOn(m, Failing)  BY <1>3, <2>1 DEF GoesOn
  <2>4. /\ w.pc = "listJobs" /\ UNCHANGED <<request, cache, queue, bento>>
    BY <1>13 DEF KeepOneJob, At
  <2>5. /\ kept \in JobNames /\ job # NoJob /\ ~HashChanged(job, rev)
        /\ \A j \in names : cache[m].jobs[j] # NoJob
    BY <1>2, <1>13, <2>1 DEF KeepOneJob, StaleJobs, ListedJobs
  <2>6. JobsAttended  BY <2>1, <2>4, <2>5, DeletionAttended
  <2> HIDE DEF next
  <2>7. CASE GoesOn(m, next)
    <3>1. Busy(m) => Attended'  BY <1>6, <2>2, <2>4, <2>7 DEF ImagePlaces
    <3>2. job.phase # "Succeeded" => WaitsForJob(m)'  BY <2>4, <2>5 DEF WaitsForJob
    <3>3. worker'[m] = next  BY <2>7, Continues
    <3>4. RemembersJobs(m)'  BY <2>2, <3>2, <3>3 DEF RemembersJobs, At
    <3>5. QED  BY <2>4, <2>6, <2>7, <3>1, <3>4, CallStep
  <2>8. CASE GoesOn(m, Failing)  BY <1>4, <2>4, <2>6, <2>8, CallStep
  <2>9. QED  BY <2>3, <2>7, <2>8
\* A job that has not succeeded is waited for, and was when it was listed.
<1>14. ASSUME w.pc = "jobStatus", w.phase # "Succeeded", request'.rev = rev,
              cache'[m].jobs = cache[m].jobs
       PROVE  Attended'
  <2>1. WaitsForJob(m)  BY <1>5, <1>14 DEF RemembersJobs, At
  <2>2. WaitsForJob(m)'  BY <1>14, <2>1 DEF WaitsForJob
  <2>3. QED  BY <2>2, RemembersWaiting
<1>15. ASSUME NEW conds, UpdateStatus(m, conds) \/ UNCHANGED <<request, cache, queue>>
       PROVE  request'.rev = rev /\ cache'[m].jobs = cache[m].jobs
  BY <1>15, WritesFrame DEF Writes, RequestFrame
<1>16. CASE ReportRunningJob(m) \/ ReportFailedJob(m)
  <2>1. PICK conds :
          /\ UpdateStatus(m, conds) \/ UNCHANGED <<request, cache, queue>>
          /\ GoesOn(m, Building) \/ GoesOn(m, Failing)
    BY <1>16 DEF ReportRunningJob, ReportFailedJob, SetStatusConditions, GoesOn
  <2>2. w.pc = "jobStatus" /\ w.phase # "Succeeded" /\ UNCHANGED <<jobs, bento>>
    BY <1>16 DEF ReportRunningJob, ReportFailedJob, At, clusterVars
  <2>3. Attended'  BY <1>14, <1>15, <2>1, <2>2
  <2>4. RemembersJobs(m)'  BY <2>1, RemembersNothing, FailingFields
  <2>5. QED  BY <2>1, <2>2, <2>3, <2>4, JobsStandStill, CallStep
<1>17. CASE ReportSucceededJob(m)
  <2> DEFINE up == [c \in {"ImageBuilding", "ImageExists"} |->
                       IF c = "ImageBuilding" THEN Cond("False") ELSE CondMsg("True", w.image)]
             next == [w EXCEPT !.br = Returned, !.imageExists = TRUE, !.pc = "afterImage"]
  <2>1. /\ next.pc = "afterImage" /\ next.separate = w.separate
        /\ next.modelsExists = w.modelsExists /\ next.modelsErr = w.modelsErr
    BY <1>3 DEF WorkerRecords
  <2>2. /\ w.pc = "jobStatus"
        /\ SetStatusConditions(m, up, next, Failing) /\ UNCHANGED clusterVars
    BY <1>17 DEF ReportSucceededJob, At
  <2> HIDE DEF next, up
  <2>3. request'.rev = rev  BY <1>7, <2>2
  <2>4. Busy(m) /\ GoesOn(m, next) => Attended'
    BY <1>6, <2>1, <2>2, <2>3 DEF ImagePlaces
  <2>5. QED  BY <1>4, <2>1, <2>2, <2>4, FailingFields, StatusCallStep
<1>18. QED
  BY <1>8, <1>9, <1>10, <1>11, <1>12, <1>13, <1>16, <1>17 DEF ensureImageExists

-----------------------------------------------------------------------------
(* ensureModelsExists. *)

\* It returns an error, or that all models are there: the call will not wait for seeders.
LEMMA ReturnAttended ==
    ASSUME TypeOK, NEW m \in Managers, request'.rev = request.rev,
           NEW v \in WorkerRecords, NEW exists, NEW err, exists \/ err, NEW br,
           GoesOn(m, ReturnModels(v, exists, err, br))
    PROVE  Attended'
<1> DEFINE r == ReturnModels(v, exists, err, br)
<1>1. r.pc = "image" /\ r.modelsExists = exists /\ r.modelsErr = err
  BY DEF ReturnModels, WorkerRecords
<1> HIDE DEF r
<1>2. r.pc \in ImagePlaces  BY <1>1 DEF ImagePlaces
<1>3. GoesOn(m, r)  BY DEF r
<1>4. QED  BY <1>1, <1>2, <1>3, AttendsImage

LEMMA ReturnForgets ==
    ASSUME NEW v \in WorkerRecords, NEW exists, NEW err, NEW br
    PROVE  ReturnModels(v, exists, err, br).pc \notin {"jobStatus", "deleteSeeders"}
BY DEF ReturnModels, WorkerRecords

LEMMA EnsureModelsExistsAttended ==
    ASSUME TypeOK, RequestIsAttended, NEW m \in Managers, Reconcile(m), ~HearsAnew(m)',
           ensureModelsExists(m)
    PROVE  RequestIsAttended'
<1> DEFINE br == BentoRequest(m)
           cached == cache[m].request
           w == worker[m]
           rev == request.rev
<1>1. ~At(m, "idle")
  BY DEF ensureModelsExists, At, EnterEnsureModelsExists, ListSeederJobs, DeleteStaleSeeder,
         DeleteOrphanSeeder, StartSeeding, CreateSeederJob, ReportFailedSeeders, ReportSeeding
<1>2. br.rev = rev  BY <1>1, StaysCurrent DEF CallIsCurrent
<1>3. w \in WorkerRecords /\ worker \in [Managers -> Workers] /\ rev \in Revisions
      /\ ModelsOf(rev) \subseteq Models
  BY ModelsOfType DEF TypeOK, Workers, Requests
<1>4. RemembersJobs(m)  BY StaysCurrent
<1>5. ASSUME NEW conds, UpdateStatus(m, conds) \/ UNCHANGED <<request, cache, queue>>
      PROVE  request'.rev = rev /\ cache'[m].jobs = cache[m].jobs
  BY <1>5, WritesFrame DEF Writes, RequestFrame
<1>6. \A updates, ok, failed : SetStatusConditions(m, updates, ok, failed) => request'.rev = rev
  BY SetStatusKeepsRevision
\* A return with an error.
<1>7. ASSUME NEW v \in WorkerRecords, NEW exists, NEW err, exists \/ err, NEW r,
             GoesOn(m, ReturnModels(v, exists, err, r)), request'.rev = rev
      PROVE  Attended' /\ RemembersJobs(m)'
  BY <1>7, ReturnAttended, ReturnForgets, RemembersNothing
<1>8. CASE EnterEnsureModelsExists(m)
  <2> DEFINE tags == ModelTags[br.rev]
             called == [w EXCEPT !.separate = TRUE]
             entered == [called EXCEPT !.br = br, !.tags = tags, !.pc = "listSeeders"]
             waiting == [entered EXCEPT !.br = Returned]
             notReady == [c \in {"ModelsExists"} |-> Cond("False")]
             memory == InMemory(m, Apply(cached.conds, notReady))
             gaveUp == ReturnModels(called, FALSE, TRUE, memory)
             known == ReturnModels(called, TRUE, FALSE, br)
  <2>1. /\ called \in WorkerRecords /\ entered.pc = "listSeeders" /\ waiting.pc = "listSeeders"
    BY <1>3 DEF WorkerRecords
  <2>2. /\ \/ SetStatusConditions(m, notReady, waiting, gaveUp)
           \/ /\ GoesOn(m, known) \/ GoesOn(m, entered)
              /\ UNCHANGED <<request, cache, queue>>
        /\ UNCHANGED clusterVars
    BY <1>8 DEF EnterEnsureModelsExists, GoesOn
  <2> HIDE DEF br, called, entered, waiting, notReady, memory
  <2>3. request'.rev = rev  BY <1>6, <2>2
  <2>4. GoesOn(m, gaveUp) \/ GoesOn(m, known) => Attended' /\ RemembersJobs(m)'
    BY <1>7, <2>1, <2>3
  <2>5. gaveUp.pc \notin {"jobStatus", "deleteSeeders"}  BY <2>1, ReturnForgets
  <2> HIDE DEF gaveUp, known
  <2>6. GoesOn(m, waiting) \/ GoesOn(m, entered) => Attended' /\ RemembersJobs(m)'
    BY <2>1, AttendsPlace, RemembersNothing DEF BusyPlaces
  <2>7. CASE SetStatusConditions(m, notReady, waiting, gaveUp)
    BY <2>1, <2>2, <2>4, <2>5, <2>6, <2>7, StatusCallStep
  <2>8. CASE /\ GoesOn(m, known) \/ GoesOn(m, entered)
             /\ UNCHANGED <<request, cache, queue>>
    <3>1. UNCHANGED <<jobs, bento>>  BY <2>2 DEF clusterVars
    <3>2. QED  BY <2>4, <2>6, <2>8, <3>1, JobsStandStill, CallStep
  <2>9. QED  BY <2>2, <2>7, <2>8
<1>9. CASE ListSeederJobs(m)
  <2> DEFINE changed == {j \in CachedSeeders(m) : HashChanged(cache[m].jobs[j], br.rev)}
             unknown == {j \in CachedSeeders(m) \ changed :
                            TagOf(cache[m].jobs[j]) \notin ModelsOf(br.rev)}
             known == {cache[m].jobs[j].model : j \in CachedSeeders(m) \ (changed \cup unknown)}
             next == [w EXCEPT !.br = br, !.pc = "deleteSeeders", !.stale = changed,
                               !.orphans = unknown, !.existing = known]
  <2>1. GoesOn(m, next)  BY <1>3, <1>9 DEF ListSeederJobs, GoesOn
  <2>2. next.pc = "deleteSeeders" /\ next.existing = known  BY <1>3 DEF WorkerRecords
  <2>3. UNCHANGED <<request, cache, queue, jobs, bento>>
    BY <1>9 DEF ListSeederJobs, clusterVars
  <2>4. ASSUME NEW model \in known
        PROVE  \E j \in CachedSeeders(m) : /\ cache[m].jobs[j].model = model /\ model \in Versioned
                                            /\ ~HashChanged(cache[m].jobs[j], rev)
    <3>1. PICK j \in CachedSeeders(m) \ (changed \cup unknown) : model = cache[m].jobs[j].model
      BY <2>4
    <3>2. ~HashChanged(cache[m].jobs[j], rev) /\ TagOf(cache[m].jobs[j]) \in ModelsOf(rev)
      BY <1>2, <3>1
    <3>3. model \in Versioned  BY <1>3, <3>1, <3>2, NameAssumption DEF TagOf
    <3>4. QED  BY <3>1, <3>2, <3>3
  <2> HIDE DEF next, known
  <2>5. Attended'  BY <2>1, <2>2, AttendsPlace DEF BusyPlaces
  <2>6. RemembersJobs(m)'
    <3>1. worker'[m] = next  BY <2>1, Continues
    <3>2. QED  BY <2>2, <2>3, <2>4, <3>1 DEF RemembersJobs, At, CachedSeeders
  <2>7. QED  BY <2>1, <2>3, <2>5, <2>6, JobsStandStill, CallStep
\* Deleting the seeders that were listed, without looking at the cache again.
<1>10. ASSUME w.pc = "deleteSeeders", NEW next, GoesOn(m, next), next.pc = "deleteSeeders",
              next.existing = w.existing, request'.rev = rev, cache'[m].jobs = cache[m].jobs
       PROVE  Attended' /\ RemembersJobs(m)'
  <2>1. Attended'  BY <1>10, AttendsPlace DEF BusyPlaces
  <2>2. worker'[m] = next  BY <1>10, Continues
  <2>3. RemembersJobs(m)'
    BY <1>4, <1>10, <2>2 DEF RemembersJobs, At, CachedSeeders
  <2>4. QED  BY <2>1, <2>3
<1>11. ASSUME NEW names, MarkDeleted(names) \/ UNCHANGED jobs, Attended',
              cache'[m].jobs = cache[m].jobs
       PROVE  JobsAttended
  BY <1>11, DeletionAttended, JobsStandStill
<1>12. CASE DeleteStaleSeeder(m)
  <2> DEFINE memory == InMemory(m, AllUnknown(cached.conds))
             gaveUp == ReturnModels(w, FALSE, TRUE, memory)
             failed == ReturnModels(w, FALSE, TRUE, br)
  <2>1. PICK j \in w.stale :
          /\ MarkDeleted({j}) \/ UNCHANGED jobs
          /\ \/ /\ UpdateStatus(m, AllUnknown(request.conds))
                /\ worker' = [worker EXCEPT ![m].br = Returned, ![m].stale = @ \ {j}]
             \/ /\ GoesOn(m, gaveUp) \/ GoesOn(m, failed)
                /\ UNCHANGED <<request, cache, queue>>
    BY <1>12 DEF DeleteStaleSeeder, ReturnError, GoesOn
  <2> DEFINE next == [w EXCEPT !.br = Returned, !.stale = @ \ {j}]
  <2>2. next.pc = w.pc /\ next.existing = w.existing  BY <1>3 DEF WorkerRecords
  <2>3. w.pc = "deleteSeeders" /\ UNCHANGED bento  BY <1>12 DEF DeleteStaleSeeder, At
  <2>4. \/ UpdateStatus(m, AllUnknown(request.conds)) /\ GoesOn(m, next)
        \/ /\ GoesOn(m, gaveUp) \/ GoesOn(m, failed)
           /\ UNCHANGED <<request, cache, queue>>
    BY <1>3, <2>1 DEF GoesOn
  <2> HIDE DEF next, memory, br
  <2>5. PICK last : GoesOn(m, last) /\ Attended' /\ RemembersJobs(m)'
    BY <1>3, <1>5, <1>7, <1>10, <2>2, <2>3, <2>4
  <2>6. PICK conds : UpdateStatus(m, conds) \/ UNCHANGED <<request, cache, queue>>
    BY <2>4
  <2>7. JobsAttended  BY <1>5, <1>11, <2>1, <2>5, <2>6
  <2>8. QED  BY <1>5, <2>3, <2>5, <2>6, <2>7, CallStep
<1>13. CASE DeleteOrphanSeeder(m)
  <2> DEFINE failed == ReturnModels(w, FALSE, TRUE, br)
  <2>1. PICK j \in w.orphans :
          /\ MarkDeleted({j}) \/ UNCHANGED jobs
          /\ \/ worker' = [worker EXCEPT ![m].orphans = @ \ {j}]
             \/ GoesOn(m, failed)
    BY <1>13 DEF DeleteOrphanSeeder, ReturnError, GoesOn
  <2> DEFINE next == [w EXCEPT !.orphans = @ \ {j}]
  <2>2. next.pc = w.pc /\ next.existing = w.existing  BY <1>3 DEF WorkerRecords
  <2>3. w.pc = "deleteSeeders" /\ UNCHANGED <<request, cache, queue, bento>>
    BY <1>13 DEF DeleteOrphanSeeder, At
  <2>4. GoesOn(m, next) \/ GoesOn(m, failed)  BY <1>3, <2>1 DEF GoesOn
  <2> HIDE DEF next, br
  <2>5. PICK last : GoesOn(m, last) /\ Attended' /\ RemembersJobs(m)'
    BY <1>3, <1>7, <1>10, <2>2, <2>3, <2>4
  <2>6. JobsAttended  BY <1>11, <2>1, <2>3, <2>5
  <2>7. QED  BY <2>3, <2>5, <2>6, CallStep
<1>14. CASE StartSeeding(m)
  <2> DEFINE next == [w EXCEPT !.br = br, !.pc = "seed",
                               !.toSeed = ModelsOf(br.rev) \ w.existing]
  <2>1. next.pc = "seed" /\ next.toSeed = ModelsOf(rev) \ w.existing
    BY <1>2, <1>3 DEF WorkerRecords
  <2>2. GoesOn(m, next)  BY <1>3, <1>14 DEF StartSeeding, GoesOn
  <2>3. w.pc = "deleteSeeders" /\ UNCHANGED <<request, cache, queue, jobs, bento>>
    BY <1>14 DEF StartSeeding, At, clusterVars
  <2> HIDE DEF next
  <2>4. worker'[m] = next  BY <2>2, Continues
  <2>5. CASE \/ next.toSeed # {}
             \/ ModelsOf(rev) \subseteq SucceededTags(m)
    <3>1. SucceededTags(m)' = SucceededTags(m)  BY <2>3 DEF SucceededTags, CachedSeeders
    <3>2. Busy(m)'  BY <2>1, <2>3, <2>4, <2>5, <3>1 DEF Busy, At
    <3>3. Attended'  BY <3>2 DEF Attended, Attends
    <3>4. QED  BY <2>1, <2>2, <2>3, <3>3, RemembersNothing, JobsStandStill, CallStep
  <2>6. CASE next.toSeed = {} /\ ~(ModelsOf(rev) \subseteq SucceededTags(m))
    <3>1. PICK model \in ModelsOf(rev) : model \notin SucceededTags(m)  BY <2>6
    <3>2. model \in w.existing  BY <2>1, <2>6, <3>1
    <3>3. WaitsForJob(m)
      <4>2. PICK j \in CachedSeeders(m) :
              /\ cache[m].jobs[j].model = model /\ model \in Versioned
              /\ ~HashChanged(cache[m].jobs[j], rev)
        BY <1>4, <2>3, <3>2 DEF RemembersJobs, At
      <4>3. TagOf(cache[m].jobs[j]) = model  BY <4>2 DEF TagOf
      <4>4. cache[m].jobs[j].phase # "Succeeded"  BY <3>1, <4>2, <4>3 DEF SucceededTags
      <4>5. QED  BY <4>2, <4>4 DEF WaitsForJob, CachedSeeders
    <3>4. WaitsForJob(m)'  BY <2>3, <3>3 DEF WaitsForJob
    <3>5. Attended'  BY <3>4, RemembersWaiting
    <3>6. QED  BY <2>1, <2>2, <2>3, <3>5, RemembersNothing, JobsStandStill, CallStep
  <2>7. QED  BY <2>5, <2>6
<1>15. CASE CreateSeederJob(m)
  <2> DEFINE failed == ReturnModels(w, FALSE, TRUE, br)
  <2>1. PICK model \in w.toSeed :
          \/ /\ CreateJob(SeederJob(br.rev, model))
             /\ worker' = [worker EXCEPT ![m].toSeed = @ \ {model}]
          \/ UNCHANGED jobs /\ GoesOn(m, failed)
    BY <1>15 DEF CreateSeederJob, ReturnError, GoesOn
  <2> DEFINE next == [w EXCEPT !.toSeed = @ \ {model}]
             job == SeederJob(br.rev, model)
  <2>2. next.pc = w.pc  BY <1>3 DEF WorkerRecords
  <2>3. w.pc = "seed" /\ UNCHANGED <<request, cache, queue, bento>>
    BY <1>15 DEF CreateSeederJob, At
  <2>4. job.rev \in Revisions /\ ~job.deleting  BY <1>2, <1>3 DEF SeederJob, NoJob
  <2>5. \/ CreateJob(job) /\ GoesOn(m, next)
        \/ UNCHANGED jobs /\ GoesOn(m, failed)
    BY <1>3, <2>1 DEF GoesOn
  <2> HIDE DEF next, job, br
  <2>6. CASE CreateJob(job) /\ GoesOn(m, next)
    <3>1. Attended'  BY <2>3, <2>4, <2>6, CreationAttended
    <3>2. RemembersJobs(m)'  BY <2>2, <2>3, <2>6, RemembersNothing
    <3>3. QED  BY <3>1, <3>2, CallStep DEF JobsAttended
  <2>7. CASE UNCHANGED jobs /\ GoesOn(m, failed)
    <3>1. Attended' /\ RemembersJobs(m)'  BY <1>3, <1>7, <2>3, <2>7
    <3>2. QED  BY <2>3, <2>7, <3>1, JobsStandStill, CallStep
  <2>8. QED  BY <2>5, <2>6, <2>7
<1>16. CASE ReportFailedSeeders(m)
  <2> DEFINE up == [c \in {"ModelsExists", "BentoAvailable"} |-> Cond("False")]
             memory == InMemory(m, Apply(cached.conds, up))
             ok == ReturnModels(w, FALSE, TRUE, Returned)
             gaveUp == ReturnModels(w, FALSE, TRUE, memory)
  <2>1. SetStatusConditions(m, up, ok, gaveUp) /\ UNCHANGED clusterVars
    BY <1>16 DEF ReportFailedSeeders
  <2> HIDE DEF memory, up
  <2>2. request'.rev = rev  BY <1>6, <2>1
  <2>3. GoesOn(m, ok) \/ GoesOn(m, gaveUp) => Attended'  BY <1>3, <1>7, <2>2
  <2>4. /\ ok.pc \notin {"jobStatus", "deleteSeeders"}
        /\ gaveUp.pc \notin {"jobStatus", "deleteSeeders"}
    BY <1>3, ReturnForgets
  <2> HIDE DEF ok, gaveUp
  <2>5. QED  BY <2>1, <2>3, <2>4, StatusCallStep
<1>17. CASE ReportSeeding(m)
  <2> DEFINE exists == AllSeeded(m)
             up == IF exists
                   THEN [c \in {"ModelsExists", "ModelsSeeding"} |->
                            IF c = "ModelsExists" THEN CondMsg("True", w.tags)
                                                  ELSE Cond("False")]
                   ELSE [c \in {"ModelsSeeding"} |-> Cond("True")]
             memory == InMemory(m, Apply(cached.conds, up))
             ok == ReturnModels(w, exists, FALSE, Returned)
             gaveUp == ReturnModels(w, exists, TRUE, memory)
  <2>1. /\ w.pc = "seed" /\ w.toSeed = {} /\ FailedSeeders(m) = {}
        /\ SetStatusConditions(m, up, ok, gaveUp) /\ UNCHANGED clusterVars
    BY <1>17 DEF ReportSeeding, At
  <2>2. Busy(m) => exists
    <3>1. Busy(m) => ModelsOf(rev) \subseteq SucceededTags(m)
      BY <2>1 DEF Busy, At, BusyPlaces, ImagePlaces
    <3>2. QED  BY <1>2, <3>1 DEF AllSeeded
  <2> HIDE DEF memory, up, exists
  <2>3. request'.rev = rev  BY <1>6, <2>1
  <2>4. /\ exists /\ GoesOn(m, ok) => Attended'
        /\ GoesOn(m, gaveUp) => Attended'
    BY <1>3, <1>7, <2>3
  <2>5. /\ ok.pc \notin {"jobStatus", "deleteSeeders"}
        /\ gaveUp.pc \notin {"jobStatus", "deleteSeeders"}
    BY <1>3, ReturnForgets
  <2> HIDE DEF ok, gaveUp
  <2>6. QED  BY <2>1, <2>2, <2>4, <2>5, StatusCallStep
<1>18. QED
  BY <1>8, <1>9, <1>12, <1>13, <1>14, <1>15, <1>16, <1>17 DEF ensureModelsExists

-----------------------------------------------------------------------------
(* Reconcile. *)

LEMMA ReconcileAttended ==
    ASSUME TypeOK, RequestIsAttended, NEW m \in Managers, Reconcile(m)
    PROVE  RequestIsAttended'
<1> DEFINE br == BentoRequest(m)
           w == worker[m]
           rev == request.rev
<1>1. SUFFICES ASSUME ~HearsAnew(m)'  PROVE RequestIsAttended'
  BY HeardStep
<1>2. w \in WorkerRecords /\ worker \in [Managers -> Workers]
  BY DEF TypeOK, Workers
<1>3. UNCHANGED clusterVars => JobsAttended  BY JobsStandStill DEF clusterVars
<1>4. GoesOn(m, Failing) => Attended' /\ RemembersJobs(m)'
  BY AttendsPlace, RemembersNothing, FailingFields
\* A step to another busy place.
<1>5. ASSUME NEW next, GoesOn(m, next), next.pc \in {"init", "mark", "marked", "bento", "available"}
      PROVE  Attended' /\ RemembersJobs(m)'
  BY <1>5, AttendsPlace, RemembersNothing DEF BusyPlaces
<1>6. GoesOn(m, Idle) => RemembersJobs(m)'  BY RemembersNothing, FailingFields
<1>7. CASE StartReconcile(m)
  <2> DEFINE first == [Idle EXCEPT !.br = cache[m].request, !.pc = "init"]
             again == [Idle EXCEPT !.br = cache[m].request, !.pc = "mark"]
  <2>1. /\ GoesOn(m, Idle) \/ GoesOn(m, first) \/ GoesOn(m, again)
        /\ UNCHANGED clusterVars
    BY <1>7 DEF StartReconcile, GoesOn
  <2>2. first.pc = "init" /\ again.pc = "mark"  BY DEF Idle
  <2> HIDE DEF first, again
  <2>3. RemembersJobs(m)'  BY <1>5, <1>6, <2>1, <2>2
  <2>4. Attended'  BY <1>7, StartAttended
  <2>5. QED  BY <1>3, <2>1, <2>3, <2>4, CallStep
<1>8. CASE InitConditions(m) \/ HandleError(m)
  <2> DEFINE next == [w EXCEPT !.br = Returned, !.pc = "mark"]
  <2>1. /\ GoesOn(m, next) \/ (GoesOn(m, Idle) /\ queue'[m])
        /\ UNCHANGED clusterVars
    BY <1>2, <1>8 DEF InitConditions, HandleError, GoesOn, TypeOK
  <2>2. next.pc = "mark"  BY <1>2 DEF WorkerRecords
  <2> HIDE DEF next
  <2>3. ~queue'[m]  BY <1>1 DEF HearsAnew
  <2>4. QED  BY <1>3, <1>5, <2>1, <2>2, <2>3, CallStep
<1>9. CASE MarkReconciling(m)
  <2> DEFINE updates == [c \in {"BentoAvailable"} |-> Cond("Unknown")]
             next == [w EXCEPT !.br = Returned, !.pc = "marked"]
             known == [w EXCEPT !.br = br, !.pc = "marked"]
  <2>1. /\ GoesOn(m, next) \/ GoesOn(m, Failing) \/ GoesOn(m, known)
        /\ UNCHANGED clusterVars
    BY <1>2, <1>9 DEF MarkReconciling, SetStatusConditions, GoesOn
  <2>2. next.pc = "marked" /\ known.pc = "marked"  BY <1>2 DEF WorkerRecords
  <2> HIDE DEF next, known
  <2>3. QED  BY <1>3, <1>4, <1>5, <2>1, <2>2, CallStep
<1>10. CASE ensureModelsExists(m)  BY <1>1, <1>10, EnsureModelsExistsAttended
<1>11. CASE ensureImageExists(m)  BY <1>1, <1>11, EnsureImageExistsAttended
\* Nothing but a job, seen or made, lets a call return while the image or the models are missing.
<1>12. CASE AwaitImage(m) \/ AwaitModels(m)
  <2>1. ~Busy(m)
    <3>1. CASE AwaitImage(m)
      BY <3>1 DEF AwaitImage, Busy, At, BusyPlaces, ImagePlaces
    <3>2. CASE AwaitModels(m)
      <4>1. w.pc = "afterImage" /\ ~w.modelsErr /\ ~w.modelsExists /\ SeedsModels(m)
        BY <3>2 DEF AwaitModels, At
      <4>2. br.rev = rev  BY <1>1, <4>1, StaysCurrent DEF CallIsCurrent, At
      <4>3. AwaitsSeeders(m)  BY <4>1, <4>2 DEF SeedsModels, AwaitsSeeders
      <4>4. QED  BY <4>1, <4>3 DEF Busy, At, BusyPlaces
    <3>3. QED  BY <1>12, <3>1, <3>2
  <2>2. PICK updates : SetStatusConditions(m, updates, Idle, Failing) /\ UNCHANGED clusterVars
    BY <1>12 DEF AwaitImage, AwaitModels
  <2>3. QED  BY <2>1, <2>2, FailingFields, StatusCallStep
<1>13. CASE ReturnModelsError(m)
  BY <1>3, <1>4, <1>13, CallStep DEF ReturnModelsError, GoesOn
<1>14. CASE CleanUpSeeders(m) \/ SkipSeeders(m)
  <2> DEFINE next == [w EXCEPT !.br = br, !.pc = "bento"]
  <2>1. GoesOn(m, next)  BY <1>2, <1>14 DEF CleanUpSeeders, SkipSeeders, GoesOn
  <2>2. next.pc = "bento"  BY <1>2 DEF WorkerRecords
  <2> HIDE DEF next
  <2>3. Attended' /\ RemembersJobs(m)'  BY <1>5, <2>1, <2>2
  <2>4. QED  BY <2>3, CallStep DEF JobsAttended
<1>15. CASE CreateBento(m)
  <2> DEFINE next == [Idle EXCEPT !.pc = "available"]
  <2>1. GoesOn(m, next) \/ GoesOn(m, Failing)  BY <1>15 DEF CreateBento, GoesOn
  <2>2. next.pc = "available"  BY DEF Idle
  <2> HIDE DEF next
  <2>3. Attended' /\ RemembersJobs(m)'  BY <1>4, <1>5, <2>1, <2>2
  <2>4. QED  BY <2>3, CallStep DEF JobsAttended
<1>16. CASE SetAvailable(m)
  <2>1. PICK updates : SetStatusConditions(m, updates, Idle, Failing) /\ UNCHANGED clusterVars
    BY <1>16 DEF SetAvailable
  <2>2. bento # NoBento  BY <1>16 DEF SetAvailable, RequestIsAttended, AvailabilityIsTrue
  <2>3. Attended'  BY <2>1, <2>2 DEF Attended, clusterVars
  <2>4. QED  BY <2>1, <2>3, FailingFields, StatusCallStep
<1>17. QED
  BY <1>7, <1>8, <1>9, <1>10, <1>11, <1>12, <1>13, <1>14, <1>15, <1>16, Reconcile(m)
  DEF Reconcile

-----------------------------------------------------------------------------
(* The environment. *)

\* Manager m sees more of the request or of its jobs, or restarts: news of the spec or of a job queue it.
Sees(m) ==
    /\ UNCHANGED <<request, jobs, bento>>
    /\ \A n \in Managers : queue[n] => queue'[n]
    /\ \A n \in Managers \ {m} : cache'[n] = cache[n] /\ worker'[n] = worker[n]
    /\ cache'[m].request \in {cache[m].request, request}
    /\ cache'[m].request.generation # cache[m].request.generation => queue'[m]
    /\ cache'[m].jobs \in {cache[m].jobs, jobs}
    /\ cache'[m].jobs # cache[m].jobs => queue'[m]
    /\ worker'[m] = worker[m] \/ (worker'[m] = Idle /\ queue'[m])

LEMMA InformersShow ==
    ASSUME TypeOK, NEW m \in Managers,
           SyncRequest(m) \/ SyncJobs(m) \/ SyncPVCs(m) \/ Resync(m) \/ Crash(m)
    PROVE  Sees(m)
<1>1. /\ cache \in [Managers -> Caches] /\ queue \in [Managers -> BOOLEAN]
      /\ worker \in [Managers -> Workers]
  BY DEF TypeOK
<1>2. CASE SyncRequest(m)  BY <1>1, <1>2 DEF SyncRequest, Observe, Sees, Caches
<1>3. CASE SyncJobs(m)  BY <1>1, <1>3 DEF SyncJobs, Sees, Caches
<1>4. CASE SyncPVCs(m)  BY <1>1, <1>4 DEF SyncPVCs, Sees, Caches
<1>5. CASE Resync(m)  BY <1>1, <1>5 DEF Resync, Sees
<1>6. CASE Crash(m)
  <2>1. /\ cache'[m] = [request |-> request, jobs |-> jobs, pvcs |-> pvcs]
        /\ worker'[m] = Idle /\ queue'[m]
    BY <1>1, <1>6 DEF Crash
  <2>2. \A n \in Managers \ {m} : cache'[n] = cache[n] /\ worker'[n] = worker[n]
    BY <1>1, <1>6 DEF Crash
  <2>3. UNCHANGED <<request, jobs, bento>> /\ \A n \in Managers : queue[n] => queue'[n]
    BY <1>1, <1>6 DEF Crash
  <2>4. QED  BY <2>1, <2>2, <2>3 DEF Sees
<1>7. QED  BY <1>2, <1>3, <1>4, <1>5, <1>6

\* A manager that is not queued by what it sees goes on as it was.
LEMMA SeesNothing ==
    ASSUME NEW m \in Managers, Sees(m), NEW n \in Managers, ~queue'[n]
    PROVE  /\ worker'[n] = worker[n] /\ cache'[n].jobs = cache[n].jobs
           /\ cache'[n].request.generation = cache[n].request.generation
           /\ cache'[n].request \in {cache[n].request, request}
           /\ ~queue[n]
BY n = m \/ n # m DEF Sees

LEMMA SeeingStep ==
    ASSUME TypeOK, RequestIsAttended, NEW m \in Managers, Sees(m)
    PROVE  RequestIsAttended'
<1>1. UNCHANGED <<request, jobs, bento>>  BY DEF Sees
<1>2. request.generation \in Nat  BY DEF TypeOK, Requests
<1>3. ASSUME NEW n \in Managers
      PROVE  Attends(n) => Attends(n)'
  <2>1. CASE queue'[n]  BY <2>1 DEF Attends, HearsAnew
  <2>2. CASE ~queue'[n]
    <3>1. /\ HearsAnew(n) => HearsAnew(n)'
          /\ Busy(n) => Busy(n)'
          /\ WaitsForJob(n) => WaitsForJob(n)'
      BY <1>1, <2>2, SeesNothing
      DEF HearsAnew, Busy, At, AwaitsSeeders, SucceededTags, FailedSeeders, CachedSeeders,
          WaitsForJob
    <3>2. \A j \in JobNames : Going(j)' <=> Going(j)  BY <1>1 DEF Going
    <3>3. QED  BY <1>1, <2>2, <3>1, <3>2, SeesNothing DEF Attends
  <2>3. QED  BY <2>1, <2>2
<1>4. ASSUME NEW n \in Managers
      PROVE  KeepsUp(n)'
  <2>1. KeepsUp(n)  BY DEF RequestIsAttended
  <2>2. cache'[n].request \in {cache[n].request, request}  BY n = m \/ n # m DEF Sees
  <2>3. /\ cache'[n].request.generation <= request'.generation
        /\ cache'[n].request.generation = request'.generation
              => cache'[n].request.rev = request'.rev
    BY <1>1, <1>2, <2>1, <2>2 DEF KeepsUp
  <2>4. CASE HearsAnew(n)'  BY <2>3, <2>4 DEF KeepsUp
  <2>5. CASE ~HearsAnew(n)'
    <3>1. ~queue'[n] /\ cache'[n].request.generation = request'.generation
      BY <2>5 DEF HearsAnew
    <3>2. ~HearsAnew(n)  BY <1>1, <3>1, SeesNothing DEF HearsAnew
    <3>3. CallIsCurrent(n) /\ RemembersJobs(n)  BY <2>1, <3>2 DEF KeepsUp
    <3>4. RemembersJobs(n)'
      BY <1>1, <3>1, <3>3, SeesNothing DEF RemembersJobs, At, WaitsForJob, CachedSeeders
    <3>5. CallIsCurrent(n)'
      BY <1>1, <2>3, <3>1, <3>3, SeesNothing DEF CallIsCurrent, BentoRequest, At
    <3>6. QED  BY <2>3, <3>4, <3>5 DEF KeepsUp
  <2>6. QED  BY <2>4, <2>5
<1>5. Attended'  BY <1>1, <1>3 DEF RequestIsAttended, Attended
<1>6. AvailabilityIsTrue'
  <2>1. ASSUME NEW n \in Managers
        PROVE  /\ KnowsAvailable(n)' => KnowsAvailable(n) \/ Available
               /\ At(n, "available")' => At(n, "available")
    BY FailingFields, n = m \/ n # m DEF Sees, KnowsAvailable, Available, At
  <2>2. AvailabilityIsTrue  BY DEF RequestIsAttended
  <2>3. Available' <=> Available  BY <1>1 DEF Available
  <2>4. QED  BY <1>1, <2>1, <2>2, <2>3 DEF AvailabilityIsTrue
<1>7. QED  BY <1>4, <1>5, <1>6 DEF RequestIsAttended

\* A job that goes on living is not going, one that ends was going already, and only a running one fails.
LEMMA PodStep ==
    ASSUME TypeOK, NEW j \in JobNames,
           \/ StartPod(j) \/ FinishPod(j) \/ RecordSuccess(j) \/ FailPod(j) \/ FinalizeJob(j)
    PROVE  /\ UNCHANGED <<request, bento, cache, queue, worker>>
           /\ \A k \in JobNames : Going(k)' <=> Going(k)
           /\ \A k \in JobNames \ {j} : jobs'[k] = jobs[k]
           /\ jobs[j].phase = "Failed" => Going(j)
           /\ jobs'[j].phase = "Failed" => jobs[j].phase = "Active" /\ ~Going(j)
<1>1. jobs[j] \in JobRecords /\ jobs[j] # NoJob /\ jobs[j].rev # NoRevision
  BY RevisionAssumption
  DEF StartPod, FinishPod, RecordSuccess, FailPod, FinalizeJob, TypeOK, Jobs, JobRecords
<1>2. UNCHANGED <<request, bento, cache, queue, worker>>
  BY DEF StartPod, FinishPod, RecordSuccess, FailPod, FinalizeJob
<1>3. \A k \in JobNames \ {j} : jobs'[k] = jobs[k]
  BY DEF StartPod, FinishPod, RecordSuccess, FailPod, FinalizeJob, TypeOK
<1>4. ASSUME NEW phase, NEW failed,
             \/ jobs' = [jobs EXCEPT ![j].phase = phase]
             \/ jobs' = [jobs EXCEPT ![j].phase = phase, ![j].failedPods = failed]
      PROVE  (Going(j)' <=> Going(j)) /\ jobs'[j].phase = phase
  <2> DEFINE plain == [jobs[j] EXCEPT !.phase = phase]
             retried == [jobs[j] EXCEPT !.phase = phase, !.failedPods = failed]
  <2>1. jobs'[j] \in {plain, retried}  BY <1>4 DEF TypeOK
  <2>2. /\ plain.rev = jobs[j].rev /\ plain.deleting = jobs[j].deleting /\ plain.phase = phase
        /\ retried.rev = jobs[j].rev /\ retried.deleting = jobs[j].deleting
        /\ retried.phase = phase /\ NoJob.rev = NoRevision
    BY <1>1 DEF JobRecords, NoJob
  <2> HIDE DEF plain, retried
  <2>3. plain # NoJob /\ retried # NoJob  BY <1>1, <2>2
  <2>4. QED  BY <1>1, <2>1, <2>2, <2>3 DEF Going
<1>5. /\ Going(j)' <=> Going(j)
      /\ jobs[j].phase = "Failed" => Going(j)
      /\ jobs'[j].phase = "Failed" => jobs[j].phase = "Active" /\ ~Going(j)
  <2>1. CASE StartPod(j) \/ FinishPod(j) \/ RecordSuccess(j)
    <3>1. jobs[j].phase # "Failed" /\ \E next \in {"Active", "Finished", "Succeeded"} :
            jobs' = [jobs EXCEPT ![j].phase = next]
      BY <2>1 DEF StartPod, FinishPod, RecordSuccess
    <3>2. PICK next \in {"Active", "Finished", "Succeeded"} : jobs' = [jobs EXCEPT ![j].phase = next]
      BY <3>1
    <3>3. (Going(j)' <=> Going(j)) /\ jobs'[j].phase = next  BY <1>4, <3>2
    <3>4. QED  BY <3>1, <3>3
  <2>2. CASE FailPod(j)
    <3>1. PICK next \in {"Waiting", "Failed"} :
            jobs' = [jobs EXCEPT ![j].phase = next, ![j].failedPods = TRUE]
      BY <2>2 DEF FailPod
    <3>2. (Going(j)' <=> Going(j)) /\ jobs[j].phase = "Active" /\ ~Going(j)
      BY <1>4, <2>2, <3>1 DEF FailPod, Going
    <3>3. QED  BY <3>2
  <2>3. CASE FinalizeJob(j)  BY <1>1, <2>3 DEF FinalizeJob, Going, NoJob, TypeOK
  <2>4. QED  BY <2>1, <2>2, <2>3
<1>6. \A k \in JobNames : Going(k)' <=> Going(k)  BY <1>3, <1>5 DEF Going
<1>7. QED  BY <1>2, <1>3, <1>5, <1>6

\* Managers attend as before when nothing changes that they have seen or will be told of.
LEMMA NothingNew ==
    ASSUME RequestIsAttended, UNCHANGED <<request, bento, cache, queue, worker>>,
           \A j \in JobNames : Going(j)' <=> Going(j)
    PROVE  RequestIsAttended'
<1>1. ASSUME NEW n \in Managers
      PROVE  /\ HearsAnew(n)' <=> HearsAnew(n)
             /\ Busy(n)' <=> Busy(n)
             /\ WaitsForJob(n)' <=> WaitsForJob(n)
             /\ CallIsCurrent(n)' <=> CallIsCurrent(n)
             /\ RemembersJobs(n)' <=> RemembersJobs(n)
             /\ KnowsAvailable(n)' <=> KnowsAvailable(n)
             /\ At(n, "available")' <=> At(n, "available")
  BY DEF HearsAnew, Busy, At, AwaitsSeeders, SucceededTags, FailedSeeders, CachedSeeders,
         WaitsForJob, CallIsCurrent, BentoRequest, RemembersJobs, KnowsAvailable
<1>2. \A n \in Managers : (KeepsUp(n)' <=> KeepsUp(n)) /\ (Attends(n)' <=> Attends(n))
  BY <1>1 DEF KeepsUp, Attends
<1>3. AvailabilityIsTrue' <=> AvailabilityIsTrue
  BY <1>1 DEF AvailabilityIsTrue, Available
<1>4. QED  BY <1>2, <1>3 DEF RequestIsAttended, Attended

LEMMA EnvironmentAttended ==
    ASSUME TypeOK, RequestIsAttended, EditsChangeSpec, Managers # {}, Environment
    PROVE  RequestIsAttended'
\* An edit is news for every manager, whatever it is doing.
<1>1. ASSUME NEW rev \in Revisions, Edit(rev)  PROVE RequestIsAttended'
  <2>1. /\ request.rev \in Revisions /\ request.generation \in Nat
        /\ \A n \in Managers : cache[n].request.generation \in Nat
    BY DEF TypeOK, Requests, Caches
  <2>2. /\ request'.generation = request.generation + 1
        /\ request'.conds = request.conds
    BY <1>1, <2>1 DEF Edit, EditsChangeSpec, TypeOK, Requests
  <2>3. UNCHANGED <<cache, worker, bento>>  BY <1>1 DEF Edit
  <2>4. ASSUME NEW n \in Managers
        PROVE  KeepsUp(n)' /\ HearsAnew(n)'
    <3>1. cache[n].request.generation <= request.generation
      BY DEF RequestIsAttended, KeepsUp
    <3>2. cache'[n].request.generation < request'.generation
      BY <2>1, <2>2, <2>3, <3>1
    <3>3. QED  BY <2>1, <2>2, <2>3, <3>2 DEF KeepsUp, HearsAnew
  <2>5. Attended'  BY <2>4 DEF Attended, Attends
  <2>6. AvailabilityIsTrue'
    BY <2>2, <2>3 DEF RequestIsAttended, AvailabilityIsTrue, Available, KnowsAvailable, At
  <2>7. QED  BY <2>4, <2>5, <2>6 DEF RequestIsAttended
<1>2. ASSUME NEW m \in Managers,
             SyncRequest(m) \/ SyncJobs(m) \/ SyncPVCs(m) \/ Resync(m) \/ Crash(m)
      PROVE  RequestIsAttended'
  BY <1>2, InformersShow, SeeingStep
<1>3. ASSUME NEW j \in JobNames,
             \/ StartPod(j) \/ FinishPod(j) \/ RecordSuccess(j) \/ FailPod(j) \/ FinalizeJob(j)
      PROVE  RequestIsAttended'
  <2>1. /\ UNCHANGED <<request, bento, cache, queue, worker>>
        /\ \A k \in JobNames : Going(k)' <=> Going(k)
    BY <1>3, PodStep
  <2>2. QED  BY <2>1, NothingNew
<1>4. QED  BY <1>1, <1>2, <1>3 DEF Environment

-----------------------------------------------------------------------------
LEMMA InitAttended ==
    ASSUME Init, Managers # {}
    PROVE  RequestIsAttended
<1>1. \A m \in Managers : /\ queue[m] /\ worker[m] = Idle
                           /\ cache[m].request = request
                           /\ request.generation = 0 /\ request.conds = NoConditions
  BY DEF Init
<1>2. \A m \in Managers : KeepsUp(m) /\ HearsAnew(m)  BY <1>1 DEF KeepsUp, HearsAnew
<1>3. NoConditions["BentoAvailable"].status = "Absent"
  BY DEF NoConditions, ConditionTypes, Cond
<1>4. request.conds = NoConditions  BY DEF Init
<1>5. AvailabilityIsTrue
  BY <1>1, <1>3, <1>4, FailingFields DEF AvailabilityIsTrue, Available, KnowsAvailable, At
<1>6. QED  BY <1>2, <1>5 DEF RequestIsAttended, Attended, Attends

LEMMA NextAttended ==
    ASSUME TypeOK, RequestIsAttended, EditsChangeSpec, Managers # {}, [Next]_vars
    PROVE  RequestIsAttended'
<1>1. ASSUME NEW m \in Managers, Reconcile(m)  PROVE RequestIsAttended'
  BY <1>1, ReconcileAttended
<1>2. CASE Environment  BY <1>2, EnvironmentAttended
<1>3. CASE UNCHANGED vars
  <2>1. \A k \in JobNames : Going(k)' <=> Going(k)  BY <1>3 DEF vars, Going
  <2>2. QED  BY <1>3, <2>1, NothingNew DEF vars
<1>4. QED  BY <1>1, <1>2, <1>3 DEF Next

(* As long as there is no Bento, some manager has the request in its queue *)
(* or will be made to put it there, for any number of managers, jobs,      *)
(* crashes, failed calls and edits of the spec, at any moment of a call.   *)
THEOREM AttendedInvariant ==
    ASSUME EditsChangeSpec, Managers # {}
    PROVE  Spec => []RequestIsAttended
<1>1. Init => TypeOK /\ RequestIsAttended
  BY InitType, InitAttended
<1>2. TypeOK /\ RequestIsAttended /\ [Next]_vars => (TypeOK /\ RequestIsAttended)'
  BY NextType, NextAttended
<1>3. QED  BY <1>1, <1>2, PTL DEF Spec

(* No wake-up is lost: when every manager rests, with nothing in its queue *)
(* and nothing left to see, the Bento is there, or a job of the current    *)
(* revision, or one being deleted, has yet to report.                      *)
THEOREM WakeupsKept ==
    ASSUME EditsChangeSpec, Managers # {}
    PROVE  Spec => []NoLostWakeup
<1>1. RequestIsAttended => NoLostWakeup
  <2> SUFFICES ASSUME RequestIsAttended, \A m \in Managers : Quiescent(m), bento = NoBento
               PROVE  \E j \in JobNames :
                         /\ jobs[j] # NoJob
                         /\ \/ jobs[j].deleting
                            \/ jobs[j].phase # "Succeeded" /\ ~HashChanged(jobs[j], request.rev)
    BY DEF NoLostWakeup
  <2>1. PICK m \in Managers : Attends(m)  BY DEF RequestIsAttended, Attended
  <2>2. /\ worker[m].pc = "idle" /\ ~queue[m]
        /\ cache[m].request = request /\ cache[m].jobs = jobs
    BY DEF Quiescent, At
  <2>3. ~Busy(m)  BY <2>2 DEF Busy, At, BusyPlaces, ImagePlaces
  <2>4. \/ WaitsForJob(m)
        \/ \E j \in JobNames : jobs[j] # NoJob /\ Going(j)
        \/ \E j \in JobNames : jobs[j] = NoJob /\ ~Going(j)
    BY <2>1, <2>2, <2>3 DEF Attends, HearsAnew
  <2>5. QED  BY <2>2, <2>4 DEF WaitsForJob, Going
<1>2. QED  BY <1>1, AttendedInvariant, PTL

-----------------------------------------------------------------------------
(* Failed builds: what keeps them told of, or watched, over a step.        *)

\* A call that looks, a report or a request in the queue ends in another one of them.
HandsOver(m) ==
    FailureTold \/ WillLook(m) \/ (queue[m] /\ ~queue'[m]) => FailureTold' \/ WatchesAll(m)'

\* A step keeps failed builds told of or watched, unless it finds or makes the request available.
FailuresKept ==
    /\ ListingIsSound'
    /\ FailureTold \/ FailuresWatched
         => \/ FailureTold' \/ FailuresWatched' \/ Available'
            \/ \E m \in Managers : StartReconcile(m) /\ KnowsAvailable(m)

\* What one manager's step leaves of the failed builds.
LEMMA SettledFailures ==
    ASSUME JobsSettled, request'.rev = request.rev,
           \A n \in Managers : cache'[n].jobs = cache[n].jobs,
           NEW j \in JobNames
    PROVE  /\ FailedBuild(j)' => FailedBuild(j) /\ jobs'[j] = jobs[j]
           /\ \A n \in Managers : cache[n].jobs[j] # NoJob /\ Going(j) => Going(j)'
<1>1. NoJob.phase = "Waiting"  BY DEF NoJob
<1>2. \/ jobs'[j] = jobs[j]
      \/ Going(j)'
      \/ jobs'[j].phase = "Waiting" /\ \A n \in Managers : cache[n].jobs[j] = NoJob
  BY DEF JobsSettled
<1>3. FailedBuild(j)' => jobs'[j] = jobs[j]  BY <1>1, <1>2 DEF FailedBuild, Going
<1>4. FailedBuild(j)' => FailedBuild(j)  BY <1>3 DEF FailedBuild, HashChanged
<1>5. QED  BY <1>2, <1>3, <1>4 DEF Going

LEMMA WatchStep ==
    ASSUME TypeOK, ListingIsSound, NEW m \in Managers, Reconcile(m), ListsOwnJobs(m)',
           HandsOver(m) \/ Available' \/ (StartReconcile(m) /\ KnowsAvailable(m))
    PROVE  FailuresKept
<1>0. RequestFrame(m) /\ JobsSettled  BY ReconcileDerives
<1>1. ASSUME NEW n \in Managers
      PROVE  /\ cache'[n].jobs = cache[n].jobs
             /\ cache[n].request.generation # request.generation
                   => cache'[n].request.generation # request'.generation \/ queue'[n]
  BY <1>0 DEF RequestFrame, TypeOK, Caches
<1>2. ASSUME NEW n \in Managers \ {m}
      PROVE  worker'[n] = worker[n] /\ cache'[n] = cache[n] /\ (HearsAnew(n) => HearsAnew(n)')
  <2>1. worker'[n] = worker[n]  BY ReconcileDerives, Continues DEF GoesOnSomehow
  <2>2. cache'[n] = cache[n]  BY <1>0 DEF RequestFrame, TypeOK
  <2>3. QED  BY <1>0, <2>1, <2>2 DEF RequestFrame, HearsAnew
<1>3. \A j \in JobNames :
         /\ FailedBuild(j)' => FailedBuild(j) /\ jobs'[j] = jobs[j]
         /\ \A n \in Managers : cache[n].jobs[j] # NoJob /\ Going(j) => Going(j)'
  BY <1>0, <1>1, SettledFailures DEF RequestFrame
<1>4. ListingIsSound'
  <2>1. ASSUME NEW n \in Managers \ {m}  PROVE ListsOwnJobs(n)'
    <3>1. ListsOwnJobs(n)  BY DEF ListingIsSound
    <3>2. QED  BY <1>2, <1>3, <2>1, <3>1 DEF ListsOwnJobs, At
  <2>2. ASSUME NEW n \in Managers, NEW j \in JobNames, cache'[n].jobs[j].phase = "Failed"
        PROVE  Going(j)' \/ jobs'[j].phase = "Failed"
    <3>1. cache[n].jobs[j].phase = "Failed"  BY <1>1, <2>2
    <3>2. cache[n].jobs[j] # NoJob  BY <3>1 DEF NoJob
    <3>3. Going(j) \/ jobs[j].phase = "Failed"  BY <3>1 DEF ListingIsSound, FailuresLast
    <3>4. CASE Going(j)  BY <1>3, <3>2, <3>4
    <3>5. CASE jobs[j].phase = "Failed"  BY <1>0, <3>2, <3>5 DEF JobsSettled
    <3>6. QED  BY <3>3, <3>4, <3>5
  <2>3. QED  BY <2>1, <2>2 DEF ListingIsSound, FailuresLast
<1>5. ASSUME FailureTold \/ FailuresWatched, HandsOver(m), ~FailureTold', ~WatchesAll(m)',
             NEW j \in JobNames, FailedBuild(j)'
      PROVE  \E n \in Managers : Watches(n, j)'
  <2>1. ~FailureTold /\ ~WillLook(m) /\ (queue[m] => queue'[m])  BY <1>5 DEF HandsOver
  <2>2. FailedBuild(j) /\ jobs'[j] = jobs[j]  BY <1>3, <1>5
  <2>3. PICK n \in Managers : Watches(n, j)  BY <1>5, <2>1, <2>2 DEF FailuresWatched
  <2>4. CASE HearsAnew(n)
    <3>1. HearsAnew(n)'  BY <1>1, <1>2, <2>1, <2>4, n = m \/ n # m DEF HearsAnew
    <3>2. QED  BY <3>1 DEF Watches
  <2>5. CASE WillLook(n)
    <3>1. n # m  BY <2>1, <2>5
    <3>2. worker'[n] = worker[n] /\ cache'[n] = cache[n]  BY <1>2, <3>1
    <3>3. WillLook(n)'
      BY <1>0, <2>5, <3>2
      DEF WillLook, At, TakesImageForExisting, AwaitsSeeders, BentoRequest, RequestFrame
    <3>4. QED  BY <3>3 DEF Watches
  <2>6. CASE cache[n].jobs[j] # jobs[j]  BY <1>1, <2>2, <2>6 DEF Watches
  <2>7. ASSUME NEW k \in JobNames, cache[n].jobs[k] # NoJob, Going(k)
        PROVE  Watches(n, j)'
    <3>1. Going(k)'  BY <1>3, <2>7
    <3>2. QED  BY <1>1, <2>7, <3>1 DEF Watches
  <2>8. QED  BY <2>3, <2>4, <2>5, <2>6, <2>7 DEF Watches
<1>6. WatchesAll(m)' => FailuresWatched'  BY DEF WatchesAll, FailuresWatched
<1>7. QED  BY <1>4, <1>5, <1>6 DEF FailuresKept, FailuresWatched

\* A manager that hears of the request anew watches all jobs, whatever its call does.
LEMMA HeardWatch ==
    ASSUME TypeOK, ListingIsSound, NEW m \in Managers, Reconcile(m), HearsAnew(m)'
    PROVE  FailuresKept
<1>1. ListsOwnJobs(m)'  BY DEF ListsOwnJobs
<1>2. HandsOver(m)  BY DEF HandsOver, WatchesAll, Watches
<1>3. QED  BY <1>1, <1>2, WatchStep

\* Places at which a call watches, and places at which it has listed nothing.
LEMMA LooksOn ==
    ASSUME TypeOK, NEW m \in Managers, NEW w, GoesOn(m, w), w.pc \in LookingPlaces
    PROVE  HandsOver(m)
<1>1. worker'[m] = w  BY Continues
<1>2. QED  BY <1>1 DEF HandsOver, WatchesAll, Watches, WillLook

LEMMA ListsNothing ==
    ASSUME TypeOK, NEW m \in Managers, NEW w, GoesOn(m, w),
           w.pc # "jobStatus"
    PROVE  ListsOwnJobs(m)'
<1>1. worker'[m] = w  BY Continues
<1>2. QED  BY <1>1 DEF ListsOwnJobs, At

LEMMA FailingLooks ==
    ASSUME TypeOK, NEW m \in Managers, GoesOn(m, Failing)
    PROVE  HandsOver(m) /\ ListsOwnJobs(m)'
BY LooksOn, ListsNothing, FailingFields DEF LookingPlaces

\* Either outcome of a status update keeps failed builds told of or watched.
LEMMA WatchStatusStep ==
    ASSUME TypeOK, ListingIsSound, NEW m \in Managers, Reconcile(m),
           NEW updates, NEW ok, NEW failed, SetStatusConditions(m, updates, ok, failed),
           UpdateStatus(m, Apply(request.conds, updates)) /\ GoesOn(m, ok)
               => ListsOwnJobs(m)' /\ (HandsOver(m) \/ Available'),
           GoesOn(m, failed) => ListsOwnJobs(m)' /\ HandsOver(m)
    PROVE  FailuresKept
<1>1. \/ UpdateStatus(m, Apply(request.conds, updates)) /\ GoesOn(m, ok)
      \/ GoesOn(m, failed)
  BY DEF SetStatusConditions, GoesOn
<1>2. QED  BY <1>1, WatchStep

\* What a status update makes of the conditions that tell of a failed build.
LEMMA ToldByUpdate ==
    ASSUME TypeOK, NEW m \in Managers, NEW updates,
           UpdateStatus(m, Apply(request.conds, updates))
    PROVE  /\ request'.rev = request.rev
           /\ \A c \in ConditionTypes :
                 request'.conds[c] = IF c \in DOMAIN updates THEN updates[c] ELSE request.conds[c]
BY DEF UpdateStatus, Apply, TypeOK, Requests

LEMMA AvailabilityTellsNothing ==
    ASSUME TypeOK, NEW m \in Managers, NEW updates, DOMAIN updates = {"BentoAvailable"},
           UpdateStatus(m, Apply(request.conds, updates))
    PROVE  FailureTold => FailureTold'
BY ToldByUpdate DEF FailureTold, ImageExistsCondition, ConditionTypes

-----------------------------------------------------------------------------
(* Failed builds: ensureImageExists. *)

LEMMA EnsureImageExistsWatched ==
    ASSUME TypeOK, RequestIsAttended, ListingIsSound, NEW m \in Managers, Reconcile(m),
           ensureImageExists(m), ~HearsAnew(m)'
    PROVE  FailuresKept
<1> DEFINE br == BentoRequest(m)
           w == worker[m]
           rev == request.rev
           listed == cache[m].jobs
<1>1. ~At(m, "idle")
  BY DEF ensureImageExists, At, EnterEnsureImageExists, CheckImageExists, RecordImageExists,
         DeleteStaleJob, CreateImageBuilderJob, KeepOneJob, ReportRunningJob, ReportFailedJob,
         ReportSucceededJob
<1>2. /\ br.rev = rev
      /\ w.pc \in AfterGetImageInfo => w.image = ImageName[rev]
      /\ w.pc \in {"checkImage", "checked", "listJobs"} => w.listSeparate = SeparateModels[rev]
  BY <1>1, StaysCurrent DEF CallIsCurrent
<1>3. w \in WorkerRecords /\ worker \in [Managers -> Workers] /\ rev \in Revisions
  BY DEF TypeOK, Workers, Requests
<1>4. GoesOn(m, Failing) => ListsOwnJobs(m)' /\ HandsOver(m)  BY FailingLooks
<1>5. ~HearsAnew(m) /\ request'.rev = rev /\ cache'[m].jobs = listed
  <2>1. RequestFrame(m) /\ ~StartReconcile(m)  BY <1>1, ReconcileDerives DEF StartReconcile, At
  <2>2. QED  BY <2>1 DEF RequestFrame, HearsAnew, TypeOK, Caches
<1>6. GoesOn(m, Building) => ListsOwnJobs(m)'  BY ListsNothing, FailingFields
\* Going on to look up the image, or to list jobs.
<1>7. ASSUME NEW next, GoesOn(m, next), next.pc \in {"checkImage", "checked", "listJobs"}
      PROVE  ListsOwnJobs(m)' /\ HandsOver(m)
  BY <1>7, LooksOn, ListsNothing DEF LookingPlaces
<1>8. CASE EnterEnsureImageExists(m)
  <2> DEFINE image == ImageName[br.rev]
             entered == [w EXCEPT !.br = br, !.image = image,
                                  !.separate = SeparateFlag(m, br.rev),
                                  !.listSeparate = SeparateModels[br.rev]]
             up == [c \in {"ImageExistsChecked", "BentoAvailable"} |->
                       IF c = "ImageExistsChecked" THEN CondMsg("Unknown", image)
                                                   ELSE Cond("Unknown")]
             checking == [entered EXCEPT !.br = Returned, !.pc = "checkImage"]
             found == ImageExistsCondition(br.conds, image)
             known == [entered EXCEPT !.imageExists = found,
                                      !.pc = IF found THEN "afterImage" ELSE "listJobs"]
  <2>1. /\ checking.pc = "checkImage"
        /\ known.pc = IF found THEN "afterImage" ELSE "listJobs"
        /\ known.separate = SeparateFlag(m, rev)
        /\ known.modelsExists = w.modelsExists /\ known.modelsErr = w.modelsErr
    BY <1>2, <1>3 DEF WorkerRecords
  <2>2. /\ \/ SetStatusConditions(m, up, checking, Failing)
           \/ GoesOn(m, known) /\ UNCHANGED <<request, cache, queue>>
           \/ GoesOn(m, Failing) /\ UNCHANGED <<request, cache, queue>>
        /\ \/ w.pc = "image"
           \/ w.pc = "marked" /\ ~(SeparateModels[rev] /\ ~StoredInS3[rev])
    BY <1>2, <1>8 DEF EnterEnsureImageExists, GoesOn, At
  <2>3. found => ImageExistsCondition(BentoRequest(m).conds, ImageName[rev])  BY <1>2
  <2> HIDE DEF image, entered, up, checking, found, known
  <2>5. CASE SetStatusConditions(m, up, checking, Failing)
    <3>1. GoesOn(m, checking) => ListsOwnJobs(m)' /\ HandsOver(m)  BY <1>7, <2>1
    <3>2. QED  BY <1>4, <2>5, <3>1, WatchStatusStep
  <2>6. CASE GoesOn(m, known) /\ UNCHANGED <<request, cache, queue>>
    <3>1. CASE ~found
      <4>1. known.pc = "listJobs"  BY <2>1, <3>1
      <4>2. ListsOwnJobs(m)' /\ HandsOver(m)  BY <1>7, <2>1, <2>6, <4>1
      <4>3. QED  BY <4>2, WatchStep
    \* The image is known to exist: the call that awaits seeders was not looking for failures.
    <3>2. CASE found
      <4>1. worker'[m] = known /\ known.pc = "afterImage"  BY <2>1, <2>6, <3>2, Continues
      <4>2. CASE AwaitsSeeders(m)'
        <5>1. known.separate /\ ~StoredInS3[rev] /\ ~w.modelsExists /\ ~w.modelsErr
          BY <2>1, <2>6, <4>1, <4>2 DEF AwaitsSeeders
        <5>2. w.pc = "image" /\ w.separate
          BY <2>1, <2>2, <5>1 DEF SeparateFlag, At
        <5>3. TakesImageForExisting(m)
          BY <2>3, <3>2, <5>1, <5>2 DEF TakesImageForExisting, At, AwaitsSeeders
        <5>4. ~WillLook(m)  BY <5>2, <5>3 DEF WillLook, LookingPlaces, BusyPlaces, At
        <5>5. FailureTold => FailureTold'  BY <2>6 DEF FailureTold
        <5>6. HandsOver(m)  BY <2>6, <5>4, <5>5 DEF HandsOver
        <5>7. ListsOwnJobs(m)'  BY <2>6, <4>1, ListsNothing
        <5>8. QED  BY <5>6, <5>7, WatchStep
      <4>3. CASE ~AwaitsSeeders(m)'
        <5>1. WillLook(m)'  BY <4>1, <4>3 DEF WillLook, At
        <5>2. HandsOver(m)  BY <5>1 DEF HandsOver, WatchesAll, Watches
        <5>3. ListsOwnJobs(m)'  BY <2>6, <4>1, ListsNothing
        <5>4. QED  BY <5>2, <5>3, WatchStep
      <4>4. QED  BY <4>2, <4>3
    <3>3. QED  BY <3>1, <3>2
  <2>7. CASE GoesOn(m, Failing)  BY <1>4, <2>7, WatchStep
  <2>8. QED  BY <2>2, <2>5, <2>6, <2>7
<1>9. CASE CheckImageExists(m)
  <2> DEFINE answer == ~ForceBuild[br.rev] /\ ImageInRegistry(w.image)
             next == [w EXCEPT !.br = Returned, !.pc = "checked", !.imageExists = answer]
  <2>1. next.pc = "checked"  BY <1>3 DEF WorkerRecords
  <2>2. GoesOn(m, next) \/ GoesOn(m, Failing)
    BY <1>3, <1>9 DEF CheckImageExists, GoesOn
  <2> HIDE DEF next
  <2>3. QED  BY <1>4, <1>7, <2>1, <2>2, WatchStep
<1>10. CASE RecordImageExists(m)
  <2> DEFINE image == w.image
             found == w.imageExists
             up == [c \in {"ImageExists", "ImageExistsChecked"} |->
                       IF found THEN CondMsg("True", image) ELSE Cond("False")]
             next == [w EXCEPT !.br = Returned, !.pc = IF found THEN "afterImage" ELSE "listJobs"]
  <2>1. next.pc = IF found THEN "afterImage" ELSE "listJobs"  BY <1>3 DEF WorkerRecords
  <2>2. w.pc = "checked" /\ SetStatusConditions(m, up, next, Failing)
    BY <1>10 DEF RecordImageExists, At
  <2>3. image = ImageName[rev]  BY <1>2, <2>2 DEF AfterGetImageInfo
  <2>4. "ImageExists" \in DOMAIN up /\ (found => up["ImageExists"] = CondMsg("True", image))
    OBVIOUS
  <2> HIDE DEF next, up
  <2>5. ASSUME UpdateStatus(m, Apply(request.conds, up)), GoesOn(m, next)
        PROVE  ListsOwnJobs(m)' /\ HandsOver(m)
    <3>1. found => request'.conds["ImageExists"] = CondMsg("True", image)
      BY <2>4, <2>5, ToldByUpdate DEF ConditionTypes
    <3>2. CASE found
      <4>1. FailureTold'  BY <1>5, <2>3, <3>1, <3>2 DEF FailureTold, ImageExistsCondition
      <4>2. QED  BY <2>1, <2>5, <3>2, <4>1, ListsNothing DEF HandsOver
    <3>3. CASE ~found  BY <1>7, <2>1, <2>5, <3>3
    <3>4. QED  BY <3>2, <3>3
  <2>6. QED  BY <1>4, <2>2, <2>5, WatchStatusStep
<1>11. CASE DeleteStaleJob(m)
  <2>1. PICK j \in StaleJobs(m) :
          \/ MarkDeleted({j}) /\ GoesOn(m, Building)
          \/ GoesOn(m, Failing)
    BY <1>11 DEF DeleteStaleJob, GoesOn
  <2>2. j \in JobNames /\ listed[j] # NoJob  BY <2>1 DEF StaleJobs, ListedJobs
  \* The manager that resets the status will be told when the job is gone.
  <2>3. CASE MarkDeleted({j}) /\ GoesOn(m, Building)
    <3>1. Going(j)'  BY <2>2, <2>3, DeletionMarks
    <3>2. HandsOver(m)  BY <1>5, <2>2, <3>1 DEF HandsOver, WatchesAll, Watches
    <3>3. QED  BY <1>6, <2>3, <3>2, WatchStep
  <2>4. CASE GoesOn(m, Failing)  BY <1>4, <2>4, WatchStep
  <2>5. QED  BY <2>1, <2>3, <2>4
\* A failed job that the cache shows is among those that are listed.
<1>12. ASSUME w.pc = "listJobs", NEW j \in JobNames, FailedBuild(j)',
              listed[j] = jobs'[j]
       PROVE  j \in ListedJobs(m) /\ listed[j].phase = "Failed" /\ ~Going(j)'
  <2>1. /\ listed[j].kind = "builder" /\ listed[j].phase = "Failed" /\ listed[j].rev = rev
    BY <1>5, <1>12 DEF FailedBuild, HashChanged
  <2>2. listed[j] # NoJob  BY <2>1 DEF NoJob
  <2>3. w.listSeparate = SeparateModels[rev]  BY <1>2, <1>12
  <2>4. QED  BY <1>12, <2>1, <2>2, <2>3 DEF ListedJobs, FailedBuild, Going
<1>13. CASE CreateImageBuilderJob(m)
  <2>1. w.pc = "listJobs" /\ ListedJobs(m) = {}
    BY <1>13 DEF CreateImageBuilderJob, At
  <2>2. \A j \in JobNames : FailedBuild(j)' => Watches(m, j)'
    BY <1>5, <1>12, <2>1 DEF Watches
  <2>3. HandsOver(m)  BY <2>2 DEF HandsOver, WatchesAll
  <2>4. GoesOn(m, Building) \/ GoesOn(m, Failing)
    BY <1>13 DEF CreateImageBuilderJob, GoesOn
  <2>5. QED  BY <1>4, <1>6, <2>3, <2>4, WatchStep
<1>14. CASE KeepOneJob(m)
  <2>1. PICK kept \in ListedJobs(m) :
          \/ /\ MarkDeleted(ListedJobs(m) \ {kept})
             /\ worker' = [worker EXCEPT ![m].br = Returned, ![m].pc = "jobStatus",
                                         ![m].phase = listed[kept].phase]
          \/ GoesOn(m, Failing)
    BY <1>14 DEF KeepOneJob, GoesOn
  <2> DEFINE next == [w EXCEPT !.br = Returned, !.pc = "jobStatus", !.phase = listed[kept].phase]
  <2>2. next.pc = "jobStatus" /\ next.phase = listed[kept].phase
    BY <1>3 DEF WorkerRecords
  <2>3. w.pc = "listJobs"  BY <1>14 DEF KeepOneJob, At
  <2>4. CASE GoesOn(m, Failing)  BY <1>4, <2>4, WatchStep
  <2>5. CASE /\ MarkDeleted(ListedJobs(m) \ {kept})
             /\ worker' = [worker EXCEPT ![m].br = Returned, ![m].pc = "jobStatus",
                                         ![m].phase = listed[kept].phase]
    <3>1. GoesOn(m, next)  BY <1>3, <2>5 DEF GoesOn
    <3>2. worker'[m] = next  BY <3>1, Continues
    <3>3. \A j \in ListedJobs(m) \ {kept} : Going(j)'  BY <2>5, DeletionMarks DEF ListedJobs
    <3> HIDE DEF next
    \* The kept job has failed, or it was listed before any failure was seen.
    <3>4. CASE next.phase \in {"Succeeded", "Failed"}
      <4>1. WillLook(m)'  BY <2>2, <3>2, <3>4 DEF WillLook, At
      <4>2. HandsOver(m)  BY <4>1 DEF HandsOver, WatchesAll, Watches
      <4>3. ListsOwnJobs(m)'  BY <2>2, <3>2, <3>4 DEF ListsOwnJobs, At
      <4>4. QED  BY <4>2, <4>3, WatchStep
    <3>5. CASE next.phase \notin {"Succeeded", "Failed"}
      <4>1. ASSUME NEW j \in JobNames, FailedBuild(j)'  PROVE Watches(m, j)' /\ listed[j] # jobs'[j]
        <5>1. listed[j] # jobs'[j]
          <6>1. SUFFICES ASSUME listed[j] = jobs'[j]  PROVE FALSE
            OBVIOUS
          <6>2. j \in ListedJobs(m) /\ listed[j].phase = "Failed" /\ ~Going(j)'
            BY <1>12, <2>3, <4>1, <6>1
          <6>3. QED  BY <2>2, <3>3, <3>5, <6>2
        <5>2. QED  BY <1>5, <5>1 DEF Watches
      <4>2. HandsOver(m)  BY <4>1 DEF HandsOver, WatchesAll
      <4>3. ListsOwnJobs(m)'  BY <1>5, <4>1 DEF ListsOwnJobs
      <4>4. QED  BY <4>2, <4>3, WatchStep
    <3>6. QED  BY <3>4, <3>5
  <2>6. QED  BY <2>1, <2>4, <2>5
\* A job that was running when it was listed: all failures are news to the manager.
<1>15. CASE ReportRunningJob(m)
  <2>1. GoesOn(m, Building) \/ GoesOn(m, Failing)
    BY <1>15 DEF ReportRunningJob, SetStatusConditions, GoesOn
  <2>2. /\ w.pc = "jobStatus" /\ w.phase \notin {"Succeeded", "Failed"} /\ UNCHANGED jobs
    BY <1>15 DEF ReportRunningJob, At, clusterVars
  <2>3. \A j \in JobNames : FailedBuild(j) => listed[j] # jobs[j]
    BY <1>5, <2>2 DEF ListingIsSound, ListsOwnJobs, At
  <2>4. \A j \in JobNames : FailedBuild(j)' => FailedBuild(j)
    BY <1>5, <2>2 DEF FailedBuild, HashChanged
  <2>5. HandsOver(m)  BY <1>5, <2>2, <2>3, <2>4 DEF HandsOver, WatchesAll, Watches
  <2>6. QED  BY <1>4, <1>6, <2>1, <2>5, WatchStep
<1>16. CASE ReportFailedJob(m)
  <2> DEFINE up == [c \in {"ImageBuilding", "BentoAvailable"} |-> Cond("False")]
  <2>1. SetStatusConditions(m, up, Building, Failing)  BY <1>16 DEF ReportFailedJob
  <2>2. "ImageBuilding" \in DOMAIN up /\ up["ImageBuilding"].status = "False"
    BY DEF Cond
  <2> HIDE DEF up
  <2>3. ASSUME UpdateStatus(m, Apply(request.conds, up))  PROVE HandsOver(m)
    <3>1. request'.conds["ImageBuilding"] = up["ImageBuilding"]
      BY <2>2, <2>3, ToldByUpdate DEF ConditionTypes
    <3>2. QED  BY <2>2, <3>1 DEF HandsOver, FailureTold
  <2>4. QED  BY <1>4, <1>6, <2>1, <2>3, WatchStatusStep
<1>17. CASE ReportSucceededJob(m)
  <2> DEFINE up == [c \in {"ImageBuilding", "ImageExists"} |->
                       IF c = "ImageBuilding" THEN Cond("False") ELSE CondMsg("True", w.image)]
             next == [w EXCEPT !.br = Returned, !.imageExists = TRUE, !.pc = "afterImage"]
  <2>1. next.pc = "afterImage"  BY <1>3 DEF WorkerRecords
  <2>2. SetStatusConditions(m, up, next, Failing)
    BY <1>17 DEF ReportSucceededJob
  <2>3. "ImageBuilding" \in DOMAIN up /\ up["ImageBuilding"].status = "False"
    BY DEF Cond
  <2> HIDE DEF up, next
  <2>4. ASSUME UpdateStatus(m, Apply(request.conds, up))  PROVE HandsOver(m)
    <3>1. request'.conds["ImageBuilding"] = up["ImageBuilding"]
      BY <2>3, <2>4, ToldByUpdate DEF ConditionTypes
    <3>2. QED  BY <2>3, <3>1 DEF HandsOver, FailureTold
  <2>5. GoesOn(m, next) => ListsOwnJobs(m)'  BY <2>1, ListsNothing
  <2>6. QED  BY <1>4, <2>2, <2>4, <2>5, WatchStatusStep
<1>18. QED
  BY <1>8, <1>9, <1>10, <1>11, <1>13, <1>14, <1>15, <1>16, <1>17 DEF ensureImageExists

-----------------------------------------------------------------------------
(* Failed builds: ensureModelsExists. *)

\* The call goes on with ensureImageExists, and will not wait for seeders.
LEMMA ReturnLooks ==
    ASSUME TypeOK, NEW m \in Managers, request'.rev = request.rev,
           NEW v \in WorkerRecords, NEW exists, NEW err, exists \/ err, NEW br,
           GoesOn(m, ReturnModels(v, exists, err, br))
    PROVE  ListsOwnJobs(m)' /\ HandsOver(m)
<1> DEFINE r == ReturnModels(v, exists, err, br)
<1>1. r.pc = "image" /\ r.modelsExists = exists /\ r.modelsErr = err
  BY DEF ReturnModels, WorkerRecords
<1>2. GoesOn(m, r)  OBVIOUS
<1> HIDE DEF r
<1>3. worker'[m] = r  BY <1>2, Continues
<1>4. WillLook(m)'  BY <1>1, <1>3 DEF WillLook, At, TakesImageForExisting, AwaitsSeeders
<1>5. HandsOver(m)  BY <1>4 DEF HandsOver, WatchesAll, Watches
<1>6. QED  BY <1>1, <1>2, <1>5, ListsNothing

LEMMA EnsureModelsExistsWatched ==
    ASSUME TypeOK, ListingIsSound, NEW m \in Managers, Reconcile(m), ensureModelsExists(m)
    PROVE  FailuresKept
<1> DEFINE br == BentoRequest(m)
           cached == cache[m].request
           w == worker[m]
           rev == request.rev
<1>1. w \in WorkerRecords /\ worker \in [Managers -> Workers]
  BY DEF TypeOK, Workers
<1>2. request'.rev = rev  BY ReconcileDerives DEF RequestFrame
<1>3. ASSUME NEW v \in WorkerRecords, NEW exists, NEW err, exists \/ err, NEW r,
             GoesOn(m, ReturnModels(v, exists, err, r))
      PROVE  ListsOwnJobs(m)' /\ HandsOver(m)
  BY <1>2, <1>3, ReturnLooks
<1>4. ASSUME NEW next, GoesOn(m, next), next.pc \in {"listSeeders", "deleteSeeders", "seed"}
      PROVE  ListsOwnJobs(m)' /\ HandsOver(m)
  BY <1>4, LooksOn, ListsNothing DEF LookingPlaces, BusyPlaces
<1>5. CASE EnterEnsureModelsExists(m)
  <2> DEFINE tags == ModelTags[br.rev]
             called == [w EXCEPT !.separate = TRUE]
             entered == [called EXCEPT !.br = br, !.tags = tags, !.pc = "listSeeders"]
             waiting == [entered EXCEPT !.br = Returned]
             notReady == [c \in {"ModelsExists"} |-> Cond("False")]
             memory == InMemory(m, Apply(cached.conds, notReady))
             gaveUp == ReturnModels(called, FALSE, TRUE, memory)
             known == ReturnModels(called, TRUE, FALSE, br)
  <2>1. called \in WorkerRecords /\ entered.pc = "listSeeders" /\ waiting.pc = "listSeeders"
    BY <1>1 DEF WorkerRecords
  <2>2. \/ SetStatusConditions(m, notReady, waiting, gaveUp)
        \/ GoesOn(m, known) \/ GoesOn(m, entered)
    BY <1>5 DEF EnterEnsureModelsExists, GoesOn
  <2> HIDE DEF br, called, entered, waiting, notReady, memory
  <2>3. GoesOn(m, gaveUp) \/ GoesOn(m, known) => ListsOwnJobs(m)' /\ HandsOver(m)
    BY <1>3, <2>1
  <2> HIDE DEF gaveUp, known
  <2>4. GoesOn(m, waiting) \/ GoesOn(m, entered) => ListsOwnJobs(m)' /\ HandsOver(m)
    BY <1>4, <2>1
  <2>5. CASE SetStatusConditions(m, notReady, waiting, gaveUp)
    BY <2>3, <2>4, <2>5, WatchStatusStep
  <2>6. CASE GoesOn(m, known) \/ GoesOn(m, entered)  BY <2>3, <2>4, <2>6, WatchStep
  <2>7. QED  BY <2>2, <2>5, <2>6
<1>6. CASE ListSeederJobs(m) \/ StartSeeding(m)
  <2>1. ListsOwnJobs(m)' /\ HandsOver(m)  BY <1>4, <1>6, SeedersAreListed
  <2>2. QED  BY <2>1, WatchStep
<1>7. CASE DeleteStaleSeeder(m)
  <2> DEFINE memory == InMemory(m, AllUnknown(cached.conds))
             gaveUp == ReturnModels(w, FALSE, TRUE, memory)
             failed == ReturnModels(w, FALSE, TRUE, br)
  <2>1. PICK j \in w.stale :
          \/ worker' = [worker EXCEPT ![m].br = Returned, ![m].stale = @ \ {j}]
          \/ GoesOn(m, gaveUp) \/ GoesOn(m, failed)
    BY <1>7 DEF DeleteStaleSeeder, ReturnError, GoesOn
  <2> DEFINE next == [w EXCEPT !.br = Returned, !.stale = @ \ {j}]
  <2>2. next.pc = "deleteSeeders"  BY <1>1, <1>7 DEF DeleteStaleSeeder, At, WorkerRecords
  <2>3. GoesOn(m, next) \/ GoesOn(m, gaveUp) \/ GoesOn(m, failed)
    BY <1>1, <2>1 DEF GoesOn
  <2> HIDE DEF next, memory, br
  <2>4. ListsOwnJobs(m)' /\ HandsOver(m)  BY <1>1, <1>3, <1>4, <2>2, <2>3
  <2>5. QED  BY <2>4, WatchStep
<1>8. CASE DeleteOrphanSeeder(m)
  <2> DEFINE failed == ReturnModels(w, FALSE, TRUE, br)
  <2>1. PICK j \in w.orphans :
          worker' = [worker EXCEPT ![m].orphans = @ \ {j}] \/ GoesOn(m, failed)
    BY <1>8 DEF DeleteOrphanSeeder, ReturnError, GoesOn
  <2> DEFINE next == [w EXCEPT !.orphans = @ \ {j}]
  <2>2. next.pc = "deleteSeeders"  BY <1>1, <1>8 DEF DeleteOrphanSeeder, At, WorkerRecords
  <2>3. GoesOn(m, next) \/ GoesOn(m, failed)  BY <1>1, <2>1 DEF GoesOn
  <2> HIDE DEF next, br
  <2>4. ListsOwnJobs(m)' /\ HandsOver(m)  BY <1>1, <1>3, <1>4, <2>2, <2>3
  <2>5. QED  BY <2>4, WatchStep
<1>9. CASE CreateSeederJob(m)
  <2> DEFINE failed == ReturnModels(w, FALSE, TRUE, br)
  <2>1. PICK model \in w.toSeed :
          worker' = [worker EXCEPT ![m].toSeed = @ \ {model}] \/ GoesOn(m, failed)
    BY <1>9 DEF CreateSeederJob, ReturnError, GoesOn
  <2> DEFINE next == [w EXCEPT !.toSeed = @ \ {model}]
  <2>2. next.pc = "seed"  BY <1>1, <1>9 DEF CreateSeederJob, At, WorkerRecords
  <2>3. GoesOn(m, next) \/ GoesOn(m, failed)  BY <1>1, <2>1 DEF GoesOn
  <2> HIDE DEF next, br
  <2>4. ListsOwnJobs(m)' /\ HandsOver(m)  BY <1>1, <1>3, <1>4, <2>2, <2>3
  <2>5. QED  BY <2>4, WatchStep
<1>10. CASE ReportFailedSeeders(m)
  <2> DEFINE up == [c \in {"ModelsExists", "BentoAvailable"} |-> Cond("False")]
             memory == InMemory(m, Apply(cached.conds, up))
             ok == ReturnModels(w, FALSE, TRUE, Returned)
             gaveUp == ReturnModels(w, FALSE, TRUE, memory)
  <2>1. SetStatusConditions(m, up, ok, gaveUp)  BY <1>10 DEF ReportFailedSeeders
  <2> HIDE DEF memory, up
  <2>2. GoesOn(m, ok) \/ GoesOn(m, gaveUp) => ListsOwnJobs(m)' /\ HandsOver(m)
    BY <1>1, <1>3
  <2> HIDE DEF ok, gaveUp
  <2>3. QED  BY <2>1, <2>2, WatchStatusStep
<1>11. CASE ReportSeeding(m)
  <2> DEFINE exists == AllSeeded(m)
             up == IF exists
                   THEN [c \in {"ModelsExists", "ModelsSeeding"} |->
                            IF c = "ModelsExists" THEN CondMsg("True", w.tags)
                                                  ELSE Cond("False")]
                   ELSE [c \in {"ModelsSeeding"} |-> Cond("True")]
             memory == InMemory(m, Apply(cached.conds, up))
             ok == ReturnModels(w, exists, FALSE, Returned)
             gaveUp == ReturnModels(w, exists, TRUE, memory)
  <2>1. SetStatusConditions(m, up, ok, gaveUp)  BY <1>11 DEF ReportSeeding
  <2>2. "ImageExists" \notin DOMAIN up  OBVIOUS
  <2>3. ok.pc = "image" /\ ok.br = Returned  BY <1>1 DEF ReturnModels, WorkerRecords
  <2> HIDE DEF memory, up
  <2>4. GoesOn(m, gaveUp) => ListsOwnJobs(m)' /\ HandsOver(m)  BY <1>1, <1>3
  <2> HIDE DEF ok, gaveUp
  \* What the call reads next is what it has just overwritten, where ImageExists was the same.
  <2>5. ASSUME UpdateStatus(m, Apply(request.conds, up)), GoesOn(m, ok)
        PROVE  ListsOwnJobs(m)' /\ HandsOver(m)
    <3>1. worker'[m] = ok  BY <2>5, Continues
    <3>2. cache'[m].request = request  BY <2>5 DEF UpdateStatus, TypeOK, Caches
    <3>3. request'.conds["ImageExists"] = request.conds["ImageExists"]
      BY <2>2, <2>5, ToldByUpdate DEF ConditionTypes
    <3>4. BentoRequest(m)' = request  BY <2>3, <3>1, <3>2 DEF BentoRequest
    <3>5. TakesImageForExisting(m)' => FailureTold'
      BY <1>2, <3>3, <3>4 DEF TakesImageForExisting, FailureTold, ImageExistsCondition
    <3>6. ~TakesImageForExisting(m)' => WillLook(m)'  BY <2>3, <3>1 DEF WillLook, At
    <3>7. HandsOver(m)  BY <3>5, <3>6 DEF HandsOver, WatchesAll, Watches
    <3>8. QED  BY <2>3, <2>5, <3>7, ListsNothing
  <2>6. QED  BY <2>1, <2>4, <2>5, WatchStatusStep
<1>12. QED
  BY <1>5, <1>6, <1>7, <1>8, <1>9, <1>10, <1>11 DEF ensureModelsExists

-----------------------------------------------------------------------------
(* Failed builds: Reconcile. *)

LEMMA ReconcileWatched ==
    ASSUME TypeOK, RequestIsAttended, ListingIsSound, NEW m \in Managers, Reconcile(m)
    PROVE  FailuresKept
<1> DEFINE br == BentoRequest(m)
           cached == cache[m].request
           w == worker[m]
           rev == request.rev
<1>0. SUFFICES ASSUME ~HearsAnew(m)'  PROVE FailuresKept
  BY HeardWatch
<1>1. w \in WorkerRecords /\ worker \in [Managers -> Workers]
  BY DEF TypeOK, Workers
<1>2. GoesOn(m, Failing) => ListsOwnJobs(m)' /\ HandsOver(m)  BY FailingLooks
<1>3. ASSUME NEW next, GoesOn(m, next), next.pc \in {"init", "mark", "marked", "bento", "available"}
      PROVE  ListsOwnJobs(m)' /\ HandsOver(m)
  BY <1>3, LooksOn, ListsNothing DEF LookingPlaces, BusyPlaces
<1>4. ~queue'[m]  BY <1>0 DEF HearsAnew
<1>5. GoesOn(m, Idle) => ListsOwnJobs(m)'  BY ListsNothing, FailingFields
<1>6. CASE StartReconcile(m)
  <2> DEFINE first == [Idle EXCEPT !.br = cached, !.pc = "init"]
             again == [Idle EXCEPT !.br = cached, !.pc = "mark"]
  <2>1. \/ GoesOn(m, Idle) /\ KnowsAvailable(m)
        \/ GoesOn(m, first)
        \/ GoesOn(m, again)
    BY <1>6 DEF StartReconcile, GoesOn, KnowsAvailable
  <2>2. first.pc = "init" /\ again.pc = "mark"  BY DEF Idle
  <2> HIDE DEF first, again
  <2>3. ListsOwnJobs(m)' /\ (HandsOver(m) \/ KnowsAvailable(m))
    BY <1>3, <1>5, <2>1, <2>2
  <2>4. QED  BY <1>6, <2>3, WatchStep
<1>7. CASE InitConditions(m) \/ HandleError(m)
  <2> DEFINE next == [w EXCEPT !.br = Returned, !.pc = "mark"]
  <2>1. GoesOn(m, next) \/ queue'[m]
    BY <1>1, <1>7 DEF InitConditions, HandleError, GoesOn, TypeOK
  <2>2. next.pc = "mark"  BY <1>1 DEF WorkerRecords
  <2> HIDE DEF next
  <2>3. QED  BY <1>3, <1>4, <2>1, <2>2, WatchStep
<1>8. CASE MarkReconciling(m)
  <2> DEFINE updates == [c \in {"BentoAvailable"} |-> Cond("Unknown")]
             next == [w EXCEPT !.br = Returned, !.pc = "marked"]
             known == [w EXCEPT !.br = br, !.pc = "marked"]
  <2>1. GoesOn(m, next) \/ GoesOn(m, Failing) \/ GoesOn(m, known)
    BY <1>1, <1>8 DEF MarkReconciling, SetStatusConditions, GoesOn
  <2>2. next.pc = "marked" /\ known.pc = "marked"  BY <1>1 DEF WorkerRecords
  <2> HIDE DEF next, known
  <2>3. QED  BY <1>2, <1>3, <2>1, <2>2, WatchStep
<1>9. CASE ensureModelsExists(m)  BY <1>9, EnsureModelsExistsWatched
<1>10. CASE ensureImageExists(m)  BY <1>0, <1>10, EnsureImageExistsWatched
\* A call that awaits a job was not looking, and leaves what has been told as it is.
<1>11. CASE AwaitImage(m) \/ AwaitModels(m)
  <2>1. ~WillLook(m)
    <3>1. CASE AwaitImage(m)
      BY <3>1 DEF AwaitImage, WillLook, At, LookingPlaces, BusyPlaces
    <3>2. CASE AwaitModels(m)
      <4>1. w.pc = "afterImage" /\ ~w.modelsErr /\ ~w.modelsExists /\ SeedsModels(m)
        BY <3>2 DEF AwaitModels, At
      <4>2. br.rev = rev  BY <1>0, <4>1, StaysCurrent DEF CallIsCurrent, At
      <4>3. AwaitsSeeders(m)  BY <4>1, <4>2 DEF SeedsModels, AwaitsSeeders
      <4>4. QED  BY <4>1, <4>3 DEF WillLook, At, LookingPlaces, BusyPlaces
    <3>3. QED  BY <1>11, <3>1, <3>2
  <2> DEFINE updates == [c \in {"BentoAvailable"} |-> Cond("Unknown")]
  <2>2. SetStatusConditions(m, updates, Idle, Failing)
    BY <1>11 DEF AwaitImage, AwaitModels
  <2>3. DOMAIN updates = {"BentoAvailable"}  OBVIOUS
  <2> HIDE DEF updates
  <2>4. ASSUME UpdateStatus(m, Apply(request.conds, updates))  PROVE HandsOver(m)
    <3>1. FailureTold => FailureTold'  BY <2>3, <2>4, AvailabilityTellsNothing
    <3>2. queue[m] => queue'[m]  BY <2>4, WritesFrame DEF Writes
    <3>3. QED  BY <2>1, <3>1, <3>2 DEF HandsOver
  <2>5. QED  BY <1>2, <1>5, <2>2, <2>4, WatchStatusStep
<1>12. CASE ReturnModelsError(m)
  <2>1. GoesOn(m, Failing)  BY <1>12 DEF ReturnModelsError, GoesOn
  <2>2. QED  BY <1>2, <2>1, WatchStep
<1>13. CASE CleanUpSeeders(m) \/ SkipSeeders(m)
  <2> DEFINE next == [w EXCEPT !.br = br, !.pc = "bento"]
  <2>1. GoesOn(m, next)  BY <1>1, <1>13 DEF CleanUpSeeders, SkipSeeders, GoesOn
  <2>2. next.pc = "bento"  BY <1>1 DEF WorkerRecords
  <2> HIDE DEF next
  <2>3. QED  BY <1>3, <2>1, <2>2, WatchStep
<1>14. CASE CreateBento(m)
  <2> DEFINE next == [Idle EXCEPT !.pc = "available"]
  <2>1. GoesOn(m, next) \/ GoesOn(m, Failing)  BY <1>14 DEF CreateBento, GoesOn
  <2>2. next.pc = "available"  BY DEF Idle
  <2> HIDE DEF next
  <2>3. QED  BY <1>2, <1>3, <2>1, <2>2, WatchStep
<1>15. CASE SetAvailable(m)
  <2> DEFINE updates == [c \in {"BentoAvailable"} |-> Cond("True")]
  <2>1. SetStatusConditions(m, updates, Idle, Failing)  BY <1>15 DEF SetAvailable
  <2>2. "BentoAvailable" \in DOMAIN updates /\ updates["BentoAvailable"].status = "True"
    BY DEF Cond
  <2> HIDE DEF updates
  <2>3. UpdateStatus(m, Apply(request.conds, updates)) => Available'
    BY <2>2, ToldByUpdate DEF Available, ConditionTypes
  <2>4. QED  BY <1>2, <1>5, <2>1, <2>3, WatchStatusStep
<1>16. QED
  BY <1>6, <1>7, <1>8, <1>9, <1>10, <1>11, <1>12, <1>13, <1>14, <1>15, Reconcile(m)
  DEF Reconcile

-----------------------------------------------------------------------------
(* Failed builds: the environment. *)

LEMMA EnvironmentWatched ==
    ASSUME TypeOK, RequestIsAttended, ListingIsSound, EditsChangeSpec, Managers # {},
           Environment
    PROVE  /\ ListingIsSound'
           /\ FailureTold \/ FailuresWatched => FailureTold' \/ FailuresWatched'
\* An edit is news for every manager, also for one that is reconciling.
<1>1. ASSUME NEW rev \in Revisions, Edit(rev)
      PROVE  ListingIsSound' /\ FailuresWatched'
  <2>1. /\ request.rev \in Revisions /\ request.generation \in Nat
        /\ \A n \in Managers : cache[n].request.generation \in Nat
    BY DEF TypeOK, Requests, Caches
  <2>2. request'.generation = request.generation + 1
    BY <1>1, <2>1 DEF Edit, EditsChangeSpec, TypeOK, Requests
  <2>3. UNCHANGED <<jobs, cache>>  BY <1>1 DEF Edit
  <2>4. ASSUME NEW n \in Managers
        PROVE  HearsAnew(n)' /\ ListsOwnJobs(n)' /\ FailuresLast(n)'
    <3>1. cache[n].request.generation <= request.generation  BY DEF RequestIsAttended, KeepsUp
    <3>2. HearsAnew(n)'  BY <2>1, <2>2, <2>3, <3>1 DEF HearsAnew
    <3>3. FailuresLast(n)  BY DEF ListingIsSound
    <3>4. QED  BY <2>3, <3>2, <3>3 DEF ListsOwnJobs, FailuresLast, Going
  <2>5. QED  BY <2>4 DEF ListingIsSound, FailuresWatched, Watches
\* What informers show of the jobs queues the request, and a status they show has been told.
<1>2. ASSUME NEW m \in Managers,
             SyncRequest(m) \/ SyncJobs(m) \/ SyncPVCs(m) \/ Resync(m) \/ Crash(m)
      PROVE  /\ ListingIsSound'
             /\ FailureTold \/ FailuresWatched => FailureTold' \/ FailuresWatched'
  <2>1. Sees(m)  BY <1>2, InformersShow
  <2>2. /\ UNCHANGED <<request, jobs, bento>>
        /\ cache'[m].request \in {cache[m].request, request}
        /\ cache'[m].jobs \in {cache[m].jobs, jobs}
        /\ worker'[m] = worker[m] \/ (worker'[m] = Idle /\ queue'[m])
        /\ \A n \in Managers \ {m} : cache'[n] = cache[n] /\ worker'[n] = worker[n]
    BY <2>1 DEF Sees
  <2>3. /\ \A j \in JobNames : FailedBuild(j)' <=> FailedBuild(j)
        /\ \A j \in JobNames : Going(j)' <=> Going(j)
        /\ FailureTold' <=> FailureTold
    BY <2>2 DEF FailedBuild, HashChanged, Going, FailureTold
  <2>4. ASSUME NEW n \in Managers
        PROVE  ListsOwnJobs(n)' /\ FailuresLast(n)'
    <3>1. ListsOwnJobs(n) /\ FailuresLast(n)  BY DEF ListingIsSound
    <3>2. FailuresLast(n)'  BY <2>2, <2>3, <3>1, n = m \/ n # m DEF FailuresLast
    <3>3. worker'[n] = worker[n] \/ (worker'[n] = Idle /\ queue'[n])
      BY <2>2, n = m \/ n # m
    <3>4. CASE queue'[n]  BY <2>2, <3>1, <3>2, <3>3, <3>4, FailingFields DEF ListsOwnJobs, HearsAnew, At
    <3>5. CASE ~queue'[n]
      <4>1. /\ worker'[n] = worker[n] /\ cache'[n].jobs = cache[n].jobs /\ ~queue[n]
            /\ cache'[n].request.generation = cache[n].request.generation
        BY <2>1, <3>5, SeesNothing
      <4>2. QED  BY <2>2, <2>3, <3>1, <3>2, <4>1 DEF ListsOwnJobs, HearsAnew, At
    <3>6. QED  BY <3>4, <3>5
  <2>5. ASSUME ~FailureTold, NEW n \in Managers, NEW j \in JobNames, Watches(n, j), ~queue'[n]
        PROVE  Watches(n, j)'
    <3>1. /\ worker'[n] = worker[n] /\ cache'[n].jobs = cache[n].jobs
          /\ cache'[n].request.generation = cache[n].request.generation /\ ~queue[n]
      BY <2>1, <2>5, SeesNothing
    <3>2. cache'[n].request \in {cache[n].request, request}
      BY <2>2, n = m \/ n # m
    <3>3. BentoRequest(n)' \in {BentoRequest(n), request}  BY <3>1, <3>2 DEF BentoRequest
    <3>4. TakesImageForExisting(n)' => TakesImageForExisting(n)
      BY <2>2, <2>5, <3>1, <3>3
      DEF TakesImageForExisting, FailureTold, At, AwaitsSeeders
    <3>5. WillLook(n) => WillLook(n)'
      BY <2>2, <3>1, <3>4 DEF WillLook, At, AwaitsSeeders
    <3>6. QED  BY <2>2, <2>3, <2>5, <3>1, <3>5 DEF Watches, HearsAnew
  <2>6. \A n \in Managers, j \in JobNames : queue'[n] => Watches(n, j)'  BY DEF Watches, HearsAnew
  <2>7. QED  BY <2>3, <2>4, <2>5, <2>6 DEF ListingIsSound, FailuresWatched
\* A job that fails is news for every manager: none has seen it fail.
<1>3. ASSUME NEW j \in JobNames,
             \/ StartPod(j) \/ FinishPod(j) \/ RecordSuccess(j) \/ FailPod(j) \/ FinalizeJob(j)
      PROVE  /\ ListingIsSound'
             /\ FailureTold \/ FailuresWatched => FailureTold' \/ FailuresWatched'
  <2>1. /\ UNCHANGED <<request, bento, cache, queue, worker>>
        /\ \A k \in JobNames : Going(k)' <=> Going(k)
        /\ \A k \in JobNames \ {j} : jobs'[k] = jobs[k]
        /\ jobs[j].phase = "Failed" => Going(j)
        /\ jobs'[j].phase = "Failed" => jobs[j].phase = "Active" /\ ~Going(j)
    BY <1>3, PodStep
  <2>2. ASSUME NEW n \in Managers  PROVE FailuresLast(n)'
    <3>1. FailuresLast(n)  BY DEF ListingIsSound
    <3>2. ASSUME NEW k \in JobNames, cache[n].jobs[k].phase = "Failed"
          PROVE  Going(k)' \/ jobs'[k].phase = "Failed"
      BY <2>1, <3>1, <3>2, k = j \/ k # j DEF FailuresLast
    <3>3. QED  BY <2>1, <3>2 DEF FailuresLast
  <2>3. ASSUME NEW n \in Managers, FailedBuild(j)'  PROVE cache[n].jobs[j] # jobs'[j]
    <3>1. jobs'[j].phase = "Failed"  BY <2>3 DEF FailedBuild
    <3>2. jobs[j].phase = "Active" /\ ~Going(j)  BY <2>1, <3>1
    <3>3. cache[n].jobs[j].phase = "Failed" => Going(j) \/ jobs[j].phase = "Failed"
      BY DEF ListingIsSound, FailuresLast
    <3>4. QED  BY <3>1, <3>2, <3>3
  <2>4. ASSUME NEW k \in JobNames, k # j
        PROVE  jobs'[k] = jobs[k] /\ (FailedBuild(k)' <=> FailedBuild(k))
    BY <2>1, <2>4 DEF FailedBuild, HashChanged
  <2>5. ASSUME NEW n \in Managers  PROVE ListsOwnJobs(n)'
    <3>1. ListsOwnJobs(n)  BY DEF ListingIsSound
    <3>2. ASSUME \A k \in JobNames : FailedBuild(k) => cache[n].jobs[k] # jobs[k]
          PROVE  \A k \in JobNames : FailedBuild(k)' => cache[n].jobs[k] # jobs'[k]
      BY <2>3, <2>4, <3>2
    <3>3. QED  BY <2>1, <3>1, <3>2 DEF ListsOwnJobs, HearsAnew, At
  <2>6. ASSUME NEW n \in Managers, NEW k \in JobNames, k # j, Watches(n, k)
        PROVE  Watches(n, k)'
    <3>1. WillLook(n) => WillLook(n)'
      BY <2>1 DEF WillLook, At, TakesImageForExisting, AwaitsSeeders, BentoRequest
    <3>2. QED  BY <2>1, <2>4, <2>6, <3>1 DEF Watches, HearsAnew
  <2>7. FailuresWatched => FailuresWatched'
    <3>1. \A n \in Managers : FailedBuild(j)' => Watches(n, j)'
      BY <2>1, <2>3 DEF Watches
    <3>2. QED  BY <2>4, <2>6, <3>1 DEF FailuresWatched
  <2>8. FailureTold' <=> FailureTold  BY <2>1 DEF FailureTold
  <2>9. QED  BY <2>2, <2>5, <2>7, <2>8 DEF ListingIsSound
<1>4. QED  BY <1>1, <1>2, <1>3 DEF Environment

-----------------------------------------------------------------------------
LEMMA InitWatched ==
    ASSUME Init
    PROVE  FailureIsWatched
<1>1. /\ \A j \in JobNames : jobs[j].phase = "Waiting"
      /\ \A m \in Managers : /\ worker[m].pc = "idle"
                             /\ \A j \in JobNames : cache[m].jobs[j].phase = "Waiting"
  BY DEF Init, NoJob, Idle
<1>2. QED
  BY <1>1 DEF FailureIsWatched, FailuresWatched, FailedBuild, ListingIsSound, ListsOwnJobs,
              FailuresLast, At

\* Everything is as before.
LEMMA StutterWatched ==
    ASSUME UNCHANGED vars
    PROVE  /\ FailureTold' <=> FailureTold
           /\ FailuresWatched => FailuresWatched'
           /\ ListingIsSound => ListingIsSound'
<1>1. /\ UNCHANGED <<request, jobs, cache, queue, worker>>
      /\ \A j \in JobNames : (FailedBuild(j)' <=> FailedBuild(j)) /\ (Going(j)' <=> Going(j))
  BY DEF vars, FailedBuild, HashChanged, Going
<1>2. ASSUME NEW n \in Managers
      PROVE  /\ WillLook(n)' <=> WillLook(n)
             /\ ListsOwnJobs(n) => ListsOwnJobs(n)'
             /\ FailuresLast(n) => FailuresLast(n)'
  BY <1>1 DEF WillLook, At, TakesImageForExisting, AwaitsSeeders, BentoRequest, ListsOwnJobs,
              FailuresLast, HearsAnew
<1>3. \A n \in Managers, j \in JobNames : Watches(n, j) => Watches(n, j)'
  BY <1>1, <1>2 DEF Watches, HearsAnew
<1>4. QED  BY <1>1, <1>2, <1>3 DEF FailureTold, FailuresWatched, ListingIsSound

LEMMA NextWatched ==
    ASSUME TypeOK, RequestIsAttended, FailureIsWatched, EditsChangeSpec, Managers # {},
           [Next]_vars
    PROVE  FailureIsWatched'
<1>1. ListingIsSound  BY DEF FailureIsWatched
\* What is available, or is known to be, has a Bento.
<1>2. ASSUME NEW m \in Managers, Reconcile(m)  PROVE FailureIsWatched'
  <2>1. FailuresKept  BY <1>1, <1>2, ReconcileWatched
  <2>2. bento # NoBento => bento' # NoBento  BY <1>2, ReconcileDerives
  <2>3. Available' => bento' # NoBento
    BY <1>2, ReconcileAttended DEF RequestIsAttended, AvailabilityIsTrue
  <2>4. \A n \in Managers : KnowsAvailable(n) => bento # NoBento
    BY DEF RequestIsAttended, AvailabilityIsTrue
  <2>5. QED  BY <2>1, <2>2, <2>3, <2>4 DEF FailureIsWatched, FailuresKept
<1>3. CASE Environment
  <2>1. UNCHANGED bento
    BY <1>3 DEF Environment, Edit, SyncRequest, SyncJobs, SyncPVCs, Resync, Crash, StartPod,
                FinishPod, RecordSuccess, FailPod, FinalizeJob
  <2>2. QED  BY <1>1, <1>3, <2>1, EnvironmentWatched DEF FailureIsWatched
<1>4. CASE UNCHANGED vars
  <2>1. UNCHANGED bento  BY <1>4 DEF vars
  <2>2. QED  BY <1>4, <2>1, StutterWatched DEF FailureIsWatched
<1>5. QED  BY <1>2, <1>3, <1>4 DEF Next

(* As long as there is no Bento, a failed build has been told of, or some  *)
(* manager looks at it or will be made to, for any number of managers,     *)
(* jobs, crashes, failed calls and edits of the spec, at any moment of a   *)
(* call.                                                                   *)
THEOREM WatchedInvariant ==
    ASSUME EditsChangeSpec, Managers # {}
    PROVE  Spec => []FailureIsWatched
<1>1. Init => TypeOK /\ RequestIsAttended /\ FailureIsWatched
  BY InitType, InitAttended, InitWatched
<1>2. TypeOK /\ RequestIsAttended /\ FailureIsWatched /\ [Next]_vars
        => (TypeOK /\ RequestIsAttended /\ FailureIsWatched)'
  BY NextType, NextAttended, NextWatched
<1>3. QED  BY <1>1, <1>2, PTL DEF Spec

\* A manager that rests and has seen all there is to see watches no job.
LEMMA RestersWatchNothing ==
    ASSUME \A m \in Managers : Quiescent(m), \A j \in JobNames : ~jobs[j].deleting
    PROVE  \A m \in Managers, j \in JobNames : ~Watches(m, j)
<1>1. ASSUME NEW m \in Managers
      PROVE  /\ ~queue[m] /\ worker[m].pc = "idle"
             /\ cache[m].request = request /\ cache[m].jobs = jobs
  BY DEF Quiescent, At
<1>2. \A m \in Managers : ~WillLook(m)
  BY <1>1 DEF WillLook, At, LookingPlaces, BusyPlaces
<1>3. QED  BY <1>1, <1>2 DEF Watches, HearsAnew, Going

(* A failed build does not go unnoticed before there is a Bento: when all  *)
(* managers rest, no job is being deleted and a builder job of the current *)
(* revision has failed, ImageBuilding is False or the image exists.        *)
THEOREM FirstFailureReported ==
    ASSUME EditsChangeSpec, Managers # {}
    PROVE  Spec => []( /\ \A m \in Managers : Quiescent(m)
                       /\ \A j \in JobNames : ~jobs[j].deleting
                       /\ bento = NoBento
                       => \A j \in JobNames : FailedBuild(j) => FailureTold )
<1>1. FailureIsWatched => ( /\ \A m \in Managers : Quiescent(m)
                            /\ \A j \in JobNames : ~jobs[j].deleting
                            /\ bento = NoBento
                            => \A j \in JobNames : FailedBuild(j) => FailureTold )
  BY RestersWatchNothing DEF FailureIsWatched, FailuresWatched
<1>2. QED  BY <1>1, WatchedInvariant, PTL

-----------------------------------------------------------------------------
(***************************************************************************)
(* Failed builds when there is a Bento: one manager that seeds no models.  *)
(* With a second one the property is false: a manager that has not seen    *)
(* the conditions resets ImageExists, the other makes the request          *)
(* available, the first reports its own build as going on; when that build *)
(* fails, both end their calls on the copy of the conditions that shows    *)
(* the request available.                                                  *)
(***************************************************************************)

OneManager == \E m : Managers = {m}

NoSeeding == \A rev \in Revisions : ~(SeparateModels[rev] /\ ~StoredInS3[rev])

LEMMA UncheckedHolds ==
    ASSUME NEW copy, NEW conds, copy["ImageExistsChecked"].status # "True"
    PROVE  CopyHolds(copy, conds)
BY DEF CopyHolds, ImageChecked, CondMsg

LEMMA NoConditionsHold ==
    /\ NoConditions["ImageExistsChecked"].status = "Absent"
    /\ NoConditions["ImageExists"].status = "Absent"
    /\ NoConditions["BentoAvailable"].status = "Absent"
    /\ \A conds : CopyHolds(NoConditions, conds)
    /\ \A image : PlaceHolds("init", NoConditions, image)
<1>1. /\ NoConditions["ImageExistsChecked"].status = "Absent"
      /\ NoConditions["ImageExists"].status = "Absent"
      /\ NoConditions["BentoAvailable"].status = "Absent"
  BY DEF NoConditions, ConditionTypes, Cond
<1>2. QED  BY <1>1, UncheckedHolds DEF PlaceHolds

\* The manager goes on, and writes nothing.
LEMMA AvailabilityCall ==
    ASSUME TypeOK, NEW m \in Managers, AvailabilityHolds(m), UNCHANGED <<request, cache>>,
           NEW w, GoesOn(m, w),
           w.pc \in {"mark", "marked"} => CopyHolds(w.br.conds, request.conds),
           PlaceHolds(w.pc, request.conds, ImageName[request.rev])
    PROVE  AvailabilityHolds(m)'
<1>1. worker'[m] = w  BY Continues
<1>2. QED  BY <1>1 DEF AvailabilityHolds, Available, KnowsAvailable, CopyHolds

\* The manager writes the conditions conds, and goes on.
LEMMA AvailabilityWrite ==
    ASSUME TypeOK, NEW m \in Managers, NEW conds,
           request' = [request EXCEPT !.conds = conds],
           cache' = [cache EXCEPT ![m].request = request],
           NEW w, GoesOn(m, w), w.pc \in {"mark", "marked"} => w.br = Returned,
           CopyHolds(request.conds, conds), CopyHolds(conds, conds),
           PlaceHolds(w.pc, conds, ImageName[request.rev]),
           request.conds = NoConditions => PlaceHolds("init", conds, ImageName[request.rev]),
           \/ Available <=> conds["BentoAvailable"].status = "True"
           \/ ImageExistsCondition(conds, ImageName[request.rev])
    PROVE  AvailabilityHolds(m)'
<1>1. worker'[m] = w  BY Continues
<1>2. request'.conds = conds /\ request'.rev = request.rev  BY DEF TypeOK, Requests
<1>3. cache'[m].request = request  BY DEF TypeOK, Caches
<1>4. CopyHolds(Returned.conds, conds)  BY NoConditionsHold DEF Returned
<1>5. (Available' <=> conds["BentoAvailable"].status = "True") /\ (KnowsAvailable(m)' <=> Available)
  BY <1>2, <1>3 DEF Available, KnowsAvailable
<1>6. /\ CopyHolds(request'.conds, request'.conds)
      /\ CopyHolds(cache'[m].request.conds, request'.conds)
      /\ worker'[m].pc \in {"mark", "marked"} => CopyHolds(worker'[m].br.conds, request'.conds)
  BY <1>1, <1>2, <1>3, <1>4
<1>7. /\ PlaceHolds(worker'[m].pc, request'.conds, ImageName[request'.rev])
      /\ cache'[m].request.conds = NoConditions
            => PlaceHolds("init", request'.conds, ImageName[request'.rev])
      /\ \/ Available' <=> KnowsAvailable(m)'
         \/ ImageExistsCondition(request'.conds, ImageName[cache'[m].request.rev])
  BY <1>1, <1>2, <1>3, <1>5
<1>8. QED  BY <1>6, <1>7 DEF AvailabilityHolds, PlaceHolds, CopyHolds

\* The places that say nothing of the image but that an available Bento has one.
PlainPlaces == {"mark", "marked", "building", "fail"}

\* A call gives up, awaits a job, or has not begun to look.
LEMMA PlainCall ==
    ASSUME TypeOK, NEW m \in Managers, AvailabilityHolds(m), ~At(m, "idle"),
           UNCHANGED <<request, cache>>, NEW w, GoesOn(m, w), w.pc \in PlainPlaces,
           w.pc \in {"mark", "marked"} => CopyHolds(w.br.conds, request.conds)
    PROVE  AvailabilityHolds(m)'
<1>1. PlaceHolds(worker[m].pc, request.conds, ImageName[request.rev])
  BY DEF AvailabilityHolds
<1>2. PlaceHolds(w.pc, request.conds, ImageName[request.rev])
  BY <1>1 DEF PlaceHolds, PlainPlaces, At
<1>3. QED  BY <1>2, AvailabilityCall

\* A write of conditions other than those of the image.
LEMMA PlainWrite ==
    ASSUME TypeOK, NEW m \in Managers, AvailabilityHolds(m), ~At(m, "idle"), NEW conds,
           request' = [request EXCEPT !.conds = conds],
           cache' = [cache EXCEPT ![m].request = request],
           conds["ImageExists"] = request.conds["ImageExists"],
           conds["ImageExistsChecked"] = request.conds["ImageExistsChecked"],
           conds["BentoAvailable"].status = "True"
               => Available \/ ImageExistsCondition(request.conds, ImageName[request.rev]),
           NEW w, GoesOn(m, w), w.pc \in PlainPlaces \cup {"idle"},
           w.pc \in {"mark", "marked"} => w.br = Returned
    PROVE  AvailabilityHolds(m)'
<1>1. /\ CopyHolds(request.conds, request.conds)
      /\ PlaceHolds(worker[m].pc, request.conds, ImageName[request.rev])
  BY DEF AvailabilityHolds
<1>2. CopyHolds(request.conds, conds) /\ CopyHolds(conds, conds)
  BY <1>1 DEF CopyHolds, ImageChecked, ImageExistsCondition
<1>3. Available => ImageExistsCondition(request.conds, ImageName[request.rev])
  BY <1>1 DEF PlaceHolds, At, Available
<1>4. ImageExistsCondition(request.conds, ImageName[request.rev])
        <=> ImageExistsCondition(conds, ImageName[request.rev])
  BY DEF ImageExistsCondition
<1>5. PlaceHolds(w.pc, conds, ImageName[request.rev])
  BY <1>3, <1>4 DEF PlaceHolds, PlainPlaces
<1>6. request.conds = NoConditions => PlaceHolds("init", conds, ImageName[request.rev])
  <2> SUFFICES ASSUME request.conds = NoConditions
               PROVE  PlaceHolds("init", conds, ImageName[request.rev])
    OBVIOUS
  <2>1. ~ImageExistsCondition(request.conds, ImageName[request.rev])
    BY NoConditionsHold DEF ImageExistsCondition, CondMsg
  <2>2. conds["BentoAvailable"].status # "True"  BY <1>3, <2>1
  <2>3. conds["ImageExistsChecked"].status # "True"  BY NoConditionsHold
  <2>4. QED  BY <2>2, <2>3 DEF PlaceHolds
<1>7. \/ Available <=> conds["BentoAvailable"].status = "True"
      \/ ImageExistsCondition(conds, ImageName[request.rev])
  BY <1>3, <1>4
<1>8. QED  BY <1>2, <1>5, <1>6, <1>7, AvailabilityWrite

\* A status update of such conditions, or its failure.
LEMMA PlainUpdate ==
    ASSUME TypeOK, NEW m \in Managers, AvailabilityHolds(m), ~At(m, "idle"),
           NEW updates, NEW ok, NEW failed, SetStatusConditions(m, updates, ok, failed),
           DOMAIN updates \cap {"ImageExists", "ImageExistsChecked"} = {},
           "BentoAvailable" \in DOMAIN updates /\ updates["BentoAvailable"].status = "True"
               => ImageExistsCondition(request.conds, ImageName[request.rev]),
           ok.pc \in PlainPlaces \cup {"idle"}, ok.br = Returned, failed.pc = "fail"
    PROVE  AvailabilityHolds(m)'
<1>1. CASE UpdateStatus(m, Apply(request.conds, updates)) /\ GoesOn(m, ok)
  <2> DEFINE conds == Apply(request.conds, updates)
  <2>1. /\ conds["ImageExists"] = request.conds["ImageExists"]
        /\ conds["ImageExistsChecked"] = request.conds["ImageExistsChecked"]
        /\ conds["BentoAvailable"] = IF "BentoAvailable" \in DOMAIN updates
                                     THEN updates["BentoAvailable"]
                                     ELSE request.conds["BentoAvailable"]
    BY DEF Apply, ConditionTypes
  <2>2. conds["BentoAvailable"].status = "True"
          => Available \/ ImageExistsCondition(request.conds, ImageName[request.rev])
    BY <2>1 DEF Available
  <2> HIDE DEF conds
  <2>3. /\ request' = [request EXCEPT !.conds = conds]
        /\ cache' = [cache EXCEPT ![m].request = request]
    BY <1>1 DEF UpdateStatus, conds
  <2>4. QED  BY <1>1, <2>1, <2>2, <2>3, PlainWrite
<1>2. CASE UNCHANGED <<request, cache, queue>> /\ GoesOn(m, failed)
  <2>1. failed.pc \in PlainPlaces /\ failed.pc \notin {"mark", "marked"}  BY DEF PlainPlaces
  <2>2. QED  BY <1>2, <2>1, PlainCall
<1>3. QED  BY <1>1, <1>2 DEF SetStatusConditions, GoesOn

LEMMA EnsureImageExistsAvailability ==
    ASSUME TypeOK, BeliefsAreTrue, NEW m \in Managers, AvailabilityHolds(m), ensureImageExists(m)
    PROVE  AvailabilityHolds(m)'
<1> DEFINE br == BentoRequest(m)
           w == worker[m]
           RC == request.conds
           image == ImageName[request.rev]
<1>1. ~At(m, "idle")
  BY DEF ensureImageExists, At, EnterEnsureImageExists, CheckImageExists, RecordImageExists,
         DeleteStaleJob, CreateImageBuilderJob, KeepOneJob, ReportRunningJob, ReportFailedJob,
         ReportSucceededJob
<1>2. br.rev = request.rev /\ SoundWorker(w, request.rev, pushed, seeded, bento)
  BY <1>1, ReadsOwnRevision
<1>3. w \in WorkerRecords /\ worker \in [Managers -> Workers]
  BY DEF TypeOK, Workers
<1>4. /\ CopyHolds(RC, RC)
      /\ PlaceHolds(w.pc, RC, image)
      /\ CopyHolds(cache[m].request.conds, RC)
      /\ w.pc \in {"mark", "marked"} => CopyHolds(w.br.conds, RC)
  BY DEF AvailabilityHolds
<1>5. /\ Failing.pc = "fail" /\ Building.pc = "building" /\ Building.br = Returned
      /\ {"fail", "building"} \subseteq PlainPlaces
  BY DEF Failing, Building, Idle, PlainPlaces
<1>6. GoesOn(m, Failing) \/ GoesOn(m, Building) =>
          (UNCHANGED <<request, cache>> => AvailabilityHolds(m)')
  BY <1>1, <1>5, PlainCall
<1>7. CASE EnterEnsureImageExists(m)
  <2> DEFINE entered == [w EXCEPT !.br = br, !.image = ImageName[br.rev],
                                  !.separate = SeparateFlag(m, br.rev),
                                  !.listSeparate = SeparateModels[br.rev]]
             up == [c \in {"ImageExistsChecked", "BentoAvailable"} |->
                       IF c = "ImageExistsChecked" THEN CondMsg("Unknown", ImageName[br.rev])
                                                   ELSE Cond("Unknown")]
             checking == [entered EXCEPT !.br = Returned, !.pc = "checkImage"]
             found == ImageExistsCondition(br.conds, ImageName[br.rev])
             known == [entered EXCEPT !.imageExists = found,
                                      !.pc = IF found THEN "afterImage" ELSE "listJobs"]
             conds == Apply(RC, up)
  <2>1. /\ checking.pc = "checkImage" /\ checking.br = Returned
        /\ found => known.pc = "afterImage"
    BY <1>3 DEF WorkerRecords
  <2>2. /\ conds["ImageExists"] = RC["ImageExists"]
        /\ conds["ImageExistsChecked"].status = "Unknown"
        /\ conds["BentoAvailable"].status = "Unknown"
    BY DEF Apply, ConditionTypes, Cond, CondMsg
  <2>3. /\ \/ UpdateStatus(m, conds) /\ GoesOn(m, checking)
           \/ GoesOn(m, Failing) /\ UNCHANGED <<request, cache>>
           \/ /\ ImageChecked(br.conds, image)
              /\ GoesOn(m, known) /\ UNCHANGED <<request, cache>>
        /\ w.pc = "image" \/ w.pc = "marked"
    BY <1>2, <1>7 DEF EnterEnsureImageExists, SetStatusConditions, GoesOn, At
  <2> HIDE DEF up, checking, known, conds
  <2>4. CASE UpdateStatus(m, conds) /\ GoesOn(m, checking)
    <3>1. /\ request' = [request EXCEPT !.conds = conds]
          /\ cache' = [cache EXCEPT ![m].request = request]
      BY <2>4 DEF UpdateStatus
    <3>2. CopyHolds(RC, conds) /\ CopyHolds(conds, conds)
      BY <1>4, <2>2, UncheckedHolds DEF CopyHolds, ImageExistsCondition
    <3>3. PlaceHolds("checkImage", conds, image) /\ PlaceHolds("init", conds, image)
      BY <2>2 DEF PlaceHolds
    <3>4. Available => ImageExistsCondition(conds, image)
      BY <1>1, <1>4, <2>2 DEF PlaceHolds, At, Available, ImageExistsCondition
    <3>5. QED  BY <2>1, <2>2, <2>4, <3>1, <3>2, <3>3, <3>4, AvailabilityWrite
  \* What a copy shows as looked up exists, and so the call does not list jobs.
  <2>5. CASE /\ ImageChecked(br.conds, image)
             /\ GoesOn(m, known) /\ UNCHANGED <<request, cache>>
    <3>1. w.pc = "marked"  BY <1>4, <2>3 DEF PlaceHolds
    <3>2. CopyHolds(br.conds, RC)  BY <1>4, <3>1 DEF BentoRequest
    <3>3. image \in Images  BY RevisionAssumption DEF TypeOK, Requests
    <3>4. found /\ ImageExistsCondition(RC, image)  BY <1>2, <2>5, <3>2, <3>3 DEF CopyHolds
    <3>5. known.pc = "afterImage"  BY <2>1, <3>4
    <3>6. PlaceHolds(known.pc, RC, image)  BY <3>4, <3>5 DEF PlaceHolds
    <3>7. QED  BY <2>5, <3>5, <3>6, AvailabilityCall
  <2>6. QED  BY <1>6, <2>3, <2>4, <2>5
<1>8. CASE CheckImageExists(m)
  <2> DEFINE answer == ~ForceBuild[br.rev] /\ ImageInRegistry(w.image)
             next == [w EXCEPT !.br = Returned, !.pc = "checked", !.imageExists = answer]
  <2>1. next.pc = "checked"  BY <1>3 DEF WorkerRecords
  <2>2. GoesOn(m, next) \/ GoesOn(m, Failing)
    BY <1>3, <1>8 DEF CheckImageExists, GoesOn
  <2>3. w.pc = "checkImage" /\ UNCHANGED <<request, cache>>
    BY <1>8 DEF CheckImageExists, At
  <2> HIDE DEF next
  <2>4. PlaceHolds("checked", RC, image)  BY <1>4, <2>3 DEF PlaceHolds
  <2>5. QED  BY <1>6, <2>1, <2>2, <2>3, <2>4, AvailabilityCall
<1>9. CASE RecordImageExists(m)
  <2> DEFINE found == w.imageExists
             up == [c \in {"ImageExists", "ImageExistsChecked"} |->
                       IF found THEN CondMsg("True", w.image) ELSE Cond("False")]
             next == [w EXCEPT !.br = Returned, !.pc = IF found THEN "afterImage" ELSE "listJobs"]
             conds == Apply(RC, up)
  <2>1. next.pc = (IF found THEN "afterImage" ELSE "listJobs") /\ next.br = Returned
    BY <1>3 DEF WorkerRecords
  <2>2. /\ \/ UpdateStatus(m, conds) /\ GoesOn(m, next)
           \/ GoesOn(m, Failing) /\ UNCHANGED <<request, cache>>
        /\ w.pc = "checked"
    BY <1>9 DEF RecordImageExists, SetStatusConditions, GoesOn, At
  <2>3. w.image = image  BY <1>2, <2>2 DEF SoundWorker, AfterGetImageInfo
  <2>4. /\ conds["BentoAvailable"] = RC["BentoAvailable"]
        /\ found => /\ conds["ImageExists"] = CondMsg("True", image)
                    /\ conds["ImageExistsChecked"] = CondMsg("True", image)
        /\ ~found => conds["ImageExistsChecked"].status = "False"
    BY <2>3 DEF Apply, ConditionTypes, Cond
  <2>5. RC["ImageExistsChecked"].status = "Unknown" /\ ~Available
    BY <1>4, <2>2 DEF PlaceHolds, Available
  <2> HIDE DEF up, next, conds
  <2>6. CASE UpdateStatus(m, conds) /\ GoesOn(m, next)
    <3>1. /\ request' = [request EXCEPT !.conds = conds]
          /\ cache' = [cache EXCEPT ![m].request = request]
      BY <2>6 DEF UpdateStatus
    <3>2. CopyHolds(RC, conds)  BY <2>5, UncheckedHolds
    <3>3. CopyHolds(conds, conds)
      <4>1. CASE found
        BY <2>4, <4>1 DEF CopyHolds, ImageChecked, ImageExistsCondition
      <4>2. CASE ~found  BY <2>4, <4>2, UncheckedHolds
      <4>3. QED  BY <4>1, <4>2
    <3>4. conds["BentoAvailable"].status # "True"  BY <2>4, <2>5 DEF Available
    <3>5. PlaceHolds(next.pc, conds, image)
      BY <2>1, <2>4, <3>4 DEF PlaceHolds, ImageExistsCondition
    <3>6. RC # NoConditions  BY <2>5, NoConditionsHold
    <3>7. next.pc \notin {"mark", "marked"}  BY <2>1
    <3>8. QED  BY <2>5, <2>6, <3>1, <3>2, <3>3, <3>4, <3>5, <3>6, <3>7, AvailabilityWrite
  <2>7. QED  BY <1>6, <2>2, <2>6
<1>10. CASE DeleteStaleJob(m)
  <2> DEFINE conds == AllUnknown(RC)
  <2>1. /\ \/ UpdateStatus(m, conds) /\ GoesOn(m, Building)
           \/ GoesOn(m, Failing) /\ UNCHANGED <<request, cache>>
        /\ w.pc = "listJobs"
    BY <1>10 DEF DeleteStaleJob, GoesOn, At
  <2>2. /\ conds["BentoAvailable"].status # "True"
        /\ conds["ImageExistsChecked"].status # "True"
    BY DEF AllUnknown, ConditionTypes, Cond
  <2>3. RC["ImageExistsChecked"].status # "True" /\ ~Available
    BY <1>4, <2>1 DEF PlaceHolds, Available
  <2> HIDE DEF conds
  <2>4. CASE UpdateStatus(m, conds) /\ GoesOn(m, Building)
    <3>1. /\ request' = [request EXCEPT !.conds = conds]
          /\ cache' = [cache EXCEPT ![m].request = request]
      BY <2>4 DEF UpdateStatus
    <3>2. CopyHolds(RC, conds) /\ CopyHolds(conds, conds)  BY <2>2, <2>3, UncheckedHolds
    <3>3. PlaceHolds("building", conds, image) /\ PlaceHolds("init", conds, image)
      BY <2>2 DEF PlaceHolds
    <3>4. QED  BY <1>5, <2>2, <2>3, <2>4, <3>1, <3>2, <3>3, AvailabilityWrite
  <2>5. QED  BY <1>6, <2>1, <2>4
<1>11. CASE CreateImageBuilderJob(m)
  <2>1. GoesOn(m, Building) \/ GoesOn(m, Failing)
    BY <1>11 DEF CreateImageBuilderJob, GoesOn
  <2>2. UNCHANGED <<request, cache>>  BY <1>11 DEF CreateImageBuilderJob
  <2>3. QED  BY <1>6, <2>1, <2>2
<1>12. CASE KeepOneJob(m)
  <2>1. w.pc = "listJobs" /\ UNCHANGED <<request, cache>>
    BY <1>12 DEF KeepOneJob, At
  <2>2. PICK kept \in ListedJobs(m) :
          \/ worker' = [worker EXCEPT ![m].br = Returned, ![m].pc = "jobStatus",
                                      ![m].phase = cache[m].jobs[kept].phase]
          \/ GoesOn(m, Failing)
    BY <1>12 DEF KeepOneJob, GoesOn
  <2> DEFINE next == [w EXCEPT !.br = Returned, !.pc = "jobStatus",
                               !.phase = cache[m].jobs[kept].phase]
  <2>3. next.pc = "jobStatus"  BY <1>3 DEF WorkerRecords
  <2>4. GoesOn(m, next) \/ GoesOn(m, Failing)  BY <1>3, <2>2 DEF GoesOn
  <2> HIDE DEF next
  <2>5. PlaceHolds("jobStatus", RC, image)  BY <1>4, <2>1 DEF PlaceHolds
  <2>6. QED  BY <1>6, <2>1, <2>3, <2>4, <2>5, AvailabilityCall
<1>13. CASE ReportRunningJob(m)
  <2>1. PICK status :
          \/ SetStatusConditions(m, [c \in {"ImageBuilding"} |-> Cond(status)], Building, Failing)
          \/ /\ UpdateStatus(m, Apply(RC, [c \in {"ImageBuilding"} |-> Cond(status)]))
             /\ GoesOn(m, Failing)
    BY <1>13 DEF ReportRunningJob, GoesOn
  <2> DEFINE up == [c \in {"ImageBuilding"} |-> Cond(status)]
             conds == Apply(RC, up)
  <2>2. DOMAIN up = {"ImageBuilding"}  OBVIOUS
  <2>3. /\ conds["ImageExists"] = RC["ImageExists"]
        /\ conds["ImageExistsChecked"] = RC["ImageExistsChecked"]
        /\ conds["BentoAvailable"] = RC["BentoAvailable"]
    BY DEF Apply, ConditionTypes
  <2>4. SetStatusConditions(m, up, Building, Failing)
           \/ (UpdateStatus(m, conds) /\ GoesOn(m, Failing))
    BY <2>1
  <2> HIDE DEF up, conds
  <2>5. CASE SetStatusConditions(m, up, Building, Failing)
    BY <1>1, <1>5, <2>2, <2>5, PlainUpdate
  <2>6. CASE UpdateStatus(m, conds) /\ GoesOn(m, Failing)
    <3>1. /\ request' = [request EXCEPT !.conds = conds]
          /\ cache' = [cache EXCEPT ![m].request = request]
      BY <2>6 DEF UpdateStatus
    <3>2. QED  BY <1>1, <1>5, <2>3, <2>6, <3>1, PlainWrite DEF Available
  <2>7. QED  BY <2>4, <2>5, <2>6
<1>14. CASE ReportFailedJob(m)
  <2> DEFINE up == [c \in {"ImageBuilding", "BentoAvailable"} |-> Cond("False")]
  <2>1. SetStatusConditions(m, up, Building, Failing)  BY <1>14 DEF ReportFailedJob
  <2>2. /\ DOMAIN up = {"ImageBuilding", "BentoAvailable"}
        /\ up["BentoAvailable"].status # "True"
    BY DEF Cond
  <2> HIDE DEF up
  <2>3. QED  BY <1>1, <1>5, <2>1, <2>2, PlainUpdate
<1>15. CASE ReportSucceededJob(m)
  <2> DEFINE up == [c \in {"ImageBuilding", "ImageExists"} |->
                       IF c = "ImageBuilding" THEN Cond("False") ELSE CondMsg("True", w.image)]
             next == [w EXCEPT !.br = Returned, !.imageExists = TRUE, !.pc = "afterImage"]
             conds == Apply(RC, up)
  <2>1. next.pc = "afterImage" /\ next.br = Returned  BY <1>3 DEF WorkerRecords
  <2>2. /\ \/ UpdateStatus(m, conds) /\ GoesOn(m, next)
           \/ GoesOn(m, Failing) /\ UNCHANGED <<request, cache>>
        /\ w.pc = "jobStatus"
    BY <1>15 DEF ReportSucceededJob, SetStatusConditions, GoesOn, At
  <2>3. w.image = image  BY <1>2, <2>2 DEF SoundWorker, AfterGetImageInfo
  <2>4. /\ conds["BentoAvailable"] = RC["BentoAvailable"]
        /\ conds["ImageExists"] = CondMsg("True", image)
        /\ conds["ImageExistsChecked"] = RC["ImageExistsChecked"]
    BY <2>3 DEF Apply, ConditionTypes
  <2>5. RC["ImageExistsChecked"].status # "True"  BY <1>4, <2>2 DEF PlaceHolds
  <2>6. Available => ImageExistsCondition(RC, image)
    BY <1>4, <2>2 DEF PlaceHolds, Available
  <2> HIDE DEF up, next, conds
  <2>7. CASE UpdateStatus(m, conds) /\ GoesOn(m, next)
    <3>1. /\ request' = [request EXCEPT !.conds = conds]
          /\ cache' = [cache EXCEPT ![m].request = request]
      BY <2>7 DEF UpdateStatus
    <3>2. CopyHolds(RC, conds) /\ CopyHolds(conds, conds)  BY <2>4, <2>5, UncheckedHolds
    <3>3. ImageExistsCondition(conds, image)  BY <2>4 DEF ImageExistsCondition
    <3>4. PlaceHolds("afterImage", conds, image)  BY <3>3 DEF PlaceHolds
    <3>5. RC = NoConditions => PlaceHolds("init", conds, image)
      BY <2>4, NoConditionsHold DEF PlaceHolds
    <3>6. QED  BY <2>1, <2>7, <3>1, <3>2, <3>3, <3>4, <3>5, AvailabilityWrite
  <2>8. QED  BY <1>6, <2>2, <2>7
<1>16. QED
  BY <1>7, <1>8, <1>9, <1>10, <1>11, <1>12, <1>13, <1>14, <1>15 DEF ensureImageExists

LEMMA ReconcileAvailability ==
    ASSUME TypeOK, BeliefsAreTrue, ~MidReconcileEdits, NoSeeding, NEW m \in Managers,
           AvailabilityHolds(m), Reconcile(m)
    PROVE  AvailabilityHolds(m)'
<1> DEFINE br == BentoRequest(m)
           seen == cache[m].request
           w == worker[m]
           RC == request.conds
           image == ImageName[request.rev]
<1>1. w \in WorkerRecords /\ worker \in [Managers -> Workers]
  BY DEF TypeOK, Workers
<1>2. /\ CopyHolds(RC, RC) /\ CopyHolds(seen.conds, RC)
      /\ w.pc \in {"mark", "marked"} => CopyHolds(w.br.conds, RC)
      /\ PlaceHolds(w.pc, RC, image)
      /\ seen.conds = NoConditions => PlaceHolds("init", RC, image)
      /\ (Available <=> KnowsAvailable(m)) \/ ImageExistsCondition(RC, ImageName[seen.rev])
  BY DEF AvailabilityHolds
<1>3. /\ Failing.pc = "fail" /\ Idle.pc = "idle" /\ Idle.br = Returned
      /\ {"fail", "mark", "marked"} \subseteq PlainPlaces
  BY DEF Failing, Idle, PlainPlaces
<1>4. ASSUME ~At(m, "idle"), GoesOn(m, Failing), UNCHANGED <<request, cache>>
      PROVE  AvailabilityHolds(m)'
  BY <1>3, <1>4, PlainCall
\* A call that has returned holds nothing.
<1>5. ASSUME GoesOn(m, Idle), UNCHANGED <<request, cache>>
      PROVE  AvailabilityHolds(m)'
  <2>1. PlaceHolds("idle", RC, image)  BY DEF PlaceHolds
  <2>2. QED  BY <1>3, <1>5, <2>1, AvailabilityCall
<1>6. CASE StartReconcile(m)
  <2> DEFINE first == [Idle EXCEPT !.br = seen, !.pc = "init"]
             again == [Idle EXCEPT !.br = seen, !.pc = "mark"]
  <2>1. /\ \/ GoesOn(m, Idle)
           \/ GoesOn(m, first) /\ seen.conds = NoConditions
           \/ GoesOn(m, again) /\ ~KnowsAvailable(m)
        /\ UNCHANGED <<request, cache>>
        /\ seen.rev = request.rev
    BY <1>6 DEF StartReconcile, GoesOn, KnowsAvailable
  <2>2. first.pc = "init" /\ again.pc = "mark" /\ again.br = seen  BY DEF Idle
  <2> HIDE DEF first, again
  <2>3. CASE GoesOn(m, first) /\ seen.conds = NoConditions
    BY <1>2, <2>1, <2>2, <2>3, AvailabilityCall
  <2>4. CASE GoesOn(m, again) /\ ~KnowsAvailable(m)
    <3>1. PlaceHolds("mark", RC, image)  BY <1>2, <2>1, <2>4 DEF PlaceHolds, Available
    <3>2. QED  BY <1>2, <2>1, <2>2, <2>4, <3>1, AvailabilityCall
  <2>5. QED  BY <1>5, <2>1, <2>3, <2>4
<1>7. CASE InitConditions(m)
  <2> DEFINE up == [c \in {"ModelsSeeding", "ImageBuilding", "ImageExists"} |-> Cond("Unknown")]
             next == [w EXCEPT !.br = Returned, !.pc = "mark"]
             conds == Apply(RC, up)
  <2>1. /\ \/ UpdateStatus(m, conds) /\ GoesOn(m, next)
           \/ GoesOn(m, Idle) /\ UNCHANGED <<request, cache>>
        /\ w.pc = "init"
    BY <1>1, <1>7 DEF InitConditions, GoesOn, At
  <2>2. next.pc = "mark" /\ next.br = Returned  BY <1>1 DEF WorkerRecords
  <2>3. /\ conds["BentoAvailable"] = RC["BentoAvailable"]
        /\ conds["ImageExistsChecked"] = RC["ImageExistsChecked"]
    BY DEF Apply, ConditionTypes
  <2>4. RC["ImageExistsChecked"].status # "True" /\ RC["BentoAvailable"].status # "True"
    BY <1>2, <2>1 DEF PlaceHolds
  <2> HIDE DEF up, next, conds
  <2>5. CASE UpdateStatus(m, conds) /\ GoesOn(m, next)
    <3>1. /\ request' = [request EXCEPT !.conds = conds]
          /\ cache' = [cache EXCEPT ![m].request = request]
      BY <2>5 DEF UpdateStatus
    <3>2. CopyHolds(RC, conds) /\ CopyHolds(conds, conds)  BY <2>3, <2>4, UncheckedHolds
    <3>3. PlaceHolds("mark", conds, image) /\ PlaceHolds("init", conds, image)
      BY <2>3, <2>4 DEF PlaceHolds
    <3>4. Available <=> conds["BentoAvailable"].status = "True"  BY <2>3 DEF Available
    <3>5. QED  BY <2>2, <2>5, <3>1, <3>2, <3>3, <3>4, AvailabilityWrite
  <2>6. QED  BY <1>5, <2>1, <2>5
<1>8. CASE MarkReconciling(m)
  <2> DEFINE up == [c \in {"BentoAvailable"} |-> Cond("Unknown")]
             next == [w EXCEPT !.br = Returned, !.pc = "marked"]
             known == [w EXCEPT !.br = br, !.pc = "marked"]
  <2>1. /\ \/ SetStatusConditions(m, up, next, Failing)
           \/ GoesOn(m, known) /\ UNCHANGED <<request, cache>>
        /\ w.pc = "mark" /\ ~At(m, "idle")
    BY <1>1, <1>8 DEF MarkReconciling, GoesOn, At
  <2>2. /\ next.pc = "marked" /\ next.br = Returned
        /\ known.pc = "marked" /\ known.br = br
    BY <1>1 DEF WorkerRecords
  <2>3. DOMAIN up = {"BentoAvailable"} /\ up["BentoAvailable"].status # "True"
    BY DEF Cond
  <2>4. CopyHolds(br.conds, RC)  BY <1>2, <2>1 DEF BentoRequest
  <2> HIDE DEF up, next, known
  <2>5. CASE SetStatusConditions(m, up, next, Failing)
    BY <1>3, <2>1, <2>2, <2>3, <2>5, PlainUpdate
  <2>6. CASE GoesOn(m, known) /\ UNCHANGED <<request, cache>>
    BY <1>3, <2>1, <2>2, <2>4, <2>6, PlainCall
  <2>7. QED  BY <2>1, <2>5, <2>6
\* No model is seeded, so ensureModelsExists is not called.
<1>9. ~ensureModelsExists(m)
  <2>1. br.rev \in Revisions  BY BentoRequestType DEF Requests
  <2>2. ~EnterEnsureModelsExists(m)  BY <2>1 DEF EnterEnsureModelsExists, NoSeeding
  <2>3. w.pc \notin {"listSeeders", "deleteSeeders", "seed"}  BY <1>2 DEF PlaceHolds
  <2>4. QED
    BY <2>2, <2>3
    DEF ensureModelsExists, ListSeederJobs, DeleteStaleSeeder, DeleteOrphanSeeder, StartSeeding,
        CreateSeederJob, ReportFailedSeeders, ReportSeeding, At
<1>10. CASE ensureImageExists(m)  BY <1>10, EnsureImageExistsAvailability
<1>11. CASE AwaitImage(m) \/ AwaitModels(m)
  <2> DEFINE up == [c \in {"BentoAvailable"} |-> Cond("Unknown")]
  <2>1. SetStatusConditions(m, up, Idle, Failing) /\ ~At(m, "idle")
    BY <1>11 DEF AwaitImage, AwaitModels, At
  <2>2. DOMAIN up = {"BentoAvailable"} /\ up["BentoAvailable"].status # "True"
    BY DEF Cond
  <2> HIDE DEF up
  <2>3. QED  BY <1>3, <2>1, <2>2, PlainUpdate
<1>12. CASE ReturnModelsError(m)
  BY <1>4, <1>12 DEF ReturnModelsError, GoesOn, At
<1>13. CASE CleanUpSeeders(m) \/ SkipSeeders(m)
  <2> DEFINE next == [w EXCEPT !.br = br, !.pc = "bento"]
  <2>1. /\ GoesOn(m, next) /\ UNCHANGED <<request, cache>> /\ w.pc = "afterImage"
    BY <1>1, <1>13 DEF CleanUpSeeders, SkipSeeders, GoesOn, At
  <2>2. next.pc = "bento"  BY <1>1 DEF WorkerRecords
  <2> HIDE DEF next
  <2>3. PlaceHolds("bento", RC, image)  BY <1>2, <2>1 DEF PlaceHolds
  <2>4. QED  BY <2>1, <2>2, <2>3, AvailabilityCall
<1>14. CASE CreateBento(m)
  <2> DEFINE next == [Idle EXCEPT !.pc = "available"]
  <2>1. /\ GoesOn(m, next) \/ GoesOn(m, Failing)
        /\ UNCHANGED <<request, cache>> /\ w.pc = "bento" /\ ~At(m, "idle")
    BY <1>14 DEF CreateBento, GoesOn, At
  <2>2. next.pc = "available"  BY DEF Idle
  <2> HIDE DEF next
  <2>3. PlaceHolds("available", RC, image)  BY <1>2, <2>1 DEF PlaceHolds
  <2>4. QED  BY <1>4, <2>1, <2>2, <2>3, AvailabilityCall
<1>15. CASE SetAvailable(m)
  <2> DEFINE up == [c \in {"BentoAvailable"} |-> Cond("True")]
  <2>1. SetStatusConditions(m, up, Idle, Failing) /\ w.pc = "available" /\ ~At(m, "idle")
    BY <1>15 DEF SetAvailable, At
  <2>2. DOMAIN up = {"BentoAvailable"}  OBVIOUS
  <2> HIDE DEF up
  <2>3. ImageExistsCondition(RC, image)  BY <1>2, <2>1 DEF PlaceHolds
  <2>4. QED  BY <1>3, <2>1, <2>2, <2>3, PlainUpdate
<1>16. CASE HandleError(m)
  <2> DEFINE conds == [RC EXCEPT !["BentoAvailable"] = Cond("False")]
  <2>1. /\ GoesOn(m, Idle) /\ ~At(m, "idle")
        /\ \/ /\ request' = [request EXCEPT !.conds["BentoAvailable"] = Cond("False")]
              /\ cache' = [cache EXCEPT ![m].request = request]
           \/ UNCHANGED <<request, cache>>
    BY <1>16 DEF HandleError, GoesOn, At
  <2>2. RC \in Conditions /\ request \in Requests  BY DEF TypeOK, Requests
  <2>3. /\ conds["ImageExists"] = RC["ImageExists"]
        /\ conds["ImageExistsChecked"] = RC["ImageExistsChecked"]
        /\ conds["BentoAvailable"].status # "True"
    BY <2>2 DEF Conditions, ConditionTypes, Cond
  <2>4. [request EXCEPT !.conds["BentoAvailable"] = Cond("False")] = [request EXCEPT !.conds = conds]
    OBVIOUS
  <2> HIDE DEF conds
  <2>5. QED  BY <1>3, <1>5, <2>1, <2>3, <2>4, PlainWrite
<1>17. QED
  BY <1>6, <1>7, <1>8, <1>9, <1>10, <1>11, <1>12, <1>13, <1>14, <1>15, <1>16, Reconcile(m)
  DEF Reconcile

LEMMA EnvironmentAvailability ==
    ASSUME TypeOK, ~MidReconcileEdits, OneManager, NEW m \in Managers, AvailabilityHolds(m),
           Environment
    PROVE  AvailabilityHolds(m)'
<1> DEFINE seen == cache[m].request
<1>1. ASSUME NEW rev \in Revisions, Edit(rev)  PROVE AvailabilityHolds(m)'
  <2>1. UNCHANGED <<cache, worker>> /\ worker[m].pc = "idle" /\ request'.conds = request.conds
    BY <1>1 DEF Edit, TypeOK, Requests
  <2>2. PlaceHolds("init", request.conds, ImageName[request.rev])
          => PlaceHolds("init", request.conds, ImageName[request'.rev])
    BY DEF PlaceHolds
  <2>3. PlaceHolds("idle", request.conds, ImageName[request'.rev])  BY DEF PlaceHolds
  <2>4. /\ CopyHolds(request.conds, request.conds) /\ CopyHolds(seen.conds, request.conds)
        /\ seen.conds = NoConditions => PlaceHolds("init", request.conds, ImageName[request.rev])
        /\ \/ Available <=> KnowsAvailable(m)
           \/ ImageExistsCondition(request.conds, ImageName[seen.rev])
    BY DEF AvailabilityHolds
  <2>5. (Available' <=> Available) /\ (KnowsAvailable(m)' <=> KnowsAvailable(m))
    BY <2>1 DEF Available, KnowsAvailable
  <2>6. QED  BY <2>1, <2>2, <2>3, <2>4, <2>5 DEF AvailabilityHolds, PlaceHolds, CopyHolds
<1>2. ASSUME NEW n \in Managers,
             SyncRequest(n) \/ SyncJobs(n) \/ SyncPVCs(n) \/ Resync(n) \/ Crash(n)
      PROVE  AvailabilityHolds(m)'
  <2>1. n = m  BY DEF OneManager
  <2>2. /\ UNCHANGED request
        /\ cache'[m].request \in {seen, request}
        /\ worker'[m] = worker[m] \/ worker'[m] = Idle
    BY <1>2, <2>1, InformersShow DEF Sees
  <2>3. /\ worker'[m].pc \in {"mark", "marked"} => CopyHolds(worker'[m].br.conds, request.conds)
        /\ PlaceHolds(worker'[m].pc, request.conds, ImageName[request.rev])
    <3>1. CASE worker'[m] = worker[m]  BY <3>1 DEF AvailabilityHolds
    <3>2. CASE worker'[m] = Idle  BY <3>2 DEF PlaceHolds, Idle
    <3>3. QED  BY <2>2, <3>1, <3>2
  <2>4. CopyHolds(request.conds, request.conds)  BY DEF AvailabilityHolds
  <2>5. /\ CopyHolds(cache'[m].request.conds, request.conds)
        /\ cache'[m].request.conds = NoConditions
              => PlaceHolds("init", request.conds, ImageName[request.rev])
        /\ \/ Available <=> cache'[m].request.conds["BentoAvailable"].status = "True"
           \/ ImageExistsCondition(request.conds, ImageName[cache'[m].request.rev])
    <3>1. CASE cache'[m].request = seen
      BY <3>1 DEF AvailabilityHolds, KnowsAvailable
    <3>2. CASE cache'[m].request = request
      BY <2>4, <3>2, NoConditionsHold DEF Available
    <3>3. QED  BY <2>2, <3>1, <3>2
  <2>6. /\ Available' <=> Available
        /\ KnowsAvailable(m)' <=> cache'[m].request.conds["BentoAvailable"].status = "True"
    BY <2>2 DEF Available, KnowsAvailable
  <2>7. QED  BY <2>2, <2>3, <2>4, <2>5, <2>6 DEF AvailabilityHolds, PlaceHolds, CopyHolds
<1>3. ASSUME NEW j \in JobNames,
             \/ StartPod(j) \/ FinishPod(j) \/ RecordSuccess(j) \/ FailPod(j) \/ FinalizeJob(j)
      PROVE  AvailabilityHolds(m)'
  <2>1. UNCHANGED <<request, cache, worker>>  BY <1>3, PodStep
  <2>2. QED  BY <2>1 DEF AvailabilityHolds, Available, KnowsAvailable, PlaceHolds, CopyHolds
<1>4. QED  BY <1>1, <1>2, <1>3 DEF Environment

-----------------------------------------------------------------------------
LEMMA InitStaysWatched ==
    ASSUME Init
    PROVE  FailureStaysWatched
<1>1. ASSUME NEW m \in Managers  PROVE AvailabilityHolds(m)
  <2>1. /\ request.conds = NoConditions /\ cache[m].request = request /\ worker[m].pc = "idle"
    BY <1>1 DEF Init, Idle
  <2>2. PlaceHolds("idle", NoConditions, ImageName[request.rev])  BY DEF PlaceHolds
  <2>3. Available <=> KnowsAvailable(m)  BY <2>1 DEF Available, KnowsAvailable
  <2>4. QED  BY <2>1, <2>2, <2>3, NoConditionsHold DEF AvailabilityHolds
<1>2. FailuresWatched
  <2>1. \A j \in JobNames : jobs[j].phase = "Waiting"  BY DEF Init, NoJob
  <2>2. QED  BY <2>1 DEF FailuresWatched, FailedBuild
<1>3. QED  BY <1>1, <1>2, InitWatched DEF FailureStaysWatched, FailureIsWatched

LEMMA NextStaysWatched ==
    ASSUME TypeOK, BeliefsAreTrue, RequestIsAttended, FailureStaysWatched, ~MidReconcileEdits,
           EditsChangeSpec, OneManager, NoSeeding, [Next]_vars
    PROVE  FailureStaysWatched'
<1>1. /\ ListingIsSound /\ \A m \in Managers : AvailabilityHolds(m)
      /\ Available \/ FailureTold \/ FailuresWatched
  BY DEF FailureStaysWatched
<1>2. Managers # {}  BY DEF OneManager
<1>3. ASSUME NEW m \in Managers, Reconcile(m)  PROVE FailureStaysWatched'
  <2>1. FailuresKept  BY <1>1, <1>3, ReconcileWatched
  <2>2. AvailabilityHolds(m) /\ AvailabilityHolds(m)'  BY <1>1, <1>3, ReconcileAvailability
  <2>3. \A n \in Managers : n = m  BY DEF OneManager
  \* A call that is under way finds the image existing while the request is available.
  <2>4. Available' \/ FailureTold' \/ FailuresWatched'
    <3>1. CASE At(m, "idle")
      <4>1. StartReconcile(m)
        BY <1>3, <3>1
        DEF Reconcile, At, InitConditions, MarkReconciling, ensureModelsExists,
            EnterEnsureModelsExists, ListSeederJobs, DeleteStaleSeeder, DeleteOrphanSeeder,
            StartSeeding, CreateSeederJob, ReportFailedSeeders, ReportSeeding,
            ensureImageExists, EnterEnsureImageExists, CheckImageExists, RecordImageExists,
            DeleteStaleJob, CreateImageBuilderJob, KeepOneJob, ReportRunningJob,
            ReportFailedJob, ReportSucceededJob, AwaitImage, ReturnModelsError, AwaitModels,
            CleanUpSeeders, SkipSeeders, CreateBento, SetAvailable, HandleError
      <4>2. UNCHANGED request /\ cache[m].request.rev = request.rev
        BY <4>1 DEF StartReconcile
      <4>3. Available' <=> Available  BY <4>2 DEF Available
      <4>4. KnowsAvailable(m) => Available \/ FailureTold
        BY <2>2, <4>2 DEF AvailabilityHolds, FailureTold
      <4>5. FailureTold => FailureTold'  BY <4>2 DEF FailureTold
      <4>6. QED  BY <1>1, <2>1, <2>3, <4>3, <4>4, <4>5 DEF FailuresKept
    <3>2. CASE ~At(m, "idle")
      <4>1. Available => FailureTold
        BY <2>2, <3>2 DEF AvailabilityHolds, PlaceHolds, Available, FailureTold, At
      <4>2. ~StartReconcile(m)  BY <3>2 DEF StartReconcile
      <4>3. QED  BY <1>1, <2>1, <2>3, <4>1, <4>2 DEF FailuresKept
    <3>3. QED  BY <3>1, <3>2
  <2>5. QED  BY <2>1, <2>2, <2>3, <2>4 DEF FailureStaysWatched, FailuresKept
<1>4. CASE Environment
  <2>1. \A m \in Managers : AvailabilityHolds(m)'  BY <1>1, <1>4, EnvironmentAvailability
  <2>2. request'.conds = request.conds
    BY <1>4 DEF Environment, Edit, SyncRequest, SyncJobs, SyncPVCs, Resync, Crash, StartPod,
                FinishPod, RecordSuccess, FailPod, FinalizeJob, TypeOK, Requests
  <2>3. Available => Available'  BY <2>2 DEF Available
  <2>4. QED  BY <1>1, <1>2, <1>4, <2>1, <2>3, EnvironmentWatched DEF FailureStaysWatched
<1>5. CASE UNCHANGED vars
  <2>1. UNCHANGED <<request, cache, worker>>  BY <1>5 DEF vars
  <2>2. \A m \in Managers : AvailabilityHolds(m)'
    BY <1>1, <2>1 DEF AvailabilityHolds, Available, KnowsAvailable, PlaceHolds, CopyHolds
  <2>3. Available => Available'  BY <2>1 DEF Available
  <2>4. QED  BY <1>1, <1>5, <2>2, <2>3, StutterWatched DEF FailureStaysWatched
<1>6. QED  BY <1>3, <1>4, <1>5 DEF Next

(* A failed build does not go unnoticed: when the manager rests, no job is *)
(* being deleted and a builder job of the current revision has failed,     *)
(* ImageBuilding is False, or the image exists, or the request is          *)
(* available, for one manager that seeds no models and any number of jobs, *)
(* crashes, failed calls and edits of the spec between Reconciles.  Until  *)
(* then it is told of or watched, unless the request is available.         *)
THEOREM FailuresReported ==
    ASSUME ~MidReconcileEdits, EditsChangeSpec, OneManager, NoSeeding
    PROVE  Spec => [](FailureStaysWatched /\ FailedBuildIsReported)
<1>1. Managers # {}  BY DEF OneManager
<1>2. Init => TypeOK /\ BeliefsAreTrue /\ RequestIsAttended /\ FailureStaysWatched
  BY <1>1, InitType, InitSafe, InitAttended, InitStaysWatched
<1>3. TypeOK /\ BeliefsAreTrue /\ RequestIsAttended /\ FailureStaysWatched /\ [Next]_vars
        => (TypeOK /\ BeliefsAreTrue /\ RequestIsAttended /\ FailureStaysWatched)'
  BY <1>1, NextType, NextSafe, NextAttended, NextStaysWatched
<1>4. FailureStaysWatched => FailedBuildIsReported
  BY RestersWatchNothing DEF FailureStaysWatched, FailuresWatched, FailedBuildIsReported
<1>5. QED  BY <1>2, <1>3, <1>4, PTL DEF Spec
=============================================================================
