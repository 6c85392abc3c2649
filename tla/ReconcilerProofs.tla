-------------------------- MODULE ReconcilerProofs ---------------------------
(***************************************************************************)
(* Proofs about BentoRequestReconciler, for any sets of revisions, images, *)
(* models, jobs and managers and any bounds.  First its types; then, that  *)
(* BeliefsAreTrue is an invariant of every system in which no edit falls   *)
(* into a Reconcile; then what follows from it: the safety properties, and *)
(* the promise of BentoGeneration.                                         *)
(***************************************************************************)
EXTENDS ReconcilerInvariant, TLAPS

-----------------------------------------------------------------------------
(* Types of the operators the actions are built from.                      *)

\* The condition values a status update may carry.
Condition == [status : StatusValues, message : Images \cup Seq(Models) \cup {NoMessage}]

LEMMA CondType ==
    ASSUME NEW s \in StatusValues
    PROVE  Cond(s) \in Condition
BY DEF Cond, Condition

LEMMA CondMsgType ==
    ASSUME NEW s \in StatusValues, NEW msg \in Images \cup Seq(Models)
    PROVE  CondMsg(s, msg) \in Condition
BY DEF CondMsg, Condition

LEMMA ConditionsDef == Conditions = [ConditionTypes -> Condition]
BY DEF Conditions, Condition

LEMMA NoConditionsType == NoConditions \in Conditions
<1>1. Cond("Absent") \in Condition  BY CondType DEF StatusValues
<1>2. QED  BY <1>1, ConditionsDef DEF NoConditions

\* Applying well-typed updates, or making all conditions Unknown, keeps the type.
LEMMA ApplyType ==
    ASSUME NEW conds \in Conditions, NEW updates,
           \A c \in DOMAIN updates : updates[c] \in Condition
    PROVE  Apply(conds, updates) \in Conditions
BY ConditionsDef DEF Apply

LEMMA AllUnknownType ==
    ASSUME NEW conds \in Conditions
    PROVE  AllUnknown(conds) \in Conditions
<1>1. Cond("Unknown") \in Condition  BY CondType DEF StatusValues
<1>2. QED  BY <1>1, ConditionsDef DEF AllUnknown

LEMMA IdleType ==
    /\ Idle \in Workers
    /\ Failing \in Workers
    /\ Building \in Workers
    /\ [Idle EXCEPT !.pc = "available"] \in Workers
<1>1. <<>> \in Seq(Models)  OBVIOUS
<1>2. Idle \in Workers  BY <1>1 DEF Idle, Workers, WorkerRecords, PCs, JobPhases, AfterGetImageInfo
<1>3. \A p \in PCs \ AfterGetImageInfo : [Idle EXCEPT !.pc = p] \in Workers
  BY <1>2 DEF Workers, WorkerRecords
<1>4. QED  BY <1>2, <1>3 DEF Failing, Building, PCs, AfterGetImageInfo

LEMMA BentoRequestType ==
    ASSUME TypeOK, NEW m \in Managers
    PROVE  /\ BentoRequest(m) \in Requests
           /\ BentoRequest(m).rev \in Revisions
           /\ BentoRequest(m).conds \in Conditions
<1>1. worker[m].br \in Requests \cup {Returned} /\ cache[m].request \in Requests
  BY DEF TypeOK, Workers, WorkerRecords, Caches
<1>2. BentoRequest(m) \in Requests  BY <1>1 DEF BentoRequest
<1>3. QED  BY <1>2 DEF Requests

\* The parts of TypeOK that the writes of a manager disturb.
StatusType ==
    /\ request \in Requests
    /\ cache \in [Managers -> Caches]
    /\ queue \in [Managers -> BOOLEAN]

LEMMA UpdateStatusType ==
    ASSUME TypeOK, NEW m \in Managers, NEW conds \in Conditions, UpdateStatus(m, conds)
    PROVE  StatusType'
<1>1. request' \in Requests  BY DEF TypeOK, Requests, UpdateStatus
<1>2. cache' \in [Managers -> Caches]  BY DEF TypeOK, Caches, UpdateStatus
<1>3. queue' \in [Managers -> BOOLEAN]  BY DEF TypeOK, UpdateStatus, Observe
<1>4. QED  BY <1>1, <1>2, <1>3 DEF StatusType

LEMMA FaultType ==
    ASSUME TypeOK, Fault
    PROVE  faults' \in 0..MaxFaults
BY NameAssumption DEF TypeOK, Fault

LEMMA SetStatusConditionsType ==
    ASSUME TypeOK, NEW m \in Managers,
           NEW updates, \A c \in DOMAIN updates : updates[c] \in Condition,
           NEW ok \in Workers, NEW failed \in Workers,
           SetStatusConditions(m, updates, ok, failed)
    PROVE  StatusType' /\ worker' \in [Managers -> Workers] /\ faults' \in 0..MaxFaults
<1>1. CASE /\ UpdateStatus(m, Apply(request.conds, updates))
           /\ worker' = [worker EXCEPT ![m] = ok]
           /\ UNCHANGED faults
  <2>1. Apply(request.conds, updates) \in Conditions  BY ApplyType DEF TypeOK, Requests
  <2>2. StatusType'  BY <1>1, <2>1, UpdateStatusType
  <2>3. QED  BY <1>1, <2>2 DEF TypeOK
<1>2. CASE /\ Fault
           /\ worker' = [worker EXCEPT ![m] = failed]
           /\ UNCHANGED <<request, cache, queue>>
  BY <1>2, FaultType DEF TypeOK, StatusType
<1>3. QED  BY <1>1, <1>2 DEF SetStatusConditions

\* Everything else is unchanged by an action that only updates the status.
LEMMA StatusOnlyType ==
    ASSUME TypeOK, UNCHANGED clusterVars,
           StatusType', worker' \in [Managers -> Workers], faults' \in 0..MaxFaults
    PROVE  TypeOK'
BY DEF TypeOK, clusterVars, StatusType

LEMMA JobsType ==
    ASSUME TypeOK
    PROVE  /\ \A rev \in Revisions, image \in Images : BuilderJob(rev, image) \in Jobs
           /\ \A rev \in Revisions, model \in Models : SeederJob(rev, model) \in Jobs
           /\ \A names : MarkDeleted(names) => jobs' \in [JobNames -> Jobs \cup {NoJob}]
           /\ \A job \in Jobs : CreateJob(job) => jobs' \in [JobNames -> Jobs \cup {NoJob}]
<1>1. \A rev \in Revisions, image \in Images : BuilderJob(rev, image) \in Jobs
  BY RevisionAssumption DEF BuilderJob, NoJob, Jobs, JobRecords, JobKinds, JobPhases
<1>2. \A rev \in Revisions, model \in Models : SeederJob(rev, model) \in Jobs
  BY DEF SeederJob, NoJob, Jobs, JobRecords, JobKinds, JobPhases
<1>3. ASSUME NEW names, MarkDeleted(names)
      PROVE  jobs' \in [JobNames -> Jobs \cup {NoJob}]
  <2>1. \A job \in Jobs : [job EXCEPT !.deleting = TRUE] \in Jobs  BY DEF Jobs, JobRecords
  <2>2. QED  BY <1>3, <2>1 DEF MarkDeleted, TypeOK
<1>4. ASSUME NEW job \in Jobs, CreateJob(job)
      PROVE  jobs' \in [JobNames -> Jobs \cup {NoJob}]
  BY <1>4 DEF CreateJob, FreshJobNames, TypeOK
<1>5. QED  BY <1>1, <1>2, <1>3, <1>4

LEMMA ModelsOfType ==
    ASSUME NEW rev \in Revisions
    PROVE  ModelTags[rev] \in Seq(Models) /\ ModelsOf(rev) \subseteq Models
BY RevisionAssumption DEF ModelsOf

-----------------------------------------------------------------------------
(* Type correctness of each action. *)

LEMMA EnsureImageExistsType ==
    ASSUME TypeOK, NEW m \in Managers, ensureImageExists(m)
    PROVE  TypeOK'
<1> DEFINE br == BentoRequest(m)
<1>1. /\ worker \in [Managers -> Workers] /\ worker[m] \in Workers
      /\ br \in Requests /\ br.rev \in Revisions /\ br.conds \in Conditions
      /\ Idle \in Workers /\ Failing \in Workers /\ Building \in Workers
  BY BentoRequestType, IdleType DEF TypeOK
<1>2. CASE EnterEnsureImageExists(m)
  <2> DEFINE image == ImageName[br.rev]
             entered == [worker[m] EXCEPT !.br = br, !.image = image,
                                          !.separate = SeparateFlag(m, br.rev),
                                          !.listSeparate = SeparateModels[br.rev]]
             up == [c \in {"ImageExistsChecked", "BentoAvailable"} |->
                       IF c = "ImageExistsChecked" THEN CondMsg("Unknown", image)
                                                   ELSE Cond("Unknown")]
             checking == [entered EXCEPT !.br = Returned, !.pc = "checkImage"]
             found == ImageExistsCondition(br.conds, image)
             known == [entered EXCEPT !.imageExists = found,
                                      !.pc = IF found THEN "afterImage" ELSE "listJobs"]
  <2>1. image \in Images /\ SeparateModels[br.rev] \in BOOLEAN
    BY <1>1, RevisionAssumption
  <2>2. SeparateFlag(m, br.rev) \in BOOLEAN  BY <1>1, <2>1 DEF SeparateFlag, Workers, WorkerRecords
  <2>3. entered \in Workers  BY <1>1, <2>1, <2>2 DEF Workers, WorkerRecords, AfterGetImageInfo
  <2>a. entered.image = image  BY <1>1 DEF Workers, WorkerRecords
  <2>4. checking \in Workers
    <3> HIDE DEF entered, image
    <3>1. QED  BY <2>1, <2>3, <2>a DEF Workers, WorkerRecords, PCs
  <2>5. known \in Workers
    <3>1. found \in BOOLEAN  BY DEF ImageExistsCondition
    <3> HIDE DEF entered, image, found
    <3>2. QED  BY <2>1, <2>3, <2>a, <3>1 DEF Workers, WorkerRecords, PCs
  <2>6. \A c \in DOMAIN up : up[c] \in Condition
    BY <2>1, CondType, CondMsgType DEF StatusValues
  <2>7. CASE SetStatusConditions(m, up, checking, Failing) /\ UNCHANGED clusterVars
    <3>1. StatusType' /\ worker' \in [Managers -> Workers] /\ faults' \in 0..MaxFaults
      BY <1>1, <2>4, <2>6, <2>7, SetStatusConditionsType
    <3>2. QED  BY <2>7, <3>1, StatusOnlyType
  <2>8. CASE /\ worker' = [worker EXCEPT ![m] = known]
             /\ UNCHANGED <<request, cache, queue, faults>> /\ UNCHANGED clusterVars
    BY <1>1, <2>5, <2>8 DEF TypeOK, clusterVars
  <2>9. CASE /\ Fault /\ worker' = [worker EXCEPT ![m] = Failing]
             /\ UNCHANGED <<request, cache, queue>> /\ UNCHANGED clusterVars
    BY <1>1, <2>9, FaultType DEF TypeOK, clusterVars
  <2>10. QED  BY <1>2, <2>7, <2>8, <2>9 DEF EnterEnsureImageExists
<1>3. CASE CheckImageExists(m)
  <2> DEFINE answer == ~ForceBuild[br.rev] /\ ImageInRegistry(worker[m].image)
             next == [worker[m] EXCEPT !.br = Returned, !.pc = "checked", !.imageExists = answer]
  <2>a. worker[m].image \in Images
    BY <1>1, <1>3 DEF CheckImageExists, At, Workers, AfterGetImageInfo
  <2>b. next \in Workers
    <3>1. answer \in BOOLEAN  OBVIOUS
    <3> HIDE DEF answer
    <3>2. QED  BY <1>1, <2>a, <3>1 DEF Workers, WorkerRecords, PCs
  <2>c. worker' = [worker EXCEPT ![m] = next] \/ worker' = [worker EXCEPT ![m] = Failing]
    BY <1>1, <1>3 DEF CheckImageExists
  <2>1. worker' \in [Managers -> Workers]
    <3> HIDE DEF next
    <3>1. QED  BY <1>1, <2>b, <2>c
  <2>2. faults' \in 0..MaxFaults
    BY <1>3, FaultType DEF CheckImageExists, TypeOK
  <2>3. QED  BY <1>3, <2>1, <2>2 DEF CheckImageExists, TypeOK, clusterVars
<1>4. CASE RecordImageExists(m)
  <2> DEFINE image == worker[m].image
             found == worker[m].imageExists
             up == [c \in {"ImageExists", "ImageExistsChecked"} |->
                       IF found THEN CondMsg("True", image) ELSE Cond("False")]
             next == [worker[m] EXCEPT !.br = Returned,
                                       !.pc = IF found THEN "afterImage" ELSE "listJobs"]
  <2>1. next \in Workers
    BY <1>1, <1>4 DEF RecordImageExists, At, Workers, WorkerRecords, PCs, AfterGetImageInfo
  <2>2. \A c \in DOMAIN up : up[c] \in Condition
    <3>1. image \in Images
      BY <1>1, <1>4 DEF RecordImageExists, At, Workers, AfterGetImageInfo
    <3>2. QED  BY <3>1, CondType, CondMsgType DEF StatusValues
  <2>3. StatusType' /\ worker' \in [Managers -> Workers] /\ faults' \in 0..MaxFaults
    BY <1>1, <1>4, <2>1, <2>2, SetStatusConditionsType DEF RecordImageExists
  <2>4. QED  BY <1>4, <2>3, StatusOnlyType DEF RecordImageExists
<1>5. CASE DeleteStaleJob(m)
  <2>1. PICK j \in StaleJobs(m) :
          \/ /\ Exist({j}) /\ MarkDeleted({j})
             /\ \/ /\ UpdateStatus(m, AllUnknown(request.conds))
                   /\ worker' = [worker EXCEPT ![m] = Building]
                   /\ UNCHANGED faults
                \/ /\ Fault
                   /\ worker' = [worker EXCEPT ![m] = Failing]
                   /\ UNCHANGED <<request, cache, queue>>
          \/ /\ DeleteFails(j)
             /\ worker' = [worker EXCEPT ![m] = Failing]
             /\ UNCHANGED <<request, cache, queue, jobs>>
    BY <1>5 DEF DeleteStaleJob
  <2>2. AllUnknown(request.conds) \in Conditions  BY AllUnknownType DEF TypeOK, Requests
  <2>3. StatusType'  BY <2>1, <2>2, UpdateStatusType DEF TypeOK, StatusType
  <2>4. worker' \in [Managers -> Workers]  BY <1>1, <2>1
  <2>5. faults' \in 0..MaxFaults  BY <2>1, FaultType DEF DeleteFails, TypeOK
  <2>6. jobs' \in [JobNames -> Jobs \cup {NoJob}]  BY <2>1, JobsType DEF TypeOK
  <2>7. QED
    BY <1>5, <2>3, <2>4, <2>5, <2>6 DEF DeleteStaleJob, TypeOK, StatusType
<1>6. CASE CreateImageBuilderJob(m)
  <2>1. worker[m].image \in Images
    BY <1>1, <1>6 DEF CreateImageBuilderJob, At, Workers, AfterGetImageInfo
  <2>2. BuilderJob(br.rev, worker[m].image) \in Jobs  BY <1>1, <2>1, JobsType
  <2>3. jobs' \in [JobNames -> Jobs \cup {NoJob}]
    BY <1>6, <2>2, JobsType DEF CreateImageBuilderJob, TypeOK
  <2>4. worker' \in [Managers -> Workers]  BY <1>1, <1>6 DEF CreateImageBuilderJob
  <2>5. faults' \in 0..MaxFaults
    BY <1>6, FaultType DEF CreateImageBuilderJob, CreateFails, TypeOK
  <2>6. QED  BY <1>6, <2>3, <2>4, <2>5 DEF CreateImageBuilderJob, TypeOK
<1>7. CASE KeepOneJob(m)
  <2>1. PICK kept \in ListedJobs(m) :
          \/ /\ MarkDeleted(ListedJobs(m) \ {kept})
             /\ worker' = [worker EXCEPT ![m].br = Returned, ![m].pc = "jobStatus",
                                         ![m].phase = cache[m].jobs[kept].phase]
             /\ UNCHANGED faults
          \/ \E failed \in JobNames, done \in SUBSET JobNames :
             /\ DeleteFails(failed) /\ MarkDeleted(done)
             /\ worker' = [worker EXCEPT ![m] = Failing]
    BY <1>7 DEF KeepOneJob, ListedJobs
  <2>2. cache[m].jobs[kept].phase \in JobPhases
    BY <2>1 DEF TypeOK, Caches, ListedJobs, Jobs, JobRecords
  <2>3. worker[m].image \in Images
    BY <1>1, <1>7 DEF KeepOneJob, At, Workers, AfterGetImageInfo
  <2> DEFINE next == [worker[m] EXCEPT !.br = Returned, !.pc = "jobStatus",
                                       !.phase = cache[m].jobs[kept].phase]
  <2>a. next \in Workers  BY <1>1, <2>2, <2>3 DEF Workers, WorkerRecords, PCs
  <2>b. worker' = [worker EXCEPT ![m] = next] \/ worker' = [worker EXCEPT ![m] = Failing]
    BY <1>1, <2>1
  <2>4. worker' \in [Managers -> Workers]
    <3> HIDE DEF next
    <3>1. QED  BY <1>1, <2>a, <2>b
  <2>5. faults' \in 0..MaxFaults  BY <2>1, FaultType DEF DeleteFails, TypeOK
  <2>6. jobs' \in [JobNames -> Jobs \cup {NoJob}]  BY <2>1, JobsType
  <2>7. QED  BY <1>7, <2>4, <2>5, <2>6 DEF KeepOneJob, TypeOK
<1>8. CASE ReportRunningJob(m)
  <2> DEFINE status == IF worker[m].phase \in {"Active", "Finished"} THEN "True" ELSE "Unknown"
             up == [c \in {"ImageBuilding"} |-> Cond(status)]
             late == [c \in {"ImageBuilding"} |-> Cond("False")]
  <2>1. /\ \A c \in DOMAIN up : up[c] \in Condition
        /\ \A c \in DOMAIN late : late[c] \in Condition
    BY CondType DEF StatusValues
  <2>2. CASE SetStatusConditions(m, up, Building, Failing)
    <3>1. StatusType' /\ worker' \in [Managers -> Workers] /\ faults' \in 0..MaxFaults
      BY <1>1, <2>1, <2>2, SetStatusConditionsType
    <3>2. QED  BY <1>8, <3>1, StatusOnlyType DEF ReportRunningJob
  <2>3. CASE /\ Fault /\ UpdateStatus(m, Apply(request.conds, late))
             /\ worker' = [worker EXCEPT ![m] = Failing]
    <3>1. Apply(request.conds, late) \in Conditions
      BY <2>1, ApplyType DEF TypeOK, Requests
    <3>2. StatusType'  BY <2>3, <3>1, UpdateStatusType
    <3>3. worker' \in [Managers -> Workers] /\ faults' \in 0..MaxFaults
      BY <1>1, <2>3, FaultType
    <3>4. QED  BY <1>8, <3>2, <3>3, StatusOnlyType DEF ReportRunningJob
  <2>4. QED  BY <1>8, <2>2, <2>3 DEF ReportRunningJob
<1>9. CASE ReportFailedJob(m)
  <2> DEFINE up == [c \in {"ImageBuilding", "BentoAvailable"} |-> Cond("False")]
  <2>1. \A c \in DOMAIN up : up[c] \in Condition  BY CondType DEF StatusValues
  <2>2. StatusType' /\ worker' \in [Managers -> Workers] /\ faults' \in 0..MaxFaults
    BY <1>1, <1>9, <2>1, SetStatusConditionsType DEF ReportFailedJob
  <2>3. QED  BY <1>9, <2>2, StatusOnlyType DEF ReportFailedJob
<1>10. CASE ReportSucceededJob(m)
  <2> DEFINE up == [c \in {"ImageBuilding", "ImageExists"} |->
                       IF c = "ImageBuilding" THEN Cond("False")
                                              ELSE CondMsg("True", worker[m].image)]
             next == [worker[m] EXCEPT !.br = Returned, !.imageExists = TRUE,
                                       !.pc = "afterImage"]
  <2>1. worker[m].image \in Images
    BY <1>1, <1>10 DEF ReportSucceededJob, At, Workers, AfterGetImageInfo
  <2>2. \A c \in DOMAIN up : up[c] \in Condition
    BY <2>1, CondType, CondMsgType DEF StatusValues
  <2>3. next \in Workers  BY <1>1, <2>1 DEF Workers, WorkerRecords, PCs
  <2>4. StatusType' /\ worker' \in [Managers -> Workers] /\ faults' \in 0..MaxFaults
    BY <1>1, <1>10, <2>2, <2>3, SetStatusConditionsType DEF ReportSucceededJob
  <2>5. QED  BY <1>10, <2>4, StatusOnlyType DEF ReportSucceededJob
<1>11. QED
  BY <1>2, <1>3, <1>4, <1>5, <1>6, <1>7, <1>8, <1>9, <1>10 DEF ensureImageExists

LEMMA ReturnModelsType ==
    ASSUME NEW w \in Workers, NEW exists \in BOOLEAN, NEW err \in BOOLEAN,
           NEW br \in Requests \cup {Returned}
    PROVE  ReturnModels(w, exists, err, br) \in Workers
<1>1. <<>> \in Seq(Models)  OBVIOUS
<1>2. QED  BY <1>1 DEF ReturnModels, Workers, WorkerRecords, PCs, AfterGetImageInfo

LEMMA InMemoryType ==
    ASSUME TypeOK, NEW m \in Managers, NEW conds \in Conditions
    PROVE  InMemory(m, conds) \in Requests
BY DEF InMemory, TypeOK, Caches, Requests

LEMMA CachedRequestType ==
    ASSUME TypeOK, NEW m \in Managers
    PROVE  /\ cache[m].request \in Requests
           /\ cache[m].request.rev \in Revisions
           /\ cache[m].request.conds \in Conditions
BY DEF TypeOK, Caches, Requests

LEMMA EnsureModelsExistsType ==
    ASSUME TypeOK, NEW m \in Managers, ensureModelsExists(m)
    PROVE  TypeOK'
<1> DEFINE br == BentoRequest(m)
           cached == cache[m].request
           w == worker[m]
<1>1. /\ worker \in [Managers -> Workers] /\ w \in Workers
      /\ br \in Requests /\ br.rev \in Revisions /\ br.conds \in Conditions
      /\ cached.conds \in Conditions
      /\ ModelTags[br.rev] \in Seq(Models) /\ ModelsOf(br.rev) \subseteq Models
  BY BentoRequestType, CachedRequestType, ModelsOfType DEF TypeOK
<1> HIDE DEF br
<1>2. CASE EnterEnsureModelsExists(m)
  <2> DEFINE tags == ModelTags[br.rev]
             called == [w EXCEPT !.separate = TRUE]
             entered == [called EXCEPT !.br = br, !.tags = tags, !.pc = "listSeeders"]
             waiting == [entered EXCEPT !.br = Returned]
             notReady == [c \in {"ModelsExists"} |-> Cond("False")]
             gaveUp == ReturnModels(called, FALSE, TRUE,
                                    InMemory(m, Apply(cached.conds, notReady)))
             known == ReturnModels(called, TRUE, FALSE, br)
  <2>1. called \in Workers  BY <1>1 DEF Workers, WorkerRecords
  <2>2. entered \in Workers /\ waiting \in Workers
    <3> HIDE DEF called, tags
    <3>1. tags \in Seq(Models)  BY <1>1 DEF tags
    <3>2. entered \in Workers
      BY <1>1, <2>1, <3>1 DEF Workers, WorkerRecords, PCs, AfterGetImageInfo
    <3> HIDE DEF entered
    <3>3. QED  BY <3>2 DEF Workers, WorkerRecords
  <2>3. \A c \in DOMAIN notReady : notReady[c] \in Condition  BY CondType DEF StatusValues
  <2>4. gaveUp \in Workers
    BY <1>1, <2>1, <2>3, ApplyType, InMemoryType, ReturnModelsType
  <2>5. known \in Workers  BY <1>1, <2>1, ReturnModelsType
  <2> HIDE DEF called, entered, gaveUp, known, waiting, notReady
  <2>6. CASE SetStatusConditions(m, notReady, waiting, gaveUp) /\ UNCHANGED clusterVars
    <3>1. StatusType' /\ worker' \in [Managers -> Workers] /\ faults' \in 0..MaxFaults
      BY <2>2, <2>3, <2>4, <2>6, SetStatusConditionsType
    <3>2. QED  BY <2>6, <3>1, StatusOnlyType
  <2>7. CASE /\ \/ worker' = [worker EXCEPT ![m] = known]
                \/ worker' = [worker EXCEPT ![m] = entered]
             /\ UNCHANGED <<request, cache, queue, faults>> /\ UNCHANGED clusterVars
    BY <1>1, <2>2, <2>5, <2>7 DEF TypeOK, clusterVars
  <2>8. QED
    BY <1>2, <2>6, <2>7
    DEF EnterEnsureModelsExists, br, called, entered, gaveUp, known, waiting, notReady
<1>3. CASE ListSeederJobs(m)
  <2>1. PICK stale \in SUBSET JobNames, orphans \in SUBSET JobNames, existing \in SUBSET Models :
          worker' = [worker EXCEPT ![m].br = br, ![m].pc = "deleteSeeders",
                        ![m].stale = stale, ![m].orphans = orphans, ![m].existing = existing]
    <3> DEFINE changed == {j \in CachedSeeders(m) : HashChanged(cache[m].jobs[j], br.rev)}
               unknown == {j \in CachedSeeders(m) \ changed :
                              TagOf(cache[m].jobs[j]) \notin ModelsOf(br.rev)}
               existing == {cache[m].jobs[j].model : j \in CachedSeeders(m) \ (changed \cup unknown)}
    <3>1. changed \subseteq JobNames /\ unknown \subseteq JobNames  BY DEF CachedSeeders
    <3>2. existing \subseteq Models
      <4>1. \A j \in CachedSeeders(m) \ (changed \cup unknown) :
              /\ cache[m].jobs[j].model \in Models \cup {NoModel}
              /\ TagOf(cache[m].jobs[j]) \in Models
        BY <1>1 DEF TypeOK, Caches, CachedSeeders, Jobs, JobRecords
      <4>2. \A j \in CachedSeeders(m) \ (changed \cup unknown) : cache[m].jobs[j].model \in Models
        BY <4>1, NameAssumption DEF TagOf
      <4>3. QED  BY <4>2
    <3>3. QED  BY <1>3, <3>1, <3>2 DEF ListSeederJobs, br
  <2> DEFINE next == [w EXCEPT !.br = br, !.pc = "deleteSeeders",
                         !.stale = stale, !.orphans = orphans, !.existing = existing]
  <2>2. next \in Workers
    BY <1>1, <2>1 DEF Workers, WorkerRecords, PCs, AfterGetImageInfo
  <2>3. worker' = [worker EXCEPT ![m] = next]  BY <1>1, <2>1
  <2>4. worker' \in [Managers -> Workers]
    <3> HIDE DEF next
    <3>1. QED  BY <1>1, <2>2, <2>3
  <2>5. QED  BY <1>3, <2>4 DEF ListSeederJobs, TypeOK, clusterVars
<1>4. CASE DeleteStaleSeeder(m)
  <2> DEFINE gaveUp == ReturnModels(w, FALSE, TRUE, InMemory(m, AllUnknown(cached.conds)))
             failed == ReturnModels(w, FALSE, TRUE, br)
  <2>1. PICK j \in w.stale :
          \/ /\ MarkDeleted({j})
             /\ \/ /\ UpdateStatus(m, AllUnknown(request.conds))
                   /\ worker' = [worker EXCEPT ![m].br = Returned, ![m].stale = @ \ {j}]
                   /\ UNCHANGED faults
                \/ /\ Fault
                   /\ worker' = [worker EXCEPT ![m] = gaveUp]
                   /\ UNCHANGED <<request, cache, queue>>
          \/ /\ DeleteFails(j)
             /\ worker' = [worker EXCEPT ![m] = failed]
             /\ UNCHANGED <<request, cache, queue, jobs>>
    BY <1>4 DEF DeleteStaleSeeder, ReturnError, br
  <2>2. AllUnknown(request.conds) \in Conditions  BY AllUnknownType DEF TypeOK, Requests
  <2>3. StatusType'  BY <2>1, <2>2, UpdateStatusType DEF TypeOK, StatusType
  <2> DEFINE next == [w EXCEPT !.br = Returned, !.stale = @ \ {j}]
  <2>4. next \in Workers  BY <1>1 DEF Workers, WorkerRecords
  <2>5. gaveUp \in Workers /\ failed \in Workers
    BY <1>1, AllUnknownType, InMemoryType, ReturnModelsType
  <2>6. \/ worker' = [worker EXCEPT ![m] = next]
        \/ worker' = [worker EXCEPT ![m] = gaveUp]
        \/ worker' = [worker EXCEPT ![m] = failed]
    <3> HIDE DEF gaveUp, failed
    <3>1. QED  BY <1>1, <2>1
  <2>7. worker' \in [Managers -> Workers]
    <3> HIDE DEF next, gaveUp, failed
    <3>1. QED  BY <1>1, <2>4, <2>5, <2>6
  <2>8. faults' \in 0..MaxFaults  BY <2>1, FaultType DEF DeleteFails, TypeOK
  <2>9. jobs' \in [JobNames -> Jobs \cup {NoJob}]  BY <2>1, JobsType DEF TypeOK
  <2>10. QED
    BY <1>4, <2>3, <2>7, <2>8, <2>9 DEF DeleteStaleSeeder, TypeOK, StatusType
<1>5. CASE DeleteOrphanSeeder(m)
  <2> DEFINE failed == ReturnModels(w, FALSE, TRUE, br)
  <2>1. PICK j \in w.orphans :
          \/ /\ MarkDeleted({j})
             /\ worker' = [worker EXCEPT ![m].orphans = @ \ {j}]
             /\ UNCHANGED faults
          \/ /\ DeleteFails(j)
             /\ worker' = [worker EXCEPT ![m] = failed]
             /\ UNCHANGED jobs
    BY <1>5 DEF DeleteOrphanSeeder, ReturnError, br
  <2> DEFINE next == [w EXCEPT !.orphans = @ \ {j}]
  <2>2. next \in Workers  BY <1>1 DEF Workers, WorkerRecords
  <2>3. failed \in Workers  BY <1>1, ReturnModelsType
  <2>4. worker' = [worker EXCEPT ![m] = next] \/ worker' = [worker EXCEPT ![m] = failed]
    <3> HIDE DEF failed
    <3>1. QED  BY <1>1, <2>1
  <2>5. worker' \in [Managers -> Workers]
    <3> HIDE DEF next, failed
    <3>1. QED  BY <1>1, <2>2, <2>3, <2>4
  <2>6. faults' \in 0..MaxFaults  BY <2>1, FaultType DEF DeleteFails, TypeOK
  <2>7. jobs' \in [JobNames -> Jobs \cup {NoJob}]  BY <2>1, JobsType DEF TypeOK
  <2>8. QED  BY <1>5, <2>5, <2>6, <2>7 DEF DeleteOrphanSeeder, TypeOK
<1>6. CASE StartSeeding(m)
  <2> DEFINE next == [w EXCEPT !.br = br, !.pc = "seed",
                               !.toSeed = ModelsOf(br.rev) \ w.existing]
  <2>1. next \in Workers
    BY <1>1 DEF Workers, WorkerRecords, PCs, AfterGetImageInfo
  <2>2. worker' = [worker EXCEPT ![m] = next]  BY <1>1, <1>6 DEF StartSeeding, br
  <2>3. worker' \in [Managers -> Workers]
    <3> HIDE DEF next
    <3>1. QED  BY <1>1, <2>1, <2>2
  <2>4. QED  BY <1>6, <2>3 DEF StartSeeding, TypeOK, clusterVars
<1>7. CASE CreateSeederJob(m)
  <2> DEFINE failed == ReturnModels(w, FALSE, TRUE, br)
  <2>1. PICK model \in w.toSeed :
          \/ /\ CreateJob(SeederJob(br.rev, model))
             /\ pvcs' = Claimed(m, model)
             /\ worker' = [worker EXCEPT ![m].toSeed = @ \ {model}]
             /\ UNCHANGED faults
          \/ /\ CreateFails
             /\ pvcs' \in {pvcs, Claimed(m, model)}
             /\ worker' = [worker EXCEPT ![m] = failed]
             /\ UNCHANGED jobs
    BY <1>7 DEF CreateSeederJob, ReturnError, br
  <2>2. model \in Models  BY <1>1, <2>1 DEF Workers, WorkerRecords
  <2>3. pvcs' \subseteq Models  BY <2>1, <2>2 DEF TypeOK, Claimed
  <2>4. jobs' \in [JobNames -> Jobs \cup {NoJob}]
    BY <1>1, <2>1, <2>2, JobsType DEF TypeOK
  <2>5. faults' \in 0..MaxFaults  BY <2>1, FaultType DEF CreateFails, TypeOK
  <2> DEFINE next == [w EXCEPT !.toSeed = @ \ {model}]
  <2>6. next \in Workers  BY <1>1 DEF Workers, WorkerRecords
  <2>7. failed \in Workers  BY <1>1, ReturnModelsType
  <2>8. worker' = [worker EXCEPT ![m] = next] \/ worker' = [worker EXCEPT ![m] = failed]
    <3> HIDE DEF failed
    <3>1. QED  BY <1>1, <2>1
  <2>9. worker' \in [Managers -> Workers]
    <3> HIDE DEF next, failed
    <3>1. QED  BY <1>1, <2>6, <2>7, <2>8
  <2>10. QED  BY <1>7, <2>3, <2>4, <2>5, <2>9 DEF CreateSeederJob, TypeOK
<1>8. CASE ReportFailedSeeders(m)
  <2> DEFINE up == [c \in {"ModelsExists", "BentoAvailable"} |-> Cond("False")]
             ok == ReturnModels(w, FALSE, TRUE, Returned)
             gaveUp == ReturnModels(w, FALSE, TRUE, InMemory(m, Apply(cached.conds, up)))
  <2>1. \A c \in DOMAIN up : up[c] \in Condition  BY CondType DEF StatusValues
  <2>2. ok \in Workers  BY <1>1, ReturnModelsType
  <2>3. gaveUp \in Workers
    BY <1>1, <2>1, ApplyType, InMemoryType, ReturnModelsType
  <2>4. SetStatusConditions(m, up, ok, gaveUp) /\ UNCHANGED clusterVars
    BY <1>8 DEF ReportFailedSeeders
  <2> HIDE DEF up, ok, gaveUp
  <2>5. StatusType' /\ worker' \in [Managers -> Workers] /\ faults' \in 0..MaxFaults
    BY <2>1, <2>2, <2>3, <2>4, SetStatusConditionsType
  <2>6. QED  BY <2>4, <2>5, StatusOnlyType
<1>9. CASE ReportSeeding(m)
  <2> DEFINE exists == AllSeeded(m)
             up == IF exists
                   THEN [c \in {"ModelsExists", "ModelsSeeding"} |->
                            IF c = "ModelsExists" THEN CondMsg("True", w.tags)
                                                  ELSE Cond("False")]
                   ELSE [c \in {"ModelsSeeding"} |-> Cond("True")]
             ok == ReturnModels(w, exists, FALSE, Returned)
             gaveUp == ReturnModels(w, exists, TRUE, InMemory(m, Apply(cached.conds, up)))
  <2>0. exists \in BOOLEAN  BY DEF AllSeeded
  <2>a. w.tags \in Seq(Models)  BY <1>1 DEF Workers, WorkerRecords
  <2>b. SetStatusConditions(m, up, ok, gaveUp) /\ UNCHANGED clusterVars
    BY <1>9 DEF ReportSeeding, br
  <2> HIDE DEF exists
  <2>1. \A c \in DOMAIN up : up[c] \in Condition
    BY <2>a, CondType, CondMsgType DEF StatusValues
  <2>2. ok \in Workers  BY <1>1, <2>0, ReturnModelsType
  <2>3. gaveUp \in Workers
    <3>1. Apply(cached.conds, up) \in Conditions
      <4> HIDE DEF up
      <4>1. QED  BY <1>1, <2>1, ApplyType
    <3> HIDE DEF up
    <3>2. QED  BY <1>1, <2>0, <3>1, InMemoryType, ReturnModelsType
  <2> HIDE DEF up, ok, gaveUp
  <2>5. StatusType' /\ worker' \in [Managers -> Workers] /\ faults' \in 0..MaxFaults
    BY <2>1, <2>2, <2>3, <2>b, SetStatusConditionsType
  <2>6. QED  BY <2>b, <2>5, StatusOnlyType
<1>10. QED
  BY <1>2, <1>3, <1>4, <1>5, <1>6, <1>7, <1>8, <1>9 DEF ensureModelsExists

LEMMA ReconcileType ==
    ASSUME TypeOK, NEW m \in Managers, Reconcile(m)
    PROVE  TypeOK'
<1> DEFINE br == BentoRequest(m)
           w == worker[m]
           waiting == [c \in {"BentoAvailable"} |-> Cond("Unknown")]
           serving == [c \in {"BentoAvailable"} |-> Cond("True")]
<1>1. /\ worker \in [Managers -> Workers] /\ w \in Workers
      /\ br \in Requests /\ br.rev \in Revisions /\ br.conds \in Conditions
      /\ cache[m].request \in Requests
      /\ Idle \in Workers /\ Failing \in Workers
      /\ [Idle EXCEPT !.pc = "available"] \in Workers
  BY BentoRequestType, CachedRequestType, IdleType DEF TypeOK
<1>2. /\ \A c \in DOMAIN waiting : waiting[c] \in Condition
      /\ \A c \in DOMAIN serving : serving[c] \in Condition
  BY CondType DEF StatusValues
<1>3. ASSUME NEW updates, \A c \in DOMAIN updates : updates[c] \in Condition,
             NEW ok \in Workers, SetStatusConditions(m, updates, ok, Failing),
             UNCHANGED clusterVars
      PROVE  TypeOK'
  <2>1. StatusType' /\ worker' \in [Managers -> Workers] /\ faults' \in 0..MaxFaults
    BY <1>1, <1>3, SetStatusConditionsType
  <2>2. QED  BY <1>3, <2>1, StatusOnlyType
<1> HIDE DEF br, waiting, serving
<1>4. CASE StartReconcile(m)
  <2> DEFINE cached == cache[m].request
             first == [Idle EXCEPT !.br = cached, !.pc = "init"]
             again == [Idle EXCEPT !.br = cached, !.pc = "mark"]
  <2>1. first \in Workers /\ again \in Workers
    <3>1. ASSUME NEW p \in PCs \ AfterGetImageInfo, NEW r \in Requests
          PROVE  [Idle EXCEPT !.br = r, !.pc = p] \in Workers
      BY <1>1 DEF Workers, WorkerRecords
    <3>2. QED  BY <1>1, <3>1 DEF PCs, AfterGetImageInfo
  <2>2. \/ worker' = [worker EXCEPT ![m] = Idle]
        \/ worker' = [worker EXCEPT ![m] = first]
        \/ worker' = [worker EXCEPT ![m] = again]
    BY <1>4 DEF StartReconcile
  <2>3. worker' \in [Managers -> Workers]
    <3> HIDE DEF first, again
    <3>1. QED  BY <1>1, <2>1, <2>2
  <2>4. queue' \in [Managers -> BOOLEAN]  BY <1>4 DEF StartReconcile, TypeOK
  <2>5. QED  BY <1>4, <2>3, <2>4 DEF StartReconcile, TypeOK, clusterVars
<1>5. CASE InitConditions(m)
  <2> DEFINE up == [c \in {"ModelsSeeding", "ImageBuilding", "ImageExists"} |-> Cond("Unknown")]
             next == [w EXCEPT !.br = Returned, !.pc = "mark"]
  <2>1. next \in Workers  BY <1>1 DEF Workers, WorkerRecords, PCs, AfterGetImageInfo
  <2>2. \A c \in DOMAIN up : up[c] \in Condition  BY CondType DEF StatusValues
  <2>3. Apply(request.conds, up) \in Conditions  BY <2>2, ApplyType DEF TypeOK, Requests
  <2>4. CASE /\ UpdateStatus(m, Apply(request.conds, up))
             /\ worker' = [worker EXCEPT ![m] = next]
             /\ UNCHANGED faults /\ UNCHANGED clusterVars
    <3>1. StatusType'  BY <2>3, <2>4, UpdateStatusType
    <3> HIDE DEF next
    <3>2. QED  BY <1>1, <2>1, <2>4, <3>1, StatusOnlyType DEF TypeOK
  <2>5. CASE /\ Fault /\ worker' = [worker EXCEPT ![m] = Idle]
             /\ queue' = [queue EXCEPT ![m] = TRUE]
             /\ UNCHANGED <<request, cache>> /\ UNCHANGED clusterVars
    BY <1>1, <2>5, FaultType DEF TypeOK, clusterVars
  <2>6. QED  BY <1>1, <1>5, <2>4, <2>5 DEF InitConditions
<1>6. CASE MarkReconciling(m)
  <2> DEFINE marked == [w EXCEPT !.br = Returned, !.pc = "marked"]
             kept == [w EXCEPT !.br = br, !.pc = "marked"]
  <2>1. marked \in Workers /\ kept \in Workers
    <3>1. marked \in Workers  BY <1>1 DEF Workers, WorkerRecords, PCs, AfterGetImageInfo
    <3>2. kept \in Workers  BY <1>1 DEF Workers, WorkerRecords, PCs, AfterGetImageInfo
    <3> QED  BY <3>1, <3>2
  <2>2. CASE SetStatusConditions(m, waiting, marked, Failing) /\ UNCHANGED clusterVars
    <3> HIDE DEF marked
    <3>1. QED  BY <1>2, <1>3, <2>1, <2>2
  <2>3. CASE /\ worker' = [worker EXCEPT ![m] = kept]
             /\ UNCHANGED <<request, cache, queue, faults>> /\ UNCHANGED clusterVars
    <3> HIDE DEF kept
    <3>1. QED  BY <1>1, <2>1, <2>3 DEF TypeOK, clusterVars
  <2>4. QED  BY <1>1, <1>6, <2>2, <2>3 DEF MarkReconciling, waiting, br
<1>7. CASE ensureModelsExists(m)  BY <1>7, EnsureModelsExistsType
<1>8. CASE ensureImageExists(m)  BY <1>8, EnsureImageExistsType
<1>9. CASE AwaitImage(m)  BY <1>1, <1>2, <1>3, <1>9 DEF AwaitImage, waiting
<1>10. CASE ReturnModelsError(m)
  BY <1>1, <1>10 DEF ReturnModelsError, TypeOK, clusterVars
<1>11. CASE AwaitModels(m)  BY <1>1, <1>2, <1>3, <1>11 DEF AwaitModels, waiting
<1>12. CASE CleanUpSeeders(m)
  <2> DEFINE next == [w EXCEPT !.br = br, !.pc = "bento"]
  <2>1. next \in Workers
    BY <1>1, <1>12 DEF CleanUpSeeders, At, Workers, WorkerRecords, PCs, AfterGetImageInfo
  <2>2. worker' = [worker EXCEPT ![m] = next]  BY <1>1, <1>12 DEF CleanUpSeeders, br
  <2>3. worker' \in [Managers -> Workers]
    <3> HIDE DEF next
    <3>1. QED  BY <1>1, <2>1, <2>2
  <2>4. jobs' \in [JobNames -> Jobs \cup {NoJob}]  BY <1>12 DEF CleanUpSeeders, TypeOK
  <2>5. pvcs' \subseteq Models  BY <1>12 DEF CleanUpSeeders, TypeOK
  <2>6. faults' \in 0..MaxFaults  BY <1>12, FaultType DEF CleanUpSeeders, TypeOK
  <2>7. QED  BY <1>12, <2>3, <2>4, <2>5, <2>6 DEF CleanUpSeeders, TypeOK
<1>13. CASE SkipSeeders(m)
  <2> DEFINE next == [w EXCEPT !.br = br, !.pc = "bento"]
  <2>1. next \in Workers
    BY <1>1, <1>13 DEF SkipSeeders, At, Workers, WorkerRecords, PCs, AfterGetImageInfo
  <2>2. worker' = [worker EXCEPT ![m] = next]  BY <1>1, <1>13 DEF SkipSeeders, br
  <2>3. worker' \in [Managers -> Workers]
    <3> HIDE DEF next
    <3>1. QED  BY <1>1, <2>1, <2>2
  <2>4. QED  BY <1>13, <2>3 DEF SkipSeeders, TypeOK, clusterVars
<1>14. CASE CreateBento(m)
  <2>1. worker' \in [Managers -> Workers]  BY <1>1, <1>14 DEF CreateBento
  <2>2. w.image \in Images
    BY <1>1, <1>14 DEF CreateBento, At, Workers, AfterGetImageInfo
  <2>3. SeedsModels(m) \in BOOLEAN  BY DEF SeedsModels
  <2>4. bento' \in Bentos \cup {NoBento}
    <3> DEFINE separate == IF bento = NoBento THEN SeedsModels(m) ELSE bento.separate
    <3>1. separate \in BOOLEAN  BY <2>3 DEF TypeOK, Bentos
    <3>2. \/ bento' = [rev |-> br.rev, image |-> w.image, separate |-> separate]
          \/ UNCHANGED bento
      BY <1>14 DEF CreateBento, br
    <3> HIDE DEF separate
    <3>3. QED  BY <1>1, <2>2, <3>1, <3>2 DEF TypeOK, Bentos
  <2>5. queue' \in [Managers -> BOOLEAN]  BY <1>14 DEF CreateBento, TypeOK
  <2>6. faults' \in 0..MaxFaults  BY <1>14, FaultType DEF CreateBento, TypeOK
  <2>7. QED  BY <1>14, <2>1, <2>4, <2>5, <2>6 DEF CreateBento, TypeOK
<1>15. CASE SetAvailable(m)  BY <1>1, <1>2, <1>3, <1>15 DEF SetAvailable, serving
<1>16. CASE HandleError(m)
  <2>1. worker' \in [Managers -> Workers]  BY <1>1, <1>16 DEF HandleError
  <2>2. queue' \in [Managers -> BOOLEAN]  BY <1>16 DEF HandleError, TypeOK
  <2>3. request' \in Requests
    <3>1. Cond("False") \in Condition  BY CondType DEF StatusValues
    <3>2. request.conds \in [ConditionTypes -> Condition]
      BY ConditionsDef DEF TypeOK, Requests
    <3>3. [request.conds EXCEPT !["BentoAvailable"] = Cond("False")] \in Conditions
      BY <3>1, <3>2, ConditionsDef
    <3>4. QED  BY <1>16, <3>3 DEF HandleError, TypeOK, Requests
  <2>4. cache' \in [Managers -> Caches]  BY <1>16 DEF HandleError, TypeOK, Caches
  <2>5. faults' \in 0..MaxFaults  BY <1>16, FaultType DEF HandleError, TypeOK
  <2>6. QED
    BY <1>16, <2>1, <2>2, <2>3, <2>4, <2>5 DEF HandleError, TypeOK, clusterVars
<1>17. QED
  BY <1>4, <1>5, <1>6, <1>7, <1>8, <1>9, <1>10, <1>11, <1>12, <1>13, <1>14, <1>15, <1>16,
     Reconcile(m)
  DEF Reconcile

LEMMA EnvironmentType ==
    ASSUME TypeOK, Environment
    PROVE  TypeOK'
<1>1. ASSUME NEW rev \in Revisions, Edit(rev)  PROVE TypeOK'
  <2>1. request' \in Requests
    <3> DEFINE g == IF SpecOf[rev] = SpecOf[request.rev] THEN request.generation
                                                         ELSE request.generation + 1
    <3>1. g \in Nat  BY DEF TypeOK, Requests
    <3>2. request' = [request EXCEPT !.rev = rev, !.generation = g]
      BY <1>1 DEF Edit, TypeOK, Requests
    <3> HIDE DEF g
    <3>3. QED  BY <3>1, <3>2 DEF TypeOK, Requests
  <2>2. edits' \in 0..MaxEdits  BY <1>1, NameAssumption DEF Edit, TypeOK
  <2>3. QED  BY <1>1, <2>1, <2>2 DEF Edit, TypeOK
<1>2. ASSUME NEW m \in Managers, SyncRequest(m)  PROVE TypeOK'
  <2>1. cache' \in [Managers -> Caches]  BY <1>2 DEF SyncRequest, TypeOK, Caches
  <2>2. queue' \in [Managers -> BOOLEAN]  BY <1>2 DEF SyncRequest, Observe, TypeOK
  <2>3. QED  BY <1>2, <2>1, <2>2 DEF SyncRequest, TypeOK
<1>3. ASSUME NEW m \in Managers, SyncJobs(m)  PROVE TypeOK'
  <2>1. cache' \in [Managers -> Caches]  BY <1>3 DEF SyncJobs, TypeOK, Caches
  <2>2. queue' \in [Managers -> BOOLEAN]  BY <1>3 DEF SyncJobs, TypeOK
  <2>3. QED  BY <1>3, <2>1, <2>2 DEF SyncJobs, TypeOK
<1>4. ASSUME NEW m \in Managers, SyncPVCs(m)  PROVE TypeOK'
  <2>1. cache' \in [Managers -> Caches]  BY <1>4 DEF SyncPVCs, TypeOK, Caches
  <2>2. QED  BY <1>4, <2>1 DEF SyncPVCs, TypeOK
<1>5. ASSUME NEW m \in Managers, Resync(m)  PROVE TypeOK'
  BY <1>5 DEF Resync, TypeOK
<1>6. ASSUME NEW m \in Managers, Crash(m)  PROVE TypeOK'
  <2>1. worker' \in [Managers -> Workers]  BY <1>6, IdleType DEF Crash, TypeOK
  <2>2. cache' \in [Managers -> Caches]  BY <1>6 DEF Crash, TypeOK, Caches
  <2>3. faults' \in 0..MaxFaults  BY <1>6, FaultType DEF Crash
  <2>4. QED  BY <1>6, <2>1, <2>2, <2>3 DEF Crash, TypeOK
<1>7. ASSUME NEW j \in JobNames,
             StartPod(j) \/ RecordSuccess(j) \/ FinalizeJob(j)
      PROVE  TypeOK'
  <2>1. \A job \in Jobs, p \in JobPhases : [job EXCEPT !.phase = p] \in Jobs
    BY DEF Jobs, JobRecords
  <2>2. jobs' \in [JobNames -> Jobs \cup {NoJob}]
    <3>1. PICK p \in JobPhases : \/ jobs' = [jobs EXCEPT ![j].phase = p]
                                 \/ jobs' = [jobs EXCEPT ![j] = NoJob]
      BY <1>7 DEF StartPod, RecordSuccess, FinalizeJob, JobPhases
    <3>2. jobs[j] \in Jobs  BY <1>7 DEF StartPod, RecordSuccess, FinalizeJob, TypeOK
    <3>3. \/ jobs' = [jobs EXCEPT ![j] = [jobs[j] EXCEPT !.phase = p]]
          \/ jobs' = [jobs EXCEPT ![j] = NoJob]
      BY <3>1 DEF TypeOK
    <3>4. QED  BY <2>1, <3>2, <3>3 DEF TypeOK
  <2>3. QED  BY <1>7, <2>2 DEF StartPod, RecordSuccess, FinalizeJob, TypeOK
<1>8. ASSUME NEW j \in JobNames, FailPod(j)  PROVE TypeOK'
  <2>1. \A job \in Jobs, p \in JobPhases :
          [job EXCEPT !.phase = p, !.failedPods = TRUE] \in Jobs
    BY DEF Jobs, JobRecords
  <2>2. PICK next \in {"Waiting", "Failed"} :
          jobs' = [jobs EXCEPT ![j].phase = next, ![j].failedPods = TRUE]
    BY <1>8 DEF FailPod
  <2>3. jobs' = [jobs EXCEPT ![j] = [jobs[j] EXCEPT !.phase = next, !.failedPods = TRUE]]
    BY <2>2 DEF TypeOK
  <2>4. jobs[j] \in Jobs  BY <1>8 DEF FailPod, TypeOK
  <2>5. jobs' \in [JobNames -> Jobs \cup {NoJob}]
    BY <2>1, <2>3, <2>4 DEF TypeOK, JobPhases
  <2>6. QED  BY <1>8, <2>5, FaultType DEF FailPod, TypeOK
<1>9. ASSUME NEW j \in JobNames, FinishPod(j)  PROVE TypeOK'
  <2>1. jobs[j] \in Jobs /\ [jobs[j] EXCEPT !.phase = "Finished"] \in Jobs
    BY <1>9 DEF FinishPod, TypeOK, Jobs, JobRecords, JobPhases
  <2>2. jobs' \in [JobNames -> Jobs \cup {NoJob}]  BY <1>9, <2>1 DEF FinishPod, TypeOK
  <2>3. pushed' \subseteq Images \X BOOLEAN
    <3>1. CASE jobs[j].kind = "builder"
      <4>1. jobs[j].image \in Images /\ StoredInS3[jobs[j].rev] \in BOOLEAN
        BY <2>1, <3>1, RevisionAssumption DEF Jobs, JobRecords
      <4>2. pushed' = pushed \cup {<<jobs[j].image, StoredInS3[jobs[j].rev]>>}
        BY <1>9, <3>1 DEF FinishPod
      <4>3. QED  BY <4>1, <4>2 DEF TypeOK
    <3>2. CASE jobs[j].kind # "builder"  BY <1>9, <3>2 DEF FinishPod, TypeOK
    <3>3. QED  BY <3>1, <3>2
  <2>4. seeded' \subseteq Models
    BY <1>9, <2>1 DEF FinishPod, TypeOK, Jobs, JobRecords
  <2>5. QED  BY <1>9, <2>2, <2>3, <2>4 DEF FinishPod, TypeOK
<1>10. QED
  BY <1>1, <1>2, <1>3, <1>4, <1>5, <1>6, <1>7, <1>8, <1>9 DEF Environment

-----------------------------------------------------------------------------
LEMMA InitType ==
    ASSUME Init
    PROVE  TypeOK
<1>1. request \in Requests  BY NoConditionsType, RevisionAssumption DEF Init, Requests
<1>2. jobs \in [JobNames -> Jobs \cup {NoJob}]  BY DEF Init
<1>3. cache \in [Managers -> Caches]
  <2>1. pvcs \in SUBSET Models  BY DEF Init
  <2>2. QED  BY <1>1, <1>2, <2>1 DEF Init, Caches
<1>4. worker \in [Managers -> Workers]  BY IdleType DEF Init
<1>5. pushed \subseteq Images \X BOOLEAN  BY NameAssumption DEF Init
<1>6. edits \in 0..MaxEdits /\ faults \in 0..MaxFaults  BY NameAssumption DEF Init
<1>7. pvcs \subseteq Models /\ seeded \subseteq Models /\ bento \in Bentos \cup {NoBento}
      /\ queue \in [Managers -> BOOLEAN]
  BY DEF Init
<1>8. QED  BY <1>1, <1>2, <1>3, <1>4, <1>5, <1>6, <1>7 DEF TypeOK

LEMMA NextType ==
    ASSUME TypeOK, [Next]_vars
    PROVE  TypeOK'
<1>1. ASSUME NEW m \in Managers, Reconcile(m)  PROVE TypeOK'  BY <1>1, ReconcileType
<1>2. CASE Environment  BY <1>2, EnvironmentType
<1>3. CASE UNCHANGED vars  BY <1>3 DEF TypeOK, vars
<1>4. QED  BY <1>1, <1>2, <1>3 DEF Next

(* Every variable keeps its type, whatever the constants: in particular a  *)
(* worker past getImageInfo has an image name, and jobs are well formed.   *)
THEOREM TypeCorrect == Spec => []TypeOK
<1>1. Init => TypeOK  BY InitType
<1>2. TypeOK /\ [Next]_vars => TypeOK'  BY NextType
<1>3. QED  BY <1>1, <1>2, PTL DEF Spec

-----------------------------------------------------------------------------
(* Beliefs stay true as more is pushed and seeded.                         *)

LEMMA ConditionsMonotone ==
    ASSUME NEW p, NEW s, NEW b, NEW p2, NEW s2, NEW b2,
           p \subseteq p2, s \subseteq s2, b # NoBento => b2 # NoBento,
           NEW conds, TrueConditions(conds, p, s, b)
    PROVE  TrueConditions(conds, p2, s2, b2)
BY DEF TrueConditions, PushedIn

LEMMA JobMonotone ==
    ASSUME NEW p, NEW s, NEW p2, NEW s2, p \subseteq p2, s \subseteq s2,
           NEW job, SoundJob(job, p, s)
    PROVE  SoundJob(job, p2, s2)
BY DEF SoundJob, PushedIn

LEMMA WorkerMonotone ==
    ASSUME NEW p, NEW s, NEW b, NEW p2, NEW s2, NEW b2,
           p \subseteq p2, s \subseteq s2, b # NoBento => b2 # NoBento,
           NEW w, NEW rev, SoundWorker(w, rev, p, s, b)
    PROVE  SoundWorker(w, rev, p2, s2, b2)
<1>1. TrueConditions(w.br.conds, p2, s2, b2)  BY ConditionsMonotone DEF SoundWorker
<1>2. QED  BY <1>1 DEF SoundWorker, PushedIn

-----------------------------------------------------------------------------
(* Beliefs that claim nothing. *)

LEMMA NothingClaimed ==
    ASSUME NEW p, NEW s, NEW b
    PROVE  TrueConditions(Returned.conds, p, s, b)
BY DEF Returned, NoConditions, TrueConditions, ImageExistsCondition, ModelsExistsCondition,
       Cond, CondMsg, ConditionTypes

\* Starting again, failing and waiting for a build need no belief.
LEMMA IdleSound ==
    ASSUME NEW pc \in {"fail", "building", "available", "init", "mark"}, NEW rev,
           NEW p, NEW s, NEW b, pc = "available" => b # NoBento
    PROVE  SoundWorker([Idle EXCEPT !.pc = pc], rev, p, s, b)
<1> DEFINE w == [Idle EXCEPT !.pc = pc]
<1>1. /\ w.pc = pc /\ w.br = Returned /\ w.modelsExists = FALSE /\ w.imageExists = FALSE
  BY DEF Idle
<1>2. TrueConditions(w.br.conds, p, s, b)  BY <1>1, NothingClaimed
<1> HIDE DEF w
<1>3. SoundWorker(w, rev, p, s, b)
  BY <1>1, <1>2 DEF SoundWorker, AfterGetImageInfo, SeparateKnown
<1>4. QED  BY <1>3 DEF w

LEMMA FailingSound ==
    ASSUME NEW rev, NEW p, NEW s, NEW b
    PROVE  /\ Failing.pc # "idle" /\ SoundWorker(Failing, rev, p, s, b)
           /\ Building.pc # "idle" /\ SoundWorker(Building, rev, p, s, b)
<1>1. SoundWorker(Failing, rev, p, s, b) /\ SoundWorker(Building, rev, p, s, b)
  BY IdleSound DEF Failing, Building
<1>2. Failing.pc # "idle" /\ Building.pc # "idle"  BY DEF Failing, Building, Idle
<1>3. QED  BY <1>1, <1>2

\* An update keeps the conditions true when what it claims is so.
LEMMA ApplyTrue ==
    ASSUME NEW p, NEW s, NEW b, NEW conds, TrueConditions(conds, p, s, b), NEW updates,
           "ImageExists" \in DOMAIN updates =>
               \A image \in Images :
                   updates["ImageExists"] = CondMsg("True", image) => PushedIn(image, p),
           "ModelsExists" \in DOMAIN updates =>
               \A rev \in Revisions :
                   updates["ModelsExists"] = CondMsg("True", ModelTags[rev])
                       => ModelsOf(rev) \subseteq s,
           "BentoAvailable" \in DOMAIN updates =>
               (updates["BentoAvailable"].status = "True" => b # NoBento)
    PROVE  TrueConditions(Apply(conds, updates), p, s, b)
<1> DEFINE new == Apply(conds, updates)
<1>1. \A c \in {"ImageExists", "ModelsExists", "BentoAvailable"} :
        new[c] = IF c \in DOMAIN updates THEN updates[c] ELSE conds[c]
  BY DEF Apply, ConditionTypes
<1> HIDE DEF new
<1>2. TrueConditions(new, p, s, b)
  BY <1>1 DEF TrueConditions, ImageExistsCondition, ModelsExistsCondition
<1>3. QED  BY <1>2 DEF new

LEMMA AllUnknownTrue ==
    ASSUME NEW p, NEW s, NEW b, NEW conds, TrueConditions(conds, p, s, b)
    PROVE  TrueConditions(AllUnknown(conds), p, s, b)
<1> DEFINE new == AllUnknown(conds)
<1>1. \A c \in {"ImageExists", "ModelsExists", "BentoAvailable"} :
        new[c] = conds[c] \/ new[c] = Cond("Unknown")
  BY DEF AllUnknown, ConditionTypes
<1>2. /\ \A msg : Cond("Unknown") # CondMsg("True", msg)
      /\ Cond("Unknown").status # "True"
  BY DEF Cond, CondMsg
<1> HIDE DEF new
<1>3. TrueConditions(new, p, s, b)
  BY <1>1, <1>2 DEF TrueConditions, ImageExistsCondition, ModelsExistsCondition
<1>4. QED  BY <1>3 DEF new

-----------------------------------------------------------------------------
(* Steps of a manager. *)

\* A worker m may go on as w: it returns from Reconcile, or w's beliefs are true.
SoundNext(w, b) ==
    \/ w = Idle
    \/ w.pc # "idle" /\ SoundWorker(w, request.rev, pushed, seeded, b)

LEMMA ReadsOwnRevision ==
    ASSUME TypeOK, BeliefsAreTrue, NEW m \in Managers, ~At(m, "idle")
    PROVE  /\ BentoRequest(m).rev = request.rev
           /\ cache[m].request.rev = request.rev
           /\ TrueConditions(BentoRequest(m).conds, pushed, seeded, bento)
           /\ TrueConditions(cache[m].request.conds, pushed, seeded, bento)
           /\ SoundWorker(worker[m], request.rev, pushed, seeded, bento)
<1>1. SoundManager(m)  BY DEF BeliefsAreTrue
<1>2. /\ cache[m].request.rev = request.rev
      /\ TrueConditions(cache[m].request.conds, pushed, seeded, bento)
      /\ SoundWorker(worker[m], request.rev, pushed, seeded, bento)
  BY <1>1 DEF SoundManager
<1>3. QED  BY <1>2 DEF BentoRequest, SoundWorker

LEMMA ManagerStep ==
    ASSUME TypeOK, BeliefsAreTrue, NEW m \in Managers,
           UNCHANGED <<pushed, seeded>>, bento # NoBento => bento' # NoBento,
           request'.rev = request.rev,
           TrueConditions(request'.conds, pushed, seeded, bento'),
           \A j \in JobNames : SoundJob(jobs'[j], pushed, seeded),
           SoundBento(bento', pushed, seeded),
           cache[m].request.rev = request.rev,
           cache' = cache \/ cache' = [cache EXCEPT ![m].request = request],
           NEW w, worker' = [worker EXCEPT ![m] = w], SoundNext(w, bento')
    PROVE  BeliefsAreTrue'
<1>1. TrueConditions(request.conds, pushed, seeded, bento')
  BY ConditionsMonotone DEF BeliefsAreTrue
<1>2. ASSUME NEW n \in Managers
      PROVE  /\ TrueConditions(cache'[n].request.conds, pushed, seeded, bento')
             /\ \A j \in JobNames : SoundJob(cache'[n].jobs[j], pushed, seeded)
  <2>1. /\ TrueConditions(cache[n].request.conds, pushed, seeded, bento')
        /\ \A j \in JobNames : SoundJob(cache[n].jobs[j], pushed, seeded)
    BY ConditionsMonotone DEF BeliefsAreTrue, SoundManager
  <2>2. /\ cache'[n].request \in {cache[n].request, request}
        /\ cache'[n].jobs = cache[n].jobs
    <3>1. cache \in [Managers -> Caches]  BY DEF TypeOK
    <3>2. CASE cache' = cache  BY <3>2
    <3>3. CASE cache' = [cache EXCEPT ![m].request = request]  BY <3>1, <3>3 DEF Caches
    <3> QED  BY <3>2, <3>3
  <2>3. QED  BY <1>1, <2>1, <2>2
<1>3. ASSUME NEW n \in Managers
      PROVE  IF worker'[n].pc = "idle" THEN worker'[n] = Idle
             ELSE /\ cache'[n].request.rev = request'.rev
                  /\ SoundWorker(worker'[n], request'.rev, pushed, seeded, bento')
  <2>1. CASE n = m
    <3>1. worker'[m] = w  BY DEF TypeOK
    <3>2. cache'[m].request.rev = request.rev  BY DEF TypeOK, Caches
    <3>3. Idle.pc = "idle"  BY DEF Idle
    <3>4. QED  BY <2>1, <3>1, <3>2, <3>3 DEF SoundNext
  <2>2. CASE n # m
    <3>1. worker'[n] = worker[n] /\ cache'[n] = cache[n]  BY <2>2 DEF TypeOK
    <3>2. IF worker[n].pc = "idle" THEN worker[n] = Idle
          ELSE /\ cache[n].request.rev = request.rev
               /\ SoundWorker(worker[n], request.rev, pushed, seeded, bento)
      BY DEF BeliefsAreTrue, SoundManager, At
    <3>3. QED  BY <3>1, <3>2, WorkerMonotone
  <2>3. QED  BY <2>1, <2>2
<1>4. \A n \in Managers : SoundManager(n)'
  BY <1>2, <1>3 DEF SoundManager, At
<1>5. QED  BY <1>4 DEF BeliefsAreTrue

LEMMA StatusStep ==
    ASSUME TypeOK, BeliefsAreTrue, NEW m \in Managers, ~At(m, "idle"),
           NEW updates, NEW ok, NEW failed,
           SetStatusConditions(m, updates, ok, failed), UNCHANGED clusterVars,
           TrueConditions(Apply(request.conds, updates), pushed, seeded, bento),
           SoundNext(ok, bento), SoundNext(failed, bento)
    PROVE  BeliefsAreTrue'
<1>1. cache[m].request.rev = request.rev  BY ReadsOwnRevision
<1>2. /\ UNCHANGED <<pushed, seeded, bento, jobs>>
      /\ \A j \in JobNames : SoundJob(jobs'[j], pushed, seeded)
      /\ SoundBento(bento', pushed, seeded)
      /\ TrueConditions(request.conds, pushed, seeded, bento)
  BY DEF clusterVars, BeliefsAreTrue
<1>3. CASE /\ UpdateStatus(m, Apply(request.conds, updates))
           /\ worker' = [worker EXCEPT ![m] = ok]
  <2>1. /\ request'.rev = request.rev
        /\ request'.conds = Apply(request.conds, updates)
        /\ cache' = [cache EXCEPT ![m].request = request]
    BY <1>3 DEF UpdateStatus, TypeOK, Requests
  <2>2. QED  BY <1>1, <1>2, <1>3, <2>1, ManagerStep
<1>4. CASE /\ worker' = [worker EXCEPT ![m] = failed]
           /\ UNCHANGED <<request, cache, queue>>
  BY <1>1, <1>2, <1>4, ManagerStep
<1>5. QED  BY <1>3, <1>4 DEF SetStatusConditions

-----------------------------------------------------------------------------
(* ensureImageExists. *)

\* Job steps: the status, the cache and the Bento are not touched.
LEMMA JobStep ==
    ASSUME TypeOK, BeliefsAreTrue, NEW m \in Managers, ~At(m, "idle"),
           UNCHANGED <<request, cache, bento, pushed, seeded>>,
           \A j \in JobNames : SoundJob(jobs'[j], pushed, seeded),
           NEW w, worker' = [worker EXCEPT ![m] = w], SoundNext(w, bento)
    PROVE  BeliefsAreTrue'
<1>1. cache[m].request.rev = request.rev  BY ReadsOwnRevision
<1>2. SoundBento(bento', pushed, seeded) /\ TrueConditions(request'.conds, pushed, seeded, bento')
  BY DEF BeliefsAreTrue
<1>3. QED  BY <1>1, <1>2, ManagerStep

LEMMA MarkDeletedSound ==
    ASSUME TypeOK, BeliefsAreTrue, NEW names, MarkDeleted(names)
    PROVE  \A j \in JobNames : SoundJob(jobs'[j], pushed, seeded)
<1> SUFFICES ASSUME NEW j \in JobNames PROVE SoundJob(jobs'[j], pushed, seeded)
  OBVIOUS
<1>1. SoundJob(jobs[j], pushed, seeded)  BY DEF BeliefsAreTrue
<1>2. CASE jobs'[j] = jobs[j]  BY <1>1, <1>2
<1>3. CASE jobs[j] # NoJob /\ jobs'[j] = [jobs[j] EXCEPT !.deleting = TRUE]
  <2>1. jobs[j] \in JobRecords  BY <1>3 DEF TypeOK, Jobs
  <2>2. /\ jobs'[j].kind = jobs[j].kind /\ jobs'[j].rev = jobs[j].rev
        /\ jobs'[j].image = jobs[j].image /\ jobs'[j].model = jobs[j].model
        /\ jobs'[j].phase = jobs[j].phase
    BY <1>3, <2>1 DEF JobRecords
  <2>3. QED  BY <1>1, <1>3, <2>2 DEF SoundJob
<1>4. QED  BY <1>2, <1>3 DEF MarkDeleted

LEMMA CreateJobSound ==
    ASSUME TypeOK, BeliefsAreTrue, NEW job, SoundJob(job, pushed, seeded), CreateJob(job)
    PROVE  \A j \in JobNames : SoundJob(jobs'[j], pushed, seeded)
<1>1. PICK k \in FreshJobNames : jobs' = [jobs EXCEPT ![k] = job]  BY DEF CreateJob
<1>2. QED  BY <1>1 DEF BeliefsAreTrue, TypeOK

LEMMA JobsUnchangedSound ==
    ASSUME BeliefsAreTrue, UNCHANGED jobs
    PROVE  \A j \in JobNames : SoundJob(jobs'[j], pushed, seeded)
BY DEF BeliefsAreTrue

LEMMA EnsureImageExistsSafe ==
    ASSUME TypeOK, BeliefsAreTrue, NEW m \in Managers, ensureImageExists(m)
    PROVE  BeliefsAreTrue'
<1> DEFINE br == BentoRequest(m)
           w == worker[m]
           rev == request.rev
<1>1. ~At(m, "idle")
  BY DEF ensureImageExists, At, EnterEnsureImageExists, CheckImageExists, RecordImageExists,
         DeleteStaleJob, CreateImageBuilderJob, KeepOneJob, ReportRunningJob, ReportFailedJob,
         ReportSucceededJob
<1>2. /\ br.rev = rev /\ cache[m].request.rev = rev
      /\ TrueConditions(br.conds, pushed, seeded, bento)
      /\ SoundWorker(w, rev, pushed, seeded, bento)
      /\ TrueConditions(request.conds, pushed, seeded, bento)
  BY <1>1, ReadsOwnRevision DEF BeliefsAreTrue
<1>3. w \in WorkerRecords /\ worker \in [Managers -> Workers] /\ rev \in Revisions
  BY DEF TypeOK, Workers, Requests
<1>4. SoundNext(Failing, bento) /\ SoundNext(Building, bento)
  BY FailingSound DEF SoundNext
<1>5. CASE EnterEnsureImageExists(m)
  <2> DEFINE image == ImageName[br.rev]
             entered == [w EXCEPT !.br = br, !.image = image,
                                  !.separate = SeparateFlag(m, br.rev),
                                  !.listSeparate = SeparateModels[br.rev]]
             up == [c \in {"ImageExistsChecked", "BentoAvailable"} |->
                       IF c = "ImageExistsChecked" THEN CondMsg("Unknown", image)
                                                   ELSE Cond("Unknown")]
             checking == [entered EXCEPT !.br = Returned, !.pc = "checkImage"]
             found == ImageExistsCondition(br.conds, image)
             known == [entered EXCEPT !.imageExists = found,
                                      !.pc = IF found THEN "afterImage" ELSE "listJobs"]
  <2>1. /\ entered.br = br /\ entered.image = image
        /\ entered.separate = SeparateFlag(m, br.rev)
        /\ entered.modelsExists = w.modelsExists /\ entered.tags = w.tags
        /\ checking.br = Returned /\ checking.image = image /\ checking.pc = "checkImage"
        /\ checking.separate = entered.separate
        /\ checking.modelsExists = w.modelsExists
        /\ known.br = br /\ known.image = image
        /\ known.pc = IF found THEN "afterImage" ELSE "listJobs"
        /\ known.separate = entered.separate /\ known.modelsExists = w.modelsExists
    BY <1>3 DEF WorkerRecords
  <2>2. entered.separate = SeparateModels[rev]
    <3>1. At(m, "image") \/ At(m, "marked")  BY <1>5 DEF EnterEnsureImageExists
    <3>2. QED  BY <1>2, <2>1, <3>1 DEF SeparateFlag, SoundWorker, At, SeparateKnown
  <2>3. image \in Images  BY <1>2, <1>3, RevisionAssumption
  <2>4. found => PushedIn(image, pushed)  BY <1>2, <2>3 DEF TrueConditions
  <2>5. TrueConditions(Returned.conds, pushed, seeded, bento)  BY NothingClaimed
  <2>6. w.modelsExists => ModelsOf(rev) \subseteq seeded  BY <1>2 DEF SoundWorker
  <2>7. TrueConditions(Apply(request.conds, up), pushed, seeded, bento)
    <3>1. /\ "ImageExists" \notin DOMAIN up /\ "ModelsExists" \notin DOMAIN up
          /\ up["BentoAvailable"].status # "True"
      BY DEF Cond
    <3> HIDE DEF up
    <3>2. QED  BY <1>2, <3>1, ApplyTrue
  <2>8. image = ImageName[rev]  BY <1>2
  <2>9. /\ \/ SetStatusConditions(m, up, checking, Failing)
           \/ /\ worker' = [worker EXCEPT ![m] = known]
              /\ UNCHANGED <<request, cache, queue, faults>>
           \/ /\ worker' = [worker EXCEPT ![m] = Failing]
              /\ UNCHANGED <<request, cache, queue>>
        /\ UNCHANGED clusterVars
    BY <1>5 DEF EnterEnsureImageExists
  <2> HIDE DEF br, w, image, entered, up, checking, found, known
  <2>10. SoundNext(checking, bento)
    BY <2>1, <2>2, <2>5, <2>6, <2>8 DEF SoundNext, SoundWorker
  <2>11. SoundNext(known, bento)
    BY <1>2, <2>1, <2>2, <2>4, <2>6, <2>8 DEF SoundNext, SoundWorker
  <2>12. \A j \in JobNames : SoundJob(jobs'[j], pushed, seeded)
    BY <2>9, JobsUnchangedSound DEF clusterVars
  <2>13. UNCHANGED <<bento, pushed, seeded>>  BY <2>9 DEF clusterVars
  <2>14. CASE SetStatusConditions(m, up, checking, Failing)
    BY <1>1, <1>4, <2>7, <2>9, <2>10, <2>14, StatusStep
  <2>15. CASE ~SetStatusConditions(m, up, checking, Failing)
    BY <1>1, <1>4, <2>9, <2>11, <2>12, <2>13, <2>15, JobStep
  <2>16. QED  BY <2>14, <2>15
<1>6. CASE CheckImageExists(m)
  <2> DEFINE answer == ~ForceBuild[br.rev] /\ ImageInRegistry(w.image)
             next == [w EXCEPT !.br = Returned, !.pc = "checked", !.imageExists = answer]
  <2>1. /\ next.br = Returned /\ next.pc = "checked" /\ next.imageExists = answer
        /\ next.image = w.image /\ next.separate = w.separate
        /\ next.modelsExists = w.modelsExists
    BY <1>3 DEF WorkerRecords
  <2>2. worker' = [worker EXCEPT ![m] = next] \/ worker' = [worker EXCEPT ![m] = Failing]
    BY <1>3, <1>6 DEF CheckImageExists
  <2>3. answer => PushedIn(w.image, pushed)  BY DEF ImageInRegistry, PushedIn
  <2>4. At(m, "checkImage")  BY <1>6 DEF CheckImageExists
  <2>5. TrueConditions(Returned.conds, pushed, seeded, bento)  BY NothingClaimed
  <2> HIDE DEF next, answer
  <2>6. SoundNext(next, bento)
    BY <1>2, <2>1, <2>3, <2>4, <2>5
    DEF SoundNext, SoundWorker, At, AfterGetImageInfo, SeparateKnown
  <2>7. UNCHANGED <<request, cache, bento, pushed, seeded, jobs>>
    BY <1>6 DEF CheckImageExists, clusterVars
  <2>8. QED  BY <1>1, <1>4, <2>2, <2>6, <2>7, JobStep, JobsUnchangedSound
<1>7. CASE RecordImageExists(m)
  <2> DEFINE image == w.image
             found == w.imageExists
             up == [c \in {"ImageExists", "ImageExistsChecked"} |->
                       IF found THEN CondMsg("True", image) ELSE Cond("False")]
             next == [w EXCEPT !.br = Returned, !.pc = IF found THEN "afterImage" ELSE "listJobs"]
  <2>1. /\ next.br = Returned /\ next.pc = IF found THEN "afterImage" ELSE "listJobs"
        /\ next.image = w.image /\ next.separate = w.separate
        /\ next.modelsExists = w.modelsExists
    BY <1>3 DEF WorkerRecords
  <2>2. At(m, "checked") /\ SetStatusConditions(m, up, next, Failing) /\ UNCHANGED clusterVars
    BY <1>7 DEF RecordImageExists
  <2>3. found => PushedIn(image, pushed)  BY <1>2, <2>2 DEF SoundWorker, At
  <2>4. TrueConditions(Returned.conds, pushed, seeded, bento)  BY NothingClaimed
  <2>5. TrueConditions(Apply(request.conds, up), pushed, seeded, bento)
    <3>1. /\ "ModelsExists" \notin DOMAIN up /\ "BentoAvailable" \notin DOMAIN up
          /\ \A i \in Images : up["ImageExists"] = CondMsg("True", i) => PushedIn(i, pushed)
      BY <2>3 DEF Cond, CondMsg
    <3> HIDE DEF up
    <3>2. QED  BY <1>2, <3>1, ApplyTrue
  <2> HIDE DEF next, up
  <2>6. SoundNext(next, bento)
    BY <1>2, <2>1, <2>2, <2>3, <2>4
    DEF SoundNext, SoundWorker, At, AfterGetImageInfo, SeparateKnown
  <2>7. QED  BY <1>1, <1>4, <2>2, <2>5, <2>6, StatusStep
<1>8. CASE DeleteStaleJob(m)
  <2>1. PICK j \in StaleJobs(m) :
          \/ /\ MarkDeleted({j})
             /\ UpdateStatus(m, AllUnknown(request.conds))
             /\ worker' = [worker EXCEPT ![m] = Building]
          \/ /\ MarkDeleted({j}) \/ UNCHANGED jobs
             /\ worker' = [worker EXCEPT ![m] = Failing]
             /\ UNCHANGED <<request, cache>>
    BY <1>8 DEF DeleteStaleJob
  <2>2. \A k \in JobNames : SoundJob(jobs'[k], pushed, seeded)
    BY <2>1, MarkDeletedSound, JobsUnchangedSound
  <2>3. UNCHANGED <<bento, pushed, seeded>>  BY <1>8 DEF DeleteStaleJob
  <2>4. CASE /\ UpdateStatus(m, AllUnknown(request.conds))
             /\ worker' = [worker EXCEPT ![m] = Building]
    <3>1. /\ request'.rev = rev /\ request'.conds = AllUnknown(request.conds)
          /\ cache' = [cache EXCEPT ![m].request = request]
      BY <2>4 DEF UpdateStatus, TypeOK, Requests
    <3>2. TrueConditions(request'.conds, pushed, seeded, bento')
      BY <1>2, <2>3, <3>1, AllUnknownTrue
    <3>3. SoundBento(bento', pushed, seeded)  BY <2>3 DEF BeliefsAreTrue
    <3>4. QED  BY <1>2, <1>4, <2>2, <2>3, <2>4, <3>1, <3>2, <3>3, ManagerStep
  <2>5. CASE worker' = [worker EXCEPT ![m] = Failing] /\ UNCHANGED <<request, cache>>
    BY <1>1, <1>4, <2>2, <2>3, <2>5, JobStep
  <2>6. QED  BY <2>1, <2>4, <2>5
<1>9. CASE CreateImageBuilderJob(m)
  <2> DEFINE job == BuilderJob(br.rev, w.image)
  <2>1. w.image = ImageName[br.rev]
    BY <1>2, <1>9 DEF CreateImageBuilderJob, SoundWorker, At, AfterGetImageInfo
  <2>2. SoundJob(job, pushed, seeded)
    <3>1. job.kind = "builder" /\ job.rev = br.rev /\ job.image = w.image /\ job.phase = "Waiting"
      BY DEF BuilderJob, NoJob
    <3> HIDE DEF job
    <3>2. QED  BY <2>1, <3>1 DEF SoundJob
  <2>3. \A k \in JobNames : SoundJob(jobs'[k], pushed, seeded)
    BY <1>9, <2>2, CreateJobSound, JobsUnchangedSound DEF CreateImageBuilderJob
  <2>4. QED  BY <1>1, <1>4, <1>9, <2>3, JobStep DEF CreateImageBuilderJob
<1>10. CASE KeepOneJob(m)
  <2>1. PICK kept \in ListedJobs(m) :
          /\ \E names : MarkDeleted(names)
          /\ \/ worker' = [worker EXCEPT ![m].br = Returned, ![m].pc = "jobStatus",
                                         ![m].phase = cache[m].jobs[kept].phase]
             \/ worker' = [worker EXCEPT ![m] = Failing]
    BY <1>10 DEF KeepOneJob
  <2> DEFINE job == cache[m].jobs[kept]
             next == [w EXCEPT !.br = Returned, !.pc = "jobStatus", !.phase = job.phase]
  <2>2. /\ next.br = Returned /\ next.pc = "jobStatus" /\ next.phase = job.phase
        /\ next.image = w.image /\ next.separate = w.separate
        /\ next.modelsExists = w.modelsExists
    BY <1>3 DEF WorkerRecords
  <2>3. worker' = [worker EXCEPT ![m] = next] \/ worker' = [worker EXCEPT ![m] = Failing]
    BY <1>3, <2>1
  <2>4. At(m, "listJobs") /\ w.image = ImageName[rev]
    BY <1>2, <1>10 DEF KeepOneJob, SoundWorker, At, AfterGetImageInfo
  <2>5. job.rev = rev  BY <1>2, <1>10, <2>1 DEF KeepOneJob, StaleJobs, HashChanged
  <2>6. job.phase = "Succeeded" => PushedIn(w.image, pushed)
    <3>1. SoundJob(job, pushed, seeded) /\ job # NoJob /\ job.kind = "builder"
      BY <2>1 DEF ListedJobs, BeliefsAreTrue, SoundManager
    <3> HIDE DEF job
    <3>2. QED  BY <2>4, <2>5, <3>1 DEF SoundJob
  <2>7. TrueConditions(Returned.conds, pushed, seeded, bento)  BY NothingClaimed
  <2>8. \A k \in JobNames : SoundJob(jobs'[k], pushed, seeded)  BY <2>1, MarkDeletedSound
  <2> HIDE DEF next, job
  <2>9. SoundNext(next, bento)
    BY <1>2, <2>2, <2>4, <2>6, <2>7
    DEF SoundNext, SoundWorker, At, AfterGetImageInfo, SeparateKnown
  <2>10. UNCHANGED <<request, cache, bento, pushed, seeded>>  BY <1>10 DEF KeepOneJob
  <2>11. QED  BY <1>1, <1>4, <2>3, <2>8, <2>9, <2>10, JobStep
<1>11. CASE ReportRunningJob(m)
  <2> DEFINE status == IF w.phase \in {"Active", "Finished"} THEN "True" ELSE "Unknown"
             up == [c \in {"ImageBuilding"} |-> Cond(status)]
             late == [c \in {"ImageBuilding"} |-> Cond("False")]
  <2>1. /\ \/ SetStatusConditions(m, up, Building, Failing)
           \/ /\ UpdateStatus(m, Apply(request.conds, late))
              /\ worker' = [worker EXCEPT ![m] = Failing]
        /\ UNCHANGED clusterVars
    BY <1>11 DEF ReportRunningJob
  <2>2. /\ TrueConditions(Apply(request.conds, up), pushed, seeded, bento)
        /\ TrueConditions(Apply(request.conds, late), pushed, seeded, bento)
    BY <1>2, ApplyTrue
  <2> HIDE DEF up, late
  <2>3. CASE SetStatusConditions(m, up, Building, Failing)
    BY <1>1, <1>4, <2>1, <2>2, <2>3, StatusStep
  <2>4. CASE /\ UpdateStatus(m, Apply(request.conds, late))
             /\ worker' = [worker EXCEPT ![m] = Failing]
    <3>1. /\ request'.rev = rev /\ request'.conds = Apply(request.conds, late)
          /\ cache' = [cache EXCEPT ![m].request = request]
      BY <2>4 DEF UpdateStatus, TypeOK, Requests
    <3>2. /\ UNCHANGED <<pushed, seeded, bento>> /\ SoundBento(bento', pushed, seeded)
          /\ \A k \in JobNames : SoundJob(jobs'[k], pushed, seeded)
      BY <2>1 DEF clusterVars, BeliefsAreTrue
    <3>3. QED  BY <1>2, <1>4, <2>2, <2>4, <3>1, <3>2, ManagerStep
  <2>5. QED  BY <2>1, <2>3, <2>4
<1>12. CASE ReportFailedJob(m)
  <2> DEFINE up == [c \in {"ImageBuilding", "BentoAvailable"} |-> Cond("False")]
  <2>1. SetStatusConditions(m, up, Building, Failing) /\ UNCHANGED clusterVars
    BY <1>12 DEF ReportFailedJob
  <2>2. TrueConditions(Apply(request.conds, up), pushed, seeded, bento)
    BY <1>2, ApplyTrue DEF Cond
  <2> HIDE DEF up
  <2>3. QED  BY <1>1, <1>4, <2>1, <2>2, StatusStep
<1>13. CASE ReportSucceededJob(m)
  <2> DEFINE up == [c \in {"ImageBuilding", "ImageExists"} |->
                       IF c = "ImageBuilding" THEN Cond("False") ELSE CondMsg("True", w.image)]
             next == [w EXCEPT !.br = Returned, !.imageExists = TRUE, !.pc = "afterImage"]
  <2>1. /\ next.br = Returned /\ next.pc = "afterImage"
        /\ next.image = w.image /\ next.separate = w.separate
        /\ next.modelsExists = w.modelsExists
    BY <1>3 DEF WorkerRecords
  <2>2. /\ At(m, "jobStatus") /\ w.phase = "Succeeded"
        /\ SetStatusConditions(m, up, next, Failing) /\ UNCHANGED clusterVars
    BY <1>13 DEF ReportSucceededJob
  <2>3. PushedIn(w.image, pushed)  BY <1>2, <2>2 DEF SoundWorker, At
  <2>4. TrueConditions(Returned.conds, pushed, seeded, bento)  BY NothingClaimed
  <2>5. TrueConditions(Apply(request.conds, up), pushed, seeded, bento)
    <3>1. /\ "ModelsExists" \notin DOMAIN up /\ "BentoAvailable" \notin DOMAIN up
          /\ \A i \in Images : up["ImageExists"] = CondMsg("True", i) => PushedIn(i, pushed)
      BY <2>3 DEF Cond, CondMsg
    <3> HIDE DEF up
    <3>2. QED  BY <1>2, <3>1, ApplyTrue
  <2> HIDE DEF next, up
  <2>6. SoundNext(next, bento)
    BY <1>2, <2>1, <2>2, <2>3, <2>4
    DEF SoundNext, SoundWorker, At, AfterGetImageInfo, SeparateKnown
  <2>7. QED  BY <1>1, <1>4, <2>2, <2>5, <2>6, StatusStep
<1>14. QED
  BY <1>5, <1>6, <1>7, <1>8, <1>9, <1>10, <1>11, <1>12, <1>13 DEF ensureImageExists

-----------------------------------------------------------------------------
(* ensureModelsExists. *)

\* The tags of a ModelsExists condition name a revision's models.
LEMMA TagsNameModels ==
    ASSUME NEW s, NEW rev, ModelsOf(rev) \subseteq s
    PROVE  \A other : CondMsg("True", ModelTags[rev]) = CondMsg("True", ModelTags[other])
                          => ModelsOf(other) \subseteq s
BY DEF ModelsOf, CondMsg

\* ensureModelsExists returns: only its result, and the request it read, are used later.
LEMMA ReturnModelsSound ==
    ASSUME NEW p, NEW s, NEW b, NEW w \in WorkerRecords, NEW rev,
           w.separate = SeparateModels[rev], NEW exists, NEW err,
           NEW br, TrueConditions(br.conds, p, s, b), br # Returned => br.rev = rev,
           exists => ModelsOf(rev) \subseteq s
    PROVE  /\ ReturnModels(w, exists, err, br).pc # "idle"
           /\ SoundWorker(ReturnModels(w, exists, err, br), rev, p, s, b)
<1> DEFINE r == ReturnModels(w, exists, err, br)
<1>1. /\ r.pc = "image" /\ r.br = br /\ r.modelsExists = exists /\ r.separate = w.separate
  BY DEF ReturnModels, WorkerRecords
<1> HIDE DEF r
<1>2. r.pc # "idle" /\ SoundWorker(r, rev, p, s, b)
  BY <1>1 DEF SoundWorker, AfterGetImageInfo, SeparateKnown
<1>3. QED  BY <1>2 DEF r

LEMMA InMemoryFields ==
    ASSUME TypeOK, NEW m \in Managers, NEW conds
    PROVE  InMemory(m, conds).rev = cache[m].request.rev /\ InMemory(m, conds).conds = conds
BY DEF InMemory, TypeOK, Caches, Requests

LEMMA EnsureModelsExistsSafe ==
    ASSUME TypeOK, BeliefsAreTrue, NEW m \in Managers, ensureModelsExists(m)
    PROVE  BeliefsAreTrue'
<1> DEFINE br == BentoRequest(m)
           cached == cache[m].request
           w == worker[m]
           rev == request.rev
<1>1. ~At(m, "idle")
  BY DEF ensureModelsExists, At, EnterEnsureModelsExists, ListSeederJobs, DeleteStaleSeeder,
         DeleteOrphanSeeder, StartSeeding, CreateSeederJob, ReportFailedSeeders, ReportSeeding
<1>2. /\ br.rev = rev /\ cached.rev = rev
      /\ TrueConditions(br.conds, pushed, seeded, bento)
      /\ TrueConditions(cached.conds, pushed, seeded, bento)
      /\ SoundWorker(w, rev, pushed, seeded, bento)
      /\ TrueConditions(request.conds, pushed, seeded, bento)
  BY <1>1, ReadsOwnRevision DEF BeliefsAreTrue
<1>3. w \in WorkerRecords /\ worker \in [Managers -> Workers] /\ rev \in Revisions
  BY DEF TypeOK, Workers, Requests
<1>4. TrueConditions(Returned.conds, pushed, seeded, bento)  BY NothingClaimed
\* A return with a request of this revision whose conditions are true.
<1>5. ASSUME NEW v \in WorkerRecords, v.separate = SeparateModels[rev],
             NEW exists, NEW err, exists => ModelsOf(rev) \subseteq seeded,
             NEW r, r = Returned \/ r.rev = rev,
             TrueConditions(r.conds, pushed, seeded, bento)
      PROVE  SoundNext(ReturnModels(v, exists, err, r), bento)
  BY <1>5, ReturnModelsSound DEF SoundNext
<1>6. ASSUME NEW conds, TrueConditions(conds, pushed, seeded, bento)
      PROVE  /\ InMemory(m, conds).rev = rev
             /\ TrueConditions(InMemory(m, conds).conds, pushed, seeded, bento)
  BY <1>2, <1>6, InMemoryFields
\* Inside ensureModelsExists the flag and the tags are those of the revision.
<1>7. w.pc \in {"listSeeders", "deleteSeeders", "seed"}
        => w.separate = SeparateModels[rev] /\ w.tags = ModelTags[rev]
  BY <1>2 DEF SoundWorker, SeparateKnown
<1>8. ASSUME NEW next, next.pc \in {"listSeeders", "deleteSeeders", "seed"},
             next.br = Returned \/ next.br = br \/ next.br = w.br,
             next.separate = SeparateModels[rev], next.tags = ModelTags[rev],
             next.modelsExists = w.modelsExists
      PROVE  SoundNext(next, bento)
  BY <1>2, <1>4, <1>8 DEF SoundNext, SoundWorker, AfterGetImageInfo
<1>9. CASE EnterEnsureModelsExists(m)
  <2> DEFINE tags == ModelTags[br.rev]
             called == [w EXCEPT !.separate = TRUE]
             entered == [called EXCEPT !.br = br, !.tags = tags, !.pc = "listSeeders"]
             waiting == [entered EXCEPT !.br = Returned]
             notReady == [c \in {"ModelsExists"} |-> Cond("False")]
             gaveUp == ReturnModels(called, FALSE, TRUE,
                                    InMemory(m, Apply(cached.conds, notReady)))
             known == ReturnModels(called, TRUE, FALSE, br)
  <2>1. /\ \/ SetStatusConditions(m, notReady, waiting, gaveUp)
           \/ /\ \/ worker' = [worker EXCEPT ![m] = known] /\ ModelsExistsCondition(br.conds, tags)
                 \/ worker' = [worker EXCEPT ![m] = entered]
              /\ UNCHANGED <<request, cache>>
        /\ UNCHANGED clusterVars
    BY <1>9 DEF EnterEnsureModelsExists
  <2>2. SeparateModels[rev] = TRUE  BY <1>2, <1>3, <1>9, RevisionAssumption DEF EnterEnsureModelsExists
  <2>3. /\ called \in WorkerRecords /\ called.separate = TRUE
        /\ called.modelsExists = w.modelsExists
        /\ entered.pc = "listSeeders" /\ entered.br = br /\ entered.tags = tags
        /\ entered.separate = TRUE /\ entered.modelsExists = w.modelsExists
        /\ waiting.pc = "listSeeders" /\ waiting.br = Returned /\ waiting.tags = tags
        /\ waiting.separate = TRUE /\ waiting.modelsExists = w.modelsExists
    BY <1>3 DEF WorkerRecords
  <2>4. ASSUME NEW conds, TrueConditions(conds, pushed, seeded, bento)
        PROVE  TrueConditions(Apply(conds, notReady), pushed, seeded, bento)
    <3>1. /\ DOMAIN notReady = {"ModelsExists"}
          /\ \A x : notReady["ModelsExists"] # CondMsg("True", x)
      BY DEF Cond, CondMsg
    <3> HIDE DEF notReady
    <3>2. QED  BY <2>4, <3>1, ApplyTrue
  <2>5. ModelsExistsCondition(br.conds, tags) => ModelsOf(rev) \subseteq seeded
    BY <1>2, <1>3 DEF TrueConditions
  <2>6. tags = ModelTags[rev]  BY <1>2
  <2>7. ModelsExistsCondition(br.conds, tags) => SoundNext(known, bento)
    <3> HIDE DEF called
    <3>1. QED  BY <1>2, <1>5, <2>2, <2>3, <2>5
  <2>8. SoundNext(gaveUp, bento)
    <3> DEFINE r == InMemory(m, Apply(cached.conds, notReady))
    <3>1. r.rev = rev /\ TrueConditions(r.conds, pushed, seeded, bento)  BY <1>2, <1>6, <2>4
    <3> HIDE DEF called, r
    <3>2. SoundNext(ReturnModels(called, FALSE, TRUE, r), bento)  BY <1>5, <2>2, <2>3, <3>1
    <3>3. QED  BY <3>2 DEF r
  <2>9. TrueConditions(Apply(request.conds, notReady), pushed, seeded, bento)  BY <1>2, <2>4
  <2> HIDE DEF br, entered, waiting, notReady, gaveUp, known, tags
  <2>10. SoundNext(waiting, bento) /\ SoundNext(entered, bento)
    <3>1. entered.separate = SeparateModels[rev] /\ waiting.separate = SeparateModels[rev]
      BY <2>2, <2>3, Zenon
    <3> HIDE DEF called, w, rev
    <3>2. QED  BY <1>8, <2>3, <2>6, <3>1
  <2>11. CASE SetStatusConditions(m, notReady, waiting, gaveUp)
    BY <1>1, <2>1, <2>8, <2>9, <2>10, <2>11, StatusStep
  <2>12. CASE ~SetStatusConditions(m, notReady, waiting, gaveUp)
    <3>1. UNCHANGED <<bento, pushed, seeded, jobs>>  BY <2>1 DEF clusterVars
    <3>2. QED  BY <1>1, <2>1, <2>7, <2>10, <2>12, <3>1, JobStep, JobsUnchangedSound
  <2>13. QED  BY <2>11, <2>12
<1>10. CASE ListSeederJobs(m)
  <2>1. PICK stale, orphans, existing :
          worker' = [worker EXCEPT ![m].br = br, ![m].pc = "deleteSeeders",
                        ![m].stale = stale, ![m].orphans = orphans, ![m].existing = existing]
    BY <1>10 DEF ListSeederJobs
  <2> DEFINE next == [w EXCEPT !.br = br, !.pc = "deleteSeeders",
                         !.stale = stale, !.orphans = orphans, !.existing = existing]
  <2>2. /\ next.pc = "deleteSeeders" /\ next.br = br /\ next.separate = w.separate
        /\ next.tags = w.tags /\ next.modelsExists = w.modelsExists
    BY <1>3 DEF WorkerRecords
  <2>3. worker' = [worker EXCEPT ![m] = next]  BY <1>3, <2>1
  <2>4. w.pc = "listSeeders" /\ UNCHANGED <<request, cache, bento, pushed, seeded, jobs>>
    BY <1>10 DEF ListSeederJobs, At, clusterVars
  <2> HIDE DEF next
  <2>5. SoundNext(next, bento)  BY <1>7, <1>8, <2>2, <2>4
  <2>6. QED  BY <1>1, <2>3, <2>4, <2>5, JobStep, JobsUnchangedSound
<1>11. CASE DeleteStaleSeeder(m)
  <2> DEFINE gaveUp == ReturnModels(w, FALSE, TRUE, InMemory(m, AllUnknown(cached.conds)))
             failed == ReturnModels(w, FALSE, TRUE, br)
  <2>1. PICK j \in w.stale :
          \/ /\ MarkDeleted({j})
             /\ UpdateStatus(m, AllUnknown(request.conds))
             /\ worker' = [worker EXCEPT ![m].br = Returned, ![m].stale = @ \ {j}]
          \/ /\ MarkDeleted({j}) \/ UNCHANGED jobs
             /\ worker' = [worker EXCEPT ![m] = gaveUp] \/ worker' = [worker EXCEPT ![m] = failed]
             /\ UNCHANGED <<request, cache>>
    BY <1>11 DEF DeleteStaleSeeder, ReturnError
  <2> DEFINE next == [w EXCEPT !.br = Returned, !.stale = @ \ {j}]
  <2>2. /\ next.pc = w.pc /\ next.br = Returned /\ next.separate = w.separate
        /\ next.tags = w.tags /\ next.modelsExists = w.modelsExists
    BY <1>3 DEF WorkerRecords
  <2>3. w.pc = "deleteSeeders" /\ UNCHANGED <<bento, pushed, seeded>>
    BY <1>11 DEF DeleteStaleSeeder, At
  <2>4. SoundNext(gaveUp, bento)
    <3> DEFINE r == InMemory(m, AllUnknown(cached.conds))
    <3>1. r.rev = rev /\ TrueConditions(r.conds, pushed, seeded, bento)
      BY <1>2, <1>6, AllUnknownTrue
    <3> HIDE DEF r
    <3>2. SoundNext(ReturnModels(w, FALSE, TRUE, r), bento)  BY <1>3, <1>5, <1>7, <2>3, <3>1
    <3>3. QED  BY <3>2 DEF r
  <2>5. SoundNext(failed, bento)  BY <1>2, <1>3, <1>5, <1>7, <2>3
  <2>6. \A k \in JobNames : SoundJob(jobs'[k], pushed, seeded)
    BY <2>1, MarkDeletedSound, JobsUnchangedSound
  <2>7. CASE /\ UpdateStatus(m, AllUnknown(request.conds))
             /\ worker' = [worker EXCEPT ![m].br = Returned, ![m].stale = @ \ {j}]
    <3>1. /\ request'.rev = rev /\ request'.conds = AllUnknown(request.conds)
          /\ cache' = [cache EXCEPT ![m].request = request]
      BY <2>7 DEF UpdateStatus, TypeOK, Requests
    <3>2. TrueConditions(request'.conds, pushed, seeded, bento')
      BY <1>2, <2>3, <3>1, AllUnknownTrue
    <3>3. SoundBento(bento', pushed, seeded)  BY <2>3 DEF BeliefsAreTrue
    <3>4. worker' = [worker EXCEPT ![m] = next]  BY <1>3, <2>7
    <3> HIDE DEF next
    <3>5. SoundNext(next, bento')  BY <1>7, <1>8, <2>2, <2>3
    <3>6. QED  BY <1>2, <2>3, <2>6, <3>1, <3>2, <3>3, <3>4, <3>5, ManagerStep
  <2>8. CASE /\ worker' = [worker EXCEPT ![m] = gaveUp] \/ worker' = [worker EXCEPT ![m] = failed]
             /\ UNCHANGED <<request, cache>>
    <3> HIDE DEF gaveUp, failed
    <3>1. QED  BY <1>1, <2>3, <2>4, <2>5, <2>6, <2>8, JobStep
  <2>9. QED  BY <2>1, <2>7, <2>8
<1>12. CASE DeleteOrphanSeeder(m)
  <2> DEFINE failed == ReturnModels(w, FALSE, TRUE, br)
  <2>1. PICK j \in w.orphans :
          /\ MarkDeleted({j}) \/ UNCHANGED jobs
          /\ \/ worker' = [worker EXCEPT ![m].orphans = @ \ {j}]
             \/ worker' = [worker EXCEPT ![m] = failed]
    BY <1>12 DEF DeleteOrphanSeeder, ReturnError
  <2> DEFINE next == [w EXCEPT !.orphans = @ \ {j}]
  <2>2. /\ next.pc = w.pc /\ next.br = w.br /\ next.separate = w.separate
        /\ next.tags = w.tags /\ next.modelsExists = w.modelsExists
    BY <1>3 DEF WorkerRecords
  <2>3. w.pc = "deleteSeeders" /\ UNCHANGED <<request, cache, bento, pushed, seeded>>
    BY <1>12 DEF DeleteOrphanSeeder, At
  <2>4. worker' = [worker EXCEPT ![m] = next] \/ worker' = [worker EXCEPT ![m] = failed]
    <3> HIDE DEF failed
    <3>1. QED  BY <1>3, <2>1
  <2>5. SoundNext(failed, bento)  BY <1>2, <1>3, <1>5, <1>7, <2>3
  <2>6. \A k \in JobNames : SoundJob(jobs'[k], pushed, seeded)
    BY <2>1, MarkDeletedSound, JobsUnchangedSound
  <2> HIDE DEF next, failed
  <2>7. SoundNext(next, bento)  BY <1>7, <1>8, <2>2, <2>3
  <2>8. QED  BY <1>1, <2>3, <2>4, <2>5, <2>6, <2>7, JobStep
<1>13. CASE StartSeeding(m)
  <2> DEFINE next == [w EXCEPT !.br = br, !.pc = "seed",
                               !.toSeed = ModelsOf(br.rev) \ w.existing]
  <2>1. /\ next.pc = "seed" /\ next.br = br /\ next.separate = w.separate
        /\ next.tags = w.tags /\ next.modelsExists = w.modelsExists
    BY <1>3 DEF WorkerRecords
  <2>2. worker' = [worker EXCEPT ![m] = next]  BY <1>3, <1>13 DEF StartSeeding
  <2>3. w.pc = "deleteSeeders" /\ UNCHANGED <<request, cache, bento, pushed, seeded, jobs>>
    BY <1>13 DEF StartSeeding, At, clusterVars
  <2> HIDE DEF next
  <2>4. SoundNext(next, bento)  BY <1>7, <1>8, <2>1, <2>3
  <2>5. QED  BY <1>1, <2>2, <2>3, <2>4, JobStep, JobsUnchangedSound
<1>14. CASE CreateSeederJob(m)
  <2> DEFINE failed == ReturnModels(w, FALSE, TRUE, br)
  <2>1. PICK model \in w.toSeed :
          /\ CreateJob(SeederJob(br.rev, model)) \/ UNCHANGED jobs
          /\ \/ worker' = [worker EXCEPT ![m].toSeed = @ \ {model}]
             \/ worker' = [worker EXCEPT ![m] = failed]
    BY <1>14 DEF CreateSeederJob, ReturnError
  <2> DEFINE next == [w EXCEPT !.toSeed = @ \ {model}]
             job == SeederJob(br.rev, model)
  <2>2. /\ next.pc = w.pc /\ next.br = w.br /\ next.separate = w.separate
        /\ next.tags = w.tags /\ next.modelsExists = w.modelsExists
    BY <1>3 DEF WorkerRecords
  <2>3. w.pc = "seed" /\ UNCHANGED <<request, cache, bento, pushed, seeded>>
    BY <1>14 DEF CreateSeederJob, At
  <2>4. worker' = [worker EXCEPT ![m] = next] \/ worker' = [worker EXCEPT ![m] = failed]
    <3> HIDE DEF failed
    <3>1. QED  BY <1>3, <2>1
  <2>5. SoundNext(failed, bento)  BY <1>2, <1>3, <1>5, <1>7, <2>3
  <2>6. SoundJob(job, pushed, seeded)
    <3>1. job.kind = "seeder" /\ job.phase = "Waiting"  BY DEF SeederJob, NoJob
    <3> HIDE DEF job
    <3>2. QED  BY <3>1 DEF SoundJob
  <2>7. \A k \in JobNames : SoundJob(jobs'[k], pushed, seeded)
    BY <2>1, <2>6, CreateJobSound, JobsUnchangedSound
  <2> HIDE DEF next, failed
  <2>8. SoundNext(next, bento)  BY <1>7, <1>8, <2>2, <2>3
  <2>9. QED  BY <1>1, <2>3, <2>4, <2>5, <2>7, <2>8, JobStep
<1>15. CASE ReportFailedSeeders(m)
  <2> DEFINE up == [c \in {"ModelsExists", "BentoAvailable"} |-> Cond("False")]
             memory == InMemory(m, Apply(cached.conds, up))
             ok == ReturnModels(w, FALSE, TRUE, Returned)
             gaveUp == ReturnModels(w, FALSE, TRUE, memory)
  <2>1. /\ w.pc = "seed" /\ SetStatusConditions(m, up, ok, gaveUp) /\ UNCHANGED clusterVars
    BY <1>15 DEF ReportFailedSeeders, At
  <2>2. ASSUME NEW conds, TrueConditions(conds, pushed, seeded, bento)
        PROVE  TrueConditions(Apply(conds, up), pushed, seeded, bento)
    <3>1. /\ DOMAIN up = {"ModelsExists", "BentoAvailable"}
          /\ up["BentoAvailable"].status # "True"
          /\ \A x : up["ModelsExists"] # CondMsg("True", x)
      BY DEF Cond, CondMsg
    <3> HIDE DEF up
    <3>2. QED  BY <2>2, <3>1, ApplyTrue
  <2>3. memory.rev = rev /\ TrueConditions(memory.conds, pushed, seeded, bento)
    BY <1>2, <1>6, <2>2
  <2> HIDE DEF memory
  <2>4. SoundNext(ok, bento) /\ SoundNext(gaveUp, bento)
    BY <1>3, <1>4, <1>5, <1>7, <2>1, <2>3
  <2>5. TrueConditions(Apply(request.conds, up), pushed, seeded, bento)  BY <1>2, <2>2
  <2> HIDE DEF up, ok, gaveUp
  <2>6. QED  BY <1>1, <2>1, <2>4, <2>5, StatusStep
<1>16. CASE ReportSeeding(m)
  <2> DEFINE exists == AllSeeded(m)
             up == IF exists
                   THEN [c \in {"ModelsExists", "ModelsSeeding"} |->
                            IF c = "ModelsExists" THEN CondMsg("True", w.tags)
                                                  ELSE Cond("False")]
                   ELSE [c \in {"ModelsSeeding"} |-> Cond("True")]
             memory == InMemory(m, Apply(cached.conds, up))
             ok == ReturnModels(w, exists, FALSE, Returned)
             gaveUp == ReturnModels(w, exists, TRUE, memory)
  <2>1. /\ w.pc = "seed" /\ SetStatusConditions(m, up, ok, gaveUp) /\ UNCHANGED clusterVars
    BY <1>16 DEF ReportSeeding, At
  \* A succeeded job with a model's tag has seeded that model.
  <2>2. ASSUME NEW model \in Models, model \in SucceededTags(m)
        PROVE  model \in seeded
    <3>1. PICK j \in CachedSeeders(m) :
            cache[m].jobs[j].phase = "Succeeded" /\ model = TagOf(cache[m].jobs[j])
      BY <2>2 DEF SucceededTags
    <3>2. model = cache[m].jobs[j].model  BY <3>1, NameAssumption DEF TagOf
    <3>3. SoundJob(cache[m].jobs[j], pushed, seeded)
      BY <3>1 DEF BeliefsAreTrue, SoundManager, CachedSeeders
    <3>4. QED  BY <3>1, <3>2, <3>3 DEF SoundJob, CachedSeeders
  <2>3. exists => ModelsOf(rev) \subseteq seeded
    BY <1>2, <1>3, <2>2, ModelsOfType DEF AllSeeded
  <2>4. ASSUME NEW conds, TrueConditions(conds, pushed, seeded, bento)
        PROVE  TrueConditions(Apply(conds, up), pushed, seeded, bento)
    <3>1. /\ "ImageExists" \notin DOMAIN up /\ "BentoAvailable" \notin DOMAIN up
          /\ "ModelsExists" \in DOMAIN up => exists /\ up["ModelsExists"] = CondMsg("True", w.tags)
      OBVIOUS
    <3>2. w.tags = ModelTags[rev]  BY <1>7, <2>1
    <3> HIDE DEF up, exists
    <3>3. "ModelsExists" \in DOMAIN up =>
            \A other \in Revisions :
                up["ModelsExists"] = CondMsg("True", ModelTags[other])
                    => ModelsOf(other) \subseteq seeded
      BY <2>3, <3>1, <3>2, TagsNameModels
    <3>4. QED  BY <2>4, <3>1, <3>3, ApplyTrue
  <2>5. memory.rev = rev /\ TrueConditions(memory.conds, pushed, seeded, bento)
    <3> HIDE DEF up
    <3>1. QED  BY <1>2, <1>6, <2>4
  <2> HIDE DEF memory, exists
  <2>6. SoundNext(ok, bento) /\ SoundNext(gaveUp, bento)
    BY <1>3, <1>4, <1>5, <1>7, <2>1, <2>3, <2>5
  <2> HIDE DEF up, ok, gaveUp
  <2>7. TrueConditions(Apply(request.conds, up), pushed, seeded, bento)  BY <1>2, <2>4
  <2>8. QED  BY <1>1, <2>1, <2>6, <2>7, StatusStep
<1>17. QED
  BY <1>9, <1>10, <1>11, <1>12, <1>13, <1>14, <1>15, <1>16 DEF ensureModelsExists

-----------------------------------------------------------------------------
(* Reconcile. *)

LEMMA ReconcileSafe ==
    ASSUME TypeOK, BeliefsAreTrue, ~MidReconcileEdits, NEW m \in Managers, Reconcile(m)
    PROVE  BeliefsAreTrue'
<1> DEFINE br == BentoRequest(m)
           cached == cache[m].request
           w == worker[m]
           rev == request.rev
           waiting == [c \in {"BentoAvailable"} |-> Cond("Unknown")]
           serving == [c \in {"BentoAvailable"} |-> Cond("True")]
<1>1. w \in WorkerRecords /\ worker \in [Managers -> Workers] /\ rev \in Revisions
  BY DEF TypeOK, Workers, Requests
<1>2. /\ TrueConditions(request.conds, pushed, seeded, bento)
      /\ TrueConditions(cached.conds, pushed, seeded, bento)
      /\ TrueConditions(Returned.conds, pushed, seeded, bento)
  BY NothingClaimed DEF BeliefsAreTrue, SoundManager
<1>3. SoundNext(Idle, bento) /\ SoundNext(Failing, bento)  BY FailingSound DEF SoundNext
<1>4. TrueConditions(Apply(request.conds, waiting), pushed, seeded, bento)
  <2>1. DOMAIN waiting = {"BentoAvailable"} /\ waiting["BentoAvailable"].status # "True"
    BY DEF Cond
  <2> HIDE DEF waiting
  <2>2. QED  BY <1>2, <2>1, ApplyTrue
<1>5. ~At(m, "idle") => /\ br.rev = rev /\ cached.rev = rev
                        /\ TrueConditions(br.conds, pushed, seeded, bento)
                        /\ SoundWorker(w, rev, pushed, seeded, bento)
  BY ReadsOwnRevision
<1> HIDE DEF waiting, serving
<1>6. CASE StartReconcile(m)
  <2> DEFINE first == [Idle EXCEPT !.br = cached, !.pc = "init"]
             again == [Idle EXCEPT !.br = cached, !.pc = "mark"]
  <2>1. /\ \/ worker' = [worker EXCEPT ![m] = Idle]
           \/ worker' = [worker EXCEPT ![m] = first]
           \/ worker' = [worker EXCEPT ![m] = again]
        /\ UNCHANGED <<request, cache, jobs, bento, pushed, seeded>>
        /\ cached.rev = rev
    BY <1>6 DEF StartReconcile, clusterVars
  <2>2. /\ first.pc = "init" /\ first.br = cached /\ first.modelsExists = FALSE
        /\ again.pc = "mark" /\ again.br = cached /\ again.modelsExists = FALSE
    BY DEF Idle
  <2>3. /\ SoundBento(bento', pushed, seeded)
        /\ \A j \in JobNames : SoundJob(jobs'[j], pushed, seeded)
        /\ TrueConditions(request'.conds, pushed, seeded, bento')
    BY <2>1 DEF BeliefsAreTrue
  <2> HIDE DEF first, again
  <2>4. SoundNext(first, bento) /\ SoundNext(again, bento)
    BY <1>2, <2>1, <2>2 DEF SoundNext, SoundWorker, AfterGetImageInfo, SeparateKnown
  <2>5. QED  BY <1>3, <2>1, <2>3, <2>4, ManagerStep
<1>7. CASE InitConditions(m)
  <2> DEFINE up == [c \in {"ModelsSeeding", "ImageBuilding", "ImageExists"} |-> Cond("Unknown")]
             next == [w EXCEPT !.br = Returned, !.pc = "mark"]
  <2>1. TrueConditions(Apply(request.conds, up), pushed, seeded, bento)
    <3>1. /\ DOMAIN up = {"ModelsSeeding", "ImageBuilding", "ImageExists"}
          /\ \A x : up["ImageExists"] # CondMsg("True", x)
      BY DEF Cond, CondMsg
    <3> HIDE DEF up
    <3>2. QED  BY <1>2, <3>1, ApplyTrue
  <2>2. next.br = Returned /\ next.pc = "mark" /\ next.modelsExists = w.modelsExists
    BY <1>1 DEF WorkerRecords
  <2>3. ~At(m, "idle") /\ UNCHANGED clusterVars  BY <1>7 DEF InitConditions, At
  <2>4. /\ SoundBento(bento', pushed, seeded) /\ UNCHANGED <<bento, pushed, seeded, jobs>>
        /\ \A j \in JobNames : SoundJob(jobs'[j], pushed, seeded)
    BY <2>3 DEF BeliefsAreTrue, clusterVars
  <2>5. \/ /\ UpdateStatus(m, Apply(request.conds, up))
           /\ worker' = [worker EXCEPT ![m] = next]
        \/ /\ worker' = [worker EXCEPT ![m] = Idle]
           /\ UNCHANGED <<request, cache>>
    BY <1>1, <1>7 DEF InitConditions
  <2> HIDE DEF next, up
  <2>6. SoundNext(next, bento)
    BY <1>2, <1>5, <2>2, <2>3 DEF SoundNext, SoundWorker, AfterGetImageInfo, SeparateKnown
  <2>7. CASE /\ UpdateStatus(m, Apply(request.conds, up))
             /\ worker' = [worker EXCEPT ![m] = next]
    <3>1. /\ request'.rev = rev /\ request'.conds = Apply(request.conds, up)
          /\ cache' = [cache EXCEPT ![m].request = request]
      BY <2>7 DEF UpdateStatus, TypeOK, Requests
    <3>2. QED  BY <1>5, <2>1, <2>3, <2>4, <2>6, <2>7, <3>1, ManagerStep
  <2>8. CASE worker' = [worker EXCEPT ![m] = Idle] /\ UNCHANGED <<request, cache>>
    BY <1>3, <2>3, <2>4, <2>8, JobStep
  <2>9. QED  BY <2>5, <2>7, <2>8
<1>8. CASE MarkReconciling(m)
  <2> DEFINE marked == [w EXCEPT !.br = Returned, !.pc = "marked"]
             kept == [w EXCEPT !.br = br, !.pc = "marked"]
  <2>1. /\ marked.br = Returned /\ marked.pc = "marked" /\ marked.modelsExists = w.modelsExists
        /\ kept.br = br /\ kept.pc = "marked" /\ kept.modelsExists = w.modelsExists
    BY <1>1 DEF WorkerRecords
  <2>2. /\ ~At(m, "idle") /\ UNCHANGED clusterVars
        /\ \/ SetStatusConditions(m, waiting, marked, Failing)
           \/ worker' = [worker EXCEPT ![m] = kept] /\ UNCHANGED <<request, cache>>
    BY <1>1, <1>8 DEF MarkReconciling, At, waiting
  <2> HIDE DEF marked, kept
  <2>3. SoundNext(marked, bento) /\ SoundNext(kept, bento)
    BY <1>2, <1>5, <2>1, <2>2 DEF SoundNext, SoundWorker, AfterGetImageInfo, SeparateKnown
  <2>4. CASE SetStatusConditions(m, waiting, marked, Failing)
    BY <1>3, <1>4, <2>2, <2>3, <2>4, StatusStep
  <2>5. CASE worker' = [worker EXCEPT ![m] = kept] /\ UNCHANGED <<request, cache>>
    <3>1. UNCHANGED <<bento, pushed, seeded, jobs>>  BY <2>2 DEF clusterVars
    <3>2. QED  BY <2>2, <2>3, <2>5, <3>1, JobStep, JobsUnchangedSound
  <2>6. QED  BY <2>2, <2>4, <2>5
<1>9. CASE ensureModelsExists(m)  BY <1>9, EnsureModelsExistsSafe
<1>10. CASE ensureImageExists(m)  BY <1>10, EnsureImageExistsSafe
<1>11. CASE AwaitImage(m)
  BY <1>3, <1>4, <1>11, StatusStep DEF AwaitImage, At, waiting
<1>12. CASE ReturnModelsError(m)
  <2>1. /\ ~At(m, "idle") /\ UNCHANGED <<request, cache, bento, pushed, seeded, jobs>>
        /\ worker' = [worker EXCEPT ![m] = Failing]
    BY <1>12 DEF ReturnModelsError, At, clusterVars
  <2>2. QED  BY <1>3, <2>1, JobStep, JobsUnchangedSound
<1>13. CASE AwaitModels(m)
  BY <1>3, <1>4, <1>13, StatusStep DEF AwaitModels, At, waiting
<1>14. CASE CleanUpSeeders(m) \/ SkipSeeders(m)
  <2> DEFINE next == [w EXCEPT !.br = br, !.pc = "bento"]
  <2>1. /\ next.br = br /\ next.pc = "bento" /\ next.image = w.image
        /\ next.modelsExists = w.modelsExists
    BY <1>1 DEF WorkerRecords
  <2>2. /\ w.pc = "afterImage" /\ worker' = [worker EXCEPT ![m] = next]
        /\ UNCHANGED <<request, cache, bento, pushed, seeded>>
    BY <1>1, <1>14 DEF CleanUpSeeders, SkipSeeders, At, clusterVars
  <2>3. \A j \in JobNames : jobs'[j] = NoJob \/ jobs'[j] = jobs[j]
    BY <1>14 DEF CleanUpSeeders, SkipSeeders, clusterVars
  <2>4. \A j \in JobNames : SoundJob(jobs'[j], pushed, seeded)
    BY <2>3 DEF BeliefsAreTrue, SoundJob
  <2>5. /\ br.rev = rev /\ w.separate = SeparateModels[rev] /\ w.image = ImageName[rev]
        /\ TrueConditions(br.conds, pushed, seeded, bento)
    BY <1>5, <2>2 DEF At, SoundWorker, AfterGetImageInfo, SeparateKnown
  <2>6. w.modelsExists \/ ~(SeparateModels[rev] /\ ~StoredInS3[rev])
    BY <1>14, <2>5 DEF CleanUpSeeders, SkipSeeders, SeedsModels
  <2>7. w.modelsExists => ModelsOf(rev) \subseteq seeded
    BY <1>5, <2>2 DEF At, SoundWorker
  <2> HIDE DEF next
  <2>8. PushedIn(w.image, pushed)  BY <1>5, <2>2 DEF At, SoundWorker
  <2>9. SoundNext(next, bento)
    BY <2>1, <2>5, <2>6, <2>7, <2>8
    DEF SoundNext, SoundWorker, AfterGetImageInfo, SeparateKnown
  <2>10. QED  BY <2>2, <2>4, <2>9, JobStep DEF At
<1>15. CASE CreateBento(m)
  <2>1. /\ w.pc = "bento" /\ UNCHANGED <<request, cache, jobs, pushed, seeded>>
        /\ \/ /\ bento' # NoBento /\ bento'.rev = br.rev /\ bento'.image = w.image
              /\ worker' = [worker EXCEPT ![m] = [Idle EXCEPT !.pc = "available"]]
           \/ /\ worker' = [worker EXCEPT ![m] = Failing]
              /\ UNCHANGED bento
    <3>1. br.rev # NoRevision  BY BentoRequestType, RevisionAssumption
    <3>2. QED  BY <1>15, <3>1 DEF CreateBento, At, NoBento
  <2>2. /\ br.rev = rev /\ cached.rev = rev
        /\ SoundWorker(w, rev, pushed, seeded, bento)
    BY <1>5, <2>1 DEF At
  <2>3. SoundBento(bento', pushed, seeded)
    <3>1. CASE UNCHANGED bento  BY <3>1 DEF BeliefsAreTrue
    <3>2. CASE bento'.rev = br.rev /\ bento'.image = w.image
      BY <2>1, <2>2, <3>2 DEF SoundBento, SoundWorker, AfterGetImageInfo
    <3>3. QED  BY <2>1, <3>1, <3>2
  <2>4. bento # NoBento => bento' # NoBento  BY <2>1
  <2>5. TrueConditions(request'.conds, pushed, seeded, bento')
    BY <1>2, <2>1, <2>4, ConditionsMonotone
  <2>6. \A j \in JobNames : SoundJob(jobs'[j], pushed, seeded)
    BY <2>1, JobsUnchangedSound
  <2>7. SoundNext(Failing, bento')  BY FailingSound DEF SoundNext
  <2>8. bento' # NoBento => SoundNext([Idle EXCEPT !.pc = "available"], bento')
    <3>1. [Idle EXCEPT !.pc = "available"].pc # "idle"  BY DEF Idle
    <3>2. QED  BY <3>1, IdleSound DEF SoundNext
  <2>9. QED  BY <2>1, <2>2, <2>3, <2>4, <2>5, <2>6, <2>7, <2>8, ManagerStep
<1>16. CASE SetAvailable(m)
  <2>1. /\ w.pc = "available" /\ UNCHANGED clusterVars
        /\ SetStatusConditions(m, serving, Idle, Failing)
    BY <1>16 DEF SetAvailable, At, serving
  <2>2. bento # NoBento  BY <1>5, <2>1 DEF At, SoundWorker
  <2>3. DOMAIN serving = {"BentoAvailable"}  BY DEF serving
  <2>4. TrueConditions(Apply(request.conds, serving), pushed, seeded, bento)
    BY <1>2, <2>2, <2>3, ApplyTrue
  <2>5. QED  BY <1>3, <2>1, <2>4, StatusStep DEF At
<1>17. CASE HandleError(m)
  <2>1. /\ w.pc = "fail" /\ UNCHANGED <<jobs, bento, pushed, seeded>>
        /\ worker' = [worker EXCEPT ![m] = Idle]
        /\ \/ /\ request' = [request EXCEPT !.conds["BentoAvailable"] = Cond("False")]
              /\ cache' = [cache EXCEPT ![m].request = request]
           \/ UNCHANGED <<request, cache>>
    BY <1>17 DEF HandleError, At, clusterVars
  <2>2. request'.rev = rev  BY <2>1 DEF TypeOK, Requests
  <2>3. TrueConditions(request'.conds, pushed, seeded, bento')
    <3>1. \/ request'.conds = request.conds
          \/ request'.conds = [request.conds EXCEPT !["BentoAvailable"] = Cond("False")]
      BY <2>1 DEF TypeOK, Requests
    <3>2. request.conds \in [ConditionTypes -> Condition]
      BY ConditionsDef DEF TypeOK, Requests
    <3>3. /\ request'.conds["ImageExists"] = request.conds["ImageExists"]
          /\ request'.conds["ModelsExists"] = request.conds["ModelsExists"]
          /\ \/ request'.conds["BentoAvailable"] = request.conds["BentoAvailable"]
             \/ request'.conds["BentoAvailable"].status # "True"
      BY <3>1, <3>2 DEF ConditionTypes, Cond
    <3>4. QED
      BY <1>2, <2>1, <3>3 DEF TrueConditions, ImageExistsCondition, ModelsExistsCondition
  <2>4. /\ SoundBento(bento', pushed, seeded)
        /\ \A j \in JobNames : SoundJob(jobs'[j], pushed, seeded)
    BY <2>1 DEF BeliefsAreTrue
  <2>5. cached.rev = rev  BY <1>5, <2>1 DEF At
  <2>6. QED  BY <1>3, <2>1, <2>2, <2>3, <2>4, <2>5, ManagerStep
<1>18. QED
  BY <1>6, <1>7, <1>8, <1>9, <1>10, <1>11, <1>12, <1>13, <1>14, <1>15, <1>16, <1>17
  DEF Reconcile

-----------------------------------------------------------------------------
(* The environment. *)

LEMMA EnvironmentSafe ==
    ASSUME TypeOK, BeliefsAreTrue, ~MidReconcileEdits, Environment
    PROVE  BeliefsAreTrue'
\* Steps of the informers, and crashes: nothing but copies of what is true.
<1>1. ASSUME NEW m \in Managers, UNCHANGED <<request, jobs, bento, pushed, seeded>>,
             NEW c, cache' = [cache EXCEPT ![m] = c],
             c.request \in {cache[m].request, request}, c.jobs \in {cache[m].jobs, jobs},
             worker' = worker \/ worker' = [worker EXCEPT ![m] = Idle]
      PROVE  BeliefsAreTrue'
  <2>1. ASSUME NEW n \in Managers
        PROVE  /\ TrueConditions(cache'[n].request.conds, pushed, seeded, bento)
               /\ \A j \in JobNames : SoundJob(cache'[n].jobs[j], pushed, seeded)
               /\ IF worker'[n].pc = "idle" THEN worker'[n] = Idle
                  ELSE /\ cache'[n].request.rev = request.rev
                       /\ SoundWorker(worker'[n], request.rev, pushed, seeded, bento)
    <3>1. /\ TrueConditions(cache[n].request.conds, pushed, seeded, bento)
          /\ \A j \in JobNames : SoundJob(cache[n].jobs[j], pushed, seeded)
          /\ IF worker[n].pc = "idle" THEN worker[n] = Idle
             ELSE /\ cache[n].request.rev = request.rev
                  /\ SoundWorker(worker[n], request.rev, pushed, seeded, bento)
          /\ TrueConditions(request.conds, pushed, seeded, bento)
          /\ \A j \in JobNames : SoundJob(jobs[j], pushed, seeded)
      BY DEF BeliefsAreTrue, SoundManager, At
    <3>2. /\ cache'[n].request \in {cache[n].request, request}
          /\ cache'[n].jobs \in {cache[n].jobs, jobs}
      BY <1>1 DEF TypeOK
    <3>3. worker'[n] \in {worker[n], Idle} /\ Idle.pc = "idle"
      BY <1>1 DEF TypeOK, Idle
    <3>4. QED  BY <3>1, <3>2, <3>3
  <2>2. \A n \in Managers : SoundManager(n)'  BY <1>1, <2>1 DEF SoundManager, At
  <2>3. QED  BY <1>1, <2>2 DEF BeliefsAreTrue
\* Steps of jobs.
<1>2. ASSUME UNCHANGED <<request, bento, cache, worker>>,
             pushed \subseteq pushed', seeded \subseteq seeded',
             NEW k \in JobNames, NEW job, jobs' = [jobs EXCEPT ![k] = job],
             SoundJob(job, pushed', seeded')
      PROVE  BeliefsAreTrue'
  <2>1. \A j \in JobNames : SoundJob(jobs'[j], pushed', seeded')
    BY <1>2, JobMonotone DEF BeliefsAreTrue, TypeOK
  <2>2. TrueConditions(request'.conds, pushed', seeded', bento')
    BY <1>2, ConditionsMonotone DEF BeliefsAreTrue
  <2>3. SoundBento(bento', pushed', seeded')
    BY <1>2 DEF BeliefsAreTrue, SoundBento, PushedIn
  <2>4. ASSUME NEW n \in Managers
        PROVE  /\ TrueConditions(cache'[n].request.conds, pushed', seeded', bento')
               /\ \A j \in JobNames : SoundJob(cache'[n].jobs[j], pushed', seeded')
               /\ IF worker'[n].pc = "idle" THEN worker'[n] = Idle
                  ELSE /\ cache'[n].request.rev = request'.rev
                       /\ SoundWorker(worker'[n], request'.rev, pushed', seeded', bento')
    BY <1>2, ConditionsMonotone, JobMonotone, WorkerMonotone DEF BeliefsAreTrue, SoundManager, At
  <2>5. \A n \in Managers : SoundManager(n)'  BY <2>4 DEF SoundManager, At
  <2>6. QED  BY <2>1, <2>2, <2>3, <2>5 DEF BeliefsAreTrue
<1>3. ASSUME NEW rev \in Revisions, Edit(rev)  PROVE BeliefsAreTrue'
  <2>1. /\ request'.conds = request.conds
        /\ UNCHANGED <<jobs, bento, pushed, seeded, cache, worker>>
        /\ \A n \in Managers : worker[n].pc = "idle"
    BY <1>3 DEF Edit, TypeOK, Requests
  <2>2. \A n \in Managers : SoundManager(n)'  BY <2>1 DEF BeliefsAreTrue, SoundManager, At
  <2>3. QED  BY <2>1, <2>2 DEF BeliefsAreTrue
<1>4. ASSUME NEW m \in Managers,
             SyncRequest(m) \/ SyncJobs(m) \/ SyncPVCs(m) \/ Resync(m) \/ Crash(m)
      PROVE  BeliefsAreTrue'
  <2>1. cache[m] \in Caches /\ cache \in [Managers -> Caches]  BY DEF TypeOK
  <2>2. CASE SyncRequest(m)
    <3> DEFINE c == [cache[m] EXCEPT !.request = request]
    <3>1. c.request = request /\ c.jobs = cache[m].jobs  BY <2>1 DEF Caches
    <3>2. cache' = [cache EXCEPT ![m] = c]  BY <2>1, <2>2 DEF SyncRequest
    <3> HIDE DEF c
    <3>3. QED  BY <1>1, <2>2, <3>1, <3>2 DEF SyncRequest
  <2>3. CASE SyncJobs(m)
    <3> DEFINE c == [cache[m] EXCEPT !.jobs = jobs]
    <3>1. c.request = cache[m].request /\ c.jobs = jobs  BY <2>1 DEF Caches
    <3>2. cache' = [cache EXCEPT ![m] = c]  BY <2>1, <2>3 DEF SyncJobs
    <3> HIDE DEF c
    <3>3. QED  BY <1>1, <2>3, <3>1, <3>2 DEF SyncJobs
  <2>4. CASE SyncPVCs(m)
    <3> DEFINE c == [cache[m] EXCEPT !.pvcs = pvcs]
    <3>1. c.request = cache[m].request /\ c.jobs = cache[m].jobs  BY <2>1 DEF Caches
    <3>2. cache' = [cache EXCEPT ![m] = c]  BY <2>1, <2>4 DEF SyncPVCs
    <3> HIDE DEF c
    <3>3. QED  BY <1>1, <2>4, <3>1, <3>2 DEF SyncPVCs
  <2>5. CASE Resync(m)
    <3>1. cache' = [cache EXCEPT ![m] = cache[m]]  BY <2>1, <2>5 DEF Resync
    <3>2. QED  BY <1>1, <2>5, <3>1 DEF Resync
  <2>6. CASE Crash(m)
    <3> DEFINE c == [request |-> request, jobs |-> jobs, pvcs |-> pvcs]
    <3>1. c.request = request /\ c.jobs = jobs  OBVIOUS
    <3>2. cache' = [cache EXCEPT ![m] = c]  BY <2>6 DEF Crash
    <3> HIDE DEF c
    <3>3. QED  BY <1>1, <2>6, <3>1, <3>2 DEF Crash
  <2>7. QED  BY <1>4, <2>2, <2>3, <2>4, <2>5, <2>6
<1>5. ASSUME NEW j \in JobNames,
             \/ StartPod(j) \/ FinishPod(j) \/ RecordSuccess(j) \/ FailPod(j) \/ FinalizeJob(j)
      PROVE  BeliefsAreTrue'
  <2>1. jobs[j] \in JobRecords /\ jobs[j] # NoJob /\ SoundJob(jobs[j], pushed, seeded)
    BY <1>5 DEF StartPod, FinishPod, RecordSuccess, FailPod, FinalizeJob, TypeOK, Jobs,
                BeliefsAreTrue
  <2>2. UNCHANGED <<request, bento, cache, worker>>
    BY <1>5 DEF StartPod, FinishPod, RecordSuccess, FailPod, FinalizeJob
  \* A new phase, which may only claim success when it is so.
  <2>3. ASSUME NEW phase, NEW failed, pushed \subseteq pushed', seeded \subseteq seeded',
               \/ jobs' = [jobs EXCEPT ![j].phase = phase]
               \/ jobs' = [jobs EXCEPT ![j].phase = phase, ![j].failedPods = failed],
               phase \in {"Finished", "Succeeded"} =>
                   \/ jobs[j].kind = "builder" /\ PushedIn(jobs[j].image, pushed')
                   \/ jobs[j].kind = "seeder" /\ jobs[j].model \in seeded'
        PROVE  BeliefsAreTrue'
    <3> DEFINE plain == [jobs[j] EXCEPT !.phase = phase]
               retried == [jobs[j] EXCEPT !.phase = phase, !.failedPods = failed]
    <3>1. jobs' = [jobs EXCEPT ![j] = plain] \/ jobs' = [jobs EXCEPT ![j] = retried]
      BY <2>3 DEF TypeOK
    <3>2. /\ plain.kind = jobs[j].kind /\ plain.rev = jobs[j].rev /\ plain.phase = phase
          /\ plain.image = jobs[j].image /\ plain.model = jobs[j].model
          /\ retried.kind = jobs[j].kind /\ retried.rev = jobs[j].rev /\ retried.phase = phase
          /\ retried.image = jobs[j].image /\ retried.model = jobs[j].model
      BY <2>1 DEF JobRecords
    <3> HIDE DEF plain, retried
    <3>3. SoundJob(plain, pushed', seeded') /\ SoundJob(retried, pushed', seeded')
      BY <2>1, <2>3, <3>2 DEF SoundJob
    <3>4. QED  BY <1>2, <2>2, <2>3, <3>1, <3>3
  <2>4. CASE StartPod(j)  BY <2>3, <2>4 DEF StartPod
  <2>5. CASE FinishPod(j)
    <3>1. CASE jobs[j].kind = "builder"
      <4>1. PushedIn(jobs[j].image, pushed')
        <5>1. StoredInS3[jobs[j].rev] \in BOOLEAN
          BY <2>1, RevisionAssumption DEF JobRecords
        <5>2. <<jobs[j].image, StoredInS3[jobs[j].rev]>> \in pushed'
          BY <2>5, <3>1 DEF FinishPod
        <5>3. QED  BY <5>1, <5>2 DEF PushedIn
      <4>2. QED  BY <2>3, <2>5, <3>1, <4>1 DEF FinishPod
    <3>2. CASE jobs[j].kind # "builder"
      <4>1. jobs[j].kind = "seeder"  BY <2>1, <3>2 DEF SoundJob
      <4>2. QED  BY <2>3, <2>5, <3>2, <4>1 DEF FinishPod
    <3>3. QED  BY <3>1, <3>2
  <2>6. CASE RecordSuccess(j)
    <3>1. \/ jobs[j].kind = "builder" /\ PushedIn(jobs[j].image, pushed)
          \/ jobs[j].kind = "seeder" /\ jobs[j].model \in seeded
      BY <2>1, <2>6 DEF RecordSuccess, SoundJob
    <3>2. QED  BY <2>3, <2>6, <3>1 DEF RecordSuccess
  <2>7. CASE FailPod(j)
    <3>1. PICK next \in {"Waiting", "Failed"} :
            jobs' = [jobs EXCEPT ![j].phase = next, ![j].failedPods = TRUE]
      BY <2>7 DEF FailPod
    <3>2. QED  BY <2>3, <2>7, <3>1 DEF FailPod
  <2>8. CASE FinalizeJob(j)
    <3>1. SoundJob(NoJob, pushed', seeded')  BY DEF SoundJob
    <3>2. QED  BY <1>2, <2>8, <3>1 DEF FinalizeJob
  <2>9. QED  BY <1>5, <2>4, <2>5, <2>6, <2>7, <2>8
<1>6. QED  BY <1>3, <1>4, <1>5 DEF Environment

-----------------------------------------------------------------------------
LEMMA InitSafe ==
    ASSUME Init
    PROVE  BeliefsAreTrue
<1>1. TrueConditions(NoConditions, pushed, seeded, bento)
  BY NothingClaimed DEF Returned
<1>2. request.conds = NoConditions  BY DEF Init
<1>3. \A m \in Managers : SoundManager(m)
  BY <1>1, <1>2 DEF Init, SoundManager, SoundJob, At, Idle
<1>4. QED  BY <1>1, <1>2, <1>3 DEF BeliefsAreTrue, Init, SoundJob, SoundBento

LEMMA NextSafe ==
    ASSUME TypeOK, BeliefsAreTrue, ~MidReconcileEdits, [Next]_vars
    PROVE  BeliefsAreTrue'
<1>1. ASSUME NEW m \in Managers, Reconcile(m)  PROVE BeliefsAreTrue'
  BY <1>1, ReconcileSafe
<1>2. CASE Environment  BY <1>2, EnvironmentSafe
<1>3. CASE UNCHANGED vars
  BY <1>3 DEF vars, BeliefsAreTrue, SoundManager, At
<1>4. QED  BY <1>1, <1>2, <1>3 DEF Next

(* Every belief of every manager (conditions, cached objects, locals of    *)
(* Reconcile) is true, as long as no edit falls into a Reconcile.          *)
THEOREM BeliefsInvariant ==
    ASSUME ~MidReconcileEdits
    PROVE  Spec => []BeliefsAreTrue
<1>1. Init => TypeOK /\ BeliefsAreTrue  BY InitType, InitSafe
<1>2. TypeOK /\ BeliefsAreTrue /\ [Next]_vars => (TypeOK /\ BeliefsAreTrue)'
  BY NextType, NextSafe
<1>3. QED  BY <1>1, <1>2, PTL DEF Spec

(* A Bento is generated only with a pushed image, the image of its own     *)
(* revision, and with its models seeded, for any number of managers, jobs, *)
(* crashes, failed calls and edits between Reconciles.                     *)
THEOREM BentoIsServable ==
    ASSUME ~MidReconcileEdits
    PROVE  Spec => [](BentoImageBuilt /\ BentoIsOneRevision /\ BentoModelsSeeded)
<1>1. BeliefsAreTrue => BentoImageBuilt /\ BentoIsOneRevision /\ BentoModelsSeeded
  BY DEF BeliefsAreTrue, SoundBento, PushedIn, Built, BentoImageBuilt, BentoIsOneRevision,
         BentoModelsSeeded
<1>2. QED  BY <1>1, BeliefsInvariant, PTL

(* The status conditions never claim an image that was not pushed, models  *)
(* that were not seeded, or a Bento that is not there.                     *)
THEOREM StatusTruthful ==
    ASSUME ~MidReconcileEdits
    PROVE  Spec => []StatusIsTruthful
<1>1. BeliefsAreTrue => StatusIsTruthful
  BY DEF BeliefsAreTrue, TrueConditions, PushedIn, Built, StatusIsTruthful
<1>2. QED  BY <1>1, BeliefsInvariant, PTL

-----------------------------------------------------------------------------
(* BentoRequestReconciler implements BentoGeneration.                      *)

LEMMA SetStatusKeepsRevision ==
    ASSUME TypeOK, NEW m \in Managers, NEW updates, NEW ok, NEW failed,
           SetStatusConditions(m, updates, ok, failed)
    PROVE  request'.rev = request.rev
BY DEF SetStatusConditions, UpdateStatus, TypeOK, Requests

\* A step of Reconcile other than the one that generates the Bento leaves it alone.
LEMMA OnlyCreateBentoGenerates ==
    ASSUME TypeOK, NEW m \in Managers, Reconcile(m), ~CreateBento(m)
    PROVE  request'.rev = request.rev /\ UNCHANGED <<bento, pushed, seeded>>
<1>1. CASE StartReconcile(m) \/ InitConditions(m) \/ HandleError(m)
  BY <1>1 DEF StartReconcile, InitConditions, HandleError, UpdateStatus, clusterVars, TypeOK,
              Requests
<1>2. CASE MarkReconciling(m) \/ AwaitImage(m) \/ AwaitModels(m) \/ SetAvailable(m)
  BY <1>2, SetStatusKeepsRevision
  DEF MarkReconciling, AwaitImage, AwaitModels, SetAvailable, clusterVars
<1>3. CASE ReturnModelsError(m) \/ CleanUpSeeders(m) \/ SkipSeeders(m)
  BY <1>3 DEF ReturnModelsError, CleanUpSeeders, SkipSeeders, clusterVars
<1>4. CASE ensureImageExists(m)
  <2>1. CASE EnterEnsureImageExists(m) \/ RecordImageExists(m) \/ ReportFailedJob(m)
             \/ ReportSucceededJob(m)
    BY <2>1, SetStatusKeepsRevision
    DEF EnterEnsureImageExists, RecordImageExists, ReportFailedJob, ReportSucceededJob, clusterVars
  <2>2. CASE CheckImageExists(m) \/ CreateImageBuilderJob(m) \/ KeepOneJob(m)
    BY <2>2 DEF CheckImageExists, CreateImageBuilderJob, KeepOneJob, clusterVars
  <2>3. CASE DeleteStaleJob(m)
    BY <2>3 DEF DeleteStaleJob, UpdateStatus, TypeOK, Requests
  <2>4. CASE ReportRunningJob(m)
    BY <2>4, SetStatusKeepsRevision DEF ReportRunningJob, UpdateStatus, clusterVars, TypeOK, Requests
  <2>5. QED  BY <1>4, <2>1, <2>2, <2>3, <2>4 DEF ensureImageExists
<1>5. CASE ensureModelsExists(m)
  <2>1. CASE EnterEnsureModelsExists(m) \/ ReportFailedSeeders(m) \/ ReportSeeding(m)
    BY <2>1, SetStatusKeepsRevision
    DEF EnterEnsureModelsExists, ReportFailedSeeders, ReportSeeding, clusterVars
  <2>2. CASE ListSeederJobs(m) \/ DeleteOrphanSeeder(m) \/ StartSeeding(m) \/ CreateSeederJob(m)
    BY <2>2 DEF ListSeederJobs, DeleteOrphanSeeder, StartSeeding, CreateSeederJob, clusterVars
  <2>3. CASE DeleteStaleSeeder(m)
    BY <2>3 DEF DeleteStaleSeeder, UpdateStatus, TypeOK, Requests
  <2>4. QED  BY <1>5, <2>1, <2>2, <2>3 DEF ensureModelsExists
<1>6. QED  BY <1>1, <1>2, <1>3, <1>4, <1>5 DEF Reconcile

(* Reconcile keeps the promise of BentoGeneration: each of its steps       *)
(* generates the wanted Bento when its image and models are there, changes *)
(* what is announced, or is invisible to the users of the Bento.           *)
THEOREM PromiseKept ==
    ASSUME ~MidReconcileEdits
    PROVE  Spec => KeepsPromise
<1>1. Init => Promise!Begin
  <2> SUFFICES ASSUME Init PROVE Promise!Begin
    OBVIOUS
  <2>1. request.rev = InitialRevision /\ bento = NoBento  BY DEF Init
  <2>2. Available = FALSE
    BY DEF Init, Available, NoConditions, ConditionTypes, Cond
  <2>3. QED  BY <2>1, <2>2 DEF Promise!Begin, Generated
<1>2. TypeOK /\ BeliefsAreTrue /\ BeliefsAreTrue' /\ [Next]_vars => [Promise!Act]_Promise!generationVars
  <2> SUFFICES ASSUME TypeOK, BeliefsAreTrue, BeliefsAreTrue', [Next]_vars
               PROVE  [Promise!Act]_Promise!generationVars
    OBVIOUS
  <2> USE DEF Promise!generationVars
  \* The status may say anything that is so.
  <2>1. ASSUME request'.rev = request.rev, UNCHANGED <<bento, pushed, seeded>>
        PROVE  Promise!Announce \/ Promise!Withdraw
    <3>1. Generated' = Generated /\ {image \in Images : Built(image)}' = {image \in Images : Built(image)}
      BY <2>1 DEF Generated, Built
    <3>2. CASE Available'
      <4>1. bento # NoBento
        BY <2>1, <3>2 DEF BeliefsAreTrue, TrueConditions, Available
      <4>2. Generated # {}  BY <4>1 DEF Generated
      <4>3. QED  BY <2>1, <3>1, <3>2, <4>2 DEF Promise!Announce
    <3>3. CASE ~Available'
      BY <2>1, <3>1, <3>3 DEF Promise!Withdraw
    <3>4. QED  BY <3>2, <3>3
  <2>2. ASSUME NEW m \in Managers, Reconcile(m), ~CreateBento(m)
        PROVE  Promise!Act
    BY <2>1, <2>2, OnlyCreateBentoGenerates DEF Promise!Act
  <2>3. ASSUME NEW m \in Managers, CreateBento(m)
        PROVE  [Promise!Act]_Promise!generationVars
    <3>1. CASE UNCHANGED bento
      <4>1. UNCHANGED <<request, pushed, seeded>>  BY <2>3 DEF CreateBento
      <4>2. QED  BY <2>1, <3>1, <4>1 DEF Promise!Act
    <3>2. CASE bento' # bento
      <4>1. /\ UNCHANGED <<request, pushed, seeded>> /\ ~At(m, "idle")
            /\ bento'.rev = BentoRequest(m).rev
        BY <2>3, <3>2 DEF CreateBento, At
      <4>2. bento'.rev = request.rev  BY <4>1, ReadsOwnRevision
      <4>3. bento' # NoBento
        <5>1. NoBento.rev = NoRevision  BY DEF NoBento
        <5>2. request.rev \in Revisions  BY DEF TypeOK, Requests
        <5>3. QED  BY <4>2, <5>1, <5>2, RevisionAssumption
      <4>4. SoundBento(bento', pushed, seeded)  BY <4>1 DEF BeliefsAreTrue
      <4>5. /\ Generated' = {[content |-> request.rev, image |-> ImageName[request.rev]]}
            /\ Available' = Available
            /\ {image \in Images : Built(image)}' = {image \in Images : Built(image)}
        BY <4>1, <4>2, <4>3, <4>4 DEF Generated, SoundBento, Available, Built
      <4>6. ImageName[request.rev] \in {image \in Images : Built(image)}
        <5>1. ImageName[request.rev] \in Images
          BY RevisionAssumption DEF TypeOK, Requests
        <5>2. QED  BY <4>2, <4>3, <4>4, <5>1 DEF SoundBento, PushedIn, Built
      <4>7. ModelsNeeded[request.rev] \subseteq seeded
        <5>1. request.rev \in Revisions  BY DEF TypeOK, Requests
        <5>2. QED  BY <4>2, <4>3, <4>4, <5>1 DEF SoundBento, ModelsNeeded
      <4>9. Promise!Generate
        BY <4>1, <4>5, <4>6, <4>7 DEF Promise!Generate
      <4>10. QED  BY <4>9 DEF Promise!Act
    <3>3. QED  BY <3>1, <3>2
  <2>4. ASSUME NEW rev \in Revisions, Edit(rev)
        PROVE  Promise!Act
    <3>1. /\ request'.rev = rev /\ request'.conds = request.conds
          /\ UNCHANGED <<bento, pushed, seeded>>
      BY <2>4 DEF Edit, TypeOK, Requests
    <3>2. /\ Generated' = Generated /\ Available' = Available
          /\ {image \in Images : Built(image)}' = {image \in Images : Built(image)}
      BY <3>1 DEF Generated, Available, Built
    <3>3. Promise!Want(rev)  BY <3>1, <3>2 DEF Promise!Want
    <3>4. QED  BY <3>3 DEF Promise!Act
  \* Whatever else happens in the cluster.
  <2>5. ASSUME UNCHANGED <<request, bento>>, pushed \subseteq pushed', seeded \subseteq seeded'
        PROVE  Promise!Act
    <3>1. /\ Generated' = Generated /\ Available' = Available
          /\ {image \in Images : Built(image)} \subseteq {image \in Images : Built(image)}'
      BY <2>5 DEF Generated, Available, Built
    <3>2. Promise!Provide  BY <2>5, <3>1 DEF Promise!Provide
    <3>3. QED  BY <3>2 DEF Promise!Act
  <2>6. CASE Environment
    <3>1. ASSUME NEW m \in Managers,
                 SyncRequest(m) \/ SyncJobs(m) \/ SyncPVCs(m) \/ Resync(m) \/ Crash(m)
          PROVE  Promise!Act
      BY <2>5, <3>1 DEF SyncRequest, SyncJobs, SyncPVCs, Resync, Crash
    <3>2. ASSUME NEW j \in JobNames,
                 \/ StartPod(j) \/ FinishPod(j) \/ RecordSuccess(j) \/ FailPod(j)
                 \/ FinalizeJob(j)
          PROVE  Promise!Act
      BY <2>5, <3>2 DEF StartPod, FinishPod, RecordSuccess, FailPod, FinalizeJob
    <3>3. QED  BY <2>4, <2>6, <3>1, <3>2 DEF Environment
  <2>7. CASE UNCHANGED vars
    BY <2>5, <2>7 DEF vars
  <2>8. QED  BY <2>2, <2>3, <2>6, <2>7 DEF Next
<1>3. QED  BY <1>1, <1>2, TypeCorrect, BeliefsInvariant, PTL DEF Spec, KeepsPromise, Promise!GenerationSpec

=============================================================================
