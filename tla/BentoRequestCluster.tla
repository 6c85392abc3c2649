------------------------- MODULE BentoRequestCluster -------------------------
(***************************************************************************)
(* The cluster one BentoRequest lives in: the API server's objects, the    *)
(* informer caches the image builder's managers read them through, and     *)
(* the steps of everyone but the managers (the user, the Kubernetes job    *)
(* controller and its pods, the informers).  The managers' steps are in    *)
(* EnsureModelsExists, EnsureImageExists and BentoRequestReconciler.       *)
(*                                                                         *)
(* Reads go through a manager's cache, which lags behind the API server;   *)
(* writes go to the API server directly.                                   *)
(***************************************************************************)
EXTENDS Naturals, Sequences

CONSTANTS
    Revisions,          \* contents a user may give the BentoRequest: spec, labels, annotations
    Images, Models,     \* image names, model tags
    JobNames,           \* names of jobs; a bound on the jobs that exist at once
    Managers,           \* running manager processes (two during a rolling update)
    NoRevision, NoImage, NoModel, NoMessage,
    ImageName,          \* getBentoImageName of a revision
    BentoTag,           \* spec.bentoTag of a revision
    ModelTags,          \* the tags of spec.models, in order
    SpecOf,             \* the part of a revision that metadata.generation follows
    SeparateModels, StoredInS3, ForceBuild,     \* annotations
    HasAffinity, HasTimeout,                    \* spec fields that are set
    Versioned,          \* the tags of the form <repository>:<version>
    InitialRevision,
    PushedBefore,       \* images the registry holds from the start
    MidReconcileEdits,  \* may the spec a manager sees change while it reconciles?
    MaxEdits, MaxFaults \* bounds on user edits and on faults

StatusValues == {"Absent", "Unknown", "True", "False"}

ConditionTypes == {"ModelsSeeding", "ImageBuilding", "ImageExists",
                   "ImageExistsChecked", "ModelsExists", "BentoAvailable"}

ASSUME RevisionAssumption ==
    /\ NoRevision \notin Revisions
    /\ InitialRevision \in Revisions
    /\ ImageName \in [Revisions -> Images]
    /\ ModelTags \in [Revisions -> Seq(Models)]
    /\ SeparateModels \in [Revisions -> BOOLEAN]
    /\ StoredInS3 \in [Revisions -> BOOLEAN]
    /\ ForceBuild \in [Revisions -> BOOLEAN]
    /\ HasAffinity \in [Revisions -> BOOLEAN]
    /\ HasTimeout \in [Revisions -> BOOLEAN]

ASSUME NameAssumption ==
    /\ NoImage \notin Images
    /\ NoModel \notin Models
    /\ Versioned \subseteq Models
    /\ PushedBefore \subseteq Images
    /\ MidReconcileEdits \in BOOLEAN
    /\ MaxEdits \in Nat
    /\ MaxFaults \in Nat

VARIABLES
    request,    \* the BentoRequest at the API server
    jobs,       \* the Jobs it owns
    pvcs,       \* the models whose PersistentVolumeClaim exists
    bento,      \* the Bento custom resource of the same name
    pushed,     \* <<image, in S3>> pairs that builder pods have pushed
    seeded,     \* the models that seeder pods have put into the shared file system
    cache,      \* each manager's informer caches
    queue,      \* is the request in the manager's work queue?
    worker,     \* each manager's Reconcile call: its place and its locals
    edits, faults

clusterVars == <<jobs, pvcs, bento, pushed, seeded, edits>>
vars == <<request, jobs, pvcs, bento, pushed, seeded, cache, queue, worker, edits, faults>>

-----------------------------------------------------------------------------
(* Objects. *)

Conditions == [ConditionTypes ->
                  [status : StatusValues,
                   message : Images \cup Seq(Models) \cup {NoMessage}]]

Cond(s) == [status |-> s, message |-> NoMessage]
CondMsg(s, msg) == [status |-> s, message |-> msg]

NoConditions == [c \in ConditionTypes |-> Cond("Absent")]

\* meta.SetStatusCondition for each of the updates.
Apply(conds, updates) ==
    [c \in ConditionTypes |-> IF c \in DOMAIN updates THEN updates[c] ELSE conds[c]]

\* The loop of setStatusConditionsToUnknow over the conditions that are there.
AllUnknown(conds) ==
    [c \in ConditionTypes |->
        IF conds[c].status = "Absent" THEN conds[c] ELSE Cond("Unknown")]

Requests == [rev : Revisions, generation : Nat, conds : Conditions]

ModelsOf(rev) == {ModelTags[rev][i] : i \in DOMAIN ModelTags[rev]}

(* A job keeps what its labels and annotations say: the revision it was    *)
(* generated from, and whether that revision's affinity had already been   *)
(* extended in memory when the hash annotation was computed.               *)
JobKinds == {"builder", "seeder"}
JobPhases == {"Waiting", "Active", "Finished", "Succeeded", "Failed"}
JobRecords ==
    [kind : JobKinds, rev : Revisions, injected : BOOLEAN, image : Images \cup {NoImage},
     model : Models \cup {NoModel}, phase : JobPhases, failedPods : BOOLEAN,
     deleting : BOOLEAN]
Jobs == {job \in JobRecords : IF job.kind = "builder" THEN job.image \in Images
                                                     ELSE job.model \in Models}
NoJob == [kind |-> "builder", rev |-> NoRevision, injected |-> FALSE, image |-> NoImage,
          model |-> NoModel, phase |-> "Waiting", failedPods |-> FALSE, deleting |-> FALSE]

\* Mutant: the image is left out of the job.
BuilderJobWithoutImage(rev, image) == [NoJob EXCEPT !.rev = rev, !.injected = HasAffinity[rev]]

\* Mutant: the request's affinity is extended in memory whether it is set or not.
BuilderJobAlwaysInjected(rev, image) ==
    [NoJob EXCEPT !.rev = rev, !.injected = TRUE, !.image = image]

BuilderJob(rev, image) ==
    [NoJob EXCEPT !.rev = rev, !.injected = HasAffinity[rev], !.image = image]
SeederJob(rev, model) == [NoJob EXCEPT !.kind = "seeder", !.rev = rev, !.model = model]

\* Mutant: the hash annotations of listed jobs are not compared.
HashNeverChanged(job, rev) == FALSE

\* getHashStr(bentoRequest) # the job's hash annotation.
HashChanged(job, rev) == job.rev # rev \/ job.injected

\* The model tag put together again from the job's repository and version labels.
TagOf(job) == IF job.model \in Versioned THEN job.model ELSE NoModel

Bentos == [rev : Revisions, image : Images, separate : BOOLEAN]
NoBento == [rev |-> NoRevision, image |-> NoImage, separate |-> FALSE]

-----------------------------------------------------------------------------
(* Writes of a manager m.                                                  *)

\* A bounded number of things go wrong: conflicts, API and registry errors,
\* pod failures, timeouts, crashes.
Fault == faults < MaxFaults /\ faults' = faults + 1

Returned == [rev |-> NoRevision, generation |-> 0, conds |-> NoConditions]

(* The request as the worker's variable bentoRequest holds it.  Returned   *)
(* stands for the object the last r.Get filled in: that read is made at    *)
(* the worker's next step, from whatever its cache then holds.             *)
BentoRequest(m) == IF worker[m].br = Returned THEN cache[m].request ELSE worker[m].br

\* GenerationChangedPredicate: only spec changes put the request in the queue.
Observe(m) ==
    queue' = [queue EXCEPT ![m] = @ \/ cache[m].request.generation # request.generation]

(* The loop of setStatusConditions.  An Update succeeds when the Get before*)
(* it returned the current version, so the cache has caught up with what   *)
(* is overwritten; after three conflicts or errors nothing has changed.    *)
UpdateStatus(m, conds) ==
    /\ request' = [request EXCEPT !.conds = conds]
    /\ cache' = [cache EXCEPT ![m].request = request]
    /\ Observe(m)

\* A status update, after which the worker is ok, or failed when it could not be made.
SetStatusConditions(m, updates, ok, failed) ==
    \/ /\ UpdateStatus(m, Apply(request.conds, updates))
       /\ worker' = [worker EXCEPT ![m] = ok]
       /\ UNCHANGED faults
    \/ /\ Fault
       /\ worker' = [worker EXCEPT ![m] = failed]
       /\ UNCHANGED <<request, cache, queue>>

\* r.Delete with foreground propagation: the job stays until its pods are gone.
MarkDeleted(names) ==
    jobs' = [j \in JobNames |-> IF j \in names /\ jobs[j] # NoJob
                                THEN [jobs[j] EXCEPT !.deleting = TRUE] ELSE jobs[j]]

Exist(names) == \A j \in names : jobs[j] # NoJob

\* Deleting a job that only the cache still holds fails with NotFound.
DeleteFails(j) == IF Exist({j}) THEN Fault ELSE UNCHANGED faults

\* A new job has a globally unique name: nobody remembers an earlier job by it.
FreshJobNames ==
    {j \in JobNames : /\ jobs[j] = NoJob
                      /\ \A m \in Managers : /\ cache[m].jobs[j] = NoJob
                                             /\ j \notin worker[m].stale \cup worker[m].orphans}

CreateJob(job) == \E j \in FreshJobNames : jobs' = [jobs EXCEPT ![j] = job]

\* The namespace has a quota of as many jobs as there are names.
CreateFails == IF FreshJobNames = {} THEN UNCHANGED faults ELSE Fault

-----------------------------------------------------------------------------
(* Locals of Reconcile and of the two functions it calls.                  *)

Idle == [pc |-> "idle", br |-> Returned,
         separate |-> FALSE,        \* separateModels of Reconcile
         modelsExists |-> FALSE, modelsErr |-> FALSE,
         tags |-> <<>>,             \* modelTags
         stale |-> {}, orphans |-> {}, existing |-> {}, toSeed |-> {},
         image |-> NoImage,         \* imageInfo.ImageName
         listSeparate |-> FALSE,    \* isSeparateModels(opt.bentoRequest)
         imageExists |-> FALSE,
         phase |-> "Waiting"]       \* of the job that is kept

Failing == [Idle EXCEPT !.pc = "fail"]

At(m, pc) == worker[m].pc = pc

-----------------------------------------------------------------------------
(* The user. *)

\* The user replaces the content of the BentoRequest.
Edit(rev) ==
    /\ edits < MaxEdits
    /\ rev # request.rev
    /\ MidReconcileEdits \/ \A m \in Managers : worker[m].pc = "idle"
    /\ request' = [request EXCEPT !.rev = rev,
                                  !.generation = IF SpecOf[rev] = SpecOf[request.rev]
                                                 THEN @ ELSE @ + 1]
    /\ edits' = edits + 1
    /\ UNCHANGED <<jobs, pvcs, bento, pushed, seeded, cache, queue, worker, faults>>

-----------------------------------------------------------------------------
(* The informers of a manager. *)

SyncRequest(m) ==
    /\ cache[m].request # request
    /\ cache' = [cache EXCEPT ![m].request = request]
    /\ Observe(m)
    /\ UNCHANGED <<request, jobs, pvcs, bento, pushed, seeded, worker, edits, faults>>

\* Mutant: the controller does not own jobs.
SyncJobsQuietly(m) ==
    /\ cache[m].jobs # jobs
    /\ cache' = [cache EXCEPT ![m].jobs = jobs]
    /\ UNCHANGED <<request, jobs, pvcs, bento, pushed, seeded, queue, worker, edits, faults>>

\* Mutant: the generation predicate filters the events of jobs too.
SyncNewJobs(m) ==
    /\ cache[m].jobs # jobs
    /\ cache' = [cache EXCEPT ![m].jobs = jobs]
    /\ queue' = [queue EXCEPT ![m] = @ \/ \E j \in JobNames : cache[m].jobs[j] = NoJob /\ jobs[j] # NoJob]
    /\ UNCHANGED <<request, jobs, pvcs, bento, pushed, seeded, worker, edits, faults>>

\* Events of owned jobs always put their owner in the queue.
SyncJobs(m) ==
    /\ cache[m].jobs # jobs
    /\ cache' = [cache EXCEPT ![m].jobs = jobs]
    /\ queue' = [queue EXCEPT ![m] = TRUE]
    /\ UNCHANGED <<request, jobs, pvcs, bento, pushed, seeded, worker, edits, faults>>

SyncPVCs(m) ==
    /\ cache[m].pvcs # pvcs
    /\ cache' = [cache EXCEPT ![m].pvcs = pvcs]
    /\ UNCHANGED <<request, jobs, pvcs, bento, pushed, seeded, queue, worker, edits, faults>>

\* The periodic resync, and late events of owned objects.
Resync(m) ==
    /\ bento # NoBento \/ \E j \in JobNames : cache[m].jobs[j] # NoJob
    /\ worker[m].pc = "idle" /\ ~queue[m]    \* sooner makes no difference
    /\ queue' = [queue EXCEPT ![m] = TRUE]
    /\ UNCHANGED <<request, jobs, pvcs, bento, pushed, seeded, cache, worker, edits, faults>>

-----------------------------------------------------------------------------
(* The job controller and the pods of a job. *)

\* The pod runs; a seeder pod can only mount a claim that exists.
StartPod(j) ==
    /\ jobs[j] # NoJob /\ jobs[j].phase = "Waiting" /\ ~jobs[j].deleting
    /\ jobs[j].kind = "seeder" => jobs[j].model \in pvcs
    /\ jobs' = [jobs EXCEPT ![j].phase = "Active"]
    /\ UNCHANGED <<request, pvcs, bento, pushed, seeded, cache, queue, worker, edits, faults>>

(* The pod has pushed its image, or has touched the model's .exists file,  *)
(* and exits with code 0: it may still do so while its job is deleted.     *)
FinishPod(j) ==
    /\ jobs[j] # NoJob /\ jobs[j].phase = "Active"
    /\ jobs' = [jobs EXCEPT ![j].phase = "Finished"]
    /\ IF jobs[j].kind = "builder"
       THEN /\ pushed' = pushed \cup {<<jobs[j].image, StoredInS3[jobs[j].rev]>>}
            /\ UNCHANGED seeded
       ELSE /\ seeded' = seeded \cup {jobs[j].model}
            /\ UNCHANGED pushed
    /\ UNCHANGED <<request, pvcs, bento, cache, queue, worker, edits, faults>>

RecordSuccess(j) ==
    /\ jobs[j] # NoJob /\ jobs[j].phase = "Finished" /\ ~jobs[j].deleting
    /\ jobs' = [jobs EXCEPT ![j].phase = "Succeeded"]
    /\ UNCHANGED <<request, pvcs, bento, pushed, seeded, cache, queue, worker, edits, faults>>

(* The pod fails.  The job tries another one, or fails: on exit code 42,   *)
(* past the backoff limit, or past ActiveDeadlineSeconds.                  *)
FailPod(j) ==
    /\ jobs[j] # NoJob /\ jobs[j].phase = "Active" /\ ~jobs[j].deleting
    /\ Fault
    /\ \E next \in {"Waiting", "Failed"} :
          jobs' = [jobs EXCEPT ![j].phase = next, ![j].failedPods = TRUE]
    /\ UNCHANGED <<request, pvcs, bento, pushed, seeded, cache, queue, worker, edits>>

\* The pods of a deleted job are gone and so is the job.
FinalizeJob(j) ==
    /\ jobs[j] # NoJob /\ jobs[j].deleting
    /\ jobs' = [jobs EXCEPT ![j] = NoJob]
    /\ UNCHANGED <<request, pvcs, bento, pushed, seeded, cache, queue, worker, edits, faults>>

-----------------------------------------------------------------------------
Init ==
    /\ request = [rev |-> InitialRevision, generation |-> 0, conds |-> NoConditions]
    /\ jobs = [j \in JobNames |-> NoJob]
    /\ pvcs = {} /\ bento = NoBento /\ pushed = PushedBefore \X {FALSE} /\ seeded = {}
    /\ cache = [m \in Managers |-> [request |-> request, jobs |-> jobs, pvcs |-> pvcs]]
    /\ queue = [m \in Managers |-> TRUE]
    /\ worker = [m \in Managers |-> Idle]
    /\ edits = 0 /\ faults = 0

\* A manager crashes and is restarted: it lists everything anew.
Crash(m) ==
    /\ Fault
    /\ worker' = [worker EXCEPT ![m] = Idle]
    /\ cache' = [cache EXCEPT ![m] = [request |-> request, jobs |-> jobs, pvcs |-> pvcs]]
    /\ queue' = [queue EXCEPT ![m] = TRUE]
    /\ UNCHANGED <<request, jobs, pvcs, bento, pushed, seeded, edits>>

Environment ==
    \/ \E rev \in Revisions : Edit(rev)
    \/ \E m \in Managers :
          SyncRequest(m) \/ SyncJobs(m) \/ SyncPVCs(m) \/ Resync(m) \/ Crash(m)
    \/ \E j \in JobNames :
          StartPod(j) \/ FinishPod(j) \/ RecordSuccess(j) \/ FailPod(j) \/ FinalizeJob(j)

=============================================================================
