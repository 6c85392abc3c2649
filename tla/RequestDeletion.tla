--------------------------- MODULE RequestDeletion ---------------------------
(***************************************************************************)
(* A BentoRequest is deleted, and another one of the same name is created, *)
(* while Reconcile runs and the garbage collector is still about to remove *)
(* what the first one owned.  Reconcile knows a request by its name: every *)
(* status write hands it the object that has the name now.                 *)
(*                                                                         *)
(* An object is represented by the uid of its owner.  The objects of one   *)
(* name have uids 1, 2, ... in their order, and SpecOf gives their specs.  *)
(* Reads are up to date here; see BentoRequestReconciler for caches.       *)
(***************************************************************************)
EXTENDS Naturals

CONSTANTS
    MaxUID,      \* bound on the requests of the name
    SpecOf,      \* [1 .. MaxUID -> specs]: whether a spec is the former one again
    Separate,    \* the specs whose models are kept apart
    MaxFaults    \* bound on failing calls and deaths of the process

ASSUME DeletionAssumption == MaxUID \in Nat /\ MaxFaults \in Nat

VARIABLES
    request,    \* the request there is: its uid or Absent, BentoAvailable and ModelsExists
    created,    \* how many requests there have been
    bento,      \* the Bento: its owner, and the spec it was made from
    job,        \* the builder job: its owner, its spec, and whether it has succeeded
    seeder,     \* the seeder job, likewise
    claim,      \* the owner of the volume claim
    images,     \* the specs whose image is in the registry
    queue,      \* whether the name is in the work queue
    worker,     \* the step of Reconcile, the uid of the request in its memory, and modelsExists
    patient,    \* whether the user waits for the garbage collector before he creates a request
    faults

vars == <<request, created, bento, job, seeder, claim, images, queue, worker, patient, faults>>

UIDs == 1 .. MaxUID
Absent == 0
NoOwner == MaxUID + 1   \* the owner of an object without owner references

NoRequest == [uid |-> Absent, available |-> FALSE, models |-> FALSE]
NoBento == [owner |-> Absent, spec |-> Absent]
NoJob == [owner |-> Absent, spec |-> Absent, done |-> FALSE]
Idle == [pc |-> "idle", uid |-> Absent, models |-> FALSE]

Init ==
    /\ request = NoRequest /\ created = 0
    /\ bento = NoBento /\ job = NoJob /\ seeder = NoJob /\ claim = Absent
    /\ images = {}
    /\ queue = FALSE /\ worker = Idle
    /\ patient \in BOOLEAN
    /\ faults = 0

-----------------------------------------------------------------------------
(* Reconcile. *)

At(step) == worker.pc = step
To(step) == worker' = [worker EXCEPT !.pc = step]
Return == worker' = Idle /\ UNCHANGED queue
ReturnError == worker' = Idle /\ queue' = TRUE

\* A status write: the step goes on with the request of the name, and fails when there is none.
SetStatus(step, models) ==
    IF request.uid = Absent THEN ReturnError
    ELSE worker' = [pc |-> step, uid |-> request.uid, models |-> models] /\ UNCHANGED queue

\* The last status write of a call that waits for a job.
Await == IF request.uid = Absent THEN ReturnError ELSE Return

\* Mutant: the owner reference is not set.
Nobody(uid) == NoOwner

\* SetControllerReference on jobs and Bento.
Controller(uid) == uid

\* Get, and the conditions it starts with; no request, or one that is available, ends the call.
StartReconcile ==
    /\ At("idle") /\ queue
    /\ queue' = FALSE
    /\ worker' = IF request.uid = Absent \/ request.available THEN Idle
                 ELSE [pc |-> IF SpecOf[request.uid] \in Separate /\ ~request.models
                              THEN "seed" ELSE "image",
                       uid |-> request.uid, models |-> request.models]
    /\ UNCHANGED <<request, created, bento, job, seeder, claim, images, patient, faults>>

\* A job that Reconcile makes for the request in its memory.
NewJob == [owner |-> Controller(worker.uid), spec |-> SpecOf[worker.uid], done |-> FALSE]

\* Jobs are listed by labels, whoever owns them, and compared by the hash of the spec.
Usable(j) == j.owner # Absent /\ j.spec = SpecOf[worker.uid]

\* ensureModelsExists; the claim gets no owner reference.
EnsureModelsExists ==
    LET exist == Usable(seeder) /\ seeder.done IN
    /\ At("seed")
    /\ claim' = IF Usable(seeder) \/ claim # Absent THEN claim ELSE NoOwner
    /\ seeder' = IF Usable(seeder) THEN seeder ELSE NewJob
    /\ request' = IF request.uid = Absent THEN request ELSE [request EXCEPT !.models = exist]
    /\ SetStatus("image", exist)
    /\ UNCHANGED <<created, bento, job, images, patient, faults>>

\* ensureImageExists
EnsureImageExists ==
    LET exists == SpecOf[worker.uid] \in images \/ (Usable(job) /\ job.done) IN
    /\ At("image")
    /\ job' = IF exists \/ Usable(job) THEN job ELSE NewJob
    /\ IF exists THEN SetStatus("models", worker.models) ELSE Await
    /\ UNCHANGED <<request, created, bento, seeder, claim, images, patient, faults>>

\* Missing models end the call; models that are there have their job and claim removed.
CleanUp ==
    LET separate == SpecOf[worker.uid] \in Separate IN
    /\ At("models")
    /\ IF separate /\ ~worker.models
       THEN Await /\ UNCHANGED <<seeder, claim>>
       ELSE /\ seeder' = IF separate THEN NoJob ELSE seeder
            /\ claim' = IF separate THEN Absent ELSE claim
            /\ To("bento")
            /\ UNCHANGED queue
    /\ UNCHANGED <<request, created, bento, job, images, patient, faults>>

\* Mutant: the answer to the creation is not looked at.
CreateBentoBlindly ==
    /\ At("bento")
    /\ To("available")
    /\ UNCHANGED <<request, created, bento, job, seeder, claim, images, queue, patient, faults>>

CreateBento ==
    /\ At("bento")
    /\ IF bento.owner = Absent
       THEN bento' = [owner |-> Controller(worker.uid), spec |-> SpecOf[worker.uid]] /\ To("available")
       ELSE UNCHANGED bento /\ To("update")
    /\ UNCHANGED <<request, created, job, seeder, claim, images, queue, patient, faults>>

\* AlreadyExists: spec and owner are replaced, but only when the spec differs.
UpdateBento ==
    /\ At("update")
    /\ IF bento.owner = Absent
       THEN ReturnError /\ UNCHANGED bento
       ELSE /\ bento' = IF bento.spec = SpecOf[worker.uid] THEN bento
                        ELSE [owner |-> Controller(worker.uid), spec |-> SpecOf[worker.uid]]
            /\ To("available")
            /\ UNCHANGED queue
    /\ UNCHANGED <<request, created, job, seeder, claim, images, patient, faults>>

SetAvailable ==
    /\ At("available")
    /\ request' = IF request.uid = Absent THEN request ELSE [request EXCEPT !.available = TRUE]
    /\ Await
    /\ UNCHANGED <<created, bento, job, seeder, claim, images, patient, faults>>

\* Any call fails, or the process dies: the name is queued again.
Abandon ==
    /\ ~At("idle")
    /\ faults < MaxFaults /\ faults' = faults + 1
    /\ ReturnError
    /\ UNCHANGED <<request, created, bento, job, seeder, claim, images, patient>>

Reconcile ==
    \/ StartReconcile \/ EnsureModelsExists \/ EnsureImageExists \/ CleanUp
    \/ CreateBento \/ UpdateBento \/ SetAvailable

-----------------------------------------------------------------------------
(* The user, Kubernetes and the jobs. *)

Leftover(owner) == owner \in UIDs /\ owner # request.uid
Collected == \A owner \in {bento.owner, job.owner, seeder.owner} : ~Leftover(owner)

CreateRequest ==
    /\ request.uid = Absent /\ created < MaxUID
    /\ patient => Collected /\ At("idle") /\ ~queue
    /\ request' = [NoRequest EXCEPT !.uid = created + 1]
    /\ created' = created + 1
    /\ queue' = TRUE
    /\ UNCHANGED <<bento, job, seeder, claim, images, worker, patient, faults>>

DeleteRequest ==
    /\ request.uid # Absent
    /\ request' = NoRequest
    /\ queue' = TRUE
    /\ UNCHANGED <<created, bento, job, seeder, claim, images, worker, patient, faults>>

\* Mutant: jobs are not watched.
IgnoreEvent == UNCHANGED queue

\* An event of an owned object queues the owner, by its name.
OwnedEvent == queue' = TRUE

FinishJob ==
    /\ job.owner # Absent /\ ~job.done
    /\ job' = [job EXCEPT !.done = TRUE]
    /\ images' = images \cup {job.spec}
    /\ OwnedEvent
    /\ UNCHANGED <<request, created, bento, seeder, claim, worker, patient, faults>>

FinishSeeder ==
    /\ seeder.owner # Absent /\ ~seeder.done
    /\ seeder' = [seeder EXCEPT !.done = TRUE]
    /\ OwnedEvent
    /\ UNCHANGED <<request, created, bento, job, claim, images, worker, patient, faults>>

\* The garbage collector removes objects whose owner, by its uid, is gone.
CollectJob ==
    /\ Leftover(job.owner)
    /\ job' = NoJob
    /\ OwnedEvent
    /\ UNCHANGED <<request, created, bento, seeder, claim, images, worker, patient, faults>>

CollectSeeder ==
    /\ Leftover(seeder.owner)
    /\ seeder' = NoJob
    /\ OwnedEvent
    /\ UNCHANGED <<request, created, bento, job, claim, images, worker, patient, faults>>

CollectBento ==
    /\ Leftover(bento.owner)
    /\ bento' = NoBento
    /\ OwnedEvent
    /\ UNCHANGED <<request, created, job, seeder, claim, images, worker, patient, faults>>

Cluster == FinishJob \/ FinishSeeder \/ CollectJob \/ CollectSeeder \/ CollectBento

Next == Reconcile \/ Abandon \/ CreateRequest \/ DeleteRequest \/ Cluster

(* The worker goes on, jobs end and leftovers are collected.  Nobody has   *)
(* to create or delete a request.                                          *)
Fairness ==
    /\ WF_vars(Reconcile) /\ WF_vars(FinishJob) /\ WF_vars(FinishSeeder)
    /\ WF_vars(CollectJob) /\ WF_vars(CollectSeeder) /\ WF_vars(CollectBento)

FairSpec == Init /\ [][Next]_vars /\ Fairness

-----------------------------------------------------------------------------
(* A request that is reported as available has its Bento: none was taken   *)
(* away as a leftover of an earlier request of the name, as long as the    *)
(* user waits until what that one left behind is gone.                     *)
AvailableHasBento == patient /\ request.available => bento.owner # Absent

(* Every request becomes available or is deleted, although it may find the *)
(* jobs of an earlier one, which are stopped and removed under its eyes.   *)
RequestIsServed ==
    \A uid \in UIDs : request.uid = uid ~> (request.uid # uid \/ request.available)

(* When there is no request, the jobs and the Bento that Reconcile made    *)
(* for it go, those that a call made after the deletion included ("Created *)
(* objects are automatically garbage collected").                          *)
OwnedAreCollected ==
    request.uid = Absent ~>
        (request.uid # Absent \/ \A owner \in {bento.owner, job.owner, seeder.owner} : owner = Absent)
=============================================================================
