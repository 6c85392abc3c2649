----------------------- MODULE RequestDeletionProofs ------------------------
(***************************************************************************)
(* An available request has its Bento, for any number of requests of one   *)
(* name, whatever their specs and however many calls fail, as long as the  *)
(* user waits for the garbage collector between two of them.               *)
(*                                                                         *)
(* That the Bento is there is not inductive: it may be about to be removed *)
(* as a leftover, and the call that reports it may work for a request that *)
(* is gone.  What rules both out is that a request which was created in    *)
(* peace finds nobody else's traces: the Bento, if there is one, is its    *)
(* own, and so is the call that runs.  Jobs do not matter: a leftover job  *)
(* is only about when the Bento is made.                                   *)
(***************************************************************************)
EXTENDS RequestDeletion, TLAPS

Steps == {"idle", "seed", "image", "models", "bento", "update", "available"}

\* The types the argument depends on: owners are requests of the name, and a call has one.
OwnersTypeOK ==
    /\ created \in 0 .. MaxUID
    /\ request \in [uid : {Absent} \cup UIDs, available : BOOLEAN, models : BOOLEAN]
    /\ worker \in [pc : Steps, uid : {Absent} \cup UIDs, models : BOOLEAN]
    /\ At("idle") \/ worker.uid \in UIDs
    /\ bento.owner \in {Absent} \cup UIDs

\* A request that is not there is not available.
NobodyIsAvailable == request.uid = Absent => ~request.available

\* Nothing but the request's own Bento and the request's own call.
Undisturbed ==
    patient /\ request.uid # Absent =>
        /\ bento.owner \in {Absent, request.uid}
        /\ At("idle") \/ worker.uid = request.uid

\* A call that is about to report the request as available has seen or made the Bento.
ReportsABento == patient /\ request.uid # Absent /\ At("available") => bento.owner # Absent

DeletionInvariant ==
    OwnersTypeOK /\ NobodyIsAvailable /\ Undisturbed /\ ReportsABento /\ AvailableHasBento

-----------------------------------------------------------------------------
\* Neither uid stands for no request.
LEMMA UIDsArePresent == Absent \notin UIDs
  BY DEF Absent, UIDs

LEMMA IdleFacts ==
    /\ Idle \in [pc : Steps, uid : {Absent} \cup UIDs, models : BOOLEAN]
    /\ Idle.pc = "idle"
  BY DEF Idle, Steps

\* The next step of the same call.
LEMMA ToFacts ==
    ASSUME OwnersTypeOK, NEW step \in Steps, To(step)
    PROVE  /\ worker' \in [pc : Steps, uid : {Absent} \cup UIDs, models : BOOLEAN]
           /\ worker'.pc = step /\ worker'.uid = worker.uid
  BY DEF To, OwnersTypeOK

(* A call that goes on works for the request that has the name; otherwise  *)
(* it has ended.                                                           *)
LEMMA WorkerFollowsRequest ==
    ASSUME OwnersTypeOK, NEW step \in Steps, NEW models \in BOOLEAN,
           SetStatus(step, models) \/ Await
    PROVE  /\ worker' \in [pc : Steps, uid : {Absent} \cup UIDs, models : BOOLEAN]
           /\ worker'.pc = "idle" \/ worker'.uid \in UIDs
           /\ worker'.pc \in {"idle", step}
           /\ worker'.pc = "idle" \/ (worker'.uid = request.uid /\ request.uid # Absent)
  <1>1. \/ worker' = Idle
        \/ request.uid # Absent /\ worker' = [pc |-> step, uid |-> request.uid, models |-> models]
    BY DEF SetStatus, Await, Return, ReturnError
  <1>2. CASE worker' = Idle
    BY <1>2, IdleFacts
  <1>3. CASE request.uid # Absent /\ worker' = [pc |-> step, uid |-> request.uid, models |-> models]
    BY <1>3 DEF OwnersTypeOK
  <1> QED  BY <1>1, <1>2, <1>3

(* What a step of Reconcile that neither touches the Bento nor reports the *)
(* request as available has to do to keep the invariant.                   *)
LEMMA CallGoesOn ==
    ASSUME DeletionInvariant, UNCHANGED <<created, bento, patient>>,
           request' \in [uid : {Absent} \cup UIDs, available : BOOLEAN, models : BOOLEAN],
           request'.uid = request.uid, request'.available = request.available,
           worker' \in [pc : Steps, uid : {Absent} \cup UIDs, models : BOOLEAN],
           worker'.pc # "idle" => worker'.uid \in UIDs,
           worker'.pc # "idle" => worker'.uid = request.uid \/ (worker.pc # "idle" /\ worker'.uid = worker.uid),
           worker'.pc = "available" => bento.owner # Absent
    PROVE  DeletionInvariant'
  BY DEF DeletionInvariant, OwnersTypeOK, NobodyIsAvailable, Undisturbed, ReportsABento,
         AvailableHasBento, At

LEMMA InitDeletion ==
    ASSUME Init
    PROVE  DeletionInvariant
  BY DeletionAssumption
  DEF Init, DeletionInvariant, OwnersTypeOK, NobodyIsAvailable, Undisturbed, ReportsABento,
      AvailableHasBento, At, NoRequest, NoBento, Idle, Steps, Absent

-----------------------------------------------------------------------------
(* Reconcile. *)

LEMMA StartReconcileUndisturbed ==
    ASSUME DeletionInvariant, StartReconcile
    PROVE  DeletionInvariant'
  <1>1. /\ worker' \in [pc : Steps, uid : {Absent} \cup UIDs, models : BOOLEAN]
        /\ worker'.pc \in {"idle", "seed", "image"}
        /\ worker'.pc # "idle" => worker'.uid \in UIDs /\ worker'.uid = request.uid
    BY DEF StartReconcile, DeletionInvariant, OwnersTypeOK, Idle, Steps
  <1> QED
    BY <1>1, CallGoesOn DEF StartReconcile, DeletionInvariant, OwnersTypeOK

LEMMA EnsureModelsExistsUndisturbed ==
    ASSUME DeletionInvariant, EnsureModelsExists
    PROVE  DeletionInvariant'
  <1> DEFINE exist == Usable(seeder) /\ seeder.done
  <1>1. OwnersTypeOK /\ exist \in BOOLEAN /\ "image" \in Steps
    BY DEF DeletionInvariant, Steps
  <1>2. /\ request' \in [uid : {Absent} \cup UIDs, available : BOOLEAN, models : BOOLEAN]
        /\ request'.uid = request.uid /\ request'.available = request.available
    BY DEF EnsureModelsExists, DeletionInvariant, OwnersTypeOK
  <1>3. SetStatus("image", exist)  BY DEF EnsureModelsExists
  <1> HIDE DEF exist
  <1>4. /\ worker' \in [pc : Steps, uid : {Absent} \cup UIDs, models : BOOLEAN]
        /\ worker'.pc = "idle" \/ worker'.uid \in UIDs
        /\ worker'.pc \in {"idle", "image"}
        /\ worker'.pc = "idle" \/ worker'.uid = request.uid
    BY <1>1, <1>3, WorkerFollowsRequest
  <1> QED  BY <1>2, <1>4, CallGoesOn DEF EnsureModelsExists

LEMMA EnsureImageExistsUndisturbed ==
    ASSUME DeletionInvariant, EnsureImageExists
    PROVE  DeletionInvariant'
  <1>1. OwnersTypeOK /\ worker.models \in BOOLEAN /\ "models" \in Steps
    BY DEF DeletionInvariant, OwnersTypeOK, Steps
  <1>2. SetStatus("models", worker.models) \/ Await
    BY DEF EnsureImageExists
  <1>3. /\ worker' \in [pc : Steps, uid : {Absent} \cup UIDs, models : BOOLEAN]
        /\ worker'.pc = "idle" \/ worker'.uid \in UIDs
        /\ worker'.pc \in {"idle", "models"}
        /\ worker'.pc = "idle" \/ worker'.uid = request.uid
    BY <1>1, <1>2, WorkerFollowsRequest
  <1> QED
    BY <1>3, CallGoesOn DEF EnsureImageExists, DeletionInvariant, OwnersTypeOK

LEMMA CleanUpUndisturbed ==
    ASSUME DeletionInvariant, CleanUp
    PROVE  DeletionInvariant'
  <1>1. /\ worker' \in [pc : Steps, uid : {Absent} \cup UIDs, models : BOOLEAN]
        /\ worker'.pc \in {"idle", "bento"}
        /\ worker'.pc # "idle" => worker'.uid = worker.uid /\ worker.uid \in UIDs
    <2>1. worker' = Idle \/ To("bento")  BY DEF CleanUp, Await, Return, ReturnError
    <2>2. OwnersTypeOK /\ "bento" \in Steps /\ worker.uid \in UIDs
      BY DEF CleanUp, At, DeletionInvariant, OwnersTypeOK, Steps
    <2>3. CASE worker' = Idle  BY <2>3, IdleFacts
    <2>4. CASE To("bento")  BY <2>2, <2>4, ToFacts
    <2> QED  BY <2>1, <2>3, <2>4
  <1>2. worker.pc # "idle"  BY DEF CleanUp, At
  <1> QED
    BY <1>1, <1>2, CallGoesOn DEF CleanUp, DeletionInvariant, OwnersTypeOK

\* The Bento is made for the request in memory, which the patient user's request is.
LEMMA CreateBentoUndisturbed ==
    ASSUME DeletionInvariant, CreateBento
    PROVE  DeletionInvariant'
  <1>1. worker.uid \in UIDs  BY DEF CreateBento, At, DeletionInvariant, OwnersTypeOK
  <1>2. /\ worker' \in [pc : Steps, uid : {Absent} \cup UIDs, models : BOOLEAN]
        /\ worker'.pc \in {"available", "update"} /\ worker'.uid = worker.uid
    BY DEF CreateBento, To, At, DeletionInvariant, OwnersTypeOK, Steps
  <1>3. /\ bento'.owner \in {bento.owner, worker.uid}
        /\ worker'.pc = "available" => bento'.owner # Absent
        /\ bento.owner # Absent => bento'.owner # Absent
    BY <1>1, <1>2, UIDsArePresent DEF CreateBento, Controller, To, At, DeletionInvariant, OwnersTypeOK
  <1> QED
    BY <1>1, <1>2, <1>3
    DEF CreateBento, At, DeletionInvariant, OwnersTypeOK, NobodyIsAvailable, Undisturbed,
        ReportsABento, AvailableHasBento

LEMMA UpdateBentoUndisturbed ==
    ASSUME DeletionInvariant, UpdateBento
    PROVE  DeletionInvariant'
  <1>1. worker.uid \in UIDs  BY DEF UpdateBento, At, DeletionInvariant, OwnersTypeOK
  <1>2. /\ worker' \in [pc : Steps, uid : {Absent} \cup UIDs, models : BOOLEAN]
        /\ worker'.pc \in {"available", "idle"}
        /\ worker'.pc = "available" => worker'.uid = worker.uid /\ bento.owner # Absent
    <2>1. worker' = Idle \/ (To("available") /\ bento.owner # Absent)
      BY DEF UpdateBento, ReturnError
    <2>2. OwnersTypeOK /\ "available" \in Steps  BY DEF DeletionInvariant, Steps
    <2>3. CASE worker' = Idle  BY <2>3, IdleFacts
    <2>4. CASE To("available") /\ bento.owner # Absent  BY <2>2, <2>4, ToFacts
    <2> QED  BY <2>1, <2>3, <2>4
  <1>3. /\ bento'.owner \in {bento.owner, worker.uid}
        /\ bento.owner # Absent => bento'.owner # Absent
    BY <1>1, UIDsArePresent DEF UpdateBento, Controller
  <1> QED
    BY <1>1, <1>2, <1>3
    DEF UpdateBento, At, DeletionInvariant, OwnersTypeOK, NobodyIsAvailable, Undisturbed,
        ReportsABento, AvailableHasBento

\* The report is made to the request that has the name, and for a patient user that is the call's own.
LEMMA SetAvailableUndisturbed ==
    ASSUME DeletionInvariant, SetAvailable
    PROVE  DeletionInvariant'
  <1>1. worker' = Idle  BY DEF SetAvailable, Await, Return, ReturnError
  <1>2. /\ request' \in [uid : {Absent} \cup UIDs, available : BOOLEAN, models : BOOLEAN]
        /\ request'.uid = request.uid
        /\ request.uid = Absent => request' = request
    BY DEF SetAvailable, DeletionInvariant, OwnersTypeOK
  <1>3. UNCHANGED <<created, bento, patient>>  BY DEF SetAvailable
  <1>4. worker' \in [pc : Steps, uid : {Absent} \cup UIDs, models : BOOLEAN] /\ worker'.pc = "idle"
    BY <1>1 DEF Idle, Steps
  <1>5. OwnersTypeOK' /\ NobodyIsAvailable' /\ Undisturbed' /\ ReportsABento'
    BY <1>2, <1>3, <1>4
    DEF DeletionInvariant, OwnersTypeOK, NobodyIsAvailable, Undisturbed, ReportsABento, At
  <1>6. AvailableHasBento'
    BY <1>2, <1>3 DEF SetAvailable, DeletionInvariant, NobodyIsAvailable, ReportsABento, AvailableHasBento
  <1> QED  BY <1>5, <1>6 DEF DeletionInvariant

LEMMA AbandonUndisturbed ==
    ASSUME DeletionInvariant, Abandon
    PROVE  DeletionInvariant'
  <1>1. worker' \in [pc : Steps, uid : {Absent} \cup UIDs, models : BOOLEAN] /\ worker'.pc = "idle"
    BY DEF Abandon, ReturnError, Idle, Steps
  <1> QED
    BY <1>1, CallGoesOn DEF Abandon, DeletionInvariant, OwnersTypeOK

-----------------------------------------------------------------------------
(* The user and the garbage collector. *)

\* A patient user finds no Bento and no call: what there was has been collected.
LEMMA CreateRequestUndisturbed ==
    ASSUME DeletionInvariant, CreateRequest
    PROVE  DeletionInvariant'
  <1>1. /\ created' \in 0 .. MaxUID
        /\ request' \in [uid : {Absent} \cup UIDs, available : BOOLEAN, models : BOOLEAN]
        /\ request'.uid = created + 1
        /\ request'.available = FALSE
    <2>1. created' = created + 1 /\ created + 1 \in UIDs /\ created' \in 0 .. MaxUID
      BY DeletionAssumption DEF CreateRequest, UIDs, DeletionInvariant, OwnersTypeOK
    <2>2. request' = [uid |-> created + 1, available |-> FALSE, models |-> FALSE]
      BY DEF CreateRequest, NoRequest
    <2> QED  BY <2>1, <2>2
  <1>2. UNCHANGED <<bento, worker, patient>>  BY DEF CreateRequest
  <1>3. patient => At("idle") /\ ~Leftover(bento.owner) /\ request.uid = Absent
    BY DEF CreateRequest, Collected
  <1>4. patient => bento.owner = Absent
    BY <1>3, UIDsArePresent DEF Leftover, DeletionInvariant, OwnersTypeOK
  <1> QED
    BY <1>1, <1>2, <1>3, <1>4
    DEF DeletionInvariant, OwnersTypeOK, NobodyIsAvailable, Undisturbed, ReportsABento,
        AvailableHasBento, At

LEMMA DeleteRequestUndisturbed ==
    ASSUME DeletionInvariant, DeleteRequest
    PROVE  DeletionInvariant'
  BY DEF DeleteRequest, NoRequest, DeletionInvariant, OwnersTypeOK, NobodyIsAvailable, Undisturbed,
         ReportsABento, AvailableHasBento, At, Absent

\* The Bento of the request that has the name is no leftover.
LEMMA ClusterUndisturbed ==
    ASSUME DeletionInvariant, Cluster
    PROVE  DeletionInvariant'
  <1>1. UNCHANGED <<request, created, worker, patient>>
    BY DEF Cluster, FinishJob, FinishSeeder, CollectJob, CollectSeeder, CollectBento
  <1>2. \/ UNCHANGED bento
        \/ bento' = NoBento /\ bento.owner \in UIDs /\ bento.owner # request.uid
    BY DEF Cluster, FinishJob, FinishSeeder, CollectJob, CollectSeeder, CollectBento, Leftover
  <1>3. CASE UNCHANGED bento
    BY <1>1, <1>3
    DEF DeletionInvariant, OwnersTypeOK, NobodyIsAvailable, Undisturbed, ReportsABento,
        AvailableHasBento, At
  <1>4. CASE bento' = NoBento /\ bento.owner \in UIDs /\ bento.owner # request.uid
    <2>1. patient => request.uid = Absent
      BY <1>4, UIDsArePresent DEF DeletionInvariant, Undisturbed
    <2> QED
      BY <1>1, <1>4, <2>1
      DEF DeletionInvariant, OwnersTypeOK, NobodyIsAvailable, Undisturbed, ReportsABento,
          AvailableHasBento, At, NoBento
  <1> QED  BY <1>2, <1>3, <1>4

-----------------------------------------------------------------------------
(* A request that is reported as available has its Bento, and that Bento   *)
(* is the request's own, in every behaviour in which the user waits until  *)
(* what an earlier request of the name left behind is gone.                *)
THEOREM AvailableRequestsHaveBento == FairSpec => [](Undisturbed /\ AvailableHasBento)
  <1>1. Init => DeletionInvariant  BY InitDeletion
  <1>2. DeletionInvariant /\ [Next]_vars => DeletionInvariant'
    <2>1. SUFFICES ASSUME DeletionInvariant, [Next]_vars
                   PROVE  DeletionInvariant'
      OBVIOUS
    <2>2. CASE StartReconcile  BY <2>1, <2>2, StartReconcileUndisturbed
    <2>3. CASE EnsureModelsExists  BY <2>1, <2>3, EnsureModelsExistsUndisturbed
    <2>4. CASE EnsureImageExists  BY <2>1, <2>4, EnsureImageExistsUndisturbed
    <2>5. CASE CleanUp  BY <2>1, <2>5, CleanUpUndisturbed
    <2>6. CASE CreateBento  BY <2>1, <2>6, CreateBentoUndisturbed
    <2>7. CASE UpdateBento  BY <2>1, <2>7, UpdateBentoUndisturbed
    <2>8. CASE SetAvailable  BY <2>1, <2>8, SetAvailableUndisturbed
    <2>9. CASE Abandon  BY <2>1, <2>9, AbandonUndisturbed
    <2>10. CASE CreateRequest  BY <2>1, <2>10, CreateRequestUndisturbed
    <2>11. CASE DeleteRequest  BY <2>1, <2>11, DeleteRequestUndisturbed
    <2>12. CASE Cluster  BY <2>1, <2>12, ClusterUndisturbed
    <2>13. CASE UNCHANGED vars
      BY <2>1, <2>13
      DEF vars, DeletionInvariant, OwnersTypeOK, NobodyIsAvailable, Undisturbed, ReportsABento,
          AvailableHasBento, At
    <2> QED
      BY <2>1, <2>2, <2>3, <2>4, <2>5, <2>6, <2>7, <2>8, <2>9, <2>10, <2>11, <2>12, <2>13
      DEF Next, Reconcile
  <1>3. DeletionInvariant => Undisturbed /\ AvailableHasBento  BY DEF DeletionInvariant
  <1> QED  BY <1>1, <1>2, <1>3, PTL DEF FairSpec
=============================================================================
