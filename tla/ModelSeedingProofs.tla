------------------------- MODULE ModelSeedingProofs --------------------------
(***************************************************************************)
(* Proofs about ModelSeeding: whatever requests, models and namespaces     *)
(* there are, and however often calls fail and pods die, a model that is   *)
(* announced as seeded is whole, provided that no two requests seed one    *)
(* directory.                                                              *)
(***************************************************************************)
EXTENDS ModelSeeding, TLAPS

Writing == {"download", "extract", "extracting", "touch"}

(* How far each pod has come, against what the volume holds.               *)
PodsAreRight ==
    \A r \in Requests, m \in Models :
        /\ seeder[r][m].step \in Writing => ~marker[Place(r, m)]
        /\ seeder[r][m].step = "extracting" => content[Place(r, m)] = r
        /\ seeder[r][m].step = "touch" => content[Place(r, m)] = "whole"
        /\ seeder[r][m].step \in {"exit", "succeeded"} => marker[Place(r, m)]

MarkedIsWhole == \A p \in Places : marker[p] => content[p] = "whole"

RecordedIsMarked == \A r \in Requests : recorded[r] => \A m \in ModelsOf[r] : marker[Place(r, m)]

WorkerIsRight ==
    worker = Idle \/ /\ worker.request \in Requests
                     /\ worker.pc \in {"seed", "job"} => ~recorded[worker.request]

SeedingInvariant ==
    SeedingTypeOK /\ PodsAreRight /\ MarkedIsWhole /\ RecordedIsMarked /\ WorkerIsRight

-----------------------------------------------------------------------------
\* The places and claims of requests are among the known ones.
LEMMA Located ==
    ASSUME NEW r \in Requests, NEW m \in Models
    PROVE  Place(r, m) \in Places /\ Claim(r, m) \in Claims
  BY DEF Places, Claims

\* Replacing one seeder job by another keeps the type of all.
LEMMA SeedersUpdated ==
    ASSUME NEW f \in Seeders, NEW r \in Requests, NEW m \in Models,
           NEW j \in [step : Steps, failures : Nat]
    PROVE  [f EXCEPT ![r][m] = j] \in Seeders
  <1>1. [f[r] EXCEPT ![m] = j] \in [Models -> [step : Steps, failures : Nat]]
    BY DEF Seeders
  <1> QED BY <1>1 DEF Seeders

\* A seeder moves to another step and keeps its type.
LEMMA GoType ==
    ASSUME SeedingTypeOK, NEW r \in Requests, NEW m \in Models, NEW s \in Steps, Go(r, m, s)
    PROVE  seeder' \in Seeders
  <1>0. seeder \in Seeders /\ seeder[r][m] \in [step : Steps, failures : Nat]
    BY DEF SeedingTypeOK, Seeders
  <1>1. [seeder[r][m] EXCEPT !.step = s] \in [step : Steps, failures : Nat]
    BY <1>0
  <1>2. seeder' = [seeder EXCEPT ![r][m] = [seeder[r][m] EXCEPT !.step = s]]
    BY DEF Go
  <1> QED BY <1>0, <1>1, <1>2, SeedersUpdated

\* Only the seeder that moves changes, and only its step.
LEMMA GoElsewhere ==
    ASSUME SeedingTypeOK, NEW r \in Requests, NEW m \in Models, NEW s \in Steps, Go(r, m, s),
           NEW q \in Requests, NEW n \in Models
    PROVE  seeder'[q][n].step = IF q = r /\ n = m THEN s ELSE seeder[q][n].step
  BY DEF SeedingTypeOK, Go, Seeders

\* The initial states satisfy the invariant.
LEMMA InitSeeding == Init => SeedingInvariant
  <1> SUFFICES ASSUME Init PROVE SeedingInvariant OBVIOUS
  <1>1. SeedingTypeOK
    BY SeedingAssumption DEF Init, SeedingTypeOK, Seeders, Calls, NoSeeder, Idle, Steps, Running
  <1>2. PodsAreRight
    BY DEF Init, PodsAreRight, NoSeeder, Writing
  <1>3. MarkedIsWhole /\ RecordedIsMarked /\ WorkerIsRight
    BY DEF Init, MarkedIsWhole, RecordedIsMarked, WorkerIsRight
  <1> QED BY <1>1, <1>2, <1>3 DEF SeedingInvariant

-----------------------------------------------------------------------------
(* Type correctness, action by action.  WorkerIsRight says that the        *)
(* request of a call is a request.                                         *)

\* The worker's steps keep the types.
LEMMA ReconcileType ==
    ASSUME SeedingTypeOK, WorkerIsRight, Reconcile
    PROVE  SeedingTypeOK'
  <1>a. ModelsOf \in [Requests -> SUBSET Models]
    BY SeedingAssumption
  <1>b. worker # Idle => worker.request \in Requests
    BY DEF WorkerIsRight
  <1>1. CASE Abandon
    BY <1>1, <1>b, SeedingAssumption DEF Abandon, Fault, SeedingTypeOK, Calls, Idle, podVars, requestVars
  <1>2. CASE CreateSeederJob
    <2>1. PICK m \in worker.todo :
            LET now == [seeder[worker.request] EXCEPT ![m] = [NoSeeder EXCEPT !.step = "pending"]] IN
            /\ seeder' = [seeder EXCEPT ![worker.request] = now]
            /\ worker' = [worker EXCEPT !.pc = "seed",
                             !.todo = {n \in ModelsOf[worker.request] : now[n].step = "none"}]
      BY <1>2 DEF CreateSeederJob
    <2>2. worker.request \in Requests /\ m \in Models
      BY <1>2, <1>b DEF CreateSeederJob, Idle, SeedingTypeOK, Calls
    <2>3. seeder' \in Seeders
      BY <2>1, <2>2 DEF SeedingTypeOK, Seeders, NoSeeder, Steps
    <2>4. worker' \in Calls
      BY <2>1, <2>2, <1>a DEF SeedingTypeOK, Calls
    <2> QED BY <2>3, <2>4, <1>2 DEF CreateSeederJob, SeedingTypeOK, podVars, requestVars
  <1>3. CASE ReportSeeding
    BY <1>3 DEF ReportSeeding, SeedingTypeOK, Calls, podVars, requestVars
  <1>4. CASE CheckImage
    <2>1. worker.request \in Requests
      BY <1>4, <1>b DEF CheckImage, Idle
    <2>2. ModelsOf[worker.request] \in SUBSET Models
      BY <2>1, <1>a
    <2>3. worker' \in Calls
      BY <1>4, <2>2 DEF CheckImage, SeedingTypeOK, Calls, Idle
    <2>4. queue' \subseteq Requests
      BY <1>4, <2>1 DEF CheckImage, SeedingTypeOK
    <2> QED BY <1>4, <2>3, <2>4 DEF CheckImage, SeedingTypeOK, podVars, requestVars
  <1>5. CASE GenerateBento
    BY <1>5 DEF GenerateBento, SeedingTypeOK, Calls, Idle, podVars, requestVars
  <1>6. ASSUME NEW m \in Models, EnsureModelPVC(m) PROVE SeedingTypeOK'
    BY <1>6 DEF EnsureModelPVC, SeedingTypeOK, Calls, podVars, requestVars
  <1>7. ASSUME NEW m \in Models, CleanUp(m) PROVE SeedingTypeOK'
    <2>1. seeder' \in Seeders
      <3>1. worker.request \in Requests /\ seeder \in Seeders
        BY <1>7, <1>b DEF CleanUp, Idle, SeedingTypeOK
      <3>2. NoSeeder \in [step : Steps, failures : Nat]
        BY DEF NoSeeder, Steps
      <3>3. seeder' \in {seeder, [seeder EXCEPT ![worker.request][m] = NoSeeder]}
        BY <1>7 DEF CleanUp
      <3> QED BY <3>1, <3>2, <3>3, SeedersUpdated
    <2>2. claims' \in [Claims -> {"absent", "bound", "terminating"}]
      BY <1>7 DEF CleanUp, SeedingTypeOK, Deleted
    <2>3. faults' \in 0 .. MaxFaults
      BY <1>7, SeedingAssumption DEF CleanUp, SeedingTypeOK, Fault, Healthy
    <2> QED BY <1>7, <2>1, <2>2, <2>3 DEF CleanUp, SeedingTypeOK, Calls, podVars, requestVars
  <1> QED BY <1>1, <1>2, <1>3, <1>4, <1>5, <1>6, <1>7 DEF Reconcile

\* The steps of pods keep the types.
LEMMA PodType ==
    ASSUME SeedingTypeOK, NEW r \in Requests, NEW m \in Models, RunPod(r, m) \/ PodDies(r, m)
    PROVE  SeedingTypeOK'
  <1>1. CASE SchedulePod(r, m)
    <2>1. Go(r, m, "check") /\ "check" \in Steps BY <1>1 DEF SchedulePod, Steps, Running
    <2> QED BY <2>1, <1>1, GoType DEF SchedulePod, SeedingTypeOK, podVars, requestVars
  <1>2. CASE CheckMarker(r, m)
    <2>1. \E s \in Steps : Go(r, m, s) BY <1>2 DEF CheckMarker, Steps, Running
    <2> QED BY <2>1, <1>2, GoType DEF CheckMarker, SeedingTypeOK, podVars, requestVars
  <1>3. CASE Download(r, m)
    <2>1. \E s \in Steps : Go(r, m, s) BY <1>3 DEF Download, Steps, Running
    <2> QED BY <2>1, <1>3, GoType DEF Download, SeedingTypeOK, podVars, requestVars
  <1>4. CASE BeginExtract(r, m)
    <2>1. Go(r, m, "extracting") /\ "extracting" \in Steps BY <1>4 DEF BeginExtract, Steps, Running
    <2> QED BY <2>1, <1>4, GoType DEF BeginExtract, SeedingTypeOK, podVars, requestVars
  <1>5. CASE EndExtract(r, m)
    <2>1. Go(r, m, "touch") /\ "touch" \in Steps BY <1>5 DEF EndExtract, Steps, Running
    <2> QED BY <2>1, <1>5, GoType DEF EndExtract, SeedingTypeOK, podVars, requestVars
  <1>6. CASE TouchMarker(r, m)
    <2>1. Go(r, m, "exit") /\ "exit" \in Steps BY <1>6 DEF TouchMarker, Steps, Running
    <2> QED BY <2>1, <1>6, GoType DEF TouchMarker, SeedingTypeOK, podVars, requestVars
  <1>7. CASE ExitPod(r, m)
    <2>1. Go(r, m, "succeeded") /\ "succeeded" \in Steps BY <1>7 DEF ExitPod, Steps, Running
    <2> QED BY <2>1, <1>7, GoType DEF ExitPod, WakeUp, SeedingTypeOK, podVars, requestVars
  <1>8. CASE PodDies(r, m)
    <2>1. seeder' \in Seeders
      <3>1. seeder \in Seeders /\ seeder[r][m] \in [step : Steps, failures : Nat]
        BY DEF SeedingTypeOK, Seeders
      <3>2. [step |-> IF seeder[r][m].failures = 0 THEN "pending" ELSE "failed",
             failures |-> seeder[r][m].failures + 1] \in [step : Steps, failures : Nat]
        BY <3>1 DEF Steps
      <3>3. seeder' = [seeder EXCEPT ![r][m] =
                          [step |-> IF seeder[r][m].failures = 0 THEN "pending" ELSE "failed",
                           failures |-> seeder[r][m].failures + 1]]
        BY <1>8, <3>1 DEF PodDies, Seeders
      <3> QED BY <3>1, <3>2, <3>3, SeedersUpdated
    <2> QED BY <2>1, <1>8, SeedingAssumption
            DEF PodDies, Fault, WakeUp, SeedingTypeOK, podVars, requestVars
  <1> QED BY <1>1, <1>2, <1>3, <1>4, <1>5, <1>6, <1>7, <1>8 DEF RunPod

\* Every step keeps the types.
LEMMA NextType ==
    ASSUME SeedingTypeOK, WorkerIsRight, [Next]_vars
    PROVE  SeedingTypeOK'
  <1>1. CASE Reconcile BY <1>1, ReconcileType
  <1>2. ASSUME NEW r \in Requests, StartReconcile(r) PROVE SeedingTypeOK'
    BY <1>2, SeedingAssumption DEF StartReconcile, SeedingTypeOK, Calls, Idle, podVars, requestVars
  <1>3. ASSUME NEW r \in Requests, FinishBuild(r) PROVE SeedingTypeOK'
    BY <1>3 DEF FinishBuild, SeedingTypeOK, podVars, requestVars
  <1>4. ASSUME NEW r \in Requests, NEW m \in Models, RunPod(r, m) \/ PodDies(r, m)
        PROVE  SeedingTypeOK'
    BY <1>4, PodType
  <1>5. ASSUME NEW c \in Claims, ReleaseClaim(c) PROVE SeedingTypeOK'
    BY <1>5 DEF ReleaseClaim, SeedingTypeOK, podVars, requestVars
  <1>6. CASE UNCHANGED vars
    BY <1>6 DEF vars, SeedingTypeOK
  <1> QED BY <1>1, <1>2, <1>3, <1>4, <1>5, <1>6 DEF Next

-----------------------------------------------------------------------------
(* What pods have done and what the volume holds, action by action.  The   *)
(* steps of other seeders and the contents of other places are untouched   *)
(* because no two seeders share a place.                                   *)

VolumeIsRight == PodsAreRight /\ MarkedIsWhole /\ RecordedIsMarked

\* Markers are never taken away, so what is recorded stays marked.
LEMMA MarkersStay ==
    ASSUME RecordedIsMarked, UNCHANGED recorded, \A p \in Places : marker[p] => marker'[p],
           ModelsOf \in [Requests -> SUBSET Models]
    PROVE  RecordedIsMarked'
  BY Located DEF RecordedIsMarked

\* A step that leaves the volume alone and moves no pod to a step it has not earned.
LEMMA PodsWithoutVolume ==
    ASSUME VolumeIsRight, UNCHANGED <<content, marker, recorded>>,
           \A r \in Requests, m \in Models :
              \/ seeder'[r][m].step = seeder[r][m].step
              \/ seeder'[r][m].step \in {"none", "pending", "failed", "check"}
    PROVE  VolumeIsRight'
  BY DEF VolumeIsRight, PodsAreRight, MarkedIsWhole, RecordedIsMarked, Writing

\* The script's steps keep the invariant.
LEMMA ScriptVolume ==
    ASSUME ExclusivePlaces, SeedingTypeOK, VolumeIsRight,
           NEW r \in Requests, NEW m \in Models, RunPod(r, m)
    PROVE  VolumeIsRight'
  <1> DEFINE p == Place(r, m)
  <1>a. p \in Places /\ r \notin {"none", "whole"} /\ ModelsOf \in [Requests -> SUBSET Models]
    BY Located, SeedingAssumption
  <1>b. \A q \in Requests, n \in Models : Place(q, n) \in Places /\ (Place(q, n) = p => q = r /\ n = m)
    BY Located DEF ExclusivePlaces
  <1>c. ASSUME NEW s \in Steps, Go(r, m, s), NEW q \in Requests, NEW n \in Models
        PROVE  seeder'[q][n].step = IF q = r /\ n = m THEN s ELSE seeder[q][n].step
    BY <1>c, GoElsewhere
  <1>t. content \in [Places -> {"none", "whole"} \cup Requests] /\ marker \in [Places -> BOOLEAN]
    BY DEF SeedingTypeOK
  <1> HIDE DEF p
  <1>1. CASE SchedulePod(r, m)
    <2>1. Go(r, m, "check") /\ "check" \in Steps BY <1>1 DEF SchedulePod, Steps, Running
    <2>2. UNCHANGED <<content, marker, recorded>>
      BY <1>1 DEF SchedulePod, podVars, requestVars
    <2> QED BY <2>1, <2>2, <1>c, PodsWithoutVolume
  <1>2. CASE CheckMarker(r, m)
    <2>1. PICK s \in Steps : s = (IF marker[p] THEN "exit" ELSE "download") /\ Go(r, m, s)
      BY <1>2 DEF CheckMarker, Steps, Running, p
    <2>2. UNCHANGED <<content, marker, recorded>>
      BY <1>2 DEF CheckMarker, podVars, requestVars
    <2>3. PodsAreRight'
      BY <2>1, <2>2, <1>c DEF VolumeIsRight, PodsAreRight, Writing, p
    <2> QED BY <2>2, <2>3 DEF VolumeIsRight, MarkedIsWhole, RecordedIsMarked
  <1>3. CASE Download(r, m)
    <2>1. PICK s \in Steps : /\ Go(r, m, s)
                             /\ \/ s = "touch" /\ content' = [content EXCEPT ![p] = "whole"]
                                \/ s = "extract" /\ content' = content
      BY <1>3 DEF Download, Steps, Running, p
    <2>2. UNCHANGED <<marker, recorded>> /\ seeder[r][m].step = "download"
      BY <1>3 DEF Download, At, requestVars
    <2>3. ~marker[p]
      BY <2>2 DEF VolumeIsRight, PodsAreRight, Writing, p
    <2>4. PodsAreRight'
      BY <2>1, <2>2, <2>3, <1>a, <1>b, <1>c, <1>t DEF VolumeIsRight, PodsAreRight, Writing, p
    <2>5. MarkedIsWhole'
      BY <2>1, <2>2, <2>3, <1>a, <1>t DEF VolumeIsRight, MarkedIsWhole
    <2> QED BY <2>2, <2>4, <2>5 DEF VolumeIsRight, RecordedIsMarked
  <1>4. CASE BeginExtract(r, m)
    <2>1. Go(r, m, "extracting") /\ "extracting" \in Steps /\ content' = [content EXCEPT ![p] = r]
      BY <1>4 DEF BeginExtract, Steps, Running, p
    <2>2. UNCHANGED <<marker, recorded>> /\ seeder[r][m].step = "extract"
      BY <1>4 DEF BeginExtract, At, requestVars
    <2>3. ~marker[p]
      BY <2>2 DEF VolumeIsRight, PodsAreRight, Writing, p
    <2>4. PodsAreRight'
      BY <2>1, <2>2, <2>3, <1>a, <1>b, <1>c, <1>t DEF VolumeIsRight, PodsAreRight, Writing, p
    <2>5. MarkedIsWhole'
      BY <2>1, <2>2, <2>3, <1>a, <1>t DEF VolumeIsRight, MarkedIsWhole
    <2> QED BY <2>2, <2>4, <2>5 DEF VolumeIsRight, RecordedIsMarked
  <1>5. CASE EndExtract(r, m)
    <2>2. UNCHANGED <<marker, recorded>> /\ seeder[r][m].step = "extracting"
      BY <1>5 DEF EndExtract, At, requestVars
    <2>3. ~marker[p] /\ content[p] = r
      BY <2>2 DEF VolumeIsRight, PodsAreRight, Writing, p
    <2>1. Go(r, m, "touch") /\ "touch" \in Steps /\ content' = [content EXCEPT ![p] = "whole"]
      BY <1>5, <2>3 DEF EndExtract, Steps, Running, p
    <2>4. PodsAreRight'
      BY <2>1, <2>2, <2>3, <1>a, <1>b, <1>c, <1>t DEF VolumeIsRight, PodsAreRight, Writing, p
    <2>5. MarkedIsWhole'
      BY <2>1, <2>2, <2>3, <1>a, <1>t DEF VolumeIsRight, MarkedIsWhole
    <2> QED BY <2>2, <2>4, <2>5 DEF VolumeIsRight, RecordedIsMarked
  <1>6. CASE TouchMarker(r, m)
    <2>1. Go(r, m, "exit") /\ "exit" \in Steps /\ marker' = [marker EXCEPT ![p] = TRUE]
      BY <1>6 DEF TouchMarker, Steps, Running, p
    <2>2. UNCHANGED <<content, recorded>> /\ seeder[r][m].step = "touch"
      BY <1>6 DEF TouchMarker, At, requestVars
    <2>3. content[p] = "whole"
      BY <2>2 DEF VolumeIsRight, PodsAreRight, p
    <2>4. PodsAreRight'
      BY <2>1, <2>2, <2>3, <1>a, <1>b, <1>c, <1>t DEF VolumeIsRight, PodsAreRight, Writing, p
    <2>5. MarkedIsWhole'
      BY <2>1, <2>2, <2>3, <1>a, <1>t DEF VolumeIsRight, MarkedIsWhole
    <2>6. \A x \in Places : marker[x] => marker'[x]
      BY <2>1, <1>t
    <2>7. RecordedIsMarked'
      BY <2>2, <2>6, <1>a, MarkersStay DEF VolumeIsRight
    <2> QED BY <2>4, <2>5, <2>7 DEF VolumeIsRight
  <1>7. CASE ExitPod(r, m)
    <2>1. Go(r, m, "succeeded") /\ "succeeded" \in Steps BY <1>7 DEF ExitPod, Steps, Running
    <2>2. UNCHANGED <<content, marker, recorded>> /\ seeder[r][m].step = "exit"
      BY <1>7 DEF ExitPod, At, podVars, requestVars
    <2>3. PodsAreRight'
      BY <2>1, <2>2, <1>c DEF VolumeIsRight, PodsAreRight, Writing
    <2> QED BY <2>2, <2>3 DEF VolumeIsRight, MarkedIsWhole, RecordedIsMarked
  <1> QED BY <1>1, <1>2, <1>3, <1>4, <1>5, <1>6, <1>7 DEF RunPod

\* The worker's steps, and everything else, keep the invariant.
LEMMA OtherVolume ==
    ASSUME SeedingInvariant, Next, ~\E r \in Requests, m \in Models : RunPod(r, m)
    PROVE  VolumeIsRight'
  <1>v. VolumeIsRight /\ SeedingTypeOK /\ WorkerIsRight
    BY DEF SeedingInvariant, VolumeIsRight
  <1>1. CASE Abandon
    BY <1>1, <1>v, PodsWithoutVolume DEF Abandon, podVars, requestVars
  <1>2. CASE CreateSeederJob
    <2>1. UNCHANGED <<content, marker, recorded>>
      BY <1>2 DEF CreateSeederJob, podVars, requestVars
    <2>2. PICK m \in worker.todo :
             seeder' = [seeder EXCEPT ![worker.request] =
                          [seeder[worker.request] EXCEPT ![m] = [NoSeeder EXCEPT !.step = "pending"]]]
      BY <1>2 DEF CreateSeederJob
    <2>3. \A q \in Requests, n \in Models :
             \/ seeder'[q][n].step = seeder[q][n].step
             \/ seeder'[q][n].step \in {"none", "pending", "failed", "check"}
      BY <2>2, <1>v DEF SeedingTypeOK, Seeders, NoSeeder
    <2> QED BY <2>1, <2>3, <1>v, PodsWithoutVolume
  <1>3. CASE ReportSeeding
    <2>1. UNCHANGED <<content, marker, seeder>>
      BY <1>3 DEF ReportSeeding, podVars
    <2>2. recorded' = [recorded EXCEPT ![worker.request] =
                          FailedPods(worker.request) = {} /\ AllSucceeded(worker.request)]
      BY <1>3 DEF ReportSeeding
    <2>3. ASSUME AllSucceeded(worker.request), worker.request \in Requests
          PROVE  \A m \in ModelsOf[worker.request] : marker[Place(worker.request, m)]
      BY <2>3, <1>v, SeedingAssumption DEF AllSucceeded, VolumeIsRight, PodsAreRight
    <2>4. RecordedIsMarked'
      <3> SUFFICES ASSUME NEW r \in Requests, recorded'[r], NEW m \in ModelsOf[r]
                   PROVE  marker[Place(r, m)]
        BY <2>1 DEF RecordedIsMarked
      <3>1. CASE r = worker.request
        BY <3>1, <2>2, <2>3, <1>v DEF SeedingTypeOK
      <3>2. CASE r # worker.request
        BY <3>2, <2>2, <1>v DEF SeedingTypeOK, VolumeIsRight, RecordedIsMarked
      <3> QED BY <3>1, <3>2
    <2> QED BY <2>1, <2>4, <1>v DEF VolumeIsRight, PodsAreRight, MarkedIsWhole
  <1>4. CASE CheckImage
    BY <1>4, <1>v, PodsWithoutVolume DEF CheckImage, podVars, requestVars
  <1>5. CASE GenerateBento
    BY <1>5, <1>v, PodsWithoutVolume DEF GenerateBento, podVars
  <1>6. ASSUME NEW m \in Models, EnsureModelPVC(m) PROVE VolumeIsRight'
    BY <1>6, <1>v, PodsWithoutVolume DEF EnsureModelPVC, podVars, requestVars
  <1>7. ASSUME NEW m \in Models, CleanUp(m) PROVE VolumeIsRight'
    <2>1. UNCHANGED <<content, marker, recorded>>
      BY <1>7 DEF CleanUp, podVars, requestVars
    <2>2. seeder' \in {seeder, [seeder EXCEPT ![worker.request][m] = NoSeeder]}
      BY <1>7 DEF CleanUp
    <2>3. \A q \in Requests, n \in Models :
             \/ seeder'[q][n].step = seeder[q][n].step
             \/ seeder'[q][n].step \in {"none", "pending", "failed", "check"}
      <3>1. CASE seeder' = seeder
        BY <3>1
      <3>2. CASE seeder' = [seeder EXCEPT ![worker.request][m] = NoSeeder]
        BY <3>2, <1>v DEF SeedingTypeOK, Seeders, NoSeeder
      <3> QED BY <2>2, <3>1, <3>2
    <2> QED BY <2>1, <2>3, <1>v, PodsWithoutVolume
  <1>8. ASSUME NEW r \in Requests, StartReconcile(r) \/ FinishBuild(r) PROVE VolumeIsRight'
    BY <1>8, <1>v, PodsWithoutVolume DEF StartReconcile, FinishBuild, podVars, requestVars
  <1>9. ASSUME NEW r \in Requests, NEW m \in Models, PodDies(r, m) PROVE VolumeIsRight'
    <2>1. UNCHANGED <<content, marker, recorded>>
      BY <1>9 DEF PodDies, podVars, requestVars
    <2>2. \A q \in Requests, n \in Models :
             \/ seeder'[q][n].step = seeder[q][n].step
             \/ seeder'[q][n].step \in {"none", "pending", "failed", "check"}
      BY <1>9, <1>v DEF PodDies, SeedingTypeOK, Seeders
    <2> QED BY <2>1, <2>2, <1>v, PodsWithoutVolume
  <1>10. ASSUME NEW c \in Claims, ReleaseClaim(c) PROVE VolumeIsRight'
    BY <1>10, <1>v, PodsWithoutVolume DEF ReleaseClaim, podVars, requestVars
  <1> QED BY <1>1, <1>2, <1>3, <1>4, <1>5, <1>6, <1>7, <1>8, <1>9, <1>10 DEF Next, Reconcile

\* A call is about a request, and one that seeds is about a request that is not recorded.
LEMMA NextWorker ==
    ASSUME SeedingInvariant, Next
    PROVE  WorkerIsRight'
  <1>v. SeedingTypeOK /\ WorkerIsRight
    BY DEF SeedingInvariant
  <1>1. CASE Abandon
    BY <1>1 DEF Abandon, WorkerIsRight
  <1>2. CASE CreateSeederJob
    BY <1>2, <1>v DEF CreateSeederJob, WorkerIsRight, SeedingTypeOK, Calls, Idle, requestVars
  <1>3. CASE ReportSeeding
    BY <1>3, <1>v DEF ReportSeeding, WorkerIsRight, SeedingTypeOK, Calls, Idle
  <1>4. CASE CheckImage
    BY <1>4, <1>v DEF CheckImage, WorkerIsRight, SeedingTypeOK, Calls, Idle, requestVars
  <1>5. CASE GenerateBento
    BY <1>5 DEF GenerateBento, WorkerIsRight
  <1>6. ASSUME NEW m \in Models, EnsureModelPVC(m) \/ CleanUp(m) PROVE WorkerIsRight'
    <2>1. CASE EnsureModelPVC(m)
      BY <2>1, <1>v DEF EnsureModelPVC, WorkerIsRight, SeedingTypeOK, Calls, Idle, requestVars
    <2>2. CASE CleanUp(m)
      <3>1. worker' = [worker EXCEPT !.todo = @ \ {m}] /\ worker.pc = "clean" /\ recorded' = recorded
        BY <2>2 DEF CleanUp, requestVars
      <3> QED BY <3>1, <1>v DEF WorkerIsRight, SeedingTypeOK, Calls, Idle
    <2> QED BY <1>6, <2>1, <2>2
  <1>7. ASSUME NEW r \in Requests, StartReconcile(r) PROVE WorkerIsRight'
    BY <1>7 DEF StartReconcile, WorkerIsRight, Idle, requestVars
  <1>8. ASSUME UNCHANGED <<worker, recorded>> PROVE WorkerIsRight'
    BY <1>8, <1>v DEF WorkerIsRight
  <1>9. ASSUME NEW r \in Requests, FinishBuild(r) PROVE UNCHANGED <<worker, recorded>>
    BY <1>9 DEF FinishBuild
  <1>10. ASSUME NEW r \in Requests, NEW m \in Models, RunPod(r, m) \/ PodDies(r, m)
         PROVE  UNCHANGED <<worker, recorded>>
    BY <1>10 DEF RunPod, PodDies, SchedulePod, CheckMarker, Download, BeginExtract, EndExtract,
                 TouchMarker, ExitPod, requestVars
  <1>11. ASSUME NEW c \in Claims, ReleaseClaim(c) PROVE UNCHANGED <<worker, recorded>>
    BY <1>11 DEF ReleaseClaim, requestVars
  <1> QED BY <1>1, <1>2, <1>3, <1>4, <1>5, <1>6, <1>7, <1>8, <1>9, <1>10, <1>11 DEF Next, Reconcile

\* Every step keeps the invariant.
LEMMA NextSeeding ==
    ASSUME ExclusivePlaces, SeedingInvariant, [Next]_vars
    PROVE  SeedingInvariant'
  <1>1. SeedingTypeOK'
    BY NextType DEF SeedingInvariant
  <1>2. CASE Next
    <2>1. VolumeIsRight'
      BY <1>2, ScriptVolume, OtherVolume DEF SeedingInvariant, VolumeIsRight
    <2>2. WorkerIsRight'
      BY <1>2, NextWorker
    <2> QED BY <1>1, <2>1, <2>2 DEF SeedingInvariant, VolumeIsRight
  <1>3. CASE UNCHANGED vars
    BY <1>1, <1>3 DEF vars, SeedingInvariant, PodsAreRight, MarkedIsWhole, RecordedIsMarked,
                      WorkerIsRight
  <1> QED BY <1>2, <1>3

\* The invariant gives what the condition promises.
LEMMA InvariantIsEnough == SeedingInvariant => SeededModelsAreWhole
  BY Located, SeedingAssumption
     DEF SeedingInvariant, SeededModelsAreWhole, RecordedIsMarked, MarkedIsWhole, PlacesOf

-----------------------------------------------------------------------------
(* The models of a request whose ModelsExists condition is True are whole  *)
(* on the volume, for any number of requests, models, faults and dead      *)
(* pods, when no two requests seed one directory.                          *)
THEOREM SeededModelsWhole == ExclusivePlaces => (Spec => [](SeedingTypeOK /\ SeededModelsAreWhole))
  <1> SUFFICES ASSUME ExclusivePlaces PROVE Spec => [](SeedingTypeOK /\ SeededModelsAreWhole)
    OBVIOUS
  <1>1. Init => SeedingInvariant
    BY InitSeeding
  <1>2. SeedingInvariant /\ [Next]_vars => SeedingInvariant'
    BY NextSeeding
  <1>3. SeedingInvariant => SeedingTypeOK /\ SeededModelsAreWhole
    BY InvariantIsEnough DEF SeedingInvariant
  <1> QED BY <1>1, <1>2, <1>3, PTL DEF Spec

\* What a step of the script does to the places that are marked and whole.
LEMMA ScriptStores ==
    ASSUME ExclusivePlaces, SeedingInvariant, NEW r \in Requests, NEW m \in Models, RunPod(r, m)
    PROVE  /\ UNCHANGED recorded
           /\ \/ \A p \in Places : (marker'[p] /\ content'[p] = "whole")
                                    <=> (marker[p] /\ content[p] = "whole")
              \/ \A p \in Places : (marker'[p] /\ content'[p] = "whole")
                                    <=> (marker[p] /\ content[p] = "whole") \/ p = Place(r, m)
  <1>t. content \in [Places -> {"none", "whole"} \cup Requests] /\ marker \in [Places -> BOOLEAN]
    BY DEF SeedingInvariant, SeedingTypeOK
  <1>p. Place(r, m) \in Places
    BY Located
  <1>w. seeder[r][m].step \in Writing => ~marker[Place(r, m)]
    BY DEF SeedingInvariant, PodsAreRight
  <1>1. CASE SchedulePod(r, m)
    BY <1>1 DEF SchedulePod, podVars, requestVars
  <1>2. CASE CheckMarker(r, m)
    BY <1>2 DEF CheckMarker, podVars, requestVars
  <1>3. CASE Download(r, m)
    <2>1. ~marker[Place(r, m)] /\ UNCHANGED <<marker, recorded>>
      BY <1>3, <1>w DEF Download, At, Writing, requestVars
    <2>2. \A p \in Places : p # Place(r, m) => content'[p] = content[p]
      BY <1>3, <1>t DEF Download
    <2> QED BY <2>1, <2>2
  <1>4. CASE BeginExtract(r, m)
    <2>1. ~marker[Place(r, m)] /\ UNCHANGED <<marker, recorded>>
      BY <1>4, <1>w DEF BeginExtract, At, Writing, requestVars
    <2>2. \A p \in Places : p # Place(r, m) => content'[p] = content[p]
      BY <1>4, <1>t DEF BeginExtract
    <2> QED BY <2>1, <2>2
  <1>5. CASE EndExtract(r, m)
    <2>1. ~marker[Place(r, m)] /\ UNCHANGED <<marker, recorded>>
      BY <1>5, <1>w DEF EndExtract, At, Writing, requestVars
    <2>2. \A p \in Places : p # Place(r, m) => content'[p] = content[p]
      BY <1>5, <1>t DEF EndExtract
    <2> QED BY <2>1, <2>2
  <1>6. CASE TouchMarker(r, m)
    <2>1. /\ content[Place(r, m)] = "whole" /\ UNCHANGED <<content, recorded>>
          /\ marker' = [marker EXCEPT ![Place(r, m)] = TRUE]
      BY <1>6 DEF TouchMarker, At, SeedingInvariant, PodsAreRight, requestVars
    <2> QED BY <2>1, <1>t, <1>p
  <1>7. CASE ExitPod(r, m)
    BY <1>7 DEF ExitPod, podVars, requestVars
  <1> QED BY <1>1, <1>2, <1>3, <1>4, <1>5, <1>6, <1>7 DEF RunPod

\* Every step is a step of the model store, or leaves it alone.
LEMMA NextStores ==
    ASSUME ExclusivePlaces, SeedingInvariant, [Next]_vars
    PROVE  [Store!Next]_(Store!vars)
  <1> DEFINE Stored == {p \in Places : marker[p] /\ content[p] = "whole"}
             Announced == {r \in Requests : recorded[r]}
  <1>1. ASSUME NEW r \in Requests, NEW m \in Models, RunPod(r, m)
        PROVE  [Store!Next]_(Store!vars)
    <2>1. Announced' = Announced /\ (Stored' = Stored \/ Stored' = Stored \cup {Place(r, m)})
      BY <1>1, ScriptStores, Located
    <2>2. Place(r, m) \in Places
      BY Located
    <2> QED BY <2>1, <2>2 DEF Store!Next, Store!vars, Store!Store
  <1>2. ASSUME UNCHANGED <<marker, content, recorded>> PROVE [Store!Next]_(Store!vars)
    BY <1>2 DEF Store!vars
  <1>3. CASE ReportSeeding
    <2>1. worker.request \in Requests /\ ~recorded[worker.request]
      BY <1>3 DEF ReportSeeding, SeedingInvariant, WorkerIsRight, Idle
    <2>2. UNCHANGED <<marker, content, seeder>> /\ Stored' = Stored
      BY <1>3 DEF ReportSeeding, podVars
    <2>3. CASE ~recorded'[worker.request]
      <3>1. recorded' = recorded
        BY <2>1, <2>3, <1>3 DEF ReportSeeding, SeedingInvariant, SeedingTypeOK
      <3> QED BY <3>1, <2>2, <1>2
    <2>4. CASE recorded'[worker.request]
      <3>1. Announced' = Announced \cup {worker.request}
        BY <2>1, <2>4, <1>3 DEF ReportSeeding, SeedingInvariant, SeedingTypeOK
      <3>2. SeededModelsAreWhole'
        <4>1. SeedingInvariant'
          BY NextSeeding
        <4> QED BY <4>1, InvariantIsEnough, PTL
      <3>3. \A p \in PlacesOf(worker.request) : marker[p] /\ content[p] = "whole"
        BY <3>2, <2>1, <2>2, <2>4 DEF SeededModelsAreWhole, PlacesOf
      <3>4. PlacesOf(worker.request) \subseteq Stored
        BY <3>3, <2>1, Located, SeedingAssumption DEF PlacesOf
      <3> QED BY <3>1, <3>4, <2>1, <2>2 DEF Store!Next, Store!vars, Store!Announce
    <2> QED BY <2>3, <2>4
  <1>4. ASSUME Next, ~ReportSeeding, ~\E r \in Requests, m \in Models : RunPod(r, m)
        PROVE  UNCHANGED <<marker, content, recorded>>
    BY <1>4 DEF Next, Reconcile, Abandon, CreateSeederJob, CheckImage, GenerateBento, EnsureModelPVC,
                CleanUp, StartReconcile, FinishBuild, PodDies, ReleaseClaim, podVars, requestVars
  <1>5. CASE UNCHANGED vars
    BY <1>5, <1>2 DEF vars
  <1> QED BY <1>1, <1>2, <1>3, <1>4, <1>5

(* Seeding implements the abstract model store when no two requests seed   *)
(* one directory: models that are stored stay stored, and a request's      *)
(* models are announced only when all of them are.                         *)
THEOREM SeedingImplementsStore == ExclusivePlaces => (Spec => StoreSpec)
  <1> SUFFICES ASSUME ExclusivePlaces PROVE Spec => StoreSpec
    OBVIOUS
  <1>1. Init => SeedingInvariant
    BY InitSeeding
  <1>2. SeedingInvariant /\ [Next]_vars => SeedingInvariant'
    BY NextSeeding
  <1>3. Init => Store!Init
    BY DEF Init, Store!Init
  <1>4. SeedingInvariant /\ [Next]_vars => [Store!Next]_(Store!vars)
    BY NextStores
  <1> QED BY <1>1, <1>2, <1>3, <1>4, PTL DEF Spec, StoreSpec, Store!Spec
=============================================================================
