------------------------ MODULE BuilderSecretsProofs -------------------------
(***************************************************************************)
(* Every builder job refers to existing secrets, for any number of         *)
(* managers, rotations and faults.                                         *)
(***************************************************************************)
EXTENDS BuilderSecrets, TLAPS

(* What a manager believes about secrets holds: one that its cache or its  *)
(* pod template mentions exists.  JobSecretsExist alone is not inductive:  *)
(* a job takes over the references its worker has gathered, and those of   *)
(* regcred and caCert may rest on nothing but the cache.                   *)
SecretsBelieved ==
    /\ SecretsTypeOK
    /\ JobSecretsExist
    /\ \A m \in Managers : /\ \A k \in worker[m].refs : secrets[k] # 0
                           /\ \A k \in Kinds : cache[m].secrets[k] # 0 => secrets[k] # 0

\* The steps that come after a kind's are steps.
LEMMA StepAfterType == \A k \in Kinds : StepAfter(k) \in Steps
BY DEF Kinds, Steps, StepAfter

\* A secret is never removed, and what a manager writes is a version of its source.
LEMMA WriteKeeps ==
    ASSUME SecretsTypeOK, NEW m \in Managers, NEW k \in Kinds, View(m, k) # 0, Write(m, k)
    PROVE  /\ secrets' \in [Kinds -> Nat]
           /\ fresh' \in [Managers -> SUBSET Kinds]
           /\ \A j \in Kinds : secrets[j] # 0 => secrets'[j] # 0
           /\ secrets'[k] # 0
<1>1. View(m, k) \in Nat
  BY DEF SecretsTypeOK, View
<1>2. secrets' = [secrets EXCEPT ![k] = View(m, k)]
  BY DEF Write
<1>3. fresh' \in [Managers -> SUBSET Kinds]
  BY DEF Write, SecretsTypeOK
<1> QED
  BY <1>1, <1>2, <1>3 DEF SecretsTypeOK

\* What every step leaves of the secrets.
SecretsKept ==
    /\ secrets' \in [Kinds -> Nat]
    /\ fresh' \in [Managers -> SUBSET Kinds]
    /\ \A j \in Kinds : secrets[j] # 0 => secrets'[j] # 0
    /\ faults' \in 0..MaxFaults

\* The worker goes on without a reference, with one to an existing secret, or starts anew.
WorkerGoesOn(m, k) ==
    \/ Pass(m, k)
    \/ Refer(m, k) /\ secrets'[k] # 0
    \/ Retry(m)
    \/ worker' = [worker EXCEPT ![m].pc = "getAgain"]
    \/ worker' = [worker EXCEPT ![m].pc = "apiToken"]
    \/ worker' = [worker EXCEPT ![m] = Idle]

\* The invariant survives every step that keeps secrets and goes on in one of these ways.
LEMMA GoesOn ==
    ASSUME SecretsBelieved, NEW m \in Managers, NEW k \in Kinds,
           SecretsKept, WorkerGoesOn(m, k),
           UNCHANGED <<sources, cache, referenced, rotations>>
    PROVE  SecretsBelieved'
<1>1. worker' \in [Managers -> [pc : Steps, wants : SUBSET Kinds, refs : SUBSET Kinds]]
  <2>1. StepAfter(k) \in Steps
    BY StepAfterType
  <2>2. worker \in [Managers -> [pc : Steps, wants : SUBSET Kinds, refs : SUBSET Kinds]]
    BY DEF SecretsBelieved, SecretsTypeOK
  <2>3. {"regcred", "getAgain", "apiToken", "idle"} \subseteq Steps
    BY DEF Steps, Kinds
  <2> QED
    BY <2>1, <2>2, <2>3 DEF WorkerGoesOn, Pass, Refer, Retry, Idle
<1>2. SecretsTypeOK'
  BY <1>1 DEF SecretsBelieved, SecretsTypeOK, SecretsKept
<1>3. JobSecretsExist'
  BY DEF SecretsBelieved, SecretsTypeOK, SecretsKept, JobSecretsExist
<1>4. ASSUME NEW n \in Managers, NEW j \in worker'[n].refs
      PROVE  secrets'[j] # 0
  <2>1. j \in worker[n].refs \/ (j = k /\ secrets'[k] # 0)
    <3>1. worker \in [Managers -> [pc : Steps, wants : SUBSET Kinds, refs : SUBSET Kinds]]
      BY DEF SecretsBelieved, SecretsTypeOK
    <3>2. CASE n # m
      BY <1>4, <3>1, <3>2 DEF WorkerGoesOn, Pass, Refer, Retry
    <3>3. CASE n = m /\ Pass(m, k)
      BY <1>4, <3>1, <3>3 DEF Pass
    <3>4. CASE n = m /\ Refer(m, k) /\ secrets'[k] # 0
      BY <1>4, <3>1, <3>4 DEF Refer
    <3>5. CASE n = m /\ Retry(m)
      BY <1>4, <3>1, <3>5 DEF Retry
    <3>6. CASE n = m /\ \E pc \in {"getAgain", "apiToken"} : worker' = [worker EXCEPT ![m].pc = pc]
      BY <1>4, <3>1, <3>6
    <3>7. CASE n = m /\ worker' = [worker EXCEPT ![m] = Idle]
      BY <1>4, <3>1, <3>7 DEF Idle
    <3> QED
      BY <3>2, <3>3, <3>4, <3>5, <3>6, <3>7 DEF WorkerGoesOn
  <2>2. worker[n].refs \subseteq Kinds
    BY DEF SecretsBelieved, SecretsTypeOK
  <2> QED
    BY <2>1, <2>2 DEF SecretsBelieved, SecretsKept
<1>5. ASSUME NEW n \in Managers, NEW j \in Kinds, cache'[n].secrets[j] # 0
      PROVE  secrets'[j] # 0
  BY <1>5 DEF SecretsBelieved, SecretsKept
<1> QED
  BY <1>2, <1>3, <1>4, <1>5 DEF SecretsBelieved

\* A step that writes nothing keeps the secrets, with or without a fault.
LEMMA NothingWritten ==
    ASSUME SecretsTypeOK, UNCHANGED <<secrets, fresh>>, Fault \/ UNCHANGED faults
    PROVE  SecretsKept
BY SecretsAssumption DEF SecretsTypeOK, SecretsKept, Fault

\* The ways a write can end.
LEMMA WriteEnds ==
    ASSUME SecretsTypeOK, NEW m \in Managers, NEW k \in Kinds, View(m, k) # 0
    PROVE  /\ Create(m, k) => SecretsKept /\ secrets'[k] # 0
           /\ UpdateRead(m, k) => SecretsKept /\ secrets'[k] # 0
           /\ UpdateBlindly(m, k) => SecretsKept /\ secrets'[k] # 0
           /\ AlreadyExists(k) => SecretsKept /\ secrets'[k] # 0
           /\ Conflict(m, k) => SecretsKept
           /\ Error => SecretsKept
<1>1. Write(m, k) /\ UNCHANGED faults => SecretsKept /\ secrets'[k] # 0
  BY WriteKeeps DEF SecretsKept, SecretsTypeOK
<1>2. UNCHANGED <<secrets, fresh, faults>> => SecretsKept
  BY NothingWritten
<1>3. Error => SecretsKept
  BY NothingWritten DEF Error
<1> QED
  BY <1>1, <1>2, <1>3 DEF Create, UpdateRead, UpdateBlindly, AlreadyExists, Conflict

\* Every step of a Reconcile preserves the invariant.
LEMMA PrepareKeeps ==
    ASSUME SecretsBelieved, NEW m \in Managers, Prepare(m)
    PROVE  SecretsBelieved'
<1> USE DEF Kinds
<1>0. SecretsTypeOK
  BY DEF SecretsBelieved
<1>1. ASSUME NEW k \in Kinds, PassOver(m, k)  PROVE SecretsBelieved'
  <2>1. SecretsKept
    BY <1>0, <1>1, NothingWritten DEF PassOver
  <2>2. WorkerGoesOn(m, k)
    BY <1>1 DEF PassOver, WorkerGoesOn
  <2> QED
    BY <1>1, <2>1, <2>2, GoesOn DEF PassOver
<1>2. CASE makeSureDockerConfigJSONSecret(m)
  <2>1. SecretsKept /\ WorkerGoesOn(m, "regcred")
    BY <1>0, <1>2, WriteEnds DEF makeSureDockerConfigJSONSecret, WorkerGoesOn
  <2> QED
    BY <1>2, <2>1, GoesOn DEF makeSureDockerConfigJSONSecret
<1>3. CASE GetDockerConfigAgain(m)
  <2>1. SecretsKept
    BY <1>0, <1>3, NothingWritten DEF GetDockerConfigAgain
  <2>2. WorkerGoesOn(m, "regcred")
    BY <1>3 DEF GetDockerConfigAgain, WorkerGoesOn, SecretsBelieved, Cached
  <2> QED
    BY <1>3, <2>1, <2>2, GoesOn DEF GetDockerConfigAgain
<1>4. CASE LookUpImage(m)
  <2>1. SecretsKept
    BY <1>0, <1>4, NothingWritten DEF LookUpImage
  <2>2. WorkerGoesOn(m, "regcred")
    BY <1>4 DEF LookUpImage, WorkerGoesOn
  <2> QED
    BY <1>4, <2>1, <2>2, GoesOn DEF LookUpImage
<1>5. CASE WriteApiToken(m)
  <2>1. CASE View(m, "apiToken") = 0
    <3>1. SecretsKept
      BY <1>0, <1>5, <2>1, NothingWritten DEF WriteApiToken
    <3>2. WorkerGoesOn(m, "apiToken")
      BY <1>5, <2>1 DEF WriteApiToken, WorkerGoesOn
    <3> QED
      BY <1>5, <3>1, <3>2, GoesOn DEF WriteApiToken
  <2>2. CASE View(m, "apiToken") # 0
    <3>1. SecretsKept /\ WorkerGoesOn(m, "apiToken")
      BY <1>0, <1>5, <2>2, WriteEnds DEF WriteApiToken, WorkerGoesOn
    <3> QED
      BY <1>5, <3>1, GoesOn DEF WriteApiToken
  <2> QED
    BY <2>1, <2>2
<1>6. CASE WriteAWSKeys(m)
  <2>1. SecretsKept /\ WorkerGoesOn(m, "aws")
    BY <1>0, <1>6, WriteEnds DEF WriteAWSKeys, WorkerGoesOn
  <2> QED
    BY <1>6, <2>1, GoesOn DEF WriteAWSKeys
<1>7. CASE CopyBuildArgs(m)
  <2>1. SecretsKept /\ WorkerGoesOn(m, "buildArgs")
    BY <1>0, <1>7, WriteEnds DEF CopyBuildArgs, WorkerGoesOn
  <2> QED
    BY <1>7, <2>1, GoesOn DEF CopyBuildArgs
<1>8. CASE CopyCACert(m)
  <2>1. CASE Cached(m, "caCert") = 0 /\ View(m, "caCert") # 0
    <3>1. SecretsKept /\ WorkerGoesOn(m, "caCert")
      BY <1>0, <1>8, <2>1, WriteEnds DEF CopyCACert, WorkerGoesOn
    <3> QED
      BY <1>8, <3>1, GoesOn DEF CopyCACert
  <2>2. CASE Cached(m, "caCert") # 0 \/ View(m, "caCert") = 0
    <3>1. SecretsKept
      BY <1>0, <1>8, <2>2, NothingWritten DEF CopyCACert
    <3>2. WorkerGoesOn(m, "caCert")
      BY <1>8, <2>2 DEF CopyCACert, WorkerGoesOn, SecretsBelieved, Cached
    <3> QED
      BY <1>8, <3>1, <3>2, GoesOn DEF CopyCACert
  <2> QED
    BY <2>1, <2>2
<1>9. CASE CreateBuilderJob(m)
  <2>1. CASE referenced' = referenced
    <3>1. SecretsKept
      BY <1>0, <1>9, NothingWritten DEF CreateBuilderJob
    <3>2. WorkerGoesOn(m, "regcred")
      BY <1>9 DEF CreateBuilderJob, WorkerGoesOn
    <3> QED
      BY <1>9, <2>1, <3>1, <3>2, GoesOn DEF CreateBuilderJob
  <2>2. CASE referenced' # referenced
    <3>1. /\ referenced' = referenced \cup worker[m].refs
          /\ worker' = [worker EXCEPT ![m] = Idle]
          /\ UNCHANGED <<faults, sources, secrets, cache, fresh, rotations>>
      BY <1>9, <2>2 DEF CreateBuilderJob
    <3>2. SecretsTypeOK'
      BY <1>0, <3>1 DEF SecretsTypeOK, Idle, Steps
    <3>3. JobSecretsExist'
      BY <3>1 DEF SecretsBelieved, JobSecretsExist
    <3>4. \A n \in Managers : worker'[n].refs \subseteq worker[n].refs
      BY <1>0, <3>1 DEF SecretsTypeOK, Idle
    <3> QED
      BY <3>1, <3>2, <3>3, <3>4 DEF SecretsBelieved
  <2> QED
    BY <2>1, <2>2
<1> QED
  BY <1>1, <1>2, <1>3, <1>4, <1>5, <1>6, <1>7, <1>8, <1>9 DEF Prepare

\* A new process, or an informer, replaces the cache by what there is.
LEMMA StartedKeeps ==
    ASSUME SecretsBelieved, NEW m \in Managers, Started(m), Fault \/ UNCHANGED faults
    PROVE  SecretsBelieved'
<1>1. worker' \in [Managers -> [pc : Steps, wants : SUBSET Kinds, refs : SUBSET Kinds]]
  <2>1. worker \in [Managers -> [pc : Steps, wants : SUBSET Kinds, refs : SUBSET Kinds]]
    BY DEF SecretsBelieved, SecretsTypeOK
  <2>2. "regcred" \in Steps
    BY DEF Steps, Kinds
  <2>3. worker' = worker \/ Retry(m)
    BY DEF Started
  <2> QED
    BY <2>1, <2>2, <2>3 DEF Retry
<1>2. \A n \in Managers : worker'[n].refs \subseteq worker[n].refs
  BY DEF Started, Retry, SecretsBelieved, SecretsTypeOK
<1>3. faults' \in 0..MaxFaults
  BY SecretsAssumption DEF Fault, SecretsBelieved, SecretsTypeOK
<1>4. /\ cache' = [cache EXCEPT ![m] = [sources |-> sources, secrets |-> secrets]]
      /\ fresh' = [fresh EXCEPT ![m] = Kinds]
      /\ UNCHANGED <<sources, secrets, referenced, rotations>>
  BY DEF Started
<1>5. SecretsTypeOK'
  BY <1>1, <1>3, <1>4 DEF SecretsBelieved, SecretsTypeOK
<1>6. \A n \in Managers, k \in Kinds : cache'[n].secrets[k] # 0 => secrets[k] # 0
  BY <1>4 DEF SecretsBelieved, SecretsTypeOK
<1> QED
  BY <1>2, <1>4, <1>5, <1>6 DEF SecretsBelieved, JobSecretsExist

\* SecretsBelieved is an inductive invariant.
THEOREM SecretsBelievedInvariant == SecretsSpec => []SecretsBelieved
<1>1. SecretsInit => SecretsBelieved
  BY SecretsAssumption
  DEF SecretsInit, SecretsBelieved, SecretsTypeOK, JobSecretsExist, Idle, Steps
<1>2. SecretsBelieved /\ [SecretsNext]_secretVars => SecretsBelieved'
  <2> SUFFICES ASSUME SecretsBelieved, [SecretsNext]_secretVars
               PROVE  SecretsBelieved'
    OBVIOUS
  <2>1. ASSUME NEW m \in Managers, TakeRequest(m)  PROVE SecretsBelieved'
    <3>1. /\ worker' \in [Managers -> [pc : Steps, wants : SUBSET Kinds, refs : SUBSET Kinds]]
          /\ \A n \in Managers : worker'[n].refs \subseteq worker[n].refs
      BY <2>1, SecretsAssumption
      DEF TakeRequest, SecretsBelieved, SecretsTypeOK, Steps, Kinds
    <3> QED
      BY <2>1, <3>1 DEF TakeRequest, SecretsBelieved, SecretsTypeOK, JobSecretsExist
  <2>2. ASSUME NEW m \in Managers, Prepare(m)  PROVE SecretsBelieved'
    BY <2>2, PrepareKeeps
  <2>3. ASSUME NEW m \in Managers, SyncSources(m)  PROVE SecretsBelieved'
    <3>1. Seen(m) \in [Kinds -> Nat]
      BY DEF Seen, View, SecretsBelieved, SecretsTypeOK
    <3>2. /\ cache' \in [Managers -> [sources : [Kinds -> Nat], secrets : [Kinds -> Nat]]]
          /\ \A n \in Managers : cache'[n].secrets = cache[n].secrets
      BY <2>3, <3>1 DEF SyncSources, SecretsBelieved, SecretsTypeOK
    <3> QED
      BY <2>3, <3>2 DEF SyncSources, SecretsBelieved, SecretsTypeOK, JobSecretsExist
  <2>4. ASSUME NEW m \in Managers, SyncSecrets(m)  PROVE SecretsBelieved'
    <3>1. /\ cache' \in [Managers -> [sources : [Kinds -> Nat], secrets : [Kinds -> Nat]]]
          /\ fresh' \in [Managers -> SUBSET Kinds]
          /\ \A n \in Managers : cache'[n].secrets \in {secrets, cache[n].secrets}
      BY <2>4 DEF SyncSecrets, SecretsBelieved, SecretsTypeOK
    <3>2. \A n \in Managers, k \in Kinds : cache'[n].secrets[k] # 0 => secrets[k] # 0
      BY <3>1 DEF SecretsBelieved
    <3> QED
      BY <2>4, <3>1, <3>2 DEF SyncSecrets, SecretsBelieved, SecretsTypeOK, JobSecretsExist
  <2>5. ASSUME NEW m \in Managers, Crash(m) \/ RollOut(m)  PROVE SecretsBelieved'
    BY <2>5, StartedKeeps DEF Crash, RollOut
  <2>6. ASSUME NEW k \in Kinds, Rotate(k)  PROVE SecretsBelieved'
    BY <2>6, SecretsAssumption DEF Rotate, SecretsBelieved, SecretsTypeOK, JobSecretsExist
  <2>7. CASE UNCHANGED secretVars
    BY <2>7 DEF secretVars, SecretsBelieved, SecretsTypeOK, JobSecretsExist
  <2> QED
    BY <2>1, <2>2, <2>3, <2>4, <2>5, <2>6, <2>7 DEF SecretsNext
<1> QED
  BY <1>1, <1>2, PTL DEF SecretsSpec

(* Every builder job that CreateBuilderJob makes refers to existing        *)
(* secrets only, and every variable keeps its type.                        *)
THEOREM BuilderSecretsExist == SecretsSpec => [](SecretsTypeOK /\ JobSecretsExist)
<1>1. SecretsBelieved => SecretsTypeOK /\ JobSecretsExist
  BY DEF SecretsBelieved
<1> QED
  BY <1>1, SecretsBelievedInvariant, PTL

=============================================================================
