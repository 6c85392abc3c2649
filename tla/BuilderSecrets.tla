--------------------------- MODULE BuilderSecrets ----------------------------
(***************************************************************************)
(* The secrets a builder pod refers to.  While a manager prepares a        *)
(* builder job it brings five secrets into the namespace of the request,   *)
(* each in its own way: registry credentials (getImageInfo), the Yatai API *)
(* token, AWS keys, build arguments and a CA certificate                   *)
(* (generateImageBuilderPodTemplateSpec).  All requests of a namespace     *)
(* share them.  An error ends the Reconcile, which is then retried from    *)
(* the start.                                                              *)
(*                                                                         *)
(* A step is one write with the reads before it, which come from the       *)
(* manager's lagging cache.  The request's namespace is not the one of the *)
(* image builder, whose secrets are the sources.                           *)
(***************************************************************************)
EXTENDS Naturals

CONSTANTS
    Managers,
    Configured,     \* the kinds whose source is there from the start
    Demands,        \* sets of kinds, one of which a request wants
    MaxRotations, MaxFaults

Kinds == {"regcred", "apiToken", "aws", "buildArgs", "caCert"}

ASSUME SecretsAssumption ==
    /\ Configured \subseteq Kinds
    /\ Demands \subseteq SUBSET Kinds
    /\ MaxRotations \in Nat
    /\ MaxFaults \in Nat

VARIABLES
    sources,    \* the version of each source, 0 when there is none
    secrets,    \* the version that the secret in the request's namespace holds, 0 without secret
    cache,      \* each manager's copy of both
    fresh,      \* the kinds whose cached secret has the current resourceVersion
    worker,     \* the Reconcile of each manager: its step, the kinds its request wants, the
                \* kinds its pod refers to
    referenced, \* the kinds that jobs refer to
    rotations, faults

secretVars == <<sources, secrets, cache, fresh, worker, referenced, rotations, faults>>

\* AWS keys come from the manager's environment, the other sources are secrets.
FromEnvironment == {"aws"}

Idle == [pc |-> "idle", wants |-> {}, refs |-> {}]
At(m, pc) == worker[m].pc = pc

View(m, k) == cache[m].sources[k]
Cached(m, k) == cache[m].secrets[k]

Fault == faults < MaxFaults /\ faults' = faults + 1

-----------------------------------------------------------------------------
(* The control of a Reconcile. *)

\* Mutant: the last step leads nowhere.
StepAfterWithoutJob(k) ==
    CASE k = "regcred" -> "ensureImage"
      [] k = "apiToken" -> "aws"
      [] k = "aws" -> "buildArgs"
      [] k = "buildArgs" -> "caCert"
      [] k = "caCert" -> "pod"

StepAfter(k) ==
    CASE k = "regcred" -> "ensureImage"
      [] k = "apiToken" -> "aws"
      [] k = "aws" -> "buildArgs"
      [] k = "buildArgs" -> "caCert"
      [] k = "caCert" -> "job"

\* The pod will refer to the secret of kind k.
Refer(m, k) == worker' = [worker EXCEPT ![m].pc = StepAfter(k), ![m].refs = @ \cup {k}]

Pass(m, k) == worker' = [worker EXCEPT ![m].pc = StepAfter(k)]

\* The request is put back into the queue, and Reconcile starts anew.
Retry(m) == worker' = [worker EXCEPT ![m].pc = "regcred", ![m].refs = {}]

-----------------------------------------------------------------------------
(* Writes.  An update that changes nothing keeps the resourceVersion.      *)

Write(m, k) ==
    /\ secrets' = [secrets EXCEPT ![k] = View(m, k)]
    /\ fresh' = IF secrets[k] = View(m, k) THEN fresh ELSE [n \in Managers |-> fresh[n] \ {k}]

Create(m, k) == secrets[k] = 0 /\ Write(m, k) /\ UNCHANGED faults

AlreadyExists(k) == secrets[k] # 0 /\ UNCHANGED <<secrets, fresh, faults>>

Error == Fault /\ UNCHANGED <<secrets, fresh>>

\* The object updated was read before: it must be the current one.
UpdateRead(m, k) == secrets[k] # 0 /\ k \in fresh[m] /\ Write(m, k) /\ UNCHANGED faults

Conflict(m, k) == (secrets[k] = 0 \/ k \notin fresh[m]) /\ UNCHANGED <<secrets, fresh, faults>>

\* The object updated has no resourceVersion: whatever is there is overwritten.
UpdateBlindly(m, k) == secrets[k] # 0 /\ Write(m, k) /\ UNCHANGED faults

-----------------------------------------------------------------------------
(* The steps. *)

\* A request names its own credentials, download URL or AWS keys, or wants the shared ones.
TakeRequest(m) ==
    /\ At(m, "idle")
    /\ \E wants \in Demands :
          worker' = [worker EXCEPT ![m] = [pc |-> "regcred", wants |-> wants, refs |-> {}]]
    /\ UNCHANGED <<sources, secrets, cache, fresh, referenced, rotations, faults>>

\* The kind is not wanted, or there is nothing to make it from (no user name, no keys, no source).
PassOver(m, k) ==
    /\ At(m, k)
    /\ k \notin worker[m].wants \/ (View(m, k) = 0 /\ k \notin {"apiToken", "caCert"})
    /\ Pass(m, k)
    /\ UNCHANGED <<sources, secrets, cache, fresh, referenced, rotations, faults>>

Wanted(m, k) == At(m, k) /\ k \in worker[m].wants

\* Mutant: credentials that are there are left alone.
MakeSureDockerConfigOnce(m) ==
    LET k == "regcred" IN
    /\ Wanted(m, k) /\ View(m, k) # 0
    /\ \/ /\ Cached(m, k) = 0
          /\ \/ Create(m, k) /\ Refer(m, k)
             \/ (AlreadyExists(k) \/ Error) /\ worker' = [worker EXCEPT ![m].pc = "getAgain"]
       \/ /\ Cached(m, k) # 0
          /\ Refer(m, k)
          /\ UNCHANGED <<secrets, fresh, faults>>
    /\ UNCHANGED <<sources, cache, referenced, rotations>>

\* Any error of the create leads to a second read.
makeSureDockerConfigJSONSecret(m) ==
    LET k == "regcred" IN
    /\ Wanted(m, k) /\ View(m, k) # 0
    /\ \/ /\ Cached(m, k) = 0
          /\ \/ Create(m, k) /\ Refer(m, k)
             \/ (AlreadyExists(k) \/ Error) /\ worker' = [worker EXCEPT ![m].pc = "getAgain"]
       \/ /\ Cached(m, k) # 0
          /\ \/ UpdateRead(m, k) /\ Refer(m, k)
             \/ (Conflict(m, k) \/ Error) /\ Retry(m)
    /\ UNCHANGED <<sources, cache, referenced, rotations>>

\* Mutant: the second read's result is not looked at.
UseDockerConfigAnyway(m) ==
    /\ At(m, "getAgain")
    /\ Refer(m, "regcred")
    /\ UNCHANGED <<sources, secrets, cache, fresh, referenced, rotations, faults>>

\* What the second read finds is used, whatever it holds.
GetDockerConfigAgain(m) ==
    /\ At(m, "getAgain")
    /\ IF Cached(m, "regcred") = 0 THEN Retry(m) ELSE Refer(m, "regcred")
    /\ UNCHANGED <<sources, secrets, cache, fresh, referenced, rotations, faults>>

\* The rest of ensureImageExists: no pod is generated when the image or a job is there already.
LookUpImage(m) ==
    /\ At(m, "ensureImage")
    /\ \/ worker' = [worker EXCEPT ![m] = Idle] /\ UNCHANGED faults
       \/ worker' = [worker EXCEPT ![m].pc = "apiToken"] /\ UNCHANGED faults
       \/ Fault /\ Retry(m)
    /\ UNCHANGED <<sources, secrets, cache, fresh, referenced, rotations>>

\* Somebody else's token serves as well when the secret exists; without a source there is no client.
WriteApiToken(m) ==
    LET k == "apiToken" IN
    /\ Wanted(m, k)
    /\ \/ /\ View(m, k) = 0
          /\ Retry(m)
          /\ UNCHANGED <<secrets, fresh, faults>>
       \/ /\ View(m, k) # 0 /\ Cached(m, k) = 0
          /\ \/ (Create(m, k) \/ AlreadyExists(k)) /\ Refer(m, k)
             \/ Error /\ Retry(m)
       \/ /\ View(m, k) # 0 /\ Cached(m, k) # 0
          /\ \/ UpdateBlindly(m, k) /\ Refer(m, k)
             \/ Error /\ Retry(m)
    /\ UNCHANGED <<sources, cache, referenced, rotations>>

\* controllerutil.CreateOrUpdate
WriteAWSKeys(m) ==
    LET k == "aws" IN
    /\ Wanted(m, k) /\ View(m, k) # 0
    /\ \/ /\ Cached(m, k) = 0
          /\ \/ Create(m, k) /\ Refer(m, k)
             \/ (AlreadyExists(k) \/ Error) /\ Retry(m)
       \/ /\ Cached(m, k) # 0
          /\ \/ UpdateRead(m, k) /\ Refer(m, k)
             \/ (Conflict(m, k) \/ Error) /\ Retry(m)
    /\ UNCHANGED <<sources, cache, referenced, rotations>>

\* Mutant: the copy is created, and never updated.
CreateBuildArgs(m) ==
    LET k == "buildArgs" IN
    /\ Wanted(m, k) /\ View(m, k) # 0
    /\ \/ Create(m, k) /\ Refer(m, k)
       \/ (AlreadyExists(k) \/ Error) /\ Retry(m)
    /\ UNCHANGED <<sources, cache, referenced, rotations>>

CopyBuildArgs(m) ==
    LET k == "buildArgs" IN
    /\ Wanted(m, k) /\ View(m, k) # 0
    /\ \/ /\ Cached(m, k) = 0
          /\ \/ Create(m, k) /\ Refer(m, k)
             \/ (AlreadyExists(k) \/ Error) /\ Retry(m)
       \/ /\ Cached(m, k) # 0
          /\ \/ UpdateBlindly(m, k) /\ Refer(m, k)
             \/ Error /\ Retry(m)
    /\ UNCHANGED <<sources, cache, referenced, rotations>>

\* The certificate is copied once; the pod goes without it when that fails.
CopyCACert(m) ==
    LET k == "caCert" IN
    /\ Wanted(m, k)
    /\ \/ /\ Cached(m, k) # 0
          /\ Refer(m, k)
          /\ UNCHANGED <<secrets, fresh, faults>>
       \/ /\ Cached(m, k) = 0 /\ View(m, k) # 0
          /\ \/ (Create(m, k) \/ AlreadyExists(k)) /\ Refer(m, k)
             \/ Error /\ Pass(m, k)
       \/ /\ Cached(m, k) = 0 /\ View(m, k) = 0
          /\ Pass(m, k)
          /\ UNCHANGED <<secrets, fresh, faults>>
    /\ UNCHANGED <<sources, cache, referenced, rotations>>

CreateBuilderJob(m) ==
    /\ At(m, "job")
    /\ \/ /\ referenced' = referenced \cup worker[m].refs
          /\ worker' = [worker EXCEPT ![m] = Idle]
          /\ UNCHANGED faults
       \/ /\ Fault
          /\ Retry(m)
          /\ UNCHANGED referenced
    /\ UNCHANGED <<sources, secrets, cache, fresh, rotations>>

Prepare(m) ==
    \/ \E k \in Kinds : PassOver(m, k)
    \/ makeSureDockerConfigJSONSecret(m) \/ GetDockerConfigAgain(m)
    \/ LookUpImage(m)
    \/ WriteApiToken(m) \/ WriteAWSKeys(m) \/ CopyBuildArgs(m) \/ CopyCACert(m)
    \/ CreateBuilderJob(m)

-----------------------------------------------------------------------------
(* The operator of the image builder, the informers and the deployment.    *)

\* A source is configured, or replaced by its next version.
Rotate(k) ==
    /\ rotations < MaxRotations
    /\ rotations' = rotations + 1
    /\ sources' = [sources EXCEPT ![k] = @ + 1]
    /\ UNCHANGED <<secrets, cache, fresh, worker, referenced, faults>>

Seen(m) == [k \in Kinds |-> IF k \in FromEnvironment THEN View(m, k) ELSE sources[k]]

SyncSources(m) ==
    /\ cache[m].sources # Seen(m)
    /\ cache' = [cache EXCEPT ![m].sources = Seen(m)]
    /\ UNCHANGED <<sources, secrets, fresh, worker, referenced, rotations, faults>>

SyncSecrets(m) ==
    /\ fresh[m] # Kinds
    /\ cache' = [cache EXCEPT ![m].secrets = secrets]
    /\ fresh' = [fresh EXCEPT ![m] = Kinds]
    /\ UNCHANGED <<sources, secrets, worker, referenced, rotations, faults>>

\* A new process: its request is taken up again.
Started(m) ==
    /\ cache' = [cache EXCEPT ![m] = [sources |-> sources, secrets |-> secrets]]
    /\ fresh' = [fresh EXCEPT ![m] = Kinds]
    /\ IF At(m, "idle") THEN UNCHANGED worker ELSE Retry(m)
    /\ UNCHANGED <<sources, secrets, referenced, rotations>>

Crash(m) == Fault /\ Started(m)

\* The deployment replaces a process whose environment is out of date.
RollOut(m) ==
    /\ \E k \in FromEnvironment : View(m, k) # sources[k]
    /\ Started(m)
    /\ UNCHANGED faults

-----------------------------------------------------------------------------
SecretsInit ==
    /\ sources = [k \in Kinds |-> IF k \in Configured THEN 1 ELSE 0]
    /\ secrets = [k \in Kinds |-> 0]
    /\ cache = [m \in Managers |-> [sources |-> sources, secrets |-> secrets]]
    /\ fresh = [m \in Managers |-> Kinds]
    /\ worker = [m \in Managers |-> Idle]
    /\ referenced = {}
    /\ rotations = 0 /\ faults = 0

SecretsNext ==
    \/ \E m \in Managers : \/ TakeRequest(m) \/ Prepare(m)
                           \/ SyncSources(m) \/ SyncSecrets(m) \/ Crash(m) \/ RollOut(m)
    \/ \E k \in Kinds : Rotate(k)

SecretsSpec == SecretsInit /\ [][SecretsNext]_secretVars

(* Workers, informers and the deployment keep running; requests need not   *)
(* come.                                                                   *)
SecretsFairness ==
    \A m \in Managers : /\ WF_secretVars(Prepare(m))
                        /\ WF_secretVars(SyncSources(m))
                        /\ WF_secretVars(SyncSecrets(m))
                        /\ WF_secretVars(RollOut(m))

FairSecretsSpec == SecretsSpec /\ SecretsFairness

-----------------------------------------------------------------------------
Steps == Kinds \cup {"idle", "getAgain", "ensureImage", "job"}

SecretsTypeOK ==
    /\ sources \in [Kinds -> Nat]
    /\ secrets \in [Kinds -> Nat]
    /\ cache \in [Managers -> [sources : [Kinds -> Nat], secrets : [Kinds -> Nat]]]
    /\ fresh \in [Managers -> SUBSET Kinds]
    /\ worker \in [Managers -> [pc : Steps, wants : SUBSET Kinds, refs : SUBSET Kinds]]
    /\ referenced \subseteq Kinds
    /\ rotations \in 0..MaxRotations
    /\ faults \in 0..MaxFaults

(* A builder job only refers to secrets that exist in its namespace (its   *)
(* pod could not start otherwise), although the manager never sees more    *)
(* than a lagging cache and lets several errors of its writes pass.        *)
JobSecretsExist == \A k \in referenced : secrets[k] # 0

(* Managers that write the same secrets do not keep each other from        *)
(* working: whatever conflicts they run into, a request that was taken up  *)
(* is done with in the end, once its sources are configured.               *)
RequestsAreServed ==
    \A m \in Managers : ~At(m, "idle") ~> (At(m, "idle") \/ sources["apiToken"] = 0)

(* A secret that is wanted again and again ends up with the current        *)
(* version of its source, though managers with stale caches put old        *)
(* versions back on the way.  (The CA certificate is only ever copied      *)
(* once.)                                                                  *)
SecretsFollowSources ==
    \A k \in Kinds \ {"caCert"} :
        []<>(\E m \in Managers : Wanted(m, k)) => <>[](secrets[k] = sources[k])
=============================================================================
