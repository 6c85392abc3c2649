------------------------------- MODULE MCBuild --------------------------------
(***************************************************************************)
(* What a build is made from, for TLC: small instances of three modules    *)
(* that have nothing to do with each other at run time.  A behaviour is    *)
(* one of image names (ImageNames), of the pod of a builder job            *)
(* (BuilderPod) or of the pod of a seeder job (SeederPod); the variables   *)
(* of the other parts are at rest.                                         *)
(***************************************************************************)
EXTENDS ImageNames, BuilderPod, TLC

CONSTANT Seeders    \* the settings that a seeder pod may start from

VARIABLES part, seederPC

Seeder == INSTANCE SeederPod WITH
    Inputs <- Seeders, pc <- seederPC, url <- bentoURL, containers <- init,
    MaxFaults <- MaxFailures, faults <- failures

nameVars == <<config, name, registry, progress, faults>>
buildVars == <<pc, builder, volume, image>>
sharedVars == <<input, bentoURL, envFrom, init, account, failures>>
allVars == <<part, nameVars, buildVars, sharedVars, seederPC>>

NamesAtRest ==
    config = None /\ name = None /\ registry = {} /\ progress = [r \in Requests |-> None] /\ faults = 0
BuildAtRest == pc = None /\ builder = None /\ volume = None /\ image = None
PodsAtRest ==
    input = None /\ bentoURL = None /\ envFrom = {} /\ init = <<>> /\ account = None /\ failures = 0

AnyInit ==
    \/ part = "names" /\ Init /\ BuildAtRest /\ PodsAtRest /\ seederPC = None
    \/ part = "builder" /\ PodInit /\ NamesAtRest /\ seederPC = None
    \/ part = "seeder" /\ Seeder!Init /\ NamesAtRest /\ BuildAtRest

AnyNext ==
    /\ \/ part = "names" /\ Next /\ UNCHANGED <<buildVars, sharedVars, seederPC>>
       \/ part = "builder" /\ PodNext /\ UNCHANGED <<nameVars, seederPC>>
       \/ part = "seeder" /\ Seeder!Next /\ UNCHANGED <<nameVars, buildVars>>
    /\ UNCHANGED part

\* The steps of a pod's template and run follow one another.
BuilderStep ==
    /\ part = "builder"
    /\ Template \/ RunInitContainer \/ RunBuilder
    /\ UNCHANGED <<part, nameVars, seederPC>>
SeederStep ==
    /\ part = "seeder"
    /\ Seeder!Template \/ Seeder!RunContainer
    /\ UNCHANGED <<part, nameVars, buildVars>>

AnySpec == AnyInit /\ [][AnyNext]_allVars /\ Fairness /\ WF_allVars(BuilderStep) /\ WF_allVars(SeederStep)

-----------------------------------------------------------------------------
(* ImageNames: every request gets its image, whatever its names, registry  *)
(* and credentials.                                                        *)
EveryRequestHasItsImage == part = "names" => EveryRequestGetsItsImage

(* BuilderPod: a build that everything was provided for ends with an image. *)
EveryProvidedBuildSucceeds == part = "builder" => ProvidedBuildSucceeds

(* SeederPod: a download that everything was provided for succeeds.        *)
ProvidedSeedingSucceeds == part = "seeder" => Seeder!ProvidedSeedingSucceeds

-----------------------------------------------------------------------------
(* Image names.  Lengths as they occur: names of one and of a hundred      *)
(* characters, a namespace at its limit.                                   *)
MCWordLength ==
    "yatai." :> 6 @@ "." :> 1 @@ "nomodels" :> 8 @@ "esgz" :> 4 @@ "s3" :> 2 @@ "a" :> 1 @@ "b" :> 1
        @@ "team" :> 4 @@ "limit" :> 63 @@ "long" :> 100

MCStoreOf ==
    "outside" :> "own" @@ "inside" :> "own" @@ "outside.old" :> "old"
        @@ "docker.io" :> "hub" @@ "index.docker.io" :> "hub"

MCSpeaks ==
    "outside" :> "https" @@ "inside" :> "http" @@ "outside.old" :> "https"
        @@ "docker.io" :> "https" @@ "index.docker.io" :> "https"

MCContains == {<<"index.docker.io", "docker.io">>, <<"outside.old", "outside">>}

ARequest ==
    [namespace |-> "team", storageNS |-> None, repository |-> <<Word("a")>>, version |-> <<Word("b")>>,
     separateModels |-> FALSE, storedInS3 |-> FALSE, forceBuild |-> FALSE,
     image |-> [host |-> None, tag |-> <<>>], auths |-> {}, insecure |-> "unset", annotatedInsecure |-> FALSE]

AConfig ==
    [server |-> "outside", inClusterServer |-> None, secure |-> TRUE, ecr |-> FALSE,
     estargz |-> FALSE, addNamespacePrefix |-> FALSE]

\* A registry seen from inside and outside the cluster, Docker Hub, and ECR.
ThreeConfigs ==
    {[AConfig EXCEPT !.inClusterServer = "inside", !.secure = FALSE, !.addNamespacePrefix = TRUE],
     [AConfig EXCEPT !.server = "index.docker.io", !.estargz = TRUE],
     [AConfig EXCEPT !.ecr = TRUE]}

(* Both modes of a bento, long names that differ in their mode only, a     *)
(* forced build, and a registry of the request's own.                      *)
Many == {"plain", "apart", "long", "longApart", "own"}
ManyRequests ==
    [plain |-> ARequest,
     apart |-> [ARequest EXCEPT !.separateModels = TRUE, !.forceBuild = TRUE],
     long |-> [ARequest EXCEPT !.repository = <<Word("long")>>, !.storageNS = "limit"],
     longApart |-> [ARequest EXCEPT !.repository = <<Word("long")>>, !.storageNS = "limit",
                       !.separateModels = TRUE, !.storedInS3 = TRUE],
     own |-> [ARequest EXCEPT !.image = [host |-> "outside", tag |-> <<Word("a")>>], !.insecure = "false",
                 !.auths = {"outside", "outside.old"}]]

-----------------------------------------------------------------------------
(* Settings of builder pods. *)

EmptyConfig ==
    [broken |-> FALSE, env |-> {}, valueFrom |-> {}, buildArgs |-> {}, builderArgs |-> {}, account |-> None]

Plain ==
    [bentoURL |-> None, yatai |-> "token", models |-> [m1 |-> "absent", m2 |-> "absent"],
     manifest |-> {"m1", "m2"}, separateModels |-> FALSE, storedInS3 |-> FALSE, engine |-> "kaniko",
     awsKeys |-> TRUE, ownEnvFrom |-> {"gcs"}, ca |-> "ready", config |-> EmptyConfig,
     env |-> {}, buildArgs |-> {}, secretArgs |-> {}, account |-> None, labelledAccount |-> None]

\* Where the bento is from, and what Yatai answers when it is asked.
Sources ==
    {[Plain EXCEPT !.yatai = yatai, !.manifest = manifest] :
        yatai \in {"presigned", "token", "unset"}, manifest \in {{}, {"m1", "m2"}}}
        \cup {[Plain EXCEPT !.bentoURL = url] : url \in {"s3", "gs", "https"}}

(* Bentos and models from every kind of source.  The models of a bento in  *)
(* GCS are there, too, unless its image is stored in S3: AWS keys are only *)
(* given for the bento's URL.                                              *)
Downloads ==
    {i \in {[s EXCEPT !.models = [m1 |-> one, m2 |-> two], !.separateModels = apart, !.engine = engine,
                      !.awsKeys = keys, !.ca = ca, !.storedInS3 = s3] :
               s \in Sources, one \in {"absent", None, "s3"}, two \in {"absent", "gs"}, apart \in BOOLEAN,
               engine \in {"kaniko", "buildkit-rootless"}, keys \in BOOLEAN, s3 \in BOOLEAN,
               ca \in {"unset", "ready", "missing"}} :
        i.bentoURL = "gs" /\ ~i.storedInS3 => i.models["m1"] # "s3"}

\* Names that the config map, the request, the secret and the builder set.
Names == {"HTTP_PROXY", "SSL_CERT_FILE"}
Settings ==
    {[Plain EXCEPT !.env = env, !.buildArgs = args, !.secretArgs = secret, !.engine = "buildkit",
                   !.config = [EmptyConfig EXCEPT !.env = cenv, !.valueFrom = valueFrom,
                                  !.buildArgs = cargs, !.builderArgs = {"--target"}]] :
        env \in SUBSET Names, cenv \in {{}, Names}, valueFrom \in SUBSET {"HTTP_PROXY"},
        args \in SUBSET {"HTTP_PROXY"}, cargs \in SUBSET {"HTTP_PROXY", "KEY"}, secret \in {{}, {"KEY"}}}

Accounts ==
    {[Plain EXCEPT !.engine = engine, !.account = mine, !.labelledAccount = labelled,
                   !.config = [EmptyConfig EXCEPT !.broken = broken, !.account = theirs]] :
        engine \in {"buildkit", "unknown"}, broken \in BOOLEAN,
        mine \in {None, "mine"}, theirs \in {None, "theirs"}, labelled \in {None, "labelled"}}

AllBuilds == Downloads \cup Settings \cup Accounts

-----------------------------------------------------------------------------
(* Settings of seeder pods.  The models are none that Yatai serves by      *)
(* itself, and their servers' certificates are public or set by the user:  *)
(* a seeder has neither the API token nor the bundle with the certificate. *)
AllSeeders ==
    {i \in [url : {None, "s3", "gs", "https", "hf", "incomplete hf"}, yatai : {"presigned", "token", "unset"},
            awsKeys : BOOLEAN, ownEnvFrom : SUBSET {"gcs", "HF_TOKEN"}, gated : BOOLEAN, ca : {"unset", "set"},
            config : [broken : BOOLEAN, env : {{}, {"HF_TOKEN"}, {"SSL_CERT_FILE"}}, account : {None, "theirs"}]] :
        /\ IF i.url = None THEN i.yatai # "token" ELSE i.yatai = "unset"
        /\ i.gated => i.url = "hf"
        /\ i.ca = "set" => "SSL_CERT_FILE" \in i.config.env
        /\ i.config.account = None \/ i.config.env = {}}
=============================================================================
