----------------------------- MODULE BuilderPod ------------------------------
(***************************************************************************)
(* generateImageBuilderPodTemplateSpec, and the run of the pod it makes.   *)
(* The settings of a build come from the request, a config map, secrets    *)
(* and the manager's environment; the template is put together from them   *)
(* in the order of the code, and its containers then run one after the     *)
(* other: they download the bento and its models into the workspace, from  *)
(* which the builder makes the image.                                      *)
(*                                                                         *)
(* The secrets that the pod refers to exist (see BuilderSecrets).  A list  *)
(* of arguments or of environment variables is a sequence of parts, each   *)
(* with the names it sets and where their values are from.                 *)
(***************************************************************************)
EXTENDS Naturals, Sequences, FiniteSets, Functions

CONSTANTS
    Models,       \* the models that a request or a bento may name
    Builds,       \* the settings that a build may start from: see MCBuild
    MaxFailures   \* bound on calls to Yatai or Kubernetes that fail

(* Models are finitely many, none of them has the name of the container    *)
(* that makes the bundle, and a build says of each where it is from.       *)
ASSUME BuildsAssumption ==
    /\ IsFiniteSet(Models) /\ "bundle" \notin Models
    /\ \A b \in Builds : DOMAIN b.models = Models

VARIABLES
    input,      \* the settings of this build
    pc,         \* the step of the template, or of the pod
    bentoURL,   \* where the bento is downloaded from
    envFrom,    \* the credentials that the downloaders are given
    init,       \* the init containers, in their order
    builder,    \* the builder container
    account,    \* the pod's service account
    volume,     \* the containers that are done, and what they left in the volumes
    image,      \* what the image is made of, once it is pushed
    failures

podVars == <<input, pc, bentoURL, envFrom, init, builder, account, volume, image, failures>>

Nothing == "none"
Proxies == {"HTTP_PROXY", "NO_PROXY"}
TrustedCA == "SSL_CERT_FILE"

Part(names, from) == <<[names |-> names, from |-> from]>>

\* The last part that sets a name prevails, in an environment as among --build-arg options.
Prevails(list, name) ==
    LET with == {i \in DOMAIN list : name \in list[i].names}
    IN IF with = {} THEN Nothing ELSE list[CHOOSE i \in with : \A j \in with : j <= i].from

At(step) == pc = step
To(step) == pc' = step

NoBuilder == [user |-> "root", args |-> <<>>, env |-> <<>>, s3 |-> FALSE]
EmptyVolume == [done |-> 0, files |-> {}, bundle |-> FALSE, owner |-> "root"]

PodInit ==
    /\ input \in Builds
    /\ pc = "bento"
    /\ bentoURL = Nothing /\ envFrom = {}
    /\ init = <<>> /\ builder = NoBuilder /\ account = Nothing
    /\ volume = EmptyVolume /\ image = [files |-> {}, args |-> <<>>]
    /\ failures = 0

-----------------------------------------------------------------------------
(* Downloads. *)

FromYatai == input.bentoURL = Nothing

\* What Yatai answers: a presigned URL, or its own, which takes the API token.
YataiURL == IF input.yatai = "presigned" THEN "https" ELSE "token"

\* The request's URL, or Yatai's; without a Yatai configuration there is no client.
ResolveBento ==
    /\ At("bento")
    /\ bentoURL' = IF FromYatai THEN YataiURL ELSE input.bentoURL
    /\ envFrom' = input.ownEnvFrom \cup (IF FromYatai THEN {"apiToken"} ELSE {})
    /\ To(IF FromYatai /\ input.yatai = "unset" THEN "rejected" ELSE "aws")
    /\ UNCHANGED <<input, init, builder, account, volume, image, failures>>

Downloader(what, url, credentials) ==
    [what |-> what, url |-> url, envFrom |-> credentials,
     env |-> Part({"AWS_EC2_METADATA_DISABLED"}, "builder")]

\* Mutant: keys for AWS are added for a bento in S3, and its models go without.
AWSKeysForS3 == IF bentoURL = "s3" /\ input.awsKeys THEN {"aws"} ELSE {}

\* Only the bento's URL is looked at: keys for AWS are added unless it starts with "gs".
AWSKeys == IF (bentoURL # "gs" \/ input.storedInS3) /\ input.awsKeys THEN {"aws"} ELSE {}

AddBentoDownloader ==
    /\ At("aws")
    /\ envFrom' = envFrom \cup AWSKeys
    /\ init' = <<Downloader("bento", bentoURL, envFrom')>>
    /\ To("models")
    /\ UNCHANGED <<input, bentoURL, builder, account, volume, image, failures>>

Listed(m) == input.models[m] # "absent"

\* Mutant: the models that only Yatai knows of are left out.
NoManifestModels == {}

\* The models of the request, and those of the manifest that it does not list.
RequestModels == {m \in Models : Listed(m)}
ManifestModels == {m \in Models : ~Listed(m) /\ FromYatai /\ m \in input.manifest}

ModelURL(m) ==
    IF Listed(m) /\ input.models[m] # Nothing THEN input.models[m]
    ELSE IF FromYatai THEN YataiURL ELSE Nothing

\* A model without any URL is passed over; models that are kept apart are not downloaded.
Downloaded(models) == IF input.separateModels THEN {} ELSE {m \in models : ModelURL(m) # Nothing}

\* The ways to list a set.
Lists(S) == Bijection(1 .. Cardinality(S), S)

\* In the order in which the request and the manifest list them.
AddModelDownloaders ==
    /\ At("models")
    /\ \E mine \in Lists(Downloaded(RequestModels)), others \in Lists(Downloaded(ManifestModels)) :
          LET models == mine \o others
          IN init' = init \o [i \in DOMAIN models |->
                                 Downloader(models[i], ModelURL(models[i]), envFrom)]
    /\ To("config")
    /\ UNCHANGED <<input, bentoURL, envFrom, builder, account, volume, image, failures>>

-----------------------------------------------------------------------------
(* The builder. *)

\* Mutant: the proxies of the environment come on top of what the build arguments say.
AllProxies == input.config.env \cap Proxies

\* Proxy variables with a value of their own become build arguments, unless there is one already.
ProxyArgs ==
    (input.config.env \cap Proxies)
        \ (input.config.valueFrom \cup input.config.buildArgs \cup input.buildArgs)

\* The config map is read, twice (getBuildArgs); a value that is no YAML ends the call.
ReadConfig ==
    /\ At("config")
    /\ builder' = [builder EXCEPT
          !.args = Part(input.config.buildArgs, "config") \o Part(input.buildArgs, "request")
                       \o Part(ProxyArgs, "proxy")]
    /\ To(IF input.config.broken THEN "rejected" ELSE "engine")
    /\ UNCHANGED <<input, bentoURL, envFrom, init, account, volume, image, failures>>

Privileged == input.engine # "buildkit-rootless"

\* Image, arguments and security context by engine, builder_args last.
ChooseEngine ==
    /\ At("engine")
    /\ builder' = [builder EXCEPT !.user = IF Privileged THEN "root" ELSE "1000",
                                  !.env = Part({"DOCKER_CONFIG"}, "builder"),
                                  !.args = @ \o Part(input.config.builderArgs, "config")]
    /\ To(IF input.engine = "unknown" THEN "rejected" ELSE "secretArgs")
    /\ UNCHANGED <<input, bentoURL, envFrom, init, account, volume, image, failures>>

\* Each key of the build argument secret: an environment variable, and an argument that refers to it.
AddSecretArgs ==
    /\ At("secretArgs")
    /\ builder' = [builder EXCEPT
          !.env = @ \o Part({"BENTOML_BUILD_ARG" : k \in input.secretArgs}, "builder"),
          !.args = @ \o Part(input.secretArgs, "secret")]
    /\ To("command")
    /\ UNCHANGED <<input, bentoURL, envFrom, init, account, volume, image, failures>>

\* bento-image-builder replaces the engine's command; it is given the first build arguments only.
ChooseCommand ==
    /\ At("command")
    /\ builder' = IF input.storedInS3
                  THEN [builder EXCEPT !.user = "root", !.s3 = TRUE, !.args = SubSeq(@, 1, 3),
                                       !.env = @ \o Part({"AWS_ACCESS_KEY_ID"}, "builder")]
                  ELSE builder
    /\ To("caCert")
    /\ UNCHANGED <<input, bentoURL, envFrom, init, account, volume, image, failures>>

Trusting(c) == [c EXCEPT !.env = @ \o Part({TrustedCA}, "builder")]

BundleMaker == [what |-> "bundle", url |-> Nothing, envFrom |-> {}, env |-> <<>>]

\* Mutant: the bundle is made after the downloads.
InjectCACertLast ==
    /\ At("caCert")
    /\ IF input.ca = "ready"
       THEN /\ init' = [i \in DOMAIN init |-> Trusting(init[i])] \o <<BundleMaker>>
            /\ builder' = Trusting(builder)
       ELSE UNCHANGED <<init, builder>>
    /\ To("podSpec")
    /\ UNCHANGED <<input, bentoURL, envFrom, account, volume, image, failures>>

\* A container that makes the bundle comes first; without the certificate the pod does without.
InjectCACert ==
    /\ At("caCert")
    /\ IF input.ca = "ready"
       THEN /\ init' = <<BundleMaker>> \o [i \in DOMAIN init |-> Trusting(init[i])]
            /\ builder' = Trusting(builder)
       ELSE UNCHANGED <<init, builder>>
    /\ To("podSpec")
    /\ UNCHANGED <<input, bentoURL, envFrom, account, volume, image, failures>>

First(accounts) ==
    LET set == {i \in DOMAIN accounts : accounts[i] # Nothing}
    IN accounts[CHOOSE i \in set : \A j \in set : i <= j]

\* Metadata and pod spec of the config map, overlaid by the request's; the service account.
MergePodSpec ==
    /\ At("podSpec")
    /\ account' = First(<<input.account, input.config.account, input.labelledAccount, "default">>)
    /\ To("environment")
    /\ UNCHANGED <<input, bentoURL, envFrom, init, builder, volume, image, failures>>

ExtraEnv == Part(input.config.env, "config") \o Part(input.env, "request")

AddEnvironment ==
    /\ At("environment")
    /\ init' = [i \in DOMAIN init |-> [init[i] EXCEPT !.env = @ \o ExtraEnv]]
    /\ builder' = [builder EXCEPT !.env = @ \o ExtraEnv]
    /\ To("pod")
    /\ UNCHANGED <<input, bentoURL, envFrom, account, volume, image, failures>>

\* A call fails: the template is given up, and made anew by the next Reconcile.
Fail ==
    /\ pc \in {"bento", "aws", "models", "config", "secretArgs", "podSpec"}
    /\ failures < MaxFailures /\ failures' = failures + 1
    /\ To("bento")
    /\ bentoURL' = Nothing /\ envFrom' = {} /\ init' = <<>> /\ builder' = NoBuilder
    /\ UNCHANGED <<input, account, volume, image>>

Template ==
    \/ ResolveBento \/ AddBentoDownloader \/ AddModelDownloaders
    \/ ReadConfig \/ ChooseEngine \/ AddSecretArgs \/ ChooseCommand
    \/ InjectCACert \/ MergePodSpec \/ AddEnvironment

-----------------------------------------------------------------------------
(* The pod. *)

Container == init[volume.done + 1]

\* The credentials that a download takes.
Credential(url) ==
    CASE url = "s3" -> {"aws"} [] url = "gs" -> {"gcs"} [] url = "token" -> {"apiToken"} [] OTHER -> {}

\* Servers with a private certificate are trusted through the bundle, or by a setting of the user.
Trusted(c) ==
    input.ca # "unset" => CASE Prevails(c.env, TrustedCA) = Nothing -> FALSE
                            [] Prevails(c.env, TrustedCA) = "builder" -> volume.bundle
                            [] OTHER -> TRUE

Works(c) == c.what = "bundle" \/ (Credential(c.url) \subseteq c.envFrom /\ Trusted(c))

\* A download script: the files are given to the builder's user when it is not root.
RunInitContainer ==
    /\ At("pod") /\ volume.done < Len(init)
    /\ IF Works(Container)
       THEN /\ volume' = IF Container.what = "bundle"
                         THEN [volume EXCEPT !.done = @ + 1, !.bundle = TRUE]
                         ELSE [volume EXCEPT !.done = @ + 1, !.files = @ \cup {Container.what},
                                             !.owner = IF Privileged THEN "root" ELSE "1000"]
            /\ UNCHANGED pc
       ELSE To("podFailed") /\ UNCHANGED volume
    /\ UNCHANGED <<input, bentoURL, envFrom, init, builder, account, image, failures>>

RunBuilder ==
    /\ At("pod") /\ volume.done = Len(init)
    /\ builder.user \in {"root", volume.owner}
    /\ image' = [files |-> volume.files, args |-> builder.args]
    /\ To("built")
    /\ UNCHANGED <<input, bentoURL, envFrom, init, builder, account, volume, failures>>

PodDone == pc \in {"rejected", "podFailed", "built"} /\ UNCHANGED podVars

PodNext == Template \/ Fail \/ RunInitContainer \/ RunBuilder \/ PodDone

\* The worker goes on, and the pod's containers run.
PodSpec ==
    /\ PodInit /\ [][PodNext]_podVars
    /\ WF_podVars(Template) /\ WF_podVars(RunInitContainer) /\ WF_podVars(RunBuilder)

-----------------------------------------------------------------------------
(* The image holds the bento and, unless they are kept apart, all of its   *)
(* models that can be had: those the request gives a URL for, and those    *)
(* that Yatai serves or lists for the bento.                               *)
Deliverable ==
    {m \in DOMAIN input.models :
        \/ input.models[m] \notin {"absent", Nothing}
        \/ FromYatai /\ (m \in input.manifest \/ input.models[m] = Nothing)}
ImageIsComplete ==
    pc = "built" => image.files = {"bento"} \cup (IF input.separateModels THEN {} ELSE Deliverable)

(* What a request says prevails over the config map, and both over what    *)
(* the image builder sets by itself, in every container of the pod; a      *)
(* proxy variable never replaces a build argument that somebody gave.      *)
(* Keys of the secret and options in builder_args are taken as they are.   *)
Said(mine, config) == IF mine THEN {"request"} ELSE IF config THEN {"config"} ELSE {"builder", Nothing}
SettingsPrevail ==
    pc = "pod" =>
        /\ \A c \in {builder} \cup {init[i] : i \in DOMAIN init} :
              \A n \in input.env \cup input.config.env \cup {TrustedCA} :
                  Prevails(c.env, n) \in Said(n \in input.env, n \in input.config.env)
        /\ \A k \in (input.buildArgs \cup input.config.buildArgs)
                       \ (input.secretArgs \cup input.config.builderArgs) :
              Prevails(builder.args, k) \in Said(k \in input.buildArgs, TRUE)
        /\ input.account # Nothing => account = input.account

(* A build whose settings can be read and whose downloads somebody has     *)
(* provided credentials and certificates for ends with an image.           *)
Provided ==
    /\ ~(FromYatai /\ input.yatai = "unset") /\ ~input.config.broken /\ input.engine # "unknown"
    /\ input.ca # "missing"
    /\ \A url \in {input.bentoURL} \cup {input.models[m] : m \in DOMAIN input.models} :
          /\ url = "s3" => input.awsKeys \/ "aws" \in input.ownEnvFrom
          /\ url = "gs" => "gcs" \in input.ownEnvFrom
ProvidedBuildSucceeds == Provided => <>(pc = "built")

(* Until then nothing goes wrong with it: its template is not refused, no  *)
(* container of its pod fails for want of a credential or a certificate,   *)
(* and the builder may read what the downloaders have left for it.         *)
ProvidedBuildIsSound ==
    /\ pc \in {"rejected", "podFailed"} => ~Provided
    /\ pc = "pod" /\ volume.done = Len(init) /\ Provided => builder.user \in {"root", volume.owner}
=============================================================================
