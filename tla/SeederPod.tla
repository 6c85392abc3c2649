------------------------------ MODULE SeederPod ------------------------------
(***************************************************************************)
(* generateModelSeederPodTemplateSpec, and the run of the pod it makes: a  *)
(* container that asks Huggingface for access, when the model is from      *)
(* there, and one that downloads the model to its volume (what becomes of  *)
(* the volume is in ModelSeeding).                                         *)
(***************************************************************************)
EXTENDS Naturals, Sequences

CONSTANTS
    Inputs,     \* the settings that a seeder may start from: see MCBuild
    MaxFaults   \* bound on calls to Yatai or Kubernetes that fail

VARIABLES
    input,      \* the settings of this seeder
    pc,         \* the step of the template, or of the pod
    url,        \* what kind of URL the model is downloaded from
    envFrom,    \* the credentials that the containers are given
    containers, \* the containers, the init container first
    account,    \* the pod's service account
    faults

vars == <<input, pc, url, envFrom, containers, account, faults>>

None == "none"
At(step) == pc = step
To(step) == pc' = step

Init ==
    /\ input \in Inputs
    /\ pc = "keys"
    /\ url = None /\ envFrom = {} /\ containers = <<>> /\ account = "default"
    /\ faults = 0

\* The request's credentials and AWS keys; the name of the secret with the API token stays empty.
AddKeys ==
    /\ At("keys")
    /\ envFrom' = input.ownEnvFrom \cup (IF input.awsKeys THEN {"aws"} ELSE {})
    /\ To("url")
    /\ UNCHANGED <<input, url, containers, account, faults>>

\* The model's URL, or Yatai's: a presigned one, or its own, which takes the API token.
ResolveModel ==
    /\ At("url")
    /\ url' = IF input.url # None THEN input.url
              ELSE IF input.yatai = "presigned" THEN "https" ELSE "token"
    /\ To(IF input.url = None /\ input.yatai = "unset" THEN "rejected" ELSE "containers")
    /\ UNCHANGED <<input, envFrom, containers, account, faults>>

Container(does, credentials) == [does |-> does, envFrom |-> credentials, env |-> {}]

\* Mutant: the validator goes without the token.
ValidatorWithoutToken == Container("validate", {})

Validator == Container("validate", envFrom)

\* A Huggingface URL has at least three parts; only such a model has a validator.
AddContainers ==
    /\ At("containers")
    /\ containers' = (IF url = "hf" THEN <<Validator>> ELSE <<>>) \o <<Container("seed", envFrom)>>
    /\ To(IF url = "incomplete hf" THEN "rejected" ELSE "config")
    /\ UNCHANGED <<input, url, envFrom, account, faults>>

\* Pod spec and environment of the config map; the request's own are not looked at.
ReadConfig ==
    /\ At("config")
    /\ containers' = [i \in DOMAIN containers |-> [containers[i] EXCEPT !.env = input.config.env]]
    /\ account' = IF input.config.account # None THEN input.config.account ELSE account
    /\ To(IF input.config.broken THEN "rejected" ELSE "pod")
    /\ UNCHANGED <<input, url, envFrom, faults>>

\* A call fails: the template is made anew by the next Reconcile.
Fail ==
    /\ pc \in {"keys", "url", "config"}
    /\ faults < MaxFaults /\ faults' = faults + 1
    /\ To("keys")
    /\ url' = None /\ envFrom' = {} /\ containers' = <<>>
    /\ UNCHANGED <<input, account>>

Template == AddKeys \/ ResolveModel \/ AddContainers \/ ReadConfig

-----------------------------------------------------------------------------
\* The credentials that a download takes, and what Huggingface asks for.
Credential ==
    CASE url = "s3" -> {"aws"} [] url = "gs" -> {"gcs"} [] url = "token" -> {"apiToken"}
      [] url = "hf" -> IF input.gated THEN {"HF_TOKEN"} ELSE {}
      [] OTHER -> {}

\* No seeder has the bundle with the private certificate; a user may set one.
Trusted(c) == input.ca = "unset" \/ "SSL_CERT_FILE" \in c.env

(* The validator fails only on the header of a gated model: an answer it   *)
(* does not get, or does not trust, lets it pass.                          *)
Works(c) ==
    /\ Credential \subseteq c.envFrom \cup c.env
    /\ c.does = "seed" => Trusted(c)

\* The containers run in their order; the first that fails ends the pod.
RunContainer ==
    /\ At("pod")
    /\ IF Works(Head(containers))
       THEN /\ containers' = Tail(containers)
            /\ To(IF Len(containers) = 1 THEN "seeded" ELSE "pod")
       ELSE To("podFailed") /\ UNCHANGED containers
    /\ UNCHANGED <<input, url, envFrom, account, faults>>

Done == pc \in {"rejected", "podFailed", "seeded"} /\ UNCHANGED vars

Next == Template \/ Fail \/ RunContainer \/ Done

\* The worker goes on, and the pod's containers run.
Spec == Init /\ [][Next]_vars /\ WF_vars(Template) /\ WF_vars(RunContainer)

-----------------------------------------------------------------------------
(* A seeder whose settings can be read, and whose download somebody has    *)
(* provided credentials for, seeds its model: the template carries each    *)
(* credential to each container that takes it.                             *)
Provided ==
    /\ ~(input.url = None /\ input.yatai = "unset")
    /\ input.url # "incomplete hf" /\ ~input.config.broken
    /\ input.url = "s3" => input.awsKeys \/ "aws" \in input.ownEnvFrom
    /\ input.url = "gs" => "gcs" \in input.ownEnvFrom
    /\ input.url = "hf" /\ input.gated => "HF_TOKEN" \in input.ownEnvFrom \cup input.config.env
ProvidedSeedingSucceeds == Provided => <>(pc = "seeded")
=============================================================================
