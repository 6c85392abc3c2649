-------------------------- MODULE BuilderPodProofs ---------------------------
(***************************************************************************)
(* The pod of a builder job, for any settings, any models and any calls    *)
(* that fail: the image it makes holds the bento and exactly its models,   *)
(* and what is configured nearer to the request prevails.                  *)
(*                                                                         *)
(* Both are facts about lists that one step begins and later ones append   *)
(* to.  The invariant (PodInv) says, for each step of the template, what   *)
(* the lists hold by then; the volume follows the list of init containers  *)
(* as they run.                                                            *)
(***************************************************************************)
EXTENDS BuilderPod, FiniteSetTheorems, SequenceTheorems, WellFoundedInduction, TLAPS

-----------------------------------------------------------------------------
(* What the lists are made of. *)

\* All names that a part may set, in an environment or among the build arguments.
SettingNames ==
    {TrustedCA, "DOCKER_CONFIG", "AWS_ACCESS_KEY_ID", "AWS_EC2_METADATA_DISABLED", "BENTOML_BUILD_ARG"}
        \cup UNION {b.env \cup b.config.env \cup b.buildArgs \cup b.config.buildArgs
                       \cup b.config.builderArgs \cup b.secretArgs : b \in Builds}

Parts == [names : SUBSET SettingNames, from : {"builder", "config", "request", "proxy", "secret"}]

URLs ==
    {Nothing, "https", "token"} \cup {b.bentoURL : b \in Builds}
        \cup UNION {{b.models[m] : m \in Models} : b \in Builds}

Credentials == {"apiToken", "aws"} \cup UNION {b.ownEnvFrom : b \in Builds}

Containers ==
    [what : {"bundle", "bento"} \cup Models, url : URLs, envFrom : SUBSET Credentials, env : Seq(Parts)]

BuilderContainers == [user : {"root", "1000"}, args : Seq(Parts), env : Seq(Parts), s3 : BOOLEAN]

Volumes ==
    [done : Nat, files : SUBSET ({"bento"} \cup Models), bundle : BOOLEAN, owner : {"root", "1000"}]

PodTypeOK ==
    /\ input \in Builds
    /\ bentoURL \in URLs /\ envFrom \subseteq Credentials
    /\ init \in Seq(Containers)
    /\ builder \in BuilderContainers
    /\ volume \in Volumes

-----------------------------------------------------------------------------
(* The ways to list a set hold all of it and nothing else. *)

Covers(list, S) ==
    /\ list \in Seq(S)
    /\ \A x \in S : \E i \in DOMAIN list : list[i] = x

LEMMA ListsFacts ==
    ASSUME NEW S, IsFiniteSet(S), NEW list \in Lists(S)
    PROVE  Covers(list, S)
  <1>1. Cardinality(S) \in Nat  BY FS_CardinalityType
  <1>2. PICK n \in Nat : n = Cardinality(S)  BY <1>1
  <1>3. list \in [1 .. n -> S] /\ \A x \in S : \E i \in 1 .. n : list[i] = x
    BY <1>2 DEF Lists, Bijection, Surjection
  <1> QED  BY <1>3 DEF Covers

(* Two lists one after the other, and the downloaders they are made into.  *)
LEMMA ConcatFacts ==
    ASSUME NEW S, NEW s \in Seq(S), NEW t \in Seq(S),
           NEW st, st = s \o t
    PROVE  /\ st \in Seq(S)
           /\ Len(st) = Len(s) + Len(t)
           /\ \A i \in DOMAIN s : i \in DOMAIN st /\ st[i] = s[i]
           /\ \A i \in DOMAIN t : Len(s) + i \in DOMAIN st /\ st[Len(s) + i] = t[i]
           /\ \A i \in DOMAIN st : \/ i \in DOMAIN s /\ st[i] = s[i]
                                   \/ \E j \in DOMAIN t : i = Len(s) + j /\ st[i] = t[j]
  <1>1. /\ s \o t \in Seq(S) /\ Len(s \o t) = Len(s) + Len(t)
        /\ \A i \in 1 .. Len(s) + Len(t) :
              (s \o t)[i] = IF i <= Len(s) THEN s[i] ELSE t[i - Len(s)]
    BY ConcatProperties
  <1>2. st \in Seq(S)  BY <1>1
  <1>3. /\ Len(st) = Len(s) + Len(t) /\ DOMAIN st = 1 .. Len(st)
        /\ DOMAIN s = 1 .. Len(s) /\ DOMAIN t = 1 .. Len(t)
        /\ Len(s) \in Nat /\ Len(t) \in Nat
        /\ \A i \in 1 .. Len(s) + Len(t) : st[i] = IF i <= Len(s) THEN s[i] ELSE t[i - Len(s)]
    BY <1>1, LenProperties
  <1>4. \A i \in DOMAIN s : i \in DOMAIN st /\ st[i] = s[i]
    BY <1>3
  <1>5. ASSUME NEW i \in DOMAIN t
        PROVE  Len(s) + i \in DOMAIN st /\ st[Len(s) + i] = t[i]
    <2>1. /\ Len(s) + i \in 1 .. Len(s) + Len(t) /\ ~(Len(s) + i <= Len(s))
          /\ (Len(s) + i) - Len(s) = i
      BY <1>3
    <2> QED  BY <1>3, <2>1
  <1>6. ASSUME NEW i \in DOMAIN st
        PROVE  \/ i \in DOMAIN s /\ st[i] = s[i]
               \/ \E j \in DOMAIN t : i = Len(s) + j /\ st[i] = t[j]
    <2>1. CASE i <= Len(s)  BY <1>3, <2>1
    <2>2. CASE ~(i <= Len(s))
      <3>1. i - Len(s) \in DOMAIN t /\ i = Len(s) + (i - Len(s)) /\ st[i] = t[i - Len(s)]
        BY <1>3, <2>2
      <3> QED  BY <3>1
    <2> QED  BY <2>1, <2>2
  <1> QED  BY <1>2, <1>3, <1>4, <1>5, <1>6, Zenon

(* Two lists together hold what each of them holds. *)
LEMMA JoinedLists ==
    ASSUME NEW A, NEW B, NEW mine, Covers(mine, A), NEW others, Covers(others, B),
           NEW models, models = mine \o others
    PROVE  Covers(models, A \cup B)
  <1> DEFINE S == A \cup B
  <1>1. mine \in Seq(S) /\ others \in Seq(S)  BY DEF Covers
  <1>2. \A m \in S : m \in A \/ m \in B  OBVIOUS
  <1> HIDE DEF S
  <1>3. models \in Seq(S)  BY <1>1, ConcatFacts
  <1>4. /\ \A i \in DOMAIN mine : i \in DOMAIN models /\ models[i] = mine[i]
        /\ \A i \in DOMAIN others : Len(mine) + i \in DOMAIN models
                                     /\ models[Len(mine) + i] = others[i]
    BY <1>1, ConcatFacts
  <1>5. ASSUME NEW m \in S  PROVE \E i \in DOMAIN models : models[i] = m
    <2>1. CASE m \in A
      <3>1. PICK i \in DOMAIN mine : mine[i] = m  BY <2>1 DEF Covers
      <3> QED  BY <1>4, <3>1, Zenon
    <2>2. CASE m \in B
      <3>1. PICK i \in DOMAIN others : others[i] = m  BY <2>2 DEF Covers
      <3> QED  BY <1>4, <3>1, Zenon
    <2> QED  BY <1>2, <2>1, <2>2
  <1> QED  BY <1>3, <1>5, Zenon DEF Covers, S

-----------------------------------------------------------------------------
(* Types. *)

(* A part of well-known names is a list of one. *)
LEMMA PartType ==
    ASSUME NEW names \in SUBSET SettingNames,
           NEW from \in {"builder", "config", "request", "proxy", "secret"}
    PROVE  /\ Part(names, from) \in Seq(Parts)
           /\ Len(Part(names, from)) = 1
           /\ Part(names, from)[1].names = names
           /\ Part(names, from)[1].from = from
  <1>1. [names |-> names, from |-> from] \in Parts  BY DEF Parts
  <1> QED  BY <1>1 DEF Part

LEMMA KnownNames ==
    /\ {"AWS_EC2_METADATA_DISABLED"} \subseteq SettingNames /\ {"DOCKER_CONFIG"} \subseteq SettingNames
    /\ {"AWS_ACCESS_KEY_ID"} \subseteq SettingNames /\ {TrustedCA} \subseteq SettingNames
    /\ {"BENTOML_BUILD_ARG" : k \in input.secretArgs} \subseteq SettingNames
  BY DEF SettingNames

LEMMA GivenNames ==
    ASSUME input \in Builds
    PROVE  /\ input.env \subseteq SettingNames /\ input.config.env \subseteq SettingNames
           /\ input.buildArgs \subseteq SettingNames /\ input.config.buildArgs \subseteq SettingNames
           /\ input.config.builderArgs \subseteq SettingNames /\ input.secretArgs \subseteq SettingNames
           /\ ProxyArgs \subseteq SettingNames
  <1>1. input.env \cup input.config.env \cup input.buildArgs \cup input.config.buildArgs
            \cup input.config.builderArgs \cup input.secretArgs \subseteq SettingNames
    BY DEF SettingNames
  <1> QED  BY <1>1 DEF ProxyArgs

(* The environment that a user adds. *)
LEMMA ExtraEnvFacts ==
    ASSUME input \in Builds
    PROVE  /\ ExtraEnv \in Seq(Parts)
           /\ Len(ExtraEnv) = 2
           /\ ExtraEnv[1].names = input.config.env /\ ExtraEnv[1].from = "config"
           /\ ExtraEnv[2].names = input.env /\ ExtraEnv[2].from = "request"
  <1>1. PICK s \in Seq(Parts) :
            s = Part(input.config.env, "config") /\ Len(s) = 1
              /\ s[1].names = input.config.env /\ s[1].from = "config"
    BY PartType, GivenNames
  <1>2. PICK t \in Seq(Parts) :
            t = Part(input.env, "request") /\ Len(t) = 1
              /\ t[1].names = input.env /\ t[1].from = "request"
    BY PartType, GivenNames
  <1>3. s \o t \in Seq(Parts) /\ Len(s \o t) = 2 /\ (s \o t)[1] = s[1] /\ (s \o t)[2] = t[1]
    BY <1>1, <1>2
  <1>4. ExtraEnv = s \o t  BY <1>1, <1>2 DEF ExtraEnv
  <1> QED  BY <1>1, <1>2, <1>3, <1>4, Zenon

LEMMA DownloaderType ==
    ASSUME NEW what \in {"bento"} \cup Models, NEW url \in URLs, NEW credentials \in SUBSET Credentials
    PROVE  /\ Downloader(what, url, credentials) \in Containers
           /\ Downloader(what, url, credentials).what = what
           /\ Len(Downloader(what, url, credentials).env) = 1
           /\ Downloader(what, url, credentials).env[1].from = "builder"
  <1>1. PICK env \in Seq(Parts) :
            env = Part({"AWS_EC2_METADATA_DISABLED"}, "builder")
              /\ Len(env) = 1 /\ env[1].from = "builder"
    BY PartType, KnownNames
  <1>2. Downloader(what, url, credentials) =
            [what |-> what, url |-> url, envFrom |-> credentials, env |-> env]
    BY <1>1 DEF Downloader
  <1> QED  BY <1>1, <1>2 DEF Containers

LEMMA BundleMakerType ==
    /\ BundleMaker \in Containers /\ BundleMaker.what = "bundle"
    /\ BundleMaker.env = <<>>
  <1>1. <<>> \in Seq(Parts)  OBVIOUS
  <1> QED  BY <1>1 DEF BundleMaker, Containers, URLs

\* A container that trusts the bundle, or has the user's environment, is otherwise the same.
Longer(c, more) == [c EXCEPT !.env = @ \o more]

LEMMA LongerEnvironment ==
    ASSUME NEW c \in Containers, NEW more \in Seq(Parts)
    PROVE  /\ Longer(c, more) \in Containers
           /\ Longer(c, more).what = c.what
           /\ Longer(c, more).url = c.url /\ Longer(c, more).envFrom = c.envFrom
           /\ Longer(c, more).env = c.env \o more
  <1>1. c.env \in Seq(Parts)  BY DEF Containers
  <1> DEFINE env == c.env \o more
  <1>2. env \in Seq(Parts)  BY <1>1
  <1> HIDE DEF env
  <1>3. Longer(c, more) = [c EXCEPT !.env = env]  BY DEF Longer, env
  <1>4. /\ Longer(c, more) \in Containers
        /\ Longer(c, more).what = c.what
        /\ Longer(c, more).url = c.url /\ Longer(c, more).envFrom = c.envFrom
        /\ Longer(c, more).env = env
    BY <1>2, <1>3 DEF Containers
  <1> QED  BY <1>4 DEF env

\* What each container of a list is made into, and nothing is added or removed.
LEMMA EachContainer ==
    ASSUME NEW list \in Seq(Containers), NEW more \in Seq(Parts)
    PROVE  \E longer \in Seq(Containers) :
              /\ longer = [i \in DOMAIN list |-> Longer(list[i], more)]
              /\ DOMAIN longer = DOMAIN list
              /\ \A i \in DOMAIN list : /\ longer[i].what = list[i].what
                                        /\ longer[i].url = list[i].url
                                        /\ longer[i].envFrom = list[i].envFrom
                                        /\ longer[i].env = list[i].env \o more
  <1> DEFINE longer == [i \in DOMAIN list |-> Longer(list[i], more)]
  <1>1. \A i \in DOMAIN list : list[i] \in Containers  OBVIOUS
  <1>2. /\ DOMAIN longer = DOMAIN list
        /\ \A i \in DOMAIN list : longer[i] = Longer(list[i], more)
    OBVIOUS
  <1>3. longer = [i \in DOMAIN list |-> Longer(list[i], more)]  OBVIOUS
  <1> HIDE DEF longer
  <1>4. ASSUME NEW i \in DOMAIN list
        PROVE  /\ longer[i] \in Containers
               /\ longer[i].what = list[i].what
               /\ longer[i].url = list[i].url
               /\ longer[i].envFrom = list[i].envFrom
               /\ longer[i].env = list[i].env \o more
    <2>1. PICK c \in Containers : c = list[i] /\ longer[i] = Longer(c, more)  BY <1>1, <1>2, Zenon
    <2>2. /\ Longer(c, more) \in Containers
          /\ Longer(c, more).what = c.what
          /\ Longer(c, more).url = c.url /\ Longer(c, more).envFrom = c.envFrom
          /\ Longer(c, more).env = c.env \o more
      BY LongerEnvironment
    <2> QED  BY <2>1, <2>2, Zenon
  <1>5. longer \in Seq(Containers)
    <2>1. PICK n \in Nat : DOMAIN list = 1 .. n  BY LenProperties
    <2>2. longer \in [1 .. n -> Containers]
      <3>1. longer = [i \in 1 .. n |-> Longer(list[i], more)]  BY <1>3, <2>1
      <3>2. \A i \in 1 .. n : Longer(list[i], more) \in Containers  BY <1>2, <1>4, <2>1, Zenon
      <3> QED  BY <3>1, <3>2
    <2> QED  BY <2>2
  <1>6. \A i \in DOMAIN list : /\ longer[i].what = list[i].what
                               /\ longer[i].url = list[i].url
                               /\ longer[i].envFrom = list[i].envFrom
                               /\ longer[i].env = list[i].env \o more
    BY <1>4
  <1> QED  BY <1>2, <1>3, <1>5, <1>6, Zenon

-----------------------------------------------------------------------------
(* What the steps that make lists longer append.                           *)

\* An environment that the image builder itself has made.
OwnEnv(env) == \A i \in DOMAIN env : env[i].from = "builder"

\* The models that the image should hold.
Wanted == Downloaded(RequestModels) \cup Downloaded(ManifestModels)

Whats(list) == {list[i].what : i \in DOMAIN list}

LEMMA ModelURLType ==
    ASSUME input \in Builds, NEW m \in Models
    PROVE  ModelURL(m) \in URLs
  BY DEF ModelURL, Listed, YataiURL, FromYatai, Nothing, URLs

LEMMA OwnPart ==
    ASSUME NEW names \in SUBSET SettingNames
    PROVE  /\ OwnEnv(Part(names, "builder"))
           /\ Part(names, "builder") \in Seq(Parts)
  <1>1. PICK s \in Seq(Parts) : s = Part(names, "builder") /\ Len(s) = 1 /\ s[1].from = "builder"
    BY PartType
  <1>2. \A i \in DOMAIN s : i = 1  BY <1>1
  <1>3. OwnEnv(s)  BY <1>1, <1>2, Zenon DEF OwnEnv
  <1> QED  BY <1>1, <1>3, Zenon

LEMMA OwnDownloader ==
    ASSUME NEW what \in {"bento"} \cup Models, NEW url \in URLs, NEW credentials \in SUBSET Credentials
    PROVE  /\ Downloader(what, url, credentials) \in Containers
           /\ Downloader(what, url, credentials).what = what
           /\ OwnEnv(Downloader(what, url, credentials).env)
  <1>1. PICK env \in Seq(Parts) :
            env = Part({"AWS_EC2_METADATA_DISABLED"}, "builder") /\ OwnEnv(env)
    BY OwnPart, KnownNames
  <1>2. Downloader(what, url, credentials).env = env
    BY <1>1 DEF Downloader
  <1> QED  BY <1>1, <1>2, DownloaderType, Zenon

LEMMA BentoIsListed ==
    ASSUME PodTypeOK, AddBentoDownloader
    PROVE  /\ envFrom' \subseteq Credentials
           /\ \E d \in Containers : init' = <<d>> /\ d.what = "bento" /\ OwnEnv(d.env)
  <1>1. envFrom' \subseteq Credentials
    BY DEF AddBentoDownloader, AWSKeys, PodTypeOK, Credentials
  <1> DEFINE d == Downloader("bento", bentoURL, envFrom')
  <1>2. init' = <<d>>  BY DEF AddBentoDownloader
  <1>3. d \in Containers /\ d.what = "bento" /\ OwnEnv(d.env)
    BY <1>1, OwnDownloader DEF PodTypeOK
  <1> QED  BY <1>1, <1>2, <1>3

LEMMA ModelsAreListed ==
    ASSUME PodTypeOK, AddModelDownloaders
    PROVE  \E new \in Seq(Containers) :
              /\ init' = init \o new
              /\ Whats(new) = Wanted
              /\ \A i \in DOMAIN new : OwnEnv(new[i].env)
              /\ \A i \in DOMAIN new : \E m \in Models : new[i] = Downloader(m, ModelURL(m), envFrom)
  <1> DEFINE A == Downloaded(RequestModels)
             B == Downloaded(ManifestModels)
             D(m) == Downloader(m, ModelURL(m), envFrom)
  <1>1. A \subseteq Models /\ B \subseteq Models
    BY DEF Downloaded, RequestModels, ManifestModels
  <1>2. IsFiniteSet(A) /\ IsFiniteSet(B)  BY <1>1, FS_Subset, BuildsAssumption
  <1> HIDE DEF A, B
  <1>3. PICK mine \in Lists(A), others \in Lists(B) :
            init' = init \o [i \in DOMAIN (mine \o others) |-> D((mine \o others)[i])]
    BY DEF AddModelDownloaders, A, B
  <1>4. Covers(mine, A) /\ Covers(others, B)  BY <1>2, ListsFacts
  <1>5. PICK models : models = mine \o others /\ Covers(models, A \cup B)
    <2>1. PICK models : models = mine \o others  OBVIOUS
    <2>2. Covers(models, A \cup B)  BY <1>4, <2>1, JoinedLists
    <2> QED  BY <2>1, <2>2, Zenon
  <1>6. \A m \in A \cup B : D(m) \in Containers /\ D(m).what = m /\ OwnEnv(D(m).env)
    <2>1. ASSUME NEW m \in A \cup B  PROVE D(m) \in Containers /\ D(m).what = m /\ OwnEnv(D(m).env)
      <3>1. m \in Models /\ m \in {"bento"} \cup Models  BY <1>1
      <3>2. ModelURL(m) \in URLs  BY <3>1, ModelURLType DEF PodTypeOK
      <3>3. envFrom \in SUBSET Credentials  BY DEF PodTypeOK
      <3> QED  BY <3>1, <3>2, <3>3, OwnDownloader
    <2> QED  BY <2>1
  <1> DEFINE new == [i \in DOMAIN models |-> D(models[i])]
  <1> HIDE DEF D
  <1>7. init' = init \o new  BY <1>3, <1>5, Zenon
  <1>8. \A i \in DOMAIN models : models[i] \in A \cup B  BY <1>5, ElementOfSeq DEF Covers
  <1>9. DOMAIN new = DOMAIN models /\ \A i \in DOMAIN models : new[i] = D(models[i])  OBVIOUS
  <1>10. new \in Seq(Containers)
    <2>1. PICK n \in Nat : DOMAIN models = 1 .. n  BY <1>5, LenProperties DEF Covers
    <2>2. new \in [1 .. n -> Containers]  BY <1>6, <1>8, <2>1
    <2> QED  BY <2>2
  <1> HIDE DEF new
  <1>11. Whats(new) = A \cup B
    <2>1. \A i \in DOMAIN new : new[i].what = models[i] /\ new[i].what \in A \cup B
      <3>1. ASSUME NEW i \in DOMAIN new
            PROVE  new[i].what = models[i] /\ new[i].what \in A \cup B
        <4>1. models[i] \in A \cup B /\ new[i] = D(models[i])  BY <1>8, <1>9, Zenon
        <4>2. new[i].what = models[i]  BY <1>6, <4>1, Zenon
        <4> QED  BY <4>1, <4>2, Zenon
      <3> QED  BY <3>1
    <2>2. \A m \in A \cup B : \E i \in DOMAIN new : new[i].what = m
      <3>1. ASSUME NEW m \in A \cup B  PROVE \E i \in DOMAIN new : new[i].what = m
        <4>1. PICK i \in DOMAIN models : models[i] = m  BY <1>5 DEF Covers
        <4> QED  BY <1>9, <2>1, <4>1
      <3> QED  BY <3>1
    <2> QED  BY <2>1, <2>2 DEF Whats
  <1>12. \A i \in DOMAIN new : OwnEnv(new[i].env)  BY <1>6, <1>8, <1>9, Zenon
  <1>13. ASSUME NEW i \in DOMAIN new
         PROVE  \E m \in Models : new[i] = Downloader(m, ModelURL(m), envFrom)
    <2>1. models[i] \in A \cup B /\ new[i] = D(models[i])  BY <1>8, <1>9, Zenon
    <2>2. models[i] \in Models  BY <1>1, <2>1
    <2> QED  BY <2>1, <2>2 DEF D
  <1> QED  BY <1>7, <1>10, <1>11, <1>12, <1>13 DEF Wanted, A, B


-----------------------------------------------------------------------------
(* Lists one after the other, once more: environments, and containers.     *)

LEMMA OwnConcat ==
    ASSUME NEW s \in Seq(Parts), OwnEnv(s), NEW t \in Seq(Parts), OwnEnv(t), NEW st, st = s \o t
    PROVE  st \in Seq(Parts) /\ OwnEnv(st)
  <1>1. /\ st \in Seq(Parts)
        /\ \A i \in DOMAIN st : \/ i \in DOMAIN s /\ st[i] = s[i]
                                \/ \E j \in DOMAIN t : st[i] = t[j]
    BY ConcatFacts
  <1> QED  BY <1>1, Zenon DEF OwnEnv

AllOwn(list) == \A i \in DOMAIN list : OwnEnv(list[i].env)

LEMMA ContainersConcat ==
    ASSUME NEW s \in Seq(Containers), NEW t \in Seq(Containers), NEW st, st = s \o t
    PROVE  /\ st \in Seq(Containers)
           /\ Whats(st) = Whats(s) \cup Whats(t)
           /\ AllOwn(s) /\ AllOwn(t) => AllOwn(st)
  <1>1. /\ st \in Seq(Containers)
        /\ \A i \in DOMAIN s : i \in DOMAIN st /\ st[i] = s[i]
        /\ \A i \in DOMAIN t : Len(s) + i \in DOMAIN st /\ st[Len(s) + i] = t[i]
        /\ \A i \in DOMAIN st : \/ i \in DOMAIN s /\ st[i] = s[i]
                                \/ \E j \in DOMAIN t : st[i] = t[j]
    BY ConcatFacts
  <1>2. Whats(s) \subseteq Whats(st)  BY <1>1 DEF Whats
  <1>3. Whats(t) \subseteq Whats(st)
    <2>1. ASSUME NEW i \in DOMAIN t  PROVE t[i].what \in Whats(st)
      <3>1. Len(s) + i \in DOMAIN st /\ st[Len(s) + i].what = t[i].what  BY <1>1, Zenon
      <3> QED  BY <3>1, Zenon DEF Whats
    <2> QED  BY <2>1 DEF Whats
  <1>4. ASSUME NEW i \in DOMAIN st  PROVE st[i].what \in Whats(s) \cup Whats(t)
    <2>1. CASE i \in DOMAIN s /\ st[i] = s[i]  BY <2>1 DEF Whats
    <2>2. CASE \E j \in DOMAIN t : st[i] = t[j]  BY <2>2 DEF Whats
    <2> QED  BY <1>1, <2>1, <2>2
  <1>5. Whats(st) \subseteq Whats(s) \cup Whats(t)  BY <1>4 DEF Whats
  <1>6. ASSUME AllOwn(s), AllOwn(t)  PROVE AllOwn(st)
    BY <1>1, <1>6, Zenon DEF AllOwn
  <1> QED  BY <1>1, <1>2, <1>3, <1>5, <1>6

(* A list of one container. *)
LEMMA OneContainer ==
    ASSUME NEW c \in Containers, NEW list, list = <<c>>
    PROVE  /\ list \in Seq(Containers) /\ Whats(list) = {c.what}
           /\ OwnEnv(c.env) => AllOwn(list)
  <1>1. list \in Seq(Containers) /\ DOMAIN list = {1} /\ list[1] = c  OBVIOUS
  <1>2. \A i \in DOMAIN list : i = 1  BY <1>1
  <1>3. Whats(list) = {c.what}  BY <1>1 DEF Whats
  <1>4. OwnEnv(c.env) => AllOwn(list)  BY <1>1, <1>2, Zenon DEF AllOwn
  <1> QED  BY <1>1, <1>3, <1>4

-----------------------------------------------------------------------------
(* What the certificate and the user's environment make of the containers. *)

LEMMA CACertInjected ==
    ASSUME PodTypeOK, AllOwn(init), OwnEnv(builder.env), InjectCACert
    PROVE  /\ init' \in Seq(Containers) /\ AllOwn(init')
           /\ Whats(init') \ {"bundle"} = Whats(init) \ {"bundle"}
           /\ builder' \in BuilderContainers
           /\ OwnEnv(builder'.env) /\ builder'.args = builder.args
  <1>1. CASE input.ca # "ready"
    BY <1>1 DEF InjectCACert, PodTypeOK
  <1>2. CASE input.ca = "ready"
    <2>1. PICK more \in Seq(Parts) : more = Part({TrustedCA}, "builder") /\ OwnEnv(more)
      BY OwnPart, KnownNames
    <2>2. \A c : Trusting(c) = Longer(c, more)  BY <2>1, Zenon DEF Trusting, Longer
    <2>3. PICK longer \in Seq(Containers) :
              /\ longer = [i \in DOMAIN init |-> Longer(init[i], more)]
              /\ DOMAIN longer = DOMAIN init
              /\ \A i \in DOMAIN init : /\ longer[i].what = init[i].what
                                        /\ longer[i].env = init[i].env \o more
      BY EachContainer DEF PodTypeOK
    <2>4. init' = <<BundleMaker>> \o longer
      <3>1. init' = <<BundleMaker>> \o [i \in DOMAIN init |-> Trusting(init[i])]
        BY <1>2 DEF InjectCACert
      <3> QED  BY <2>2, <2>3, <3>1, Zenon
    <2>5. PICK first : first = <<BundleMaker>>  OBVIOUS
    <2>6. first \in Seq(Containers) /\ Whats(first) = {"bundle"} /\ AllOwn(first)
      <3>1. OwnEnv(BundleMaker.env)  BY BundleMakerType DEF OwnEnv
      <3> QED  BY <2>5, <3>1, BundleMakerType, OneContainer, Zenon
    <2>7. AllOwn(longer)
      <3>1. ASSUME NEW i \in DOMAIN longer  PROVE OwnEnv(longer[i].env)
        <4>1. init[i] \in Containers /\ OwnEnv(init[i].env)  BY <2>3, <3>1, ElementOfSeq DEF PodTypeOK, AllOwn
        <4>2. init[i].env \in Seq(Parts)  BY <4>1 DEF Containers
        <4> QED  BY <2>1, <2>3, <4>1, <4>2, OwnConcat
      <3> QED  BY <3>1 DEF AllOwn
    <2>8. Whats(longer) = Whats(init)  BY <2>3 DEF Whats
    <2>9. /\ init' \in Seq(Containers) /\ AllOwn(init')
          /\ Whats(init') = {"bundle"} \cup Whats(init)
      <3>1. init' = first \o longer  BY <2>4, <2>5, Zenon
      <3>2. /\ init' \in Seq(Containers)
            /\ Whats(init') = Whats(first) \cup Whats(longer)
            /\ AllOwn(first) /\ AllOwn(longer) => AllOwn(init')
        BY <2>6, <3>1, ContainersConcat, Zenon
      <3> QED  BY <2>6, <2>7, <2>8, <3>2
    <2>10. PICK env : env = builder.env \o more  OBVIOUS
    <2>11. env \in Seq(Parts) /\ OwnEnv(env)  BY <2>1, <2>10, OwnConcat DEF PodTypeOK, BuilderContainers
    <2>12. builder' = [builder EXCEPT !.env = env]
      BY <1>2, <2>1, <2>10, Zenon DEF InjectCACert, Trusting
    <2>13. /\ builder' \in BuilderContainers
           /\ builder'.env = env /\ builder'.args = builder.args
      BY <2>11, <2>12 DEF PodTypeOK, BuilderContainers
    <2> QED  BY <2>9, <2>11, <2>13
  <1> QED  BY <1>1, <1>2

\* An environment that the user's variables were appended to.
ExtendedEnv(env) ==
    \E n \in Nat :
        /\ DOMAIN env = 1 .. n + 2
        /\ \A i \in 1 .. n : env[i].from = "builder"
        /\ env[n + 1].names = input.config.env /\ env[n + 1].from = "config"
        /\ env[n + 2].names = input.env /\ env[n + 2].from = "request"

LEMMA ExtraEnvExtends ==
    ASSUME input \in Builds, NEW own \in Seq(Parts), OwnEnv(own), NEW env, env = own \o ExtraEnv
    PROVE  env \in Seq(Parts) /\ ExtendedEnv(env)
  <1>1. PICK extra \in Seq(Parts) :
            /\ extra = ExtraEnv /\ Len(extra) = 2
            /\ extra[1].names = input.config.env /\ extra[1].from = "config"
            /\ extra[2].names = input.env /\ extra[2].from = "request"
    BY ExtraEnvFacts, Zenon
  <1>2. env = own \o extra  BY <1>1, Zenon
  <1>3. /\ env \in Seq(Parts) /\ Len(env) = Len(own) + Len(extra)
        /\ \A i \in DOMAIN own : i \in DOMAIN env /\ env[i] = own[i]
        /\ \A i \in DOMAIN extra : env[Len(own) + i] = extra[i]
    BY <1>2, ConcatFacts
  <1>4. PICK n \in Nat : n = Len(own) /\ DOMAIN own = 1 .. n  BY LenProperties
  <1>5. DOMAIN env = 1 .. n + 2  BY <1>1, <1>3, <1>4, LenProperties
  <1>6. \A i \in 1 .. n : env[i].from = "builder"  BY <1>3, <1>4, Zenon DEF OwnEnv
  <1>7. 1 \in DOMAIN extra /\ 2 \in DOMAIN extra  BY <1>1, LenProperties
  <1>8. env[n + 1] = extra[1] /\ env[n + 2] = extra[2]  BY <1>3, <1>4, <1>7, Zenon
  <1>9. ExtendedEnv(env)  BY <1>1, <1>5, <1>6, <1>8, Zenon DEF ExtendedEnv
  <1> QED  BY <1>3, <1>9

AllExtended(list) == \A i \in DOMAIN list : ExtendedEnv(list[i].env)

LEMMA EnvironmentAdded ==
    ASSUME PodTypeOK, AllOwn(init), OwnEnv(builder.env), AddEnvironment
    PROVE  /\ init' \in Seq(Containers) /\ AllExtended(init') /\ Whats(init') = Whats(init)
           /\ builder' \in BuilderContainers
           /\ ExtendedEnv(builder'.env) /\ builder'.args = builder.args
  <1>1. input \in Builds  BY DEF PodTypeOK
  <1>2. PICK extra \in Seq(Parts) : extra = ExtraEnv  BY <1>1, ExtraEnvFacts
  <1>3. PICK longer \in Seq(Containers) :
            /\ longer = [i \in DOMAIN init |-> Longer(init[i], extra)]
            /\ DOMAIN longer = DOMAIN init
            /\ \A i \in DOMAIN init : /\ longer[i].what = init[i].what
                                      /\ longer[i].env = init[i].env \o extra
    BY EachContainer DEF PodTypeOK
  <1>4. init' = longer
    <2>1. init' = [i \in DOMAIN init |-> Longer(init[i], extra)]
      BY <1>2, Zenon DEF AddEnvironment, Longer
    <2> QED  BY <1>3, <2>1, Zenon
  <1>5. AllExtended(longer)
    <2>1. ASSUME NEW i \in DOMAIN longer  PROVE ExtendedEnv(longer[i].env)
      <3>1. init[i] \in Containers /\ OwnEnv(init[i].env)  BY <1>3, <2>1, ElementOfSeq DEF PodTypeOK, AllOwn
      <3>2. init[i].env \in Seq(Parts)  BY <3>1 DEF Containers
      <3>3. longer[i].env = init[i].env \o ExtraEnv  BY <1>2, <1>3, <2>1, Zenon
      <3> QED  BY <1>1, <3>1, <3>2, <3>3, ExtraEnvExtends, Zenon
    <2> QED  BY <2>1 DEF AllExtended
  <1>6. Whats(longer) = Whats(init)  BY <1>3 DEF Whats
  <1>7. PICK env : env = builder.env \o ExtraEnv  OBVIOUS
  <1>8. env \in Seq(Parts) /\ ExtendedEnv(env)
    <2>1. builder.env \in Seq(Parts)  BY DEF PodTypeOK, BuilderContainers
    <2> QED  BY <1>1, <1>7, <2>1, ExtraEnvExtends, Zenon
  <1>9. builder' = [builder EXCEPT !.env = env]  BY <1>7, Zenon DEF AddEnvironment
  <1>10. /\ builder' \in BuilderContainers
         /\ builder'.env = env /\ builder'.args = builder.args
    BY <1>8, <1>9 DEF PodTypeOK, BuilderContainers
  <1>11. ExtendedEnv(builder'.env)  BY <1>8, <1>10, Zenon
  <1>12. init' \in Seq(Containers) /\ AllExtended(init') /\ Whats(init') = Whats(init)
    BY <1>3, <1>4, <1>5, <1>6, Zenon
  <1> QED  BY <1>10, <1>11, <1>12

-----------------------------------------------------------------------------
(* The last part that sets a name. *)

(* Every set of indices has a greatest one: the rest from it on, n - i, is *)
(* a set of natural numbers, and these are well-founded.                   *)
LEMMA GreatestIndex ==
    ASSUME NEW n \in Nat, NEW T, T \subseteq 1 .. n, T # {}
    PROVE  \E x \in T : \A y \in T : y <= x
  <1> DEFINE rest == {n - y : y \in T}
             less == OpToRel(<, Nat)
  <1>1. rest \subseteq Nat /\ rest # {}
    <2>1. \A y \in T : n - y \in Nat  OBVIOUS
    <2>2. PICK y \in T : TRUE  OBVIOUS
    <2>3. n - y \in rest  BY <2>2
    <2> HIDE DEF less
    <2>4. rest \subseteq Nat  BY <2>1
    <2> QED  BY <2>3, <2>4
  <1>2. IsWellFoundedOn(less, Nat)  BY NatLessThanWellFounded
  <1>3. \A x, y \in Nat : y < x => <<y, x>> \in less
    <2>1. ASSUME NEW x \in Nat, NEW y \in Nat, y < x  PROVE <<y, x>> \in less
      BY <2>1 DEF OpToRel
    <2> QED  BY <2>1
  <1> HIDE DEF less, rest
  <1>4. PICK x \in rest : \A y \in rest : ~(<<y, x>> \in less)  BY <1>1, <1>2, WFMin
  <1>5. PICK y \in T : x = n - y  BY DEF rest
  <1>6. ASSUME NEW z \in T  PROVE z <= y
    <2>1. n - z \in rest  BY DEF rest
    <2>2. ~(n - z < x)  BY <1>1, <1>3, <1>4, <2>1
    <2> QED  BY <1>5, <2>2
  <1> QED  BY <1>6

LEMMA PrevailsIsLast ==
    ASSUME NEW n \in Nat, NEW list, DOMAIN list = 1 .. n, NEW name
    PROVE  \/ /\ \A i \in DOMAIN list : name \notin list[i].names
              /\ Prevails(list, name) = Nothing
           \/ \E i \in DOMAIN list :
                  /\ name \in list[i].names /\ Prevails(list, name) = list[i].from
                  /\ \A j \in DOMAIN list : name \in list[j].names => j <= i
  <1> DEFINE with == {i \in DOMAIN list : name \in list[i].names}
  <1>1. CASE with = {}  BY <1>1 DEF Prevails
  <1>2. CASE with # {}
    <2>1. PICK x \in with : \A y \in with : y <= x
      <3>1. with \subseteq 1 .. n  OBVIOUS
      <3> HIDE DEF with
      <3> QED  BY <1>2, <3>1, GreatestIndex
    <2> DEFINE last == CHOOSE i \in with : \A j \in with : j <= i
    <2>2. last \in with /\ \A j \in with : j <= last
      <3> HIDE DEF with
      <3> QED  BY <2>1
    <2>3. Prevails(list, name) = list[last].from  BY <1>2 DEF Prevails
    <2> HIDE DEF last
    <2> QED  BY <2>2, <2>3
  <1> QED  BY <1>1, <1>2

LEMMA EnvironmentPrevails ==
    ASSUME NEW env, ExtendedEnv(env), NEW name
    PROVE  Prevails(env, name) \in Said(name \in input.env, name \in input.config.env)
  <1>1. PICK n \in Nat :
            /\ DOMAIN env = 1 .. n + 2
            /\ \A i \in 1 .. n : env[i].from = "builder"
            /\ env[n + 1].names = input.config.env /\ env[n + 1].from = "config"
            /\ env[n + 2].names = input.env /\ env[n + 2].from = "request"
    BY DEF ExtendedEnv
  <1>2. \A i \in DOMAIN env : i \in 1 .. n \/ i = n + 1 \/ i = n + 2  BY <1>1
  <1>3. n + 1 \in DOMAIN env /\ n + 2 \in DOMAIN env /\ ~(n + 2 <= n + 1)  BY <1>1
  <1>4. CASE /\ \A i \in DOMAIN env : name \notin env[i].names
             /\ Prevails(env, name) = Nothing
    <2>1. name \notin input.env /\ name \notin input.config.env  BY <1>1, <1>3, <1>4, Zenon
    <2> QED  BY <1>4, <2>1 DEF Said
  <1>5. CASE \E i \in DOMAIN env :
                 /\ name \in env[i].names /\ Prevails(env, name) = env[i].from
                 /\ \A j \in DOMAIN env : name \in env[j].names => j <= i
    <2>1. PICK i \in DOMAIN env :
              /\ name \in env[i].names /\ Prevails(env, name) = env[i].from
              /\ \A j \in DOMAIN env : name \in env[j].names => j <= i
      BY <1>5
    <2>2. CASE i \in 1 .. n
      <3>1. ~(n + 1 <= i) /\ ~(n + 2 <= i)  BY <2>2
      <3>2. name \notin input.env /\ name \notin input.config.env  BY <1>1, <1>3, <2>1, <3>1, Zenon
      <3>3. Prevails(env, name) = "builder"  BY <1>1, <2>1, <2>2, Zenon
      <3> QED  BY <3>2, <3>3 DEF Said
    <2>3. CASE i = n + 1
      <3>1. name \notin input.env /\ name \in input.config.env  BY <1>1, <1>3, <2>1, <2>3, Zenon
      <3>2. Prevails(env, name) = "config"  BY <1>1, <2>1, <2>3, Zenon
      <3> QED  BY <3>1, <3>2 DEF Said
    <2>4. CASE i = n + 2
      <3>1. name \in input.env  BY <1>1, <2>1, <2>4, Zenon
      <3>2. Prevails(env, name) = "request"  BY <1>1, <2>1, <2>4, Zenon
      <3> QED  BY <3>1, <3>2 DEF Said
    <2> QED  BY <1>2, <2>2, <2>3, <2>4
  <1>6. n + 2 \in Nat  OBVIOUS
  <1> QED  BY <1>1, <1>4, <1>5, <1>6, PrevailsIsLast, Zenon

\* Arguments that begin with those that somebody gave, and the proxies nobody gave.
GivenFirst(args) ==
    /\ 1 \in DOMAIN args /\ args[1].names = input.config.buildArgs /\ args[1].from = "config"
    /\ 2 \in DOMAIN args /\ args[2].names = input.buildArgs /\ args[2].from = "request"
    /\ 3 \in DOMAIN args /\ args[3].names = ProxyArgs
    /\ \A i \in DOMAIN args :
          i \in {1, 2, 3} \/ args[i].names \subseteq input.config.builderArgs \cup input.secretArgs

LEMMA ArgumentsPrevail ==
    ASSUME NEW args \in Seq(Parts), GivenFirst(args),
           NEW k \in (input.buildArgs \cup input.config.buildArgs)
                         \ (input.secretArgs \cup input.config.builderArgs)
    PROVE  Prevails(args, k) \in Said(k \in input.buildArgs, TRUE)
  <1>1. PICK n \in Nat : DOMAIN args = 1 .. n  BY LenProperties
  <1>2. k \notin ProxyArgs  BY DEF ProxyArgs
  <1>3. ASSUME NEW i \in DOMAIN args, k \in args[i].names
        PROVE  (i = 1 /\ k \in input.config.buildArgs) \/ (i = 2 /\ k \in input.buildArgs)
    BY <1>2, <1>3 DEF GivenFirst
  <1>4. /\ k \in input.buildArgs => k \in args[2].names
        /\ k \in input.config.buildArgs => k \in args[1].names
    BY DEF GivenFirst
  <1>5. PICK i \in DOMAIN args :
            /\ k \in args[i].names /\ Prevails(args, k) = args[i].from
            /\ \A j \in DOMAIN args : k \in args[j].names => j <= i
    <2>1. ~(\A i \in DOMAIN args : k \notin args[i].names)  BY <1>4 DEF GivenFirst
    <2> QED  BY <1>1, <2>1, PrevailsIsLast, Zenon
  <1>6. CASE k \in input.buildArgs
    <2>1. 2 <= i  BY <1>4, <1>5, <1>6 DEF GivenFirst
    <2>2. i = 2  BY <1>3, <1>5, <2>1
    <2>3. Prevails(args, k) = "request"  BY <1>5, <2>2 DEF GivenFirst
    <2> QED  BY <1>6, <2>3 DEF Said
  <1>7. CASE k \notin input.buildArgs
    <2>1. i = 1  BY <1>3, <1>5, <1>7
    <2>2. Prevails(args, k) = "config"  BY <1>5, <2>1 DEF GivenFirst
    <2> QED  BY <1>7, <2>2 DEF Said
  <1> QED  BY <1>6, <1>7

(* More options after the given arguments, or the given ones alone.        *)
LEMMA GivenThenMore ==
    ASSUME NEW args \in Seq(Parts), GivenFirst(args), NEW more \in Seq(Parts),
           \A i \in DOMAIN more : more[i].names \subseteq input.config.builderArgs \cup input.secretArgs,
           NEW all, all = args \o more
    PROVE  all \in Seq(Parts) /\ GivenFirst(all)
  <1>1. /\ all \in Seq(Parts)
        /\ \A i \in DOMAIN args : i \in DOMAIN all /\ all[i] = args[i]
        /\ \A i \in DOMAIN all : \/ i \in DOMAIN args /\ all[i] = args[i]
                                 \/ \E j \in DOMAIN more : all[i] = more[j]
    BY ConcatFacts
  <1>2. ASSUME NEW i \in DOMAIN all
        PROVE  i \in {1, 2, 3} \/ all[i].names \subseteq input.config.builderArgs \cup input.secretArgs
    <2>1. CASE i \in DOMAIN args /\ all[i] = args[i]  BY <2>1, Zenon DEF GivenFirst
    <2>2. CASE \E j \in DOMAIN more : all[i] = more[j]  BY <2>2, Zenon
    <2> QED  BY <1>1, <2>1, <2>2, Zenon
  <1>3. \A i \in {1, 2, 3} : i \in DOMAIN args /\ i \in DOMAIN all /\ all[i] = args[i]
    BY <1>1 DEF GivenFirst
  <1>4. GivenFirst(all)  BY <1>2, <1>3 DEF GivenFirst
  <1> QED  BY <1>1, <1>4

LEMMA GivenAlone ==
    ASSUME NEW args \in Seq(Parts), GivenFirst(args), NEW first, first = SubSeq(args, 1, 3)
    PROVE  first \in Seq(Parts) /\ GivenFirst(first)
  <1>1. 3 <= Len(args) /\ Len(args) \in Nat  BY LenProperties DEF GivenFirst
  <1>2. /\ first \in Seq(Parts) /\ DOMAIN first = {1, 2, 3}
        /\ first[1] = args[1] /\ first[2] = args[2] /\ first[3] = args[3]
    BY <1>1
  <1> QED  BY <1>2, Zenon DEF GivenFirst

-----------------------------------------------------------------------------
(* The invariant. *)

Making ==
    {"bento", "aws", "models", "config", "engine", "secretArgs", "command", "caCert", "podSpec", "environment"}

\* The containers that the template has by then.
Gathered ==
    /\ pc = "models" => Whats(init) = {"bento"}
    /\ pc \in {"config", "engine", "secretArgs", "command", "caCert"} => Whats(init) = {"bento"} \cup Wanted
    /\ pc \in {"podSpec", "environment", "pod"} => Whats(init) \ {"bundle"} = ({"bento"} \cup Wanted) \ {"bundle"}

\* The containers that are done have left what they are for.
Filled ==
    /\ pc \in Making => volume = EmptyVolume
    /\ pc = "pod" => /\ volume.done <= Len(init)
                     /\ volume.files = {init[i].what : i \in 1 .. volume.done} \ {"bundle"}
    /\ pc = "built" => image.files = {"bento"} \cup Wanted

\* The user's variables come last, in every container.
Environments ==
    /\ pc \in Making => AllOwn(init) /\ OwnEnv(builder.env)
    /\ pc = "pod" => AllExtended(init) /\ ExtendedEnv(builder.env)

Arguments ==
    pc \in {"engine", "secretArgs", "command", "caCert", "podSpec", "environment", "pod"} => GivenFirst(builder.args)

Account == pc \in {"environment", "pod"} /\ input.account # Nothing => account = input.account

PodInv == PodTypeOK /\ Gathered /\ Filled /\ Environments /\ Arguments /\ Account

LEMMA WantedModels ==
    ASSUME input \in Builds
    PROVE  /\ Wanted \subseteq Models /\ "bundle" \notin Wanted
           /\ Wanted = IF input.separateModels THEN {} ELSE Deliverable
  <1>1. DOMAIN input.models = Models /\ "bundle" \notin Models  BY BuildsAssumption
  <1>2. Wanted \subseteq Models
    BY DEF Wanted, Downloaded, RequestModels, ManifestModels
  <1>3. CASE input.separateModels
    BY <1>1, <1>2, <1>3 DEF Wanted, Downloaded
  <1>4. CASE ~input.separateModels
    <2>1. YataiURL # Nothing  BY DEF YataiURL, Nothing
    <2>2. ASSUME NEW m \in Models  PROVE m \in Wanted <=> m \in Deliverable
      <3>1. m \in Wanted <=> /\ Listed(m) \/ (~Listed(m) /\ FromYatai /\ m \in input.manifest)
                             /\ ModelURL(m) # Nothing
        BY <1>4 DEF Wanted, Downloaded, RequestModels, ManifestModels
      <3>2. m \in Deliverable <=> \/ input.models[m] \notin {"absent", Nothing}
                                  \/ FromYatai /\ (m \in input.manifest \/ input.models[m] = Nothing)
        BY <1>1 DEF Deliverable
      <3>3. CASE Listed(m)
        BY <2>1, <3>1, <3>2, <3>3 DEF ModelURL, Listed, Nothing
      <3>4. CASE ~Listed(m)
        BY <2>1, <3>1, <3>2, <3>4 DEF ModelURL, Listed, Nothing
      <3> QED  BY <3>3, <3>4
    <2>3. Deliverable \subseteq Models  BY <1>1 DEF Deliverable
    <2> QED  BY <1>1, <1>2, <1>4, <2>2, <2>3
  <1> QED  BY <1>3, <1>4

(* What is said of the lists' values is said of the lists in the next      *)
(* state: the settings never change.                                       *)
LEMMA SameSettings ==
    ASSUME input' = input
    PROVE  /\ Wanted' = Wanted
           /\ AllExtended(init') => AllExtended(init)'
           /\ ExtendedEnv(builder'.env) => ExtendedEnv(builder.env)'
           /\ GivenFirst(builder'.args) => GivenFirst(builder.args)'
  <1>1. Wanted' = Wanted
    BY DEF Wanted, Downloaded, RequestModels, ManifestModels, ModelURL, Listed, FromYatai, YataiURL
  <1>2. AllExtended(init') => AllExtended(init)'
    BY DEF AllExtended, ExtendedEnv
  <1>3. ExtendedEnv(builder'.env) => ExtendedEnv(builder.env)'
    BY DEF ExtendedEnv
  <1>4. GivenFirst(builder'.args) => GivenFirst(builder.args)'
    BY DEF GivenFirst, ProxyArgs
  <1> QED  BY <1>1, <1>2, <1>3, <1>4

LEMMA PodInvInit == PodInit => PodInv
  <1> SUFFICES ASSUME PodInit PROVE PodInv  OBVIOUS
  <1> USE DEF PodInit
  <1>1. PodTypeOK
    <2>1. NoBuilder \in BuilderContainers
      BY DEF NoBuilder, BuilderContainers
    <2>2. EmptyVolume \in Volumes  BY DEF EmptyVolume, Volumes
    <2>3. Nothing \in URLs  BY DEF URLs
    <2> QED  BY <2>1, <2>2, <2>3 DEF PodTypeOK
  <1>2. Environments
    BY DEF Environments, Making, AllOwn, OwnEnv, NoBuilder
  <1> QED  BY <1>1, <1>2 DEF PodInv, Gathered, Filled, Arguments, Account

-----------------------------------------------------------------------------
(* Every step keeps it. *)

(* The first arguments, and the environment that the engine begins with.   *)
LEMMA ConfigRead ==
    ASSUME PodTypeOK, ReadConfig
    PROVE  /\ builder' \in BuilderContainers
           /\ GivenFirst(builder'.args) /\ builder'.env = builder.env
  <1>1. input \in Builds  BY DEF PodTypeOK
  <1>2. PICK config \in Seq(Parts) :
            /\ config = Part(input.config.buildArgs, "config") /\ Len(config) = 1
            /\ config[1].names = input.config.buildArgs /\ config[1].from = "config"
    BY <1>1, PartType, GivenNames
  <1>3. PICK request \in Seq(Parts) :
            /\ request = Part(input.buildArgs, "request") /\ Len(request) = 1
            /\ request[1].names = input.buildArgs /\ request[1].from = "request"
    BY <1>1, PartType, GivenNames
  <1>4. PICK proxy \in Seq(Parts) :
            /\ proxy = Part(ProxyArgs, "proxy") /\ Len(proxy) = 1
            /\ proxy[1].names = ProxyArgs
    BY <1>1, PartType, GivenNames
  <1> DEFINE args == config \o request \o proxy
  <1>5. /\ args \in Seq(Parts) /\ DOMAIN args = {1, 2, 3}
        /\ args[1] = config[1] /\ args[2] = request[1] /\ args[3] = proxy[1]
    BY <1>2, <1>3, <1>4
  <1>6. builder' = [builder EXCEPT !.args = args]
    BY <1>2, <1>3, <1>4, Zenon DEF ReadConfig
  <1> HIDE DEF args
  <1>7. GivenFirst(args)  BY <1>2, <1>3, <1>4, <1>5, Zenon DEF GivenFirst
  <1>8. builder' \in BuilderContainers /\ builder'.args = args /\ builder'.env = builder.env
    BY <1>5, <1>6 DEF PodTypeOK, BuilderContainers
  <1> QED  BY <1>7, <1>8

LEMMA EngineChosen ==
    ASSUME PodTypeOK, GivenFirst(builder.args), ChooseEngine
    PROVE  builder' \in BuilderContainers /\ GivenFirst(builder'.args) /\ OwnEnv(builder'.env)
  <1>1. input \in Builds /\ builder.args \in Seq(Parts)  BY DEF PodTypeOK, BuilderContainers
  <1>2. PICK env \in Seq(Parts) : env = Part({"DOCKER_CONFIG"}, "builder") /\ OwnEnv(env)
    BY OwnPart, KnownNames
  <1>3. PICK more \in Seq(Parts) :
            /\ more = Part(input.config.builderArgs, "config") /\ Len(more) = 1
            /\ more[1].names = input.config.builderArgs
    BY <1>1, PartType, GivenNames
  <1>4. \A i \in DOMAIN more : more[i].names \subseteq input.config.builderArgs \cup input.secretArgs
    BY <1>3
  <1>5. PICK args : args = builder.args \o more  OBVIOUS
  <1>6. args \in Seq(Parts) /\ GivenFirst(args)  BY <1>1, <1>4, <1>5, GivenThenMore
  <1>7. PICK user \in {"root", "1000"} : user = IF Privileged THEN "root" ELSE "1000"  OBVIOUS
  <1>8. builder' = [builder EXCEPT !.user = user, !.env = env, !.args = args]
    BY <1>2, <1>3, <1>5, <1>7, Zenon DEF ChooseEngine
  <1>9. builder' \in BuilderContainers /\ builder'.args = args /\ builder'.env = env
    BY <1>6, <1>7, <1>8 DEF PodTypeOK, BuilderContainers
  <1> QED  BY <1>2, <1>6, <1>9, Zenon

LEMMA SecretArgsAdded ==
    ASSUME PodTypeOK, GivenFirst(builder.args), OwnEnv(builder.env), AddSecretArgs
    PROVE  builder' \in BuilderContainers /\ GivenFirst(builder'.args) /\ OwnEnv(builder'.env)
  <1>1. input \in Builds /\ builder.args \in Seq(Parts) /\ builder.env \in Seq(Parts)  BY DEF PodTypeOK, BuilderContainers
  <1>2. PICK own \in Seq(Parts) :
            own = Part({"BENTOML_BUILD_ARG" : k \in input.secretArgs}, "builder") /\ OwnEnv(own)
    BY OwnPart, KnownNames
  <1>3. PICK more \in Seq(Parts) :
            /\ more = Part(input.secretArgs, "secret") /\ Len(more) = 1
            /\ more[1].names = input.secretArgs
    BY <1>1, PartType, GivenNames
  <1>4. \A i \in DOMAIN more : more[i].names \subseteq input.config.builderArgs \cup input.secretArgs
    BY <1>3
  <1>5. PICK args : args = builder.args \o more  OBVIOUS
  <1>6. args \in Seq(Parts) /\ GivenFirst(args)  BY <1>1, <1>4, <1>5, GivenThenMore
  <1>7. PICK env : env = builder.env \o own  OBVIOUS
  <1>8. env \in Seq(Parts) /\ OwnEnv(env)  BY <1>1, <1>2, <1>7, OwnConcat
  <1>9. builder' = [builder EXCEPT !.env = env, !.args = args]
    BY <1>2, <1>3, <1>5, <1>7, Zenon DEF AddSecretArgs
  <1>10. builder' \in BuilderContainers /\ builder'.args = args /\ builder'.env = env
    BY <1>6, <1>8, <1>9 DEF PodTypeOK, BuilderContainers
  <1> QED  BY <1>6, <1>8, <1>10, Zenon

LEMMA CommandChosen ==
    ASSUME PodTypeOK, GivenFirst(builder.args), OwnEnv(builder.env), ChooseCommand
    PROVE  builder' \in BuilderContainers /\ GivenFirst(builder'.args) /\ OwnEnv(builder'.env)
  <1>1. builder.args \in Seq(Parts) /\ builder.env \in Seq(Parts) /\ builder \in BuilderContainers
    BY DEF PodTypeOK, BuilderContainers
  <1>2. CASE ~input.storedInS3
    <2>1. builder' = builder  BY <1>2 DEF ChooseCommand
    <2> QED  BY <1>1, <2>1
  <1>3. CASE input.storedInS3
    <2>1. PICK own \in Seq(Parts) : own = Part({"AWS_ACCESS_KEY_ID"}, "builder") /\ OwnEnv(own)
      BY OwnPart, KnownNames
    <2>2. PICK env : env = builder.env \o own  OBVIOUS
    <2>3. env \in Seq(Parts) /\ OwnEnv(env)  BY <1>1, <2>1, <2>2, OwnConcat
    <2>4. PICK args : args = SubSeq(builder.args, 1, 3)  OBVIOUS
    <2>5. args \in Seq(Parts) /\ GivenFirst(args)  BY <1>1, <2>4, GivenAlone
    <2>6. builder' = [builder EXCEPT !.user = "root", !.s3 = TRUE, !.args = args, !.env = env]
      BY <1>3, <2>1, <2>2, <2>4, Zenon DEF ChooseCommand
    <2>7. builder' \in BuilderContainers /\ builder'.args = args /\ builder'.env = env
      BY <1>1, <2>3, <2>5, <2>6 DEF BuilderContainers
    <2> QED  BY <2>3, <2>5, <2>7, Zenon
  <1> QED  BY <1>2, <1>3

LEMMA BentoResolved ==
    ASSUME PodTypeOK, ResolveBento
    PROVE  bentoURL' \in URLs /\ envFrom' \subseteq Credentials
  <1>1. input \in Builds /\ input.ownEnvFrom \subseteq Credentials  BY DEF PodTypeOK, Credentials
  <1>2. bentoURL' \in URLs  BY <1>1 DEF ResolveBento, YataiURL, URLs
  <1>3. envFrom' \subseteq Credentials  BY <1>1 DEF ResolveBento, Credentials
  <1> QED  BY <1>2, <1>3

(* A container that is done leaves in the volume what it is for.           *)
LEMMA InitContainerRun ==
    ASSUME PodTypeOK, pc = "pod", Filled, RunInitContainer, pc' = "pod"
    PROVE  /\ volume' \in Volumes /\ volume'.done <= Len(init)
           /\ volume'.files = {init[i].what : i \in 1 .. volume'.done} \ {"bundle"}
  <1>1. /\ Works(Container) /\ volume.done < Len(init)
        /\ volume' = IF Container.what = "bundle"
                     THEN [volume EXCEPT !.done = @ + 1, !.bundle = TRUE]
                     ELSE [volume EXCEPT !.done = @ + 1, !.files = @ \cup {Container.what},
                                         !.owner = IF Privileged THEN "root" ELSE "1000"]
    BY DEF RunInitContainer, To
  <1>2. PICK c : c = init[volume.done + 1] /\ Container = c  BY DEF Container
  <1>3. volume.done \in Nat /\ volume \in Volumes  BY DEF PodTypeOK, Volumes
  <1>4. Len(init) \in Nat /\ \A i \in 1 .. Len(init) : init[i] \in Containers  BY LenProperties, ElementOfSeq DEF PodTypeOK
  <1>5. c \in Containers  BY <1>1, <1>2, <1>3, <1>4
  <1>6. c.what \in {"bundle", "bento"} \cup Models  BY <1>5 DEF Containers
  <1>7. volume.files = {init[i].what : i \in 1 .. volume.done} \ {"bundle"}  BY DEF Filled
  <1>8. {init[i].what : i \in 1 .. volume.done + 1} = {init[i].what : i \in 1 .. volume.done} \cup {c.what}
    <2>1. \A i : i \in 1 .. volume.done + 1 <=> i \in 1 .. volume.done \/ i = volume.done + 1  BY <1>3
    <2> QED  BY <1>2, <2>1
  <1> DEFINE Left(n) == {init[i].what : i \in 1 .. n} \ {"bundle"}
  <1>9. PICK done \in Nat : done = volume.done + 1 /\ done <= Len(init)  BY <1>1, <1>3, <1>4
  <1>10. Left(done) = volume.files \cup ({c.what} \ {"bundle"})  BY <1>7, <1>8, <1>9
  <1>11. PICK files \in SUBSET ({"bento"} \cup Models) : files = Left(done)
    <2>1. volume.files \subseteq {"bento"} \cup Models  BY <1>3 DEF Volumes
    <2>2. Left(done) \in SUBSET ({"bento"} \cup Models)  BY <1>6, <1>10, <2>1
    <2> HIDE DEF Left
    <2> QED  BY <2>2
  <1>12. volume' \in Volumes /\ volume'.done = done /\ volume'.files = files
    <2>1. CASE c.what = "bundle"
      <3>1. files = volume.files  BY <1>10, <1>11, <2>1
      <3>2. volume' = [volume EXCEPT !.done = done, !.bundle = TRUE]  BY <1>1, <1>2, <1>9, <2>1
      <3> QED  BY <1>3, <3>1, <3>2 DEF Volumes
    <2>2. CASE c.what # "bundle"
      <3>1. files = volume.files \cup {c.what}  BY <1>10, <1>11, <2>2
      <3>2. PICK owner \in {"root", "1000"} : owner = IF Privileged THEN "root" ELSE "1000"  OBVIOUS
      <3>3. volume' = [volume EXCEPT !.done = done, !.files = files, !.owner = owner]
        BY <1>1, <1>2, <1>9, <2>2, <3>1, <3>2
      <3> QED  BY <1>3, <3>3 DEF Volumes
    <2> QED  BY <2>1, <2>2
  <1> QED  BY <1>9, <1>11, <1>12

LEMMA FirstAccount ==
    ASSUME MergePodSpec, input.account # Nothing
    PROVE  account' = input.account
  <1> DEFINE accounts == <<input.account, input.config.account, input.labelledAccount, "default">>
             set == {i \in DOMAIN accounts : accounts[i] # Nothing}
             first == CHOOSE i \in set : \A j \in set : i <= j
  <1>1. account' = accounts[first]  BY DEF MergePodSpec, First
  <1>2. 1 \in set /\ \A j \in set : 1 <= j  OBVIOUS
  <1>3. set \subseteq Nat  OBVIOUS
  <1>4. accounts[1] = input.account  OBVIOUS
  <1> HIDE DEF accounts, set
  <1>5. first \in set /\ \A j \in set : first <= j  BY <1>2
  <1>6. first = 1
    <2> HIDE DEF first
    <2> QED  BY <1>2, <1>3, <1>5
  <1> QED  BY <1>1, <1>4, <1>6

LEMMA PodInvStep == PodInv /\ [PodNext]_podVars => PodInv'
  <1> SUFFICES ASSUME PodInv, [PodNext]_podVars PROVE PodInv'  OBVIOUS
  <1>1. PodTypeOK /\ Gathered /\ Filled /\ Environments /\ Arguments /\ Account  BY DEF PodInv
  <1>2. input \in Builds /\ builder \in BuilderContainers /\ volume \in Volumes
        /\ init \in Seq(Containers) /\ bentoURL \in URLs /\ envFrom \subseteq Credentials
    BY <1>1 DEF PodTypeOK
  <1>3. CASE ResolveBento
    <2>1. bentoURL' \in URLs /\ envFrom' \subseteq Credentials  BY <1>1, <1>3, BentoResolved
    <2>2. /\ pc = "bento" /\ pc' \in {"rejected", "aws"}
          /\ UNCHANGED <<input, init, builder, account, volume, image, failures>>
      BY <1>3 DEF ResolveBento, At, To
    <2>3. PodTypeOK'  BY <1>2, <2>1, <2>2 DEF PodTypeOK
    <2>4. Gathered' /\ Arguments' /\ Account'  BY <2>2 DEF Gathered, Arguments, Account
    <2>5. Filled' /\ Environments'  BY <1>1, <2>2 DEF Filled, Environments, Making
    <2> QED  BY <2>3, <2>4, <2>5 DEF PodInv
  <1>4. CASE AddBentoDownloader
    <2>1. envFrom' \subseteq Credentials  BY <1>1, <1>4, BentoIsListed
    <2>2. PICK d \in Containers : init' = <<d>> /\ d.what = "bento" /\ OwnEnv(d.env)
      BY <1>1, <1>4, BentoIsListed
    <2>3. init' \in Seq(Containers) /\ Whats(init') = {"bento"} /\ AllOwn(init')
      BY <2>2, OneContainer
    <2>4. /\ pc = "aws" /\ pc' = "models"
          /\ UNCHANGED <<input, bentoURL, builder, account, volume, image, failures>>
      BY <1>4 DEF AddBentoDownloader, At, To
    <2>5. PodTypeOK'  BY <1>2, <2>1, <2>3, <2>4 DEF PodTypeOK
    <2>6. Gathered' /\ Arguments' /\ Account'  BY <2>3, <2>4 DEF Gathered, Arguments, Account, Whats
    <2>7. Filled'  BY <1>1, <2>4 DEF Filled, Making
    <2>8. Environments'  BY <1>1, <2>3, <2>4 DEF Environments, Making, AllOwn
    <2> QED  BY <2>5, <2>6, <2>7, <2>8 DEF PodInv
  <1>5. CASE AddModelDownloaders
    <2>1. /\ pc = "models" /\ pc' = "config"
          /\ UNCHANGED <<input, bentoURL, envFrom, builder, account, volume, image, failures>>
      BY <1>5 DEF AddModelDownloaders, At, To
    <2>2. PICK new \in Seq(Containers) :
              init' = init \o new /\ Whats(new) = Wanted /\ \A i \in DOMAIN new : OwnEnv(new[i].env)
      BY <1>1, <1>5, ModelsAreListed
    <2>3. Whats(init) = {"bento"} /\ AllOwn(init)  BY <1>1, <2>1 DEF Gathered, Environments, Making
    <2>4. init' \in Seq(Containers) /\ Whats(init') = {"bento"} \cup Wanted /\ AllOwn(init')
      <3>1. AllOwn(new)  BY <2>2 DEF AllOwn
      <3>2. /\ init' \in Seq(Containers) /\ Whats(init') = Whats(init) \cup Whats(new)
            /\ AllOwn(init) /\ AllOwn(new) => AllOwn(init')
        BY <1>2, <2>2, ContainersConcat
      <3> QED  BY <2>2, <2>3, <3>1, <3>2
    <2>5. Wanted' = Wanted  BY <2>1, SameSettings
    <2>6. PodTypeOK'  BY <1>2, <2>1, <2>4 DEF PodTypeOK
    <2>7. Gathered' /\ Arguments' /\ Account'
      BY <2>1, <2>4, <2>5 DEF Gathered, Arguments, Account, Whats
    <2>8. Filled'  BY <1>1, <2>1 DEF Filled, Making
    <2>9. Environments'  BY <1>1, <2>1, <2>4 DEF Environments, Making, AllOwn
    <2> QED  BY <2>6, <2>7, <2>8, <2>9 DEF PodInv
  <1>6. CASE ReadConfig
    <2>1. /\ pc = "config" /\ pc' \in {"rejected", "engine"}
          /\ UNCHANGED <<input, bentoURL, envFrom, init, account, volume, image, failures>>
      BY <1>6 DEF ReadConfig, At, To
    <2>2. builder' \in BuilderContainers /\ GivenFirst(builder'.args) /\ builder'.env = builder.env
      BY <1>1, <1>6, ConfigRead
    <2>3. Wanted' = Wanted /\ GivenFirst(builder.args)'  BY <2>1, <2>2, SameSettings
    <2>4. PodTypeOK'  BY <1>2, <2>1, <2>2 DEF PodTypeOK
    <2>5. Gathered' /\ Account'  BY <1>1, <2>1, <2>3 DEF Gathered, Account
    <2>6. Arguments'  BY <2>3 DEF Arguments
    <2>7. Filled'  BY <1>1, <2>1 DEF Filled, Making
    <2>8. Environments'  BY <1>1, <2>1, <2>2 DEF Environments, Making
    <2> QED  BY <2>4, <2>5, <2>6, <2>7, <2>8 DEF PodInv
  <1>7. ASSUME NEW next,
               /\ <<pc, next>> \in {<<"engine", "secretArgs">>, <<"engine", "rejected">>,
                                    <<"secretArgs", "command">>, <<"command", "caCert">>}
               /\ pc' = next
               /\ UNCHANGED <<input, bentoURL, envFrom, init, account, volume, image, failures>>
               /\ builder' \in BuilderContainers /\ GivenFirst(builder'.args) /\ OwnEnv(builder'.env)
        PROVE  PodInv'
    <2>1. Wanted' = Wanted /\ GivenFirst(builder.args)'  BY <1>7, SameSettings
    <2>2. PodTypeOK'  BY <1>2, <1>7 DEF PodTypeOK
    <2>3. Gathered' /\ Account'  BY <1>1, <1>7, <2>1 DEF Gathered, Account
    <2>4. Arguments'  BY <2>1 DEF Arguments
    <2>5. Filled'  BY <1>1, <1>7 DEF Filled, Making
    <2>6. Environments'  BY <1>1, <1>7 DEF Environments, Making
    <2> QED  BY <2>2, <2>3, <2>4, <2>5, <2>6 DEF PodInv
  <1>8. CASE ChooseEngine
    <2>1. /\ pc = "engine" /\ pc' \in {"rejected", "secretArgs"}
          /\ UNCHANGED <<input, bentoURL, envFrom, init, account, volume, image, failures>>
      BY <1>8 DEF ChooseEngine, At, To
    <2>2. GivenFirst(builder.args)  BY <1>1, <2>1 DEF Arguments
    <2>3. builder' \in BuilderContainers /\ GivenFirst(builder'.args) /\ OwnEnv(builder'.env)
      BY <1>1, <1>8, <2>2, EngineChosen
    <2> QED  BY <1>7, <2>1, <2>3
  <1>9. CASE AddSecretArgs
    <2>1. /\ pc = "secretArgs" /\ pc' = "command"
          /\ UNCHANGED <<input, bentoURL, envFrom, init, account, volume, image, failures>>
      BY <1>9 DEF AddSecretArgs, At, To
    <2>2. GivenFirst(builder.args) /\ OwnEnv(builder.env)  BY <1>1, <2>1 DEF Arguments, Environments, Making
    <2>3. builder' \in BuilderContainers /\ GivenFirst(builder'.args) /\ OwnEnv(builder'.env)
      BY <1>1, <1>9, <2>2, SecretArgsAdded
    <2> QED  BY <1>7, <2>1, <2>3
  <1>10. CASE ChooseCommand
    <2>1. /\ pc = "command" /\ pc' = "caCert"
          /\ UNCHANGED <<input, bentoURL, envFrom, init, account, volume, image, failures>>
      BY <1>10 DEF ChooseCommand, At, To
    <2>2. GivenFirst(builder.args) /\ OwnEnv(builder.env)  BY <1>1, <2>1 DEF Arguments, Environments, Making
    <2>3. builder' \in BuilderContainers /\ GivenFirst(builder'.args) /\ OwnEnv(builder'.env)
      BY <1>1, <1>10, <2>2, CommandChosen
    <2> QED  BY <1>7, <2>1, <2>3
  <1>11. CASE InjectCACert
    <2>1. /\ pc = "caCert" /\ pc' = "podSpec"
          /\ UNCHANGED <<input, bentoURL, envFrom, account, volume, image, failures>>
      BY <1>11 DEF InjectCACert, At, To
    <2>2. /\ AllOwn(init) /\ OwnEnv(builder.env) /\ GivenFirst(builder.args)
          /\ Whats(init) = {"bento"} \cup Wanted
      BY <1>1, <2>1 DEF Arguments, Environments, Gathered, Making
    <2>3. /\ init' \in Seq(Containers) /\ AllOwn(init')
          /\ Whats(init') \ {"bundle"} = Whats(init) \ {"bundle"}
          /\ builder' \in BuilderContainers /\ OwnEnv(builder'.env) /\ builder'.args = builder.args
      BY <1>1, <1>11, <2>2, CACertInjected
    <2>4. GivenFirst(builder'.args)  BY <2>2, <2>3, Zenon
    <2>5. Wanted' = Wanted /\ GivenFirst(builder.args)'  BY <2>1, <2>4, SameSettings
    <2>6. PodTypeOK'  BY <1>2, <2>1, <2>3 DEF PodTypeOK
    <2>7. Whats(init') \ {"bundle"} = ({"bento"} \cup Wanted') \ {"bundle"}  BY <2>2, <2>3, <2>5
    <2>8. Gathered' /\ Account'  BY <2>1, <2>7 DEF Gathered, Account, Whats
    <2>9. Arguments'  BY <2>5 DEF Arguments
    <2>10. Filled'  BY <1>1, <2>1 DEF Filled, Making
    <2>11. Environments'  BY <2>1, <2>3 DEF Environments, Making, AllOwn
    <2> QED  BY <2>6, <2>8, <2>9, <2>10, <2>11 DEF PodInv
  <1>12. CASE MergePodSpec
    <2>1. /\ pc = "podSpec" /\ pc' = "environment"
          /\ UNCHANGED <<input, bentoURL, envFrom, init, builder, volume, image, failures>>
      BY <1>12 DEF MergePodSpec, At, To
    <2>2. Account'  BY <1>12, <2>1, FirstAccount DEF Account
    <2>3. Wanted' = Wanted  BY <2>1, SameSettings
    <2>4. PodTypeOK'  BY <1>2, <2>1 DEF PodTypeOK
    <2>5. Gathered'  BY <1>1, <2>1, <2>3 DEF Gathered
    <2>6. Arguments'
      <3>1. GivenFirst(builder'.args)  BY <1>1, <2>1 DEF Arguments
      <3> QED  BY <2>1, <3>1, SameSettings DEF Arguments
    <2>7. Filled' /\ Environments'  BY <1>1, <2>1 DEF Filled, Environments, Making
    <2> QED  BY <2>2, <2>4, <2>5, <2>6, <2>7 DEF PodInv
  <1>13. CASE AddEnvironment
    <2>1. /\ pc = "environment" /\ pc' = "pod"
          /\ UNCHANGED <<input, bentoURL, envFrom, account, volume, image, failures>>
      BY <1>13 DEF AddEnvironment, At, To
    <2>2. AllOwn(init) /\ OwnEnv(builder.env) /\ GivenFirst(builder.args)
      BY <1>1, <2>1 DEF Arguments, Environments, Making
    <2>3. /\ init' \in Seq(Containers) /\ AllExtended(init') /\ Whats(init') = Whats(init)
          /\ builder' \in BuilderContainers /\ ExtendedEnv(builder'.env) /\ builder'.args = builder.args
      BY <1>1, <1>13, <2>2, EnvironmentAdded
    <2>4. GivenFirst(builder'.args)  BY <2>2, <2>3, Zenon
    <2>5. /\ Wanted' = Wanted /\ GivenFirst(builder.args)'
          /\ AllExtended(init)' /\ ExtendedEnv(builder.env)'
      BY <2>1, <2>3, <2>4, SameSettings
    <2>6. PodTypeOK'  BY <1>2, <2>1, <2>3 DEF PodTypeOK
    <2>7. Gathered'
      <3>1. Whats(init') \ {"bundle"} = ({"bento"} \cup Wanted') \ {"bundle"}
        BY <1>1, <2>1, <2>3, <2>5 DEF Gathered
      <3> QED  BY <2>1, <3>1 DEF Gathered, Whats
    <2>8. Account' /\ Arguments' /\ Environments'
      BY <1>1, <2>1, <2>5 DEF Account, Arguments, Environments, Making
    <2>9. Filled'
      <3>1. volume' = EmptyVolume  BY <1>1, <2>1 DEF Filled, Making
      <3>2. 0 <= Len(init')  BY <2>3, LenProperties
      <3> QED  BY <2>1, <3>1, <3>2 DEF Filled, EmptyVolume, Making
    <2> QED  BY <2>6, <2>7, <2>8, <2>9 DEF PodInv
  <1>14. CASE Fail
    <2>1. /\ pc \in Making /\ pc' = "bento" /\ bentoURL' = Nothing /\ envFrom' = {}
          /\ init' = <<>> /\ builder' = NoBuilder /\ UNCHANGED <<input, account, volume, image>>
      BY <1>14 DEF Fail, To, Making
    <2>2. PodTypeOK'
      <3>1. NoBuilder \in BuilderContainers  BY DEF NoBuilder, BuilderContainers
      <3> QED  BY <1>2, <2>1, <3>1 DEF PodTypeOK, URLs
    <2>3. Gathered' /\ Arguments' /\ Account'  BY <2>1 DEF Gathered, Arguments, Account
    <2>4. Filled'  BY <1>1, <2>1 DEF Filled, Making
    <2>5. Environments'  BY <2>1 DEF Environments, Making, AllOwn, OwnEnv, NoBuilder
    <2> QED  BY <2>2, <2>3, <2>4, <2>5 DEF PodInv
  <1>15. CASE RunInitContainer
    <2>1. /\ pc = "pod" /\ pc' \in {"pod", "podFailed"}
          /\ pc' = "podFailed" => volume' = volume
          /\ UNCHANGED <<input, bentoURL, envFrom, init, builder, account, image, failures>>
      BY <1>15 DEF RunInitContainer, At, To
    <2>2. pc' = "pod" => /\ volume' \in Volumes /\ volume'.done <= Len(init)
                         /\ volume'.files = {init[i].what : i \in 1 .. volume'.done} \ {"bundle"}
      BY <1>1, <1>15, <2>1, InitContainerRun
    <2>3. PodTypeOK'  BY <1>2, <2>1, <2>2 DEF PodTypeOK
    <2>4. Filled'  BY <2>1, <2>2 DEF Filled, Making
    <2>5. Gathered' /\ Account'
      <3>1. Wanted' = Wanted  BY <2>1, SameSettings
      <3> QED  BY <1>1, <2>1, <3>1 DEF Gathered, Account
    <2>6. Arguments'
      <3>1. GivenFirst(builder'.args)  BY <1>1, <2>1 DEF Arguments
      <3> QED  BY <2>1, <3>1, SameSettings DEF Arguments
    <2>7. Environments'
      <3>1. AllExtended(init') /\ ExtendedEnv(builder'.env)  BY <1>1, <2>1 DEF Environments
      <3>2. AllExtended(init)' /\ ExtendedEnv(builder.env)'  BY <2>1, <3>1, SameSettings
      <3> QED  BY <2>1, <3>2 DEF Environments, Making
    <2> QED  BY <2>3, <2>4, <2>5, <2>6, <2>7 DEF PodInv
  <1>16. CASE RunBuilder
    <2>1. /\ pc = "pod" /\ pc' = "built" /\ volume.done = Len(init)
          /\ image' = [files |-> volume.files, args |-> builder.args]
          /\ UNCHANGED <<input, bentoURL, envFrom, init, builder, account, volume, failures>>
      BY <1>16 DEF RunBuilder, At, To
    <2>2. PodTypeOK'  BY <1>2, <2>1 DEF PodTypeOK
    <2>3. image'.files = {"bento"} \cup Wanted
      <3>1. image'.files = {init[i].what : i \in 1 .. Len(init)} \ {"bundle"}
        BY <1>1, <2>1 DEF Filled
      <3>2. {init[i].what : i \in 1 .. Len(init)} = Whats(init)  BY <1>2, LenProperties DEF Whats
      <3>3. Whats(init) \ {"bundle"} = ({"bento"} \cup Wanted) \ {"bundle"}  BY <1>1, <2>1 DEF Gathered
      <3>4. "bundle" \notin {"bento"} \cup Wanted  BY <1>2, WantedModels
      <3> QED  BY <3>1, <3>2, <3>3, <3>4
    <2>4. Filled'
      <3>1. Wanted' = Wanted  BY <2>1, SameSettings
      <3> QED  BY <2>1, <2>3, <3>1 DEF Filled, Making
    <2>5. Gathered' /\ Arguments' /\ Account' /\ Environments'
      BY <2>1 DEF Gathered, Arguments, Account, Environments, Making
    <2> QED  BY <2>2, <2>4, <2>5 DEF PodInv
  <1>17. CASE UNCHANGED podVars
    <2>1. /\ UNCHANGED <<input, pc, bentoURL, envFrom, init, builder, account, volume, image, failures>>
          /\ Wanted' = Wanted
      BY <1>17, SameSettings DEF podVars
    <2>2. PodTypeOK'  BY <1>2, <2>1 DEF PodTypeOK
    <2>3. Gathered' /\ Filled' /\ Account'  BY <1>1, <2>1 DEF Gathered, Filled, Account, Making
    <2>4. Arguments'
      <3>1. pc' = pc /\ (GivenFirst(builder.args) => GivenFirst(builder.args)')  BY <2>1, SameSettings
      <3> QED  BY <1>1, <3>1 DEF Arguments
    <2>5. Environments'
      <3>1. /\ AllExtended(init) => AllExtended(init)'
            /\ ExtendedEnv(builder.env) => ExtendedEnv(builder.env)'
        BY <2>1, SameSettings
      <3> QED  BY <1>1, <2>1, <3>1 DEF Environments, Making
    <2> QED  BY <2>2, <2>3, <2>4, <2>5 DEF PodInv
  <1> QED
    BY <1>3, <1>4, <1>5, <1>6, <1>8, <1>9, <1>10, <1>11, <1>12, <1>13, <1>14, <1>15, <1>16, <1>17
    DEF PodNext, Template, PodDone

-----------------------------------------------------------------------------
(* The invariant holds at every step of every build.                       *)
THEOREM PodInvariant == PodSpec => []PodInv
  <1>1. PodInit => PodInv  BY PodInvInit
  <1>2. PodInv /\ [PodNext]_podVars => PodInv'  BY PodInvStep
  <1> QED  BY <1>1, <1>2, PTL DEF PodSpec

(* The image holds the bento and exactly the models that it should: none   *)
(* is forgotten between request and manifest or lost to a template that    *)
(* was made anew, none is there in spite of separateModels, and the        *)
(* builder runs after the last download (lines 2679-2811 and 3331-3377).   *)
THEOREM ImagesAreComplete == PodSpec => []ImageIsComplete
  <1>1. PodInv => ImageIsComplete
    <2> SUFFICES ASSUME PodInv, pc = "built"
                 PROVE  image.files = {"bento"} \cup (IF input.separateModels THEN {} ELSE Deliverable)
      BY DEF ImageIsComplete
    <2>1. image.files = {"bento"} \cup Wanted  BY DEF PodInv, Filled
    <2>2. input \in Builds  BY DEF PodInv, PodTypeOK
    <2> QED  BY <2>1, <2>2, WantedModels
  <1> QED  BY <1>1, PodInvariant, PTL

(* What is said nearer to the request prevails, in every container of the  *)
(* pod that is created (lines 2813-2919 and 3401-3507).                    *)
THEOREM SettingsOfRequestsPrevail == PodSpec => []SettingsPrevail
  <1>1. PodInv => SettingsPrevail
    <2> SUFFICES ASSUME PodInv, pc = "pod"  PROVE SettingsPrevail
      BY DEF SettingsPrevail
    <2>1. /\ builder \in BuilderContainers /\ init \in Seq(Containers)
          /\ AllExtended(init) /\ ExtendedEnv(builder.env) /\ GivenFirst(builder.args)
          /\ input.account # Nothing => account = input.account
      BY DEF PodInv, PodTypeOK, Environments, Arguments, Account
    <2>2. ASSUME NEW c \in {builder} \cup {init[i] : i \in DOMAIN init}, NEW n
          PROVE  Prevails(c.env, n) \in Said(n \in input.env, n \in input.config.env)
      <3>1. ExtendedEnv(c.env)
        <4>1. CASE c = builder  BY <2>1, <4>1, Zenon
        <4>2. CASE c \in {init[i] : i \in DOMAIN init}  BY <2>1, <4>2, Zenon DEF AllExtended
        <4> QED  BY <4>1, <4>2
      <3> QED  BY <3>1, EnvironmentPrevails, Zenon
    <2>3. ASSUME NEW k \in (input.buildArgs \cup input.config.buildArgs)
                               \ (input.secretArgs \cup input.config.builderArgs)
          PROVE  Prevails(builder.args, k) \in Said(k \in input.buildArgs, TRUE)
      <3>1. builder.args \in Seq(Parts)  BY <2>1 DEF BuilderContainers
      <3> QED  BY <2>1, <3>1, ArgumentsPrevail
    <2> QED  BY <2>1, <2>2, <2>3, Zenon DEF SettingsPrevail
  <1> QED  BY <1>1, PodInvariant, PTL

-----------------------------------------------------------------------------
(* A build that everything was provided for.  What its containers need is  *)
(* gathered by the same steps: the credentials before the downloaders are  *)
(* made, the certificate afterwards, the owner of the workspace last.      *)

GivenURLs == {Nothing, "s3", "gs", "https"}

\* Users give URLs of these kinds; the certificate is not asked for, ready or missing.
KnownSettings ==
    \A b \in Builds :
        /\ b.bentoURL \in GivenURLs /\ \A m \in Models : b.models[m] \in GivenURLs \cup {"absent"}
        /\ b.ca \in {"unset", "ready", "missing"}

\* A model in S3 of a bento in GCS comes with keys of the request's own: see AWSKeys.
KeysReachModels ==
    \A b \in Builds : b.bentoURL = "gs" /\ ~b.storedInS3 =>
        \A m \in Models : b.models[m] = "s3" => "aws" \in b.ownEnvFrom

BentoURL == IF FromYatai THEN YataiURL ELSE input.bentoURL
Keys == input.ownEnvFrom \cup (IF FromYatai THEN {"apiToken"} ELSE {})
User == IF Privileged THEN "root" ELSE "1000"

Supplied(c) == c.what = "bundle" \/ Credential(c.url) \subseteq c.envFrom
AllSupplied(list) == \A i \in DOMAIN list : Supplied(list[i])

Trusts(env) == \E i \in DOMAIN env : TrustedCA \in env[i].names
BundleFirst(list) ==
    /\ 1 \in DOMAIN list /\ list[1].what = "bundle"
    /\ \A i \in DOMAIN list : i = 1 \/ Trusts(list[i].env)

CredentialsGathered ==
    /\ pc \in {"aws", "models"} => bentoURL = BentoURL
    /\ pc = "aws" => envFrom = Keys
    /\ pc = "models" => envFrom = Keys \cup AWSKeys
    /\ pc \in (Making \ {"bento", "aws"}) \cup {"pod"} /\ Provided => AllSupplied(init)

CertificateTrusted ==
    pc \in {"podSpec", "environment", "pod"} /\ input.ca = "ready" => BundleFirst(init)

\* The files are given to the user that the builder runs as, unless it is root.
FilesReadable ==
    /\ pc \in {"secretArgs", "command", "caCert", "podSpec", "environment", "pod"}
          => builder.user \in {"root", User}
    /\ pc = "pod" =>
          /\ input.ca = "ready" /\ volume.done # 0 => volume.bundle
          /\ \A i \in 1 .. volume.done : init[i].what = "bundle" \/ volume.owner = User

NothingRefused == pc \in {"rejected", "podFailed"} => ~Provided

SupplyInv == CredentialsGathered /\ CertificateTrusted /\ FilesReadable /\ NothingRefused

(* Whatever is downloaded, all that was provided reaches the downloader.   *)
LEMMA KeysSuffice ==
    ASSUME KnownSettings, KeysReachModels, input \in Builds, Provided, bentoURL = BentoURL,
           NEW credentials, credentials = Keys \cup AWSKeys
    PROVE  /\ Credential(bentoURL) \subseteq credentials
           /\ \A m \in Models : Credential(ModelURL(m)) \subseteq credentials
  <1>1. DOMAIN input.models = Models  BY BuildsAssumption
  <1>2. /\ input.bentoURL \in GivenURLs
        /\ \A m \in Models : input.models[m] \in GivenURLs \cup {"absent"}
    BY DEF KnownSettings
  <1>3. \A url \in {input.bentoURL} \cup {input.models[m] : m \in Models} :
            /\ url = "s3" => input.awsKeys \/ "aws" \in input.ownEnvFrom
            /\ url = "gs" => "gcs" \in input.ownEnvFrom
    BY <1>1 DEF Provided
  <1>4. YataiURL \in {"https", "token"}  BY DEF YataiURL
  <1>5. /\ input.ownEnvFrom \subseteq credentials
        /\ FromYatai => "apiToken" \in credentials
        /\ input.awsKeys /\ (bentoURL # "gs" \/ input.storedInS3) => "aws" \in credentials
    BY DEF Keys, AWSKeys
  <1>6. Credential("s3") = {"aws"} /\ Credential("gs") = {"gcs"} /\ Credential("token") = {"apiToken"}
        /\ Credential("https") = {} /\ Credential(Nothing) = {}
    BY DEF Credential, Nothing
  <1>7. FromYatai => Credential(YataiURL) \subseteq credentials  BY <1>4, <1>5, <1>6
  <1>8. Credential(bentoURL) \subseteq credentials
    <2>1. CASE FromYatai  BY <1>7, <2>1 DEF BentoURL
    <2>2. CASE ~FromYatai
      <3>1. bentoURL = input.bentoURL /\ bentoURL \in {"s3", "gs", "https"}
        BY <1>2, <2>2 DEF BentoURL, FromYatai, GivenURLs
      <3>2. CASE bentoURL = "s3"  BY <1>3, <1>5, <1>6, <3>1, <3>2
      <3>3. CASE bentoURL = "gs"  BY <1>3, <1>5, <1>6, <3>1, <3>3
      <3>4. CASE bentoURL = "https"  BY <1>6, <3>4
      <3> QED  BY <3>1, <3>2, <3>3, <3>4
    <2> QED  BY <2>1, <2>2
  <1>9. ASSUME NEW m \in Models  PROVE Credential(ModelURL(m)) \subseteq credentials
    <2>1. CASE Listed(m) /\ input.models[m] # Nothing
      <3>1. ModelURL(m) = input.models[m] /\ ModelURL(m) \in {"s3", "gs", "https"}
        BY <1>2, <2>1 DEF ModelURL, Listed, GivenURLs
      <3>2. CASE ModelURL(m) = "s3"
        <4>1. input.awsKeys \/ "aws" \in input.ownEnvFrom  BY <1>3, <3>1, <3>2
        <4>2. CASE bentoURL = "gs" /\ ~input.storedInS3
          <5>1. input.bentoURL = "gs"  BY <1>4, <4>2 DEF BentoURL
          <5>2. "aws" \in input.ownEnvFrom  BY <3>1, <3>2, <4>2, <5>1 DEF KeysReachModels
          <5> QED  BY <1>5, <1>6, <3>2, <5>2
        <4>3. CASE ~(bentoURL = "gs" /\ ~input.storedInS3)  BY <1>5, <1>6, <3>2, <4>1, <4>3
        <4> QED  BY <4>2, <4>3
      <3>3. CASE ModelURL(m) = "gs"  BY <1>3, <1>5, <1>6, <3>1, <3>3
      <3>4. CASE ModelURL(m) = "https"  BY <1>6, <3>4
      <3> QED  BY <3>1, <3>2, <3>3, <3>4
    <2>2. CASE ~(Listed(m) /\ input.models[m] # Nothing)
      <3>1. ModelURL(m) = IF FromYatai THEN YataiURL ELSE Nothing  BY <2>2 DEF ModelURL
      <3> QED  BY <1>6, <1>7, <3>1
    <2> QED  BY <2>1, <2>2
  <1> QED  BY <1>8, <1>9

(* The settings never change, nor what is derived from them.               *)
LEMMA SameSupply ==
    ASSUME input' = input
    PROVE  /\ Provided' <=> Provided
           /\ BentoURL' = BentoURL /\ Keys' = Keys /\ User' = User
           /\ bentoURL' = bentoURL => AWSKeys' = AWSKeys
           /\ AllSupplied(init') <=> AllSupplied(init)'
           /\ BundleFirst(init') <=> BundleFirst(init)'
  <1>1. Provided' <=> Provided  BY DEF Provided, FromYatai
  <1>2. BentoURL' = BentoURL /\ Keys' = Keys  BY DEF BentoURL, Keys, FromYatai, YataiURL
  <1>3. User' = User  BY DEF User, Privileged
  <1>4. bentoURL' = bentoURL => AWSKeys' = AWSKeys  BY DEF AWSKeys
  <1>5. AllSupplied(init') <=> AllSupplied(init)'  BY DEF AllSupplied, Supplied, Credential
  <1>6. BundleFirst(init') <=> BundleFirst(init)'  BY DEF BundleFirst, Trusts
  <1> QED  BY <1>1, <1>2, <1>3, <1>4, <1>5, <1>6

(* A list that is made longer at its end.                                  *)
LEMMA SuppliedConcat ==
    ASSUME NEW S, NEW s \in Seq(S), AllSupplied(s), NEW t \in Seq(S), AllSupplied(t), NEW st, st = s \o t
    PROVE  AllSupplied(st)
  <1>1. \A i \in DOMAIN st : \/ i \in DOMAIN s /\ st[i] = s[i]
                             \/ \E j \in DOMAIN t : st[i] = t[j]
    BY ConcatFacts
  <1> QED  BY <1>1, Zenon DEF AllSupplied

LEMMA TrustsConcat ==
    ASSUME NEW s \in Seq(Parts), NEW t \in Seq(Parts), Trusts(s) \/ Trusts(t), NEW st, st = s \o t
    PROVE  Trusts(st)
  <1>1. /\ \A i \in DOMAIN s : i \in DOMAIN st /\ st[i] = s[i]
        /\ \A i \in DOMAIN t : Len(s) + i \in DOMAIN st /\ st[Len(s) + i] = t[i]
    BY ConcatFacts
  <1>2. CASE Trusts(s)
    <2>1. PICK i \in DOMAIN s : TrustedCA \in s[i].names  BY <1>2 DEF Trusts
    <2> QED  BY <1>1, <2>1, Zenon DEF Trusts
  <1>3. CASE Trusts(t)
    <2>1. PICK i \in DOMAIN t : TrustedCA \in t[i].names  BY <1>3 DEF Trusts
    <2> QED  BY <1>1, <2>1, Zenon DEF Trusts
  <1> QED  BY <1>2, <1>3

\* What matters of a list, when only its environments are made longer.
SameDownloads(longer, list) ==
    /\ DOMAIN longer = DOMAIN list
    /\ \A i \in DOMAIN list : /\ longer[i].what = list[i].what
                              /\ longer[i].url = list[i].url
                              /\ longer[i].envFrom = list[i].envFrom

LEMMA LongerSupplied ==
    ASSUME NEW list, AllSupplied(list), NEW longer, SameDownloads(longer, list)
    PROVE  AllSupplied(longer)
  BY DEF SameDownloads, AllSupplied, Supplied

-----------------------------------------------------------------------------
(* Every step of the template keeps it.                                    *)

LEMMA BentoSupplied ==
    ASSUME KnownSettings, KeysReachModels, PodTypeOK, SupplyInv, AddBentoDownloader
    PROVE  /\ envFrom' = Keys \cup AWSKeys
           /\ Provided => AllSupplied(init')
  <1>1. pc = "aws" /\ bentoURL = BentoURL /\ envFrom = Keys
    BY DEF AddBentoDownloader, At, SupplyInv, CredentialsGathered
  <1>2. envFrom' = Keys \cup AWSKeys  BY <1>1 DEF AddBentoDownloader
  <1>3. ASSUME Provided  PROVE AllSupplied(init')
    <2>1. Credential(bentoURL) \subseteq envFrom'  BY <1>1, <1>2, <1>3, KeysSuffice DEF PodTypeOK
    <2>2. PICK d : d = Downloader("bento", bentoURL, envFrom')  OBVIOUS
    <2>3. d.url = bentoURL /\ d.envFrom = envFrom'  BY <2>2 DEF Downloader
    <2>4. Supplied(d)  BY <2>1, <2>3, Zenon DEF Supplied
    <2>5. init' = <<d>>  BY <2>2 DEF AddBentoDownloader
    <2>6. \A i \in DOMAIN init' : init'[i] = d  BY <2>5
    <2> QED  BY <2>4, <2>6, Zenon DEF AllSupplied
  <1> QED  BY <1>2, <1>3

LEMMA ModelsSupplied ==
    ASSUME KnownSettings, KeysReachModels, PodTypeOK, SupplyInv, AddModelDownloaders, Provided
    PROVE  AllSupplied(init')
  <1>1. /\ pc = "models" /\ bentoURL = BentoURL /\ envFrom = Keys \cup AWSKeys
        /\ AllSupplied(init)
    BY DEF AddModelDownloaders, At, SupplyInv, CredentialsGathered, Making
  <1>2. PICK new \in Seq(Containers) :
            /\ init' = init \o new
            /\ \A i \in DOMAIN new : \E m \in Models : new[i] = Downloader(m, ModelURL(m), envFrom)
    BY ModelsAreListed
  <1>3. \A m \in Models : Credential(ModelURL(m)) \subseteq envFrom  BY <1>1, KeysSuffice DEF PodTypeOK
  <1>4. ASSUME NEW i \in DOMAIN new  PROVE Supplied(new[i])
    <2>1. PICK m \in Models : new[i] = Downloader(m, ModelURL(m), envFrom)  BY <1>2
    <2>2. PICK url : url = ModelURL(m)  OBVIOUS
    <2>3. new[i].url = url /\ new[i].envFrom = envFrom  BY <2>1, <2>2 DEF Downloader
    <2>4. Credential(url) \subseteq envFrom  BY <1>3, <2>2
    <2> QED  BY <2>3, <2>4, Zenon DEF Supplied
  <1>5. AllSupplied(new)  BY <1>4 DEF AllSupplied
  <1> QED  BY <1>1, <1>2, <1>5, SuppliedConcat DEF PodTypeOK

LEMMA CertificateKept ==
    ASSUME PodTypeOK, InjectCACert
    PROVE  /\ AllSupplied(init) => AllSupplied(init')
           /\ input.ca = "ready" => BundleFirst(init')
           /\ builder'.user = builder.user
  <1>1. CASE input.ca # "ready"  BY <1>1 DEF InjectCACert
  <1>2. CASE input.ca = "ready"
    <2>1. PICK more \in Seq(Parts) : more = Part({TrustedCA}, "builder") /\ Len(more) = 1
                                        /\ more[1].names = {TrustedCA}
      BY PartType, KnownNames
    <2>2. \A c : Trusting(c) = Longer(c, more)  BY <2>1, Zenon DEF Trusting, Longer
    <2>3. PICK longer \in Seq(Containers) :
              /\ longer = [i \in DOMAIN init |-> Longer(init[i], more)]
              /\ SameDownloads(longer, init)
              /\ \A i \in DOMAIN init : longer[i].env = init[i].env \o more
      BY EachContainer DEF PodTypeOK, SameDownloads
    <2>4. PICK first : first = <<BundleMaker>>  OBVIOUS
    <2>5. init' = first \o longer
      <3>1. init' = <<BundleMaker>> \o [i \in DOMAIN init |-> Trusting(init[i])]
        BY <1>2 DEF InjectCACert
      <3> QED  BY <2>2, <2>3, <2>4, <3>1, Zenon
    <2>6. /\ first \in Seq(Containers) /\ DOMAIN first = {1} /\ Len(first) = 1
          /\ first[1].what = "bundle"
      BY <2>4, BundleMakerType
    <2>7. AllSupplied(first)
      <3>1. \A i \in DOMAIN first : first[i].what = "bundle"  BY <2>6
      <3> QED  BY <3>1, Zenon DEF AllSupplied, Supplied
    <2>8. AllSupplied(init) => AllSupplied(init')
      <3>1. AllSupplied(init) => AllSupplied(longer)  BY <2>3, LongerSupplied
      <3> QED  BY <2>3, <2>5, <2>6, <2>7, <3>1, SuppliedConcat
    <2>9. Trusts(more)
      <3>1. DOMAIN more = 1 .. 1  BY <2>1, LenProperties
      <3>2. 1 \in DOMAIN more  BY <3>1
      <3>3. TrustedCA \in more[1].names  BY <2>1, Zenon
      <3> QED  BY <3>2, <3>3, Zenon DEF Trusts
    <2>10. ASSUME NEW j \in DOMAIN longer  PROVE Trusts(longer[j].env)
      <3>1. j \in DOMAIN init /\ longer[j].env = init[j].env \o more  BY <2>3 DEF SameDownloads
      <3>2. init[j].env \in Seq(Parts)
        <4>1. init[j] \in Containers  BY <3>1, ElementOfSeq DEF PodTypeOK
        <4> QED  BY <4>1 DEF Containers
      <3> QED  BY <2>1, <2>9, <3>1, <3>2, TrustsConcat
    <2>11. BundleFirst(init')
      <3>1. first \in Seq(Containers) /\ longer \in Seq(Containers)  BY <2>3, <2>6
      <3>2. PICK all : all = first \o longer  OBVIOUS
      <3>3. /\ all \in Seq(Containers)
            /\ \A i \in DOMAIN first : i \in DOMAIN all /\ all[i] = first[i]
            /\ \A i \in DOMAIN all : \/ i \in DOMAIN first /\ all[i] = first[i]
                                     \/ \E j \in DOMAIN longer : all[i] = longer[j]
        BY <3>1, <3>2, ConcatFacts
      <3>4. 1 \in DOMAIN first /\ \A i \in DOMAIN first : i = 1  BY <2>6
      <3>5. BundleFirst(all)  BY <2>6, <2>10, <3>3, <3>4, Zenon DEF BundleFirst
      <3>6. init' = all  BY <2>5, <3>2, Zenon
      <3> QED  BY <3>5, <3>6, Zenon
    <2>12. builder'.user = builder.user
      <3>1. PICK env : env = builder.env \o more  OBVIOUS
      <3>2. builder' = [builder EXCEPT !.env = env]
        BY <1>2, <2>1, <3>1, Zenon DEF InjectCACert, Trusting
      <3> QED  BY <3>2 DEF PodTypeOK, BuilderContainers
    <2> QED  BY <2>8, <2>11, <2>12
  <1> QED  BY <1>1, <1>2

LEMMA EnvironmentKept ==
    ASSUME PodTypeOK, AddEnvironment
    PROVE  /\ AllSupplied(init) => AllSupplied(init')
           /\ BundleFirst(init) => BundleFirst(init')
           /\ builder'.user = builder.user
  <1>1. PICK extra \in Seq(Parts) : extra = ExtraEnv  BY ExtraEnvFacts DEF PodTypeOK
  <1>2. PICK longer \in Seq(Containers) :
            /\ longer = [i \in DOMAIN init |-> Longer(init[i], extra)]
            /\ SameDownloads(longer, init)
            /\ \A i \in DOMAIN init : longer[i].env = init[i].env \o extra
    BY EachContainer DEF PodTypeOK, SameDownloads
  <1>3. init' = longer
    <2>1. init' = [i \in DOMAIN init |-> Longer(init[i], extra)]
      BY <1>1, Zenon DEF AddEnvironment, Longer
    <2> QED  BY <1>2, <2>1, Zenon
  <1>4. AllSupplied(init) => AllSupplied(init')  BY <1>2, <1>3, LongerSupplied
  <1>5. ASSUME BundleFirst(init)  PROVE BundleFirst(init')
    <2>1. ASSUME NEW i \in DOMAIN init, i # 1  PROVE Trusts(longer[i].env)
      <3>1. Trusts(init[i].env)  BY <1>5, <2>1 DEF BundleFirst
      <3>2. init[i].env \in Seq(Parts)
        <4>1. init[i] \in Containers  BY ElementOfSeq DEF PodTypeOK
        <4> QED  BY <4>1 DEF Containers
      <3> QED  BY <1>2, <3>1, <3>2, TrustsConcat
    <2> QED  BY <1>2, <1>3, <1>5, <2>1 DEF BundleFirst, SameDownloads
  <1>6. builder'.user = builder.user
    <2>1. PICK env : env = builder.env \o ExtraEnv  OBVIOUS
    <2>2. builder' = [builder EXCEPT !.env = env]  BY <2>1, Zenon DEF AddEnvironment
    <2> QED  BY <2>2 DEF PodTypeOK, BuilderContainers
  <1> QED  BY <1>4, <1>5, <1>6

(* The steps in between change the builder only, whose user they may set.  *)
LEMMA BuilderUser ==
    ASSUME PodTypeOK
    PROVE  /\ ChooseEngine => builder'.user = User
           /\ AddSecretArgs => builder'.user = builder.user
           /\ ChooseCommand => builder'.user \in {"root", builder.user}
  <1>1. builder \in BuilderContainers  BY DEF PodTypeOK
  <1>2. ASSUME ChooseEngine  PROVE builder'.user = User
    <2>1. PICK user, env, args : builder' = [builder EXCEPT !.user = user, !.env = env, !.args = args]
                                    /\ user = User
      BY <1>2, Zenon DEF ChooseEngine, User
    <2> QED  BY <1>1, <2>1 DEF BuilderContainers
  <1>3. ASSUME AddSecretArgs  PROVE builder'.user = builder.user
    <2>1. PICK env, args : builder' = [builder EXCEPT !.env = env, !.args = args]
      BY <1>3, Zenon DEF AddSecretArgs
    <2> QED  BY <1>1, <2>1 DEF BuilderContainers
  <1>4. ASSUME ChooseCommand  PROVE builder'.user \in {"root", builder.user}
    <2>1. CASE ~input.storedInS3  BY <1>4, <2>1 DEF ChooseCommand
    <2>2. CASE input.storedInS3
      <3>1. PICK env, args :
                builder' = [builder EXCEPT !.user = "root", !.s3 = TRUE, !.args = args, !.env = env]
        BY <1>4, <2>2, Zenon DEF ChooseCommand
      <3> QED  BY <1>1, <3>1 DEF BuilderContainers
    <2> QED  BY <2>1, <2>2
  <1> QED  BY <1>2, <1>3, <1>4

(* A container that has all it needs works, and leaves the workspace to    *)
(* the builder's user.                                                     *)
LEMMA ContainerWorks ==
    ASSUME KnownSettings, PodInv, SupplyInv, pc = "pod", volume.done < Len(init), Provided
    PROVE  Works(Container)
  <1>1. /\ AllSupplied(init)
        /\ input.ca = "ready" => BundleFirst(init)
        /\ input.ca = "ready" /\ volume.done # 0 => volume.bundle
    BY DEF SupplyInv, CredentialsGathered, CertificateTrusted, FilesReadable, Making
  <1>2. /\ input \in Builds /\ init \in Seq(Containers) /\ volume.done \in Nat
        /\ AllExtended(init)
    BY DEF PodInv, PodTypeOK, Environments, Volumes
  <1>3. PICK i \in DOMAIN init : i = volume.done + 1 /\ Container = init[i]
    BY <1>2, LenProperties DEF Container
  <1>4. Supplied(init[i])  BY <1>1, Zenon DEF AllSupplied
  <1>5. CASE Container.what = "bundle"  BY <1>5 DEF Works
  <1>6. CASE Container.what # "bundle"
    <2>1. Credential(Container.url) \subseteq Container.envFrom  BY <1>3, <1>4, <1>6, Zenon DEF Supplied
    <2>2. Trusted(Container)
      <3>1. CASE input.ca = "unset"  BY <3>1 DEF Trusted
      <3>2. CASE input.ca # "unset"
        <4>1. input.ca = "ready"  BY <1>2, <3>2 DEF Provided, KnownSettings
        <4>2. i # 1 /\ Trusts(init[i].env)
          <5>1. BundleFirst(init)  BY <1>1, <4>1
          <5>2. i # 1  BY <1>3, <1>6, <5>1, Zenon DEF BundleFirst
          <5> QED  BY <5>1, <5>2, Zenon DEF BundleFirst
        <4>3. volume.bundle  BY <1>1, <1>2, <1>3, <4>1, <4>2
        <4>4. PICK env : env = init[i].env  OBVIOUS
        <4>5. env \in Seq(Parts) /\ Trusts(env)
          <5>1. init[i] \in Containers  BY <1>2, ElementOfSeq
          <5>2. env \in Seq(Parts)  BY <4>4, <5>1 DEF Containers
          <5> QED  BY <4>2, <4>4, <5>2
        <4>6. PICK n \in Nat : DOMAIN env = 1 .. n  BY <4>5, LenProperties
        <4>7. ~(\A k \in DOMAIN env : TrustedCA \notin env[k].names)  BY <4>5 DEF Trusts
        <4>8. PICK k \in DOMAIN env : Prevails(env, TrustedCA) = env[k].from
          BY <4>6, <4>7, PrevailsIsLast, Zenon
        <4>9. env[k].from \in {"builder", "config", "request", "proxy", "secret"}
          <5>1. env[k] \in Parts  BY <4>5, ElementOfSeq
          <5> QED  BY <5>1 DEF Parts
        <4>10. PICK from : from = Prevails(Container.env, TrustedCA)  OBVIOUS
        <4>11. from # Nothing  BY <1>3, <4>4, <4>8, <4>9, <4>10 DEF Nothing
        <4> QED  BY <4>3, <4>10, <4>11 DEF Trusted
      <3> QED  BY <3>1, <3>2
    <2> QED  BY <2>1, <2>2 DEF Works
  <1> QED  BY <1>5, <1>6

LEMMA ContainerDone ==
    ASSUME PodInv, SupplyInv, pc = "pod", RunInitContainer, pc' = "pod"
    PROVE  /\ input.ca = "ready" /\ volume'.done # 0 => volume'.bundle
           /\ \A i \in 1 .. volume'.done : init[i].what = "bundle" \/ volume'.owner = User
  <1>1. /\ volume.done < Len(init)
        /\ volume' = IF Container.what = "bundle"
                     THEN [volume EXCEPT !.done = @ + 1, !.bundle = TRUE]
                     ELSE [volume EXCEPT !.done = @ + 1, !.files = @ \cup {Container.what},
                                         !.owner = IF Privileged THEN "root" ELSE "1000"]
    BY DEF RunInitContainer, To
  <1>2. /\ input.ca = "ready" => init[1].what = "bundle"
        /\ input.ca = "ready" /\ volume.done # 0 => volume.bundle
        /\ \A i \in 1 .. volume.done : init[i].what = "bundle" \/ volume.owner = User
    BY DEF SupplyInv, CertificateTrusted, FilesReadable, BundleFirst
  <1>3. volume \in Volumes /\ volume.done \in Nat  BY DEF PodInv, PodTypeOK, Volumes
  <1>4. PICK done \in Nat : done = volume.done + 1  BY <1>3
  <1>5. PICK c : c = init[done] /\ Container = c  BY <1>4 DEF Container
  <1>6. \A i \in 1 .. done : i \in 1 .. volume.done \/ i = done  BY <1>3, <1>4
  <1>7. CASE c.what = "bundle"
    <2>1. volume' = [volume EXCEPT !.done = done, !.bundle = TRUE]  BY <1>1, <1>4, <1>5, <1>7
    <2>2. volume'.done = done /\ volume'.bundle /\ volume'.owner = volume.owner
      BY <1>3, <2>1 DEF Volumes
    <2> QED  BY <1>2, <1>5, <1>6, <1>7, <2>2
  <1>8. CASE c.what # "bundle"
    <2>1. PICK files : files = volume.files \cup {c.what}  OBVIOUS
    <2>2. volume' = [volume EXCEPT !.done = done, !.files = files, !.owner = User]
      BY <1>1, <1>4, <1>5, <1>8, <2>1 DEF User
    <2>3. volume'.done = done /\ volume'.bundle = volume.bundle /\ volume'.owner = User
      BY <1>3, <2>2 DEF Volumes
    <2>4. input.ca = "ready" => volume.done # 0  BY <1>2, <1>3, <1>4, <1>5, <1>8
    <2> QED  BY <1>2, <2>3, <2>4
  <1> QED  BY <1>7, <1>8

LEMMA SupplyInit == PodInit => SupplyInv
  BY DEF PodInit, SupplyInv, CredentialsGathered, CertificateTrusted, FilesReadable, NothingRefused, Making

LEMMA SupplyStep ==
    ASSUME KnownSettings, KeysReachModels, PodInv, SupplyInv, [PodNext]_podVars
    PROVE  SupplyInv'
  <1> USE DEF SupplyInv, CredentialsGathered, CertificateTrusted, FilesReadable, NothingRefused, Making, At, To
  <1>0. PodTypeOK  BY DEF PodInv
  <1>1. CASE ResolveBento
    <2>1. /\ pc = "bento" /\ UNCHANGED input /\ bentoURL' = BentoURL /\ envFrom' = Keys
          /\ pc' = IF FromYatai /\ input.yatai = "unset" THEN "rejected" ELSE "aws"
      BY <1>1 DEF ResolveBento, BentoURL, Keys
    <2>2. pc' = "rejected" => ~Provided  BY <2>1 DEF Provided
    <2> QED  BY <2>1, <2>2, SameSupply
  <1>2. CASE AddBentoDownloader
    <2>1. /\ pc = "aws" /\ pc' = "models" /\ UNCHANGED <<input, bentoURL>>  BY <1>2 DEF AddBentoDownloader
    <2>2. envFrom' = Keys \cup AWSKeys /\ (Provided => AllSupplied(init'))  BY <1>0, <1>2, BentoSupplied
    <2> QED  BY <2>1, <2>2, SameSupply
  <1>3. CASE AddModelDownloaders
    <2>1. pc' = "config" /\ UNCHANGED input  BY <1>3 DEF AddModelDownloaders
    <2>2. Provided => AllSupplied(init')  BY <1>0, <1>3, ModelsSupplied
    <2> QED  BY <2>1, <2>2, SameSupply
  <1>4. CASE ReadConfig
    <2>1. /\ pc = "config" /\ pc' = IF input.config.broken THEN "rejected" ELSE "engine"
          /\ UNCHANGED <<input, init>>
      BY <1>4 DEF ReadConfig
    <2>2. pc' = "rejected" => ~Provided  BY <2>1 DEF Provided
    <2> QED  BY <2>1, <2>2, SameSupply
  <1>5. CASE ChooseEngine
    <2>1. /\ pc = "engine" /\ pc' = IF input.engine = "unknown" THEN "rejected" ELSE "secretArgs"
          /\ UNCHANGED <<input, init>> /\ builder'.user = User
      BY <1>0, <1>5, BuilderUser DEF ChooseEngine
    <2>2. pc' = "rejected" => ~Provided  BY <2>1 DEF Provided
    <2> QED  BY <2>1, <2>2, SameSupply
  <1>6. CASE AddSecretArgs
    <2>1. /\ pc = "secretArgs" /\ pc' = "command"
          /\ UNCHANGED <<input, init>> /\ builder'.user = builder.user
      BY <1>0, <1>6, BuilderUser DEF AddSecretArgs
    <2> QED  BY <2>1, SameSupply
  <1>7. CASE ChooseCommand
    <2>1. /\ pc = "command" /\ pc' = "caCert"
          /\ UNCHANGED <<input, init>> /\ builder'.user \in {"root", builder.user}
      BY <1>0, <1>7, BuilderUser DEF ChooseCommand
    <2> QED  BY <2>1, SameSupply
  <1>8. CASE InjectCACert
    <2>1. /\ pc = "caCert" /\ pc' = "podSpec" /\ UNCHANGED input
      BY <1>8 DEF InjectCACert
    <2>2. /\ AllSupplied(init) => AllSupplied(init')
          /\ input.ca = "ready" => BundleFirst(init')
          /\ builder'.user = builder.user
      BY <1>0, <1>8, CertificateKept
    <2> QED  BY <2>1, <2>2, SameSupply
  <1>9. CASE MergePodSpec
    <2>1. /\ pc = "podSpec" /\ pc' = "environment" /\ UNCHANGED <<input, init, builder>>
      BY <1>9 DEF MergePodSpec
    <2> QED  BY <2>1, SameSupply
  <1>10. CASE AddEnvironment
    <2>1. /\ pc = "environment" /\ pc' = "pod" /\ UNCHANGED <<input, volume>>
      BY <1>10 DEF AddEnvironment
    <2>2. /\ AllSupplied(init) => AllSupplied(init')
          /\ BundleFirst(init) => BundleFirst(init')
          /\ builder'.user = builder.user
      BY <1>0, <1>10, EnvironmentKept
    <2>3. volume'.done = 0  BY <2>1 DEF PodInv, Filled, EmptyVolume
    <2>4. \A i \in 1 .. volume'.done : FALSE  BY <2>3
    <2> QED  BY <2>1, <2>2, <2>3, <2>4, SameSupply
  <1>11. CASE Fail
    <2>1. pc' = "bento"  BY <1>11 DEF Fail
    <2> QED  BY <2>1
  <1>12. CASE RunInitContainer
    <2>1. /\ pc = "pod" /\ volume.done < Len(init) /\ pc' \in {"pod", "podFailed"}
          /\ pc' = "podFailed" => ~Works(Container)
          /\ UNCHANGED <<input, init, builder>>
      BY <1>12 DEF RunInitContainer
    <2>2. pc' = "podFailed" => ~Provided  BY <2>1, ContainerWorks
    <2>3. pc' = "pod" =>
              /\ input.ca = "ready" /\ volume'.done # 0 => volume'.bundle
              /\ \A i \in 1 .. volume'.done : init[i].what = "bundle" \/ volume'.owner = User
      BY <1>12, <2>1, ContainerDone
    <2> QED  BY <2>1, <2>2, <2>3, SameSupply
  <1>13. CASE RunBuilder
    <2>1. pc' = "built"  BY <1>13 DEF RunBuilder
    <2> QED  BY <2>1
  <1>14. CASE UNCHANGED podVars
    <2>1. UNCHANGED <<input, pc, bentoURL, envFrom, init, builder, volume>>  BY <1>14 DEF podVars
    <2> QED  BY <2>1, SameSupply
  <1> QED
    BY <1>1, <1>2, <1>3, <1>4, <1>5, <1>6, <1>7, <1>8, <1>9, <1>10, <1>11, <1>12, <1>13, <1>14
    DEF PodNext, Template, PodDone

(* Nothing goes wrong with a build that everything was provided for: its   *)
(* template is not refused, every credential and the certificate reach     *)
(* every container that takes them, before it runs, and the builder may    *)
(* read what it finds (lines 2442-2811, 2921-2934 and 3198-3399).          *)
THEOREM ProvidedBuildsAreSound ==
    ASSUME KnownSettings, KeysReachModels
    PROVE  PodSpec => []ProvidedBuildIsSound
  <1>1. PodInit => PodInv /\ SupplyInv  BY PodInvInit, SupplyInit
  <1>2. (PodInv /\ SupplyInv) /\ [PodNext]_podVars => (PodInv /\ SupplyInv)'
    BY PodInvStep, SupplyStep
  <1>3. PodInv /\ SupplyInv => ProvidedBuildIsSound
    <2> SUFFICES ASSUME PodInv, SupplyInv, pc = "pod", volume.done = Len(init), Provided
                 PROVE  builder.user \in {"root", volume.owner}
      BY DEF ProvidedBuildIsSound, SupplyInv, NothingRefused
    <2>1. /\ builder.user \in {"root", User}
          /\ \A i \in 1 .. volume.done : init[i].what = "bundle" \/ volume.owner = User
      BY DEF SupplyInv, FilesReadable
    <2>2. Whats(init) \ {"bundle"} = ({"bento"} \cup Wanted) \ {"bundle"}  BY DEF PodInv, Gathered
    <2>3. "bento" \in Whats(init)  BY <2>2
    <2>4. PICK i \in DOMAIN init : init[i].what = "bento"  BY <2>3 DEF Whats
    <2>5. i \in 1 .. volume.done  BY LenProperties DEF PodInv, PodTypeOK
    <2>6. volume.owner = User  BY <2>1, <2>4, <2>5
    <2> QED  BY <2>1, <2>6
  <1> QED  BY <1>1, <1>2, <1>3, PTL DEF PodSpec
=============================================================================
