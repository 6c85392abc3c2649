----------------------------- MODULE ImageNames ------------------------------
(***************************************************************************)
(* Image names and registries: which registry and credentials a request    *)
(* uses (getDockerRegistry), the name of its image there                   *)
(* (getBentoImageName), how the registry is asked for it                   *)
(* (checkImageExists) and where the builder pushes it.  Requests for       *)
(* several bentos share one registry, whose images are found by name only. *)
(*                                                                         *)
(* A text is a sequence of pieces, each of which has a length: a word, or  *)
(* the MD5 digest of a text.  A call that fails is retried from the start. *)
(***************************************************************************)
EXTENDS Naturals, Sequences

CONSTANTS
    Requests,
    Bento,          \* [Requests -> what is asked for: see MCBuild]
    Configs,        \* the possible configurations of the manager's registry
    WordLength,     \* the length of each word
    StoreOf,        \* the registry that each host name leads to
    Speaks,         \* "http" or "https": what each host listens to
    Contains,       \* pairs of texts, the first of which contains the second
    MaxFaults       \* bound on calls that fail for reasons of their own

TagLimit == 128
DigestLength == 32

ASSUME ImageNamesAssumption ==
    /\ DOMAIN Bento = Requests
    /\ \A r \in Requests : /\ Bento[r].insecure \in {"unset", "true", "false"}
                          /\ Bento[r].separateModels \in BOOLEAN /\ Bento[r].storedInS3 \in BOOLEAN
    /\ \A c \in Configs : c.estargz \in BOOLEAN
    /\ \A h \in DOMAIN Speaks : Speaks[h] \in {"http", "https"} /\ h \in DOMAIN StoreOf
    /\ MaxFaults \in Nat

VARIABLES
    config,     \* the configuration that the manager runs with
    name,       \* the outer and inner name of each request's image: each call computes the same
    registry,   \* the images there are: an image's address, and what it was built from
    progress,   \* [Requests -> "new", "failed", "building" or "served"]
    faults

vars == <<config, name, registry, progress, faults>>

None == "none"

-----------------------------------------------------------------------------
Word(w) == [word |-> w, of |-> <<>>]
Digest(text) == [word |-> "md5", of |-> text]

PieceLength(piece) == IF piece.word = "md5" THEN DigestLength ELSE WordLength[piece.word]

Length(text) ==
    LET upTo[n \in 0 .. Len(text)] == IF n = 0 THEN 0 ELSE upTo[n - 1] + PieceLength(text[n])
    IN upTo[Len(text)]

\* spec.image: the request names its image itself.
Named(r) == Bento[r].image.host # None

\* getBentoImagePrefix: the storage namespace of the annotation, else of the request.
Owner(r) ==
    IF Bento[r].storageNS # None THEN Bento[r].storageNS
    ELSE IF config.addNamespacePrefix THEN Bento[r].namespace ELSE None

Prefix(r) == IF Owner(r) = None THEN <<>> ELSE <<Word(Owner(r)), Word(".")>>

Suffix(flag, word) == IF flag THEN <<Word("."), Word(word)>> ELSE <<>>

\* Mutant: the mode of the bento is not part of the name.
TailWithoutMode(r) ==
    Bento[r].repository \o <<Word(".")>> \o Bento[r].version
        \o Suffix(config.estargz, "esgz") \o Suffix(Bento[r].storedInS3, "s3")

NameTail(r) ==
    Bento[r].repository \o <<Word(".")>> \o Bento[r].version
        \o Suffix(Bento[r].separateModels, "nomodels")
        \o Suffix(config.estargz, "esgz") \o Suffix(Bento[r].storedInS3, "s3")

(* A tag that is too long has its tail replaced by a digest.  When that is *)
(* too long still, the code cuts a digest of 32 characters at 128, which   *)
(* panics: there is no tag.                                                *)
Tag(r) ==
    LET start == <<Word("yatai.")>> \o Prefix(r)
        hashed == start \o <<Digest(NameTail(r))>>
    IN IF Length(start \o NameTail(r)) <= TagLimit THEN start \o NameTail(r)
       ELSE IF Length(hashed) <= TagLimit THEN hashed ELSE <<>>

-----------------------------------------------------------------------------
(* getDockerRegistry.  A docker config secret of the request's own says    *)
(* nothing about repositories, whose URIs then stay empty.                 *)
OwnSecret(r) == Bento[r].auths # {}

Repository(server) == IF <<server, "docker.io">> \in Contains THEN "docker.io" ELSE server

Host(r, inCluster) ==
    IF Named(r) THEN Bento[r].image.host
    ELSE IF OwnSecret(r) THEN None
    ELSE IF inCluster /\ config.inClusterServer # None THEN Repository(config.inClusterServer)
    ELSE Repository(config.server)

\* getBentoImageName
ImageName(r, inCluster) ==
    [host |-> Host(r, inCluster), tag |-> IF Named(r) THEN Bento[r].image.tag ELSE Tag(r)]

\* Mutant: any entry that looks like the image's registry will do.
SimilarAuths(r) ==
    LET host == Host(r, FALSE)
        similar == {k \in Bento[r].auths : k = host \/ <<k, host>> \in Contains}
    IN IF similar # {} THEN similar ELSE Bento[r].auths

(* The entry of the docker config that is used: that of the image's        *)
(* registry, else any whose key contains it, else any (the order in which  *)
(* a map is walked is not fixed).                                          *)
Auths(r) ==
    LET host == Host(r, FALSE)
        similar == {k \in Bento[r].auths : <<k, host>> \in Contains}
    IN IF host \in Bento[r].auths THEN {host}
       ELSE IF similar # {} THEN similar ELSE Bento[r].auths

\* DockerRegistry.Secure, which is false when the request brings a secret and no setting.
Secure(r) == IF OwnSecret(r) THEN Bento[r].insecure = "false" ELSE config.secure

\* ImageInfo.DockerRegistryInsecure
Insecure(r) ==
    IF ~OwnSecret(r) THEN ~config.secure
    ELSE IF Bento[r].insecure # "unset" THEN Bento[r].insecure = "true" ELSE Bento[r].annotatedInsecure

Address(n) == [store |-> StoreOf[n.host], tag |-> n.tag]

\* What a bento's image is made of.
Content(r) ==
    [owner |-> Owner(r), repository |-> Bento[r].repository, version |-> Bento[r].version,
     separateModels |-> Bento[r].separateModels, storedInS3 |-> Bento[r].storedInS3]

-----------------------------------------------------------------------------
\* CheckECRImageExists is asked by the outer name, any other registry by the one in the cluster.
Asked(r) == name[r][~config.ecr]

Panics(r) == Asked(r).tag = <<>>

\* The registry answers: it has a name, its protocol is used, and the credentials are its own.
Answers(r, key) ==
    /\ Asked(r).host # None
    /\ config.ecr \/ Speaks[Asked(r).host] = (IF Secure(r) THEN "https" ELSE "http")
    /\ OwnSecret(r) => StoreOf[key] = StoreOf[Asked(r).host]

Found(r) == ~Bento[r].forceBuild /\ \E i \in registry : i.address = Address(Asked(r))

\* The entries a call may use; the credentials of the configuration are the registry's own.
Keys(r) == IF OwnSecret(r) THEN Auths(r) ELSE {None}

Go(r, step) == progress' = [progress EXCEPT ![r] = step]

\* checkImageExists; a build that is forced does not ask.
CheckImage(r) ==
    /\ progress[r] = "new" /\ ~Panics(r)
    /\ Bento[r].forceBuild \/ \E key \in Keys(r) : Answers(r, key)
    /\ Go(r, IF Found(r) THEN "served" ELSE "building")
    /\ UNCHANGED <<config, name, registry, faults>>

\* The call panics, or the registry does not answer it.
MayFail(r) == Panics(r) \/ (~Bento[r].forceBuild /\ \E key \in Keys(r) : ~Answers(r, key))

FailCheck(r) ==
    /\ progress[r] = "new"
    /\ MayFail(r) \/ faults < MaxFaults
    /\ faults' = IF MayFail(r) THEN faults ELSE faults + 1
    /\ Go(r, "failed")
    /\ UNCHANGED <<config, name, registry>>

Retry(r) == progress[r] = "failed" /\ Go(r, "new") /\ UNCHANGED <<config, name, registry, faults>>

\* The builder's --destination and --insecure
Pushes(r) ==
    /\ name[r][TRUE].host # None
    /\ Speaks[name[r][TRUE].host] = "https" \/ Insecure(r)

\* The builder job pushes the image and ends; the request's Bento is then given its outer name.
PushImage(r) ==
    /\ progress[r] = "building" /\ Pushes(r)
    /\ LET address == Address(name[r][TRUE]) IN
       registry' = {i \in registry : i.address # address}
                      \cup {[address |-> address, content |-> Content(r)]}
    /\ Go(r, "served")
    /\ UNCHANGED <<config, name, faults>>

Init ==
    /\ config \in Configs
    /\ name = [r \in Requests |-> [inCluster \in BOOLEAN |-> ImageName(r, inCluster)]]
    /\ registry = {}
    /\ progress = [r \in Requests |-> "new"]
    /\ faults = 0

\* Every request has its image: nothing is left to do.
Done == (\A r \in Requests : progress[r] = "served") /\ UNCHANGED vars

Next ==
    \/ \E r \in Requests : CheckImage(r) \/ FailCheck(r) \/ Retry(r) \/ PushImage(r)
    \/ Done

(* Calls are made, retried when they fail, and builder jobs run to their   *)
(* end.  Nothing is assumed of the order in which Go walks a map.          *)
Fairness == \A r \in Requests : /\ WF_vars(CheckImage(r) \/ FailCheck(r))
                               /\ WF_vars(Retry(r)) /\ WF_vars(PushImage(r))

Spec == Init /\ [][Next]_vars /\ Fairness

-----------------------------------------------------------------------------
(* The image under the name that a served request's Bento is given is the  *)
(* one built from its own bento, in its own mode: no other request's image *)
(* is taken for it, and none replaces it later.                            *)
PulledImageIsOwn ==
    \A r \in Requests : progress[r] = "served" =>
        \E i \in registry : i.address = Address(name[r][FALSE]) /\ i.content = Content(r)

(* Every request gets its image, whatever its names, registry and          *)
(* credentials are: no name panics, and no registry is asked in a way that *)
(* it never answers.                                                       *)
EveryRequestGetsItsImage == \A r \in Requests : <>(progress[r] = "served")
=============================================================================
