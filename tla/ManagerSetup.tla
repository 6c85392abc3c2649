---------------------------- MODULE ManagerSetup -----------------------------
(***************************************************************************)
(* main and SetupWithManager: from the flags of the process to the objects *)
(* the manager caches and the events that queue a request.  A request is   *)
(* reduced to one builder job: Reconcile creates it, and finishes when it  *)
(* sees it finished.                                                       *)
(*                                                                         *)
(* A namespace name is a sequence of pieces of text, so that one name can  *)
(* be part of another.  The empty sequence is the empty string.            *)
(***************************************************************************)
EXTENDS Naturals, Sequences

CONSTANTS
    Requests,     \* the BentoRequest objects
    NamespaceOf,  \* [Requests -> names]
    Settings,     \* the flags and environments the process may be started with
    MaxRestarts   \* bound on restarts of the process

VARIABLES
    setting,   \* [watch, all, system, skipCheck]: this process's flags and environment
    s3,        \* whether the S3 endpoint answers
    up,        \* whether the manager runs
    queue,     \* the work queue
    job,       \* [Requests -> "none", "running" or "finished"]
    available, \* the requests whose Bento is there
    restarts

vars == <<setting, s3, up, queue, job, available, restarts>>

Empty == <<>>

-----------------------------------------------------------------------------
\* strings.Split: the text without any name gives one name, the empty one.
Split(watch) == IF watch = {} THEN {Empty} ELSE watch

\* Part of a text, from its i-th piece.
PartAt(name, part, i) == i + Len(part) - 1 <= Len(name) /\ SubSeq(name, i, i + Len(part) - 1) = part

\* strings.Contains on the whole flag, not on its names.
Contains(watch, part) == \E name \in watch : \E i \in 1 .. Len(name) : PartAt(name, part, i)

\* watchNamespacesList, with the system namespace.
WatchList(s) ==
    Split(s.watch) \cup
        (IF s.system # Empty /\ ~Contains(s.watch, s.system) THEN {s.system} ELSE {})

\* The cache of the manager: DefaultNamespaces, where the empty name stands for all.
Cached(s, namespace) == s.all \/ Empty \in WatchList(s) \/ namespace \in WatchList(s)

\* Mutant: the map is kept when every namespace is watched.
FilterByList(s, namespace) == namespace \in WatchList(s)

\* namespaceFilter: a lookup in NamespaceMap, which is nil when all are watched.
NamespaceFilter(s, namespace) == s.all \/ namespace \in WatchList(s)

-----------------------------------------------------------------------------
Init ==
    /\ setting \in Settings
    /\ s3 \in BOOLEAN
    /\ up = FALSE
    /\ queue = {}
    /\ job = [r \in Requests |-> "none"]
    /\ available = {}
    /\ restarts = 0

(* The manager starts: verifyConfigurations must reach S3 unless it is     *)
(* skipped, and the first list of every cached request queues it.          *)
Start ==
    /\ ~up
    /\ setting.skipCheck \/ s3
    /\ up' = TRUE
    /\ queue' = {r \in Requests : Cached(setting, NamespaceOf[r])}
    /\ UNCHANGED <<setting, s3, job, available, restarts>>

\* The process ends, and its queue with it.
Stop ==
    /\ up /\ restarts < MaxRestarts
    /\ restarts' = restarts + 1
    /\ up' = FALSE
    /\ queue' = {}
    /\ UNCHANGED <<setting, s3, job, available>>

\* The endpoint comes back.
S3Answers ==
    /\ ~s3
    /\ s3' = TRUE
    /\ UNCHANGED <<setting, up, queue, job, available, restarts>>

\* What a watch of owned objects does with an event: it queues the owner.
OwnedEvent(r) ==
    queue' = IF up /\ Cached(setting, NamespaceOf[r]) /\ NamespaceFilter(setting, NamespaceOf[r])
             THEN queue \cup {r} ELSE queue

(* Reconcile.  The builder job is made from a config map in the system     *)
(* namespace (getBuildArgs), and a read outside of the cached namespaces   *)
(* is an error: the request is queued again.                               *)
ConfigReadable == setting.system = Empty \/ Cached(setting, setting.system)

Reconcile(r) ==
    /\ up /\ r \in queue
    /\ \/ /\ job[r] = "none"
          /\ IF ConfigReadable
             THEN job' = [job EXCEPT ![r] = "running"] /\ queue' = queue \ {r}
             ELSE UNCHANGED <<job, queue>>
          /\ UNCHANGED available
       \/ /\ job[r] # "none"
          /\ available' = IF job[r] = "finished" THEN available \cup {r} ELSE available
          /\ queue' = queue \ {r}
          /\ UNCHANGED job
    /\ UNCHANGED <<setting, s3, up, restarts>>

\* The builder job ends, and Kubernetes reports it to the watch.
FinishJob(r) ==
    /\ job[r] = "running"
    /\ job' = [job EXCEPT ![r] = "finished"]
    /\ OwnedEvent(r)
    /\ UNCHANGED <<setting, s3, up, available, restarts>>

(* The worker takes every queued request, jobs end and S3 comes back.      *)
Fairness ==
    /\ WF_vars(S3Answers)
    /\ \A r \in Requests : WF_vars(Reconcile(r)) /\ WF_vars(FinishJob(r))

-----------------------------------------------------------------------------
(* Every request the manager caches is brought to its desired state,       *)
(* whatever the flags: its jobs' events are not filtered away, and the     *)
(* configuration it needs is in the cache.                                 *)
CachedRequestsAreServed ==
    \A r \in Requests : Cached(setting, NamespaceOf[r]) ~> (r \in available)
=============================================================================
