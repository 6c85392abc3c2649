---------------------------- MODULE BuildTimeout -----------------------------
(***************************************************************************)
(* spec.imageBuildTimeout, which is enforced twice: the builder job has an *)
(* activeDeadlineSeconds of its own, and ensureImageExists compares the    *)
(* time since the ImageBuilding condition last changed its status, at the  *)
(* moments when an event or an error brings the request back.              *)
(*                                                                         *)
(* Time is kept as ages in clock ticks, which saturate at Old.  A call of  *)
(* Reconcile takes no time; the request is neither edited nor are its      *)
(* models kept apart.                                                      *)
(***************************************************************************)
EXTENDS Naturals

CONSTANTS
    Timeout,     \* spec.imageBuildTimeout in ticks
    Second,      \* ticks in a second
    MaxFaults    \* bound on failing look-ups of the image before there is a job

ASSUME TimeoutAssumption == Timeout \in Nat /\ Second \in Nat \ {0} /\ MaxFaults \in Nat

VARIABLES
    condition,   \* ImageBuilding: its status, and the ticks since it last changed
    job,         \* the builder job: its phase, and the ticks since it was started
    seen,        \* the phase of the job in the manager's cache
    queued,      \* whether the request is in the work queue
    blamed,      \* the age of the job when it was reported as timed out, or Never
    faults

vars == <<condition, job, seen, queued, blamed, faults>>

Old == Timeout + 2
Never == Old + 1


\* ActiveDeadlineSeconds: whole seconds, rounded down.
ActiveDeadline == (Timeout \div Second) * Second

Running == {"waiting", "active"}

Init ==
    /\ condition = [status |-> "absent", age |-> 0]
    /\ job = [phase |-> "none", age |-> 0]
    /\ seen = "none"
    /\ queued = TRUE
    /\ blamed = Never
    /\ faults = 0

(* meta.SetStatusCondition: only a change of the status is a transition.   *)
(* Its time is stored in whole seconds, so a condition looks older than it *)
(* is, by less than a second.                                              *)
SetStatus(c, status) ==
    IF c.status = status THEN {c} ELSE {[status |-> status, age |-> age] : age \in 0 .. Second - 1}

\* The first Reconcile sets the condition to Unknown.
Initialised == IF condition.status = "absent" THEN SetStatus(condition, "unknown") ELSE {condition}

\* The registry cannot be asked, or the job cannot be made: the call is retried.
ReconcileFails ==
    /\ queued /\ seen = "none"
    /\ faults < MaxFaults /\ faults' = faults + 1
    /\ condition' \in Initialised
    /\ UNCHANGED <<job, seen, queued, blamed>>

CreateJob ==
    /\ queued /\ seen = "none" /\ job.phase = "none"
    /\ job' = [phase |-> "waiting", age |-> 0]
    /\ condition' \in Initialised
    /\ queued' = FALSE
    /\ UNCHANGED <<seen, blamed, faults>>

\* Mutant: the timeout is compared in seconds.
TimedOutInSeconds == condition.age > Timeout \div Second

\* LastTransitionTime.Add(timeout).Before(now)
TimedOut == condition.age > Timeout

\* What the condition says of a running job.
BuildingStatus == IF seen = "active" THEN "true" ELSE "unknown"

ReportRunning ==
    /\ queued /\ seen \in Running
    /\ ~TimedOut
    /\ condition' \in SetStatus(condition, BuildingStatus)
    /\ queued' = FALSE
    /\ UNCHANGED <<job, seen, blamed, faults>>

\* Both conditions are set, one after the other; the error queues the request again.
ReportTimeout ==
    /\ queued /\ seen \in Running
    /\ TimedOut
    /\ \E c \in SetStatus(condition, BuildingStatus) : condition' \in SetStatus(c, "false")
    /\ blamed' = job.age
    /\ UNCHANGED <<job, seen, queued, faults>>

\* The job has failed or succeeded.
ReportEnd ==
    /\ queued /\ seen \in {"failed", "succeeded"}
    /\ condition' \in SetStatus(condition, "false")
    /\ queued' = FALSE
    /\ UNCHANGED <<job, seen, blamed, faults>>

Reconcile == ReconcileFails \/ CreateJob \/ ReportRunning \/ ReportTimeout \/ ReportEnd

-----------------------------------------------------------------------------
\* The informer sees the job, and its event queues the request.
SyncJob ==
    /\ seen # job.phase
    /\ seen' = job.phase
    /\ queued' = TRUE
    /\ UNCHANGED <<condition, job, blamed, faults>>

\* A pod is scheduled or evicted, or the build ends; a build may also hang.
MoveJob(from, to) ==
    /\ job.phase \in from
    /\ job' = [job EXCEPT !.phase = to]
    /\ UNCHANGED <<condition, seen, queued, blamed, faults>>

PodComesOrGoes == MoveJob({"waiting"}, "active") \/ MoveJob({"active"}, "waiting")
BuildEnds == MoveJob({"active"}, "succeeded") \/ MoveJob(Running, "failed")
DeadlineExceeded == job.age >= ActiveDeadline /\ MoveJob(Running, "failed")

Later(age) == IF age < Old THEN age + 1 ELSE Old

Tick ==
    /\ condition' = [condition EXCEPT !.age = Later(@)]
    /\ job' = [job EXCEPT !.age = Later(@)]
    /\ UNCHANGED <<seen, queued, blamed, faults>>

Next == Reconcile \/ SyncJob \/ PodComesOrGoes \/ BuildEnds \/ DeadlineExceeded \/ Tick

(* Time passes, the worker and the informer keep running, and the job      *)
(* controller enforces the deadline.  No build has to end by itself, but   *)
(* its pod does not come and go for ever without the deadline being seen.  *)
Fairness ==
    /\ WF_vars(Tick) /\ WF_vars(SyncJob) /\ SF_vars(DeadlineExceeded)
    /\ WF_vars(CreateJob) /\ WF_vars(ReportRunning) /\ WF_vars(ReportTimeout) /\ WF_vars(ReportEnd)

Spec == Init /\ [][Next]_vars /\ Fairness

-----------------------------------------------------------------------------
(* A job that is reported as timed out ("Image building job %s is          *)
(* timeout") has run for the time it was given, to within a second, unless *)
(* a call that failed before there was a job has used that time up.        *)
TimeoutIsEarned == blamed # Never /\ faults = 0 => blamed + Second > Timeout

=============================================================================
