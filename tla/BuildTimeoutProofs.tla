------------------------- MODULE BuildTimeoutProofs --------------------------
(***************************************************************************)
(* No builder job is blamed for a timeout before its time, whatever the    *)
(* timeout and however fine the ticks of the clock are.                    *)
(*                                                                         *)
(* The report compares the age of the condition with the timeout and       *)
(* blames the job, so the two clocks have to be related.  They are started *)
(* together, by the call that makes the job, unless an earlier call failed *)
(* after it had set the condition; every later change of the condition     *)
(* starts its clock again, and only makes it the younger one.  What is     *)
(* lost in between is the fraction of a second that the time of a          *)
(* transition is stored without.                                           *)
(***************************************************************************)
EXTENDS BuildTimeout, TLAPS

Statuses == {"absent", "unknown", "true", "false"}
Phases == {"none", "waiting", "active", "failed", "succeeded"}

\* The types the argument depends on.
ClocksTypeOK ==
    /\ condition \in [status : Statuses, age : Nat]
    /\ job \in [phase : Phases, age : Nat]
    /\ seen \in Phases
    /\ blamed \in Nat
    /\ faults \in Nat

\* The manager has seen no job that was never made.
SeenIsMade == job.phase = "none" => seen = "none"

\* As long as no call has failed, the condition is set by the call that makes the job.
SetWithJob == faults = 0 => (condition.status = "absent" <=> job.phase = "none")

\* The condition is older than the job by less than a second.
ClocksAgree == faults = 0 /\ job.phase # "none" => condition.age < job.age + Second

ClockInvariant == ClocksTypeOK /\ SeenIsMade /\ SetWithJob /\ ClocksAgree /\ TimeoutIsEarned

-----------------------------------------------------------------------------
(* A status write leaves the condition alone or starts its clock within    *)
(* the last second.                                                        *)
LEMMA SetStatusFacts ==
    ASSUME NEW c \in [status : Statuses, age : Nat], NEW status \in Statuses,
           NEW d \in SetStatus(c, status)
    PROVE  /\ d \in [status : Statuses, age : Nat]
           /\ d.status = status
           /\ d = c \/ d.age < Second
  BY TimeoutAssumption DEF SetStatus

(* The first write of a call starts the clock of a condition that is not   *)
(* there yet.                                                              *)
LEMMA InitialisedFacts ==
    ASSUME ClocksTypeOK, NEW d \in Initialised
    PROVE  /\ d \in [status : Statuses, age : Nat]
           /\ d.status # "absent"
           /\ condition.status = "absent" => d.age < Second
  <1>1. CASE condition.status = "absent"
    <2>1. d \in SetStatus(condition, "unknown")  BY <1>1 DEF Initialised
    <2>2. d \in [status : Statuses, age : Nat] /\ d.status = "unknown"
      BY <2>1, SetStatusFacts DEF ClocksTypeOK, Statuses
    <2>3. d.age < Second  BY <1>1, <2>1, TimeoutAssumption DEF SetStatus
    <2> QED  BY <2>2, <2>3
  <1>2. CASE condition.status # "absent"
    BY <1>2 DEF Initialised, ClocksTypeOK
  <1> QED  BY <1>1, <1>2

(* Ages saturate, but keep their order.                                    *)
LEMMA LaterFacts ==
    ASSUME NEW a \in Nat, NEW b \in Nat
    PROVE  /\ Later(a) \in Nat
           /\ a < b + Second => Later(a) < Later(b) + Second
  BY TimeoutAssumption DEF Later, Old

(* A write to the condition while there is a job: what the invariant says  *)
(* of the two clocks stays true.                                           *)
LEMMA ConditionRestarts ==
    ASSUME ClockInvariant, job.phase # "none", UNCHANGED <<job, seen, blamed, faults>>,
           condition' \in [status : Statuses, age : Nat], condition'.status # "absent",
           condition' = condition \/ condition'.age < Second
    PROVE  ClockInvariant'
  <1>1. ClocksTypeOK' /\ SeenIsMade' /\ SetWithJob' /\ TimeoutIsEarned'
    BY DEF ClockInvariant, ClocksTypeOK, SeenIsMade, SetWithJob, TimeoutIsEarned, Never, Old
  <1>2. ClocksAgree'
    BY TimeoutAssumption DEF ClockInvariant, ClocksTypeOK, ClocksAgree
  <1> QED  BY <1>1, <1>2 DEF ClockInvariant

-----------------------------------------------------------------------------
LEMMA InitClocks ==
    ASSUME Init
    PROVE  ClockInvariant
  BY TimeoutAssumption
  DEF Init, ClockInvariant, ClocksTypeOK, SeenIsMade, SetWithJob, ClocksAgree, TimeoutIsEarned,
      Statuses, Phases, Never, Old

\* A failed call is the one way to an older condition: from then on nothing is claimed.
LEMMA ReconcileFailsKeepsClocks ==
    ASSUME ClockInvariant, ReconcileFails
    PROVE  ClockInvariant'
  <1>1. condition' \in [status : Statuses, age : Nat]
    BY InitialisedFacts DEF ReconcileFails, ClockInvariant
  <1>2. faults' \in Nat /\ faults' # 0
    BY DEF ReconcileFails, ClockInvariant, ClocksTypeOK
  <1> QED
    BY <1>1, <1>2 DEF ReconcileFails, ClockInvariant, ClocksTypeOK, SeenIsMade, SetWithJob,
                      ClocksAgree, TimeoutIsEarned

\* Both clocks start here.
LEMMA CreateJobKeepsClocks ==
    ASSUME ClockInvariant, CreateJob
    PROVE  ClockInvariant'
  <1>1. /\ condition' \in [status : Statuses, age : Nat]
        /\ condition'.status # "absent"
        /\ condition.status = "absent" => condition'.age < Second
    BY InitialisedFacts DEF CreateJob, ClockInvariant
  <1>2. job'.phase = "waiting" /\ job'.age = 0 /\ job' \in [phase : Phases, age : Nat]
    BY DEF CreateJob, Phases
  <1>3. faults = 0 => condition.status = "absent"
    BY DEF CreateJob, ClockInvariant, SetWithJob
  <1>4. UNCHANGED <<seen, blamed, faults>>  BY DEF CreateJob
  <1>5. ClocksTypeOK' /\ SeenIsMade' /\ SetWithJob' /\ TimeoutIsEarned'
    BY <1>1, <1>2, <1>4
    DEF ClockInvariant, ClocksTypeOK, SeenIsMade, SetWithJob, TimeoutIsEarned, Never, Old
  <1>6. ClocksAgree'
    BY <1>1, <1>2, <1>3, <1>4, TimeoutAssumption DEF ClocksAgree
  <1> QED  BY <1>5, <1>6 DEF ClockInvariant

LEMMA ReportRunningKeepsClocks ==
    ASSUME ClockInvariant, ReportRunning
    PROVE  ClockInvariant'
  <1>1. condition \in [status : Statuses, age : Nat] /\ BuildingStatus \in Statuses
    BY DEF ClockInvariant, ClocksTypeOK, BuildingStatus, Statuses
  <1>2. /\ condition' \in [status : Statuses, age : Nat]
        /\ condition'.status = BuildingStatus
        /\ condition' = condition \/ condition'.age < Second
    BY <1>1, SetStatusFacts DEF ReportRunning
  <1>3. condition'.status # "absent"  BY <1>2 DEF BuildingStatus
  <1>4. job.phase # "none"  BY DEF ReportRunning, ClockInvariant, SeenIsMade, Running
  <1>5. UNCHANGED <<job, seen, blamed, faults>>  BY DEF ReportRunning
  <1> QED  BY <1>2, <1>3, <1>4, <1>5, ConditionRestarts

\* The job that is blamed is younger than the condition by less than a second.
LEMMA ReportTimeoutKeepsClocks ==
    ASSUME ClockInvariant, ReportTimeout
    PROVE  ClockInvariant'
  <1>1. condition \in [status : Statuses, age : Nat] /\ BuildingStatus \in Statuses
    BY DEF ClockInvariant, ClocksTypeOK, BuildingStatus, Statuses
  <1>2. PICK c \in SetStatus(condition, BuildingStatus) : condition' \in SetStatus(c, "false")
    BY DEF ReportTimeout
  <1>3. c \in [status : Statuses, age : Nat] /\ (c = condition \/ c.age < Second)
    BY <1>1, <1>2, SetStatusFacts
  <1>4. /\ condition' \in [status : Statuses, age : Nat]
        /\ condition'.status = "false"
        /\ condition' = c \/ condition'.age < Second
    <2>1. "false" \in Statuses  BY DEF Statuses
    <2> QED  BY <1>2, <1>3, <2>1, SetStatusFacts
  <1>5. job.phase # "none"  BY DEF ReportTimeout, ClockInvariant, SeenIsMade, Running
  <1>6. UNCHANGED <<job, seen, faults>> /\ blamed' = job.age  BY DEF ReportTimeout
  <1>7. ClocksTypeOK' /\ SeenIsMade' /\ SetWithJob'
    BY <1>4, <1>5, <1>6 DEF ClockInvariant, ClocksTypeOK, SeenIsMade, SetWithJob
  <1>8. ClocksAgree'
    BY <1>3, <1>4, <1>5, <1>6, TimeoutAssumption DEF ClockInvariant, ClocksTypeOK, ClocksAgree
  <1>9. TimeoutIsEarned'
    <2>1. faults = 0 => condition.age < job.age + Second
      BY <1>5 DEF ClockInvariant, ClocksAgree
    <2>2. condition.age > Timeout  BY DEF ReportTimeout, TimedOut
    <2>3. condition.age \in Nat /\ job.age \in Nat  BY DEF ClockInvariant, ClocksTypeOK
    <2> QED  BY <1>6, <2>1, <2>2, <2>3, TimeoutAssumption DEF TimeoutIsEarned
  <1> QED  BY <1>7, <1>8, <1>9 DEF ClockInvariant

LEMMA ReportEndKeepsClocks ==
    ASSUME ClockInvariant, ReportEnd
    PROVE  ClockInvariant'
  <1>1. condition \in [status : Statuses, age : Nat] /\ "false" \in Statuses
    BY DEF ClockInvariant, ClocksTypeOK, Statuses
  <1>2. /\ condition' \in [status : Statuses, age : Nat]
        /\ condition'.status = "false"
        /\ condition' = condition \/ condition'.age < Second
    BY <1>1, SetStatusFacts DEF ReportEnd
  <1>3. job.phase # "none"  BY DEF ReportEnd, ClockInvariant, SeenIsMade
  <1>4. UNCHANGED <<job, seen, blamed, faults>>  BY DEF ReportEnd
  <1> QED  BY <1>2, <1>3, <1>4, ConditionRestarts

\* The cluster: a job that was made stays made.
LEMMA ClusterKeepsClocks ==
    ASSUME ClockInvariant, SyncJob \/ PodComesOrGoes \/ BuildEnds \/ DeadlineExceeded
    PROVE  ClockInvariant'
  <1>1. CASE SyncJob
    BY <1>1 DEF SyncJob, ClockInvariant, ClocksTypeOK, SeenIsMade, SetWithJob, ClocksAgree,
                TimeoutIsEarned, Never, Old
  <1>2. CASE PodComesOrGoes \/ BuildEnds \/ DeadlineExceeded
    <2>1. /\ job.phase \in Running
          /\ \E to \in Phases \ {"none"} : job' = [job EXCEPT !.phase = to]
          /\ UNCHANGED <<condition, seen, blamed, faults>>
      BY <1>2 DEF PodComesOrGoes, BuildEnds, DeadlineExceeded, MoveJob, Running, Phases
    <2>2. /\ job' \in [phase : Phases, age : Nat]
          /\ job'.age = job.age /\ job'.phase # "none" /\ job.phase # "none"
      BY <2>1 DEF ClockInvariant, ClocksTypeOK, Running
    <2> QED
      BY <2>1, <2>2 DEF ClockInvariant, ClocksTypeOK, SeenIsMade, SetWithJob, ClocksAgree,
                        TimeoutIsEarned, Never, Old
  <1> QED  BY <1>1, <1>2

LEMMA TickKeepsClocks ==
    ASSUME ClockInvariant, Tick
    PROVE  ClockInvariant'
  <1>1. condition.age \in Nat /\ job.age \in Nat  BY DEF ClockInvariant, ClocksTypeOK
  <1>2. /\ condition' \in [status : Statuses, age : Nat]
        /\ condition'.status = condition.status /\ condition'.age = Later(condition.age)
        /\ job' \in [phase : Phases, age : Nat]
        /\ job'.phase = job.phase /\ job'.age = Later(job.age)
    BY <1>1, LaterFacts DEF Tick, ClockInvariant, ClocksTypeOK
  <1>3. condition.age < job.age + Second => condition'.age < job'.age + Second
    BY <1>1, <1>2, LaterFacts
  <1>4. UNCHANGED <<seen, blamed, faults>>  BY DEF Tick
  <1> QED
    BY <1>2, <1>3, <1>4 DEF ClockInvariant, ClocksTypeOK, SeenIsMade, SetWithJob, ClocksAgree,
                            TimeoutIsEarned, Never, Old

-----------------------------------------------------------------------------
(* The two clocks agree in every reachable state, and with them: a job is  *)
(* reported as timed out only when it has run for the time it was given,   *)
(* to within a second, unless a call failed before there was a job.        *)
THEOREM JobsGetTheirTime == Spec => [](ClocksAgree /\ TimeoutIsEarned)
  <1>1. Init => ClockInvariant  BY InitClocks
  <1>2. ClockInvariant /\ [Next]_vars => ClockInvariant'
    <2>1. SUFFICES ASSUME ClockInvariant, [Next]_vars
                   PROVE  ClockInvariant'
      OBVIOUS
    <2>2. CASE ReconcileFails  BY <2>1, <2>2, ReconcileFailsKeepsClocks
    <2>3. CASE CreateJob  BY <2>1, <2>3, CreateJobKeepsClocks
    <2>4. CASE ReportRunning  BY <2>1, <2>4, ReportRunningKeepsClocks
    <2>5. CASE ReportTimeout  BY <2>1, <2>5, ReportTimeoutKeepsClocks
    <2>6. CASE ReportEnd  BY <2>1, <2>6, ReportEndKeepsClocks
    <2>7. CASE SyncJob \/ PodComesOrGoes \/ BuildEnds \/ DeadlineExceeded
      BY <2>1, <2>7, ClusterKeepsClocks
    <2>8. CASE Tick  BY <2>1, <2>8, TickKeepsClocks
    <2>9. CASE UNCHANGED vars
      BY <2>1, <2>9 DEF vars, ClockInvariant, ClocksTypeOK, SeenIsMade, SetWithJob, ClocksAgree,
                        TimeoutIsEarned, Never, Old
    <2> QED
      BY <2>1, <2>2, <2>3, <2>4, <2>5, <2>6, <2>7, <2>8, <2>9 DEF Next, Reconcile
  <1>3. ClockInvariant => ClocksAgree /\ TimeoutIsEarned  BY DEF ClockInvariant
  <1> QED  BY <1>1, <1>2, <1>3, PTL DEF Spec
=============================================================================
