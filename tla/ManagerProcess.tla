--------------------------- MODULE ManagerProcess ----------------------------
(***************************************************************************)
(* The process of the image builder: SetupWithManager launches the         *)
(* goroutine that registers the component (ComponentRegistration) before   *)
(* main has checked S3 and started the manager (ManagerSetup), whose cache *)
(* that goroutine reads.  A process that fails its check, or is stopped,   *)
(* takes the goroutine with it; the deployment starts the next one.        *)
(***************************************************************************)
EXTENDS ManagerSetup

CONSTANTS
    Disabled,     \* DISABLE_YATAI_COMPONENT_REGISTRATION
    Endpoints, Clusters, Default, Nothing, MaxEdits, MaxFaults

ASSUME ProcessAssumption == Default \in Clusters /\ Nothing \notin Endpoints \cup Clusters

VARIABLES config, loop, client, registered, edits, faults

Registration == INSTANCE ComponentRegistration

registrationVars == <<config, loop, client, registered, edits, faults>>
processVars == <<vars, registrationVars>>

ProcessInit == Init /\ Registration!Init

\* SetupWithManager, in a process that has not started its manager yet.
SetupWithManager ==
    /\ ~up /\ ~Disabled
    /\ Registration!Launch
    /\ UNCHANGED <<vars, config, registered, edits, faults>>

\* main, once the controller is set up: the check of S3 and the start of the manager.
StartManager ==
    /\ Disabled \/ loop # "off"
    /\ Start
    /\ UNCHANGED registrationVars

\* verifyConfigurations fails: the process exits.
FailVerification ==
    /\ ~up /\ loop # "off"
    /\ ~setting.skipCheck /\ ~s3
    /\ Registration!End
    /\ UNCHANGED <<vars, config, registered, edits, faults>>

StopProcess == Stop /\ Registration!End /\ UNCHANGED <<config, registered, edits, faults>>

\* The configuration is read through the cache, which answers only when the manager runs.
ReadConfiguration ==
    /\ IF up THEN Registration!GetYataiClient
       ELSE loop = "read" /\ Registration!GiveUp /\ UNCHANGED faults
    /\ UNCHANGED vars

RegistrationLoop ==
    \/ ReadConfiguration
    \/ (Registration!Tick \/ Registration!Register) /\ UNCHANGED vars

Environment ==
    \/ (Registration!EditConfig \/ Registration!Fail) /\ UNCHANGED vars
    \/ S3Answers /\ UNCHANGED registrationVars

Requested(r) == (Reconcile(r) \/ FinishJob(r)) /\ UNCHANGED registrationVars

ProcessNext ==
    \/ SetupWithManager \/ StartManager \/ FailVerification \/ StopProcess
    \/ RegistrationLoop \/ Environment
    \/ \E r \in Requests : Requested(r)

(* The deployment starts the process, the ticker ticks and a call ends     *)
(* within its five minutes; nothing has to stop, to be edited or to fail.  *)
ProcessFairness ==
    /\ WF_processVars(SetupWithManager) /\ WF_processVars(StartManager)
    /\ WF_processVars(RegistrationLoop)
    /\ Fairness

ProcessSpec == ProcessInit /\ [][ProcessNext]_processVars /\ ProcessFairness

-----------------------------------------------------------------------------
(* The image builder ends up registered with the server and under the      *)
(* cluster that are configured, although its first read may come before    *)
(* the manager runs, the configuration may change between the read and     *)
(* the request, calls may fail and the process may be replaced.            *)
RegistrationFollowsConfig == ~Disabled => <>[]Registration!Known
=============================================================================
