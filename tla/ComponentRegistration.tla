------------------------ MODULE ComponentRegistration ------------------------
(***************************************************************************)
(* The goroutine registerYataiComponent: once at start and then on every   *)
(* tick of five minutes it reads the Yatai configuration, builds a client  *)
(* and registers this image builder with the Yatai server, while the       *)
(* configuration is edited and either end may fail.  ManagerProcess starts *)
(* it, and ends it with the process.                                       *)
(***************************************************************************)
EXTENDS Naturals

CONSTANTS
    Endpoints,    \* the Yatai servers
    Clusters,     \* cluster names
    Default,      \* the cluster name "default"
    Nothing,      \* an empty field
    MaxEdits,     \* bound on edits of the configuration
    MaxFaults     \* bound on failing calls

VARIABLES
    config,      \* endpoint and cluster name; both are empty when there is no configuration
    loop,        \* "off", "waiting", "read" or "register"
    client,      \* the endpoint and cluster of the client the call has built
    registered,  \* what the servers know: pairs of an endpoint and a cluster
    edits, faults

vars == <<config, loop, client, registered, edits, faults>>

Configs == [endpoint : Endpoints \cup {Nothing}, cluster : Clusters \cup {Nothing}]
NoClient == [endpoint |-> Nothing, cluster |-> Nothing]

Init ==
    /\ config = NoClient
    /\ loop = "off"
    /\ client = NoClient
    /\ registered = {}
    /\ edits = 0 /\ faults = 0

\* go registerYataiComponent()
Launch == loop = "off" /\ loop' = "read" /\ UNCHANGED client

\* The goroutine ends with its process.
End == loop' = "off" /\ client' = NoClient

EditConfig ==
    /\ edits < MaxEdits
    /\ edits' = edits + 1
    /\ config' \in Configs
    /\ UNCHANGED <<loop, client, registered, faults>>

Tick ==
    /\ loop = "waiting"
    /\ loop' = "read"
    /\ UNCHANGED <<config, client, registered, edits, faults>>

\* There is a server to talk to.
Configured == config.endpoint # Nothing

\* Mutant: an empty cluster name is sent as it is.
ClientAsConfigured == config

\* The client for the present configuration.
ClientFor == [config EXCEPT !.cluster = IF @ = Nothing THEN Default ELSE @]

(* getYataiClient: a configuration that is missing or has no endpoint      *)
(* gives no client and no error, and the call ends.                        *)
GetYataiClient ==
    /\ loop = "read"
    /\ IF Configured
       THEN loop' = "register" /\ client' = ClientFor
       ELSE loop' = "waiting" /\ UNCHANGED client
    /\ UNCHANGED <<config, registered, edits, faults>>

\* RegisterYataiComponent posts to the clusters' components.
Register ==
    /\ loop = "register"
    /\ registered' = registered \cup {<<client.endpoint, client.cluster>>}
    /\ loop' = "waiting"
    /\ client' = NoClient
    /\ UNCHANGED <<config, edits, faults>>

\* A read or the request fails, or takes longer than five minutes: logged, until the next tick.
GiveUp ==
    /\ loop \in {"read", "register"}
    /\ loop' = "waiting"
    /\ client' = NoClient
    /\ UNCHANGED <<config, registered, edits>>

Fail == GiveUp /\ faults < MaxFaults /\ faults' = faults + 1

-----------------------------------------------------------------------------
\* What the loop should have registered for the present configuration.
Known ==
    Configured => <<config.endpoint, IF config.cluster = Nothing THEN Default ELSE config.cluster>>
                     \in registered
=============================================================================
