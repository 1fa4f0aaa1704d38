---------------------------- MODULE TenantService ----------------------------
(***************************************************************************)
(* A pod of a tenant's Deployment, second by second: the service           *)
(* (tenant-service/main.go), which serves /healthz only after it has       *)
(* reached its database and answers it by asking the database, and the     *)
(* kubelet, which runs the two probes of the Deployment against that       *)
(* endpoint and restarts the container.                                    *)
(*                                                                         *)
(* The pod's Ready condition is what TenantReconciler's pod events report; *)
(* the secret and the database are those of SharedPostgreSQL.              *)
(***************************************************************************)
EXTENDS Naturals

CONSTANTS
    ReadinessDelay, ReadinessPeriod, ReadinessThreshold,    \* seconds, seconds,
    LivenessDelay, LivenessPeriod, LivenessThreshold,       \* failures in a row
    MaxBackoff      \* bound: seconds between a container's end and the next one

ASSUME ProbesAssumption ==
    /\ {ReadinessPeriod, ReadinessThreshold, LivenessPeriod, LivenessThreshold} \subseteq Nat \ {0}
    /\ {ReadinessDelay, LivenessDelay, MaxBackoff} \subseteq Nat

VARIABLES
    secret,     \* the tenant's database-secret exists
    reachable,  \* the database answers during this second
    process,    \* what the container's process is doing
    age,        \* seconds since the container started, up to MaxAge
    due,        \* due[p]: seconds until the kubelet's next round of probe p
    failures,   \* failures[p]: failures of probe p in a row
    ready,      \* the pod's Ready condition
    backoff,    \* seconds until the container may be started
    silent,     \* history: seconds since the service was up and its database
                \* answered, up to ReadinessLag
    steady,     \* history: seconds this has lasted, up to SteadyTime
    unsteady    \* history: seconds since it had lasted that long, up to LivenessLag

vars == <<secret, reachable, process, age, due, failures, ready, backoff,
          silent, steady, unsteady>>

-----------------------------------------------------------------------------

\* Mutant of Probes: the Deployment has no liveness probe.
ReadinessProbeOnly == {"readiness"}

Probes == {"readiness", "liveness"}

\* Mutant of Delay: the two initial delays are swapped.
DelaySwapped == [readiness |-> LivenessDelay, liveness |-> ReadinessDelay]

Delay == [readiness |-> ReadinessDelay, liveness |-> LivenessDelay]
Period == [readiness |-> ReadinessPeriod, liveness |-> LivenessPeriod]
Threshold == [readiness |-> ReadinessThreshold, liveness |-> LivenessThreshold]

\* From the last answer to the failure that reaches the threshold; from the
\* first failure in a row to the one that does.  In SteadyTime a liveness probe
\* succeeds.
ReadinessLag == ReadinessThreshold * ReadinessPeriod
LivenessLag == (LivenessThreshold - 1) * LivenessPeriod
SteadyTime == LivenessPeriod + 1
MaxAge == LivenessDelay + ReadinessDelay + LivenessLag

Processes == {"none",        \* the container is not running
              "connecting",  \* in the loop of connectToDatabase
              "hanging",     \* in a Ping of that loop that does not return
              "serving"}     \* in ListenAndServe

Typed ==
    /\ secret \in BOOLEAN /\ reachable \in BOOLEAN /\ ready \in BOOLEAN
    /\ process \in Processes
    /\ age \in 0 .. MaxAge
    /\ DOMAIN due = Probes /\ \A p \in Probes : due[p] \in 0 .. Period[p]
    /\ DOMAIN failures = Probes /\ \A p \in Probes : failures[p] \in 0 .. Threshold[p]
    /\ backoff \in 0 .. MaxBackoff
    /\ silent \in 0 .. ReadinessLag
    /\ steady \in 0 .. SteadyTime
    /\ unsteady \in 0 .. LivenessLag

\* Ready are only pods whose service has reached its database and listens.
TypeOK == Typed /\ (ready => process = "serving")

Init ==
    /\ secret = FALSE /\ reachable = FALSE /\ ready = FALSE
    /\ process = "none"
    /\ age = 0 /\ backoff = 0
    /\ due \in [Probes -> 0 .. ReadinessPeriod + LivenessPeriod] /\ \A p \in Probes : due[p] < Period[p]
    /\ failures = [p \in Probes |-> 0]
    /\ silent = ReadinessLag /\ steady = 0 /\ unsteady = LivenessLag

\* Time and the history of it pass in Tick only.
Now == UNCHANGED <<secret, reachable, silent, steady, unsteady>>

-----------------------------------------------------------------------------
(* tenant-service/main.go *)

\* The environment comes from the secret, without which no container starts.
StartContainer ==
    /\ process = "none" /\ secret /\ backoff = 0
    /\ process' = "connecting"
    /\ age' = 0
    /\ failures' = [p \in Probes |-> 0]
    /\ Now
    /\ UNCHANGED <<due, ready, backoff>>

\* connectToDatabase: one attempt a second, until one succeeds.
CanConnect == process = "connecting" /\ reachable

Connect ==
    /\ CanConnect
    /\ process' = "serving"
    /\ Now
    /\ UNCHANGED <<age, due, failures, ready, backoff>>

\* The connection string sets no timeout: an attempt that finds no database may
\* return late, or never.
Hang ==
    /\ process = "connecting" /\ ~reachable
    /\ process' = "hanging"
    /\ Now
    /\ UNCHANGED <<age, due, failures, ready, backoff>>

PingReturns ==
    /\ process = "hanging"
    /\ process' = "connecting"
    /\ Now
    /\ UNCHANGED <<age, due, failures, ready, backoff>>

\* Mutants of Healthy: the handler does not ask the database; the server
\* listens before the database was reached, and the handler does not ask.
HealthyWhenServing == process = "serving"
HealthyWhenStarted == process # "none"

\* healthHandler.  Before the server listens the probe's connection is refused.
Healthy == process = "serving" /\ reachable

-----------------------------------------------------------------------------
(* The kubelet *)

Pending(p) == due[p] = 0 /\ process # "none" /\ age >= Delay[p]

Succeed(p) ==
    /\ Pending(p) /\ Healthy
    /\ due' = [due EXCEPT ![p] = Period[p]]
    /\ failures' = [failures EXCEPT ![p] = 0]
    /\ ready' = (ready \/ p = "readiness")
    /\ Now
    /\ UNCHANGED <<process, age, backoff>>

\* The failure that reaches the threshold makes the pod unready, or ends the
\* container.
Fail(p) ==
    LET last == failures[p] + 1 >= Threshold[p]
        kill == last /\ p = "liveness"
    IN
    /\ Pending(p) /\ ~Healthy
    /\ due' = [due EXCEPT ![p] = Period[p]]
    /\ failures' = [failures EXCEPT ![p] = IF last THEN Threshold[p] ELSE @ + 1]
    /\ ready' = (ready /\ ~last)
    /\ process' = IF kill THEN "none" ELSE process
    /\ IF kill THEN backoff' \in 0 .. MaxBackoff ELSE UNCHANGED backoff
    /\ Now
    /\ UNCHANGED age

-----------------------------------------------------------------------------
(* The world *)

\* CreateTenantSecret of SharedPostgreSQL.
CreateSecret ==
    /\ ~secret
    /\ secret' = TRUE
    /\ UNCHANGED <<reachable, process, age, due, failures, ready, backoff,
                   silent, steady, unsteady>>

Answering == process = "serving" /\ reachable

UpTo(bound, n) == IF n < bound THEN n ELSE bound

\* A second passes in which every probe that was due has run and an attempt to
\* connect was made; the database may be up or down in the next.
Tick ==
    /\ ~CanConnect /\ \A p \in Probes : ~Pending(p)
    /\ reachable' \in BOOLEAN
    /\ age' = UpTo(MaxAge, age + 1)
    /\ due' = [p \in Probes |-> IF due[p] = 0 THEN Period[p] - 1 ELSE due[p] - 1]
    /\ backoff' = IF backoff = 0 THEN 0 ELSE backoff - 1
    /\ silent' = IF Answering THEN 0 ELSE UpTo(ReadinessLag, silent + 1)
    /\ steady' = IF Answering THEN UpTo(SteadyTime, steady + 1) ELSE 0
    /\ unsteady' = IF steady' = SteadyTime THEN 0 ELSE UpTo(LivenessLag, unsteady + 1)
    /\ UNCHANGED <<secret, process, failures, ready>>

Probe(p) == Succeed(p) \/ Fail(p)

Next ==
    \/ CreateSecret \/ StartContainer \/ Connect \/ Hang \/ PingReturns
    \/ \E p \in Probes : Probe(p)
    \/ Tick

Spec == Init /\ [][Next]_vars

\* Time passes, the kubelet does its work and the service tries to connect.
\* That a hanging Ping returns is not assumed.
Fairness ==
    /\ WF_vars(Tick) /\ WF_vars(StartContainer) /\ WF_vars(Connect)
    /\ \A p \in Probes : WF_vars(Probe(p))

FairSpec == Spec /\ Fairness

-----------------------------------------------------------------------------
(* Safety *)

\* A pod is reported ready only while its database answered within the last
\* ReadinessLag seconds, however the database comes and goes between probes.
ReadyIsRecent == ready => Answering \/ silent < ReadinessLag

\* Both probes ask the database, so an outage of it can end a service that
\* works: but not a service whose database answered for SteadyTime on end, up to
\* less than LivenessLag seconds ago, and not a container that has not had the
\* delay and the probes it is granted to wait for its database.
KilledOnlyAfterTrouble ==
    [][process # "none" /\ process' = "none" =>
        unsteady = LivenessLag /\ age >= LivenessDelay + LivenessLag]_vars

-----------------------------------------------------------------------------
(* Liveness, under FairSpec *)

\* A pod whose database stays up becomes and stays ready, although its process
\* may hang in a Ping of the time before: the liveness probe gets it out.
RecoversFromOutage == <>[](secret /\ reachable) => <>[]ready

=============================================================================
