------------------------------- MODULE Manager -------------------------------
(***************************************************************************)
(* main() of the operator and the runnables it starts: replicas of the     *)
(* process that are configured, compete for the leader lease if they are   *)
(* told to, and then run the TenantEnvironment controller beside           *)
(* startupRunner, which creates the namespace shared-services and its      *)
(* PostgreSQL ConfigMap.  Every error ends the process, and the kubelet    *)
(* starts it again.  Leader election does not fence: a leader that is      *)
(* paused, or cut off from the API server, may go on for a while beside    *)
(* the one that took the lease from it.                                    *)
(*                                                                         *)
(* SharedPostgreSQL has what becomes of the shared objects as its variable *)
(* startup; its calls are made while the controller is "working" here,     *)
(* which may be before startupRunner is done.                              *)
(***************************************************************************)
EXTENDS Naturals

CONSTANTS
    Replicas,
    None,       \* nobody holds the lease
    Stale,      \* the lease is held by a process that has ended
    MaxFaults   \* bound: API calls that fail, processes that end for reasons outside
                \* the model and leases that expire under a live holder

ASSUME ReplicasAssumption == Replicas # {} /\ {None, Stale} \cap Replicas = {} /\ None # Stale
ASSUME ManagerFaultsAssumption == MaxFaults \in Nat

VARIABLES
    leaderElect,    \* the flag --leader-elect
    certificates,   \* the files the certificate flags name are there
    crd,            \* the TenantEnvironment CRD is installed
    shared,         \* the objects of Objects that exist
    lease,          \* its holder
    step,           \* step[r]: how far main() of replica r has got
    controller,     \* controller[r]: its TenantEnvironment controller
    runner,         \* runner[r]: its startupRunner
    cached,         \* cached[r]: the shared objects its cache holds
    lost,           \* history, lost[r][o]: creations of o that met the object of another
    faults

vars == <<leaderElect, certificates, crd, shared, lease, step, controller, runner,
          cached, lost, faults>>

World == <<leaderElect, certificates, crd, faults>>

-----------------------------------------------------------------------------

Objects == {"namespace", "configMap"}

Steps == {"down", "configuring", "setUp", "starting", "candidate", "running"}
RunnerSteps == {"off", "namespace", "createNamespace", "configMap", "createConfigMap", "done"}

TypeOK ==
    /\ leaderElect \in BOOLEAN /\ certificates \in BOOLEAN /\ crd \in BOOLEAN
    /\ shared \subseteq Objects
    /\ lease \in Replicas \cup {None, Stale}
    /\ step \in [Replicas -> Steps]
    /\ controller \in [Replicas -> {"off", "syncing", "working"}]
    /\ runner \in [Replicas -> RunnerSteps]
    /\ cached \in [Replicas -> SUBSET Objects]
    /\ lost \in [Replicas -> [Objects -> Nat]]
    /\ \A r \in Replicas :
        (step[r] = "running") = (controller[r] # "off") /\ (controller[r] = "off") = (runner[r] = "off")
    /\ faults \in 0 .. MaxFaults

Init ==
    /\ leaderElect \in BOOLEAN /\ certificates \in BOOLEAN
    /\ crd = FALSE
    /\ shared = {}
    /\ lease = None
    /\ step = [r \in Replicas |-> "down"]
    /\ controller = [r \in Replicas |-> "off"]
    /\ runner = [r \in Replicas |-> "off"]
    /\ cached = [r \in Replicas |-> {}]
    /\ lost = [r \in Replicas |-> [o \in Objects |-> 0]]
    /\ faults = 0

-----------------------------------------------------------------------------
(* main *)

\* Mutant of Exit: the manager's end does not end its runnables.
ExitManagerOnly(r) ==
    /\ step' = [step EXCEPT ![r] = "down"]
    /\ lease' = IF lease = r THEN Stale ELSE lease
    /\ UNCHANGED <<controller, runner, cached>>

\* os.Exit(1).  The lease is not released (LeaderElectionReleaseOnCancel is not
\* set): it has to expire.
Exit(r) ==
    /\ step' = [step EXCEPT ![r] = "down"]
    /\ controller' = [controller EXCEPT ![r] = "off"]
    /\ runner' = [runner EXCEPT ![r] = "off"]
    /\ cached' = [cached EXCEPT ![r] = {}]
    /\ lease' = IF lease = r THEN Stale ELSE lease

Advance(r, from, to) ==
    /\ step[r] = from
    /\ step' = [step EXCEPT ![r] = to]
    /\ UNCHANGED <<World, shared, lease, controller, runner, cached, lost>>

\* The kubelet starts the container; the flags are parsed.
Launch(r) == Advance(r, "down", "configuring")

\* certwatcher.New reads the files.  No certificate flag, no missing file.
Configure(r) ==
    \/ certificates /\ Advance(r, "configuring", "setUp")
    \/ /\ ~certificates /\ step[r] = "configuring"
       /\ Exit(r)
       /\ UNCHANGED <<World, shared, lost>>

\* NewManager, SetupWithManager, the certificate watchers and the two checks.
SetUp(r) == Advance(r, "setUp", "starting")

\* The runnables that need the lease: the controller and startupRunner, at the
\* same time, once the caches hold what the API server has.
Run(r) ==
    /\ step' = [step EXCEPT ![r] = "running"]
    /\ controller' = [controller EXCEPT ![r] = "syncing"]
    /\ runner' = [runner EXCEPT ![r] = "namespace"]
    /\ cached' = [cached EXCEPT ![r] = shared]
    /\ UNCHANGED <<World, shared, lost>>

\* Mutant of Start: ctrl.Options.LeaderElection is not set.
StartAtOnce(r) == step[r] = "starting" /\ Run(r) /\ UNCHANGED lease

\* mgr.Start.
Start(r) ==
    \/ leaderElect /\ Advance(r, "starting", "candidate")
    \/ ~leaderElect /\ step[r] = "starting" /\ Run(r) /\ UNCHANGED lease

TakeLease(r) ==
    /\ step[r] = "candidate" /\ lease = None
    /\ lease' = r
    /\ Run(r)

\* A leader that finds its lease expired, and nobody else's, renews it after all.
RenewLease(r) ==
    /\ leaderElect /\ step[r] = "running" /\ lease = None
    /\ lease' = r
    /\ UNCHANGED <<World, shared, step, controller, runner, cached, lost>>

\* A leader that could not renew its lease in time finds that out when it can:
\* mgr.Start returns "leader election lost", and main ends.
LoseLease(r) ==
    /\ leaderElect /\ step[r] = "running" /\ lease # r
    /\ Exit(r)
    /\ UNCHANGED <<World, shared, lost>>

\* The controller's informers wait for the CRD; in the end Start gives up.
SyncController(r) ==
    /\ controller[r] = "syncing"
    /\ \/ /\ crd
          /\ controller' = [controller EXCEPT ![r] = "working"]
          /\ UNCHANGED <<World, shared, lease, step, runner, cached, lost>>
       \/ /\ ~crd
          /\ Exit(r)
          /\ UNCHANGED <<World, shared, lost>>

-----------------------------------------------------------------------------
(* startupRunner.Start *)

RunnerGoes(r, to) ==
    /\ runner' = [runner EXCEPT ![r] = to]
    /\ UNCHANGED <<World, lease, step, controller, cached>>

\* c.Get, answered by the cache: the creation is skipped if the object is there.
Look(r, object, create, next) ==
    /\ runner[r] = object
    /\ RunnerGoes(r, IF object \in cached[r] THEN next ELSE create)
    /\ UNCHANGED <<shared, lost>>

\* c.Create.  That the object exists, like any other error, is returned, and
\* mgr.Start and main return with it.
Create(r, object, create, next) ==
    /\ runner[r] = create
    /\ \/ /\ object \notin shared /\ (object = "configMap" => "namespace" \in shared)
          /\ shared' = shared \cup {object}
          /\ RunnerGoes(r, next)
          /\ UNCHANGED lost
       \/ /\ object \in shared
          /\ Exit(r)
          /\ lost' = [lost EXCEPT ![r][object] = @ + 1]
          /\ UNCHANGED <<World, shared>>

\* Mutant of EnsureSharedServicesNamespace: the creation is always tried.
CreateSharedServicesNamespace(r) ==
    \/ /\ runner[r] = "namespace"
       /\ RunnerGoes(r, "createNamespace")
       /\ UNCHANGED <<shared, lost>>
    \/ Create(r, "namespace", "createNamespace", "configMap")

EnsureSharedServicesNamespace(r) ==
    \/ Look(r, "namespace", "createNamespace", "configMap")
    \/ Create(r, "namespace", "createNamespace", "configMap")

\* Mutant of EnsureSharedPostgreSQLConfigMap: only an existing one is found.
FindSharedPostgreSQLConfigMap(r) == Look(r, "configMap", "done", "done")

EnsureSharedPostgreSQLConfigMap(r) ==
    \/ Look(r, "configMap", "createConfigMap", "done")
    \/ Create(r, "configMap", "createConfigMap", "done")

-----------------------------------------------------------------------------
(* The world *)

DeliverShared(r) ==
    /\ step[r] = "running" /\ cached[r] # shared
    /\ cached' = [cached EXCEPT ![r] = shared]
    /\ UNCHANGED <<World, shared, lease, step, controller, runner, lost>>

\* A lease that is not renewed expires.  Its holder has ended, or it is alive
\* and paused or cut off from the API server, and does not know.
LeaseExpires ==
    /\ lease # None
    /\ \/ lease = Stale /\ UNCHANGED faults
       \/ lease # Stale /\ faults < MaxFaults /\ faults' = faults + 1
    /\ lease' = None
    /\ UNCHANGED <<leaderElect, certificates, crd, shared, step, controller, runner,
                   cached, lost>>

\* The manifests are applied in any order.
InstallCRD ==
    /\ ~crd
    /\ crd' = TRUE
    /\ UNCHANGED <<leaderElect, certificates, faults, shared, lease, step, controller,
                   runner, cached, lost>>

MountCertificates ==
    /\ ~certificates
    /\ certificates' = TRUE
    /\ UNCHANGED <<leaderElect, crd, faults, shared, lease, step, controller,
                   runner, cached, lost>>

\* Any step of main() or of a runnable fails, or the process is killed: main()
\* ends.
Failure(r) ==
    /\ step[r] # "down"
    /\ faults < MaxFaults /\ faults' = faults + 1
    /\ Exit(r)
    /\ UNCHANGED <<leaderElect, certificates, crd, shared, lost>>

-----------------------------------------------------------------------------

Main(r) == Launch(r) \/ Configure(r) \/ SetUp(r) \/ Start(r)

StartupRunner(r) == EnsureSharedServicesNamespace(r) \/ EnsureSharedPostgreSQLConfigMap(r)

Next ==
    \/ \E r \in Replicas :
        \/ Main(r) \/ TakeLease(r) \/ RenewLease(r) \/ LoseLease(r)
        \/ SyncController(r) \/ StartupRunner(r)
        \/ DeliverShared(r) \/ Failure(r)
    \/ LeaseExpires \/ InstallCRD \/ MountCertificates

Spec == Init /\ [][Next]_vars

\* Every process and every runnable goes on, and the manifests get applied.
\* A leader that lost its lease notices in the end.  Nothing is assumed of who
\* gets the lease or of how far the caches lag.
Fairness ==
    /\ \A r \in Replicas :
        WF_vars(Main(r)) /\ WF_vars(SyncController(r)) /\ WF_vars(StartupRunner(r))
    /\ WF_vars(\E r \in Replicas : TakeLease(r))
    /\ \A r \in Replicas : WF_vars(LoseLease(r))
    /\ WF_vars(lease = Stale /\ LeaseExpires) /\ WF_vars(InstallCRD) /\ WF_vars(MountCertificates)

FairSpec == Spec /\ Fairness

-----------------------------------------------------------------------------
(* Safety *)

\* Replicas that start together, or a leader and the one that took its lease,
\* race for the shared objects, and the creation that comes second ends its
\* process: but only once for each object, since the next process finds it in
\* its cache.
RaceIsLostOncePerObject == \A r \in Replicas, o \in Objects : lost[r][o] <= 1

\* startupRunner reports success only when both objects are there.
DoneMeansShared == (\E r \in Replicas : runner[r] = "done") => shared = Objects

-----------------------------------------------------------------------------
(* Liveness, under FairSpec *)

Serving(r) == controller[r] = "working" /\ runner[r] = "done"

\* "Enabling this will ensure there is only one active controller manager": not
\* at every moment, but in the end one replica is active, the one that holds the
\* lease, however often the lease went to another while its holder was alive.
OneManagerRemains ==
    <>[](leaderElect => \E r \in Replicas :
            lease = r /\ \A q \in Replicas : (step[q] = "running") = (q = r))

\* Whatever order the manifests are applied in and whoever wins the races, the
\* operator comes up and stays up: every replica, or the leader.
OperatorComesUp ==
    /\ <>[](shared = Objects)
    /\ <>[](IF leaderElect THEN \E r \in Replicas : Serving(r)
                           ELSE \A r \in Replicas : Serving(r))

=============================================================================
