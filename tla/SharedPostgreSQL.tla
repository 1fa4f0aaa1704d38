-------------------------- MODULE SharedPostgreSQL --------------------------
(***************************************************************************)
(* CreatePostgreSQLForTenant and DeletePostgreSQLForTenant, call by call:  *)
(* how tenants are placed on shared PostgreSQL instances, how an instance  *)
(* keeps the list of its tenants in an annotation of its StatefulSet, and  *)
(* how the last tenant to leave takes the instance down.                   *)
(*                                                                         *)
(* The calls come from TenantReconciler, which makes one at a time: the    *)
(* first at most once for a tenant (ProvisionedAtMostOnce there), the      *)
(* second again and again until it returns nil (the order TenantLifecycle  *)
(* gives its calls; phase keeps track of it here).                         *)
(*                                                                         *)
(* The tenant-count label is always the length of the tenant-list          *)
(* annotation, both being written by the same Update (and both missing     *)
(* when the StatefulSet is created), so a version of a StatefulSet is the  *)
(* set of its tenants.                                                     *)
(***************************************************************************)
EXTENDS KubeApi, FiniteSets

CONSTANTS
    Tenants,        \* tenant UIDs
    Ids,            \* the ids generateId may return
    None,           \* an object that does not exist
    Shared,         \* the namespace shared-services
    MaxTenantsPerSharedInstance,
    RetrySteps,     \* attempts of retry.DefaultBackoff
    MaxFaults       \* bound: changes of spec.database.dedicatedInstance, calls (of
                    \* these operations or after them in the same reconcile) that
                    \* fail for a reason outside the model, and restarts of the
                    \* operator process, together

ASSUME CapacityAssumption ==
    MaxTenantsPerSharedInstance \in Nat \ {0} /\ RetrySteps \in Nat \ {0}
ASSUME PlacesAssumption == Shared \notin Tenants /\ None \notin Tenants \cup Ids \cup {Shared}
ASSUME NoneAssumption ==
    \A list \in SUBSET Tenants : None # list    \* what does not exist has no list of tenants
ASSUME FaultsAssumption == MaxFaults \in Nat

VARIABLES
    phase,      \* phase[t]: how far the calls for the tenant have got
    dedicated,  \* dedicated[t]: spec.database.dedicatedInstance
    home,       \* home[i]: the namespace instance i was created in
    sts,        \* sts[i]: the versions of its StatefulSet, from the one the
                \* informer has delivered to the one in the API server
    parts,      \* parts[i]: its master secret, service and volume claim
    secretOf,   \* secretOf[t]: the instance named by the tenant's database-secret
    jobs,       \* the init and removal jobs that have not completed, with
                \* those that failed for good
    databases,  \* databases[i]: the tenants that have a database on i
    startup,    \* how far startupRunner has got
    w,          \* the worker: its step, tenant, namespace, instance, attempts
    faults      \* how many of these there were

vars == <<phase, dedicated, home, sts, parts, secretOf, jobs,
          databases, startup, w, faults>>

-----------------------------------------------------------------------------
(* Types *)

Phases == {"new",       \* no call yet
           "creating", "failed", "assigned",
           "deleting", "cleaned",
           "gone"}      \* the tenant's namespace and TenantEnvironment are gone

Parts == {"secret", "service", "pvc"}

Jobs == [kind: {"init", "remove"}, tenant: Tenants, inst: Ids, failed: BOOLEAN]

CreateSteps == {"configMap", "find", "masterSecret", "statefulSet", "service",
                "tenantSecret", "initJob", "add"}
CleanupSteps == {"cleanPVC", "cleanStatefulSet", "cleanService", "cleanSecret", "cleanJobs"}
DeleteSteps == {"remove", "removeJob"} \cup CleanupSteps

Idle == [step |-> "idle", tenant |-> None, place |-> None, inst |-> None, tries |-> 0]
Worker == [step: CreateSteps \cup DeleteSteps, tenant: Tenants,
           place: Tenants \cup {Shared}, inst: Ids \cup {None}, tries: 0 .. RetrySteps]

TypeOK ==
    /\ phase \in [Tenants -> Phases]
    /\ dedicated \in [Tenants -> BOOLEAN]
    /\ home \in [Ids -> Tenants \cup {None, Shared}]
    /\ DOMAIN sts = Ids
    /\ \A i \in Ids :
        /\ Len(sts[i]) > 0
        /\ \A n \in DOMAIN sts[i] : sts[i][n] = None \/ sts[i][n] \subseteq Tenants
    /\ parts \in [Ids -> SUBSET Parts]
    /\ secretOf \in [Tenants -> Ids \cup {None}]
    /\ jobs \subseteq Jobs
    /\ databases \in [Ids -> SUBSET Tenants]
    /\ startup \in {"begun", "namespace", "ready"}
    /\ w \in {Idle} \cup Worker
    /\ w.step \notin {"idle", "configMap", "find", "masterSecret", "remove"} => w.inst \in Ids
    /\ faults \in 0 .. MaxFaults

-----------------------------------------------------------------------------
(* What a step reads and writes *)

Exists(version) == version # None

CachedSts(i) == Head(sts[i])

\* Mutant of SharedInstances: the list is not restricted to shared-services.
AllInstances == {i \in Ids : home[i] # None /\ Exists(CachedSts(i))}

\* c.List with the shared-instance label: what the cache holds.
SharedInstances == {i \in Ids : home[i] = Shared /\ Exists(CachedSts(i))}

PutSts(i, version) == sts' = [sts EXCEPT ![i] = Append(@, version)]

\* Mutant of Current: an update that does not carry the resourceVersion.
CurrentAlways(i) == Exists(Latest(sts[i]))

\* c.Update of the StatefulSet the cache holds: refused with a conflict if
\* the cache lags, with NotFound if the StatefulSet is gone.
Current(i) == IsCurrent(sts[i], 1)

Fault == faults < MaxFaults /\ faults' = faults + 1

Go(step) == w' = [w EXCEPT !.step = step] /\ UNCHANGED phase
GoWith(step, i) == w' = [w EXCEPT !.step = step, !.inst = i] /\ UNCHANGED phase

\* The call returns and leaves the tenant in phase p.
Return(p) == w' = Idle /\ phase' = [phase EXCEPT ![w.tenant] = p]

\* Mutant of ReturnError: a deletion that failed is not made again.
ReturnErrorForGood == Return("failed")

\* CreatePostgreSQLForTenant returns an error: the tenant stays Provisioning
\* and the call is never made again.  DeletePostgreSQLForTenant returns an
\* error: the finalizer stays and the call is made again.
ReturnError == Return(IF w.step \in CreateSteps THEN "failed" ELSE "deleting")

-----------------------------------------------------------------------------

Init ==
    /\ phase = [t \in Tenants |-> "new"]
    /\ dedicated \in [Tenants -> BOOLEAN]
    /\ home = [i \in Ids |-> None]
    /\ sts = [i \in Ids |-> <<None>>]
    /\ parts = [i \in Ids |-> {}]
    /\ secretOf = [t \in Tenants |-> None]
    /\ jobs = {}
    /\ databases = [i \in Ids |-> {}]
    /\ startup = "begun"
    /\ w = Idle
    /\ faults = 0

Outside == UNCHANGED <<phase, home, secretOf, w>>

\* A user edits spec.database.dedicatedInstance.
FlipDedicated(t) ==
    /\ phase[t] \notin {"cleaned", "gone"}
    /\ Fault
    /\ dedicated' = [dedicated EXCEPT ![t] = ~@]
    /\ Outside
    /\ UNCHANGED <<sts, parts, jobs, databases, startup>>

\* startupRunner.Start, beside the controllers: the shared-services namespace,
\* then its PostgreSQL ConfigMap.
Startup ==
    /\ startup # "ready"
    /\ startup' = IF startup = "begun" THEN "namespace" ELSE "ready"
    /\ Outside
    /\ UNCHANGED <<dedicated, sts, parts, jobs, databases, faults>>

-----------------------------------------------------------------------------
(* CreatePostgreSQLForTenant *)

StepOf(step) ==
    /\ w.step = step
    /\ UNCHANGED <<dedicated, databases, startup>>

Call(t, step, place) ==
    /\ w.step = "idle"
    /\ w' = [step |-> step, tenant |-> t, place |-> place, inst |-> None, tries |-> 0]
    /\ UNCHANGED <<dedicated, home, sts, parts, secretOf, jobs,
                   databases, startup, faults>>

\* Mutant of StartCreate: the call is made again for a tenant that has one.
StartCreateAgain(t) ==
    /\ phase[t] \in {"new", "assigned"}
    /\ phase' = [phase EXCEPT ![t] = "creating"]
    /\ IF dedicated[t] THEN Call(t, "configMap", t) ELSE Call(t, "find", Shared)

\* A dedicated instance lives in the tenant's namespace.  The call works on
\* the copy of the spec it is given: a later flip is not seen.
StartCreate(t) ==
    /\ phase[t] = "new"
    /\ phase' = [phase EXCEPT ![t] = "creating"]
    /\ IF dedicated[t] THEN Call(t, "configMap", t) ELSE Call(t, "find", Shared)

\* findAvailableSharedInstance: the first instance of the cached list, which
\* is in no order, with room left.
Available == {i \in SharedInstances : Cardinality(CachedSts(i)) < MaxTenantsPerSharedInstance}

\* Any error, that of the List call too, leads to a new instance.
FindAvailableSharedInstance ==
    /\ StepOf("find")
    /\ \/ \E i \in Available : GoWith("tenantSecret", i) /\ UNCHANGED faults
       \/ Available = {} /\ Go("masterSecret") /\ UNCHANGED faults
       \/ Available # {} /\ Fault /\ Go("masterSecret")
    /\ UNCHANGED <<home, sts, parts, secretOf, jobs>>

\* Needs the shared ConfigMap, which startupRunner may not have created yet.
CopyPostgreSQLConfigMap ==
    /\ StepOf("configMap")
    /\ IF startup = "ready" THEN Go("masterSecret") ELSE ReturnError
    /\ UNCHANGED <<home, sts, parts, secretOf, jobs, faults>>

\* createPostgreSQLSecret names the secret, and with it the instance, by a
\* random id.
CreateMasterSecret ==
    /\ StepOf("masterSecret")
    /\ \/ /\ w.place = Shared => startup # "begun"
          /\ \E i \in Ids :
                /\ home[i] = None
                /\ home' = [home EXCEPT ![i] = w.place]
                /\ parts' = [parts EXCEPT ![i] = @ \cup {"secret"}]
                /\ GoWith("statefulSet", i)
       \/ w.place = Shared /\ startup = "begun" /\ ReturnError /\ UNCHANGED <<home, parts>>
    /\ UNCHANGED <<sts, secretOf, jobs, faults>>

\* Mutant of CreateStatefulSet: the service is forgotten.
CreateStatefulSetOnly ==
    /\ StepOf("statefulSet")
    /\ PutSts(w.inst, {})
    /\ Go("tenantSecret")
    /\ UNCHANGED <<home, parts, secretOf, jobs, faults>>

CreateStatefulSet ==
    /\ StepOf("statefulSet")
    /\ PutSts(w.inst, {})
    /\ Go("service")
    /\ UNCHANGED <<home, parts, secretOf, jobs, faults>>

CreateService ==
    /\ StepOf("service")
    /\ parts' = [parts EXCEPT ![w.inst] = @ \cup {"service"}]
    /\ Go("tenantSecret")
    /\ UNCHANGED <<home, sts, secretOf, jobs, faults>>

\* The secret is not there yet: the call is made once for a tenant.
CreateTenantSecret ==
    /\ StepOf("tenantSecret")
    /\ secretOf' = [secretOf EXCEPT ![w.tenant] = w.inst]
    /\ Go("initJob")
    /\ UNCHANGED <<home, sts, parts, jobs, faults>>

NewJob(kind) == [kind |-> kind, tenant |-> w.tenant, inst |-> w.inst, failed |-> FALSE]

\* A tenant of a dedicated instance is in no list: the call is over.
CreateDatabaseInitJob ==
    /\ StepOf("initJob")
    /\ jobs' = jobs \cup {NewJob("init")}
    /\ IF w.place = Shared THEN Go("add") ELSE Return("assigned")
    /\ UNCHANGED <<home, sts, parts, secretOf, faults>>

\* Mutants of AddTenantToSharedInstance: a StatefulSet that is not found is
\* ignored; the instance's name is added instead of the tenant.
AddTenantIgnoringNotFound ==
    /\ StepOf("add")
    /\ \/ ~Exists(CachedSts(w.inst)) /\ UNCHANGED sts
       \/ Exists(CachedSts(w.inst)) /\ Current(w.inst)
          /\ PutSts(w.inst, CachedSts(w.inst) \cup {w.tenant})
    /\ Return("assigned")
    /\ UNCHANGED <<home, parts, secretOf, jobs, faults>>
AddInstanceName ==
    /\ StepOf("add")
    /\ Exists(CachedSts(w.inst)) /\ Current(w.inst)
    /\ PutSts(w.inst, CachedSts(w.inst) \cup {w.inst})
    /\ Return("assigned")
    /\ UNCHANGED <<home, parts, secretOf, jobs, faults>>

\* One attempt of addTenantToSharedInstance.  Only a conflict is tried again,
\* and the StatefulSet is read from the cache each time; a StatefulSet that
\* is not in the cache, or no longer in the API server, is an error.  Nothing
\* asks again whether there is room.
AddTenantToSharedInstance ==
    /\ StepOf("add")
    /\ LET i == w.inst IN
       \/ ~Exists(CachedSts(i)) /\ ReturnError /\ UNCHANGED sts
       \/ /\ Exists(CachedSts(i)) /\ Current(i)
          /\ PutSts(i, CachedSts(i) \cup {w.tenant})
          /\ Return("assigned")
       \/ /\ Exists(CachedSts(i)) /\ ~Current(i)
          /\ IF Exists(Latest(sts[i])) /\ w.tries + 1 < RetrySteps
             THEN w' = [w EXCEPT !.tries = @ + 1] /\ UNCHANGED phase
             ELSE ReturnError
          /\ UNCHANGED sts
    /\ UNCHANGED <<home, parts, secretOf, jobs, faults>>

-----------------------------------------------------------------------------
(* DeletePostgreSQLForTenant *)

\* The database of a dedicated tenant goes with its namespace.
StartDelete(t) ==
    /\ phase[t] \notin {"creating", "cleaned", "gone"}
    /\ \/ /\ dedicated[t] /\ w.step = "idle"
          /\ phase' = [phase EXCEPT ![t] = "cleaned"]
          /\ UNCHANGED <<dedicated, home, sts, parts, secretOf, jobs,
                         databases, startup, w, faults>>
       \/ /\ ~dedicated[t]
          /\ phase' = [phase EXCEPT ![t] = "deleting"]
          /\ Call(t, "remove", Shared)

\* DeletePostgreSQLForTenant returned nil, but the quota, the namespace or the
\* finalizer could not be removed: the reconcile is done again from its start.
LaterStepFails(t) ==
    /\ phase[t] = "cleaned"
    /\ Fault
    /\ phase' = [phase EXCEPT ![t] = "deleting"]
    /\ UNCHANGED <<dedicated, home, sts, parts, secretOf, jobs, databases, startup, w>>

\* removeTenantFromSharedInstance: the first instance whose cached list has
\* the tenant is updated.
RemoveTenantFromSharedInstance ==
    /\ StepOf("remove")
    /\ LET listing == {i \in SharedInstances : w.tenant \in CachedSts(i)}
       IN
       \/ listing = {} /\ Return("cleaned") /\ UNCHANGED sts
       \/ \E i \in listing :
            LET rest == CachedSts(i) \ {w.tenant} IN
            \/ /\ Current(i)
               /\ PutSts(i, rest)
               /\ GoWith(IF rest = {} THEN "cleanPVC" ELSE "removeJob", i)
            \/ ~Current(i) /\ ReturnError /\ UNCHANGED sts
    /\ UNCHANGED <<home, parts, secretOf, jobs, faults>>

\* Mutant of CreateDatabaseRemoveJob: the job is forgotten.
CreateNoRemoveJob ==
    /\ StepOf("removeJob")
    /\ Return("cleaned")
    /\ UNCHANGED <<home, sts, parts, secretOf, jobs, faults>>

CreateDatabaseRemoveJob ==
    /\ StepOf("removeJob")
    /\ jobs' = jobs \cup {NewJob("remove")}
    /\ Return("cleaned")
    /\ UNCHANGED <<home, sts, parts, secretOf, faults>>

\* cleanupSharedPostgreSQLInstance.  Each part is deleted if its informer has
\* delivered it, which is left open, and skipped if not; a failure is recorded
\* and the next part is tried; the caller ignores the result.
AfterCleaning ==
    [cleanPVC |-> "cleanStatefulSet", cleanStatefulSet |-> "cleanService",
     cleanService |-> "cleanSecret", cleanSecret |-> "cleanJobs"]

CleanupGoesOn ==
    IF w.step = "cleanJobs" THEN Return("cleaned") ELSE Go(AfterCleaning[w.step])

CleanPart(step, part) ==
    /\ StepOf(step)
    /\ \/ parts' = [parts EXCEPT ![w.inst] = @ \ {part}]
       \/ UNCHANGED parts
    /\ CleanupGoesOn
    /\ UNCHANGED <<home, sts, secretOf, jobs, faults>>

CleanPVC == CleanPart("cleanPVC", "pvc")
CleanService == CleanPart("cleanService", "service")
CleanSecret == CleanPart("cleanSecret", "secret")

CleanStatefulSet ==
    /\ w.step = "cleanStatefulSet"
    /\ PutSts(w.inst, None)
    /\ databases' = [databases EXCEPT ![w.inst] = {}]
    /\ CleanupGoesOn
    /\ UNCHANGED <<dedicated, home, parts, secretOf, jobs, startup, faults>>

\* A job the cache does not list yet survives; it waits for ever for an
\* instance that is gone, so it is dropped here too.
CleanJobs ==
    /\ StepOf("cleanJobs")
    /\ jobs' = {j \in jobs : j.inst # w.inst}
    /\ CleanupGoesOn
    /\ UNCHANGED <<home, sts, parts, secretOf, faults>>

-----------------------------------------------------------------------------
(* Failures *)

\* The API call of the running step fails.  A failed List of the instances is
\* part of FindAvailableSharedInstance; the cleanup is given up only if it
\* cannot read the StatefulSet.
ApiError ==
    /\ w.step \notin {"idle", "find"}
    /\ Fault
    /\ \/ w.step \in CleanupSteps /\ CleanupGoesOn
       \/ w.step = "cleanPVC" /\ Return("cleaned")
       \/ w.step \notin CleanupSteps /\ ReturnError
    /\ UNCHANGED <<dedicated, home, sts, parts, secretOf, jobs,
                   databases, startup>>

\* The process stops and starts again with fresh caches.  The interrupted call
\* is, to the TenantReconciler, one that returned an error.
Crash ==
    /\ Fault
    /\ IF w.step = "idle" THEN UNCHANGED <<w, phase>> ELSE ReturnError
    /\ sts' = [i \in Ids |-> <<Latest(sts[i])>>]
    /\ UNCHANGED <<dedicated, home, parts, secretOf, jobs, databases, startup>>

-----------------------------------------------------------------------------
(* Informers and other Kubernetes controllers *)

Cluster == UNCHANGED <<phase, dedicated, home, secretOf, startup, w, faults>>

DeliverStatefulSet(i) ==
    /\ Len(sts[i]) > 1
    /\ sts' = [sts EXCEPT ![i] = Tail(@)]
    /\ Cluster
    /\ UNCHANGED <<parts, jobs, databases>>

\* Creates the volume claim whenever it is missing, and reports that in the
\* StatefulSet's status, which is a new version of it.
StatefulSetController(i) ==
    /\ Exists(Latest(sts[i]))
    /\ "pvc" \notin parts[i]
    /\ parts' = [parts EXCEPT ![i] = @ \cup {"pvc"}]
    /\ PutSts(i, Latest(sts[i]))
    /\ Cluster
    /\ UNCHANGED <<jobs, databases>>

\* A job's pod needs the master secret, and waits until the server answers
\* under the service's name; the server needs its volume and its ConfigMap.
Reachable(i) == Exists(Latest(sts[i])) /\ parts[i] = Parts /\ startup = "ready"

RunJob(j) ==
    /\ j \in jobs /\ ~j.failed
    /\ Reachable(j.inst)
    /\ databases' = [databases EXCEPT ![j.inst] =
            IF j.kind = "init" THEN @ \cup {j.tenant} ELSE @ \ {j.tenant}]
    /\ jobs' = jobs \ {j}
    /\ Cluster
    /\ UNCHANGED <<sts, parts>>

\* PostgreSQL refuses to drop a database with open connections, and the
\* tenant's pods may hold some until its namespace is gone.
InUse(t, i) == t \in databases[i] /\ phase[t] # "gone"

\* The script of a job stops at the first statement that fails (set -e), and
\* after three retries (BackoffLimit) the job has failed for good.  Nobody
\* looks at a failed job or makes another.
JobFails(j) ==
    /\ j \in jobs /\ ~j.failed
    /\ Reachable(j.inst)
    /\ \/ j.kind = "remove" /\ InUse(j.tenant, j.inst) /\ UNCHANGED faults
       \/ ~(j.kind = "remove" /\ InUse(j.tenant, j.inst)) /\ Fault
    /\ jobs' = (jobs \ {j}) \cup
         {[kind |-> j.kind, tenant |-> j.tenant, inst |-> j.inst, failed |-> TRUE]}
    /\ UNCHANGED <<phase, dedicated, home, sts, parts, secretOf, databases, startup, w>>

\* The tenant's namespace goes with its database-secret and the dedicated
\* instance in it.
NamespaceGone(t) ==
    LET own == {i \in Ids : home[i] = t} IN
    /\ phase[t] = "cleaned"
    /\ phase' = [phase EXCEPT ![t] = "gone"]
    /\ secretOf' = [secretOf EXCEPT ![t] = None]
    /\ sts' = [i \in Ids |-> IF i \in own /\ Exists(Latest(sts[i])) THEN Append(sts[i], None)
                             ELSE sts[i]]
    /\ parts' = [i \in Ids |-> IF i \in own THEN {} ELSE parts[i]]
    /\ databases' = [i \in Ids |-> IF i \in own THEN {} ELSE databases[i]]
    /\ jobs' = {j \in jobs : j.inst \notin own}
    /\ UNCHANGED <<dedicated, home, startup, w, faults>>

-----------------------------------------------------------------------------

CallStep ==
    \/ FindAvailableSharedInstance \/ CopyPostgreSQLConfigMap
    \/ CreateMasterSecret \/ CreateStatefulSet \/ CreateService
    \/ CreateTenantSecret \/ CreateDatabaseInitJob \/ AddTenantToSharedInstance
    \/ RemoveTenantFromSharedInstance \/ CreateDatabaseRemoveJob
    \/ CleanPVC \/ CleanStatefulSet \/ CleanService \/ CleanSecret \/ CleanJobs

Next ==
    \/ \E t \in Tenants : 
        \/ StartCreate(t) \/ StartDelete(t) \/ LaterStepFails(t)
        \/ FlipDedicated(t) \/ NamespaceGone(t)
    \/ CallStep \/ ApiError \/ Crash \/ Startup
    \/ \E i \in Ids : DeliverStatefulSet(i) \/ StatefulSetController(i)
    \/ \E j \in jobs : RunJob(j) \/ JobFails(j)

Spec == Init /\ [][Next]_vars

\* A call that has begun goes on, a deletion that failed is retried (the work
\* queue is first-in first-out), watches deliver, startupRunner runs to its
\* end, and the cluster's controllers do their work.
Fairness ==
    /\ WF_vars(CallStep)
    /\ WF_vars(Startup)
    /\ \A t \in Tenants : SF_vars(phase[t] = "deleting" /\ StartDelete(t))
    /\ WF_vars(\E i \in Ids : DeliverStatefulSet(i))
    /\ WF_vars(\E i \in Ids : StatefulSetController(i))
    /\ WF_vars(\E j \in jobs : RunJob(j))

FairSpec == Spec /\ Fairness

-----------------------------------------------------------------------------
(* Safety *)

Lists(i, t) == Exists(Latest(sts[i])) /\ t \in Latest(sts[i])

\* A tenant takes a place on one shared instance at most, so that the tenant
\* counts add up to the tenants placed.
OneInstancePerTenant == \A i, j \in Ids, t \in Tenants : Lists(i, t) /\ Lists(j, t) => i = j

\* A tenant whose call succeeded stays in the list of the instance its secret
\* names, and that instance is there, whoever else comes and goes: the list is
\* what keeps the instance from being cleaned up.
AssignedIsRegistered ==
    \A t \in Tenants :
        phase[t] = "assigned" /\ home[secretOf[t]] = Shared => Lists(secretOf[t], t)

\* Nobody but the deletion of a tenant takes it off a list: an update computed
\* from a stale list never drops a tenant added since.
NoLostTenant ==
    [][\A i \in Ids, t \in Tenants :
        Lists(i, t) /\ ~Lists(i, t)' => w.step = "remove" /\ w.tenant = t]_vars

\* A dedicated instance serves its own tenant only, whatever is flipped when.
DedicatedIsExclusive ==
    \A i \in Ids, t \in Tenants : home[i] = t =>
        /\ databases[i] \subseteq {t}
        /\ \A u \in Tenants \ {t} : secretOf[u] # i /\ ~Lists(i, u)

-----------------------------------------------------------------------------
(* Liveness, under FairSpec *)

\* DeletePostgreSQLForTenant does not fail for ever: conflicts with a lagging
\* cache pass, so the tenant's finalizer can go.
DeleteReturns == \A t \in Tenants : (phase[t] = "deleting") ~> (phase[t] = "cleaned")

\* A tenant that is assigned gets its database on the instance its secret
\* names, although the instance may be on its way up or, by a lagging cache,
\* on its way down when the tenant is placed.
AssignedGetsDatabase ==
    \A t \in Tenants :
        (phase[t] = "assigned")
            ~> (phase[t] # "assigned" \/ t \in databases[secretOf[t]])

\* A tenant that has its database, and that the operator's cache lists, when
\* DeletePostgreSQLForTenant begins or is to be called again, loses its place
\* and its database, although the update may conflict again and again: the
\* database is dropped by the removal job, or goes with the instance if another
\* deletion takes that down.  It survives only if its removal job failed for
\* good.  (It also survives if the creation of that job fails after the list
\* was updated, because the repeated call finds the tenant on no list: this is
\* for the case that no API call fails.)
RemovalFailed(t, i) ==
    \E j \in jobs : j.failed /\ j.kind = "remove" /\ j.tenant = t /\ j.inst = i
KnownTenantIsRemoved ==
    \A t \in Tenants :
        /\ phase[t] = "deleting" /\ (w.tenant = t => w.step = "remove")
        /\ \E i \in SharedInstances : t \in CachedSts(i) \cap databases[i] /\ Lists(i, t)
        ~> \A i \in Ids : ~Lists(i, t) /\ (t \in databases[i] => RemovalFailed(t, i))

-----------------------------------------------------------------------------
(* What the repository says of the calls and the code does not keep *)

\* "Maximum number of tenants per shared PostgreSQL instance".
CapacityRespected ==
    \A i \in Ids : Exists(Latest(sts[i])) =>
        Cardinality(Latest(sts[i])) <= MaxTenantsPerSharedInstance

=============================================================================
