# TLA+ verification of the tenant operator

The repository is a Kubernetes operator (Go, controller-runtime). A user writes a
cluster object `TenantEnvironment`; the operator gives that tenant a namespace, a
ResourceQuota, a PostgreSQL database (on a shared instance or on one of its own)
and a Deployment of the tenant service, and takes all of it down when the object
is deleted. This directory models the operator's control logic in TLA+, checks it
with TLC on small instances, and proves its safety properties, and that the reconciler
implements the abstract specification of its calls, with TLAPS for every value of the
constants.

Contents: [inventory](#1-inventory) · [modules](#2-modules-and-the-code) ·
[runs](#3-runs) · [bounds](#4-bounds) · [fairness](#5-fairness) ·
[proofs](#6-proofs) · [findings](#7-findings) ·
[not modelled](#8-what-is-not-modelled) · [plan](#9-plan)

## 1. Inventory

| component | state it keeps | operations | source |
|---|---|---|---|
| TenantEnvironment reconciler | none of its own: spec, status (`createdAt`, `readyAt`, `databaseStatus`) and finalizer of the TenantEnvironment; the tenant's namespace, ResourceQuota and Deployment; one Prometheus histogram | `Reconcile`, `handlePodEventFromMapping`, `podToTenantEnvironment`, create/delete of namespace, quota, Deployment | `internal/controller/tenantenvironment_controller.go`, `utils.go` |
| PostgreSQL placement | StatefulSets with a `tenant-list` annotation and `tenant-count` label, their secrets, services, volume claims; the tenant's `database-secret`; init and removal Jobs | `CreatePostgreSQLForTenant`, `DeletePostgreSQLForTenant` and everything they call | `internal/controller/utils_postgres.go` |
| startupRunner | namespace `shared-services` and its ConfigMap | `Start`, once per process | `tenantenvironment_controller.go` 313-337 |
| Manager | work queue, informer caches, leader lease | `main`, and the end of the process at every error | `cmd/main.go` |
| Resource quota | the `hard` map of the tenant's ResourceQuota | `CreateResourceQuotaForTenant` | `utils.go` 98-196 |
| API types | schema and defaults of the CRD | — | `api/v1` |
| Tenant service | one database connection pool; the kubelet's probe counters | `connectToDatabase`, `/healthz`, readiness and liveness probe | `tenant-service/main.go`, `utils.go` 344-365 |
| GUI | none | create, edit, delete a TenantEnvironment | `gui/app.js` |
| Benchmark runners | goroutines and a semaphore | provision tenants with and without the operator | `test/*-runner` |

**Interaction.** The operator calls the API server and reads through informer
caches. Every read (`r.Get`, `r.List`) may therefore be answered with an older
version than the one the API server holds; every update carries the
resourceVersion that was read, and is refused if it is not current. A change of a
TenantEnvironment, or of a pod labelled with one, puts a request in the work
queue. The queue is served by one worker goroutine: neither `MaxConcurrentReconciles`
nor anything like it is set, so no two reconciles run at the same time. The
users, the informers, the namespace, Deployment and StatefulSet controllers, the Jobs
and `startupRunner` run beside it. A reconcile that returns an error is queued again.

**What is hard.** The status write of `Provisioning` is the only lock against
provisioning a tenant twice. A reconcile is a dozen API calls with no
transaction around them: each may fail, conflict, or be the last one before a
restart, and what is read back afterwards comes from a cache. The tenant list of
an instance is read from the cache, decided on, and written some calls later.
Deletion runs against objects whose creation the cache may not have seen yet, and
Jobs run whenever the cluster gets to them.

**What makes each part correct.**
Reconciler: a database is asked for once, no write takes back a user's
edit or an earlier status, nothing is created for a tenant nobody will clean up
after, the last spec reaches quota and Deployment, readiness is reported, and deletion completes.
Placement: a tenant is on one instance's list, a registered tenant stays
registered and its instance stays up, a dedicated instance serves one tenant,
an instance has at most its maximum of tenants, deletion removes what creation made.
Quota: the stored limits are those of one version of the spec, and in the end of the last.
Tenant service: a pod is ready while its database answers, is not killed for a short
outage, and recovers by itself. Manager: under leader election one process remains in the
end, whoever lost the lease when; the shared objects come into being whatever races and
failures there are at start-up.

`PROJECT.json` lists the hazards behind these properties line by line.

## 2. Modules and the code

```
TenantLifecycle  (abstract)
   ▲
   │ implemented by
KubeApi ── TenantReconciler ─────┬── MCTenantReconciler                (TLC)
   │                             └── TenantReconcilerProofs            (types)
   │                                  └── TenantReconcilerSafety       (safety)
   │                                       └── TenantReconcilerRefinement
   ├────── SharedPostgreSQL ─────┬── MCSharedPostgreSQL                (TLC)
   │                             └── SharedPostgreSQLProofs            (safety)
   └────── ResourceQuota ────────┬── MCResourceQuota                   (TLC)
                                 └── ResourceQuotaProofs               (safety)
TenantService ───────────────────── TenantServiceProofs                (TLC; safety)
Manager ─────────────────────────── ManagerProofs                      (TLC; safety)
```

**KubeApi.** One API object as the sequence of its versions: the API
server holds the last, a cache an earlier one. `IsCurrent` is the
resourceVersion check.

**TenantReconciler.** `cr[t]` are the versions of a tenant's TenantEnvironment,
`crSeen[t]` the one the informer has delivered; `obj[k][t]`, `objSeen[k][t]` the same
for its namespace, quota, Deployment and pod. `w` is the worker: the step
`Reconcile` is at, its tenant, and the version of the TenantEnvironment (`rv`) and of
the Deployment (`dv`) it holds. `provisions` counts calls of
`CreatePostgreSQLForTenant`, `observed` the samples put in the histogram.
An action is one API write of `Reconcile` together with the cached reads
that lead to it, in the order of the code:

| action | code |
|---|---|
| `StartReconcile` | entry, early returns, finalizer and deletion checks |
| `SetCreatedAt`, `AddFinalizer` | first reconcile, lines 128-144 |
| `EnsureNamespace`, `EnsureQuota` | `CreateNamespaceForTenant`, `CreateResourceQuotaForTenant` |
| `CheckDatabase`, `CreatePostgreSQL`, `SetAssigned` | lines 160-181 |
| `EnsureDeployment`, `UpdateDeployment` | `CreateTenantServiceDeployment` |
| `DeletePostgreSQL`, `DeleteQuota`, `DeleteNamespace`, `RemoveFinalizer` | lines 99-126 |
| `StartPodEvent` | `handlePodEventFromMapping` up to the sample in the histogram, lines 192-250 |
| `MarkReady` | its status write, lines 252-261 |
| `DeliverTenant`, `DeliverObject` | the informers with `podToTenantEnvironment` |
| `ApiError`, `Crash` | a call that fails; a restart or a new leader |

Conflicts and NotFound or AlreadyExists answers are not injected: they happen when the versions make
them happen. A quota is an opaque value, a Deployment its replicas and version.
`AddFinalizer` and `RemoveFinalizer` send the whole object back. Fields with Go's zero value are
omitted from it and the CRD's defaults take their place, so the spec that is stored is
`AsSent` of the one that was read: an empty `serviceVersion` becomes `latest`, and the
constant `Defaulted` says what becomes of a quota (a `podLimit` of 0 becomes 10). `NoLimits` is
the quota with no limit at all, which is stored as an empty list and read back as a nil map:
`EnsureQuota` panics when it should put a limit in it, and the reconcile is tried again.
Status writes of other controllers to the Deployment and the ResourceQuota are not separate
versions; all they add is a conflict, which is one of the failures `ApiError`
stands for.

**SharedPostgreSQL.** The two calls that are single steps above, one API call per
action. `phase[t]` is what the reconciler does with the tenant: the first call is
made once (proved as `ProvisionsOnce`), the second until it succeeds. `sts[i]` are the
versions of an instance's StatefulSet from the cached one to the current one, each
the set of its tenants; `parts[i]` its master secret, service and volume claim;
`jobs` the Jobs not yet completed and those that failed for good; `databases[i]` what they have made;
`home[i]` the namespace of the instance. `StartCreate` … `AddTenantToSharedInstance`
are `CreatePostgreSQLForTenant`, `StartDelete` … `CleanJobs` are
`DeletePostgreSQLForTenant` with `cleanupSharedPostgreSQLInstance`. Secrets, services,
claims and jobs have no version sequences: in the clean-up each may or may not have
been delivered by its informer, and both outcomes are taken.

A deletion that returned nil may be repeated because a later
step of the reconcile fails (`LaterStepFails`). A removal job may fail for good (`JobFails`) as long as the
tenant's pods may hold connections to the database, that is until its namespace is gone
(`InUse`): the script stops at the first error and is retried three times. Changes of
`dedicatedInstance`, failing calls, restarts and jobs that fail for another reason share one
bound, `MaxFaults`.

**TenantLifecycle.** What the reconciler promises to the placement, as an abstract
specification with two variables: the stage of each tenant (new, asked, closing, released,
gone) and the call being made. A database is asked for once, never for a tenant that is
being taken down; a tenant that asked for one goes only after
`DeletePostgreSQLForTenant` returned nil. TenantReconciler has the refinement mapping
(`Stage`, `DatabaseCall`) and the property `ImplementsLifecycle == Lifecycle!Spec`.
SharedPostgreSQL assumes the same order of its calls through `phase`. That its assumption covers
every behaviour of TenantLifecycle is not a checked statement: it is by reading the few
actions that stand for the caller (`StartCreate`, `StartDelete`, `LaterStepFails`,
`NamespaceGone`, `Crash`) beside those of TenantLifecycle.

**ResourceQuota.** `CreateResourceQuotaForTenant` for one tenant, with what
TenantReconciler leaves out: the numbers. `DesiredResources` is the list built from the
spec (a CPU request in millicores that `Set` takes as cores, a memory request in percent); `SetDifferent` and
`RemoveOthers` are the two loops; `Panics` is the assignment to a nil map, which is what an empty
`hard` is read back as. `spec` and `quota` are the versions from the cached
one on. Only the TenantEnvironment's events are requests: nothing watches the
ResourceQuota. `AddFinalizer` is here because that update sends the whole object:
`podLimit` has `omitempty`, so the API server replaces a limit of zero by its default
(`AsSent`, the numbers behind `Defaulted` of TenantReconciler).

**TenantService.** A pod of the Deployment in steps of one second. `process` is where
`main()` of the service is; `StartContainer`, `Connect`, `Hang`, `PingReturns` and `Healthy` are its code. The
kubelet runs `Succeed` or `Fail` for each probe when it is due. `Tick` lets a second pass, chooses
whether the database answers in the next, and keeps three history variables. Within a second a
connection attempt is made and every probe that is due runs. The delay before a container is
started again is any number of seconds up to `MaxBackoff`.

**Manager.** `main()` for several replicas: `Launch` (flags), `Configure` (certificate
watchers), `SetUp` (NewManager, SetupWithManager, checks), `Start` and, under leader election,
`TakeLease`. A running manager has a controller and a `startupRunner` beside each
other; `EnsureSharedServicesNamespace` and `EnsureSharedPostgreSQLConfigMap` read the cache, then create,
and an error ends the process with `os.Exit(1)`. The lease of an ended process
has to expire first. It may also expire under a live holder that is paused or cut off
(`LeaseExpires`, at the cost of a fault): leader election does not fence, so that process goes on,
beside the one that takes the lease, until it renews the lease (`RenewLease`) or notices
that another has it and ends (`LoseLease`). `startup` of SharedPostgreSQL is what a reconcile sees of this module.

Definitions marked *mutant* in their comments are deliberately wrong variants of the
definition that follows; `PROJECT.json` pairs each with the property that catches it.
No specification uses them.

## 3. Runs

Runs that pass:

| run | what it asks |
|---|---|
| `reconciler_edits` | With two edits, a spec that the round trip changes, a deletion at any moment, a restart and lagging caches: at most one provisioning call (`ProvisionedAtMostOnce`), no write takes life, status, timestamps or finalizer back (`StatusNeverRegresses`), no edit is undone: the reconciler changes a spec only to what its Update makes of the very spec it replaces (`EditsAreKept`), nothing is created without the finalizer that will clean it up (`CreatesUnderFinalizer`) |
| `reconciler_liveness` | The last spec reaches quota and Deployment (`Converges`), deletion completes (`DeletionCompletes`), and a namespace the cache knows when deletion begins is removed (`KnownNamespaceIsRemoved`) |
| `reconciler_ready` | A pod that stays ready is reported (`ReadyPodIsReported`), across pod failures, a restart, and status writes that lose against `Reconcile`; a tenant reported ready was provisioned (`ReadyIsProvisioned`); `readyAt` is written once, and after its sample went into the histogram of the same process (`ReadyIsMeasured`); deletion completes with a restart between any two of its calls (`DeletionCompletes`) |
| `postgres_placement` | Two tenants, room for one, and a change of `dedicatedInstance`, a failing call, a repeated deletion, a failed job or a restart anywhere: a tenant is on one list (`OneInstancePerTenant`), an assigned tenant stays on the list of an instance that exists (`AssignedIsRegistered`), no stale list overwrites a newer one (`NoLostTenant`), a dedicated instance serves its owner only (`DedicatedIsExclusive`) |
| `postgres_liveness` | With room for two: deletion calls return (`DeleteReturns`), assigned tenants get their database (`AssignedGetsDatabase`), and a tenant with a database that the cache lists loses its place, and its database unless the removal job failed for good (`KnownTenantIsRemoved`), whatever the order of placements, removals, jobs and caches |
| `quota` | Four sets of limits, three edits, two faults: the stored list is one version's as a whole (`QuotaIsOfOneSpec`), the memory request is within the limit (`MemoryRequestsWithinLimit`), and a reconcile still to come when users are done and caches have caught up brings the last spec for good, unless the stored list is empty (`LastReconcileSettles`) |
| `tenant_service` | With the numbers of the Deployment (5/3/3 and 15/10/3): a ready pod's database answered in the last 9 seconds (`ReadyIsRecent`); a container is killed only if it has had 35 seconds and no steady time of 11 seconds ended in the last 20 (`KilledOnlyAfterTrouble`); a pod whose database stays up becomes and stays ready although a Ping may hang for ever (`RecoversFromOutage`) |
| `manager` | Three replicas, with and without leader election: a replica loses at most one creation race for each object (`RaceIsLostOncePerObject`); `startupRunner` succeeds only with both objects there (`DoneMeansShared`); with CRD and certificates late, and a process that fails or a lease that expires under its live holder, under leader election one manager is left in the end, the one with the lease (`OneManagerRemains`), and the operator comes up and stays up (`OperatorComesUp`). At a single moment two managers may be active: the flag's text, "there is only one active controller manager", holds in the end only |

`ImplementsLifecycle` is checked by `reconciler_liveness` (edit, API error) and by
`reconciler_ready` (restart).

Runs whose property is violated state what a comment or a test of the repository
says, and show that the code does otherwise; see [findings](#7-findings).

`KnownNamespaceIsRemoved` and `NamespaceCleanedUp` differ in what the cache knows,
`LastReconcileSettles` and `QuotaFollowsSpec` in whether the stored list may be
empty: the pairs mark where the promise stops being kept.

## 4. Bounds

* `Tenants = {t1}` in the reconciler's runs. Tenants share the worker and nothing
  else: objects, caches and status are per UID, and the worker serves one request at a
  time, so what a second tenant adds is delay, which the interleaving of informers and
  users with each step already gives. The theorems hold for any set of tenants.
* `MaxErrors` and `MaxCrashes` are 0 or 1, `MaxEdits` is 2 in `reconciler_edits` and at most 1
  elsewhere: one is enough to fall between any two steps, and the second edit meets the
  conflict or the round trip of the first. The edit, the deletion and the restart may fall in the same
  reconcile. The safety properties do not depend on the bounds: they are proved for all.
* `MaxPodVersions`: changes of the pod; 3 lets a pod get ready, fail, and get ready again.
  Runs that are not about pods use 0.
* `ThreeSpecs`: the first needs a Deployment update straight after its creation; the second limits
  nothing and has no version, so that the round trip turns it into the third and its quota is
  the nil map. Runs that are not about the spec have `OneSpec`. The namespace of a
  TenantEnvironment is left out: a tenant is identified by its UID.
* `ObservedCap = 2` stands for two or more samples.
* In SharedPostgreSQL two tenants and two ids: a tenant placed while another leaves,
  an instance replaced by a new one, and two instances side by side.
  `MaxTenantsPerSharedInstance` is 1 or 2 (10 in the code), so that an instance is full with
  one and with all tenants. `RetrySteps = 2` for the 4 attempts of
  `retry.DefaultBackoff`: one that is retried and one that is the last. An id is used once; when
  both are used a further creation waits, which only cuts behaviours off.
* `MaxFaults = 1` in `postgres_placement`, a fault between any two calls, of any kind; 0 in
  `postgres_liveness`, where a restart or a failing call breaks the properties (section 7);
  removal jobs that fail on open connections are not faults and happen in both.
* ResourceQuota has one tenant (its quota is its own), four sets of limits that set, change,
  remove and lift entries and round a share to zero, three edits and two faults.
  Quantities are far below 2^56, the order at which the products of the code overflow an int64.
* TenantService runs with the numbers of the code; `MaxBackoff = 1`, a longer wait is only a later
  start. The history variables stop at the bound the properties ask about.
* Manager has three replicas (the manifests deploy one): two that race and one that comes later. `MaxFaults = 1`: one
  lease that expires under its holder, or one process that fails.
* Tenants and ids are symmetric in `postgres_placement`; liveness runs use no symmetry.
* Deadlock is checked in TenantService, where time always goes on. Elsewhere it is not: when all
  tenants are deleted and the queue is empty, or the operator is up, nothing is left to do.

## 5. Fairness

`FairSpec` of TenantReconciler: weak fairness of `ReconcileStep` (the worker
goroutine never stops in the middle; client calls return), strong fairness of taking
each request (the queue is first-in first-out and a request is enabled
only while the worker is idle, again and again), weak fairness of the
informers (watches deliver every event) and of the namespace controller. Users, pods, errors
and restarts owe nothing. Rate-limited retries only delay a request.

`FairSpec` of SharedPostgreSQL: weak fairness of a call that has begun, of
`startupRunner`, the informers, the StatefulSet controller and the Jobs, and strong
fairness of repeating a deletion that returned an error. Nobody must create or
delete a tenant. Fairness of the informers, the StatefulSet controller and the Jobs is of each
group as a whole: none may be idle while it has something to do. That a job fails is never due.

`FairSpec` of ResourceQuota: weak fairness of the worker and of the two informers; a request
that failed stays in the queue. Of TenantService: time passes, the kubelet starts containers and
runs probes, an attempt to connect is made; that a hanging Ping ever returns is not assumed,
nor anything about the database. Of Manager: each process and runnable goes on, somebody
takes a free lease, the lease of an ended process expires, a live one that lost it notices (its next
attempt to renew it fails), CRD and certificates come in the end; nothing about which
replica leads or how far its cache lags.

## 6. Proofs

The theorems about TenantReconciler hold for any tenants, specs and bounds, under the assumptions
`BoundsAssumption` (bounds are naturals), `NoneAssumption` (`None` is not a tenant,
an object or a call), `SpecsAssumption` (there is a spec) and `RoundTripAssumption` (what a spec
becomes when it is sent back is a spec).

| theorem | statement |
|---|---|
| `TypeCorrect` | `Spec => []TypeOK`; a running reconcile always holds a version that exists |
| `Safety` | `Spec => []SafetyInv` |
| `ProvisionsOnce` | `Spec => []ProvisionedAtMostOnce` |
| `ReadyProvisioned` | `Spec => []ReadyIsProvisioned` |
| `NeverRegresses` | `Spec => StatusNeverRegresses` |
| `CreatesHeld` | `Spec => CreatesUnderFinalizer` |
| `SpecKept` | `Spec => EditsAreKept` |
| `ReadyMeasured` | `Spec => ReadyIsMeasured` |
| `ReconcilerImplementsLifecycle` | `Spec => ImplementsLifecycle` |

The argument. None of the properties is inductive: that a second
provisioning is impossible depends on what a *stale* copy can say. `SafetyInv` adds

* `HistoryOK`: along the whole history of a TenantEnvironment every later version is at least
  as far on as every earlier one (`NeverGoesBack`), so that a fact read
  in any old version (createdAt, a database requested, the finalizer) still holds, or
  was superseded in the right direction;
* `FinalizerHolds`: while the cache, or an event still to come, shows a live tenant with
  the finalizer, the object is still in the API server. This is why a stale
  reconcile cannot create objects for a tenant that is gone: the finalizer is removed
  only by a reconcile that has itself seen the deletion, and the cache never goes back;
* `WorkerOK`: what the worker knows at each step, for instance that at
  `createPostgreSQL` nothing was provisioned, because the accepted write of `Provisioning` proved
  its copy current;
* `RequestedFirst`: before the database is requested there are no provisions, no readyAt,
  and neither Deployment nor pod in any version.

`TenantReconcilerSafety` first summarises each action by what it does to a tenant's
history, the provision count and the objects (`StepSums`), then shows that each
conjunct is preserved from the summary (`HistoryStep`, `FinalizerStep`,
`RequestedFirstStep`, `WorkerStep`). The theorems about steps follow from the same
summaries.

The refinement needs more. TenantLifecycle has no call for a tenant that is gone, but the
cache may still show such a tenant as being deleted, with its finalizer, and a request for it would
start `DeletePostgreSQLForTenant` again. `LifecycleInv` in
`TenantReconcilerRefinement` is `SafetyInv` and why that does not happen:

* `NotTakenAgain`: while the cache shows a deletion and the object is gone, no request for the tenant is queued
  and no reconcile of it runs;
* `NewerInQueue`: a request that is queued while a deletion runs came with a version newer than the copy
  the deletion holds. The update that removes the finalizer is accepted only from the newest version,
  so then it is refused; without such a request nothing is left to start over;
* `GoneIsLast`: nor does the informer bring the deletion mark later;
* `CopyInv`, `HeldInv`: what the worker's copy says in the steps of creation and deletion, and that a tenant
  that asked for a database has the finalizer, so that a user's delete cannot end it at once.

`NextRefines` takes the actions one by one: the status write of `CheckDatabase`
is `BeginCreate`, the return of a call is `EndCreate`, `Release` or `EndDelete`, an error after
a release is `Repeat`, a user's delete of a tenant without finalizer and `RemoveFinalizer` are
`End`, the informer is `Close`, `Crash` is `Restart` with the deletions found by
listing, and everything else leaves stages and call as they are.

`SharedPostgreSQLProofs` holds for any tenants, ids, room, retries and faults, under
`CapacityAssumption`, `PlacesAssumption`, `FaultsAssumption` and `NoneAssumption` (`None` is not a
list of tenants):

| theorem | statement |
|---|---|
| `PlacementTypes` | `Spec => []TypeOK` |
| `PlacedOnce` | `Spec => []OneInstancePerTenant` |
| `AssignedStaysRegistered` | `Spec => []AssignedIsRegistered` |
| `DedicatedStaysExclusive` | `Spec => []DedicatedIsExclusive` |
| `TenantsAreKept` | `Spec => NoLostTenant` |

A stale cache is what makes these properties non-inductive: `OneInstancePerTenant` speaks of the current lists,
but the next list is computed from a cached one. Its invariant `PlacementInv` therefore speaks of every
version the cache may still show: a tenant *known* to any version of any instance is known to
one instance only, which is shared, and its call has passed the point where it was added
(`KnownInv`). With it go which call the worker is in (`CallInv`), where its
instance lives (`PlaceInv`), that secrets, jobs and databases are on shared instances or the
tenant's own (`OwnerInv`), that an instance has no tenant before its StatefulSet is written and while it is
cleaned up (`EmptyInv`), and that an assigned tenant has its secret (`RegisteredInv`).
Each action has a lemma that it keeps `PlacementInv` and loses no tenant.

`ManagerProofs` holds for any set of replicas and any number of faults, under `ReplicasAssumption` and
`ManagerFaultsAssumption`:

| theorem | statement |
|---|---|
| `ManagerTypes` | `Spec => []TypeOK` |
| `RacesAreBounded` | `Spec => []RaceIsLostOncePerObject` |
| `DoneIsShared` | `Spec => []DoneMeansShared` |

`ManagerInv` adds that caches hold nothing that is not there (`SharedInv`), and that after a
lost race for an object that object is in the cache of every later process, or the process
is past looking for it (`LostInv`): a count alone is not inductive, since nothing in it says why a
second race cannot be lost. No theorem is about the lease: a process whose lease expired goes on.

`TenantServiceProofs` holds for any delays, periods and thresholds of the probes, under
`ProbesAssumption`:

| theorem | statement |
|---|---|
| `ServiceTypes` | `Spec => []TypeOK` |
| `ReadyStaysRecent` | `Spec => []ReadyIsRecent` |
| `KilledAfterTrouble` | `Spec => KilledOnlyAfterTrouble` |

`ServiceInv` ties the probe counters to time: with *f* failures in a row the last success of the
readiness probe was *f* periods and the part of the running one ago (`ReadyInv`), and the first failure of the liveness
probe likewise (`LivenessInv`); a service that is not up has not been steady (`SteadyInv`). The numbers of the
properties (9, 35, 20 and 11 seconds) are instances of the formulas `ReadinessLag`, `LivenessDelay +
LivenessLag`, `LivenessLag` and `SteadyTime`.

`ResourceQuotaProofs` holds for any limits, edits and faults, under `LimitsAssumption`,
`DefaultPodsAssumption` and `QuotaBoundsAssumption`:

| theorem | statement |
|---|---|
| `QuotaTypeCorrect` | `Spec => []TypeOK` |
| `QuotaWhole` | `Spec => []QuotaIsOfOneSpec` |
| `MemoryBounded` | `Spec => []MemoryRequestsWithinLimit`, for every limit |
| `CpuRequestsNeverBind` | from 2 millicores on, the CPU request the code computes is at least the limit |

Its inductive invariant `QInv` says that every version of spec and quota, delivered
or not, and the copy of the running reconcile, come from limits somebody wrote:
`QuotaIsOfOneSpec` alone speaks of the stored version only, and the update
starts from the cached one. `RefreshedIsDesired`, that the two loops give the desired list
whatever they start from, carries the step of `UpdateQuota`.

Only model-checked: liveness and everything under fairness, `ENABLED` (out of the prover's
reach): `Converges`, `DeletionCompletes`, `KnownNamespaceIsRemoved`, `ReadyPodIsReported`, `DeleteReturns`,
`AssignedGetsDatabase`, `KnownTenantIsRemoved`, `LastReconcileSettles`, `RecoversFromOutage`,
`OneManagerRemains`, `OperatorComesUp`. Every other property of a passing run is a theorem. No recursive definition is used.

## 7. Findings

Each is a run that TLC refutes; `PROJECT.json` quotes the lines.

| run | what happens |
|---|---|
| `reconciler_stuck_database` | `Provisioning` is written before the database is made, and only `""` and `Unassigned` enter the block: an error, a conflict or a restart before `Assigned` is written leaves the tenant `Provisioning` for ever. The price of `ProvisionedAtMostOnce` |
| `reconciler_leaked_namespace` | a namespace created but not in the cache when the deletion is reconciled is not deleted, and the finalizer goes |
| `postgres_over_capacity` | room is judged by the cached count and not checked at the update |
| `quota_nil_map` | lifting all limits stores an empty list, read back as a nil map; setting a limit again panics at `utils.go:175` in every reconcile from then on |

Known limits of the same kind, each met by changing a configuration or dropping a condition
of a property that passes:

* A tenant the cache does not list when it is deleted stays counted, and an init job that runs
  after the deletion leaves its database: `KnownTenantIsRemoved` without its premise on the cache or on
  `databases`.
* A removal job that meets open connections four times leaves the database, and nobody looks at
  it: `KnownTenantIsRemoved` without `RemovalFailed`. Creating that job comes after the tenant was taken
  off the list: if it fails, the repeated call finds the tenant nowhere and returns nil.
  `KnownTenantIsRemoved` with `MaxFaults = 1`.
* A tenant of a shared instance whose `dedicatedInstance` is set before it is deleted stays
  on the list: `DeletePostgreSQLForTenant` looks at the flag first. `KnownTenantIsRemoved` with `MaxFaults = 1`.
* A restart between StatefulSet and Service leaves an instance that is offered to tenants and can
  never be reached: `AssignedGetsDatabase` with `MaxFaults = 1`.
* A spec changed and changed back while the informer of the quota or the Deployment lags is not
  followed: the old version in the cache matches, nothing is written, and nothing watches those
  objects. `Converges` with `MaxEdits = 2`, or `LastReconcileSettles` without
  the condition that the quota's cache has caught up.
* The CPU request of a quota is 1000 times its share (`CpuRequestsNeverBind`), and a `podLimit` of zero
  becomes 10 when the finalizer is added: the one change of a spec that `EditsAreKept` allows.
* An outage of the database for about 30 seconds restarts services that work, since the
  liveness probe asks the database; a database that takes more than 35 seconds to come up gets its
  tenant's pods restarted.

## 8. What is not modelled

* Names and passwords, SQL scripts beyond creating and dropping a database, logging. Job, user and
  database names carry 8 characters of a UID and are taken to be distinct.
* Timing outside TenantService: backoff and requeue delays are just delays.
* Flags of the manager other than leader election and certificates; deep copies and manifests
  (generated code).
* The GUI: stateless forms, whose writes are the users' edits. Its edit form replaces the object with
  what was loaded earlier, which is a lost update between users, not in the operator.
* The benchmark runners: test programs that do not run with the operator.
* Two managers reconciling one tenant at the same time, which happens with more than one replica
  without `--leader-elect`, or while a paused leader has not noticed that it lost its lease:
  TenantReconciler and SharedPostgreSQL have one worker. The manifests deploy one replica with
  `--leader-elect`.
* Deletion of the shared namespace or ConfigMap by hand: no code reacts to it before the next start.
* Several TenantEnvironments under one name, one after the other: each is a tenant of its own.
* Jobs, secrets and services as versioned objects (see section 2).

## 9. Plan

1. Done: `KubeApi`, `TenantReconciler` with its proofs, `SharedPostgreSQL` with its proofs,
   `TenantLifecycle` with the reconciler's refinement, `ResourceQuota` with its proofs,
   `TenantService`, `Manager`.
2. Done: every safety invariant, every action property and the refinement proved.
3. Open: SharedPostgreSQL composed with TenantLifecycle as its environment, so that the
   assumption about its callers is checked and not read; two workers on one tenant. The liveness properties rest on the runs of section 3.
