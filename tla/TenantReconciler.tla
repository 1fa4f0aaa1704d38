-------------------------- MODULE TenantReconciler --------------------------
(***************************************************************************)
(* TenantEnvironmentReconciler: what the controller does with one          *)
(* TenantEnvironment, from its creation by a user to the removal of its    *)
(* finalizer.  One worker goroutine serves one work queue (the controller  *)
(* is built with the default MaxConcurrentReconciles = 1), so a reconcile  *)
(* is a sequence of steps interleaved with users, other Kubernetes         *)
(* controllers and the informers, never with another reconcile.            *)
(*                                                                         *)
(* A step is one write to the API server together with the cached reads    *)
(* that lead to it.  A tenant is identified by the UID of its              *)
(* TenantEnvironment, so it is created at most once.                       *)
(* CreatePostgreSQLForTenant and DeletePostgreSQLForTenant are single      *)
(* steps here; SharedPostgreSQL models them call by call.                  *)
(***************************************************************************)
EXTENDS KubeApi

CONSTANTS
    Tenants,        \* UIDs of the TenantEnvironments users may create
    Specs,          \* specs users may submit: records [quota, replicas, version]
    Defaulted,      \* Defaulted[q]: quota q once the operator has sent it back
    NoLimits,       \* the quota that limits nothing: its hard list is empty
    None,           \* an object that does not exist
    MaxEdits,       \* bound: spec edits by users
    MaxErrors,      \* bound: API calls that fail for a reason outside the model
    MaxCrashes,     \* bound: restarts of the operator process
    MaxPodVersions  \* bound: changes of a backend pod the informer reports

ASSUME BoundsAssumption ==
    MaxEdits \in Nat /\ MaxErrors \in Nat /\ MaxCrashes \in Nat /\ MaxPodVersions \in Nat
ASSUME NoneAssumption ==
    /\ None \notin Tenants \cup {"active", "terminating", "starting", "ready"}
    /\ \A t \in Tenants : None # <<"create", t>> /\ None # <<"delete", t>>
ASSUME SpecsAssumption == Specs # {}

\* What becomes of a spec the operator reads and sends back with an Update:
\* fields that hold their Go zero value are omitted, and the CRD's defaults
\* take their place.  A podLimit of 0 becomes 10 and an empty serviceVersion
\* "latest"; replicas has a minimum of 1.
AsSent(spec) ==
    [quota |-> Defaulted[spec.quota], replicas |-> spec.replicas,
     version |-> IF spec.version = "" THEN "latest" ELSE spec.version]
ASSUME RoundTripAssumption == \A s \in Specs : AsSent(s) \in Specs

VARIABLES
    cr,         \* cr[t]: the versions of the TenantEnvironment
    crSeen,     \* crSeen[t]: the version the informer has delivered
    obj,        \* obj[k][t]: the versions of the tenant's object of kind k
    objSeen,    \* objSeen[k][t]: the version the informer has delivered
    queue,      \* the requests in the work queue
    w,          \* the worker: its step, its tenant and the versions it holds
    provisions, \* provisions[t]: calls of CreatePostgreSQLForTenant so far
    observed,   \* observed[t]: samples this process put in the histogram
    budget      \* edits, errors and crashes so far

vars == <<cr, crSeen, obj, objSeen, queue, w, provisions, observed, budget>>

-----------------------------------------------------------------------------
(* Types *)

Life == {"absent", "live", "deleting", "gone"}
\* "Unset" is the empty string a status has before it is first written.
DatabaseStatus == {"Unset", "Unassigned", "Provisioning", "Assigned"}

TenantEnvironment ==
    [life: Life, spec: Specs, finalizer: BOOLEAN, createdAt: BOOLEAN,
     readyAt: BOOLEAN, databaseStatus: DatabaseStatus]

\* The tenant's namespace, its ResourceQuota, its Deployment "backend" and
\* a pod of that Deployment.
Kinds == {"namespace", "quota", "deployment", "pod"}

\* What CreateTenantServiceDeployment creates, and what it updates it to.
NewDeployment(spec) == [replicas |-> spec.replicas, version |-> "latest"]
ExpectedDeployment(spec) == [replicas |-> spec.replicas, version |-> spec.version]

ObjectsOf(k) ==
    {None} \cup CASE k = "namespace" -> {"active", "terminating"}
                  [] k = "quota" -> {s.quota : s \in Specs}
                  [] k = "deployment" -> {NewDeployment(s) : s \in Specs}
                                         \cup {ExpectedDeployment(s) : s \in Specs}
                  [] k = "pod" -> {"starting", "ready"}

Requests == {"tenant", "pod-event"} \X Tenants

Steps == {"setCreatedAt", "addFinalizer", "namespace", "quota", "database",
          "createPostgreSQL", "setAssigned", "deployment", "updateDeployment",
          "deletePostgreSQL", "deleteQuota", "deleteNamespace",
          "removeFinalizer", "markReady"}

Idle == [step |-> "idle", tenant |-> None, rv |-> 0, dv |-> 0]
Worker == [step: Steps, tenant: Tenants, rv: Nat, dv: Nat]

ObservedCap == 2    \* bound: 2 stands for two or more samples

Limit == [edits |-> MaxEdits, errors |-> MaxErrors, crashes |-> MaxCrashes]

TenantsTyped ==
    /\ cr \in [Tenants -> Seq(TenantEnvironment)]
    /\ crSeen \in [Tenants -> Nat]
    /\ \A t \in Tenants : crSeen[t] \in 1 .. Len(cr[t])

ObjectsTyped ==
    /\ DOMAIN obj = Kinds /\ DOMAIN objSeen = Kinds
    /\ \A k \in Kinds :
        /\ obj[k] \in [Tenants -> Seq(ObjectsOf(k))]
        /\ objSeen[k] \in [Tenants -> Nat]
        /\ \A t \in Tenants : objSeen[k][t] \in 1 .. Len(obj[k][t])

WorkerTyped ==
    /\ queue \subseteq Requests
    /\ w \in {Idle} \cup Worker
    /\ w.step # "idle" => w.rv \in 1 .. Len(cr[w.tenant])
    /\ w.step = "updateDeployment" => w.dv \in 1 .. Len(obj["deployment"][w.tenant])

CountersTyped ==
    /\ provisions \in [Tenants -> Nat]
    /\ observed \in [Tenants -> 0 .. ObservedCap]
    /\ budget \in [edits: 0 .. MaxEdits, errors: 0 .. MaxErrors,
                   crashes: 0 .. MaxCrashes]

TypeOK == TenantsTyped /\ ObjectsTyped /\ WorkerTyped /\ CountersTyped

-----------------------------------------------------------------------------
(* What a step reads and writes *)

CachedTenant(t) == cr[t][crSeen[t]]

\* The TenantEnvironment is in the API server: it may be marked for deletion.
Listed(version) == version.life \in {"live", "deleting"}

Cached(k, t) == obj[k][t][objSeen[k][t]]

\* The copy of the TenantEnvironment the running reconcile holds.
Copy == cr[w.tenant][w.rv]

Put(k, t, value) == obj' = [obj EXCEPT ![k][t] = Append(@, value)]

\* Mutant of Accepted: a write that does not carry the resourceVersion.
AcceptedAlways == TRUE

\* r.Update and r.Status().Update: the API server accepts the copy only if
\* it carries the current resourceVersion, and returns the new version.
Accepted == IsCurrent(cr[w.tenant], w.rv)
Commit(version) == cr' = [cr EXCEPT ![w.tenant] = Append(@, version)]

At(step, rv, dv) == [step |-> step, tenant |-> w.tenant, rv |-> rv, dv |-> dv]

Continue(step) == w' = At(step, w.rv, w.dv) /\ UNCHANGED queue
ContinueWithNew(step) == w' = At(step, w.rv + 1, w.dv) /\ UNCHANGED queue

\* return ctrl.Result{}, nil
Done == w' = Idle /\ UNCHANGED queue

\* Mutant of Retry: the error is logged and nil is returned.
RetryDropped == w' = Idle /\ UNCHANGED queue

\* return ctrl.Result{}, err, or Requeue: true: the request is queued again.
Retry ==
    /\ w' = Idle
    /\ queue' = queue \cup
        {<<IF w.step = "markReady" THEN "pod-event" ELSE "tenant", w.tenant>>}

Spend(b) == budget[b] < Limit[b] /\ budget' = [budget EXCEPT ![b] = @ + 1]

\* The API server accepts a new object of the tenant only in a namespace that
\* is there and not terminating, and only under a name that is free.
Creatable(k, t) ==
    /\ Latest(obj["namespace"][t]) = "active"
    /\ Latest(obj[k][t]) = None

-----------------------------------------------------------------------------
(* Users *)

AbsentTenant ==
    [life |-> "absent", spec |-> CHOOSE s \in Specs : TRUE, finalizer |-> FALSE,
     createdAt |-> FALSE, readyAt |-> FALSE, databaseStatus |-> "Unset"]

Init ==
    /\ cr = [t \in Tenants |-> <<AbsentTenant>>]
    /\ crSeen = [t \in Tenants |-> 1]
    /\ obj = [k \in Kinds |-> [t \in Tenants |-> <<None>>]]
    /\ objSeen = [k \in Kinds |-> [t \in Tenants |-> 1]]
    /\ queue = {}
    /\ w = Idle
    /\ provisions = [t \in Tenants |-> 0]
    /\ observed = [t \in Tenants |-> 0]
    /\ budget = [edits |-> 0, errors |-> 0, crashes |-> 0]

\* A user writes a new version of a TenantEnvironment.
Write(t, version) ==
    /\ cr' = [cr EXCEPT ![t] = Append(@, version)]
    /\ UNCHANGED <<crSeen, obj, objSeen, queue, w, provisions, observed>>

CreateTenant(t) ==
    /\ Latest(cr[t]).life = "absent"
    /\ \E s \in Specs : Write(t, [Latest(cr[t]) EXCEPT !.life = "live", !.spec = s])
    /\ UNCHANGED budget

EditSpec(t) ==
    /\ Listed(Latest(cr[t]))
    /\ \E s \in Specs \ {Latest(cr[t]).spec} :
        Write(t, [Latest(cr[t]) EXCEPT !.spec = s])
    /\ Spend("edits")

\* The object goes at once unless a finalizer holds it.
DeleteTenant(t) ==
    /\ Latest(cr[t]).life = "live"
    /\ LET rest == IF Latest(cr[t]).finalizer THEN "deleting" ELSE "gone"
       IN  Write(t, [Latest(cr[t]) EXCEPT !.life = rest])
    /\ UNCHANGED budget

-----------------------------------------------------------------------------
(* Reconcile *)

\* Mutant of FirstStep: the finalizer is not added before the main logic.
FirstStepWithoutFinalizer(version) ==
    CASE version.life = "deleting" /\ version.finalizer -> "deletePostgreSQL"
      [] version.life = "live" -> "namespace"
      [] OTHER -> "idle"

\* The step Reconcile takes first on the cached version it gets.
FirstStep(version) ==
    CASE version.life = "deleting" /\ version.finalizer -> "deletePostgreSQL"
      [] version.life = "live" /\ version.finalizer -> "namespace"
      [] version.life = "live" /\ ~version.finalizer /\ version.createdAt -> "addFinalizer"
      [] version.life = "live" /\ ~version.finalizer /\ ~version.createdAt -> "setCreatedAt"
      [] OTHER -> "idle"

Take(request, step) ==
    /\ w.step = "idle"
    /\ request \in queue
    /\ queue' = queue \ {request}
    /\ w' = IF step = "idle" THEN Idle
            ELSE [step |-> step, tenant |-> request[2], rv |-> crSeen[request[2]], dv |-> 0]
    /\ UNCHANGED <<cr, crSeen, obj, objSeen, provisions, budget>>

StartReconcile(t) ==
    Take(<<"tenant", t>>, FirstStep(CachedTenant(t))) /\ UNCHANGED observed

\* What every step of a running reconcile leaves alone.
StepOf(step) ==
    /\ w.step = step
    /\ UNCHANGED <<crSeen, objSeen, budget>>

\* The first status write also makes the API server fill in the CRD's
\* defaults for the status.  Its answer has no finalizers field, so the
\* finalizer already added to the copy stays there for the Update that follows.
SetCreatedAt ==
    /\ StepOf("setCreatedAt")
    /\ \/ /\ Accepted
          /\ Commit([Copy EXCEPT !.createdAt = TRUE, !.databaseStatus = "Unassigned"])
          /\ ContinueWithNew("addFinalizer")
       \/ ~Accepted /\ Retry /\ UNCHANGED cr
    /\ UNCHANGED <<obj, provisions, observed>>

\* Requeues whether or not the update succeeds.  The Update carries the whole
\* object, its spec too.
AddFinalizer ==
    /\ StepOf("addFinalizer")
    /\ \/ Accepted /\ Commit([Copy EXCEPT !.finalizer = TRUE, !.spec = AsSent(Copy.spec)])
       \/ ~Accepted /\ UNCHANGED cr
    /\ Retry
    /\ UNCHANGED <<obj, provisions, observed>>

EnsureNamespace ==
    /\ StepOf("namespace")
    /\ LET t == w.tenant IN
       \/ Cached("namespace", t) # None /\ Continue("quota") /\ UNCHANGED obj
       \/ /\ Cached("namespace", t) = None
          /\ \/ /\ Latest(obj["namespace"][t]) = None
                /\ Put("namespace", t, "active") /\ Continue("quota")
             \/ Latest(obj["namespace"][t]) # None /\ Retry /\ UNCHANGED obj
    /\ UNCHANGED <<cr, provisions, observed>>

\* Spec.ResourceQuotas is never nil: the CRD gives it a default.  An empty hard
\* list comes back from the API server as a nil map; the assignment of a limit
\* to it panics, and the panic is recovered as an error of the reconcile.
EnsureQuota ==
    /\ StepOf("quota")
    /\ LET t == w.tenant
           cached == Cached("quota", t)
           writable == CASE cached = None -> Creatable("quota", t)
                         [] cached = NoLimits -> FALSE
                         [] OTHER -> IsCurrent(obj["quota"][t], objSeen["quota"][t])
       IN
       \/ cached = Copy.spec.quota /\ Continue("database") /\ UNCHANGED obj
       \/ /\ cached # Copy.spec.quota /\ writable
          /\ Put("quota", t, Copy.spec.quota) /\ Continue("database")
       \/ cached # Copy.spec.quota /\ ~writable /\ Retry /\ UNCHANGED obj
    /\ UNCHANGED <<cr, provisions, observed>>

\* Mutant of NeedsDatabase: a tenant still Provisioning is provisioned again.
NeedsDatabaseUntilAssigned == Copy.databaseStatus # "Assigned"

\* The copy says that no database was ever asked for.
NeedsDatabase == Copy.databaseStatus \in {"Unset", "Unassigned"}

CheckDatabase ==
    /\ StepOf("database")
    /\ \/ ~NeedsDatabase /\ Continue("deployment") /\ UNCHANGED cr
       \/ /\ NeedsDatabase /\ Accepted
          /\ Commit([Copy EXCEPT !.databaseStatus = "Provisioning"])
          /\ ContinueWithNew("createPostgreSQL")
       \/ NeedsDatabase /\ ~Accepted /\ Retry /\ UNCHANGED cr
    /\ UNCHANGED <<obj, provisions, observed>>

\* SharedPostgreSQL says what the call does.
Provision == provisions' = [provisions EXCEPT ![w.tenant] = @ + 1]

CreatePostgreSQL ==
    /\ StepOf("createPostgreSQL")
    /\ Provision
    /\ Continue("setAssigned")
    /\ UNCHANGED <<cr, obj, observed>>

\* Mutant of SetAssigned: the value of Phase is written to DatabaseStatus.
SetAssignedReady ==
    /\ StepOf("setAssigned")
    /\ Commit([Copy EXCEPT !.databaseStatus = "Ready"])
    /\ ContinueWithNew("deployment")
    /\ UNCHANGED <<obj, provisions, observed>>

SetAssigned ==
    /\ StepOf("setAssigned")
    /\ \/ /\ Accepted
          /\ Commit([Copy EXCEPT !.databaseStatus = "Assigned"])
          /\ ContinueWithNew("deployment")
       \/ ~Accepted /\ Retry /\ UNCHANGED cr
    /\ UNCHANGED <<obj, provisions, observed>>

\* The Deployment is created if the cache has none; either way the reconcile
\* now holds one version of it, which UpdateDeployment compares with the spec.
EnsureDeployment ==
    /\ StepOf("deployment")
    /\ LET t == w.tenant
           Hold(dv) == w' = At("updateDeployment", w.rv, dv) /\ UNCHANGED queue
       IN
       \/ Cached("deployment", t) # None /\ Hold(objSeen["deployment"][t]) /\ UNCHANGED obj
       \/ /\ Cached("deployment", t) = None
          /\ \/ /\ Creatable("deployment", t)
                /\ Put("deployment", t, NewDeployment(Copy.spec))
                /\ Hold(Len(obj["deployment"][t]) + 1)
             \/ ~Creatable("deployment", t) /\ Retry /\ UNCHANGED obj
    /\ UNCHANGED <<cr, provisions, observed>>

UpdateDeployment ==
    /\ StepOf("updateDeployment")
    /\ LET t == w.tenant
           expected == ExpectedDeployment(Copy.spec)
       IN
       \/ obj["deployment"][t][w.dv] = expected /\ Done /\ UNCHANGED obj
       \/ /\ obj["deployment"][t][w.dv] # expected
          /\ \/ /\ IsCurrent(obj["deployment"][t], w.dv)
                /\ Put("deployment", t, expected) /\ Done
             \/ ~IsCurrent(obj["deployment"][t], w.dv) /\ Retry /\ UNCHANGED obj
    /\ UNCHANGED <<cr, provisions, observed>>

-----------------------------------------------------------------------------
(* Reconcile of a TenantEnvironment marked for deletion *)

\* Mutant of DeletePostgreSQL: the finalizer goes before the namespace does.
DeletePostgreSQLOnly ==
    /\ StepOf("deletePostgreSQL")
    /\ Continue("removeFinalizer")
    /\ UNCHANGED <<cr, obj, provisions, observed>>

DeletePostgreSQL ==
    /\ StepOf("deletePostgreSQL")
    /\ Continue("deleteQuota")
    /\ UNCHANGED <<cr, obj, provisions, observed>>

\* A Get that finds nothing is fine, a Delete that finds nothing is an error.
DeleteQuota ==
    /\ StepOf("deleteQuota")
    /\ LET t == w.tenant IN
       \/ Cached("quota", t) = None /\ Continue("deleteNamespace") /\ UNCHANGED obj
       \/ /\ Cached("quota", t) # None
          /\ \/ /\ Latest(obj["quota"][t]) # None
                /\ Put("quota", t, None) /\ Continue("deleteNamespace")
             \/ Latest(obj["quota"][t]) = None /\ Retry /\ UNCHANGED obj
    /\ UNCHANGED <<cr, provisions, observed>>

DeleteNamespace ==
    /\ StepOf("deleteNamespace")
    /\ LET t == w.tenant
           server == Latest(obj["namespace"][t])
       IN
       \/ Cached("namespace", t) = None /\ Continue("removeFinalizer") /\ UNCHANGED obj
       \/ /\ Cached("namespace", t) # None
          /\ \/ server = "active" /\ Put("namespace", t, "terminating")
                /\ Continue("removeFinalizer")
             \/ server = "terminating" /\ Continue("removeFinalizer") /\ UNCHANGED obj
             \/ server = None /\ Retry /\ UNCHANGED obj
    /\ UNCHANGED <<cr, provisions, observed>>

\* Once the last finalizer is gone the API server removes the object.
RemoveFinalizer ==
    /\ StepOf("removeFinalizer")
    /\ \/ /\ Accepted
          /\ Commit([Copy EXCEPT !.finalizer = FALSE, !.life = "gone",
                                 !.spec = AsSent(Copy.spec)])
          /\ Done
       \/ ~Accepted /\ Retry /\ UNCHANGED cr
    /\ UNCHANGED <<obj, provisions, observed>>

-----------------------------------------------------------------------------
(* Reconcile of a pod event *)

\* The pod event finds the TenantEnvironment and a ready pod in the caches,
\* and readyAt not set; otherwise nothing is left to do.
ReadyToMark(t) ==
    Listed(CachedTenant(t)) /\ Cached("pod", t) = "ready" /\ ~CachedTenant(t).readyAt

\* tenantProvisioningDuration...Observe: the time since createdAt.
Observe(t) ==
    observed' = [observed EXCEPT ![t] =
                    IF CachedTenant(t).createdAt /\ @ < ObservedCap THEN @ + 1 ELSE @]

\* Mutant of StartPodEvent: a tenant that is ready is marked and measured again.
StartPodEventAgain(t) ==
    \/ /\ Cached("pod", t) = "ready" /\ Listed(CachedTenant(t))
       /\ Take(<<"pod-event", t>>, "markReady") /\ Observe(t)
    \/ /\ ~(Cached("pod", t) = "ready" /\ Listed(CachedTenant(t)))
       /\ Take(<<"pod-event", t>>, "idle") /\ UNCHANGED observed

\* The sample is taken before the status is written.
StartPodEvent(t) ==
    \/ ReadyToMark(t) /\ Take(<<"pod-event", t>>, "markReady") /\ Observe(t)
    \/ ~ReadyToMark(t) /\ Take(<<"pod-event", t>>, "idle") /\ UNCHANGED observed

MarkReady ==
    /\ StepOf("markReady")
    /\ \/ Accepted /\ Commit([Copy EXCEPT !.readyAt = TRUE]) /\ Done
       \/ ~Accepted /\ Retry /\ UNCHANGED cr
    /\ UNCHANGED <<obj, provisions, observed>>

-----------------------------------------------------------------------------
(* Failures *)

\* The API call of the running step fails and has no effect, or the call of
\* CreatePostgreSQLForTenant or DeletePostgreSQLForTenant returns an error.
ApiError ==
    /\ w.step # "idle"
    /\ Spend("errors")
    /\ IF w.step = "createPostgreSQL" THEN Provision ELSE UNCHANGED provisions
    /\ Retry
    /\ UNCHANGED <<cr, crSeen, obj, objSeen, observed>>

\* The operator stops and starts again (or another replica takes the lease):
\* its informers list the current objects and enqueue each of them.
Crash ==
    /\ Spend("crashes")
    /\ w' = Idle
    /\ crSeen' = [t \in Tenants |-> Len(cr[t])]
    /\ objSeen' = [k \in Kinds |-> [t \in Tenants |-> Len(obj[k][t])]]
    /\ LET known == {t \in Tenants : Listed(Latest(cr[t]))}
       IN  queue' = {<<"tenant", t>> : t \in known} \cup
               {<<"pod-event", t>> : t \in {u \in known : Latest(obj["pod"][u]) # None}}
    /\ observed' = [t \in Tenants |-> 0]
    /\ UNCHANGED <<cr, obj, provisions>>

-----------------------------------------------------------------------------
(* Informers *)

\* Every event of a TenantEnvironment is enqueued: there is no predicate.
DeliverTenant(t) ==
    /\ crSeen[t] < Len(cr[t])
    /\ crSeen' = [crSeen EXCEPT ![t] = @ + 1]
    /\ queue' = queue \cup {<<"tenant", t>>}
    /\ UNCHANGED <<cr, obj, objSeen, w, provisions, observed, budget>>

\* podToTenantEnvironment: an event of a pod is enqueued if the cache lists
\* its TenantEnvironment, and dropped if not.  Events of the other kinds only
\* move the cache.
PodToTenantEnvironment(t) ==
    IF Listed(CachedTenant(t)) THEN {<<"pod-event", t>>} ELSE {}

DeliverObject(k, t) ==
    /\ objSeen[k][t] < Len(obj[k][t])
    /\ objSeen' = [objSeen EXCEPT ![k][t] = @ + 1]
    /\ queue' = queue \cup (IF k = "pod" THEN PodToTenantEnvironment(t) ELSE {})
    /\ UNCHANGED <<cr, crSeen, obj, w, provisions, observed, budget>>

-----------------------------------------------------------------------------
(* Other Kubernetes controllers *)

ClusterStep == UNCHANGED <<cr, crSeen, objSeen, queue, w, provisions, observed, budget>>

\* A terminating namespace goes with everything in it.
NamespaceController(t) ==
    /\ Latest(obj["namespace"][t]) = "terminating"
    /\ obj' = [k \in Kinds |->
                 [obj[k] EXCEPT ![t] = IF Latest(@) = None THEN @ ELSE Append(@, None)]]
    /\ ClusterStep

\* The Deployment's pod starts, passes its readiness probe, or fails it.
PodChanges(t, from, to) ==
    /\ Latest(obj["deployment"][t]) # None
    /\ Latest(obj["namespace"][t]) = "active"
    /\ Latest(obj["pod"][t]) = from
    /\ Len(obj["pod"][t]) <= MaxPodVersions
    /\ Put("pod", t, to)
    /\ ClusterStep

PodStarts(t) == PodChanges(t, None, "starting")
PodBecomesReady(t) == PodChanges(t, "starting", "ready")
PodFails(t) == PodChanges(t, "ready", "starting")

-----------------------------------------------------------------------------

\* A step of the running reconcile that is not an injected failure.
ReconcileStep ==
    \/ SetCreatedAt \/ AddFinalizer \/ EnsureNamespace \/ EnsureQuota
    \/ CheckDatabase \/ CreatePostgreSQL \/ SetAssigned
    \/ EnsureDeployment \/ UpdateDeployment
    \/ DeletePostgreSQL \/ DeleteQuota \/ DeleteNamespace \/ RemoveFinalizer
    \/ MarkReady

Next ==
    \/ \E t \in Tenants :
        \/ CreateTenant(t) \/ EditSpec(t) \/ DeleteTenant(t)
        \/ StartReconcile(t) \/ StartPodEvent(t)
        \/ DeliverTenant(t) \/ \E k \in Kinds : DeliverObject(k, t)
        \/ NamespaceController(t)
        \/ PodStarts(t) \/ PodBecomesReady(t) \/ PodFails(t)
    \/ ReconcileStep
    \/ ApiError
    \/ Crash

Spec == Init /\ [][Next]_vars

\* The worker never stops in the middle of a reconcile, the work queue is
\* first-in first-out, watches deliver every event, and the namespace
\* controller finishes what it starts.  Users, pods, errors and crashes owe
\* nothing.
Fairness ==
    /\ WF_vars(ReconcileStep)
    /\ \A t \in Tenants :
        /\ SF_vars(StartReconcile(t)) /\ SF_vars(StartPodEvent(t))
        /\ WF_vars(DeliverTenant(t)) /\ WF_vars(NamespaceController(t))
        /\ \A k \in Kinds : WF_vars(DeliverObject(k, t))

FairSpec == Spec /\ Fairness

-----------------------------------------------------------------------------
(* Safety *)

\* CreatePostgreSQLForTenant, which picks or creates an instance anew on every
\* call, is called at most once for a tenant, whatever the caches, the
\* conflicts, the errors and the restarts: the status write that precedes it
\* is the lock.
ProvisionedAtMostOnce == \A t \in Tenants : provisions[t] <= 1

LifeRank == [absent |-> 0, live |-> 1, deleting |-> 2, gone |-> 3]
DatabaseRank ==
    [status \in DatabaseStatus |->
        CASE status = "Unset" -> 0 [] status = "Unassigned" -> 1
          [] status = "Provisioning" -> 2 [] status = "Assigned" -> 3]

\* No write of a stale copy takes a TenantEnvironment back: not its life, not
\* its database status, not createdAt or readyAt once they are set; and while
\* it is there its finalizer stays.
NeverGoesBack(old, new) ==
    /\ LifeRank[old.life] <= LifeRank[new.life]
    /\ DatabaseRank[old.databaseStatus] <= DatabaseRank[new.databaseStatus]
    /\ old.createdAt => new.createdAt
    /\ old.readyAt => new.readyAt
    /\ old.finalizer /\ new.life # "gone" => new.finalizer
StatusNeverRegresses ==
    [][\A t \in Tenants : NeverGoesBack(Latest(cr[t]), Latest(cr'[t]))]_vars

\* The reconciler sends the spec it read with every Update, but it never undoes
\* an edit a user made after that: a spec changes by a user's write, or when
\* the finalizer is written, and then to what the round trip makes of the very
\* spec it replaces.
EditsAreKept ==
    [][\A t \in Tenants : Latest(cr'[t]).spec # Latest(cr[t]).spec =>
        \/ crSeen' = crSeen /\ w' = w
        \/ /\ w.tenant = t /\ w.step \in {"addFinalizer", "removeFinalizer"}
           /\ Latest(cr'[t]).spec = AsSent(Latest(cr[t]).spec)]_vars

\* A reconcile working from a stale copy never creates anything for a tenant
\* whose finalizer is gone, when nobody is left to delete it: namespace,
\* ResourceQuota and Deployment appear, and CreatePostgreSQLForTenant runs,
\* only while the API server's TenantEnvironment carries the finalizer.
Appears(k, t) == Latest(obj[k][t]) = None /\ Latest(obj'[k][t]) # None
CreatesUnderFinalizer ==
    [][\A t \in Tenants :
        (\E k \in Kinds \ {"pod"} : Appears(k, t)) \/ provisions'[t] # provisions[t]
            => Latest(cr[t]).finalizer]_vars

\* A tenant reported ready has its creation time, so that its provisioning
\* time can be measured, and a database was asked for.
ReadyIsProvisioned ==
    \A t \in Tenants : Latest(cr[t]).readyAt =>
        /\ Latest(cr[t]).createdAt
        /\ Latest(cr[t]).databaseStatus \in {"Provisioning", "Assigned"}

\* The time a tenant became ready is written once, and after its sample went
\* into the histogram of the same process: no pod that fails and recovers, no
\* event handled from a stale copy and no restart moves a readyAt that is set,
\* or sets one that was not measured.  (There may be more than one sample: a
\* refused status write leaves one behind.)
ReadyIsMeasured ==
    [][\A t \in Tenants :
        w.tenant = t /\ w.step = "markReady" /\ w' # w /\ cr'[t] # cr[t]
            => ~Latest(cr[t]).readyAt /\ observed[t] >= 1]_vars

-----------------------------------------------------------------------------
(* The inductive invariant behind the safety properties *)

\* A database was asked for.
Requested(version) == version.databaseStatus \in {"Provisioning", "Assigned"}

VersionOK(v) == (~v.createdAt => v.databaseStatus = "Unset") /\ (v.finalizer => v.createdAt)

HistoryOK ==
    \A t \in Tenants : \A i \in 1 .. Len(cr[t]) :
        /\ VersionOK(cr[t][i])
        /\ \A j \in i .. Len(cr[t]) : NeverGoesBack(cr[t][i], cr[t][j])

\* While the cache, or what it is still to be told, shows a live tenant with
\* the finalizer, the API server still has the TenantEnvironment.
FinalizerHolds ==
    \A t \in Tenants : \A i \in crSeen[t] .. Len(cr[t]) :
        cr[t][i].life = "live" /\ cr[t][i].finalizer => Latest(cr[t]).life # "gone"

CreatingSteps == {"namespace", "quota", "database", "createPostgreSQL", "setAssigned",
                  "deployment", "updateDeployment"}
DeletingSteps == {"deletePostgreSQL", "deleteQuota", "deleteNamespace", "removeFinalizer"}

\* What the running reconcile knows at each step.
WorkerOK ==
    /\ w.step = "setCreatedAt" => ~Copy.createdAt
    /\ w.step = "addFinalizer" => Copy.createdAt
    /\ w.step \in CreatingSteps => Copy.finalizer /\ Latest(cr[w.tenant]).life # "gone"
    /\ w.step = "createPostgreSQL" => provisions[w.tenant] = 0
    /\ w.step \in {"createPostgreSQL", "setAssigned", "deployment", "updateDeployment"}
            => Requested(Copy)
    /\ w.step \in DeletingSteps => Copy.life = "deleting" /\ w.rv <= crSeen[w.tenant]
    /\ w.step = "markReady" =>
        /\ Requested(Latest(cr[w.tenant])) /\ ~Copy.readyAt
        /\ Copy.createdAt => observed[w.tenant] >= 1

\* Everything that follows the request for a database was preceded by it.
RequestedFirst ==
    \A t \in Tenants : ~Requested(Latest(cr[t])) =>
        /\ provisions[t] = 0
        /\ ~Latest(cr[t]).readyAt
        /\ \A k \in {"deployment", "pod"} : \A n \in 1 .. Len(obj[k][t]) : obj[k][t][n] = None

SafetyInv ==
    TypeOK /\ HistoryOK /\ FinalizerHolds /\ WorkerOK /\ RequestedFirst /\ ProvisionedAtMostOnce

-----------------------------------------------------------------------------
(* The abstract specification this one implements *)

ReleasedSteps == {"deleteQuota", "deleteNamespace", "removeFinalizer"}

\* A tenant is closing from the moment the cache shows its deletion.
StageOf(t) ==
    IF Latest(cr[t]).life = "gone" THEN "gone"
    ELSE IF w.tenant = t /\ w.step \in ReleasedSteps THEN "released"
    ELSE IF CachedTenant(t).life = "deleting" THEN "closing"
    ELSE IF Requested(Latest(cr[t])) THEN "asked" ELSE "new"
Stage == [t \in Tenants |-> StageOf(t)]

DatabaseCall ==
    IF w.step = "createPostgreSQL" THEN <<"create", w.tenant>>
    ELSE IF w.step = "deletePostgreSQL" THEN <<"delete", w.tenant>> ELSE None

Lifecycle == INSTANCE TenantLifecycle WITH stage <- Stage, call <- DatabaseCall

\* The reconciler's calls for a tenant are those of TenantLifecycle, whatever
\* the caches show and whatever fails: one creation, none once the deletion
\* was acted on, and no TenantEnvironment removed whose database was asked for
\* and not released in the same reconcile.
ImplementsLifecycle == Lifecycle!Spec

-----------------------------------------------------------------------------
(* Liveness, under FairSpec *)

Matches(t, s) ==
    /\ Latest(obj["quota"][t]) = s.quota
    /\ Latest(obj["deployment"][t]) = ExpectedDeployment(s)

\* Level-triggered reconciliation: a spec that is not changed again reaches
\* the ResourceQuota and the Deployment and stays there.  It takes that the
\* spec is not changed and changed back while the informer of one of them
\* lags: see the README.
Converges ==
    \A t \in Tenants, s \in Specs :
        <>[](Latest(cr[t]).life = "live" /\ Latest(cr[t]).spec = s) => <>[]Matches(t, s)

\* Deletion is never blocked for good by the finalizer.
DeletionCompletes ==
    \A t \in Tenants : (Latest(cr[t]).life = "deleting") ~> (Latest(cr[t]).life = "gone")

\* A namespace the operator's cache holds when deletion begins is removed.
KnownNamespaceIsRemoved ==
    \A t \in Tenants :
        /\ Latest(cr[t]).life = "deleting"
        /\ Cached("namespace", t) = "active" /\ w.tenant # t
        ~> Latest(obj["namespace"][t]) = None

\* A tenant whose pod stays ready is reported ready, although the pod's events
\* are dropped while the cache does not list the TenantEnvironment, and the
\* status write may lose against one of Reconcile.
ReadyPodIsReported ==
    \A t \in Tenants :
        (Latest(cr[t]).life = "live" /\ Latest(obj["pod"][t]) = "ready")
            ~> \/ Latest(cr[t]).life # "live" \/ Latest(obj["pod"][t]) # "ready"
               \/ Latest(cr[t]).readyAt

-----------------------------------------------------------------------------
(* What the repository says of the operator and the code does not keep *)

\* A tenant that is not assigned a database gets one ("only if not already
\* assigned"): a live tenant ends up Assigned, unless it is deleted.
DatabaseGetsAssigned ==
    \A t \in Tenants : (Latest(cr[t]).life = "live")
        ~> (Latest(cr[t]).life # "live" \/ Latest(cr[t]).databaseStatus = "Assigned")

\* The tenant's namespace is cleaned up when its TenantEnvironment is deleted.
NamespaceCleanedUp ==
    \A t \in Tenants :
        (Latest(cr[t]).life = "gone") ~> (Latest(obj["namespace"][t]) = None)

=============================================================================
