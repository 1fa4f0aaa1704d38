--------------------- MODULE TenantReconcilerRefinement ---------------------
(***************************************************************************)
(* TenantReconciler implements TenantLifecycle: for any number of tenants, *)
(* edits, errors and restarts its calls into the PostgreSQL placement come *)
(* in the order that SharedPostgreSQL relies on.                           *)
(*                                                                         *)
(* SafetyInv does not say enough for that.  What is added is why a         *)
(* TenantEnvironment that is gone is never taken down again: the cache may *)
(* still show it deleting, but then no request for it is in the queue.     *)
(***************************************************************************)
EXTENDS TenantReconcilerSafety

-----------------------------------------------------------------------------
(* The inductive invariant *)

\* A tenant that asked for a database has the finalizer.
HeldInv ==
    \A t \in Tenants :
        Requested(Latest(cr[t])) /\ Latest(cr[t]).life # "gone" => Latest(cr[t]).finalizer

\* A reconcile that may still ask for a database holds a live copy; one that
\* takes a tenant down holds a copy with the finalizer, and the API server
\* still has the TenantEnvironment.
CopyInv ==
    /\ w.step \in {"namespace", "quota", "database"} => Copy.life = "live"
    /\ w.step \in DeletingSteps => Copy.finalizer /\ Latest(cr[w.tenant]).life # "gone"

\* Once a TenantEnvironment is gone, the informer reports no deletion mark
\* any more.
GoneIsLast ==
    \A t \in Tenants : Latest(cr[t]).life = "gone" =>
        \A i \in (crSeen[t] + 1) .. Len(cr[t]) : cr[t][i].life # "deleting"

\* A request that came after a deletion was begun came with a newer version.
NewerInQueue ==
    w.step \in DeletingSteps /\ <<"tenant", w.tenant>> \in queue => w.rv < crSeen[w.tenant]

\* A TenantEnvironment that is gone while the cache shows it deleting is
\* neither reconciled nor about to be.
NotTakenAgain ==
    \A t \in Tenants : Latest(cr[t]).life = "gone" /\ CachedTenant(t).life = "deleting" =>
        /\ <<"tenant", t>> \notin queue
        /\ w.tenant = t => w.step \in {"idle", "markReady"}

LifecycleInv ==
    SafetyInv /\ HeldInv /\ CopyInv /\ GoneIsLast /\ NewerInQueue /\ NotTakenAgain

-----------------------------------------------------------------------------
(* What a step may do: further summaries *)

\* A step leaves TenantEnvironment t there, or gone, and its database asked
\* for, or not.
SameTenant(t) ==
    /\ (Latest(cr'[t]).life = "gone") <=> (Latest(cr[t]).life = "gone")
    /\ Requested(Latest(cr'[t])) <=> Requested(Latest(cr[t]))

\* The two writes that end a TenantEnvironment.
Ends(t) ==
    \/ /\ RemoveFinalizer /\ w.tenant = t /\ w.rv = Len(cr[t]) /\ Done
    \/ DeleteTenant(t) /\ ~Latest(cr[t]).finalizer

\* The write that asks for a database.
Asks(t) == CheckDatabase /\ w.tenant = t /\ Accepted /\ NeedsDatabase

WriteSum ==
    \A t \in Tenants :
        /\ Latest(cr'[t]).life = "gone" => Latest(cr[t]).life = "gone" \/ Ends(t)
        /\ Requested(Latest(cr'[t])) => Requested(Latest(cr[t])) \/ Asks(t)

\* A reconcile goes from one step to the next.
MovesOn ==
    /\ UNCHANGED <<crSeen, queue>>
    /\ w.step \notin {"idle", "markReady"} /\ w'.tenant = w.tenant
    /\ w'.step \notin {"namespace", "deletePostgreSQL"}
    /\ w'.step \in {"quota", "database"} =>
         UNCHANGED cr /\ w'.rv = w.rv /\ w.step \in {"namespace", "quota"}
    /\ w'.step \in DeletingSteps => UNCHANGED cr /\ w'.rv = w.rv /\ w.step \in DeletingSteps

WorkerSum ==
    \/ w' = w \/ w' = Idle \/ MovesOn
    \/ \E t \in Tenants : StartReconcile(t) \/ StartPodEvent(t)

\* A request for a tenant is added by the informer, by the reconcile of the
\* tenant when it ends, or by a restart that finds the TenantEnvironment.
QueueSum ==
    \A t \in Tenants : <<"tenant", t>> \in queue' /\ <<"tenant", t>> \notin queue =>
        \/ UNCHANGED <<cr, w>> /\ crSeen'[t] = crSeen[t] + 1
        \/ w' = Idle /\ w.tenant = t /\ w.step \notin {"idle", "markReady"}
        \/ w' = Idle /\ UNCHANGED cr /\ Listed(Latest(cr[t]))

\* The informer goes on by one version, or a restart lists the newest one.
InformerSum ==
    \A t \in Tenants :
        \/ crSeen'[t] = crSeen[t]
        \/ UNCHANGED cr /\ crSeen'[t] = crSeen[t] + 1 /\ crSeen[t] < Len(cr[t])
        \/ UNCHANGED cr /\ crSeen'[t] = Len(cr[t])

-----------------------------------------------------------------------------
(* The writes *)

\* A write adds a version to one history.
LEMMA AppendedVersion ==
    ASSUME TypeOK, NEW t \in Tenants, NEW v \in TenantEnvironment,
           cr' = [cr EXCEPT ![t] = Append(@, v)]
    PROVE  Latest(cr'[t]) = v /\ \A u \in Tenants \ {t} : cr'[u] = cr[u]
<1>1. cr \in [Tenants -> Seq(TenantEnvironment)]
  BY DEF TypeOK, TenantsTyped
<1>2. cr'[t] = Append(cr[t], v) /\ cr[t] \in Seq(TenantEnvironment)
  BY <1>1
<1>3. Latest(cr'[t]) = v
  BY <1>2 DEF Latest
<1> QED  BY <1>1, <1>3

\* A version that keeps what SameTenant is about.
LEMMA QuietVersion ==
    ASSUME TypeOK, NEW t \in Tenants, NEW v \in TenantEnvironment,
           cr' = [cr EXCEPT ![t] = Append(@, v)],
           v.life = "gone" <=> Latest(cr[t]).life = "gone",
           Requested(v) <=> Requested(Latest(cr[t]))
    PROVE  \A u \in Tenants : SameTenant(u)
BY AppendedVersion DEF SameTenant

\* A creation or an edit neither ends a TenantEnvironment nor asks for a database.
LEMMA QuietUsers ==
    ASSUME SafetyInv, NEW t \in Tenants, CreateTenant(t) \/ EditSpec(t)
    PROVE  \A u \in Tenants : SameTenant(u)
<1> DEFINE old == Latest(cr[t])
<1>1. old \in TenantEnvironment /\ TypeOK
  BY LatestTyped DEF SafetyInv
<1> HIDE DEF old
<1>2. CASE CreateTenant(t)
  <2>1. PICK s \in Specs : cr' = [cr EXCEPT ![t] = Append(@, [old EXCEPT !.life = "live", !.spec = s])]
    BY <1>2 DEF CreateTenant, Write, old
  <2> DEFINE v == [old EXCEPT !.life = "live", !.spec = s]
  <2>2. v \in TenantEnvironment /\ v.life = "live" /\ v.databaseStatus = old.databaseStatus
    BY <1>1, Zenon DEF TenantEnvironment, Life
  <2>3. cr' = [cr EXCEPT ![t] = Append(@, v)] /\ old.life = "absent"
    BY <1>2, <2>1 DEF CreateTenant, old
  <2> HIDE DEF v
  <2> QED  BY <1>1, <2>2, <2>3, QuietVersion DEF Requested, old
<1>3. CASE EditSpec(t)
  <2>1. PICK s \in Specs : cr' = [cr EXCEPT ![t] = Append(@, [old EXCEPT !.spec = s])]
    BY <1>3 DEF EditSpec, Write, old
  <2> DEFINE v == [old EXCEPT !.spec = s]
  <2>2. v \in TenantEnvironment /\ v.life = old.life /\ v.databaseStatus = old.databaseStatus
    BY <1>1, Zenon DEF TenantEnvironment
  <2>3. cr' = [cr EXCEPT ![t] = Append(@, v)]
    BY <2>1
  <2> HIDE DEF v
  <2> QED  BY <1>1, <2>2, <2>3, QuietVersion DEF Requested, old
<1> QED  BY <1>2, <1>3

\* A deletion: marked, or gone at once.
LEMMA UserDeletes ==
    ASSUME SafetyInv, NEW t \in Tenants, DeleteTenant(t)
    PROVE  /\ Latest(cr[t]).life = "live"
           /\ (Latest(cr'[t]).life = "gone") <=> ~Latest(cr[t]).finalizer
           /\ Requested(Latest(cr'[t])) <=> Requested(Latest(cr[t]))
           /\ \A u \in Tenants \ {t} : cr'[u] = cr[u]
<1> DEFINE old == Latest(cr[t])
<1>1. old \in TenantEnvironment /\ TypeOK
  BY LatestTyped DEF SafetyInv
<1> HIDE DEF old
<1>2. PICK l \in {"deleting", "gone"} :
        /\ cr' = [cr EXCEPT ![t] = Append(@, [old EXCEPT !.life = l])]
        /\ l = "gone" <=> ~old.finalizer
  BY DEF DeleteTenant, Write, old
<1> DEFINE v == [old EXCEPT !.life = l]
<1>3. v \in TenantEnvironment /\ v.life = l /\ v.databaseStatus = old.databaseStatus
  BY <1>1, Zenon DEF TenantEnvironment, Life
<1>4. cr' = [cr EXCEPT ![t] = Append(@, v)] /\ old.life = "live"
  BY <1>2 DEF DeleteTenant, old
<1> HIDE DEF v
<1>5. Latest(cr'[t]) = v /\ \A u \in Tenants \ {t} : cr'[u] = cr[u]
  BY <1>1, <1>3, <1>4, AppendedVersion
<1> QED  BY <1>2, <1>3, <1>4, <1>5 DEF Requested, old

\* The status writes that neither end a TenantEnvironment nor ask for a database.
LEMMA QuietStatus ==
    ASSUME SafetyInv, SetCreatedAt \/ AddFinalizer \/ SetAssigned \/ MarkReady
    PROVE  \A u \in Tenants : SameTenant(u)
<1> DEFINE old == Copy
<1>1. w.step # "idle"
  BY DEF SetCreatedAt, AddFinalizer, SetAssigned, MarkReady, StepOf
<1>2. old \in TenantEnvironment /\ VersionOK(old) /\ w.tenant \in Tenants /\ TypeOK
  BY <1>1, CopyFacts DEF SafetyInv
<1>3. UNCHANGED cr => \A u \in Tenants : SameTenant(u)
  BY DEF SameTenant
<1>4. ASSUME NEW v \in TenantEnvironment, Accepted, Commit(v), v.life = Copy.life,
             Requested(v) <=> Requested(Copy)
      PROVE  \A u \in Tenants : SameTenant(u)
  <2>1. Copy = Latest(cr[w.tenant])
    BY <1>1, <1>4, CopyFacts
  <2> QED  BY <1>2, <1>4, <2>1, QuietVersion DEF Commit
<1> HIDE DEF old
<1>5. CASE SetCreatedAt
  <2> DEFINE v == [old EXCEPT !.createdAt = TRUE, !.databaseStatus = "Unassigned"]
  <2>1. UNCHANGED cr \/ (Accepted /\ Commit(v))
    BY <1>5 DEF SetCreatedAt, old
  <2>2. v \in TenantEnvironment /\ v.life = old.life /\ v.databaseStatus = "Unassigned"
    BY <1>2, Zenon DEF TenantEnvironment, DatabaseStatus
  <2> HIDE DEF v
  <2>3. ~Requested(old) /\ ~Requested(v)
    BY <1>2, <1>5, <2>2 DEF SafetyInv, WorkerOK, SetCreatedAt, StepOf, VersionOK, Requested, old
  <2> QED  BY <1>3, <1>4, <2>1, <2>2, <2>3 DEF old
<1>6. CASE AddFinalizer
  <2>3. PICK s \in Specs : s = AsSent(old.spec)
    BY <1>2, RoundTripAssumption DEF TenantEnvironment
  <2> DEFINE v == [old EXCEPT !.finalizer = TRUE, !.spec = s]
  <2>1. UNCHANGED cr \/ (Accepted /\ Commit(v))
    BY <1>6, <2>3 DEF AddFinalizer, old
  <2>2. v \in TenantEnvironment /\ v.life = old.life /\ v.databaseStatus = old.databaseStatus
    BY <1>2, Zenon DEF TenantEnvironment
  <2> HIDE DEF v
  <2> QED  BY <1>3, <1>4, <2>1, <2>2 DEF Requested, old
<1>7. CASE SetAssigned
  <2> DEFINE v == [old EXCEPT !.databaseStatus = "Assigned"]
  <2>1. UNCHANGED cr \/ (Accepted /\ Commit(v))
    BY <1>7 DEF SetAssigned, old
  <2>2. v \in TenantEnvironment /\ v.life = old.life /\ v.databaseStatus = "Assigned"
    BY <1>2, Zenon DEF TenantEnvironment, DatabaseStatus
  <2> HIDE DEF v
  <2>3. Requested(old) /\ Requested(v)
    <3>1. w.step = "setAssigned"
      BY <1>7 DEF SetAssigned, StepOf
    <3> QED  BY <2>2, <3>1 DEF SafetyInv, WorkerOK, Requested, old
  <2> QED  BY <1>3, <1>4, <2>1, <2>2, <2>3 DEF old
<1>8. CASE MarkReady
  <2> DEFINE v == [old EXCEPT !.readyAt = TRUE]
  <2>1. UNCHANGED cr \/ (Accepted /\ Commit(v))
    BY <1>8 DEF MarkReady, old
  <2>2. v \in TenantEnvironment /\ v.life = old.life /\ v.databaseStatus = old.databaseStatus
    BY <1>2, Zenon DEF TenantEnvironment
  <2> HIDE DEF v
  <2> QED  BY <1>3, <1>4, <2>1, <2>2 DEF Requested, old
<1> QED  BY <1>5, <1>6, <1>7, <1>8

\* An accepted request for a database.
LEMMA DatabaseAsked ==
    ASSUME SafetyInv, CheckDatabase
    PROVE  /\ w.step = "database" /\ w.tenant \in Tenants
           /\ NeedsDatabase <=> ~Requested(Copy)
           /\ NeedsDatabase /\ Accepted =>
                /\ Copy = Latest(cr[w.tenant])
                /\ Latest(cr'[w.tenant]).life = Copy.life /\ Requested(Latest(cr'[w.tenant]))
                /\ ContinueWithNew("createPostgreSQL")
                /\ \A u \in Tenants \ {w.tenant} : cr'[u] = cr[u]
           /\ ~(NeedsDatabase /\ Accepted) => UNCHANGED cr /\ (Retry \/ Continue("deployment"))
<1> DEFINE old == Copy
           v == [old EXCEPT !.databaseStatus = "Provisioning"]
<1>1. w.step = "database" /\ w.step # "idle"
  BY DEF CheckDatabase, StepOf
<1>2. old \in TenantEnvironment /\ w.tenant \in Tenants /\ TypeOK
      /\ (Accepted => old = Latest(cr[w.tenant]))
  BY <1>1, CopyFacts DEF SafetyInv
<1>3. NeedsDatabase <=> ~Requested(Copy)
  BY <1>2 DEF NeedsDatabase, Requested, TenantEnvironment, DatabaseStatus
<1> HIDE DEF old
<1>4. v \in TenantEnvironment /\ v.life = old.life /\ v.databaseStatus = "Provisioning"
  BY <1>2, Zenon DEF TenantEnvironment, DatabaseStatus
<1>5. NeedsDatabase /\ Accepted => Commit(v) /\ ContinueWithNew("createPostgreSQL")
  BY DEF CheckDatabase, old
<1>6. ~(NeedsDatabase /\ Accepted) => UNCHANGED cr /\ (Retry \/ Continue("deployment"))
  BY DEF CheckDatabase
<1> HIDE DEF v
<1>7. ASSUME NeedsDatabase, Accepted
      PROVE  Latest(cr'[w.tenant]) = v /\ \A u \in Tenants \ {w.tenant} : cr'[u] = cr[u]
  BY <1>2, <1>4, <1>5, <1>7, AppendedVersion DEF Commit
<1>8. Requested(v)
  BY <1>4 DEF Requested
<1> QED  BY <1>1, <1>2, <1>3, <1>4, <1>5, <1>6, <1>7, <1>8 DEF old

\* The finalizer's removal.
LEMMA FinalizerRemoved ==
    ASSUME SafetyInv, RemoveFinalizer
    PROVE  /\ w.step = "removeFinalizer" /\ w.tenant \in Tenants
           /\ Accepted => /\ w.rv = Len(cr[w.tenant]) /\ Copy = Latest(cr[w.tenant])
                          /\ Latest(cr'[w.tenant]).life = "gone"
                          /\ Requested(Latest(cr'[w.tenant])) <=> Requested(Latest(cr[w.tenant]))
                          /\ \A u \in Tenants \ {w.tenant} : cr'[u] = cr[u]
                          /\ Done
           /\ ~Accepted => UNCHANGED cr /\ Retry
<1> DEFINE old == Copy
<1>1. w.step = "removeFinalizer" /\ w.step # "idle"
  BY DEF RemoveFinalizer, StepOf
<1>2. old \in TenantEnvironment /\ w.tenant \in Tenants /\ TypeOK
      /\ (Accepted => old = Latest(cr[w.tenant]))
  BY <1>1, CopyFacts DEF SafetyInv
<1>3. PICK s \in Specs : s = AsSent(old.spec)
  BY <1>2, RoundTripAssumption DEF TenantEnvironment
<1> DEFINE v == [old EXCEPT !.finalizer = FALSE, !.life = "gone", !.spec = s]
<1> HIDE DEF old
<1>4. v \in TenantEnvironment /\ v.life = "gone" /\ v.databaseStatus = old.databaseStatus
  BY <1>2, Zenon DEF TenantEnvironment, Life
<1>5. Accepted => Commit(v) /\ Done
  BY <1>3 DEF RemoveFinalizer, old
<1>6. ~Accepted => UNCHANGED cr /\ Retry
  BY DEF RemoveFinalizer
<1> HIDE DEF v
<1>7. ASSUME Accepted
      PROVE  Latest(cr'[w.tenant]) = v /\ \A u \in Tenants \ {w.tenant} : cr'[u] = cr[u]
  BY <1>2, <1>4, <1>5, <1>7, AppendedVersion DEF Commit
<1>8. Requested(v) <=> Requested(old)
  BY <1>4 DEF Requested
<1>9. Accepted => w.rv = Len(cr[w.tenant])
  BY DEF Accepted, IsCurrent
<1> QED  BY <1>1, <1>2, <1>4, <1>5, <1>6, <1>7, <1>8, <1>9 DEF old

-----------------------------------------------------------------------------
(* Every step is one the summaries allow *)

\* The steps that touch neither a TenantEnvironment nor the worker's place.
ClusterActions(t) ==
    \/ NamespaceController(t) \/ PodStarts(t) \/ PodBecomesReady(t) \/ PodFails(t)

ObjectActions ==
    \/ EnsureNamespace \/ EnsureQuota \/ EnsureDeployment \/ UpdateDeployment
    \/ DeleteQuota \/ DeleteNamespace \/ CreatePostgreSQL \/ DeletePostgreSQL

QuietActions == SetCreatedAt \/ AddFinalizer \/ SetAssigned \/ MarkReady

\* Next, by what the proofs tell apart.
LEMMA NextCases ==
    ASSUME [Next]_vars
    PROVE  \/ UNCHANGED vars
           \/ \E t \in Tenants :
                \/ CreateTenant(t) \/ EditSpec(t) \/ DeleteTenant(t)
                \/ StartReconcile(t) \/ StartPodEvent(t)
                \/ DeliverTenant(t) \/ (\E k \in Kinds : DeliverObject(k, t)) \/ ClusterActions(t)
           \/ ObjectActions \/ QuietActions \/ CheckDatabase \/ RemoveFinalizer
           \/ ApiError \/ Crash
BY DEF Next, ReconcileStep, ClusterActions, ObjectActions, QuietActions

\* What ends a TenantEnvironment, and what asks for its database.
LEMMA WritesSum ==
    ASSUME SafetyInv, [Next]_vars
    PROVE  WriteSum
<1>1. (\A t \in Tenants : SameTenant(t)) => WriteSum
  BY DEF WriteSum, SameTenant
<1>2. UNCHANGED cr => WriteSum
  BY DEF WriteSum
<1>3. CASE UNCHANGED vars
  BY <1>2, <1>3 DEF vars
<1>4. ASSUME NEW t \in Tenants, CreateTenant(t) \/ EditSpec(t) PROVE WriteSum
  BY <1>1, <1>4, QuietUsers
<1>5. ASSUME NEW t \in Tenants, DeleteTenant(t) PROVE WriteSum
  BY <1>5, UserDeletes DEF WriteSum, Ends
<1>6. ASSUME NEW t \in Tenants,
             \/ StartReconcile(t) \/ StartPodEvent(t) \/ DeliverTenant(t)
             \/ (\E k \in Kinds : DeliverObject(k, t)) \/ ClusterActions(t)
      PROVE  WriteSum
  <2>1. UNCHANGED cr
    BY <1>6 DEF StartReconcile, StartPodEvent, Take, DeliverTenant, DeliverObject, ClusterActions,
         NamespaceController, PodStarts, PodBecomesReady, PodFails, PodChanges, ClusterStep
  <2> QED  BY <1>2, <2>1
<1>7. CASE ObjectActions \/ ApiError \/ Crash
  <2>1. UNCHANGED cr
    BY <1>7 DEF ObjectActions, EnsureNamespace, EnsureQuota, EnsureDeployment, UpdateDeployment,
         DeleteQuota, DeleteNamespace, CreatePostgreSQL, DeletePostgreSQL, ApiError, Crash
  <2> QED  BY <1>2, <2>1
<1>8. CASE QuietActions
  BY <1>1, <1>8, QuietStatus DEF QuietActions
<1>9. CASE CheckDatabase
  <2>1. ASSUME NeedsDatabase, Accepted PROVE WriteSum
    BY <1>9, <2>1, DatabaseAsked DEF WriteSum, Asks
  <2> QED  BY <1>2, <1>9, <2>1, DatabaseAsked
<1>10. CASE RemoveFinalizer
  <2>1. ASSUME Accepted PROVE WriteSum
    BY <1>10, <2>1, FinalizerRemoved DEF WriteSum, Ends
  <2> QED  BY <1>2, <1>10, <2>1, FinalizerRemoved
<1> QED  BY <1>3, <1>4, <1>5, <1>6, <1>7, <1>8, <1>9, <1>10, NextCases

\* What the running reconcile's own steps do to the worker and the queue.
LEMMA StepsMoveOn ==
    ASSUME SafetyInv, ObjectActions \/ QuietActions \/ CheckDatabase \/ RemoveFinalizer
    PROVE  /\ w.step # "idle" /\ UNCHANGED crSeen
           /\ Retry \/ Done \/ MovesOn
<1>1. w.step # "idle" /\ UNCHANGED crSeen
  BY DEF ObjectActions, QuietActions, EnsureNamespace, EnsureQuota, EnsureDeployment,
         UpdateDeployment, DeleteQuota, DeleteNamespace, CreatePostgreSQL, DeletePostgreSQL,
         SetCreatedAt, AddFinalizer, SetAssigned, MarkReady, CheckDatabase, RemoveFinalizer, StepOf
<1>2. ASSUME NEW step, NEW rv, NEW dv, w' = At(step, rv, dv)
      PROVE  w'.step = step /\ w'.tenant = w.tenant /\ w'.rv = rv
  BY <1>2 DEF At
<1>3. CASE EnsureNamespace \/ EnsureQuota
  <2>1. \/ Retry
        \/ /\ UNCHANGED <<queue, cr>> /\ w.step = "namespace" /\ w' = At("quota", w.rv, w.dv)
        \/ /\ UNCHANGED <<queue, cr>> /\ w.step = "quota" /\ w' = At("database", w.rv, w.dv)
    BY <1>3 DEF EnsureNamespace, EnsureQuota, StepOf, Continue
  <2> QED  BY <1>1, <1>2, <2>1 DEF MovesOn, DeletingSteps
<1>4. CASE EnsureDeployment \/ UpdateDeployment \/ CreatePostgreSQL
  <2>1. \/ Retry \/ Done
        \/ \E step \in {"setAssigned", "updateDeployment"} : \E dv :
             /\ UNCHANGED queue /\ w' = At(step, w.rv, dv)
             /\ w.step \in {"deployment", "createPostgreSQL"}
    BY <1>4 DEF EnsureDeployment, UpdateDeployment, CreatePostgreSQL, StepOf, Continue
  <2> QED  BY <1>1, <1>2, <2>1 DEF MovesOn, DeletingSteps
<1>5. CASE DeleteQuota \/ DeleteNamespace \/ DeletePostgreSQL
  <2>1. \/ Retry
        \/ \E step \in {"deleteQuota", "deleteNamespace", "removeFinalizer"} :
             /\ UNCHANGED <<queue, cr>> /\ w' = At(step, w.rv, w.dv)
             /\ w.step \in {"deletePostgreSQL", "deleteQuota", "deleteNamespace"}
    BY <1>5 DEF DeleteQuota, DeleteNamespace, DeletePostgreSQL, StepOf, Continue
  <2> QED  BY <1>1, <1>2, <2>1 DEF MovesOn, DeletingSteps
<1>6. CASE QuietActions \/ CheckDatabase \/ RemoveFinalizer
  <2>1. \/ Retry \/ Done
        \/ \E step \in {"addFinalizer", "createPostgreSQL", "deployment"} : \E rv :
             /\ UNCHANGED queue /\ w' = At(step, rv, w.dv)
             /\ w.step \in {"setCreatedAt", "database", "setAssigned"}
    BY <1>6 DEF QuietActions, SetCreatedAt, AddFinalizer, SetAssigned, MarkReady, CheckDatabase,
         RemoveFinalizer, StepOf, Continue, ContinueWithNew
  <2> QED  BY <1>1, <1>2, <2>1 DEF MovesOn, DeletingSteps
<1> QED  BY <1>1, <1>3, <1>4, <1>5, <1>6 DEF ObjectActions

\* Where the worker goes, what comes into the queue, what the caches are told.
LEMMA QueueSums ==
    ASSUME SafetyInv, [Next]_vars
    PROVE  WorkerSum /\ QueueSum /\ InformerSum
<1>1. UNCHANGED <<crSeen, queue, w>> => WorkerSum /\ QueueSum /\ InformerSum
  BY DEF WorkerSum, QueueSum, InformerSum
<1>2. CASE UNCHANGED vars
  BY <1>1, <1>2 DEF vars
<1>3. ASSUME NEW t \in Tenants,
             CreateTenant(t) \/ EditSpec(t) \/ DeleteTenant(t) \/ ClusterActions(t)
      PROVE  WorkerSum /\ QueueSum /\ InformerSum
  <2>1. UNCHANGED <<crSeen, queue, w>>
    BY <1>3 DEF CreateTenant, EditSpec, DeleteTenant, Write, ClusterActions, NamespaceController,
         PodStarts, PodBecomesReady, PodFails, PodChanges, ClusterStep
  <2> QED  BY <1>1, <2>1
<1>4. ASSUME NEW t \in Tenants, StartReconcile(t) \/ StartPodEvent(t)
      PROVE  WorkerSum /\ QueueSum /\ InformerSum
  <2>1. UNCHANGED crSeen /\ queue' \subseteq queue
    BY <1>4 DEF StartReconcile, StartPodEvent, Take
  <2> QED  BY <1>4, <2>1 DEF WorkerSum, QueueSum, InformerSum
<1>5. ASSUME NEW t \in Tenants, DeliverTenant(t)
      PROVE  WorkerSum /\ QueueSum /\ InformerSum
  <2>1. /\ crSeen' = [crSeen EXCEPT ![t] = @ + 1] /\ crSeen[t] < Len(cr[t])
        /\ queue' = queue \cup {<<"tenant", t>>} /\ UNCHANGED <<cr, w>>
    BY <1>5 DEF DeliverTenant
  <2>2. crSeen \in [Tenants -> Nat]
    BY DEF SafetyInv, TypeOK, TenantsTyped
  <2>3. crSeen'[t] = crSeen[t] + 1 /\ \A u \in Tenants \ {t} : crSeen'[u] = crSeen[u]
    BY <2>1, <2>2
  <2> QED  BY <2>1, <2>3 DEF WorkerSum, QueueSum, InformerSum
<1>6. ASSUME NEW t \in Tenants, \E k \in Kinds : DeliverObject(k, t)
      PROVE  WorkerSum /\ QueueSum /\ InformerSum
  <2>1. /\ UNCHANGED <<crSeen, w>>
        /\ queue' \subseteq queue \cup {<<"pod-event", t>>}
    BY <1>6 DEF DeliverObject, PodToTenantEnvironment
  <2>2. \A u \in Tenants : <<"tenant", u>> # <<"pod-event", t>>
    OBVIOUS
  <2>3. QueueSum
    BY <2>1, <2>2 DEF QueueSum
  <2> QED  BY <2>1, <2>3 DEF WorkerSum, InformerSum
<1>7. ASSUME w.step # "idle", UNCHANGED crSeen, Retry
      PROVE  WorkerSum /\ QueueSum /\ InformerSum
  <2>1. \A t \in Tenants : <<"tenant", t>> \in queue' /\ <<"tenant", t>> \notin queue =>
            w.step # "markReady" /\ w.tenant = t
    <3>1. \A t \in Tenants : <<"tenant", t>> # <<"pod-event", w.tenant>>
      OBVIOUS
    <3>2. \A t \in Tenants : <<"tenant", t>> = <<"tenant", w.tenant>> => w.tenant = t
      OBVIOUS
    <3> QED  BY <1>7, <3>1, <3>2 DEF Retry
  <2>2. w' = Idle
    BY <1>7 DEF Retry
  <2> QED  BY <1>7, <2>1, <2>2 DEF WorkerSum, QueueSum, InformerSum
<1>8. CASE ObjectActions \/ QuietActions \/ CheckDatabase \/ RemoveFinalizer
  <2>1. w.step # "idle" /\ UNCHANGED crSeen /\ (Retry \/ Done \/ MovesOn)
    BY <1>8, StepsMoveOn
  <2>2. CASE Done
    BY <2>1, <2>2 DEF Done, WorkerSum, QueueSum, InformerSum
  <2>3. CASE MovesOn
    BY <2>3 DEF MovesOn, WorkerSum, QueueSum, InformerSum
  <2> QED  BY <1>7, <2>1, <2>2, <2>3
<1>9. CASE ApiError
  BY <1>7, <1>9 DEF ApiError
<1>10. CASE Crash
  <2>1. /\ w' = Idle /\ UNCHANGED cr /\ crSeen' = [t \in Tenants |-> Len(cr[t])]
        /\ queue' \subseteq {<<"tenant", t>> : t \in {u \in Tenants : Listed(Latest(cr[u]))}}
                           \cup {<<"pod-event", t>> : t \in Tenants}
    BY <1>10 DEF Crash
  <2>2. \A t \in Tenants : <<"tenant", t>> \in queue' => Listed(Latest(cr[t]))
    <3> SUFFICES ASSUME NEW t \in Tenants, <<"tenant", t>> \in queue' PROVE Listed(Latest(cr[t]))
      OBVIOUS
    <3>1. \A u \in Tenants : <<"tenant", t>> # <<"pod-event", u>>
      OBVIOUS
    <3>2. \A u \in Tenants : <<"tenant", t>> = <<"tenant", u>> => t = u
      OBVIOUS
    <3> QED  BY <2>1, <3>1, <3>2
  <2> QED  BY <2>1, <2>2 DEF WorkerSum, QueueSum, InformerSum
<1> QED  BY <1>2, <1>3, <1>4, <1>5, <1>6, <1>8, <1>9, <1>10, NextCases

-----------------------------------------------------------------------------
(* The invariant is kept *)

\* How far the informer is, and what the histories say of it.
LEMMA SeenFacts ==
    ASSUME SafetyInv, NEW t \in Tenants
    PROVE  /\ crSeen[t] \in Nat \ {0} /\ Len(cr[t]) \in Nat \ {0} /\ crSeen[t] <= Len(cr[t])
           /\ CachedTenant(t) \in TenantEnvironment /\ Latest(cr[t]) \in TenantEnvironment
           /\ \A i \in 1 .. Len(cr[t]) : cr[t][i] \in TenantEnvironment
           /\ \A i \in 1 .. Len(cr[t]) :
                LifeRank[cr[t][i].life] <= LifeRank[Latest(cr[t]).life]
<1>1. TypeOK /\ HistoryOK
  BY DEF SafetyInv
<1>2. \A i \in 1 .. Len(cr[t]) : cr[t][i] \in TenantEnvironment /\ NeverGoesBack(cr[t][i], Latest(cr[t]))
  BY <1>1, Versions
<1>3. \A i \in 1 .. Len(cr[t]) : LifeRank[cr[t][i].life] <= LifeRank[Latest(cr[t]).life]
  BY <1>2 DEF NeverGoesBack
<1> QED  BY <1>1, <1>2, <1>3, LatestTyped DEF TypeOK, TenantsTyped

\* While the TenantEnvironment is live no version is marked for deletion, and
\* while it is not gone none is gone.
LEMMA LifeOrder ==
    ASSUME SafetyInv, NEW t \in Tenants, NEW i \in 1 .. Len(cr[t])
    PROVE  /\ Latest(cr[t]).life = "live" => cr[t][i].life \notin {"deleting", "gone"}
           /\ Latest(cr[t]).life # "gone" => cr[t][i].life # "gone"
<1>1. /\ cr[t][i] \in TenantEnvironment /\ Latest(cr[t]) \in TenantEnvironment
      /\ LifeRank[cr[t][i].life] <= LifeRank[Latest(cr[t]).life]
  BY SeenFacts
<1>2. LifeRank["live"] = 1
  BY DEF LifeRank
<1> QED  BY <1>1, <1>2, RankFacts

\* A reconcile that takes a tenant down: the cache shows the deletion, and so
\* does the API server.
LEMMA TakingDown ==
    ASSUME LifecycleInv, w.step \in DeletingSteps
    PROVE  /\ w.tenant \in Tenants /\ w.rv \in 1 .. Len(cr[w.tenant]) /\ w.rv <= crSeen[w.tenant]
           /\ Latest(cr[w.tenant]).life = "deleting" /\ CachedTenant(w.tenant).life = "deleting"
           /\ Latest(cr[w.tenant]).finalizer
<1>1. SafetyInv /\ w.step # "idle"
  BY DEF LifecycleInv, DeletingSteps
<1>2. /\ Copy.life = "deleting" /\ w.rv <= crSeen[w.tenant]
      /\ Copy.finalizer /\ Latest(cr[w.tenant]).life # "gone"
  BY DEF LifecycleInv, SafetyInv, WorkerOK, CopyInv
<1>3. /\ w.tenant \in Tenants /\ w.rv \in 1 .. Len(cr[w.tenant]) /\ Copy \in TenantEnvironment
      /\ NeverGoesBack(Copy, Latest(cr[w.tenant]))
  BY <1>1, CopyFacts
<1>4. /\ crSeen[w.tenant] \in w.rv .. Len(cr[w.tenant]) /\ crSeen[w.tenant] \in 1 .. Len(cr[w.tenant])
      /\ CachedTenant(w.tenant) \in TenantEnvironment /\ Latest(cr[w.tenant]) \in TenantEnvironment
  BY <1>1, <1>2, <1>3, SeenFacts
<1>5. NeverGoesBack(Copy, CachedTenant(w.tenant))
  BY <1>1, <1>3, <1>4, Versions DEF SafetyInv, Copy, CachedTenant
<1>6. LifeRank["deleting"] = 2
  BY DEF LifeRank
<1>7. Latest(cr[w.tenant]).life = "deleting"
  BY <1>2, <1>3, <1>4, <1>6, RankFacts DEF NeverGoesBack
<1>8. CachedTenant(w.tenant).life \in {"deleting", "gone"}
  BY <1>2, <1>4, <1>5, <1>6, RankFacts DEF NeverGoesBack
<1>9. CachedTenant(w.tenant).life # "gone"
  BY <1>1, <1>2, <1>3, <1>4, LifeOrder DEF CachedTenant
<1>10. Latest(cr[w.tenant]).finalizer
  BY <1>2, <1>3 DEF NeverGoesBack
<1> QED  BY <1>2, <1>3, <1>7, <1>8, <1>9, <1>10

\* The finalizer is there before the database is asked for and stays until the end.
LEMMA HeldStep ==
    ASSUME LifecycleInv, CrSum, WriteSum
    PROVE  HeldInv'
<1> SUFFICES ASSUME NEW t \in Tenants, Requested(Latest(cr'[t])), Latest(cr'[t]).life # "gone"
             PROVE  Latest(cr'[t]).finalizer
  BY DEF HeldInv
<1>1. SafetyInv /\ HeldInv
  BY DEF LifecycleInv
<1>2. /\ NeverGoesBack(Latest(cr[t]), Latest(cr'[t]))
      /\ Latest(cr[t]) \in TenantEnvironment /\ Latest(cr'[t]) \in TenantEnvironment
  BY <1>1, HistoryStep, LatestTyped DEF SafetyInv
<1>3. Latest(cr[t]).life # "gone"
  BY <1>2, RankFacts DEF NeverGoesBack
<1>4. CASE Requested(Latest(cr[t]))
  BY <1>1, <1>2, <1>3, <1>4 DEF HeldInv, NeverGoesBack
<1>5. CASE Asks(t)
  <2>1. w.step \in CreatingSteps /\ w.tenant = t
    BY <1>1, <1>5, DatabaseAsked DEF Asks, CreatingSteps
  <2>2. Latest(cr[t]).finalizer
    BY <1>1, <2>1, CreatingHolds
  <2> QED  BY <1>2, <2>2 DEF NeverGoesBack
<1> QED  BY <1>4, <1>5 DEF WriteSum

\* Nothing but its own last step removes a tenant that is being taken down.
LEMMA TakingDownStays ==
    ASSUME LifecycleInv, WriteSum, w.step \in DeletingSteps, w' # Idle
    PROVE  Latest(cr'[w.tenant]).life # "gone"
<1>1. /\ w.tenant \in Tenants /\ Latest(cr[w.tenant]).life = "deleting"
      /\ Latest(cr[w.tenant]).finalizer
  BY TakingDown
<1>2. ~Ends(w.tenant)
  BY <1>1 DEF Ends, Done
<1> QED  BY <1>1, <1>2 DEF WriteSum

\* A reconcile starts from the cached version, which decides what it does.
LEMMA StartCopies ==
    ASSUME LifecycleInv, NEW t \in Tenants, StartReconcile(t)
    PROVE  CopyInv'
<1> DEFINE c == CachedTenant(t)
<1>1. /\ UNCHANGED <<cr, crSeen>> /\ <<"tenant", t>> \in queue
      /\ w' = IF FirstStep(c) = "idle" THEN Idle
              ELSE [step |-> FirstStep(c), tenant |-> t, rv |-> crSeen[t], dv |-> 0]
  BY DEF StartReconcile, Take
<1>2. CASE FirstStep(c) = "idle"
  BY <1>1, <1>2 DEF CopyInv, Idle, DeletingSteps
<1>3. CASE FirstStep(c) # "idle"
  <2>1. w'.step = FirstStep(c) /\ w'.tenant = t /\ w'.rv = crSeen[t]
    BY <1>1, <1>3
  <2>2. Copy' = c
    BY <1>1, <2>1 DEF Copy, CachedTenant
  <2>3. FirstStep(c) = "namespace" => c.life = "live"
    BY DEF FirstStep
  <2>4. FirstStep(c) = "deletePostgreSQL" => c.life = "deleting" /\ c.finalizer
    BY DEF FirstStep
  <2>5. FirstStep(c) \in {"deletePostgreSQL", "namespace", "addFinalizer", "setCreatedAt", "idle"}
    BY DEF FirstStep
  <2>6. c.life = "deleting" => Latest(cr[t]).life # "gone"
    BY <1>1 DEF LifecycleInv, NotTakenAgain
  <2> HIDE DEF c
  <2> QED  BY <1>1, <2>1, <2>2, <2>3, <2>4, <2>5, <2>6 DEF CopyInv, DeletingSteps
<1> QED  BY <1>2, <1>3

\* The copy stays what it was while the reconcile goes on.
LEMMA CopyStep ==
    ASSUME LifecycleInv, CrSum, WriteSum, WorkerSum
    PROVE  CopyInv'
<1>1. SafetyInv /\ CopyInv
  BY DEF LifecycleInv
<1>2. CASE w' = Idle
  BY <1>2 DEF CopyInv, Idle, DeletingSteps
<1>3. CASE w' = w /\ w.step # "idle"
  <2>1. w.tenant \in Tenants /\ w.rv \in 1 .. Len(cr[w.tenant])
    BY <1>1, <1>3, CopyFacts
  <2>2. Copy' = Copy
    BY <1>1, <1>3, <2>1, HistoryStep DEF SafetyInv, Copy
  <2>3. w.step \in DeletingSteps => w' # Idle
    BY <1>3 DEF Idle
  <2>4. w.step \in DeletingSteps => Latest(cr'[w.tenant]).life # "gone"
    BY <2>3, TakingDownStays
  <2> QED  BY <1>1, <1>3, <2>2, <2>4 DEF CopyInv
<1>4. CASE w' = w /\ w.step = "idle"
  BY <1>4 DEF CopyInv, DeletingSteps
<1>5. CASE MovesOn
  <2>1. CASE w'.step \in {"quota", "database"} \cup DeletingSteps
    <3>1. UNCHANGED cr /\ w'.rv = w.rv /\ w'.tenant = w.tenant
      BY <1>5, <2>1 DEF MovesOn
    <3>2. Copy' = Copy
      BY <3>1 DEF Copy
    <3>3. w'.step \in {"quota", "database"} => w.step \in {"namespace", "quota"}
      BY <1>5 DEF MovesOn
    <3>4. w'.step \in DeletingSteps => w.step \in DeletingSteps
      BY <1>5 DEF MovesOn
    <3>5. w'.step \in {"namespace", "quota", "database"} => Copy'.life = "live"
      BY <1>1, <1>5, <3>2, <3>3 DEF CopyInv, MovesOn
    <3>6. w'.step \in DeletingSteps => Copy'.finalizer /\ Latest(cr'[w'.tenant]).life # "gone"
      BY <1>1, <3>1, <3>2, <3>4 DEF CopyInv
    <3> QED  BY <3>5, <3>6 DEF CopyInv
  <2>2. CASE w'.step \notin {"quota", "database"} \cup DeletingSteps
    BY <1>5, <2>2 DEF MovesOn, CopyInv
  <2> QED  BY <2>1, <2>2
<1>6. ASSUME NEW t \in Tenants, StartReconcile(t) PROVE CopyInv'
  BY <1>6, StartCopies
<1>7. ASSUME NEW t \in Tenants, StartPodEvent(t) PROVE CopyInv'
  <2>1. w' = Idle \/ w'.step = "markReady"
    BY <1>7 DEF StartPodEvent, Take
  <2> QED  BY <1>2, <2>1 DEF CopyInv, DeletingSteps
<1> QED  BY <1>2, <1>3, <1>4, <1>5, <1>6, <1>7 DEF WorkerSum

\* What a step that ends a TenantEnvironment finds.
LEMMA EndFacts ==
    ASSUME LifecycleInv, NEW t \in Tenants, Ends(t)
    PROVE  \/ /\ w.step = "removeFinalizer" /\ w.tenant = t /\ w.rv = Len(cr[t])
              /\ crSeen[t] = Len(cr[t]) /\ UNCHANGED <<crSeen, queue>> /\ w' = Idle
           \/ /\ Latest(cr[t]).life = "live" /\ UNCHANGED <<crSeen, queue, w>>
<1>1. CASE RemoveFinalizer /\ w.tenant = t /\ w.rv = Len(cr[t]) /\ Done
  <2>1. w.step = "removeFinalizer" /\ w.step \in DeletingSteps
    BY <1>1 DEF RemoveFinalizer, StepOf, DeletingSteps
  <2>2. w.rv <= crSeen[t] /\ crSeen[t] <= Len(cr[t]) /\ crSeen[t] \in Nat /\ Len(cr[t]) \in Nat
    BY <1>1, <2>1, TakingDown, SeenFacts DEF LifecycleInv
  <2> QED  BY <1>1, <2>1, <2>2 DEF RemoveFinalizer, StepOf, Done
<1>2. CASE DeleteTenant(t)
  BY <1>2 DEF DeleteTenant, Write
<1> QED  BY <1>1, <1>2 DEF Ends

\* The marked version is delivered before the reconcile that removes the
\* finalizer starts from it, and nothing marks a TenantEnvironment twice.
LEMMA GoneStep ==
    ASSUME LifecycleInv, SafetyInv', CrSum, SeenSum, WriteSum
    PROVE  GoneIsLast'
<1> SUFFICES ASSUME NEW t \in Tenants, Latest(cr'[t]).life = "gone",
                    NEW i \in (crSeen'[t] + 1) .. Len(cr'[t]),
                    cr'[t][i].life = "deleting"
             PROVE  FALSE
  BY DEF GoneIsLast
<1>1. SafetyInv /\ GoneIsLast
  BY DEF LifecycleInv
<1>2. /\ crSeen[t] \in Nat \ {0} /\ Len(cr[t]) \in Nat \ {0} /\ crSeen[t] <= Len(cr[t])
      /\ crSeen'[t] \in Nat \ {0} /\ crSeen[t] <= crSeen'[t]
      /\ \A j \in 1 .. Len(cr[t]) : cr'[t][j] = cr[t][j]
      /\ Latest(cr[t]) \in TenantEnvironment
  BY <1>1, SeenFacts, HistoryStep DEF SafetyInv, SeenSum, TypeOK, TenantsTyped
<1>3. Len(cr'[t]) = Len(cr[t]) \/ (Len(cr'[t]) = Len(cr[t]) + 1)
  <2>1. CASE UNCHANGED cr
    BY <2>1
  <2>2. ASSUME NEW u \in Tenants, NEW v \in TenantEnvironment, Grows(u, v)
        PROVE  Len(cr'[t]) = Len(cr[t]) \/ (Len(cr'[t]) = Len(cr[t]) + 1)
    BY <1>1, <2>2, GrowsHistory DEF SafetyInv
  <2> QED  BY <2>1, <2>2 DEF CrSum
<1>4. i \in 1 .. Len(cr[t])
  <2>1. i # Len(cr'[t])
    BY DEF Latest
  <2> QED  BY <1>2, <1>3, <2>1
<1>5. cr[t][i].life = "deleting"
  BY <1>2, <1>4
<1>6. CASE Latest(cr[t]).life = "gone"
  <2>1. i \in (crSeen[t] + 1) .. Len(cr[t])
    BY <1>2, <1>4
  <2> QED  BY <1>1, <1>5, <1>6, <2>1 DEF GoneIsLast
<1>7. CASE Ends(t)
  <2>1. CASE crSeen[t] = Len(cr[t])
    BY <1>2, <1>4, <2>1
  <2>2. CASE Latest(cr[t]).life = "live"
    BY <1>1, <1>4, <1>5, <2>2, LifeOrder
  <2> QED  BY <1>7, <2>1, <2>2, EndFacts
<1> QED  BY <1>6, <1>7 DEF WriteSum

\* A request that comes in during a deletion comes from a delivered version.
LEMMA NewerStep ==
    ASSUME LifecycleInv, SafetyInv', SeenSum, WorkerSum, QueueSum
    PROVE  NewerInQueue'
<1> SUFFICES ASSUME w'.step \in DeletingSteps, <<"tenant", w'.tenant>> \in queue'
             PROVE  w'.rv < crSeen'[w'.tenant]
  BY DEF NewerInQueue
<1>1. w' # Idle
  BY DEF Idle, DeletingSteps
<1>2. ASSUME w.step \in DeletingSteps, w'.tenant = w.tenant, w'.rv = w.rv,
             <<"tenant", w.tenant>> \in queue
      PROVE  w'.rv < crSeen'[w'.tenant]
  <2>1. w.tenant \in Tenants /\ w.rv \in Nat /\ crSeen[w.tenant] \in Nat
    BY <1>2, TakingDown, SeenFacts DEF LifecycleInv
  <2>2. w.rv < crSeen[w.tenant]
    BY <1>2 DEF LifecycleInv, NewerInQueue
  <2>3. crSeen[w.tenant] <= crSeen'[w.tenant] /\ crSeen'[w.tenant] \in Nat
    BY <2>1 DEF SeenSum, SafetyInv, TypeOK, TenantsTyped
  <2> QED  BY <1>2, <2>1, <2>2, <2>3
<1>3. CASE w' = w
  <2>1. CASE <<"tenant", w.tenant>> \in queue
    BY <1>2, <1>3, <2>1
  <2>2. CASE <<"tenant", w.tenant>> \notin queue
    <3>1. w.tenant \in Tenants /\ w.rv <= crSeen[w.tenant] /\ w.rv \in Nat /\ crSeen[w.tenant] \in Nat
      BY <1>3, TakingDown, SeenFacts DEF LifecycleInv
    <3>2. crSeen'[w.tenant] = crSeen[w.tenant] + 1
      BY <1>1, <1>3, <2>2, <3>1 DEF QueueSum
    <3> QED  BY <1>3, <3>1, <3>2
  <2> QED  BY <2>1, <2>2
<1>4. CASE MovesOn
  BY <1>2, <1>4 DEF MovesOn
<1>5. ASSUME NEW t \in Tenants, StartReconcile(t) PROVE FALSE
  <2>1. w'.tenant = t /\ queue' = queue \ {<<"tenant", t>>}
    BY <1>1, <1>5 DEF StartReconcile, Take
  <2> QED  BY <2>1
<1>6. ASSUME NEW t \in Tenants, StartPodEvent(t) PROVE FALSE
  BY <1>1, <1>6 DEF StartPodEvent, Take, DeletingSteps
<1> QED  BY <1>1, <1>3, <1>4, <1>5, <1>6 DEF WorkerSum

\* The finalizer was removed from the newest version, so that no request for an
\* older one is left.
LEMMA NotTakenStep ==
    ASSUME LifecycleInv, SafetyInv', CrSum, SeenSum, WriteSum, WorkerSum, QueueSum, InformerSum
    PROVE  NotTakenAgain'
<1> SUFFICES ASSUME NEW t \in Tenants,
                    Latest(cr'[t]).life = "gone", cr'[t][crSeen'[t]].life = "deleting"
             PROVE  /\ <<"tenant", t>> \notin queue'
                    /\ w'.tenant = t => w'.step \in {"idle", "markReady"}
  BY DEF NotTakenAgain, CachedTenant
<1>1. SafetyInv /\ GoneIsLast /\ NotTakenAgain
  BY DEF LifecycleInv
<1>2. /\ crSeen[t] \in Nat \ {0} /\ Len(cr[t]) \in Nat \ {0} /\ crSeen[t] <= Len(cr[t])
      /\ \A j \in 1 .. Len(cr[t]) : cr'[t][j] = cr[t][j]
  BY <1>1, SeenFacts, HistoryStep DEF SafetyInv
<1>3. Idle.tenant # t /\ Idle.step = "idle"
  BY NoneAssumption DEF Idle
<1>4. CASE Latest(cr[t]).life = "gone"
  <2>1. crSeen'[t] = crSeen[t]
    <3>1. ASSUME UNCHANGED cr, crSeen'[t] = crSeen[t] + 1, crSeen[t] < Len(cr[t]) PROVE FALSE
      <4>1. crSeen[t] + 1 \in (crSeen[t] + 1) .. Len(cr[t])
        BY <1>2, <3>1
      <4> QED  BY <1>1, <1>4, <3>1, <4>1 DEF GoneIsLast
    <3>2. ASSUME UNCHANGED cr, crSeen'[t] = Len(cr[t]) PROVE FALSE
      BY <1>4, <3>2 DEF Latest
    <3> QED  BY <3>1, <3>2 DEF InformerSum
  <2>2. CachedTenant(t).life = "deleting"
    BY <1>2, <2>1 DEF CachedTenant
  <2>3. <<"tenant", t>> \notin queue /\ (w.tenant = t => w.step \in {"idle", "markReady"})
    BY <1>1, <1>4, <2>2 DEF NotTakenAgain
  <2>4. <<"tenant", t>> \notin queue'
    <3>1. crSeen'[t] # crSeen[t] + 1
      BY <1>2, <2>1
    <3>2. ~Listed(Latest(cr[t]))
      BY <1>4 DEF Listed
    <3> QED  BY <2>3, <3>1, <3>2 DEF QueueSum
  <2>5. ASSUME w'.tenant = t PROVE w'.step \in {"idle", "markReady"}
    <3>1. CASE w' = w
      BY <2>3, <2>5, <3>1
    <3>2. CASE w' = Idle
      BY <1>3, <3>2
    <3>3. ~MovesOn
      BY <2>3, <2>5 DEF MovesOn
    <3>4. ASSUME NEW u \in Tenants, StartReconcile(u) PROVE w'.step \in {"idle", "markReady"}
      <4>1. w' = Idle \/ (w'.tenant = u /\ <<"tenant", u>> \in queue)
        BY <3>4 DEF StartReconcile, Take
      <4> QED  BY <1>3, <2>3, <2>5, <4>1
    <3>5. ASSUME NEW u \in Tenants, StartPodEvent(u) PROVE w'.step \in {"idle", "markReady"}
      BY <1>3, <3>5 DEF StartPodEvent, Take
    <3> QED  BY <3>1, <3>2, <3>3, <3>4, <3>5 DEF WorkerSum
  <2> QED  BY <2>4, <2>5
<1>5. CASE Ends(t)
  <2>1. CASE /\ w.step = "removeFinalizer" /\ w.tenant = t /\ w.rv = Len(cr[t])
             /\ crSeen[t] = Len(cr[t]) /\ UNCHANGED <<crSeen, queue>> /\ w' = Idle
    <3>1. <<"tenant", t>> \in queue => w.rv < crSeen[t]
      BY <2>1 DEF LifecycleInv, NewerInQueue, DeletingSteps
    <3> QED  BY <1>2, <1>3, <2>1, <3>1
  <2>2. CASE Latest(cr[t]).life = "live" /\ UNCHANGED <<crSeen, queue, w>>
    <3>1. crSeen[t] \in 1 .. Len(cr[t]) /\ cr[t][crSeen[t]].life = "deleting"
      BY <1>2, <2>2
    <3> QED  BY <1>1, <2>2, <3>1, LifeOrder
  <2> QED  BY <1>5, <2>1, <2>2, EndFacts
<1> QED  BY <1>4, <1>5 DEF WriteSum

\* The invariant holds at first.
LEMMA LifecycleInit == Init => LifecycleInv
<1> SUFFICES ASSUME Init PROVE LifecycleInv
  OBVIOUS
<1>1. SafetyInv
  BY SafetyInit
<1>2. \A t \in Tenants : Len(cr[t]) = 1 /\ cr[t][1] = AbsentTenant /\ Latest(cr[t]) = AbsentTenant
  BY DEF Init, Latest
<1>3. AbsentTenant.life = "absent" /\ ~Requested(AbsentTenant)
  BY DEF AbsentTenant, Requested
<1>4. w.step = "idle"
  BY DEF Init, Idle
<1> QED  BY <1>1, <1>2, <1>3, <1>4
         DEF LifecycleInv, HeldInv, CopyInv, GoneIsLast, NewerInQueue, NotTakenAgain, DeletingSteps

\* Every step keeps the invariant.
LEMMA LifecycleNext == LifecycleInv /\ [Next]_vars => LifecycleInv'
<1> SUFFICES ASSUME LifecycleInv, [Next]_vars PROVE LifecycleInv'
  OBVIOUS
<1>1. SafetyInv /\ SafetyInv'
  BY SafetyNext DEF LifecycleInv
<1>2. CrSum /\ SeenSum /\ WriteSum /\ WorkerSum /\ QueueSum /\ InformerSum
  BY <1>1, StepSums, WritesSum, QueueSums
<1> QED  BY <1>1, <1>2, HeldStep, CopyStep, GoneStep, NewerStep, NotTakenStep DEF LifecycleInv

\* The invariant holds in every state.
LEMMA LifecycleAlways == Spec => []LifecycleInv
BY LifecycleInit, LifecycleNext, PTL DEF Spec

-----------------------------------------------------------------------------
(* The stages and the call of a state *)

\* The reconcile that is running has released the database of tenant t.
Releasing(t) == w.tenant = t /\ w.step \in ReleasedSteps

\* The cache shows the deletion of tenant t.
Closing(t) == CachedTenant(t).life = "deleting"

StagesAre ==
    /\ \A t \in Tenants : Stage[t] = StageOf(t)
    /\ \A t \in Tenants :
        StageOf(t) = IF Latest(cr[t]).life = "gone" THEN "gone"
                     ELSE IF Releasing(t) THEN "released"
                     ELSE IF Closing(t) THEN "closing"
                     ELSE IF Requested(Latest(cr[t])) THEN "asked" ELSE "new"
    /\ Stage = [t \in Tenants |-> StageOf(t)]

\* StageOf in terms of Releasing and Closing, before a step.
LEMMA StagesNow == StagesAre
BY DEF StagesAre, Stage, StageOf, Releasing, Closing

\* The same after the step.
LEMMA StagesNext == StagesAre'
BY StagesNow, PTL

\* The worker makes no call in the other steps.
LEMMA CallIs ==
    /\ w.step = "createPostgreSQL" => DatabaseCall = <<"create", w.tenant>>
    /\ w.step = "deletePostgreSQL" => DatabaseCall = <<"delete", w.tenant>>
    /\ w.step \notin {"createPostgreSQL", "deletePostgreSQL"} => DatabaseCall = None
BY DEF DatabaseCall

\* A tenant nothing is done to keeps its stage.
SameStage(t) ==
    /\ SameTenant(t)
    /\ Releasing(t)' <=> Releasing(t)
    /\ Closing(t)' <=> Closing(t)

\* A tenant with the same facts is in the same stage.
LEMMA StageKept ==
    ASSUME NEW t \in Tenants, SameStage(t)
    PROVE  Stage'[t] = Stage[t]
BY StagesNow, StagesNext DEF StagesAre, SameStage, SameTenant

\* All of them are.
LEMMA StagesKept ==
    ASSUME \A t \in Tenants : SameStage(t)
    PROVE  UNCHANGED Stage
<1>1. \A t \in Tenants : StageOf(t)' = StageOf(t)
  BY StageKept, StagesNow, StagesNext DEF StagesAre
<1> QED  BY <1>1, StagesNow, StagesNext DEF StagesAre

\* One tenant moves.
LEMMA StageMoved ==
    ASSUME NEW t \in Tenants, NEW s, Stage'[t] = s,
           \A u \in Tenants \ {t} : SameStage(u)
    PROVE  Stage' = [Stage EXCEPT ![t] = s]
<1>1. \A u \in Tenants \ {t} : StageOf(u)' = StageOf(u)
  BY StageKept, StagesNow, StagesNext DEF StagesAre
<1>2. StageOf(t)' = s
  BY StagesNext DEF StagesAre
<1> QED  BY <1>1, <1>2, StagesNow, StagesNext DEF StagesAre

\* The cache shows what it showed while the informer rests.
LEMMA CacheKept ==
    ASSUME SafetyInv, CrSum, NEW t \in Tenants, crSeen'[t] = crSeen[t]
    PROVE  Closing(t)' <=> Closing(t)
<1>1. crSeen[t] \in 1 .. Len(cr[t])
  BY DEF SafetyInv, TypeOK, TenantsTyped
<1>2. cr'[t][crSeen[t]] = cr[t][crSeen[t]]
  BY <1>1, HistoryStep DEF SafetyInv
<1> QED  BY <1>2 DEF Closing, CachedTenant

\* A step that leaves the caches alone and does not change who is releasing.
LEMMA RestKept ==
    ASSUME SafetyInv, CrSum, UNCHANGED crSeen, NEW t \in Tenants, SameTenant(t),
           Releasing(t)' <=> Releasing(t)
    PROVE  SameStage(t)
BY CacheKept DEF SameStage

\* Nothing was written.
LEMMA SameWhenUnchanged == ASSUME NEW t \in Tenants, cr'[t] = cr[t] PROVE SameTenant(t)
BY DEF SameTenant

-----------------------------------------------------------------------------
(* Every step is one of TenantLifecycle *)

LifecycleStep == Lifecycle!Next \/ UNCHANGED <<Stage, DatabaseCall>>

\* Users: a TenantEnvironment without the finalizer may end at once.
LEMMA UsersRefine ==
    ASSUME LifecycleInv, CrSum, NEW t \in Tenants,
           CreateTenant(t) \/ EditSpec(t) \/ DeleteTenant(t)
    PROVE  LifecycleStep
<1>1. SafetyInv /\ UNCHANGED <<crSeen, w>>
  BY DEF LifecycleInv, CreateTenant, EditSpec, DeleteTenant, Write
<1>2. UNCHANGED DatabaseCall /\ \A u \in Tenants : Releasing(u)' <=> Releasing(u)
  BY <1>1 DEF DatabaseCall, Releasing
<1>3. \A u \in Tenants : SameTenant(u) => SameStage(u)
  BY <1>1, <1>2, RestKept
<1>4. ASSUME \A u \in Tenants : SameTenant(u) PROVE LifecycleStep
  BY <1>2, <1>3, <1>4, StagesKept DEF LifecycleStep
<1>5. CASE DeleteTenant(t)
  <2>1. /\ Latest(cr[t]).life = "live"
        /\ Latest(cr'[t]).life = "gone" <=> ~Latest(cr[t]).finalizer
        /\ Requested(Latest(cr'[t])) <=> Requested(Latest(cr[t]))
        /\ \A u \in Tenants \ {t} : cr'[u] = cr[u]
    BY <1>1, <1>5, UserDeletes
  <2>2. \A u \in Tenants \ {t} : SameTenant(u)
    BY <2>1, SameWhenUnchanged
  <2>3. CASE Latest(cr[t]).finalizer
    <3>1. SameTenant(t)
      BY <2>1, <2>3 DEF SameTenant
    <3> QED  BY <1>4, <2>2, <3>1
  <2>4. CASE ~Latest(cr[t]).finalizer
    <3>1. ~Requested(Latest(cr[t]))
      BY <2>1, <2>4 DEF LifecycleInv, HeldInv
    <3>2. ~Closing(t)
      <4>1. crSeen[t] \in 1 .. Len(cr[t])
        BY <1>1 DEF SafetyInv, TypeOK, TenantsTyped
      <4> QED  BY <1>1, <2>1, <4>1, LifeOrder DEF Closing, CachedTenant
    <3>3. w.tenant = t => w.step \notin DeletingSteps
      BY <2>1, TakingDown
    <3>4. w.tenant = t => w.step \notin CreatingSteps
      BY <1>1, <2>4, CreatingHolds
    <3>5. ~Releasing(t) /\ (w.tenant = t => w.step \notin {"createPostgreSQL", "deletePostgreSQL"})
      BY <3>3, <3>4 DEF Releasing, ReleasedSteps, DeletingSteps, CreatingSteps
    <3>6. Stage[t] = "new"
      BY <2>1, <3>1, <3>2, <3>5, StagesNow DEF StagesAre
    <3>7. Stage'[t] = "gone"
      BY <2>1, <2>4, StagesNext DEF StagesAre
    <3>8. DatabaseCall \notin {<<"create", t>>, <<"delete", t>>}
      BY <3>5, CallIs, NoneAssumption
    <3>9. Stage' = [Stage EXCEPT ![t] = "gone"]
      BY <1>3, <2>2, <3>7, StageMoved
    <3>10. Lifecycle!End(t)
      BY <1>2, <3>6, <3>8, <3>9 DEF Lifecycle!End, Lifecycle!MoveTo
    <3> QED  BY <3>10 DEF Lifecycle!Next, LifecycleStep
  <2> QED  BY <2>3, <2>4
<1> QED  BY <1>1, <1>4, <1>5, QuietUsers

\* A reconcile starts: it takes the tenant down, or no call is made yet.
LEMMA StartRefines ==
    ASSUME LifecycleInv, NEW t \in Tenants, StartReconcile(t) \/ StartPodEvent(t)
    PROVE  LifecycleStep
<1>1. /\ SafetyInv /\ UNCHANGED <<cr, crSeen>> /\ w.step = "idle"
      /\ \E step : w' = IF step = "idle" THEN Idle
                        ELSE [step |-> step, tenant |-> t, rv |-> crSeen[t], dv |-> 0]
  BY DEF LifecycleInv, StartReconcile, StartPodEvent, Take
<1>2. w'.step \in {"deletePostgreSQL", "namespace", "addFinalizer", "setCreatedAt", "idle", "markReady"}
  <2>1. CASE StartReconcile(t)
    <3>1. FirstStep(CachedTenant(t)) \in {"deletePostgreSQL", "namespace", "addFinalizer", "setCreatedAt", "idle"}
      BY DEF FirstStep
    <3> QED  BY <2>1, <3>1 DEF StartReconcile, Take, Idle
  <2>2. CASE StartPodEvent(t)
    BY <2>2 DEF StartPodEvent, Take, Idle
  <2> QED  BY <2>1, <2>2
<1>3. \A u \in Tenants : SameStage(u)
  <2>1. \A u \in Tenants : ~Releasing(u) /\ ~Releasing(u)'
    BY <1>1, <1>2 DEF Releasing, ReleasedSteps
  <2> QED  BY <1>1, <2>1 DEF SameStage, SameTenant, Closing, CachedTenant
<1>4. UNCHANGED Stage
  BY <1>3, StagesKept
<1>5. DatabaseCall = None
  BY <1>1, CallIs
<1>6. CASE w'.step # "deletePostgreSQL"
  <2>1. DatabaseCall' = None
    BY <1>2, <1>6 DEF DatabaseCall
  <2> QED  BY <1>4, <1>5, <2>1 DEF LifecycleStep
<1>7. CASE w'.step = "deletePostgreSQL"
  <2>1. w'.tenant = t
    BY <1>1, <1>7 DEF Idle
  <2>2. DatabaseCall' = <<"delete", t>>
    BY <1>7, <2>1 DEF DatabaseCall
  <2>3. StartReconcile(t) /\ FirstStep(CachedTenant(t)) = "deletePostgreSQL"
    <3>1. ~StartPodEvent(t)
      BY <1>7 DEF StartPodEvent, Take, Idle
    <3> QED  BY <1>7, <3>1 DEF StartReconcile, Take, Idle
  <2>4. Closing(t) /\ <<"tenant", t>> \in queue
    BY <2>3 DEF FirstStep, Closing, StartReconcile, Take
  <2>5. Latest(cr[t]).life # "gone" /\ ~Releasing(t)
    BY <1>1, <2>4 DEF LifecycleInv, NotTakenAgain, Closing, Releasing, ReleasedSteps
  <2>6. Stage[t] = "closing"
    BY <2>4, <2>5, StagesNow DEF StagesAre
  <2>7. Stage' = [Stage EXCEPT ![t] = "closing"]
    <3>1. Stage'[t] = "closing"
      BY <1>4, <2>6
    <3> QED  BY <1>3, <3>1, StageMoved
  <2>8. Lifecycle!BeginDelete(t)
    BY <1>5, <2>2, <2>6, <2>7 DEF Lifecycle!BeginDelete, Lifecycle!MoveTo
  <2> QED  BY <2>8 DEF Lifecycle!Next, LifecycleStep
<1> QED  BY <1>6, <1>7

\* The informer reports the deletion, or something else.
LEMMA InformerRefines ==
    ASSUME LifecycleInv, NEW t \in Tenants, DeliverTenant(t)
    PROVE  LifecycleStep
<1>1. SafetyInv /\ UNCHANGED <<cr, w>> /\ crSeen[t] < Len(cr[t])
      /\ crSeen' = [crSeen EXCEPT ![t] = @ + 1] /\ crSeen \in [Tenants -> Nat]
  BY DEF LifecycleInv, DeliverTenant, SafetyInv, TypeOK, TenantsTyped
<1>2. crSeen'[t] = crSeen[t] + 1 /\ \A u \in Tenants \ {t} : crSeen'[u] = crSeen[u]
  BY <1>1
<1>3. UNCHANGED DatabaseCall /\ \A u \in Tenants : (Releasing(u)' <=> Releasing(u)) /\ SameTenant(u)
  BY <1>1 DEF DatabaseCall, Releasing, SameTenant
<1>4. \A u \in Tenants \ {t} : SameStage(u)
  BY <1>1, <1>2, <1>3 DEF SameStage, Closing, CachedTenant
<1>5. crSeen[t] \in 1 .. Len(cr[t]) /\ crSeen[t] + 1 \in 1 .. Len(cr[t])
      /\ crSeen[t] + 1 \in crSeen[t] .. Len(cr[t])
  BY <1>1, SeenFacts
<1>6. Latest(cr[t]).life # "gone" /\ Closing(t) => Closing(t)'
  <2> SUFFICES ASSUME Latest(cr[t]).life # "gone", Closing(t) PROVE Closing(t)'
    OBVIOUS
  <2> DEFINE old == cr[t][crSeen[t]]
             new == cr[t][crSeen[t] + 1]
  <2>1. /\ NeverGoesBack(old, new) /\ old \in TenantEnvironment /\ new \in TenantEnvironment
    BY <1>1, <1>5, Versions DEF SafetyInv
  <2>2. new.life # "gone"
    BY <1>1, <1>5, LifeOrder
  <2>3. old.life = "deleting"
    BY DEF Closing, CachedTenant
  <2> HIDE DEF old, new
  <2>4. new.life = "deleting"
    BY <2>1, <2>2, <2>3, RankFacts DEF NeverGoesBack
  <2> QED  BY <1>1, <1>2, <2>4 DEF Closing, CachedTenant, new
<1>7. CASE Stage'[t] = Stage[t]
  <2>1. Stage' = [Stage EXCEPT ![t] = Stage[t]]
    BY <1>4, <1>7, StageMoved
  <2>2. UNCHANGED Stage
    BY <2>1, StagesNow DEF StagesAre
  <2> QED  BY <1>3, <2>2 DEF LifecycleStep
<1>8. CASE Stage'[t] # Stage[t]
  <2>1. Stage[t] \in {"new", "asked"} /\ Stage'[t] = "closing"
    BY <1>3, <1>6, <1>8, StagesNow, StagesNext DEF StagesAre, SameTenant
  <2>2. Stage' = [Stage EXCEPT ![t] = "closing"]
    BY <1>4, <2>1, StageMoved
  <2>3. Lifecycle!Close(t)
    BY <1>3, <2>1, <2>2 DEF Lifecycle!Close, Lifecycle!MoveTo
  <2> QED  BY <2>3 DEF Lifecycle!Next, LifecycleStep
<1> QED  BY <1>7, <1>8

\* A step of the worker is no step of the tenants it does not work for.
LEMMA OthersKeepStage ==
    ASSUME SafetyInv, CrSum, UNCHANGED crSeen, w' = Idle \/ w'.tenant = w.tenant,
           NEW u \in Tenants \ {w.tenant}, SameTenant(u)
    PROVE  SameStage(u)
<1>1. Idle.tenant # u
  BY NoneAssumption DEF Idle
<1>2. ~Releasing(u) /\ ~Releasing(u)'
  BY <1>1 DEF Releasing
<1> QED  BY <1>2, RestKept

\* The steps in which a call is under way or a release has been done.
CallSteps == {"createPostgreSQL", "deletePostgreSQL"} \cup ReleasedSteps

\* A step that is neither a call nor part of a release.
LEMMA QuietStepRefines ==
    ASSUME SafetyInv, CrSum, UNCHANGED crSeen, \A u \in Tenants : SameTenant(u),
           w.step \notin CallSteps, w'.step \notin CallSteps
    PROVE  LifecycleStep
<1>1. \A u \in Tenants : ~Releasing(u) /\ ~Releasing(u)'
  BY DEF Releasing, CallSteps
<1>2. UNCHANGED Stage
  BY <1>1, RestKept, StagesKept
<1>3. UNCHANGED DatabaseCall
  BY DEF DatabaseCall, CallSteps
<1> QED  BY <1>2, <1>3 DEF LifecycleStep

\* The stage of a tenant whose database the running reconcile has released.
LEMMA ReleasedStage ==
    ASSUME LifecycleInv, w.step \in ReleasedSteps
    PROVE  w.tenant \in Tenants /\ Stage[w.tenant] = "released" /\ DatabaseCall = None
<1>1. w.step \in DeletingSteps /\ w.step \notin {"createPostgreSQL", "deletePostgreSQL"}
  BY DEF ReleasedSteps, DeletingSteps
<1>2. w.tenant \in Tenants /\ Latest(cr[w.tenant]).life = "deleting"
  BY <1>1, TakingDown
<1>3. Releasing(w.tenant)
  BY DEF Releasing
<1>4. Stage[w.tenant] = "released"
  BY <1>2, <1>3, StagesNow DEF StagesAre
<1> QED  BY <1>1, <1>2, <1>4, CallIs

\* A reconcile ends with nothing written: a call returns, a tenant that was
\* released is to be taken down again, or nothing happens.
LEMMA ReturnRefines ==
    ASSUME LifecycleInv, CrSum, UNCHANGED <<cr, crSeen>>, w.step # "idle", w' = Idle
    PROVE  LifecycleStep
<1>0. PICK t \in Tenants : w.tenant = t
  BY CopyFacts DEF LifecycleInv
<1>1. SafetyInv
  BY DEF LifecycleInv
<1>2. w'.step = "idle" /\ Idle.tenant \notin Tenants
  BY NoneAssumption DEF Idle
<1>3. \A u \in Tenants : SameTenant(u)
  BY SameWhenUnchanged
<1>4. \A u \in Tenants \ {t} : SameStage(u)
  BY <1>0, <1>1, <1>3, OthersKeepStage
<1>5. DatabaseCall' = None
  BY <1>2 DEF DatabaseCall
<1>6. w.step \notin ReleasedSteps => UNCHANGED Stage
  <2> SUFFICES ASSUME w.step \notin ReleasedSteps PROVE UNCHANGED Stage
    OBVIOUS
  <2>1. ~Releasing(t) /\ ~Releasing(t)'
    BY <1>2 DEF Releasing, ReleasedSteps
  <2>2. SameStage(t)
    BY <1>1, <1>3, <2>1, RestKept
  <2> QED  BY <1>4, <2>2, StagesKept
<1>7. CASE w.step = "createPostgreSQL"
  <2>1. Lifecycle!EndCreate(t)
    BY <1>0, <1>5, <1>6, <1>7, CallIs DEF Lifecycle!EndCreate, ReleasedSteps
  <2> QED  BY <2>1 DEF Lifecycle!Next, LifecycleStep
<1>8. CASE w.step = "deletePostgreSQL"
  <2>1. Lifecycle!EndDelete(t)
    BY <1>0, <1>5, <1>6, <1>8, CallIs DEF Lifecycle!EndDelete, ReleasedSteps
  <2> QED  BY <2>1 DEF Lifecycle!Next, LifecycleStep
<1>9. CASE w.step \in ReleasedSteps
  <2>1. Stage[t] = "released" /\ DatabaseCall = None
    BY <1>0, <1>9, ReleasedStage
  <2>2. w.step \in DeletingSteps
    BY <1>9 DEF ReleasedSteps, DeletingSteps
  <2>3. Latest(cr'[t]).life = "deleting" /\ Closing(t)
    BY <1>0, <2>2, TakingDown DEF Closing
  <2>4. Closing(t)' /\ ~Releasing(t)'
    BY <1>1, <1>2, <2>3, CacheKept DEF Releasing, ReleasedSteps
  <2>5. Stage'[t] = "closing"
    BY <2>3, <2>4, StagesNext DEF StagesAre
  <2>6. Stage' = [Stage EXCEPT ![t] = "closing"]
    BY <1>4, <2>5, StageMoved
  <2>7. Lifecycle!Repeat(t)
    BY <1>5, <2>1, <2>6 DEF Lifecycle!Repeat, Lifecycle!MoveTo
  <2> QED  BY <2>7 DEF Lifecycle!Next, LifecycleStep
<1>10. CASE w.step \notin {"createPostgreSQL", "deletePostgreSQL"} \cup ReleasedSteps
  BY <1>5, <1>6, <1>10, CallIs DEF LifecycleStep
<1> QED  BY <1>7, <1>8, <1>9, <1>10

\* The steps on the tenant's objects: the two calls return, a release is kept
\* or repeated.
LEMMA ObjectsRefine ==
    ASSUME LifecycleInv, CrSum, ObjectActions
    PROVE  LifecycleStep
<1>1. SafetyInv /\ w.step # "idle" /\ UNCHANGED <<cr, crSeen>>
  BY DEF LifecycleInv, ObjectActions, EnsureNamespace, EnsureQuota, EnsureDeployment,
         UpdateDeployment, DeleteQuota, DeleteNamespace, CreatePostgreSQL, DeletePostgreSQL, StepOf
<1>2. PICK t \in Tenants : w.tenant = t
  BY <1>1, CopyFacts
<1>3. \A u \in Tenants : SameTenant(u)
  BY <1>1, SameWhenUnchanged
<1>4. CASE w' = Idle
  BY <1>1, <1>4, ReturnRefines
<1>5. ASSUME w'.tenant = w.tenant PROVE \A u \in Tenants \ {t} : SameStage(u)
  BY <1>1, <1>2, <1>3, <1>5, OthersKeepStage
<1>6. CASE /\ EnsureNamespace \/ EnsureQuota \/ EnsureDeployment \/ UpdateDeployment
           /\ w' # Idle
  <2>1. w.step \notin CallSteps /\ w'.step \notin CallSteps
    BY <1>6 DEF EnsureNamespace, EnsureQuota, EnsureDeployment, UpdateDeployment, StepOf, Continue,
         Retry, Done, At, CallSteps, ReleasedSteps
  <2> QED  BY <1>1, <1>3, <2>1, QuietStepRefines
<1>7. CASE CreatePostgreSQL
  <2>1. w.step = "createPostgreSQL" /\ w'.step = "setAssigned" /\ w'.tenant = w.tenant
    BY <1>7 DEF CreatePostgreSQL, StepOf, Continue, At
  <2>2. ~Releasing(t) /\ ~Releasing(t)'
    BY <2>1 DEF Releasing, ReleasedSteps
  <2>3. SameStage(t)
    BY <1>1, <1>3, <2>2, RestKept
  <2>4. UNCHANGED Stage
    BY <1>5, <2>1, <2>3, StagesKept
  <2>5. DatabaseCall = <<"create", t>> /\ DatabaseCall' = None
    BY <1>2, <2>1 DEF DatabaseCall
  <2>6. Lifecycle!EndCreate(t)
    BY <2>4, <2>5 DEF Lifecycle!EndCreate
  <2> QED  BY <2>6 DEF Lifecycle!Next, LifecycleStep
<1>8. CASE DeletePostgreSQL
  <2>1. w.step = "deletePostgreSQL" /\ w'.step = "deleteQuota" /\ w'.tenant = w.tenant
    BY <1>8 DEF DeletePostgreSQL, StepOf, Continue, At
  <2>2. Latest(cr[t]).life = "deleting" /\ Closing(t)
    BY <1>2, <2>1, TakingDown DEF DeletingSteps, Closing
  <2>3. ~Releasing(t) /\ Releasing(t)'
    BY <1>2, <2>1 DEF Releasing, ReleasedSteps
  <2>4. Stage[t] = "closing" /\ Stage'[t] = "released"
    BY <1>1, <2>2, <2>3, StagesNow, StagesNext DEF StagesAre
  <2>5. Stage' = [Stage EXCEPT ![t] = "released"]
    BY <1>5, <2>1, <2>4, StageMoved
  <2>6. DatabaseCall = <<"delete", t>> /\ DatabaseCall' = None
    BY <1>2, <2>1 DEF DatabaseCall
  <2>7. Lifecycle!Release(t)
    BY <2>4, <2>5, <2>6 DEF Lifecycle!Release, Lifecycle!MoveTo
  <2> QED  BY <2>7 DEF Lifecycle!Next, LifecycleStep
<1>9. CASE (DeleteQuota \/ DeleteNamespace) /\ w' # Idle
  <2>1. w.step \in ReleasedSteps /\ w'.step \in ReleasedSteps /\ w'.tenant = w.tenant
    BY <1>9 DEF DeleteQuota, DeleteNamespace, StepOf, Continue, Retry, At, ReleasedSteps
  <2>2. Releasing(t) /\ Releasing(t)'
    BY <1>2, <2>1 DEF Releasing
  <2>3. SameStage(t)
    BY <1>1, <1>3, <2>2, RestKept
  <2>4. UNCHANGED Stage
    BY <1>5, <2>1, <2>3, StagesKept
  <2>5. UNCHANGED DatabaseCall
    BY <2>1 DEF DatabaseCall, ReleasedSteps
  <2> QED  BY <2>4, <2>5 DEF LifecycleStep
<1> QED  BY <1>4, <1>6, <1>7, <1>8, <1>9 DEF ObjectActions

\* The status writes that neither end a TenantEnvironment nor ask for a
\* database are not seen at this level.
LEMMA QuietRefines ==
    ASSUME LifecycleInv, CrSum, QuietActions
    PROVE  LifecycleStep
<1>1. SafetyInv /\ UNCHANGED crSeen
  BY DEF LifecycleInv, QuietActions, SetCreatedAt, AddFinalizer, SetAssigned, MarkReady, StepOf
<1>2. \A u \in Tenants : SameTenant(u)
  BY <1>1, QuietStatus DEF QuietActions
<1>3. w.step \notin CallSteps /\ w'.step \notin CallSteps
  BY DEF QuietActions, SetCreatedAt, AddFinalizer, SetAssigned, MarkReady, StepOf,
         ContinueWithNew, Retry, Done, At, Idle, CallSteps, ReleasedSteps
<1> QED  BY <1>1, <1>2, <1>3, QuietStepRefines

\* The status write before the call is the one that begins it.
LEMMA CheckRefines ==
    ASSUME LifecycleInv, CrSum, CheckDatabase
    PROVE  LifecycleStep
<1>1. SafetyInv /\ UNCHANGED crSeen /\ w.step = "database"
  BY DEF LifecycleInv, CheckDatabase, StepOf
<1>2. PICK t \in Tenants : w.tenant = t
  BY <1>1, CopyFacts
<1>3. CASE ~(NeedsDatabase /\ Accepted)
  <2>1. UNCHANGED cr /\ (Retry \/ Continue("deployment"))
    BY <1>1, <1>3, DatabaseAsked
  <2>2. \A u \in Tenants : SameTenant(u)
    BY <2>1, SameWhenUnchanged
  <2>3. w.step \notin CallSteps /\ w'.step \notin CallSteps
    BY <1>1, <2>1 DEF Retry, Continue, At, Idle, CallSteps, ReleasedSteps
  <2> QED  BY <1>1, <2>2, <2>3, QuietStepRefines
<1>4. CASE NeedsDatabase /\ Accepted
  <2>1. /\ Copy = Latest(cr[t]) /\ ~Requested(Latest(cr[t]))
        /\ Latest(cr'[t]).life = Copy.life /\ Requested(Latest(cr'[t]))
        /\ ContinueWithNew("createPostgreSQL")
        /\ \A u \in Tenants \ {t} : cr'[u] = cr[u]
    BY <1>1, <1>2, <1>4, DatabaseAsked
  <2>2. Latest(cr[t]).life = "live"
    BY <1>1, <2>1 DEF LifecycleInv, CopyInv
  <2>3. w'.step = "createPostgreSQL" /\ w'.tenant = w.tenant
    BY <2>1 DEF ContinueWithNew, At
  <2>4. ~Closing(t)
    <3>1. crSeen[t] \in 1 .. Len(cr[t])
      BY <1>1 DEF SafetyInv, TypeOK, TenantsTyped
    <3> QED  BY <1>1, <2>2, <3>1, LifeOrder DEF Closing, CachedTenant
  <2>5. ~Closing(t)' /\ ~Releasing(t) /\ ~Releasing(t)'
    BY <1>1, <2>3, <2>4, CacheKept DEF Releasing, ReleasedSteps
  <2>6. Stage[t] = "new"
    BY <2>1, <2>2, <2>4, <2>5, StagesNow DEF StagesAre
  <2>7. Stage'[t] = "asked"
    BY <2>1, <2>2, <2>5, StagesNext DEF StagesAre
  <2>8. \A u \in Tenants \ {t} : SameStage(u)
    BY <1>1, <1>2, <2>1, <2>3, SameWhenUnchanged, OthersKeepStage
  <2>9. Stage' = [Stage EXCEPT ![t] = "asked"]
    BY <2>7, <2>8, StageMoved
  <2>10. DatabaseCall = None /\ DatabaseCall' = <<"create", t>>
    BY <1>1, <1>2, <2>3 DEF DatabaseCall
  <2>11. Lifecycle!BeginCreate(t)
    BY <2>6, <2>9, <2>10 DEF Lifecycle!BeginCreate, Lifecycle!MoveTo
  <2> QED  BY <2>11 DEF Lifecycle!Next, LifecycleStep
<1> QED  BY <1>3, <1>4

\* The TenantEnvironment goes with its finalizer, or stays to be taken down
\* again.
LEMMA RemovalRefines ==
    ASSUME LifecycleInv, CrSum, RemoveFinalizer
    PROVE  LifecycleStep
<1>1. SafetyInv /\ UNCHANGED crSeen /\ w.step = "removeFinalizer"
  BY DEF LifecycleInv, RemoveFinalizer, StepOf
<1>2. PICK t \in Tenants : w.tenant = t
  BY <1>1, CopyFacts
<1>3. CASE ~Accepted
  <2>1. UNCHANGED cr /\ w' = Idle
    BY <1>1, <1>3, FinalizerRemoved DEF Retry
  <2> QED  BY <1>1, <2>1, ReturnRefines
<1>4. CASE Accepted
  <2>1. /\ Latest(cr'[t]).life = "gone" /\ w' = Idle
        /\ \A u \in Tenants \ {t} : cr'[u] = cr[u]
    BY <1>1, <1>2, <1>4, FinalizerRemoved DEF Done
  <2>2. Stage[t] = "released" /\ DatabaseCall = None
    BY <1>1, <1>2, ReleasedStage DEF ReleasedSteps
  <2>3. Stage'[t] = "gone"
    BY <2>1, StagesNext DEF StagesAre
  <2>4. \A u \in Tenants \ {t} : SameStage(u)
    BY <1>1, <1>2, <2>1, SameWhenUnchanged, OthersKeepStage
  <2>5. Stage' = [Stage EXCEPT ![t] = "gone"]
    BY <2>3, <2>4, StageMoved
  <2>6. DatabaseCall' = None
    BY <2>1 DEF DatabaseCall, Idle
  <2>7. Lifecycle!End(t)
    BY <2>2, <2>5, <2>6, NoneAssumption DEF Lifecycle!End, Lifecycle!MoveTo
  <2> QED  BY <2>7 DEF Lifecycle!Next, LifecycleStep
<1> QED  BY <1>3, <1>4

\* A restart: the informers list what the API server has, so a deletion that
\* was not seen yet is seen now, and one that was being acted on starts again.
LEMMA CrashRefines ==
    ASSUME LifecycleInv, Crash
    PROVE  LifecycleStep
<1> DEFINE seen == {t \in Tenants : Latest(cr[t]).life = "deleting"}
<1>1. /\ SafetyInv /\ UNCHANGED cr /\ w' = Idle
      /\ \A t \in Tenants : crSeen'[t] = Len(cr[t])
  BY DEF LifecycleInv, Crash
<1>2. DatabaseCall' = None
  BY <1>1 DEF DatabaseCall, Idle
<1>3. ASSUME NEW t \in Tenants
      PROVE  /\ (Closing(t)' <=> t \in seen) /\ ~Releasing(t)' /\ SameTenant(t)
  <2>1. Closing(t)' <=> t \in seen
    BY <1>1, <1>3 DEF Closing, CachedTenant, Latest
  <2>2. ~Releasing(t)'
    BY <1>1 DEF Releasing, Idle, ReleasedSteps
  <2> QED  BY <1>1, <2>1, <2>2, SameWhenUnchanged
<1>4. ASSUME NEW t \in seen PROVE StageOf(t)' = "closing" /\ Stage[t] # "gone"
  <2>1. Latest(cr[t]).life # "gone" /\ Latest(cr'[t]).life # "gone"
    BY <1>1, <1>4
  <2>2. ~Releasing(t)' /\ Closing(t)'
    BY <1>3, <1>4
  <2> QED  BY <1>4, <2>1, <2>2, StagesNow, StagesNext DEF StagesAre
<1>5. ASSUME NEW t \in Tenants \ seen PROVE StageOf(t)' = Stage[t]
  <2>1. ~Closing(t) \/ Latest(cr[t]).life = "gone"
    <3>1. crSeen[t] \in 1 .. Len(cr[t])
      BY <1>1 DEF SafetyInv, TypeOK, TenantsTyped
    <3>2. /\ CachedTenant(t) \in TenantEnvironment /\ Latest(cr[t]) \in TenantEnvironment
          /\ LifeRank[CachedTenant(t).life] <= LifeRank[Latest(cr[t]).life]
      BY <1>1, <3>1, SeenFacts DEF CachedTenant
    <3> QED  BY <1>5, <3>2, RankFacts DEF Closing
  <2>2. ~Releasing(t)
    BY <1>5, TakingDown DEF Releasing, ReleasedSteps, DeletingSteps
  <2>3. ~Closing(t)' /\ ~Releasing(t)' /\ SameTenant(t)
    BY <1>3, <1>5
  <2> QED  BY <2>1, <2>2, <2>3, StagesNow, StagesNext DEF StagesAre, SameTenant
<1>6. seen \in SUBSET {t \in Tenants : Stage[t] # "gone"}
  BY <1>4
<1>7. Stage' = [t \in Tenants |-> IF t \in seen THEN "closing" ELSE Stage[t]]
  <2>1. Stage' = [t \in Tenants |-> StageOf(t)']
    BY StagesNext DEF StagesAre
  <2> QED  BY <1>4, <1>5, <2>1
<1> HIDE DEF seen
<1>8. Lifecycle!Restart
  BY <1>2, <1>6, <1>7 DEF Lifecycle!Restart
<1> QED  BY <1>8 DEF Lifecycle!Next, LifecycleStep

\* Steps that change neither a TenantEnvironment nor its cache nor the worker.
LEMMA IdleRefines == ASSUME UNCHANGED <<cr, crSeen, w>> PROVE LifecycleStep
<1>1. \A t \in Tenants : SameStage(t)
  BY DEF SameStage, SameTenant, Releasing, Closing, CachedTenant
<1>2. UNCHANGED Stage
  BY <1>1, StagesKept
<1>3. UNCHANGED DatabaseCall
  BY DEF DatabaseCall
<1> QED  BY <1>2, <1>3 DEF LifecycleStep

\* All steps together.
LEMMA NextRefines == ASSUME LifecycleInv, [Next]_vars PROVE LifecycleStep
<1>1. SafetyInv
  BY DEF LifecycleInv
<1>2. CrSum
  BY <1>1, StepSums
<1>3. ASSUME NEW t \in Tenants, (\E k \in Kinds : DeliverObject(k, t)) \/ ClusterActions(t)
      PROVE  LifecycleStep
  <2>1. UNCHANGED <<cr, crSeen, w>>
    BY <1>3 DEF DeliverObject, ClusterActions, NamespaceController, PodStarts, PodBecomesReady,
         PodFails, PodChanges, ClusterStep
  <2> QED  BY <2>1, IdleRefines
<1>4. CASE UNCHANGED vars
  BY <1>4, IdleRefines DEF vars
<1>5. CASE ApiError
  <2>1. w.step # "idle" /\ UNCHANGED <<cr, crSeen>> /\ w' = Idle
    BY <1>5 DEF ApiError, Retry
  <2> QED  BY <1>2, <2>1, ReturnRefines
<1> QED  BY <1>2, <1>3, <1>4, <1>5, NextCases, UsersRefine, StartRefines, InformerRefines,
            ObjectsRefine, QuietRefines, CheckRefines, RemovalRefines, CrashRefines

\* The initial states are initial states of TenantLifecycle.
LEMMA InitRefines == Init => Lifecycle!Init
<1> SUFFICES ASSUME Init PROVE Lifecycle!Init
  OBVIOUS
<1>1. /\ \A t \in Tenants : Latest(cr[t]) = AbsentTenant /\ CachedTenant(t) = AbsentTenant
      /\ w.step = "idle"
  BY DEF Init, Latest, CachedTenant, Idle
<1>2. AbsentTenant.life = "absent" /\ ~Requested(AbsentTenant)
  BY DEF AbsentTenant, Requested
<1>3. \A t \in Tenants : StageOf(t) = "new"
  BY <1>1, <1>2 DEF StageOf, ReleasedSteps
<1>4. Stage = [t \in Tenants |-> "new"]
  BY <1>3 DEF Stage
<1>5. DatabaseCall = None
  BY <1>1, CallIs
<1> QED  BY <1>4, <1>5 DEF Lifecycle!Init

\* The reconciler implements TenantLifecycle, for any tenants and whatever the
\* caches show and whatever fails: CreatePostgreSQLForTenant is called once
\* for a tenant, neither call is made once the TenantEnvironment is gone, and
\* a TenantEnvironment whose database was asked for goes only when
\* DeletePostgreSQLForTenant has returned nil in the same reconcile.
THEOREM ReconcilerImplementsLifecycle == Spec => ImplementsLifecycle
<1>1. LifecycleInv /\ [Next]_vars => [Lifecycle!Next]_(Lifecycle!vars)
  BY NextRefines DEF LifecycleStep, Lifecycle!vars
<1>2. Spec => Lifecycle!Spec
  BY <1>1, InitRefines, LifecycleAlways, PTL DEF Spec, Lifecycle!Spec
<1> QED  BY <1>2 DEF ImplementsLifecycle

-----------------------------------------------------------------------------
(* The histogram *)

\* readyAt is written once, and no tenant is reported ready whose provisioning
\* time the running process has not put into its histogram: the copy that is
\* written has its creation time, because what it is written over has.
THEOREM ReadyMeasured == Spec => ReadyIsMeasured
<1>1. ASSUME SafetyInv, [Next]_vars, NEW t \in Tenants,
             w.tenant = t, w.step = "markReady", w' # w, cr'[t] # cr[t]
      PROVE  ~Latest(cr[t]).readyAt /\ observed[t] >= 1
  <2>1. cr' # cr
    BY <1>1
  <2>2. ReconcileStep
    BY <1>1, <2>1 DEF Next, vars, CreateTenant, EditSpec, DeleteTenant, Write,
         StartReconcile, StartPodEvent, Take, DeliverTenant, DeliverObject,
         NamespaceController, PodStarts, PodBecomesReady, PodFails, PodChanges,
         ClusterStep, ApiError, Crash
  <2>3. MarkReady
    BY <1>1, <2>2 DEF ReconcileStep, SetCreatedAt, AddFinalizer, EnsureNamespace,
         EnsureQuota, CheckDatabase, CreatePostgreSQL, SetAssigned, EnsureDeployment,
         UpdateDeployment, DeletePostgreSQL, DeleteQuota, DeleteNamespace, RemoveFinalizer, StepOf
  <2>4. Accepted
    BY <2>1, <2>3 DEF MarkReady
  <2>5. w.step # "idle"
    BY <1>1
  <2>6. w.tenant \in Tenants /\ VersionOK(Copy) /\ Copy = Latest(cr[t])
    BY <1>1, <2>4, <2>5, CopyFacts
  <2>7. Requested(Copy) /\ ~Copy.readyAt /\ (Copy.createdAt => observed[t] >= 1)
    BY <1>1, <2>6 DEF SafetyInv, WorkerOK
  <2>8. Copy.createdAt
    BY <2>6, <2>7 DEF VersionOK, Requested
  <2> QED  BY <2>6, <2>7, <2>8
<1>2. SafetyInv /\ [Next]_vars =>
        [\A t \in Tenants :
            w.tenant = t /\ w.step = "markReady" /\ w' # w /\ cr'[t] # cr[t]
                => ~Latest(cr[t]).readyAt /\ observed[t] >= 1]_vars
  BY <1>1
<1> QED  BY <1>2, Safety, PTL DEF Spec, ReadyIsMeasured

=============================================================================
