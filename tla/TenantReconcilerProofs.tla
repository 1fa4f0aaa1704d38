----------------------- MODULE TenantReconcilerProofs -----------------------
(***************************************************************************)
(* What TenantReconciler guarantees for any number of tenants, any specs   *)
(* and any bounds.                                                         *)
(***************************************************************************)
EXTENDS TenantReconciler, TLAPS

-----------------------------------------------------------------------------
(* Histories: one version is added at the end, the others stay. *)

\* A tenant's history grows by one version of the right type.
LEMMA CommitTyped ==
    ASSUME TenantsTyped,
           NEW t \in Tenants, NEW v \in TenantEnvironment,
           cr' = [cr EXCEPT ![t] = Append(@, v)], UNCHANGED crSeen
    PROVE  /\ TenantsTyped'
           /\ cr'[t] = Append(cr[t], v) /\ Len(cr'[t]) = Len(cr[t]) + 1
           /\ \A u \in Tenants \ {t} : cr'[u] = cr[u]
BY DEF TenantsTyped

\* The history of a tenant's object grows by one version of the right type.
LEMMA PutTyped ==
    ASSUME ObjectsTyped,
           NEW k \in Kinds, NEW t \in Tenants, NEW v \in ObjectsOf(k),
           Put(k, t, v), UNCHANGED objSeen
    PROVE  /\ ObjectsTyped'
           /\ obj'[k][t] = Append(obj[k][t], v) /\ Len(obj'[k][t]) = Len(obj[k][t]) + 1
           /\ \A j \in Kinds, u \in Tenants : j # k \/ u # t => obj'[j][u] = obj[j][u]
<1>1. /\ obj' = [obj EXCEPT ![k] = [obj[k] EXCEPT ![t] = Append(obj[k][t], v)]]
      /\ objSeen' = objSeen
  BY DEF Put
<1>2. obj[k] \in [Tenants -> Seq(ObjectsOf(k))] /\ DOMAIN obj = Kinds
  BY DEF ObjectsTyped
<1>3. obj'[k] = [obj[k] EXCEPT ![t] = Append(obj[k][t], v)]
  BY <1>1, <1>2
<1>4. \A j \in Kinds : j # k => obj'[j] = obj[j]
  BY <1>1, <1>2
<1>5. obj'[k] \in [Tenants -> Seq(ObjectsOf(k))]
  BY <1>2, <1>3
<1>6. obj'[k][t] = Append(obj[k][t], v) /\ \A u \in Tenants \ {t} : obj'[k][u] = obj[k][u]
  BY <1>2, <1>3
<1>7. Len(obj'[k][t]) = Len(obj[k][t]) + 1
  BY <1>2, <1>6
<1>8. DOMAIN obj' = Kinds
  BY <1>1, <1>2
<1>9. \A j \in Kinds : /\ obj'[j] \in [Tenants -> Seq(ObjectsOf(j))]
                       /\ objSeen'[j] \in [Tenants -> Nat]
                       /\ \A u \in Tenants : objSeen'[j][u] \in 1 .. Len(obj'[j][u])
  <2> TAKE j \in Kinds
  <2>1. CASE j = k
    <3>1. \A u \in Tenants : objSeen[k][u] \in 1 .. Len(obj[k][u]) /\ objSeen[k] \in [Tenants -> Nat]
      BY DEF ObjectsTyped
    <3>2. ASSUME NEW u \in Tenants PROVE objSeen[k][u] \in 1 .. Len(obj'[k][u])
      <4>1. obj[k][u] \in Seq(ObjectsOf(k))
        BY <1>2
      <4> QED  BY <3>1, <4>1, <1>6, <1>7
    <3> QED  BY <2>1, <3>1, <3>2, <1>5, <1>1
  <2>2. CASE j # k
    BY <2>2, <1>4, <1>1 DEF ObjectsTyped
  <2> QED  BY <2>1, <2>2
<1>10. ObjectsTyped'
  BY <1>8, <1>9, <1>1 DEF ObjectsTyped
<1> QED
  BY <1>10, <1>6, <1>7, <1>4

-----------------------------------------------------------------------------
(* Type correctness *)

\* The steps of a running reconcile have a tenant and a copy of its resource.
LEMMA RunningTyped ==
    ASSUME TypeOK, w.step # "idle"
    PROVE  /\ w \in Worker /\ w.tenant \in Tenants
           /\ w.rv \in 1 .. Len(cr[w.tenant]) /\ Copy \in TenantEnvironment
<1>1. w \in Worker /\ w.tenant \in Tenants
  BY DEF TypeOK, WorkerTyped, Idle, Worker
<1>2. w.rv \in 1 .. Len(cr[w.tenant])
  BY DEF TypeOK, WorkerTyped
<1>3. cr[w.tenant] \in Seq(TenantEnvironment)
  BY <1>1 DEF TypeOK, TenantsTyped
<1>4. cr[w.tenant][w.rv] \in TenantEnvironment
  BY <1>2, <1>3
<1> QED  BY <1>1, <1>2, <1>4 DEF Copy

\* What the API server holds, and what the cache holds, is a TenantEnvironment.
LEMMA LatestTyped ==
    ASSUME TypeOK, NEW t \in Tenants
    PROVE  /\ cr[t] \in Seq(TenantEnvironment) /\ Len(cr[t]) \in Nat \ {0}
           /\ Latest(cr[t]) \in TenantEnvironment
           /\ CachedTenant(t) \in TenantEnvironment
<1>1. cr[t] \in Seq(TenantEnvironment) /\ crSeen[t] \in 1 .. Len(cr[t])
  BY DEF TypeOK, TenantsTyped
<1>2. Len(cr[t]) \in Nat \ {0}
  BY <1>1
<1>3. cr[t][Len(cr[t])] \in TenantEnvironment /\ cr[t][crSeen[t]] \in TenantEnvironment
  BY <1>1, <1>2
<1> QED  BY <1>1, <1>2, <1>3 DEF Latest, CachedTenant

\* A reconcile that ends with an error puts its own request back.
LEMMA RetryTyped ==
    ASSUME TypeOK, w.step # "idle", Retry
    PROVE  WorkerTyped'
<1>1. w.tenant \in Tenants
  BY RunningTyped
<1>2. queue' \subseteq Requests
  BY <1>1 DEF Retry, Requests, TypeOK, WorkerTyped
<1> QED  BY <1>2 DEF Retry, WorkerTyped, Idle

\* A reconcile that ends leaves an idle worker.
LEMMA DoneTyped ==
    ASSUME TypeOK, Done
    PROVE  WorkerTyped'
BY DEF TypeOK, WorkerTyped, Done, Idle

\* A reconcile that goes on keeps its copy, also when the history grows.
LEMMA ContinueTyped ==
    ASSUME TypeOK, w.step # "idle", NEW step \in Steps \ {"updateDeployment"},
           Continue(step), UNCHANGED cr
    PROVE  WorkerTyped'
BY RunningTyped DEF TypeOK, WorkerTyped, Continue, At, Worker

\* A reconcile whose write was accepted goes on with the version it wrote.
LEMMA ContinueWithNewTyped ==
    ASSUME TypeOK, w.step # "idle", NEW step \in Steps \ {"updateDeployment"},
           ContinueWithNew(step), Accepted, Len(cr'[w.tenant]) = Len(cr[w.tenant]) + 1
    PROVE  WorkerTyped'
<1>1. w \in Worker /\ w.rv \in Nat /\ w.rv + 1 = Len(cr'[w.tenant])
  BY RunningTyped DEF Accepted, IsCurrent, Worker
<1>2. w' \in Worker /\ w'.rv = w.rv + 1 /\ w'.tenant = w.tenant /\ w'.step = step
  BY <1>1 DEF ContinueWithNew, At, Worker
<1> QED  BY <1>1, <1>2 DEF WorkerTyped, ContinueWithNew, TypeOK

\* What the reconciler and the users make of a version is a version.
LEMMA NewVersions ==
    ASSUME NEW v \in TenantEnvironment
    PROVE  /\ [v EXCEPT !.createdAt = TRUE, !.databaseStatus = "Unassigned"] \in TenantEnvironment
           /\ \A s \in Specs :
                    [v EXCEPT !.finalizer = TRUE, !.spec = s] \in TenantEnvironment
           /\ \A d \in DatabaseStatus : [v EXCEPT !.databaseStatus = d] \in TenantEnvironment
           /\ \A s \in Specs :
                    [v EXCEPT !.finalizer = FALSE, !.life = "gone", !.spec = s] \in TenantEnvironment
           /\ [v EXCEPT !.readyAt = TRUE] \in TenantEnvironment
           /\ \A l \in Life : [v EXCEPT !.life = l] \in TenantEnvironment
           /\ \A s \in Specs : [v EXCEPT !.spec = s] \in TenantEnvironment
           /\ \A l \in Life, s \in Specs :
                    [v EXCEPT !.life = l, !.spec = s] \in TenantEnvironment
BY Zenon DEF TenantEnvironment, Life, DatabaseStatus

\* What a step leaves alone keeps its type.
LEMMA FrameTyped ==
    ASSUME TypeOK
    PROVE  /\ UNCHANGED <<cr, crSeen>> => TenantsTyped'
           /\ UNCHANGED <<obj, objSeen>> => ObjectsTyped'
           /\ UNCHANGED <<provisions, observed, budget>> => CountersTyped'
           /\ UNCHANGED <<cr, obj, queue, w>> => WorkerTyped'
BY DEF TypeOK, TenantsTyped, ObjectsTyped, CountersTyped, WorkerTyped

\* A worker keeps its copies when the histories of others', or its own, grow.
LEMMA GrowingTyped ==
    ASSUME TypeOK, UNCHANGED w, queue' \subseteq Requests,
           \A t \in Tenants : Len(cr'[t]) \in Nat /\ Len(cr[t]) <= Len(cr'[t]),
           \A t \in Tenants : Len(obj'["deployment"][t]) \in Nat
                              /\ Len(obj["deployment"][t]) <= Len(obj'["deployment"][t])
    PROVE  WorkerTyped'
<1>1. CASE w.step = "idle"
  BY <1>1 DEF TypeOK, WorkerTyped
<1>2. CASE w.step # "idle"
  <2>1. w \in Worker /\ w.tenant \in Tenants
    BY <1>2, RunningTyped
  <2>2. Len(cr[w.tenant]) \in Nat
    BY <2>1, LatestTyped
  <2>3. Len(obj["deployment"][w.tenant]) \in Nat
    BY <2>1 DEF TypeOK, ObjectsTyped, Kinds
  <2>4. w.rv \in 1 .. Len(cr'[w.tenant])
    BY <1>2, <2>1, <2>2 DEF TypeOK, WorkerTyped
  <2>5. w.step = "updateDeployment" => w.dv \in 1 .. Len(obj'["deployment"][w.tenant])
    BY <2>1, <2>3 DEF TypeOK, WorkerTyped
  <2> QED  BY <2>1, <2>4, <2>5 DEF WorkerTyped
<1> QED  BY <1>1, <1>2

\* A user's write, whatever the version.
LEMMA WriteTyped ==
    ASSUME TypeOK, NEW t \in Tenants, NEW v \in TenantEnvironment, Write(t, v)
    PROVE  TenantsTyped' /\ ObjectsTyped' /\ WorkerTyped'
<1>1. /\ cr' = [cr EXCEPT ![t] = Append(@, v)]
      /\ UNCHANGED <<crSeen, obj, objSeen, queue, w, provisions, observed>>
  BY DEF Write
<1>2. /\ TenantsTyped'
      /\ Len(cr'[t]) = Len(cr[t]) + 1 /\ \A u \in Tenants \ {t} : cr'[u] = cr[u]
  BY <1>1, CommitTyped DEF TypeOK
<1>3. \A u \in Tenants : Len(cr'[u]) \in Nat /\ Len(cr[u]) <= Len(cr'[u])
  BY <1>2, LatestTyped
<1>4. \A u \in Tenants : Len(obj'["deployment"][u]) \in Nat
                         /\ Len(obj["deployment"][u]) <= Len(obj'["deployment"][u])
  BY <1>1 DEF TypeOK, ObjectsTyped, Kinds
<1>5. queue' \subseteq Requests
  BY <1>1 DEF TypeOK, WorkerTyped
<1>6. WorkerTyped'
  BY <1>1, <1>3, <1>4, <1>5, GrowingTyped
<1> QED  BY <1>1, <1>2, <1>6, FrameTyped

\* Users create, edit and delete TenantEnvironments of the right type.
LEMMA UsersTyped ==
    ASSUME TypeOK, NEW t \in Tenants, CreateTenant(t) \/ EditSpec(t) \/ DeleteTenant(t)
    PROVE  TypeOK'
<1> DEFINE old == Latest(cr[t])
<1>0. old \in TenantEnvironment
  BY LatestTyped
<1> HIDE DEF old
<1>1. CASE CreateTenant(t)
  <2>1. PICK s \in Specs : Write(t, [old EXCEPT !.life = "live", !.spec = s])
    BY <1>1 DEF CreateTenant, old
  <2>2. [old EXCEPT !.life = "live", !.spec = s] \in TenantEnvironment
    BY <1>0, NewVersions DEF Life
  <2>3. UNCHANGED <<provisions, observed, budget>>
    BY <1>1, <2>1 DEF CreateTenant, Write
  <2> QED  BY <2>1, <2>2, <2>3, WriteTyped, FrameTyped DEF TypeOK
<1>2. CASE EditSpec(t)
  <2>1. PICK s \in Specs : Write(t, [old EXCEPT !.spec = s])
    BY <1>2 DEF EditSpec, old
  <2>2. [old EXCEPT !.spec = s] \in TenantEnvironment
    BY <1>0, NewVersions
  <2>3. UNCHANGED <<provisions, observed>> /\ Spend("edits")
    BY <1>2, <2>1 DEF EditSpec, Write
  <2>4. CountersTyped'
    BY <2>3, BoundsAssumption DEF TypeOK, CountersTyped, Spend, Limit
  <2> QED  BY <2>1, <2>2, <2>4, WriteTyped DEF TypeOK
<1>3. CASE DeleteTenant(t)
  <2>1. PICK l \in Life : Write(t, [old EXCEPT !.life = l])
    BY <1>3 DEF DeleteTenant, old, Life
  <2>2. [old EXCEPT !.life = l] \in TenantEnvironment
    BY <1>0, NewVersions
  <2>3. UNCHANGED <<provisions, observed, budget>>
    BY <1>3, <2>1 DEF DeleteTenant, Write
  <2> QED  BY <2>1, <2>2, <2>3, WriteTyped, FrameTyped DEF TypeOK
<1> QED  BY <1>1, <1>2, <1>3

\* The steps that write the TenantEnvironment.
LEMMA StatusStepsTyped ==
    ASSUME TypeOK,
           SetCreatedAt \/ AddFinalizer \/ CheckDatabase \/ SetAssigned \/ RemoveFinalizer
    PROVE  TypeOK'
<1>1. w.step # "idle" /\ UNCHANGED <<crSeen, objSeen, budget, obj, provisions, observed>>
  BY DEF SetCreatedAt, AddFinalizer, CheckDatabase, SetAssigned, RemoveFinalizer, StepOf
<1>2. w.tenant \in Tenants /\ Copy \in TenantEnvironment
  BY <1>1, RunningTyped
<1>3. ObjectsTyped' /\ CountersTyped'
  BY <1>1, FrameTyped
<1>12. AsSent(Copy.spec) \in Specs
  BY <1>2, RoundTripAssumption DEF TenantEnvironment
<1>4. ASSUME NEW v \in TenantEnvironment, Commit(v)
      PROVE  TenantsTyped' /\ Len(cr'[w.tenant]) = Len(cr[w.tenant]) + 1
  BY <1>1, <1>2, <1>4, CommitTyped DEF TypeOK, Commit
<1>5. UNCHANGED cr => TenantsTyped'
  BY <1>1, FrameTyped
<1>6. Retry => WorkerTyped'
  BY <1>1, RetryTyped
<1>7. CASE SetCreatedAt
  <2>1. CASE ~Accepted
    BY <2>1, <1>7, <1>3, <1>5, <1>6 DEF SetCreatedAt, TypeOK
  <2>2. CASE Accepted
    <3>1. /\ Commit([Copy EXCEPT !.createdAt = TRUE, !.databaseStatus = "Unassigned"])
          /\ ContinueWithNew("addFinalizer")
      BY <2>2, <1>7 DEF SetCreatedAt
    <3>2. TenantsTyped' /\ Len(cr'[w.tenant]) = Len(cr[w.tenant]) + 1
      BY <3>1, <1>2, <1>4, NewVersions
    <3>3. WorkerTyped'
      BY <3>1, <3>2, <2>2, <1>1, ContinueWithNewTyped DEF Steps
    <3> QED  BY <3>2, <3>3, <1>3 DEF TypeOK
  <2> QED  BY <2>1, <2>2
<1>8. CASE AddFinalizer
  <2>1. /\ Retry
        /\ \/ UNCHANGED cr
           \/ Commit([Copy EXCEPT !.finalizer = TRUE, !.spec = AsSent(Copy.spec)])
    BY <1>8 DEF AddFinalizer
  <2>2. TenantsTyped'
    BY <2>1, <1>2, <1>4, <1>5, <1>12, NewVersions
  <2> QED  BY <2>1, <2>2, <1>3, <1>6 DEF TypeOK
<1>9. CASE CheckDatabase
  <2>1. CASE Continue("deployment") /\ UNCHANGED cr
    BY <2>1, <1>1, <1>3, <1>5, ContinueTyped DEF TypeOK, Steps
  <2>2. CASE Retry /\ UNCHANGED cr
    BY <2>2, <1>3, <1>5, <1>6 DEF TypeOK
  <2>3. CASE Accepted /\ Commit([Copy EXCEPT !.databaseStatus = "Provisioning"])
             /\ ContinueWithNew("createPostgreSQL")
    <3>1. TenantsTyped' /\ Len(cr'[w.tenant]) = Len(cr[w.tenant]) + 1
      BY <2>3, <1>2, <1>4, NewVersions DEF DatabaseStatus
    <3>2. WorkerTyped'
      BY <2>3, <3>1, <1>1, ContinueWithNewTyped DEF Steps
    <3> QED  BY <3>1, <3>2, <1>3 DEF TypeOK
  <2> QED  BY <1>9, <2>1, <2>2, <2>3 DEF CheckDatabase
<1>10. CASE SetAssigned
  <2>1. CASE Retry /\ UNCHANGED cr
    BY <2>1, <1>3, <1>5, <1>6 DEF TypeOK
  <2>2. CASE Accepted /\ Commit([Copy EXCEPT !.databaseStatus = "Assigned"])
             /\ ContinueWithNew("deployment")
    <3>1. TenantsTyped' /\ Len(cr'[w.tenant]) = Len(cr[w.tenant]) + 1
      BY <2>2, <1>2, <1>4, NewVersions DEF DatabaseStatus
    <3>2. WorkerTyped'
      BY <2>2, <3>1, <1>1, ContinueWithNewTyped DEF Steps
    <3> QED  BY <3>1, <3>2, <1>3 DEF TypeOK
  <2> QED  BY <1>10, <2>1, <2>2 DEF SetAssigned
<1>11. CASE RemoveFinalizer
  <2>1. CASE Retry /\ UNCHANGED cr
    BY <2>1, <1>3, <1>5, <1>6 DEF TypeOK
  <2>2. CASE /\ Commit([Copy EXCEPT !.finalizer = FALSE, !.life = "gone",
                                     !.spec = AsSent(Copy.spec)])
             /\ Done
    <3>1. TenantsTyped'
      BY <2>2, <1>2, <1>4, <1>12, NewVersions
    <3> QED  BY <2>2, <3>1, <1>3, DoneTyped DEF TypeOK
  <2> QED  BY <1>11, <2>1, <2>2 DEF RemoveFinalizer
<1> QED  BY <1>7, <1>8, <1>9, <1>10, <1>11

\* The values the reconciler writes to the tenant's objects.
LEMMA ObjectValues ==
    ASSUME NEW s \in Specs
    PROVE  /\ {None, "active", "terminating"} \subseteq ObjectsOf("namespace")
           /\ {None, s.quota} \subseteq ObjectsOf("quota")
           /\ {None, NewDeployment(s), ExpectedDeployment(s)} \subseteq ObjectsOf("deployment")
           /\ {None, "starting", "ready"} \subseteq ObjectsOf("pod")
<1>1. ObjectsOf("namespace") = {None} \cup {"active", "terminating"}
  BY DEF ObjectsOf
<1>2. ObjectsOf("quota") = {None} \cup {r.quota : r \in Specs}
  BY DEF ObjectsOf
<1>3. ObjectsOf("deployment") = {None} \cup ({NewDeployment(r) : r \in Specs}
                                            \cup {ExpectedDeployment(r) : r \in Specs})
  BY DEF ObjectsOf
<1>4. ObjectsOf("pod") = {None} \cup {"starting", "ready"}
  BY DEF ObjectsOf
<1> QED  BY <1>1, <1>2, <1>3, <1>4

\* The steps that write the tenant's objects.
LEMMA ObjectStepsTyped ==
    ASSUME TypeOK,
           \/ EnsureNamespace \/ EnsureQuota \/ EnsureDeployment \/ UpdateDeployment
           \/ DeleteQuota \/ DeleteNamespace
    PROVE  TypeOK'
<1>1. w.step # "idle" /\ UNCHANGED <<cr, crSeen, objSeen, budget, provisions, observed>>
  BY DEF EnsureNamespace, EnsureQuota, EnsureDeployment, UpdateDeployment, DeleteQuota,
         DeleteNamespace, StepOf
<1>2. w \in Worker /\ w.tenant \in Tenants /\ Copy \in TenantEnvironment
      /\ w.rv \in 1 .. Len(cr[w.tenant])
  BY <1>1, RunningTyped
<1>3. TenantsTyped' /\ CountersTyped'
  BY <1>1, FrameTyped
<1>4. Copy.spec \in Specs
  BY <1>2 DEF TenantEnvironment
<1>5. ASSUME NEW k \in Kinds, NEW v \in ObjectsOf(k), Put(k, w.tenant, v)
      PROVE  ObjectsTyped'
  BY <1>1, <1>2, <1>5, PutTyped DEF TypeOK
<1>6. UNCHANGED obj => ObjectsTyped'
  BY <1>1, FrameTyped
<1>7. Retry \/ Done => WorkerTyped'
  BY <1>1, RetryTyped, DoneTyped
<1>8. ASSUME NEW step \in Steps \ {"updateDeployment"}, Continue(step) PROVE WorkerTyped'
  BY <1>1, <1>8, ContinueTyped
<1>9. CASE EnsureNamespace
  <2>1. ObjectsTyped'
    BY <1>4, <1>5, <1>6, <1>9, ObjectValues DEF EnsureNamespace, Kinds
  <2>2. WorkerTyped'
    BY <1>7, <1>8, <1>9 DEF EnsureNamespace, Steps
  <2> QED  BY <2>1, <2>2, <1>3 DEF TypeOK
<1>10. CASE EnsureQuota
  <2>1. ObjectsTyped'
    BY <1>4, <1>5, <1>6, <1>10, ObjectValues DEF EnsureQuota, Kinds
  <2>2. WorkerTyped'
    BY <1>7, <1>8, <1>10 DEF EnsureQuota, Steps
  <2> QED  BY <2>1, <2>2, <1>3 DEF TypeOK
<1>11. CASE DeleteQuota
  <2>1. ObjectsTyped'
    BY <1>4, <1>5, <1>6, <1>11, ObjectValues DEF DeleteQuota, Kinds
  <2>2. WorkerTyped'
    BY <1>7, <1>8, <1>11 DEF DeleteQuota, Steps
  <2> QED  BY <2>1, <2>2, <1>3 DEF TypeOK
<1>12. CASE DeleteNamespace
  <2>1. ObjectsTyped'
    BY <1>4, <1>5, <1>6, <1>12, ObjectValues DEF DeleteNamespace, Kinds
  <2>2. WorkerTyped'
    BY <1>7, <1>8, <1>12 DEF DeleteNamespace, Steps
  <2> QED  BY <2>1, <2>2, <1>3 DEF TypeOK
<1>13. CASE UpdateDeployment
  <2>1. ObjectsTyped'
    BY <1>4, <1>5, <1>6, <1>13, ObjectValues DEF UpdateDeployment, Kinds
  <2>2. WorkerTyped'
    BY <1>7, <1>13 DEF UpdateDeployment
  <2> QED  BY <2>1, <2>2, <1>3 DEF TypeOK
<1>14. CASE EnsureDeployment
  <2> DEFINE d == obj["deployment"][w.tenant]
  <2>1. /\ d \in Seq(ObjectsOf("deployment"))
        /\ objSeen["deployment"][w.tenant] \in 1 .. Len(d)
    BY <1>2 DEF TypeOK, ObjectsTyped, Kinds
  <2>2. ASSUME NEW n \in Nat, w' = At("updateDeployment", w.rv, n), UNCHANGED queue,
               n \in 1 .. Len(obj'["deployment"][w.tenant])
        PROVE  WorkerTyped'
    BY <1>1, <1>2, <2>2 DEF TypeOK, WorkerTyped, At, Worker, Steps
  <2>3. CASE UNCHANGED obj /\ UNCHANGED queue
             /\ w' = At("updateDeployment", w.rv, objSeen["deployment"][w.tenant])
    <3>1. WorkerTyped'
      BY <2>1, <2>2, <2>3
    <3> QED  BY <3>1, <2>3, <1>3, <1>6 DEF TypeOK
  <2>4. CASE /\ Put("deployment", w.tenant, NewDeployment(Copy.spec)) /\ UNCHANGED queue
             /\ w' = At("updateDeployment", w.rv, Len(obj["deployment"][w.tenant]) + 1)
    <3>1. NewDeployment(Copy.spec) \in ObjectsOf("deployment")
      BY <1>4, ObjectValues
    <3>2. ObjectsTyped' /\ Len(obj'["deployment"][w.tenant]) = Len(d) + 1
      BY <2>4, <3>1, <1>1, <1>2, PutTyped DEF TypeOK, Kinds
    <3>3. WorkerTyped'
      BY <2>1, <2>2, <2>4, <3>2
    <3> QED  BY <3>2, <3>3, <1>3 DEF TypeOK
  <2>5. CASE Retry /\ UNCHANGED obj
    BY <2>5, <1>3, <1>6, <1>7 DEF TypeOK
  <2> QED  BY <1>14, <2>3, <2>4, <2>5 DEF EnsureDeployment
<1> QED  BY <1>9, <1>10, <1>11, <1>12, <1>13, <1>14

\* The count of samples stays within its cap.
LEMMA ObserveTyped ==
    ASSUME TypeOK, NEW t \in Tenants, Observe(t)
    PROVE  observed' \in [Tenants -> 0 .. ObservedCap]
BY DEF TypeOK, CountersTyped, Observe, ObservedCap

\* The remaining steps of the worker.
LEMMA OtherStepsTyped ==
    ASSUME TypeOK, CreatePostgreSQL \/ DeletePostgreSQL \/ MarkReady \/ ApiError
    PROVE  TypeOK'
<1>1. w.step # "idle" /\ UNCHANGED <<crSeen, objSeen, obj>>
  BY DEF CreatePostgreSQL, DeletePostgreSQL, MarkReady, ApiError, StepOf
<1>2. w.tenant \in Tenants /\ Copy \in TenantEnvironment
  BY <1>1, RunningTyped
<1>3. ObjectsTyped'
  BY <1>1, FrameTyped
<1>4. UNCHANGED cr => TenantsTyped'
  BY <1>1, FrameTyped
<1>5. Provision => provisions' \in [Tenants -> Nat]
  BY <1>2 DEF TypeOK, CountersTyped, Provision
<1>6. CASE CreatePostgreSQL
  <2>1. CountersTyped'
    BY <1>5, <1>6 DEF TypeOK, CountersTyped, CreatePostgreSQL, StepOf
  <2>2. WorkerTyped'
    BY <1>1, <1>6, ContinueTyped DEF CreatePostgreSQL, Steps
  <2> QED  BY <1>3, <1>4, <1>6, <2>1, <2>2 DEF TypeOK, CreatePostgreSQL
<1>7. CASE DeletePostgreSQL
  <2>1. CountersTyped'
    BY <1>7, FrameTyped DEF DeletePostgreSQL, StepOf
  <2>2. WorkerTyped'
    BY <1>1, <1>7, ContinueTyped DEF DeletePostgreSQL, Steps
  <2> QED  BY <1>3, <1>4, <1>7, <2>1, <2>2 DEF TypeOK, DeletePostgreSQL
<1>8. CASE MarkReady
  <2>2. CountersTyped'
    BY <1>8, FrameTyped DEF MarkReady, StepOf
  <2>3. TenantsTyped'
    <3>1. CASE UNCHANGED cr
      BY <3>1, <1>4
    <3>2. CASE Commit([Copy EXCEPT !.readyAt = TRUE])
      BY <3>2, <1>1, <1>2, NewVersions, CommitTyped DEF TypeOK, Commit
    <3> QED  BY <3>1, <3>2, <1>8 DEF MarkReady
  <2>4. WorkerTyped'
    BY <1>1, <1>8, DoneTyped, RetryTyped DEF MarkReady
  <2> QED  BY <1>3, <2>2, <2>3, <2>4 DEF TypeOK
<1>9. CASE ApiError
  <2>1. observed' \in [Tenants -> 0 .. ObservedCap]
    BY <1>9 DEF TypeOK, CountersTyped, ApiError
  <2>2. provisions' \in [Tenants -> Nat]
    BY <1>5, <1>9 DEF TypeOK, CountersTyped, ApiError
  <2>3. Spend("errors") /\ Retry /\ UNCHANGED cr
    BY <1>9 DEF ApiError
  <2>4. CountersTyped'
    BY <2>1, <2>2, <2>3, BoundsAssumption DEF TypeOK, CountersTyped, Spend, Limit
  <2> QED  BY <1>1, <1>3, <1>4, <2>3, <2>4, RetryTyped DEF TypeOK
<1> QED  BY <1>6, <1>7, <1>8, <1>9

\* Reconcile starts with a step that needs no version of the Deployment.
LEMMA FirstStepTyped ==
    ASSUME NEW v
    PROVE  FirstStep(v) \in (Steps \ {"updateDeployment"}) \cup {"idle"}
BY DEF FirstStep, Steps

\* A reconcile that starts holds the cached version of its TenantEnvironment.
LEMMA TakeTyped ==
    ASSUME TypeOK, NEW t \in Tenants, NEW kind,
           NEW step \in (Steps \ {"updateDeployment"}) \cup {"idle"}, Take(<<kind, t>>, step),
           UNCHANGED observed \/ Observe(t)
    PROVE  TypeOK'
<1>1. /\ queue' \subseteq queue
      /\ w' = IF step = "idle" THEN Idle
              ELSE [step |-> step, tenant |-> t, rv |-> crSeen[t], dv |-> 0]
      /\ UNCHANGED <<cr, crSeen, obj, objSeen, provisions, budget>>
  BY DEF Take
<1>2. crSeen[t] \in Nat /\ crSeen[t] \in 1 .. Len(cr[t])
  BY DEF TypeOK, TenantsTyped
<1>3. WorkerTyped'
  <2>1. queue' \subseteq Requests
    BY <1>1 DEF TypeOK, WorkerTyped
  <2>2. CASE step = "idle"
    BY <1>1, <2>1, <2>2 DEF WorkerTyped, Idle
  <2>3. CASE step # "idle"
    BY <1>1, <1>2, <2>1, <2>3 DEF WorkerTyped, Worker
  <2> QED  BY <2>2, <2>3
<1>4. CountersTyped'
  BY <1>1, ObserveTyped DEF TypeOK, CountersTyped
<1> QED  BY <1>1, <1>3, <1>4, FrameTyped DEF TypeOK

\* Both kinds of request start a well-typed reconcile.
LEMMA QueueTyped ==
    ASSUME TypeOK, NEW t \in Tenants, StartReconcile(t) \/ StartPodEvent(t)
    PROVE  TypeOK'
<1>1. CASE StartReconcile(t)
  BY <1>1, FirstStepTyped, TakeTyped DEF StartReconcile
<1>2. CASE StartPodEvent(t)
  <2>1. PICK step \in {"markReady", "idle"} :
            Take(<<"pod-event", t>>, step) /\ (UNCHANGED observed \/ Observe(t))
    BY <1>2 DEF StartPodEvent
  <2> QED  BY <2>1, TakeTyped DEF Steps
<1> QED  BY <1>1, <1>2

\* A delivered event moves a cache to a version that exists.
LEMMA InformersTyped ==
    ASSUME TypeOK, NEW t \in Tenants,
           DeliverTenant(t) \/ \E k \in Kinds : DeliverObject(k, t)
    PROVE  TypeOK'
<1>1. CASE DeliverTenant(t)
  <2>1. /\ crSeen' = [crSeen EXCEPT ![t] = @ + 1] /\ crSeen[t] < Len(cr[t])
        /\ queue' = queue \cup {<<"tenant", t>>}
        /\ UNCHANGED <<cr, obj, objSeen, w, provisions, observed, budget>>
    BY <1>1 DEF DeliverTenant
  <2>2. TenantsTyped'
    BY <2>1, LatestTyped DEF TypeOK, TenantsTyped
  <2>3. WorkerTyped'
    BY <2>1 DEF TypeOK, WorkerTyped, Requests
  <2> QED  BY <2>1, <2>2, <2>3, FrameTyped DEF TypeOK
<1>2. ASSUME NEW k \in Kinds, DeliverObject(k, t) PROVE TypeOK'
  <2>1. /\ objSeen' = [objSeen EXCEPT ![k][t] = @ + 1] /\ objSeen[k][t] < Len(obj[k][t])
        /\ queue' \subseteq queue \cup {<<"pod-event", t>>}
        /\ UNCHANGED <<cr, crSeen, obj, w, provisions, observed, budget>>
    BY <1>2 DEF DeliverObject, PodToTenantEnvironment
  <2>2. objSeen' = [objSeen EXCEPT ![k] = [objSeen[k] EXCEPT ![t] = objSeen[k][t] + 1]]
    BY <2>1
  <2>3. ASSUME NEW j \in Kinds
        PROVE  /\ objSeen'[j] \in [Tenants -> Nat]
               /\ \A u \in Tenants : objSeen'[j][u] \in 1 .. Len(obj[j][u])
    <3>1. /\ obj[j] \in [Tenants -> Seq(ObjectsOf(j))] /\ objSeen[j] \in [Tenants -> Nat]
          /\ \A u \in Tenants : objSeen[j][u] \in 1 .. Len(obj[j][u])
          /\ DOMAIN objSeen = Kinds
      BY DEF TypeOK, ObjectsTyped
    <3>2. CASE j # k
      BY <2>2, <3>1, <3>2
    <3>3. CASE j = k
      <4>1. objSeen'[j] = [objSeen[j] EXCEPT ![t] = objSeen[j][t] + 1]
        BY <2>2, <3>1, <3>3
      <4>2. \A u \in Tenants : Len(obj[j][u]) \in Nat
        BY <3>1
      <4> QED  BY <2>1, <3>1, <3>3, <4>1, <4>2
    <3> QED  BY <3>2, <3>3
  <2>4. ObjectsTyped'
    BY <2>1, <2>2, <2>3 DEF TypeOK, ObjectsTyped
  <2>5. WorkerTyped'
    BY <2>1 DEF TypeOK, WorkerTyped, Requests
  <2> QED  BY <2>1, <2>4, <2>5, FrameTyped DEF TypeOK
<1> QED  BY <1>1, <1>2

\* The namespace controller and the pods only add versions.
LEMMA ClusterTyped ==
    ASSUME TypeOK, NEW t \in Tenants,
           NamespaceController(t) \/ PodStarts(t) \/ PodBecomesReady(t) \/ PodFails(t)
    PROVE  TypeOK'
<1>1. UNCHANGED <<cr, crSeen, objSeen, queue, w, provisions, observed, budget>>
  BY DEF NamespaceController, PodStarts, PodBecomesReady, PodFails, PodChanges, ClusterStep
<1>2. SUFFICES ASSUME TRUE
               PROVE  /\ ObjectsTyped'
                      /\ \A u \in Tenants :
                            Len(obj["deployment"][u]) <= Len(obj'["deployment"][u])
  <2>1. \A u \in Tenants : Len(obj'["deployment"][u]) \in Nat
    BY <1>2 DEF ObjectsTyped, Kinds
  <2>2. WorkerTyped'
    BY <1>1, <1>2, <2>1, LatestTyped, GrowingTyped DEF TypeOK, WorkerTyped
  <2> QED  BY <1>1, <1>2, <2>2, FrameTyped DEF TypeOK
<1>3. \A j \in Kinds : obj[j] \in [Tenants -> Seq(ObjectsOf(j))]
  BY DEF TypeOK, ObjectsTyped
<1>4. \A j \in Kinds, u \in Tenants : obj[j][u] \in Seq(ObjectsOf(j)) /\ Len(obj[j][u]) \in Nat
  BY <1>3
<1>5. CASE NamespaceController(t)
  <2>1. \A j \in Kinds : obj'[j] =
            [obj[j] EXCEPT ![t] = IF Latest(@) = None THEN @ ELSE Append(@, None)]
    BY <1>5 DEF NamespaceController
  <2>2. DOMAIN obj' = Kinds
    BY <1>5 DEF NamespaceController
  <2>3. ASSUME NEW j \in Kinds
        PROVE  /\ obj'[j] \in [Tenants -> Seq(ObjectsOf(j))]
               /\ \A u \in Tenants : Len(obj[j][u]) <= Len(obj'[j][u])
    <3>1. None \in ObjectsOf(j)
      BY DEF ObjectsOf
    <3>2. Append(obj[j][t], None) \in Seq(ObjectsOf(j))
          /\ Len(Append(obj[j][t], None)) = Len(obj[j][t]) + 1
      BY <3>1, <1>4
    <3>3. obj'[j][t] \in {obj[j][t], Append(obj[j][t], None)}
      BY <2>1, <1>3
    <3>4. \A u \in Tenants \ {t} : obj'[j][u] = obj[j][u]
      BY <2>1, <1>3
    <3>5. obj'[j] = [u \in Tenants |-> obj'[j][u]]
      BY <2>1, <1>3
    <3>6. \A u \in Tenants : obj'[j][u] \in Seq(ObjectsOf(j))
      BY <3>2, <3>3, <3>4, <1>4
    <3>7. \A u \in Tenants : Len(obj[j][u]) <= Len(obj'[j][u])
      BY <3>2, <3>3, <3>4, <1>4
    <3> QED  BY <3>5, <3>6, <3>7
  <2>4. ObjectsTyped'
    <3>1. ASSUME NEW j \in Kinds
          PROVE  /\ objSeen'[j] \in [Tenants -> Nat]
                 /\ \A u \in Tenants : objSeen'[j][u] \in 1 .. Len(obj'[j][u])
      <4>1. \A u \in Tenants : Len(obj'[j][u]) \in Nat
        BY <2>3
      <4> QED  BY <1>1, <1>4, <2>3, <4>1 DEF TypeOK, ObjectsTyped
    <3> QED  BY <1>1, <2>2, <2>3, <3>1 DEF TypeOK, ObjectsTyped
  <2> QED  BY <2>3, <2>4 DEF Kinds
<1>6. CASE PodStarts(t) \/ PodBecomesReady(t) \/ PodFails(t)
  <2>1. PICK v \in {"starting", "ready"} : Put("pod", t, v)
    BY <1>6 DEF PodStarts, PodBecomesReady, PodFails, PodChanges
  <2>2. v \in ObjectsOf("pod")
    BY SpecsAssumption, ObjectValues
  <2> QED  BY <1>1, <1>4, <2>1, <2>2, PutTyped DEF TypeOK, Kinds
<1> QED  BY <1>5, <1>6

\* After a restart the caches hold versions that exist.
LEMMA CrashTyped ==
    ASSUME TypeOK, Crash
    PROVE  TypeOK'
<1>1. TenantsTyped'
  BY LatestTyped DEF TypeOK, TenantsTyped, Crash
<1>2. ObjectsTyped'
  <2>1. ASSUME NEW k \in Kinds
        PROVE  \A t \in Tenants : Len(obj[k][t]) \in Nat /\ Len(obj[k][t]) \in 1 .. Len(obj[k][t])
    <3>1. \A t \in Tenants : obj[k][t] \in Seq(ObjectsOf(k)) /\ objSeen[k][t] \in 1 .. Len(obj[k][t])
      BY DEF TypeOK, ObjectsTyped
    <3> QED  BY <3>1
  <2>2. objSeen' = [k \in Kinds |-> [t \in Tenants |-> Len(obj[k][t])]] /\ UNCHANGED obj
    BY DEF Crash
  <2> QED  BY <2>1, <2>2 DEF TypeOK, ObjectsTyped
<1>3. WorkerTyped'
  BY DEF Crash, WorkerTyped, Requests, Idle
<1>4. CountersTyped'
  BY BoundsAssumption DEF TypeOK, CountersTyped, Crash, Spend, Limit, ObservedCap
<1> QED  BY <1>1, <1>2, <1>3, <1>4 DEF TypeOK

\* The initial state is well typed.
LEMMA InitTyped == Init => TypeOK
<1> SUFFICES ASSUME Init PROVE TypeOK
  OBVIOUS
<1>1. AbsentTenant \in TenantEnvironment
  BY SpecsAssumption DEF AbsentTenant, TenantEnvironment, Life, DatabaseStatus
<1>2. TenantsTyped
  BY <1>1 DEF Init, TenantsTyped
<1>3. ObjectsTyped
  <2>1. \A k \in Kinds : None \in ObjectsOf(k)
    BY DEF ObjectsOf
  <2> QED  BY <2>1 DEF Init, ObjectsTyped
<1>4. WorkerTyped
  BY DEF Init, WorkerTyped, Idle
<1>5. CountersTyped
  BY BoundsAssumption DEF Init, CountersTyped, ObservedCap
<1> QED  BY <1>2, <1>3, <1>4, <1>5 DEF TypeOK

\* Every step keeps the types.
LEMMA NextTyped == TypeOK /\ [Next]_vars => TypeOK'
<1> SUFFICES ASSUME TypeOK, [Next]_vars PROVE TypeOK'
  OBVIOUS
<1>1. CASE UNCHANGED vars
  BY <1>1, FrameTyped DEF vars, TypeOK
<1>2. CASE Next
  BY <1>2, UsersTyped, QueueTyped, InformersTyped, ClusterTyped, StatusStepsTyped,
     ObjectStepsTyped, OtherStepsTyped, CrashTyped DEF Next, ReconcileStep
<1> QED  BY <1>1, <1>2

\* Every variable keeps its type; in particular a running reconcile always
\* holds a version of its TenantEnvironment that exists.
THEOREM TypeCorrect == Spec => []TypeOK
BY InitTyped, NextTyped, PTL DEF Spec

=============================================================================
