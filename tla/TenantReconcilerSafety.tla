----------------------- MODULE TenantReconcilerSafety -----------------------
(***************************************************************************)
(* The safety properties of TenantReconciler, from the inductive invariant *)
(* SafetyInv.  Every step is first summed up by what it may do to the      *)
(* TenantEnvironments (CrSum), the caches (SeenSum), the provisioning      *)
(* calls (ProvisionSum) and the Deployments and pods (ObjectSum); the      *)
(* invariant's parts follow from the summaries, except WorkerOK, which is  *)
(* proved action by action.                                                *)
(***************************************************************************)
EXTENDS TenantReconcilerProofs

\* One version v is added to the TenantEnvironment t, and v follows from the
\* version before it in one of the ways the operator and its users have.
Grows(t, v) ==
    /\ cr' = [cr EXCEPT ![t] = Append(@, v)]
    /\ NeverGoesBack(Latest(cr[t]), v)
    /\ VersionOK(v)
    /\ v.life = "gone" => \/ Latest(cr[t]).life = "gone" \/ ~Latest(cr[t]).finalizer
                          \/ w.step = "removeFinalizer" /\ w.tenant = t
    /\ v.readyAt => Latest(cr[t]).readyAt \/ (w.step = "markReady" /\ w.tenant = t)

CrSum == UNCHANGED cr \/ \E t \in Tenants, v \in TenantEnvironment : Grows(t, v)

SeenSum == \A t \in Tenants : crSeen[t] <= crSeen'[t]

ProvisionSum ==
    \/ UNCHANGED provisions
    \/ /\ w.step = "createPostgreSQL"
       /\ provisions' = [provisions EXCEPT ![w.tenant] = @ + 1]

\* A Deployment or a pod of tenant t is, or was, there.
Served(t) == \E k \in {"deployment", "pod"} : \E n \in 1 .. Len(obj[k][t]) : obj[k][t][n] # None

ObjectSum ==
    \A t \in Tenants : Served(t)' =>
        Served(t) \/ (w.tenant = t /\ w.step \in {"deployment", "updateDeployment"})

\* Everything but pods is created by a reconcile of the tenant.
AppearSum ==
    \A t \in Tenants, k \in Kinds \ {"pod"} :
        Appears(k, t) => w.tenant = t /\ w.step \in CreatingSteps

-----------------------------------------------------------------------------
(* The order on versions *)

\* A version follows from itself.
LEMMA GoesOnReflexive == ASSUME NEW v \in TenantEnvironment PROVE NeverGoesBack(v, v)
<1>1. LifeRank[v.life] \in Nat
  BY DEF TenantEnvironment, Life, LifeRank
<1>2. DatabaseRank[v.databaseStatus] \in Nat
  BY DEF TenantEnvironment, DatabaseStatus, DatabaseRank
<1> QED  BY <1>1, <1>2 DEF NeverGoesBack

\* The ranks of the lives and of the database statuses, and what they tell.
LEMMA RankFacts ==
    ASSUME NEW v \in TenantEnvironment
    PROVE  /\ LifeRank[v.life] \in 0 .. 3 /\ DatabaseRank[v.databaseStatus] \in 0 .. 3
           /\ LifeRank[v.life] = 3 <=> v.life = "gone"
           /\ LifeRank[v.life] >= 2 <=> v.life \in {"deleting", "gone"}
           /\ DatabaseRank[v.databaseStatus] >= 2 <=> Requested(v)
<1>1. v.life \in {"absent", "live", "deleting", "gone"}
  BY DEF TenantEnvironment, Life
<1>2. v.databaseStatus \in {"Unset", "Unassigned", "Provisioning", "Assigned"}
  BY DEF TenantEnvironment, DatabaseStatus
<1>3. /\ LifeRank["absent"] = 0 /\ LifeRank["live"] = 1
      /\ LifeRank["deleting"] = 2 /\ LifeRank["gone"] = 3
  BY DEF LifeRank
<1>4. /\ DatabaseRank["Unset"] = 0 /\ DatabaseRank["Unassigned"] = 1
      /\ DatabaseRank["Provisioning"] = 2 /\ DatabaseRank["Assigned"] = 3
  BY DEF DatabaseRank, DatabaseStatus
<1>5. /\ LifeRank[v.life] \in 0 .. 3
      /\ LifeRank[v.life] = 3 <=> v.life = "gone"
      /\ LifeRank[v.life] >= 2 <=> v.life \in {"deleting", "gone"}
  BY <1>1, <1>3
<1>6. /\ DatabaseRank[v.databaseStatus] \in 0 .. 3
      /\ DatabaseRank[v.databaseStatus] >= 2
            <=> v.databaseStatus \in {"Provisioning", "Assigned"}
  BY <1>2, <1>4
<1> QED  BY <1>5, <1>6 DEF Requested

\* A version that follows from a later one follows from an earlier one.
LEMMA GoesOnTransitive ==
    ASSUME NEW a \in TenantEnvironment, NEW b \in TenantEnvironment,
           NEW c \in TenantEnvironment, NeverGoesBack(a, b), NeverGoesBack(b, c)
    PROVE  NeverGoesBack(a, c)
<1>1. b.life = "gone" => c.life = "gone"
  BY RankFacts DEF NeverGoesBack
<1>2. LifeRank[a.life] <= LifeRank[c.life]
  BY RankFacts DEF NeverGoesBack
<1>3. DatabaseRank[a.databaseStatus] <= DatabaseRank[c.databaseStatus]
  BY RankFacts DEF NeverGoesBack
<1> QED  BY <1>1, <1>2, <1>3 DEF NeverGoesBack

-----------------------------------------------------------------------------
(* Histories *)

\* An earlier version, a later version.
LEMMA Versions ==
    ASSUME TypeOK, HistoryOK, NEW t \in Tenants, NEW i \in 1 .. Len(cr[t])
    PROVE  /\ cr[t][i] \in TenantEnvironment /\ VersionOK(cr[t][i])
           /\ \A j \in i .. Len(cr[t]) : NeverGoesBack(cr[t][i], cr[t][j])
           /\ NeverGoesBack(cr[t][i], Latest(cr[t]))
<1>1. cr[t] \in Seq(TenantEnvironment) /\ Len(cr[t]) \in Nat \ {0}
  BY LatestTyped
<1> QED  BY <1>1 DEF HistoryOK, Latest

\* A version that follows from the newest one keeps the history in order.
LEMMA GrowsHistory ==
    ASSUME TypeOK, HistoryOK, NEW t \in Tenants, NEW v \in TenantEnvironment, Grows(t, v)
    PROVE  /\ HistoryOK' /\ Latest(cr'[t]) = v
           /\ Len(cr'[t]) = Len(cr[t]) + 1
           /\ \A i \in 1 .. Len(cr[t]) : cr'[t][i] = cr[t][i]
           /\ \A u \in Tenants \ {t} : cr'[u] = cr[u]
<1>1. cr \in [Tenants -> Seq(TenantEnvironment)]
  BY DEF TypeOK, TenantsTyped
<1>2. Len(cr[t]) \in Nat \ {0} /\ cr[t] \in Seq(TenantEnvironment)
  BY LatestTyped
<1>3. cr'[t] = Append(cr[t], v) /\ \A u \in Tenants \ {t} : cr'[u] = cr[u]
  BY <1>1 DEF Grows
<1>4. /\ Len(cr'[t]) = Len(cr[t]) + 1 /\ cr'[t][Len(cr[t]) + 1] = v
      /\ \A i \in 1 .. Len(cr[t]) : cr'[t][i] = cr[t][i]
  BY <1>2, <1>3
<1>5. ASSUME NEW i \in 1 .. Len(cr'[t])
      PROVE  /\ VersionOK(cr'[t][i])
             /\ \A j \in i .. Len(cr'[t]) : NeverGoesBack(cr'[t][i], cr'[t][j])
  <2>1. CASE i = Len(cr[t]) + 1
    BY <1>2, <1>4, <2>1, GoesOnReflexive DEF Grows
  <2>2. CASE i # Len(cr[t]) + 1
    <3>1. i \in 1 .. Len(cr[t])
      BY <1>2, <1>4, <2>2
    <3>2. /\ cr[t][i] \in TenantEnvironment /\ VersionOK(cr[t][i])
          /\ \A j \in i .. Len(cr[t]) : NeverGoesBack(cr[t][i], cr[t][j])
          /\ NeverGoesBack(cr[t][i], Latest(cr[t]))
      BY <3>1, Versions
    <3>3. NeverGoesBack(cr[t][i], v)
      BY <3>2, LatestTyped, GoesOnTransitive DEF Grows
    <3>4. ASSUME NEW j \in i .. Len(cr'[t]) PROVE NeverGoesBack(cr'[t][i], cr'[t][j])
      <4>1. CASE j = Len(cr[t]) + 1
        BY <1>4, <3>1, <3>3, <4>1
      <4>2. CASE j # Len(cr[t]) + 1
        BY <1>2, <1>4, <3>1, <3>2, <4>2
      <4> QED  BY <4>1, <4>2
    <3> QED  BY <1>4, <3>1, <3>2, <3>4
  <2> QED  BY <2>1, <2>2
<1>6. HistoryOK'
  <2>1. ASSUME NEW u \in Tenants, NEW i \in 1 .. Len(cr'[u])
        PROVE  /\ VersionOK(cr'[u][i])
               /\ \A j \in i .. Len(cr'[u]) : NeverGoesBack(cr'[u][i], cr'[u][j])
    <3>1. CASE u = t
      BY <1>5, <2>1, <3>1
    <3>2. CASE u # t
      BY <1>3, <2>1, <3>2 DEF HistoryOK
    <3> QED  BY <3>1, <3>2
  <2> QED  BY <2>1 DEF HistoryOK
<1> QED  BY <1>3, <1>4, <1>6 DEF Latest

\* What any step leaves true of the histories: they stay in order, versions
\* that exist stay, and the newest one never goes back.
LEMMA HistoryStep ==
    ASSUME TypeOK, HistoryOK, CrSum
    PROVE  /\ HistoryOK'
           /\ \A t \in Tenants :
                /\ Len(cr[t]) <= Len(cr'[t]) /\ Len(cr'[t]) \in Nat
                /\ \A i \in 1 .. Len(cr[t]) : cr'[t][i] = cr[t][i]
                /\ NeverGoesBack(Latest(cr[t]), Latest(cr'[t]))
                /\ Latest(cr'[t]) \in TenantEnvironment
<1>0. \A t \in Tenants : Len(cr[t]) \in Nat /\ Latest(cr[t]) \in TenantEnvironment
  BY LatestTyped
<1>1. CASE UNCHANGED cr
  <2>1. HistoryOK'
    BY <1>1 DEF HistoryOK
  <2>2. \A t \in Tenants : cr'[t] = cr[t] /\ NeverGoesBack(Latest(cr[t]), Latest(cr[t]))
    BY <1>0, <1>1, GoesOnReflexive
  <2> QED  BY <1>0, <2>1, <2>2
<1>2. ASSUME NEW t \in Tenants, NEW v \in TenantEnvironment, Grows(t, v)
      PROVE  /\ HistoryOK'
             /\ \A u \in Tenants :
                  /\ Len(cr[u]) <= Len(cr'[u]) /\ Len(cr'[u]) \in Nat
                  /\ \A i \in 1 .. Len(cr[u]) : cr'[u][i] = cr[u][i]
                  /\ NeverGoesBack(Latest(cr[u]), Latest(cr'[u]))
                  /\ Latest(cr'[u]) \in TenantEnvironment
  <2>1. /\ HistoryOK' /\ Latest(cr'[t]) = v /\ Len(cr'[t]) = Len(cr[t]) + 1
        /\ \A i \in 1 .. Len(cr[t]) : cr'[t][i] = cr[t][i]
        /\ \A u \in Tenants \ {t} : cr'[u] = cr[u]
    BY <1>2, GrowsHistory
  <2>2. NeverGoesBack(Latest(cr[t]), v)
    BY <1>2 DEF Grows
  <2> QED  BY <1>0, <2>1, <2>2, GoesOnReflexive
<1> QED  BY <1>1, <1>2 DEF CrSum

\* A database, once asked for, stays asked for.
LEMMA RequestedStays ==
    ASSUME NEW a \in TenantEnvironment, NEW b \in TenantEnvironment,
           NeverGoesBack(a, b), Requested(a)
    PROVE  Requested(b)
BY RankFacts DEF NeverGoesBack

-----------------------------------------------------------------------------
(* What a step may do: the summaries *)

\* The copy a running reconcile holds is a version of its TenantEnvironment,
\* the newest one if the API server accepts a write of it.
LEMMA CopyFacts ==
    ASSUME SafetyInv, w.step # "idle"
    PROVE  /\ w.tenant \in Tenants /\ w.rv \in 1 .. Len(cr[w.tenant])
           /\ Copy \in TenantEnvironment /\ VersionOK(Copy)
           /\ Latest(cr[w.tenant]) \in TenantEnvironment
           /\ NeverGoesBack(Copy, Latest(cr[w.tenant]))
           /\ Accepted => Copy = Latest(cr[w.tenant])
<1>1. TypeOK /\ HistoryOK
  BY DEF SafetyInv
<1>2. w.tenant \in Tenants /\ w.rv \in 1 .. Len(cr[w.tenant]) /\ Copy \in TenantEnvironment
  BY <1>1, RunningTyped
<1>3. VersionOK(Copy) /\ NeverGoesBack(Copy, Latest(cr[w.tenant]))
  BY <1>1, <1>2, Versions DEF Copy
<1>4. Latest(cr[w.tenant]) \in TenantEnvironment
  BY <1>1, <1>2, LatestTyped
<1> QED  BY <1>2, <1>3, <1>4 DEF Accepted, IsCurrent, Copy, Latest

\* A reconcile that creates something works for a tenant that still has its
\* finalizer in the API server.
LEMMA CreatingHolds ==
    ASSUME SafetyInv, w.step \in CreatingSteps
    PROVE  /\ w.tenant \in Tenants /\ Copy.finalizer
           /\ Latest(cr[w.tenant]).finalizer /\ Latest(cr[w.tenant]).life # "gone"
<1>1. w.step # "idle" /\ Copy.finalizer /\ Latest(cr[w.tenant]).life # "gone"
  BY DEF SafetyInv, WorkerOK, CreatingSteps
<1> QED  BY <1>1, CopyFacts DEF NeverGoesBack

\* What users write.
LEMMA UsersGrow ==
    ASSUME SafetyInv, NEW t \in Tenants, CreateTenant(t) \/ EditSpec(t) \/ DeleteTenant(t)
    PROVE  CrSum
<1> DEFINE old == Latest(cr[t])
<1>1. old \in TenantEnvironment /\ VersionOK(old)
  BY LatestTyped, Versions DEF SafetyInv, Latest
<1> HIDE DEF old
<1>2. CASE CreateTenant(t)
  <2>1. PICK s \in Specs : cr' = [cr EXCEPT ![t] = Append(@, [old EXCEPT !.life = "live", !.spec = s])]
    BY <1>2 DEF CreateTenant, Write, old
  <2> DEFINE v == [old EXCEPT !.life = "live", !.spec = s]
  <2>2. /\ v \in TenantEnvironment /\ v.life = "live" /\ v.finalizer = old.finalizer
        /\ v.createdAt = old.createdAt /\ v.readyAt = old.readyAt
        /\ v.databaseStatus = old.databaseStatus
    BY <1>1, Zenon DEF TenantEnvironment, Life
  <2>3. cr' = [cr EXCEPT ![t] = Append(@, v)] /\ old.life = "absent"
    BY <1>2, <2>1 DEF CreateTenant, old
  <2> HIDE DEF v
  <2>4. LifeRank[old.life] <= LifeRank[v.life]
    BY <2>2, <2>3 DEF LifeRank
  <2>5. NeverGoesBack(old, v) /\ VersionOK(v)
    BY <1>1, <2>2, <2>4, RankFacts DEF NeverGoesBack, VersionOK
  <2>6. Grows(t, v)
    BY <2>2, <2>3, <2>5 DEF Grows, old
  <2> QED  BY <2>2, <2>6 DEF CrSum
<1>3. CASE EditSpec(t)
  <2>1. PICK s \in Specs : cr' = [cr EXCEPT ![t] = Append(@, [old EXCEPT !.spec = s])]
    BY <1>3 DEF EditSpec, Write, old
  <2> DEFINE v == [old EXCEPT !.spec = s]
  <2>2. /\ v \in TenantEnvironment /\ v.life = old.life /\ v.finalizer = old.finalizer
        /\ v.createdAt = old.createdAt /\ v.readyAt = old.readyAt
        /\ v.databaseStatus = old.databaseStatus
    BY <1>1, Zenon DEF TenantEnvironment
  <2>3. cr' = [cr EXCEPT ![t] = Append(@, v)]
    BY <2>1
  <2> HIDE DEF v
  <2>5. NeverGoesBack(old, v) /\ VersionOK(v)
    BY <1>1, <2>2, RankFacts DEF NeverGoesBack, VersionOK
  <2>6. Grows(t, v)
    BY <2>2, <2>3, <2>5 DEF Grows, old
  <2> QED  BY <2>2, <2>6 DEF CrSum
<1>4. CASE DeleteTenant(t)
  <2>1. PICK l \in {"deleting", "gone"} :
            /\ cr' = [cr EXCEPT ![t] = Append(@, [old EXCEPT !.life = l])]
            /\ l = "gone" => ~old.finalizer
    BY <1>4 DEF DeleteTenant, Write, old
  <2> DEFINE v == [old EXCEPT !.life = l]
  <2>2. /\ v \in TenantEnvironment /\ v.life = l /\ v.finalizer = old.finalizer
        /\ v.createdAt = old.createdAt /\ v.readyAt = old.readyAt
        /\ v.databaseStatus = old.databaseStatus
    BY <1>1, Zenon DEF TenantEnvironment, Life
  <2>3. cr' = [cr EXCEPT ![t] = Append(@, v)] /\ old.life = "live"
    BY <1>4, <2>1 DEF DeleteTenant, old
  <2> HIDE DEF v
  <2>4. LifeRank[old.life] <= LifeRank[v.life]
    BY <2>2, <2>3 DEF LifeRank
  <2>5. NeverGoesBack(old, v) /\ VersionOK(v)
    BY <1>1, <2>2, <2>4, RankFacts DEF NeverGoesBack, VersionOK
  <2>6. Grows(t, v)
    BY <2>1, <2>2, <2>3, <2>5 DEF Grows, old
  <2> QED  BY <2>2, <2>6 DEF CrSum
<1> QED  BY <1>2, <1>3, <1>4

\* An accepted write of the reconcile's copy, changed to v.
LEMMA CommitGrows ==
    ASSUME SafetyInv, w.step # "idle", Accepted, NEW v \in TenantEnvironment, Commit(v),
           NeverGoesBack(Copy, v), VersionOK(v),
           v.life = "gone" => Copy.life = "gone" \/ w.step = "removeFinalizer",
           v.readyAt => Copy.readyAt \/ w.step = "markReady"
    PROVE  CrSum
<1>1. w.tenant \in Tenants /\ Copy = Latest(cr[w.tenant])
  BY CopyFacts
<1>2. Grows(w.tenant, v)
  BY <1>1 DEF Grows, Commit
<1> QED  BY <1>1, <1>2 DEF CrSum

\* The statuses and the finalizer the reconciler writes.
LEMMA StatusStepsGrow ==
    ASSUME SafetyInv,
           \/ SetCreatedAt \/ AddFinalizer \/ CheckDatabase \/ SetAssigned
           \/ RemoveFinalizer \/ MarkReady
    PROVE  CrSum
<1> DEFINE old == Copy
<1>1. w.step # "idle"
  BY DEF SetCreatedAt, AddFinalizer, CheckDatabase, SetAssigned, RemoveFinalizer,
         MarkReady, StepOf
<1>2. old \in TenantEnvironment /\ VersionOK(old)
  BY <1>1, CopyFacts
<1>3. LifeRank[old.life] \in 0 .. 3 /\ DatabaseRank[old.databaseStatus] \in 0 .. 3
  BY <1>2, RankFacts
<1>4. UNCHANGED cr => CrSum
  BY DEF CrSum
<1> HIDE DEF old
<1>5. CASE SetCreatedAt
  <2> DEFINE v == [old EXCEPT !.createdAt = TRUE, !.databaseStatus = "Unassigned"]
  <2>1. UNCHANGED cr \/ (Accepted /\ Commit(v))
    BY <1>5 DEF SetCreatedAt, old
  <2>2. /\ v \in TenantEnvironment /\ v.life = old.life /\ v.finalizer = old.finalizer
        /\ v.createdAt /\ v.readyAt = old.readyAt /\ v.databaseStatus = "Unassigned"
    BY <1>2, Zenon DEF TenantEnvironment, DatabaseStatus
  <2> HIDE DEF v
  <2>3. ~old.createdAt
    BY <1>5 DEF SafetyInv, WorkerOK, SetCreatedAt, StepOf, old
  <2>4. DatabaseRank[old.databaseStatus] <= DatabaseRank[v.databaseStatus]
    BY <1>2, <2>2, <2>3 DEF VersionOK, DatabaseRank, DatabaseStatus
  <2>5. NeverGoesBack(old, v) /\ VersionOK(v)
    BY <1>2, <1>3, <2>2, <2>4 DEF NeverGoesBack, VersionOK
  <2> QED  BY <1>1, <1>4, <2>1, <2>2, <2>5, CommitGrows DEF old
<1>6. CASE AddFinalizer
  <2>4. PICK s \in Specs : s = AsSent(old.spec)
    BY <1>2, RoundTripAssumption DEF TenantEnvironment
  <2> DEFINE v == [old EXCEPT !.finalizer = TRUE, !.spec = s]
  <2>1. UNCHANGED cr \/ (Accepted /\ Commit(v))
    BY <1>6, <2>4 DEF AddFinalizer, old
  <2>2. /\ v \in TenantEnvironment /\ v.life = old.life /\ v.finalizer
        /\ v.createdAt = old.createdAt /\ v.readyAt = old.readyAt
        /\ v.databaseStatus = old.databaseStatus
    BY <1>2, Zenon DEF TenantEnvironment
  <2> HIDE DEF v
  <2>3. old.createdAt
    BY <1>6 DEF SafetyInv, WorkerOK, AddFinalizer, StepOf, old
  <2>5. NeverGoesBack(old, v) /\ VersionOK(v)
    BY <1>2, <1>3, <2>2, <2>3 DEF NeverGoesBack, VersionOK
  <2> QED  BY <1>1, <1>4, <2>1, <2>2, <2>5, CommitGrows DEF old
<1>7. CASE CheckDatabase \/ SetAssigned
  <2>1. PICK d \in {"Provisioning", "Assigned"} :
            \/ UNCHANGED cr
            \/ /\ Accepted /\ Commit([old EXCEPT !.databaseStatus = d])
               /\ d = "Provisioning" => NeedsDatabase
    BY <1>7 DEF CheckDatabase, SetAssigned, old
  <2> DEFINE v == [old EXCEPT !.databaseStatus = d]
  <2>2. /\ v \in TenantEnvironment /\ v.life = old.life /\ v.finalizer = old.finalizer
        /\ v.createdAt = old.createdAt /\ v.readyAt = old.readyAt /\ v.databaseStatus = d
    BY <1>2, Zenon DEF TenantEnvironment, DatabaseStatus
  <2>3. UNCHANGED cr \/ (Accepted /\ Commit(v) /\ (d = "Provisioning" => NeedsDatabase))
    BY <2>1
  <2> HIDE DEF v
  <2>4. old.createdAt
    BY <1>2, <1>7, CreatingHolds
       DEF VersionOK, CheckDatabase, SetAssigned, StepOf, CreatingSteps, old
  <2>5. CASE Accepted /\ Commit(v) /\ (d = "Provisioning" => NeedsDatabase)
    <3>1. DatabaseRank[old.databaseStatus] <= DatabaseRank[v.databaseStatus]
      <4>1. DatabaseRank["Provisioning"] = 2 /\ DatabaseRank["Assigned"] = 3
        BY DEF DatabaseRank, DatabaseStatus
      <4>2. NeedsDatabase => DatabaseRank[old.databaseStatus] < 2
        BY <1>2, <1>3, RankFacts DEF NeedsDatabase, Requested, old
      <4> QED  BY <1>3, <2>2, <2>5, <4>1, <4>2
    <3>2. NeverGoesBack(old, v) /\ VersionOK(v)
      BY <1>2, <1>3, <2>2, <2>4, <3>1 DEF NeverGoesBack, VersionOK
    <3> QED  BY <1>1, <2>2, <2>5, <3>2, CommitGrows DEF old
  <2> QED  BY <1>4, <2>3, <2>5
<1>8. CASE RemoveFinalizer
  <2>4. PICK s \in Specs : s = AsSent(old.spec)
    BY <1>2, RoundTripAssumption DEF TenantEnvironment
  <2> DEFINE v == [old EXCEPT !.finalizer = FALSE, !.life = "gone", !.spec = s]
  <2>1. w.step = "removeFinalizer" /\ (UNCHANGED cr \/ (Accepted /\ Commit(v)))
    BY <1>8, <2>4 DEF RemoveFinalizer, StepOf, old
  <2>2. /\ v \in TenantEnvironment /\ v.life = "gone" /\ ~v.finalizer
        /\ v.createdAt = old.createdAt /\ v.readyAt = old.readyAt
        /\ v.databaseStatus = old.databaseStatus
    BY <1>2, Zenon DEF TenantEnvironment, Life
  <2> HIDE DEF v
  <2>3. LifeRank[v.life] = 3
    BY <2>2 DEF LifeRank
  <2>5. NeverGoesBack(old, v) /\ VersionOK(v)
    BY <1>2, <1>3, <2>2, <2>3 DEF NeverGoesBack, VersionOK
  <2> QED  BY <1>1, <1>4, <2>1, <2>2, <2>5, CommitGrows DEF old
<1>9. CASE MarkReady
  <2> DEFINE v == [old EXCEPT !.readyAt = TRUE]
  <2>1. w.step = "markReady" /\ (UNCHANGED cr \/ (Accepted /\ Commit(v)))
    BY <1>9 DEF MarkReady, StepOf, old
  <2>2. /\ v \in TenantEnvironment /\ v.life = old.life /\ v.finalizer = old.finalizer
        /\ v.createdAt = old.createdAt /\ v.readyAt
        /\ v.databaseStatus = old.databaseStatus
    BY <1>2, Zenon DEF TenantEnvironment
  <2> HIDE DEF v
  <2>5. NeverGoesBack(old, v) /\ VersionOK(v)
    BY <1>2, <1>3, <2>2 DEF NeverGoesBack, VersionOK
  <2> QED  BY <1>1, <1>4, <2>1, <2>2, <2>5, CommitGrows DEF old
<1> QED  BY <1>5, <1>6, <1>7, <1>8, <1>9

\* One object changes: the others neither appear nor start to serve.
LEMMA PutSums ==
    ASSUME TypeOK, NEW k \in Kinds, NEW t \in Tenants, NEW v \in ObjectsOf(k), Put(k, t, v),
           UNCHANGED objSeen
    PROVE  /\ \A u \in Tenants : Served(u)' =>
                Served(u) \/ (u = t /\ k \in {"deployment", "pod"} /\ v # None)
           /\ \A u \in Tenants, j \in Kinds : Appears(j, u) =>
                u = t /\ j = k /\ Latest(obj[k][t]) = None /\ v # None
<1>1. /\ obj'[k][t] = Append(obj[k][t], v) /\ Len(obj'[k][t]) = Len(obj[k][t]) + 1
      /\ \A j \in Kinds, u \in Tenants : j # k \/ u # t => obj'[j][u] = obj[j][u]
  BY PutTyped DEF TypeOK
<1>2. obj[k][t] \in Seq(ObjectsOf(k)) /\ Len(obj[k][t]) \in Nat
  BY DEF TypeOK, ObjectsTyped
<1>3. /\ \A n \in 1 .. Len(obj[k][t]) : obj'[k][t][n] = obj[k][t][n]
      /\ obj'[k][t][Len(obj[k][t]) + 1] = v
  BY <1>1, <1>2
<1>4. Latest(obj'[k][t]) = v
  BY <1>1, <1>3 DEF Latest
<1>5. ASSUME NEW u \in Tenants, Served(u)', ~Served(u)
      PROVE  u = t /\ k \in {"deployment", "pod"} /\ v # None
  <2>1. PICK j \in {"deployment", "pod"} : \E n \in 1 .. Len(obj'[j][u]) : obj'[j][u][n] # None
    BY <1>5 DEF Served
  <2>2. PICK n \in 1 .. Len(obj'[j][u]) : obj'[j][u][n] # None
    BY <2>1
  <2>3. \A m \in 1 .. Len(obj[j][u]) : obj[j][u][m] = None
    BY <1>5 DEF Served
  <2>4. j \in Kinds
    BY DEF Kinds
  <2>5. j = k /\ u = t
    BY <1>1, <2>2, <2>3, <2>4
  <2>6. n = Len(obj[k][t]) + 1
    <3>1. n \in 1 .. Len(obj'[k][t]) /\ obj'[k][t][n] # None
      BY <2>2, <2>5
    <3>2. \A m \in 1 .. Len(obj[k][t]) : obj'[k][t][m] = None
      BY <1>3, <2>3, <2>5
    <3> QED  BY <1>1, <1>2, <3>1, <3>2
  <2> QED  BY <1>3, <2>2, <2>5, <2>6
<1>6. ASSUME NEW u \in Tenants, NEW j \in Kinds, Appears(j, u)
      PROVE  u = t /\ j = k /\ Latest(obj[k][t]) = None /\ v # None
  BY <1>1, <1>4, <1>6 DEF Appears
<1> QED  BY <1>5, <1>6

\* The steps that write the tenant's objects.
LEMMA ObjectStepsSum ==
    ASSUME SafetyInv,
           \/ EnsureNamespace \/ EnsureQuota \/ EnsureDeployment \/ UpdateDeployment
           \/ DeleteQuota \/ DeleteNamespace
    PROVE  ObjectSum /\ AppearSum
<1>0. TypeOK
  BY DEF SafetyInv
<1>1. w.step # "idle" /\ UNCHANGED objSeen
  BY DEF EnsureNamespace, EnsureQuota, EnsureDeployment, UpdateDeployment, DeleteQuota,
         DeleteNamespace, StepOf
<1>2. w.tenant \in Tenants /\ Copy.spec \in Specs
  BY <1>0, <1>1, RunningTyped DEF TenantEnvironment
<1>3. CASE UNCHANGED obj
  BY <1>3 DEF ObjectSum, AppearSum, Served, Appears
<1>4. ASSUME NEW k \in Kinds, NEW v \in ObjectsOf(k), Put(k, w.tenant, v),
             v # None /\ Latest(obj[k][w.tenant]) = None => w.step \in CreatingSteps,
             k \in {"deployment", "pod"} => w.step \in {"deployment", "updateDeployment"}
      PROVE  ObjectSum /\ AppearSum
  BY <1>0, <1>1, <1>2, <1>4, PutSums DEF ObjectSum, AppearSum
<1>5. CASE EnsureNamespace \/ EnsureQuota
  <2>1. w.step \in {"namespace", "quota"}
    BY <1>5 DEF EnsureNamespace, EnsureQuota, StepOf
  <2>2. UNCHANGED obj \/ \E k \in {"namespace", "quota"} : \E v \in ObjectsOf(k) : Put(k, w.tenant, v)
    BY <1>2, <1>5, ObjectValues DEF EnsureNamespace, EnsureQuota
  <2> QED  BY <1>3, <1>4, <2>1, <2>2 DEF Kinds, CreatingSteps
<1>6. CASE EnsureDeployment \/ UpdateDeployment
  <2>1. w.step \in {"deployment", "updateDeployment"}
    BY <1>6 DEF EnsureDeployment, UpdateDeployment, StepOf
  <2>2. UNCHANGED obj \/ \E v \in ObjectsOf("deployment") : Put("deployment", w.tenant, v)
    BY <1>2, <1>6, ObjectValues DEF EnsureDeployment, UpdateDeployment
  <2> QED  BY <1>3, <1>4, <2>1, <2>2 DEF Kinds, CreatingSteps
<1>7. CASE DeleteQuota
  <2>1. UNCHANGED obj \/ Put("quota", w.tenant, None)
    BY <1>7 DEF DeleteQuota
  <2>2. None \in ObjectsOf("quota")
    BY DEF ObjectsOf
  <2> QED  BY <1>3, <1>4, <2>1, <2>2 DEF Kinds
<1>8. CASE DeleteNamespace
  <2>1. \/ UNCHANGED obj
        \/ Latest(obj["namespace"][w.tenant]) = "active" /\ Put("namespace", w.tenant, "terminating")
    BY <1>8 DEF DeleteNamespace
  <2>2. "terminating" \in ObjectsOf("namespace") /\ None # "active"
    BY <1>2, ObjectValues, NoneAssumption
  <2> QED  BY <1>3, <1>4, <2>1, <2>2 DEF Kinds
<1> QED  BY <1>5, <1>6, <1>7, <1>8

\* What the rest of the cluster does to the tenant's objects.
LEMMA ClusterSum ==
    ASSUME SafetyInv, NEW t \in Tenants,
           NamespaceController(t) \/ PodStarts(t) \/ PodBecomesReady(t) \/ PodFails(t)
    PROVE  ObjectSum /\ AppearSum
<1>0. TypeOK
  BY DEF SafetyInv
<1>1. \A j \in Kinds, u \in Tenants : obj[j][u] \in Seq(ObjectsOf(j)) /\ Len(obj[j][u]) \in Nat
  BY <1>0 DEF TypeOK, ObjectsTyped
<1>2. CASE NamespaceController(t)
  <2>1. \A j \in Kinds : obj'[j] =
            [obj[j] EXCEPT ![t] = IF Latest(@) = None THEN @ ELSE Append(@, None)]
    BY <1>2 DEF NamespaceController
  <2>2. \A j \in Kinds : obj[j] \in [Tenants -> Seq(ObjectsOf(j))]
    BY <1>0 DEF TypeOK, ObjectsTyped
  <2>3. ASSUME NEW j \in Kinds, NEW u \in Tenants
        PROVE  obj'[j][u] = obj[j][u] \/ obj'[j][u] = Append(obj[j][u], None)
    <3>1. CASE u = t
      BY <2>1, <2>2, <3>1
    <3>2. CASE u # t
      BY <2>1, <2>2, <3>2
    <3> QED  BY <3>1, <3>2
  <2>4. ASSUME NEW j \in Kinds, NEW u \in Tenants
        PROVE  /\ ~Appears(j, u)
               /\ \A n \in 1 .. Len(obj'[j][u]) : obj'[j][u][n] # None =>
                        n \in 1 .. Len(obj[j][u]) /\ obj[j][u][n] # None
    <3>1. CASE obj'[j][u] = obj[j][u]
      BY <3>1 DEF Appears
    <3>2. CASE obj'[j][u] = Append(obj[j][u], None)
      <4>1. /\ Len(obj'[j][u]) = Len(obj[j][u]) + 1 /\ obj'[j][u][Len(obj[j][u]) + 1] = None
            /\ \A n \in 1 .. Len(obj[j][u]) : obj'[j][u][n] = obj[j][u][n]
        BY <1>1, <3>2
      <4> QED  BY <1>1, <4>1 DEF Appears, Latest
    <3> QED  BY <2>3, <3>1, <3>2
  <2>5. \A u \in Tenants : Served(u)' => Served(u)
    BY <2>4 DEF Served, Kinds
  <2> QED  BY <2>4, <2>5 DEF ObjectSum, AppearSum
<1>3. CASE PodStarts(t) \/ PodBecomesReady(t) \/ PodFails(t)
  <2>1. PICK v \in {"starting", "ready"} : Put("pod", t, v)
    BY <1>3 DEF PodStarts, PodBecomesReady, PodFails, PodChanges
  <2>2. UNCHANGED objSeen /\ Latest(obj["deployment"][t]) # None
    BY <1>3 DEF PodStarts, PodBecomesReady, PodFails, PodChanges, ClusterStep
  <2>3. v \in ObjectsOf("pod")
    BY SpecsAssumption, ObjectValues
  <2>4. Len(obj["deployment"][t]) \in 1 .. Len(obj["deployment"][t])
    BY <1>0 DEF TypeOK, ObjectsTyped, Kinds
  <2>5. Served(t)
    BY <2>2, <2>4 DEF Served, Latest
  <2>6. /\ \A u \in Tenants : Served(u)' => Served(u) \/ u = t
        /\ \A u \in Tenants, j \in Kinds : Appears(j, u) => j = "pod"
    BY <1>0, <2>1, <2>2, <2>3, PutSums DEF Kinds
  <2> QED  BY <2>5, <2>6 DEF ObjectSum, AppearSum
<1> QED  BY <1>2, <1>3

\* Objects that do not change are not created, and serve no more than before.
LEMMA FrameSums ==
    /\ UNCHANGED cr => CrSum
    /\ UNCHANGED obj => ObjectSum /\ AppearSum
    /\ UNCHANGED provisions => ProvisionSum
BY DEF CrSum, ObjectSum, AppearSum, ProvisionSum, Served, Appears

\* Every step is within the summaries.
LEMMA StepSums ==
    ASSUME SafetyInv, [Next]_vars
    PROVE  CrSum /\ SeenSum /\ ProvisionSum /\ ObjectSum /\ AppearSum
<1>0. \A t \in Tenants : crSeen[t] \in Nat /\ crSeen[t] <= Len(cr[t]) /\ Len(cr[t]) \in Nat
  BY LatestTyped DEF SafetyInv, TypeOK, TenantsTyped
<1>1. UNCHANGED crSeen => SeenSum
  BY <1>0 DEF SeenSum
<1>2. CASE UNCHANGED vars
  BY <1>1, <1>2, FrameSums DEF vars
<1>3. ASSUME NEW t \in Tenants, CreateTenant(t) \/ EditSpec(t) \/ DeleteTenant(t)
      PROVE  CrSum /\ SeenSum /\ ProvisionSum /\ ObjectSum /\ AppearSum
  <2>1. UNCHANGED <<crSeen, obj, provisions>>
    BY <1>3 DEF CreateTenant, EditSpec, DeleteTenant, Write
  <2> QED  BY <1>1, <1>3, <2>1, UsersGrow, FrameSums
<1>4. ASSUME NEW t \in Tenants, StartReconcile(t) \/ StartPodEvent(t)
      PROVE  CrSum /\ SeenSum /\ ProvisionSum /\ ObjectSum /\ AppearSum
  <2>1. UNCHANGED <<cr, crSeen, obj, provisions>>
    BY <1>4 DEF StartReconcile, StartPodEvent, Take
  <2> QED  BY <1>1, <2>1, FrameSums
<1>5. ASSUME NEW t \in Tenants, DeliverTenant(t)
      PROVE  CrSum /\ SeenSum /\ ProvisionSum /\ ObjectSum /\ AppearSum
  <2>1. UNCHANGED <<cr, obj, provisions>> /\ crSeen' = [crSeen EXCEPT ![t] = @ + 1]
    BY <1>5 DEF DeliverTenant
  <2>2. SeenSum
    BY <1>0, <2>1 DEF SeenSum, SafetyInv, TypeOK, TenantsTyped
  <2> QED  BY <2>1, <2>2, FrameSums
<1>6. ASSUME NEW t \in Tenants, NEW k \in Kinds, DeliverObject(k, t)
      PROVE  CrSum /\ SeenSum /\ ProvisionSum /\ ObjectSum /\ AppearSum
  <2>1. UNCHANGED <<cr, crSeen, obj, provisions>>
    BY <1>6 DEF DeliverObject
  <2> QED  BY <1>1, <2>1, FrameSums
<1>7. ASSUME NEW t \in Tenants,
             NamespaceController(t) \/ PodStarts(t) \/ PodBecomesReady(t) \/ PodFails(t)
      PROVE  CrSum /\ SeenSum /\ ProvisionSum /\ ObjectSum /\ AppearSum
  <2>1. UNCHANGED <<cr, crSeen, provisions>>
    BY <1>7 DEF NamespaceController, PodStarts, PodBecomesReady, PodFails, PodChanges, ClusterStep
  <2> QED  BY <1>1, <1>7, <2>1, ClusterSum, FrameSums
<1>8. CASE \/ SetCreatedAt \/ AddFinalizer \/ CheckDatabase \/ SetAssigned
           \/ RemoveFinalizer \/ MarkReady
  <2>1. UNCHANGED <<crSeen, obj, provisions>>
    BY <1>8 DEF SetCreatedAt, AddFinalizer, CheckDatabase, SetAssigned, RemoveFinalizer,
                MarkReady, StepOf
  <2> QED  BY <1>1, <1>8, <2>1, StatusStepsGrow, FrameSums
<1>9. CASE \/ EnsureNamespace \/ EnsureQuota \/ EnsureDeployment \/ UpdateDeployment
           \/ DeleteQuota \/ DeleteNamespace
  <2>1. UNCHANGED <<cr, crSeen, provisions>>
    BY <1>9 DEF EnsureNamespace, EnsureQuota, EnsureDeployment, UpdateDeployment, DeleteQuota,
                DeleteNamespace, StepOf
  <2> QED  BY <1>1, <1>9, <2>1, ObjectStepsSum, FrameSums
<1>10. CASE CreatePostgreSQL \/ DeletePostgreSQL \/ ApiError
  <2>1. UNCHANGED <<cr, crSeen, obj>>
    BY <1>10 DEF CreatePostgreSQL, DeletePostgreSQL, ApiError, StepOf
  <2>2. ProvisionSum
    BY <1>10 DEF CreatePostgreSQL, DeletePostgreSQL, ApiError, StepOf, Provision, ProvisionSum
  <2> QED  BY <1>1, <2>1, <2>2, FrameSums
<1>11. CASE Crash
  <2>1. UNCHANGED <<cr, obj, provisions>> /\ crSeen' = [t \in Tenants |-> Len(cr[t])]
    BY <1>11 DEF Crash
  <2>2. SeenSum
    BY <1>0, <2>1 DEF SeenSum
  <2> QED  BY <2>1, <2>2, FrameSums
<1> QED  BY <1>2, <1>3, <1>4, <1>5, <1>6, <1>7, <1>8, <1>9, <1>10, <1>11 DEF Next, ReconcileStep

-----------------------------------------------------------------------------
(* The parts of the invariant that follow from the summaries *)

\* While a reconcile creates things, the TenantEnvironment is not removed.
LEMMA NotGone ==
    ASSUME SafetyInv, CrSum, w.step \in CreatingSteps
    PROVE  Latest(cr'[w.tenant]).life # "gone"
<1>1. /\ w.tenant \in Tenants /\ Latest(cr[w.tenant]).finalizer
      /\ Latest(cr[w.tenant]).life # "gone" /\ w.step # "removeFinalizer"
  BY CreatingHolds DEF CreatingSteps
<1>2. CASE UNCHANGED cr
  BY <1>1, <1>2
<1>3. ASSUME NEW t \in Tenants, NEW v \in TenantEnvironment, Grows(t, v)
      PROVE  Latest(cr'[w.tenant]).life # "gone"
  <2>1. Latest(cr'[t]) = v /\ \A u \in Tenants \ {t} : cr'[u] = cr[u]
    BY <1>3, GrowsHistory DEF SafetyInv
  <2>2. t = w.tenant => v.life # "gone"
    BY <1>1, <1>3 DEF Grows
  <2> QED  BY <1>1, <2>1, <2>2
<1> QED  BY <1>2, <1>3 DEF CrSum

\* The finalizer holds the TenantEnvironment as long as the cache shows it live.
LEMMA FinalizerStep ==
    ASSUME SafetyInv, TypeOK', CrSum, SeenSum
    PROVE  FinalizerHolds'
<1>1. SUFFICES ASSUME NEW t \in Tenants, NEW i \in crSeen'[t] .. Len(cr'[t]),
                      cr'[t][i].life = "live", cr'[t][i].finalizer,
                      Latest(cr'[t]).life = "gone"
               PROVE  FALSE
  BY DEF FinalizerHolds
<1>2. TypeOK /\ HistoryOK /\ FinalizerHolds
  BY DEF SafetyInv
<1>3. /\ crSeen[t] \in Nat \ {0} /\ crSeen'[t] \in Nat \ {0} /\ crSeen[t] <= crSeen'[t]
      /\ crSeen[t] <= Len(cr[t]) /\ Len(cr[t]) \in Nat
      /\ crSeen'[t] <= Len(cr'[t]) /\ Len(cr'[t]) \in Nat
  BY <1>2, LatestTyped DEF SeenSum, TypeOK, TenantsTyped
<1>4. ASSUME cr'[t] = cr[t] PROVE FALSE
  BY <1>1, <1>2, <1>3, <1>4 DEF FinalizerHolds
<1>5. ASSUME NEW v \in TenantEnvironment, Grows(t, v) PROVE FALSE
  <2>1. /\ Latest(cr'[t]) = v /\ Len(cr'[t]) = Len(cr[t]) + 1
        /\ \A j \in 1 .. Len(cr[t]) : cr'[t][j] = cr[t][j]
    BY <1>2, <1>5, GrowsHistory
  <2>2. v.life = "gone" /\ cr'[t][Len(cr[t]) + 1] = v
    BY <1>1, <2>1 DEF Latest
  <2>3. i # Len(cr[t]) + 1
    BY <1>1, <2>2
  <2>4. i \in 1 .. Len(cr[t]) /\ i \in crSeen[t] .. Len(cr[t])
    BY <1>3, <2>1, <2>3
  <2>5. cr[t][i].life = "live" /\ cr[t][i].finalizer
    BY <1>1, <2>1, <2>4
  <2>6. Latest(cr[t]).life # "gone"
    BY <1>2, <2>4, <2>5 DEF FinalizerHolds
  <2>7. Latest(cr[t]).finalizer
    BY <1>2, <2>4, <2>5, <2>6, Versions DEF NeverGoesBack
  <2>8. w.step = "removeFinalizer" /\ w.tenant = t
    BY <1>5, <2>2, <2>6, <2>7 DEF Grows
  <2>9. Copy.life = "deleting" /\ w.rv <= crSeen[t] /\ w.rv \in 1 .. Len(cr[t])
    BY <2>8, CopyFacts DEF SafetyInv, WorkerOK, DeletingSteps
  <2>10. NeverGoesBack(Copy, cr[t][i])
    BY <1>2, <1>3, <2>4, <2>8, <2>9, Versions DEF Copy
  <2>11. LifeRank["deleting"] <= LifeRank["live"]
    BY <2>5, <2>9, <2>10 DEF NeverGoesBack
  <2> QED  BY <2>11 DEF LifeRank
<1>6. UNCHANGED cr \/ \E u \in Tenants, v \in TenantEnvironment : Grows(u, v)
  BY DEF CrSum
<1>7. ASSUME NEW u \in Tenants, NEW v \in TenantEnvironment, Grows(u, v) PROVE FALSE
  <2>1. \A x \in Tenants \ {u} : cr'[x] = cr[x]
    BY <1>2, <1>7, GrowsHistory
  <2> QED  BY <1>4, <1>5, <1>7, <2>1
<1> QED  BY <1>4, <1>6, <1>7

\* Nothing that follows the request for a database comes before it.
LEMMA RequestedFirstStep ==
    ASSUME SafetyInv, TypeOK', CrSum, ProvisionSum, ObjectSum
    PROVE  RequestedFirst' /\ ProvisionedAtMostOnce'
<1>1. TypeOK /\ HistoryOK /\ RequestedFirst /\ ProvisionedAtMostOnce /\ WorkerOK
  BY DEF SafetyInv
<1>2. ASSUME w.step \in {"createPostgreSQL", "setAssigned", "deployment", "updateDeployment", "markReady"}
      PROVE  w.tenant \in Tenants /\ Requested(Latest(cr[w.tenant]))
  <2>1. w.step # "idle"
    BY <1>2
  <2>2. w.step # "markReady" => Requested(Copy)
    BY <1>1, <1>2 DEF WorkerOK
  <2>3. w.step = "markReady" => Requested(Latest(cr[w.tenant]))
    BY <1>1 DEF WorkerOK
  <2> QED  BY <2>1, <2>2, <2>3, CopyFacts, RequestedStays
<1>3. provisions \in [Tenants -> Nat]
  BY <1>1 DEF TypeOK, CountersTyped
<1>4. ASSUME NEW t \in Tenants
      PROVE  provisions'[t] = provisions[t] \/ (w.step = "createPostgreSQL" /\ w.tenant = t
                                                /\ provisions'[t] = provisions[t] + 1)
  BY <1>3 DEF ProvisionSum
<1>5. ProvisionedAtMostOnce'
  <2>1. ASSUME NEW t \in Tenants PROVE provisions'[t] <= 1
    <3>1. w.step = "createPostgreSQL" => provisions[w.tenant] = 0
      BY <1>1 DEF WorkerOK
    <3> QED  BY <1>1, <1>4, <3>1 DEF ProvisionedAtMostOnce
  <2> QED  BY <2>1 DEF ProvisionedAtMostOnce
<1>6. ASSUME NEW t \in Tenants, ~Requested(Latest(cr'[t]))
      PROVE  provisions'[t] = 0 /\ ~Latest(cr'[t]).readyAt /\ ~Served(t)'
  <2>1. /\ NeverGoesBack(Latest(cr[t]), Latest(cr'[t]))
        /\ Latest(cr[t]) \in TenantEnvironment /\ Latest(cr'[t]) \in TenantEnvironment
    BY <1>1, HistoryStep, LatestTyped
  <2>2. ~Requested(Latest(cr[t]))
    BY <1>6, <2>1, RequestedStays
  <2>3. provisions[t] = 0 /\ ~Latest(cr[t]).readyAt /\ ~Served(t)
    BY <1>1, <2>2 DEF RequestedFirst, Served
  <2>4. w.tenant = t =>
          w.step \notin {"createPostgreSQL", "setAssigned", "deployment", "updateDeployment", "markReady"}
    BY <1>2, <2>2
  <2>5. provisions'[t] = 0
    BY <1>4, <2>3, <2>4
  <2>6. ~Served(t)'
    BY <2>3, <2>4 DEF ObjectSum
  <2>7. ASSUME NEW u \in Tenants, NEW v \in TenantEnvironment, Grows(u, v)
        PROVE  ~Latest(cr'[t]).readyAt
    <3>1. Latest(cr'[u]) = v /\ \A x \in Tenants \ {u} : cr'[x] = cr[x]
      BY <1>1, <2>7, GrowsHistory
    <3>2. u = t => ~v.readyAt
      BY <2>3, <2>4, <2>7 DEF Grows
    <3> QED  BY <2>3, <3>1, <3>2
  <2>8. ~Latest(cr'[t]).readyAt
    BY <2>3, <2>7 DEF CrSum
  <2> QED  BY <2>5, <2>6, <2>8
<1>7. RequestedFirst'
  BY <1>6 DEF RequestedFirst, Served
<1> QED  BY <1>5, <1>7

-----------------------------------------------------------------------------
(* What the running reconcile knows *)

\* A worker with nothing to do.
LEMMA WorkerIdle == ASSUME w' = Idle PROVE WorkerOK'
BY DEF Idle, WorkerOK, CreatingSteps, DeletingSteps

\* What a reconcile knows stays true when others take a step.
LEMMA WorkerStays ==
    ASSUME SafetyInv, TypeOK', CrSum, SeenSum, UNCHANGED <<w, provisions, observed>>
    PROVE  WorkerOK'
<1>1. CASE w.step = "idle"
  BY <1>1 DEF WorkerOK, CreatingSteps, DeletingSteps
<1>2. CASE w.step # "idle"
  <2>1. w.tenant \in Tenants /\ w.rv \in 1 .. Len(cr[w.tenant])
        /\ Latest(cr[w.tenant]) \in TenantEnvironment
    BY <1>2, CopyFacts
  <2>2. /\ cr'[w.tenant][w.rv] = cr[w.tenant][w.rv]
        /\ NeverGoesBack(Latest(cr[w.tenant]), Latest(cr'[w.tenant]))
        /\ Latest(cr'[w.tenant]) \in TenantEnvironment
    BY <2>1, HistoryStep DEF SafetyInv
  <2>3. Copy' = Copy
    BY <2>2 DEF Copy
  <2>4. w.step \in CreatingSteps => Latest(cr'[w.tenant]).life # "gone"
    BY NotGone
  <2>5. w.step = "markReady" => Requested(Latest(cr'[w.tenant]))
    BY <2>1, <2>2, RequestedStays DEF SafetyInv, WorkerOK
  <2>6. w.step \in DeletingSteps => w.rv <= crSeen'[w.tenant]
    <3>1. /\ crSeen[w.tenant] \in Nat /\ crSeen'[w.tenant] \in Nat
          /\ crSeen[w.tenant] <= crSeen'[w.tenant]
      BY <2>1 DEF SeenSum, SafetyInv, TypeOK, TenantsTyped
    <3>2. w.step \in DeletingSteps => w.rv <= crSeen[w.tenant]
      BY DEF SafetyInv, WorkerOK
    <3> QED  BY <2>1, <3>1, <3>2
  <2> QED  BY <2>3, <2>4, <2>5, <2>6 DEF SafetyInv, WorkerOK
<1> QED  BY <1>1, <1>2

\* A reconcile goes on with the same copy.
LEMMA GoesOn ==
    ASSUME SafetyInv, UNCHANGED <<cr, crSeen>>, NEW step, NEW dv, w' = At(step, w.rv, dv),
           \/ /\ w.step \in CreatingSteps /\ step \in CreatingSteps \ {"createPostgreSQL"}
              /\ step \in {"setAssigned", "deployment", "updateDeployment"} => Requested(Copy)
           \/ w.step \in DeletingSteps /\ step \in DeletingSteps
    PROVE  WorkerOK'
<1>1. w'.step = step /\ w'.tenant = w.tenant /\ w'.rv = w.rv /\ Copy' = Copy
  BY DEF At, Copy
<1>2. CASE w.step \in CreatingSteps /\ step \in CreatingSteps \ {"createPostgreSQL"}
           /\ (step \in {"setAssigned", "deployment", "updateDeployment"} => Requested(Copy))
  BY <1>1, <1>2 DEF SafetyInv, WorkerOK, CreatingSteps, DeletingSteps
<1>3. CASE w.step \in DeletingSteps /\ step \in DeletingSteps
  BY <1>1, <1>3 DEF SafetyInv, WorkerOK, CreatingSteps, DeletingSteps
<1> QED  BY <1>2, <1>3

\* A reconcile goes on with the version its write returned.
LEMMA GoesOnWithNew ==
    ASSUME SafetyInv, CrSum, w.step # "idle", Accepted, NEW v \in TenantEnvironment, Commit(v),
           NEW step, ContinueWithNew(step), UNCHANGED provisions,
           \/ step = "addFinalizer" /\ v.createdAt
           \/ /\ w.step \in CreatingSteps /\ v.finalizer
              /\ step \in {"createPostgreSQL", "deployment"} /\ Requested(v)
              /\ step = "createPostgreSQL" => ~Requested(Copy)
    PROVE  WorkerOK'
<1>1. w.tenant \in Tenants /\ Copy = Latest(cr[w.tenant])
  BY CopyFacts
<1>2. cr[w.tenant] \in Seq(TenantEnvironment) /\ Len(cr[w.tenant]) \in Nat /\ w.rv = Len(cr[w.tenant])
  BY <1>1, LatestTyped DEF SafetyInv, Accepted, IsCurrent
<1>3. cr'[w.tenant] = Append(cr[w.tenant], v)
  BY <1>1 DEF SafetyInv, TypeOK, TenantsTyped, Commit
<1>4. cr'[w.tenant][w.rv + 1] = v
  BY <1>2, <1>3
<1>5. w'.step = step /\ w'.tenant = w.tenant /\ w'.rv = w.rv + 1
  BY DEF ContinueWithNew, At
<1>6. Copy' = v
  BY <1>4, <1>5 DEF Copy
<1>7. CASE step = "addFinalizer" /\ v.createdAt
  BY <1>5, <1>6, <1>7 DEF WorkerOK, CreatingSteps, DeletingSteps
<1>8. CASE /\ w.step \in CreatingSteps /\ v.finalizer
           /\ step \in {"createPostgreSQL", "deployment"} /\ Requested(v)
           /\ step = "createPostgreSQL" => ~Requested(Copy)
  <2>1. Latest(cr'[w'.tenant]).life # "gone"
    BY <1>5, <1>8, NotGone
  <2>2. step = "createPostgreSQL" => provisions'[w'.tenant] = 0
    BY <1>1, <1>5, <1>8 DEF SafetyInv, RequestedFirst
  <2> QED  BY <1>5, <1>6, <1>8, <2>1, <2>2 DEF WorkerOK, CreatingSteps, DeletingSteps
<1> QED  BY <1>7, <1>8

\* A reconcile starts with the cached version.
LEMMA StartKnows ==
    ASSUME SafetyInv, NEW t \in Tenants, StartReconcile(t) \/ StartPodEvent(t)
    PROVE  WorkerOK'
<1> DEFINE c == CachedTenant(t)
<1>1. UNCHANGED <<cr, crSeen, provisions>> /\ crSeen[t] \in Nat /\ crSeen[t] \in 1 .. Len(cr[t])
      /\ Len(cr[t]) \in Nat
  BY LatestTyped DEF StartReconcile, StartPodEvent, Take, SafetyInv, TypeOK, TenantsTyped
<1>2. ASSUME NEW step, step # "idle", w' = [step |-> step, tenant |-> t, rv |-> crSeen[t], dv |-> 0]
      PROVE  w'.step = step /\ w'.tenant = t /\ w'.rv = crSeen[t] /\ Copy' = c
  BY <1>1, <1>2 DEF Copy, CachedTenant
<1>3. CASE StartReconcile(t)
  <2>1. PICK step : /\ step = FirstStep(c)
                    /\ w' = IF step = "idle" THEN Idle
                            ELSE [step |-> step, tenant |-> t, rv |-> crSeen[t], dv |-> 0]
    BY <1>3 DEF StartReconcile, Take
  <2>2. CASE step = "idle"
    BY <2>1, <2>2, WorkerIdle
  <2>3. CASE step # "idle"
    <3>1. w'.step = step /\ w'.tenant = t /\ w'.rv = crSeen[t] /\ Copy' = c
      BY <1>2, <2>1, <2>3
    <3>2. \/ step = "deletePostgreSQL" /\ c.life = "deleting"
          \/ step = "namespace" /\ c.life = "live" /\ c.finalizer
          \/ step = "addFinalizer" /\ c.createdAt
          \/ step = "setCreatedAt" /\ ~c.createdAt
      BY <2>1, <2>3 DEF FirstStep
    <3>3. c.life = "live" /\ c.finalizer => Latest(cr'[t]).life # "gone"
      BY <1>1 DEF SafetyInv, FinalizerHolds, CachedTenant
    <3> HIDE DEF c
    <3> QED  BY <1>1, <3>1, <3>2, <3>3 DEF WorkerOK, CreatingSteps, DeletingSteps
  <2> QED  BY <2>2, <2>3
<1>4. CASE StartPodEvent(t)
  <2>1. \/ w' = Idle
        \/ /\ w' = [step |-> "markReady", tenant |-> t, rv |-> crSeen[t], dv |-> 0]
           /\ ReadyToMark(t) /\ Observe(t)
    BY <1>4 DEF StartPodEvent, Take
  <2>2. CASE w' = Idle
    BY <2>2, WorkerIdle
  <2>3. CASE /\ w' = [step |-> "markReady", tenant |-> t, rv |-> crSeen[t], dv |-> 0]
             /\ ReadyToMark(t) /\ Observe(t)
    <3>1. w'.step = "markReady" /\ w'.tenant = t /\ Copy' = c
      BY <1>2, <2>3
    <3>2. objSeen["pod"][t] \in 1 .. Len(obj["pod"][t])
      BY DEF SafetyInv, TypeOK, ObjectsTyped, Kinds
    <3>3. obj["pod"][t][objSeen["pod"][t]] # None
      BY <2>3, NoneAssumption DEF ReadyToMark, Cached
    <3>4. Requested(Latest(cr[t]))
      BY <3>2, <3>3 DEF SafetyInv, RequestedFirst
    <3>5. ~c.readyAt
      BY <2>3 DEF ReadyToMark
    <3>6. c.createdAt => observed'[t] >= 1
      BY <2>3 DEF Observe, ObservedCap, SafetyInv, TypeOK, CountersTyped
    <3> HIDE DEF c
    <3> QED  BY <1>1, <3>1, <3>4, <3>5, <3>6 DEF WorkerOK, CreatingSteps, DeletingSteps
  <2> QED  BY <2>1, <2>2, <2>3
<1> QED  BY <1>3, <1>4

\* The steps that write a status or the finalizer.
LEMMA StatusStepsKnow ==
    ASSUME SafetyInv, CrSum,
           \/ SetCreatedAt \/ AddFinalizer \/ CheckDatabase \/ SetAssigned
           \/ RemoveFinalizer \/ MarkReady
    PROVE  WorkerOK'
<1> DEFINE old == Copy
<1>1. w.step # "idle" /\ UNCHANGED <<crSeen, provisions>>
  BY DEF SetCreatedAt, AddFinalizer, CheckDatabase, SetAssigned, RemoveFinalizer,
         MarkReady, StepOf
<1>2. old \in TenantEnvironment /\ VersionOK(old)
  BY <1>1, CopyFacts
<1>3. Retry \/ Done => WorkerOK'
  BY WorkerIdle DEF Retry, Done
<1> HIDE DEF old
<1>4. CASE SetCreatedAt
  <2> DEFINE v == [old EXCEPT !.createdAt = TRUE, !.databaseStatus = "Unassigned"]
  <2>1. Retry \/ (Accepted /\ Commit(v) /\ ContinueWithNew("addFinalizer"))
    BY <1>4 DEF SetCreatedAt, old
  <2>2. v \in TenantEnvironment /\ v.createdAt
    BY <1>2, Zenon DEF TenantEnvironment, DatabaseStatus
  <2> HIDE DEF v
  <2> QED  BY <1>1, <1>3, <2>1, <2>2, GoesOnWithNew
<1>5. CASE AddFinalizer
  BY <1>3, <1>5 DEF AddFinalizer
<1>6. CASE CheckDatabase
  <2> DEFINE v == [old EXCEPT !.databaseStatus = "Provisioning"]
  <2>1. \/ Retry
        \/ ~NeedsDatabase /\ Continue("deployment") /\ UNCHANGED cr
        \/ NeedsDatabase /\ Accepted /\ Commit(v) /\ ContinueWithNew("createPostgreSQL")
    BY <1>6 DEF CheckDatabase, old
  <2>2. /\ v \in TenantEnvironment /\ v.finalizer = old.finalizer
        /\ v.databaseStatus = "Provisioning"
    BY <1>2, Zenon DEF TenantEnvironment, DatabaseStatus
  <2> HIDE DEF v
  <2>3. w.step \in CreatingSteps /\ old.finalizer
    BY <1>6, CreatingHolds DEF CheckDatabase, StepOf, CreatingSteps, old
  <2>4. NeedsDatabase <=> ~Requested(Copy)
    BY <1>2 DEF NeedsDatabase, Requested, TenantEnvironment, DatabaseStatus, old
  <2>5. Requested(v)
    BY <2>2 DEF Requested
  <2>6. CASE ~NeedsDatabase /\ Continue("deployment") /\ UNCHANGED cr
    <3>1. w' = At("deployment", w.rv, w.dv) /\ Requested(Copy)
      BY <2>4, <2>6 DEF Continue
    <3> QED  BY <1>1, <2>3, <2>6, <3>1, GoesOn DEF CreatingSteps
  <2>7. CASE NeedsDatabase /\ Accepted /\ Commit(v) /\ ContinueWithNew("createPostgreSQL")
    BY <1>1, <2>2, <2>3, <2>4, <2>5, <2>7, GoesOnWithNew
  <2> QED  BY <1>3, <2>1, <2>6, <2>7
<1>7. CASE SetAssigned
  <2> DEFINE v == [old EXCEPT !.databaseStatus = "Assigned"]
  <2>1. Retry \/ (Accepted /\ Commit(v) /\ ContinueWithNew("deployment"))
    BY <1>7 DEF SetAssigned, old
  <2>2. /\ v \in TenantEnvironment /\ v.finalizer = old.finalizer
        /\ v.databaseStatus = "Assigned"
    BY <1>2, Zenon DEF TenantEnvironment, DatabaseStatus
  <2> HIDE DEF v
  <2>3. w.step \in CreatingSteps /\ old.finalizer
    BY <1>7, CreatingHolds DEF SetAssigned, StepOf, CreatingSteps, old
  <2>4. Requested(v)
    BY <2>2 DEF Requested
  <2> QED  BY <1>1, <1>3, <2>1, <2>2, <2>3, <2>4, GoesOnWithNew
<1>8. CASE RemoveFinalizer
  BY <1>3, <1>8 DEF RemoveFinalizer
<1>9. CASE MarkReady
  BY <1>3, <1>9 DEF MarkReady
<1> QED  BY <1>4, <1>5, <1>6, <1>7, <1>8, <1>9

\* The steps that write the tenant's objects or call into the database part.
LEMMA ObjectStepsKnow ==
    ASSUME SafetyInv,
           \/ EnsureNamespace \/ EnsureQuota \/ EnsureDeployment \/ UpdateDeployment
           \/ DeleteQuota \/ DeleteNamespace \/ CreatePostgreSQL \/ DeletePostgreSQL
    PROVE  WorkerOK'
<1>1. UNCHANGED <<cr, crSeen>>
  BY DEF EnsureNamespace, EnsureQuota, EnsureDeployment, UpdateDeployment, DeleteQuota,
         DeleteNamespace, CreatePostgreSQL, DeletePostgreSQL, StepOf
<1>2. Retry \/ Done => WorkerOK'
  BY WorkerIdle DEF Retry, Done
<1>3. CASE EnsureNamespace
  <2>1. w.step = "namespace" /\ (Retry \/ w' = At("quota", w.rv, w.dv))
    BY <1>3 DEF EnsureNamespace, StepOf, Continue
  <2> QED  BY <1>1, <1>2, <2>1, GoesOn DEF CreatingSteps
<1>4. CASE EnsureQuota
  <2>1. w.step = "quota" /\ (Retry \/ w' = At("database", w.rv, w.dv))
    BY <1>4 DEF EnsureQuota, StepOf, Continue
  <2> QED  BY <1>1, <1>2, <2>1, GoesOn DEF CreatingSteps
<1>5. CASE EnsureDeployment
  <2>1. w.step = "deployment" /\ (Retry \/ \E dv : w' = At("updateDeployment", w.rv, dv))
    BY <1>5 DEF EnsureDeployment, StepOf
  <2>2. Requested(Copy)
    BY <2>1 DEF SafetyInv, WorkerOK
  <2> QED  BY <1>1, <1>2, <2>1, <2>2, GoesOn DEF CreatingSteps
<1>6. CASE UpdateDeployment
  BY <1>2, <1>6 DEF UpdateDeployment
<1>7. CASE CreatePostgreSQL
  <2>1. w.step = "createPostgreSQL" /\ w' = At("setAssigned", w.rv, w.dv)
    BY <1>7 DEF CreatePostgreSQL, StepOf, Continue
  <2>2. Requested(Copy)
    BY <2>1 DEF SafetyInv, WorkerOK
  <2> QED  BY <1>1, <2>1, <2>2, GoesOn DEF CreatingSteps
<1>8. CASE DeletePostgreSQL
  <2>1. w.step = "deletePostgreSQL" /\ w' = At("deleteQuota", w.rv, w.dv)
    BY <1>8 DEF DeletePostgreSQL, StepOf, Continue
  <2> QED  BY <1>1, <2>1, GoesOn DEF DeletingSteps
<1>9. CASE DeleteQuota
  <2>1. w.step = "deleteQuota" /\ (Retry \/ w' = At("deleteNamespace", w.rv, w.dv))
    BY <1>9 DEF DeleteQuota, StepOf, Continue
  <2> QED  BY <1>1, <1>2, <2>1, GoesOn DEF DeletingSteps
<1>10. CASE DeleteNamespace
  <2>1. w.step = "deleteNamespace" /\ (Retry \/ w' = At("removeFinalizer", w.rv, w.dv))
    BY <1>10 DEF DeleteNamespace, StepOf, Continue
  <2> QED  BY <1>1, <1>2, <2>1, GoesOn DEF DeletingSteps
<1> QED  BY <1>3, <1>4, <1>5, <1>6, <1>7, <1>8, <1>9, <1>10

\* Whatever step is taken, the running reconcile knows what WorkerOK says.
LEMMA WorkerStep ==
    ASSUME SafetyInv, TypeOK', CrSum, SeenSum, [Next]_vars
    PROVE  WorkerOK'
<1>1. CASE UNCHANGED vars
  BY <1>1, WorkerStays DEF vars
<1>2. ASSUME NEW t \in Tenants, StartReconcile(t) \/ StartPodEvent(t) PROVE WorkerOK'
  BY <1>2, StartKnows
<1>3. ASSUME NEW t \in Tenants,
             \/ CreateTenant(t) \/ EditSpec(t) \/ DeleteTenant(t)
             \/ DeliverTenant(t) \/ \E k \in Kinds : DeliverObject(k, t)
             \/ NamespaceController(t) \/ PodStarts(t) \/ PodBecomesReady(t) \/ PodFails(t)
      PROVE  WorkerOK'
  <2>1. UNCHANGED <<w, provisions, observed>>
    BY <1>3 DEF CreateTenant, EditSpec, DeleteTenant, Write, DeliverTenant, DeliverObject,
                NamespaceController, PodStarts, PodBecomesReady, PodFails, PodChanges, ClusterStep
  <2> QED  BY <2>1, WorkerStays
<1>4. CASE ReconcileStep
  BY <1>4, StatusStepsKnow, ObjectStepsKnow DEF ReconcileStep
<1>5. CASE ApiError \/ Crash
  BY <1>5, WorkerIdle DEF ApiError, Crash, Retry
<1> QED  BY <1>1, <1>2, <1>3, <1>4, <1>5 DEF Next

-----------------------------------------------------------------------------
(* The theorems *)

\* In the initial state there is one version of everything: it is not there.
LEMMA SafetyInit == Init => SafetyInv
<1> SUFFICES ASSUME Init PROVE SafetyInv
  OBVIOUS
<1>1. TypeOK
  BY InitTyped
<1>2. AbsentTenant \in TenantEnvironment
  BY SpecsAssumption DEF AbsentTenant, TenantEnvironment, Life, DatabaseStatus
<1>3. \A t \in Tenants : Len(cr[t]) = 1 /\ cr[t][1] = AbsentTenant /\ Latest(cr[t]) = AbsentTenant
  BY DEF Init, Latest
<1>4. VersionOK(AbsentTenant) /\ NeverGoesBack(AbsentTenant, AbsentTenant)
  BY <1>2, GoesOnReflexive DEF VersionOK, AbsentTenant
<1>5. HistoryOK
  BY <1>3, <1>4 DEF HistoryOK
<1>6. FinalizerHolds
  BY <1>3 DEF FinalizerHolds, Init, AbsentTenant
<1>7. WorkerOK
  BY DEF Init, Idle, WorkerOK, CreatingSteps, DeletingSteps
<1>8. RequestedFirst
  <2>1. \A t \in Tenants : provisions[t] = 0 /\ ~Latest(cr[t]).readyAt
    BY <1>3 DEF Init, AbsentTenant
  <2>2. \A t \in Tenants, k \in {"deployment", "pod"} : obj[k][t] = <<None>>
    BY DEF Init, Kinds
  <2> QED  BY <2>1, <2>2 DEF RequestedFirst
<1>9. ProvisionedAtMostOnce
  BY DEF Init, ProvisionedAtMostOnce
<1> QED  BY <1>1, <1>5, <1>6, <1>7, <1>8, <1>9 DEF SafetyInv

\* Every step preserves the invariant.
LEMMA SafetyNext == SafetyInv /\ [Next]_vars => SafetyInv'
<1> SUFFICES ASSUME SafetyInv, [Next]_vars PROVE SafetyInv'
  OBVIOUS
<1>1. TypeOK'
  BY NextTyped DEF SafetyInv
<1>2. CrSum /\ SeenSum /\ ProvisionSum /\ ObjectSum
  BY StepSums
<1>3. HistoryOK'
  BY <1>2, HistoryStep DEF SafetyInv
<1>4. FinalizerHolds'
  BY <1>1, <1>2, FinalizerStep
<1>5. WorkerOK'
  BY <1>1, <1>2, WorkerStep
<1>6. RequestedFirst' /\ ProvisionedAtMostOnce'
  BY <1>1, <1>2, RequestedFirstStep
<1> QED  BY <1>1, <1>3, <1>4, <1>5, <1>6 DEF SafetyInv

\* The inductive invariant: histories only go forward, the finalizer holds a
\* TenantEnvironment the cache still shows live, and the running reconcile
\* works from a copy that justifies its step.
THEOREM Safety == Spec => []SafetyInv
BY SafetyInit, SafetyNext, PTL DEF Spec

\* Reconcile calls CreatePostgreSQLForTenant at most once for a tenant, with
\* any number of tenants, edits, errors, restarts and stale caches.
THEOREM ProvisionsOnce == Spec => []ProvisionedAtMostOnce
<1>1. SafetyInv => ProvisionedAtMostOnce
  BY DEF SafetyInv
<1> QED  BY <1>1, Safety, PTL

\* A tenant reported ready has its createdAt and had a database asked for.
THEOREM ReadyProvisioned == Spec => []ReadyIsProvisioned
<1>1. SafetyInv => ReadyIsProvisioned
  <2> SUFFICES ASSUME SafetyInv, NEW t \in Tenants, Latest(cr[t]).readyAt
               PROVE  /\ Latest(cr[t]).createdAt
                      /\ Latest(cr[t]).databaseStatus \in {"Provisioning", "Assigned"}
    BY DEF ReadyIsProvisioned
  <2>1. Latest(cr[t]).databaseStatus \in {"Provisioning", "Assigned"}
    BY DEF SafetyInv, RequestedFirst, Requested
  <2>2. VersionOK(Latest(cr[t]))
    BY LatestTyped, Versions DEF SafetyInv, Latest
  <2> QED  BY <2>1, <2>2 DEF VersionOK
<1> QED  BY <1>1, Safety, PTL

\* No write of the reconciler, from however stale a copy, takes the status of
\* a TenantEnvironment back or loses its finalizer.
THEOREM NeverRegresses == Spec => StatusNeverRegresses
<1>1. SafetyInv /\ [Next]_vars =>
        [\A t \in Tenants : NeverGoesBack(Latest(cr[t]), Latest(cr'[t]))]_vars
  BY StepSums, HistoryStep DEF SafetyInv
<1> QED  BY <1>1, Safety, PTL DEF Spec, StatusNeverRegresses

\* Nothing is created for a TenantEnvironment without its finalizer, so the
\* deletion that removes what was created is still to come.
THEOREM CreatesHeld == Spec => CreatesUnderFinalizer
<1>1. ASSUME SafetyInv, [Next]_vars, NEW t \in Tenants,
             (\E k \in Kinds \ {"pod"} : Appears(k, t)) \/ provisions'[t] # provisions[t]
      PROVE  Latest(cr[t]).finalizer
  <2>1. AppearSum /\ ProvisionSum
    BY <1>1, StepSums
  <2>2. provisions \in [Tenants -> Nat]
    BY <1>1 DEF SafetyInv, TypeOK, CountersTyped
  <2>3. w.tenant = t /\ w.step \in CreatingSteps
    BY <1>1, <2>1, <2>2 DEF AppearSum, ProvisionSum, CreatingSteps
  <2> QED  BY <1>1, <2>3, CreatingHolds
<1>2. SafetyInv /\ [Next]_vars =>
        [\A t \in Tenants :
            (\E k \in Kinds \ {"pod"} : Appears(k, t)) \/ provisions'[t] # provisions[t]
                => Latest(cr[t]).finalizer]_vars
  BY <1>1
<1> QED  BY <1>2, Safety, PTL DEF Spec, CreatesUnderFinalizer

\* What a spec may become by a step of the worker on tenant t.
SpecKeptOrSent(t) ==
    \/ Latest(cr'[t]).spec = Latest(cr[t]).spec
    \/ /\ w.tenant = t /\ w.step \in {"addFinalizer", "removeFinalizer"}
       /\ Latest(cr'[t]).spec = AsSent(Latest(cr[t]).spec)

\* A step of the worker that writes the TenantEnvironment keeps its spec, or
\* writes the finalizer with what the round trip makes of that spec.
LEMMA StatusStepsKeepSpec ==
    ASSUME SafetyInv, NEW t \in Tenants,
           \/ SetCreatedAt \/ AddFinalizer \/ CheckDatabase \/ SetAssigned
           \/ RemoveFinalizer \/ MarkReady
    PROVE  SpecKeptOrSent(t)
<1> DEFINE old == Copy
<1>1. w.step # "idle"
  BY DEF SetCreatedAt, AddFinalizer, CheckDatabase, SetAssigned, RemoveFinalizer,
         MarkReady, StepOf
<1>2. old \in TenantEnvironment /\ w.tenant \in Tenants
  BY <1>1, CopyFacts
<1>3. CASE UNCHANGED cr
  BY <1>3 DEF SpecKeptOrSent
<1>4. ASSUME NEW v \in TenantEnvironment, Accepted, Commit(v),
             \/ v.spec = Copy.spec
             \/ v.spec = AsSent(Copy.spec) /\ w.step \in {"addFinalizer", "removeFinalizer"}
      PROVE  SpecKeptOrSent(t)
  <2>1. cr \in [Tenants -> Seq(TenantEnvironment)]
    BY DEF SafetyInv, TypeOK, TenantsTyped
  <2>2. CASE t # w.tenant
    BY <1>4, <2>1, <2>2 DEF Commit, SpecKeptOrSent
  <2>3. CASE t = w.tenant
    <3>1. Copy = Latest(cr[t])
      BY <1>1, <1>4, <2>3, CopyFacts
    <3>2. cr'[t] = Append(cr[t], v) /\ cr[t] \in Seq(TenantEnvironment)
      BY <1>4, <2>1, <2>3 DEF Commit
    <3>3. Latest(cr'[t]) = v
      BY <3>2 DEF Latest
    <3> QED  BY <1>4, <2>3, <3>1, <3>3 DEF SpecKeptOrSent
  <2> QED  BY <2>2, <2>3
<1> HIDE DEF old
<1>5. PICK v \in TenantEnvironment :
            /\ \/ v.spec = old.spec
               \/ v.spec = AsSent(old.spec) /\ w.step \in {"addFinalizer", "removeFinalizer"}
            /\ UNCHANGED cr \/ (Accepted /\ Commit(v))
  <2>1. CASE SetCreatedAt
    <3> DEFINE v == [old EXCEPT !.createdAt = TRUE, !.databaseStatus = "Unassigned"]
    <3>1. v \in TenantEnvironment /\ v.spec = old.spec
      BY <1>2, Zenon DEF TenantEnvironment, DatabaseStatus
    <3>2. UNCHANGED cr \/ (Accepted /\ Commit(v))
      BY <2>1 DEF SetCreatedAt, old
    <3> HIDE DEF v
    <3> QED  BY <3>1, <3>2
  <2>2. CASE AddFinalizer
    <3>3. PICK s \in Specs : s = AsSent(old.spec)
      BY <1>2, RoundTripAssumption DEF TenantEnvironment
    <3> DEFINE v == [old EXCEPT !.finalizer = TRUE, !.spec = s]
    <3>1. v \in TenantEnvironment /\ v.spec = s
      BY <1>2, Zenon DEF TenantEnvironment
    <3>2. w.step = "addFinalizer" /\ (UNCHANGED cr \/ (Accepted /\ Commit(v)))
      BY <2>2, <3>3 DEF AddFinalizer, StepOf, old
    <3> HIDE DEF v
    <3> QED  BY <3>1, <3>2, <3>3
  <2>3. CASE CheckDatabase
    <3> DEFINE v == [old EXCEPT !.databaseStatus = "Provisioning"]
    <3>1. v \in TenantEnvironment /\ v.spec = old.spec
      BY <1>2, Zenon DEF TenantEnvironment, DatabaseStatus
    <3>2. UNCHANGED cr \/ (Accepted /\ Commit(v))
      BY <2>3 DEF CheckDatabase, old
    <3> HIDE DEF v
    <3> QED  BY <3>1, <3>2
  <2>4. CASE SetAssigned
    <3> DEFINE v == [old EXCEPT !.databaseStatus = "Assigned"]
    <3>1. v \in TenantEnvironment /\ v.spec = old.spec
      BY <1>2, Zenon DEF TenantEnvironment, DatabaseStatus
    <3>2. UNCHANGED cr \/ (Accepted /\ Commit(v))
      BY <2>4 DEF SetAssigned, old
    <3> HIDE DEF v
    <3> QED  BY <3>1, <3>2
  <2>5. CASE RemoveFinalizer
    <3>3. PICK s \in Specs : s = AsSent(old.spec)
      BY <1>2, RoundTripAssumption DEF TenantEnvironment
    <3> DEFINE v == [old EXCEPT !.finalizer = FALSE, !.life = "gone", !.spec = s]
    <3>1. v \in TenantEnvironment /\ v.spec = s
      BY <1>2, Zenon DEF TenantEnvironment, Life
    <3>2. w.step = "removeFinalizer" /\ (UNCHANGED cr \/ (Accepted /\ Commit(v)))
      BY <2>5, <3>3 DEF RemoveFinalizer, StepOf, old
    <3> HIDE DEF v
    <3> QED  BY <3>1, <3>2, <3>3
  <2>6. CASE MarkReady
    <3> DEFINE v == [old EXCEPT !.readyAt = TRUE]
    <3>1. v \in TenantEnvironment /\ v.spec = old.spec
      BY <1>2, Zenon DEF TenantEnvironment
    <3>2. UNCHANGED cr \/ (Accepted /\ Commit(v))
      BY <2>6 DEF MarkReady, old
    <3> HIDE DEF v
    <3> QED  BY <3>1, <3>2
  <2> QED  BY <2>1, <2>2, <2>3, <2>4, <2>5, <2>6
<1> QED  BY <1>3, <1>4, <1>5 DEF old

\* The reconciler, which sends the spec it read with every Update, never
\* undoes an edit of the spec: all it makes of a spec is what the round trip
\* makes of the one it replaces.
THEOREM SpecKept == Spec => EditsAreKept
<1> DEFINE ByUser == crSeen' = crSeen /\ w' = w
<1>1. ASSUME SafetyInv, [Next]_vars, NEW t \in Tenants
      PROVE  SpecKeptOrSent(t) \/ ByUser
  <2>1. CASE UNCHANGED cr
    BY <2>1 DEF SpecKeptOrSent
  <2>2. CASE \/ SetCreatedAt \/ AddFinalizer \/ CheckDatabase \/ SetAssigned
             \/ RemoveFinalizer \/ MarkReady
    BY <1>1, <2>2, StatusStepsKeepSpec
  <2>3. CASE \/ EnsureNamespace \/ EnsureQuota \/ EnsureDeployment \/ UpdateDeployment
             \/ DeleteQuota \/ DeleteNamespace \/ CreatePostgreSQL \/ DeletePostgreSQL
             \/ ApiError \/ Crash
    BY <2>1, <2>3 DEF EnsureNamespace, EnsureQuota, EnsureDeployment, UpdateDeployment,
       DeleteQuota, DeleteNamespace, CreatePostgreSQL, DeletePostgreSQL, ApiError, Crash
  <2>4. ASSUME NEW u \in Tenants,
               \/ StartReconcile(u) \/ StartPodEvent(u)
               \/ DeliverTenant(u) \/ \E k \in Kinds : DeliverObject(k, u)
               \/ NamespaceController(u) \/ PodStarts(u) \/ PodBecomesReady(u) \/ PodFails(u)
        PROVE  UNCHANGED cr
    BY <2>4 DEF StartReconcile, StartPodEvent, Take, DeliverTenant, DeliverObject,
         NamespaceController, PodStarts, PodBecomesReady, PodFails, PodChanges, ClusterStep
  <2>5. ASSUME NEW u \in Tenants, CreateTenant(u) \/ EditSpec(u) \/ DeleteTenant(u)
        PROVE  ByUser
    BY <2>5 DEF CreateTenant, EditSpec, DeleteTenant, Write
  <2> QED  BY <1>1, <2>1, <2>2, <2>3, <2>4, <2>5 DEF Next, ReconcileStep, vars
<1>2. SafetyInv /\ [Next]_vars =>
        [\A t \in Tenants : Latest(cr'[t]).spec # Latest(cr[t]).spec =>
            \/ crSeen' = crSeen /\ w' = w
            \/ /\ w.tenant = t /\ w.step \in {"addFinalizer", "removeFinalizer"}
               /\ Latest(cr'[t]).spec = AsSent(Latest(cr[t]).spec)]_vars
  BY <1>1 DEF SpecKeptOrSent
<1> QED  BY <1>2, Safety, PTL DEF Spec, EditsAreKept

=============================================================================
