----------------------- MODULE SharedPostgreSQLProofs -----------------------
(***************************************************************************)
(* What CreatePostgreSQLForTenant and DeletePostgreSQLForTenant guarantee  *)
(* for any number of tenants, instances, places on an instance, attempts   *)
(* and faults.                                                             *)
(***************************************************************************)
EXTENDS SharedPostgreSQL, SequenceTheorems, TLAPS

-----------------------------------------------------------------------------
(* The worker *)

CallSteps == CreateSteps \cup DeleteSteps

\* The steps in which the call knows its instance.
InstanceSteps == CallSteps \ {"configMap", "find", "masterSecret", "remove"}

\* An EXCEPT of the worker, as the record it is.
LEMMA WorkerWithStep ==
    ASSUME w \in Worker, NEW s, w' = [w EXCEPT !.step = s]
    PROVE  w' = [step |-> s, tenant |-> w.tenant, place |-> w.place, inst |-> w.inst, tries |-> w.tries]
BY Zenon DEF Worker

\* The same, with another instance.
LEMMA WorkerWithInstance ==
    ASSUME w \in Worker, NEW s, NEW i, w' = [w EXCEPT !.step = s, !.inst = i]
    PROVE  w' = [step |-> s, tenant |-> w.tenant, place |-> w.place, inst |-> i, tries |-> w.tries]
BY Zenon DEF Worker

\* The same, for one more attempt of the retry loop.
LEMMA WorkerWithTries ==
    ASSUME w \in Worker, w' = [w EXCEPT !.tries = @ + 1]
    PROVE  w' = [step |-> w.step, tenant |-> w.tenant, place |-> w.place, inst |-> w.inst, tries |-> w.tries + 1]
BY Zenon DEF Worker

\* The worker goes on, with the instance i.
LEMMA GoesOn ==
    ASSUME w \in Worker, NEW s \in CallSteps, NEW i \in Ids \cup {None}, 
           \/ Go(s) /\ i = w.inst
           \/ GoWith(s, i)
    PROVE  /\ w' = [step |-> s, tenant |-> w.tenant, place |-> w.place, inst |-> i, tries |-> w.tries]
           /\ w' \in Worker /\ phase' = phase
<1>1. /\ w' = [step |-> s, tenant |-> w.tenant, place |-> w.place, inst |-> i, tries |-> w.tries]
      /\ phase' = phase
  BY WorkerWithStep, WorkerWithInstance, Zenon DEF Go, GoWith
<1> QED  BY <1>1 DEF Worker, CallSteps

\* Another attempt.
LEMMA TriesAgain ==
    ASSUME w \in Worker, w.tries + 1 < RetrySteps, w' = [w EXCEPT !.tries = @ + 1]
    PROVE  /\ w' = [step |-> w.step, tenant |-> w.tenant, place |-> w.place, inst |-> w.inst, tries |-> w.tries + 1]
           /\ w' \in Worker
<1>1. w' = [step |-> w.step, tenant |-> w.tenant, place |-> w.place, inst |-> w.inst, tries |-> w.tries + 1]
  BY WorkerWithTries, Zenon
<1>2. w.tries + 1 \in 0 .. RetrySteps
  BY CapacityAssumption DEF Worker
<1> QED  BY <1>1, <1>2 DEF Worker

\* The worker is idle in one way only, and the steps of the two calls are apart.
LEMMA WorkerSteps ==
    /\ w \in {Idle} \cup Worker => (w.step = "idle") = (w = Idle)
    /\ w \in {Idle} \cup Worker /\ w.step # "idle" =>
         w \in Worker /\ w.step \in CallSteps /\ w.tenant \in Tenants
    /\ Idle.step = "idle"
    /\ CreateSteps \cap DeleteSteps = {} /\ "idle" \notin CallSteps
    /\ CleanupSteps \subseteq DeleteSteps
BY DEF Idle, Worker, CallSteps, CreateSteps, DeleteSteps, CleanupSteps

\* A clean-up goes on to another of its steps, or the call returns.
LEMMA CleaningOrder ==
    ASSUME w.step \in CleanupSteps, CleanupGoesOn
    PROVE  \/ Return("cleaned")
           \/ \E s \in CleanupSteps : Go(s)
<1>1. /\ AfterCleaning["cleanPVC"] = "cleanStatefulSet"
      /\ AfterCleaning["cleanStatefulSet"] = "cleanService"
      /\ AfterCleaning["cleanService"] = "cleanSecret"
      /\ AfterCleaning["cleanSecret"] = "cleanJobs"
  BY DEF AfterCleaning
<1>2. w.step # "cleanJobs" => AfterCleaning[w.step] \in CleanupSteps
  BY <1>1 DEF CleanupSteps
<1> QED  BY <1>2 DEF CleanupGoesOn

-----------------------------------------------------------------------------
(* The versions of a StatefulSet *)

Versions == {None} \cup SUBSET Tenants

VersionsTyped == sts \in [Ids -> Seq(Versions)] /\ \A i \in Ids : Len(sts[i]) > 0

\* The tenant is in some version the cache has still to go through.
Known(i, t) == \E n \in DOMAIN sts[i] : sts[i][n] # None /\ t \in sts[i][n]

\* What the API server and the cache show of an instance is one of its versions.
LEMMA VersionsRead ==
    ASSUME VersionsTyped, NEW i \in Ids
    PROVE  /\ Latest(sts[i]) \in Versions /\ CachedSts(i) \in Versions
           /\ \A t \in Tenants : Lists(i, t) => Known(i, t)
           /\ \A t \in Tenants : Exists(CachedSts(i)) /\ t \in CachedSts(i) => Known(i, t)
           /\ Current(i) => CachedSts(i) = Latest(sts[i])
<1>1. sts[i] \in Seq(Versions) /\ Len(sts[i]) \in Nat /\ Len(sts[i]) > 0 /\ sts[i] # <<>>
  BY EmptySeq DEF VersionsTyped
<1>2. 1 \in DOMAIN sts[i] /\ Len(sts[i]) \in DOMAIN sts[i]
  BY <1>1
<1>3. CachedSts(i) = sts[i][1]
  BY <1>1 DEF CachedSts
<1>4. sts[i][1] \in Versions /\ sts[i][Len(sts[i])] \in Versions
  BY <1>1, <1>2
<1> QED  BY <1>2, <1>3, <1>4 DEF Latest, Lists, Known, Exists, Current, IsCurrent

\* A step that writes no StatefulSet keeps every list.
LEMMA VersionsSame ==
    ASSUME UNCHANGED sts
    PROVE  /\ VersionsTyped => VersionsTyped'
           /\ \A i, t : Lists(i, t)' = Lists(i, t) /\ Known(i, t)' = Known(i, t)
BY DEF VersionsTyped, Lists, Known, Latest

\* A write appends a version to one StatefulSet.
LEMMA VersionsPut ==
    ASSUME VersionsTyped, NEW i \in Ids, NEW v \in Versions, PutSts(i, v)
    PROVE  /\ VersionsTyped'
           /\ \A j \in Ids, t \in Tenants : j # i =>
                (Lists(j, t)' <=> Lists(j, t)) /\ (Known(j, t)' <=> Known(j, t))
           /\ \A t \in Tenants : Lists(i, t)' <=> Exists(v) /\ t \in v
           /\ \A t \in Tenants : Known(i, t)' <=> Known(i, t) \/ (Exists(v) /\ t \in v)
<1> DEFINE m == Len(sts[i])
<1>1. sts[i] \in Seq(Versions) /\ m \in Nat /\ m > 0
  BY DEF VersionsTyped
<1>2. /\ sts'[i] = Append(sts[i], v)
      /\ \A j \in Ids : j # i => sts'[j] = sts[j]
      /\ sts' \in [Ids -> Seq(Versions)]
  BY <1>1 DEF VersionsTyped, PutSts
<1>3. /\ Len(sts'[i]) = m + 1 /\ sts'[i][m + 1] = v
      /\ DOMAIN sts[i] = 1 .. m /\ DOMAIN sts'[i] = 1 .. m + 1
      /\ \A n \in 1 .. m : sts'[i][n] = sts[i][n]
  BY <1>1, <1>2, AppendProperties
<1>4. VersionsTyped'
  BY <1>1, <1>2, <1>3 DEF VersionsTyped
<1>5. \A j \in Ids, t \in Tenants : j # i =>
        (Lists(j, t)' <=> Lists(j, t)) /\ (Known(j, t)' <=> Known(j, t))
  BY <1>2 DEF Lists, Known, Latest
<1>6. \A t \in Tenants : Lists(i, t)' <=> Exists(v) /\ t \in v
  BY <1>3 DEF Lists, Latest
<1>7. \A t \in Tenants : Known(i, t)' <=> Known(i, t) \/ (Exists(v) /\ t \in v)
  <2> TAKE t \in Tenants
  <2>1. ASSUME Known(i, t)'  PROVE Known(i, t) \/ (Exists(v) /\ t \in v)
    <3>1. PICK n \in 1 .. m + 1 : sts'[i][n] # None /\ t \in sts'[i][n]
      BY <2>1, <1>3 DEF Known
    <3>2. CASE n = m + 1
      BY <3>1, <3>2, <1>3 DEF Exists
    <3>3. CASE n \in 1 .. m
      BY <3>1, <3>3, <1>3 DEF Known
    <3> QED  BY <3>2, <3>3, <1>1
  <2>2. ASSUME Known(i, t)  PROVE Known(i, t)'
    <3>1. PICK n \in 1 .. m : sts[i][n] # None /\ t \in sts[i][n]
      BY <2>2, <1>3 DEF Known
    <3>2. n \in 1 .. m + 1
      BY <1>1
    <3> QED  BY <3>1, <3>2, <1>3 DEF Known
  <2>3. ASSUME Exists(v), t \in v  PROVE Known(i, t)'
    <3>1. m + 1 \in 1 .. m + 1
      BY <1>1
    <3> QED  BY <2>3, <3>1, <1>3 DEF Known, Exists
  <2> QED  BY <2>1, <2>2, <2>3
<1> QED  BY <1>4, <1>5, <1>6, <1>7

\* The cache moves on by one version, or the operator starts with a fresh one:
\* what the API server holds stays, and nothing old becomes known.
LEMMA VersionsDelivered ==
    ASSUME VersionsTyped, NEW i \in Ids,
           Len(sts[i]) > 1, sts' = [sts EXCEPT ![i] = Tail(@)]
    PROVE  /\ VersionsTyped'
           /\ \A j \in Ids, t \in Tenants :
                (Lists(j, t)' <=> Lists(j, t)) /\ (Known(j, t)' => Known(j, t))
<1> DEFINE m == Len(sts[i])
<1>1. sts[i] \in Seq(Versions) /\ m \in Nat /\ m > 1 /\ sts[i] # <<>>
  BY EmptySeq DEF VersionsTyped
<1>2. /\ Tail(sts[i]) \in Seq(Versions) /\ Len(Tail(sts[i])) = m - 1
      /\ \A n \in 1 .. m - 1 : Tail(sts[i])[n] = sts[i][n + 1]
  BY <1>1, HeadTailProperties
<1>3. /\ sts'[i] = Tail(sts[i])
      /\ \A j \in Ids : j # i => sts'[j] = sts[j]
      /\ sts' \in [Ids -> Seq(Versions)]
  BY <1>2 DEF VersionsTyped
<1>4. /\ DOMAIN sts[i] = 1 .. m /\ DOMAIN sts'[i] = 1 .. m - 1 /\ Len(sts'[i]) = m - 1
      /\ m - 1 \in 1 .. m - 1 /\ m - 1 > 0 /\ sts'[i][m - 1] = sts[i][m]
      /\ \A n \in 1 .. m - 1 : n + 1 \in 1 .. m /\ sts'[i][n] = sts[i][n + 1]
  BY <1>1, <1>2, <1>3
<1>5. VersionsTyped'
  BY <1>3, <1>4 DEF VersionsTyped
<1>6. ASSUME NEW j \in Ids, NEW t \in Tenants
      PROVE  (Lists(j, t)' <=> Lists(j, t)) /\ (Known(j, t)' => Known(j, t))
  <2>1. CASE j = i
    <3>1. Latest(sts[i])' = Latest(sts[i])
      BY <1>4 DEF Latest
    <3>2. Lists(i, t)' <=> Lists(i, t)
      BY <3>1 DEF Lists, Exists
    <3>3. ASSUME Known(i, t)'  PROVE Known(i, t)
      <4>1. PICK n \in 1 .. m - 1 : sts'[i][n] # None /\ t \in sts'[i][n]
        BY <3>3, <1>4 DEF Known
      <4> QED  BY <4>1, <1>4 DEF Known
    <3> QED  BY <2>1, <3>2, <3>3
  <2>2. CASE j # i
    BY <2>2, <1>3 DEF Lists, Known, Latest
  <2> QED  BY <2>1, <2>2
<1> QED  BY <1>5, <1>6

\* A restart keeps the newest versions and forgets the others.
LEMMA VersionsRestarted ==
    ASSUME VersionsTyped, sts' = [i \in Ids |-> <<Latest(sts[i])>>]
    PROVE  /\ VersionsTyped'
           /\ \A j \in Ids, t \in Tenants :
                (Lists(j, t)' <=> Lists(j, t)) /\ (Known(j, t)' => Known(j, t))
<1>1. ASSUME NEW j \in Ids
      PROVE  /\ sts'[j] = <<Latest(sts[j])>> /\ sts'[j] \in Seq(Versions) /\ Len(sts'[j]) = 1
             /\ DOMAIN sts'[j] = {1} /\ sts'[j][1] = Latest(sts[j]) /\ Latest(sts[j])' = Latest(sts[j])
             /\ Len(sts[j]) \in DOMAIN sts[j]
  <2>1. Latest(sts[j]) \in Versions
    BY VersionsRead
  <2>2. sts[j] \in Seq(Versions) /\ Len(sts[j]) \in Nat /\ Len(sts[j]) > 0
    BY DEF VersionsTyped
  <2>3. sts'[j] = <<Latest(sts[j])>>
    OBVIOUS
  <2> DEFINE v == Latest(sts[j])
  <2>4. v \in Versions /\ sts'[j] = <<v>>
    BY <2>1, <2>3
  <2> HIDE DEF v
  <2>5. sts'[j] \in Seq(Versions) /\ Len(sts'[j]) = 1 /\ DOMAIN sts'[j] = {1} /\ sts'[j][1] = v
    BY <2>4
  <2>6. Latest(sts[j])' = v
    BY <2>5 DEF Latest
  <2> USE DEF v
  <2> QED  BY <2>2, <2>3, <2>5, <2>6
<1>2. VersionsTyped'
  BY <1>1 DEF VersionsTyped
<1>3. ASSUME NEW j \in Ids, NEW t \in Tenants
      PROVE  (Lists(j, t)' <=> Lists(j, t)) /\ (Known(j, t)' => Known(j, t))
  <2>1. Lists(j, t)' <=> Lists(j, t)
    BY <1>1 DEF Lists, Exists
  <2>2. ASSUME Known(j, t)'  PROVE Known(j, t)
    <3>1. Latest(sts[j]) # None /\ t \in Latest(sts[j])
      BY <2>2, <1>1 DEF Known
    <3> QED  BY <3>1, <1>1 DEF Known, Latest
  <2> QED  BY <2>1, <2>2
<1> QED  BY <1>2, <1>3

\* The StatefulSets of a namespace go with it.
LEMMA VersionsGone ==
    ASSUME VersionsTyped, NEW own \in SUBSET Ids,
           sts' = [i \in Ids |-> IF i \in own /\ Exists(Latest(sts[i])) THEN Append(sts[i], None)
                                 ELSE sts[i]]
    PROVE  /\ VersionsTyped'
           /\ \A j \in Ids, t \in Tenants :
                /\ Lists(j, t)' <=> Lists(j, t) /\ j \notin own
                /\ Known(j, t)' <=> Known(j, t)
<1>1. ASSUME NEW j \in Ids
      PROVE  /\ sts'[j] \in Seq(Versions) /\ Len(sts'[j]) > 0
             /\ \A t \in Tenants : (Lists(j, t)' <=> Lists(j, t) /\ j \notin own)
                                   /\ (Known(j, t)' <=> Known(j, t))
  <2>1. sts[j] \in Seq(Versions) /\ Len(sts[j]) \in Nat /\ Len(sts[j]) > 0
    BY DEF VersionsTyped
  <2>2. CASE j \in own /\ Exists(Latest(sts[j]))
    <3> DEFINE m == Len(sts[j])
    <3>1. sts'[j] = Append(sts[j], None) /\ None \in Versions
      BY <2>2 DEF Versions
    <3>2. /\ sts'[j] \in Seq(Versions) /\ Len(sts'[j]) = m + 1 /\ sts'[j][m + 1] = None
          /\ DOMAIN sts[j] = 1 .. m /\ DOMAIN sts'[j] = 1 .. m + 1
          /\ \A n \in 1 .. m : sts'[j][n] = sts[j][n]
      BY <2>1, <3>1, AppendProperties
    <3>3. \A t \in Tenants : ~Lists(j, t)'
      BY <3>2 DEF Lists, Latest, Exists
    <3>4. ASSUME NEW t \in Tenants  PROVE Known(j, t)' <=> Known(j, t)
      <4>1. \A n \in 1 .. m + 1 : n \in 1 .. m \/ n = m + 1
        BY <2>1
      <4>2. \A n \in 1 .. m : n \in 1 .. m + 1
        BY <2>1
      <4> QED  BY <3>2, <4>1, <4>2 DEF Known
    <3> QED  BY <2>1, <2>2, <3>2, <3>3, <3>4
  <2>3. CASE ~(j \in own /\ Exists(Latest(sts[j])))
    <3>1. sts'[j] = sts[j]
      BY <2>3
    <3> QED  BY <2>1, <2>3, <3>1 DEF Lists, Known, Latest
  <2> QED  BY <2>2, <2>3
<1> QED  BY <1>1 DEF VersionsTyped

-----------------------------------------------------------------------------
(* Types *)

WorkerTyped == w \in {Idle} \cup Worker /\ (w.step \in InstanceSteps => w.inst \in Ids)

PlacementTyped ==
    /\ phase \in [Tenants -> Phases]
    /\ dedicated \in [Tenants -> BOOLEAN]
    /\ home \in [Ids -> Tenants \cup {None, Shared}]
    /\ VersionsTyped
    /\ parts \in [Ids -> SUBSET Parts]
    /\ secretOf \in [Tenants -> Ids \cup {None}]
    /\ jobs \subseteq Jobs
    /\ databases \in [Ids -> SUBSET Tenants]
    /\ startup \in {"begun", "namespace", "ready"}
    /\ WorkerTyped
    /\ faults \in 0 .. MaxFaults

\* The types the proofs work with imply those the runs check.
LEMMA PlacementTypedIsTypeOK == PlacementTyped => TypeOK
<1> SUFFICES ASSUME PlacementTyped  PROVE TypeOK
  OBVIOUS
<1>1. DOMAIN sts = Ids
  BY DEF PlacementTyped, VersionsTyped
<1>2. ASSUME NEW i \in Ids
      PROVE  /\ Len(sts[i]) > 0
             /\ \A n \in DOMAIN sts[i] : sts[i][n] = None \/ sts[i][n] \subseteq Tenants
  <2>1. sts[i] \in Seq(Versions) /\ Len(sts[i]) > 0
    BY DEF PlacementTyped, VersionsTyped
  <2>2. \A n \in DOMAIN sts[i] : sts[i][n] \in Versions
    BY <2>1
  <2> QED  BY <2>1, <2>2 DEF Versions
<1>3. w.step \notin {"idle", "configMap", "find", "masterSecret", "remove"} => w.inst \in Ids
  BY WorkerSteps DEF PlacementTyped, WorkerTyped, InstanceSteps
<1> QED  BY <1>1, <1>2, <1>3 DEF PlacementTyped, WorkerTyped, TypeOK

\* A call returns.
LEMMA Returns ==
    ASSUME PlacementTyped, w.step # "idle", NEW p \in Phases, Return(p)
    PROVE  /\ w' = Idle /\ w'.step = "idle" /\ WorkerTyped'
           /\ phase' \in [Tenants -> Phases] /\ phase'[w.tenant] = p
           /\ \A t \in Tenants : t # w.tenant => phase'[t] = phase[t]
<1>1. w.tenant \in Tenants /\ Idle.step = "idle" /\ "idle" \notin CallSteps
  BY WorkerSteps DEF PlacementTyped, WorkerTyped
<1> QED  BY <1>1 DEF Return, PlacementTyped, WorkerTyped, InstanceSteps

\* What an error makes of the tenant, by the call that returns it.
LEMMA ReturnsError ==
    ASSUME PlacementTyped, w.step # "idle", ReturnError
    PROVE  \/ w.step \in CreateSteps /\ Return("failed")
           \/ w.step \in DeleteSteps /\ Return("deleting")
<1>1. w.step \in CallSteps
  BY WorkerSteps DEF PlacementTyped, WorkerTyped
<1>2. CASE w.step \in CreateSteps
  BY <1>2 DEF ReturnError
<1>3. CASE w.step \notin CreateSteps
  BY <1>1, <1>3 DEF ReturnError, CallSteps
<1> QED  BY <1>2, <1>3

\* A call begins.
LEMMA Calls ==
    ASSUME NEW t \in Tenants, NEW s \in CallSteps \ InstanceSteps, NEW p \in Tenants \cup {Shared},
           Call(t, s, p)
    PROVE  /\ WorkerTyped' /\ w' \in Worker
           /\ w'.step = s /\ w'.tenant = t /\ w'.place = p
<1>1. w' = [step |-> s, tenant |-> t, place |-> p, inst |-> None, tries |-> 0]
  BY DEF Call
<1>2. 0 \in 0 .. RetrySteps
  BY CapacityAssumption
<1> QED  BY <1>1, <1>2 DEF Worker, WorkerTyped, CallSteps

\* A call goes on.
LEMMA Steps ==
    ASSUME PlacementTyped, w.step # "idle", NEW s \in CallSteps,
           NEW i \in Ids \cup {None}, s \in InstanceSteps => i \in Ids,
           (Go(s) /\ i = w.inst) \/ GoWith(s, i)
    PROVE  /\ WorkerTyped' /\ w' \in Worker /\ phase' = phase
           /\ w'.step = s /\ w'.tenant = w.tenant /\ w'.place = w.place /\ w'.inst = i
<1>1. w \in Worker
  BY WorkerSteps DEF PlacementTyped, WorkerTyped
<1>2. /\ w' = [step |-> s, tenant |-> w.tenant, place |-> w.place, inst |-> i, tries |-> w.tries]
      /\ w' \in Worker /\ phase' = phase
  BY <1>1, GoesOn
<1> QED  BY <1>2 DEF WorkerTyped

\* The cleanup of an instance goes on, or ends.
LEMMA Cleans ==
    ASSUME PlacementTyped, w.step \in CleanupSteps, CleanupGoesOn
    PROVE  /\ WorkerTyped' /\ phase' \in [Tenants -> Phases]
           /\ \/ Return("cleaned")
              \/ /\ w'.step \in CleanupSteps /\ w'.tenant = w.tenant /\ w'.place = w.place
                 /\ w'.inst = w.inst /\ phase' = phase
<1>1. /\ CleanupSteps \subseteq CallSteps /\ w.step # "idle" /\ w.inst \in Ids
      /\ CleanupSteps \subseteq InstanceSteps
  BY DEF CleanupSteps, CallSteps, DeleteSteps, InstanceSteps, PlacementTyped, WorkerTyped
<1>2. CASE Return("cleaned")
  BY <1>1, <1>2, Returns DEF Phases
<1>3. CASE \E s \in CleanupSteps : Go(s)
  <2>1. PICK s \in CleanupSteps : Go(s)
    BY <1>3
  <2> QED  BY <1>1, <2>1, Steps DEF PlacementTyped
<1> QED  BY <1>2, <1>3, CleaningOrder

-----------------------------------------------------------------------------
(* The inductive invariant *)

\* The worker has a tenant's call exactly while the tenant's phase says so.
CallInv ==
    /\ w.step \in CreateSteps => phase[w.tenant] = "creating" /\ w.place \in {Shared, w.tenant}
    /\ w.step \in DeleteSteps => phase[w.tenant] = "deleting"
    /\ \A t \in Tenants : phase[t] = "creating" => w.step \in CreateSteps /\ w.tenant = t

\* The instance the worker is at was created where the call places the tenant.
PlaceInv ==
    /\ w.step \in {"find", "add"} => w.place = Shared
    /\ w.step \in {"statefulSet", "service", "tenantSecret", "initJob", "add"} =>
         home[w.inst] = w.place
    /\ w.step \in {"removeJob"} \cup CleanupSteps => home[w.inst] = Shared
    /\ w.step \in {"initJob", "add"} => secretOf[w.tenant] = w.inst

\* Secrets, jobs and databases of a tenant are on shared instances or its own.
OwnerInv ==
    /\ \A t \in Tenants : secretOf[t] \in Ids => home[secretOf[t]] \in {Shared, t}
    /\ \A j \in jobs : home[j.inst] \in {Shared, j.tenant}
    /\ \A i \in Ids, t \in Tenants : t \in databases[i] => home[i] \in {Shared, t}

\* A tenant that any cache may still list was added to the list of one shared
\* instance, after its call was all but done.
KnownInv ==
    /\ \A i \in Ids, t \in Tenants : Known(i, t) =>
         home[i] = Shared /\ phase[t] \in {"assigned", "deleting", "cleaned", "gone"}
    /\ \A i, j \in Ids, t \in Tenants : Known(i, t) /\ Known(j, t) => i = j

\* An instance has nobody on its list before it is there and once its cleanup
\* has begun.
EmptyInv ==
    /\ w.step = "statefulSet" => \A t \in Tenants : ~Known(w.inst, t)
    /\ w.step \in CleanupSteps => \A t \in Tenants : ~Lists(w.inst, t)

RegisteredInv ==
    /\ \A t \in Tenants : phase[t] = "assigned" => secretOf[t] \in Ids
    /\ AssignedIsRegistered

PlacementInv ==
    PlacementTyped /\ CallInv /\ PlaceInv /\ OwnerInv /\ KnownInv /\ EmptyInv /\ RegisteredInv

\* What NoLostTenant says of a step.
KeepsTenants ==
    \A i \in Ids, t \in Tenants :
        Lists(i, t) /\ ~Lists(i, t)' => w.step = "remove" /\ w.tenant = t

\* The step writes no list.
SameLists ==
    \A i \in Ids, t \in Tenants :
        (Lists(i, t)' <=> Lists(i, t)) /\ (Known(i, t)' => Known(i, t))

\* A step that writes no list loses no tenant.
LEMMA SameListsKeepTenants == SameLists => KeepsTenants
BY DEF SameLists, KeepsTenants

\* The tenants that are assigned were so before, and are still listed.
LEMMA StillRegistered ==
    ASSUME PlacementInv,
           \A t \in Tenants : phase'[t] = "assigned" =>
                /\ phase[t] = "assigned" /\ secretOf'[t] = secretOf[t]
                /\ home'[secretOf[t]] = home[secretOf[t]]
                /\ \A i \in Ids : Lists(i, t) => Lists(i, t)'
    PROVE  RegisteredInv'
<1>1. \A t \in Tenants : phase'[t] = "assigned" => secretOf'[t] \in Ids
  BY DEF PlacementInv, RegisteredInv
<1>2. ASSUME NEW t \in Tenants, phase'[t] = "assigned", home'[secretOf'[t]] = Shared
      PROVE  Lists(secretOf[t], t)'
  <2>1. PICK i \in Ids : i = secretOf'[t]
    BY <1>1, <1>2
  <2>2. i = secretOf[t] /\ Lists(i, t)
    BY <1>2, <2>1 DEF PlacementInv, RegisteredInv, AssignedIsRegistered
  <2>3. Lists(i, t)'
    BY <1>2, <2>2
  <2> QED  BY <2>1, <2>3
<1> QED  BY <1>1, <1>2 DEF RegisteredInv, AssignedIsRegistered

\* A step outside the two calls that writes no list.
LEMMA QuietKeeps ==
    ASSUME PlacementInv, PlacementTyped', UNCHANGED <<phase, home, secretOf, w>>, SameLists, OwnerInv'
    PROVE  PlacementInv'
<1>1. CallInv' /\ PlaceInv'
  BY DEF PlacementInv, CallInv, PlaceInv
<1>2. KnownInv' /\ RegisteredInv'
  BY StillRegistered DEF PlacementInv, KnownInv, SameLists
<1>3. EmptyInv'
  BY DEF PlacementInv, PlacementTyped, WorkerTyped, EmptyInv, SameLists, InstanceSteps, CallSteps,
         CreateSteps, DeleteSteps, CleanupSteps
<1> QED  BY <1>1, <1>2, <1>3 DEF PlacementInv

\* A step of a call that goes on and writes no list.
LEMMA StepKeeps ==
    ASSUME PlacementInv, PlacementTyped', UNCHANGED <<phase, home, secretOf>>, SameLists, OwnerInv',
           w'.tenant = w.tenant, w'.place = w.place,
           \/ w.step \in CreateSteps /\ w'.step \in CreateSteps
           \/ w.step \in DeleteSteps /\ w'.step \in DeleteSteps,
           PlaceInv', EmptyInv'
    PROVE  PlacementInv'
<1>1. CallInv'
  BY WorkerSteps DEF PlacementInv, CallInv
<1>2. KnownInv' /\ RegisteredInv'
  BY StillRegistered DEF PlacementInv, KnownInv, SameLists
<1> QED  BY <1>1, <1>2 DEF PlacementInv

\* A call that returns, does not place its tenant and writes no list.
LEMMA ReturnKeeps ==
    ASSUME PlacementInv, PlacementTyped', UNCHANGED <<home, secretOf>>, SameLists, OwnerInv',
           \/ w.step \in CreateSteps /\ Return("failed")
           \/ w.step \in DeleteSteps /\ (Return("deleting") \/ Return("cleaned"))
    PROVE  PlacementInv'
<1>1. w.step # "idle" /\ w.tenant \in Tenants
  BY WorkerSteps DEF PlacementInv, PlacementTyped, WorkerTyped, CallSteps
<1>2. PICK p \in {"failed", "deleting", "cleaned"} :
        Return(p) /\ (w.step \in CreateSteps => p = "failed") /\ (w.step \in DeleteSteps => p # "failed")
  BY WorkerSteps
<1>3. /\ w'.step = "idle" /\ phase'[w.tenant] = p
      /\ \A t \in Tenants : t # w.tenant => phase'[t] = phase[t]
  BY <1>1, <1>2, Returns DEF PlacementInv, Phases
<1>4. w'.step \notin CreateSteps /\ w'.step \notin DeleteSteps
  BY <1>3 DEF CreateSteps, DeleteSteps, CleanupSteps
<1>5. CallInv'
  BY <1>1, <1>2, <1>3, <1>4, WorkerSteps DEF PlacementInv, CallInv, CallSteps
<1>6. PlaceInv' /\ EmptyInv'
  BY <1>3 DEF PlaceInv, EmptyInv, CleanupSteps
<1>7. KnownInv'
  BY <1>1, <1>2, <1>3, WorkerSteps DEF PlacementInv, KnownInv, CallInv, SameLists, CallSteps
<1>8. RegisteredInv'
  BY <1>2, <1>3, StillRegistered DEF SameLists
<1> QED  BY <1>5, <1>6, <1>7, <1>8 DEF PlacementInv

-----------------------------------------------------------------------------
(* Steps outside the two calls *)

\* Nothing a step reads has changed.
LEMMA SameListsUnchanged == VersionsTyped /\ UNCHANGED sts => VersionsTyped' /\ SameLists
BY VersionsSame DEF SameLists

LEMMA FlipDedicatedKeeps ==
    ASSUME PlacementInv, NEW t \in Tenants, FlipDedicated(t)
    PROVE  PlacementInv' /\ KeepsTenants
<1>1. VersionsTyped' /\ SameLists
  BY SameListsUnchanged DEF PlacementInv, PlacementTyped, FlipDedicated
<1>2. dedicated' \in [Tenants -> BOOLEAN]
  BY DEF PlacementInv, PlacementTyped, FlipDedicated
<1>3. faults' \in 0 .. MaxFaults
  BY FaultsAssumption DEF PlacementInv, PlacementTyped, FlipDedicated, Fault
<1>4. PlacementTyped' /\ OwnerInv'
  BY <1>1, <1>2, <1>3 DEF PlacementInv, PlacementTyped, WorkerTyped, OwnerInv, FlipDedicated, Outside
<1> QED  BY <1>1, <1>4, QuietKeeps, SameListsKeepTenants DEF FlipDedicated, Outside

LEMMA StartupKeeps ==
    ASSUME PlacementInv, Startup
    PROVE  PlacementInv' /\ KeepsTenants
<1>1. VersionsTyped' /\ SameLists
  BY SameListsUnchanged DEF PlacementInv, PlacementTyped, Startup
<1>2. PlacementTyped' /\ OwnerInv'
  BY <1>1 DEF PlacementInv, PlacementTyped, WorkerTyped, OwnerInv, Startup, Outside
<1> QED  BY <1>1, <1>2, QuietKeeps, SameListsKeepTenants DEF Startup, Outside

LEMMA DeliverStatefulSetKeeps ==
    ASSUME PlacementInv, NEW i \in Ids, DeliverStatefulSet(i)
    PROVE  PlacementInv' /\ KeepsTenants
<1>1. VersionsTyped' /\ SameLists
  BY VersionsDelivered DEF PlacementInv, PlacementTyped, DeliverStatefulSet, SameLists
<1>2. PlacementTyped' /\ OwnerInv'
  BY <1>1 DEF PlacementInv, PlacementTyped, WorkerTyped, OwnerInv, DeliverStatefulSet, Cluster
<1> QED  BY <1>1, <1>2, QuietKeeps, SameListsKeepTenants DEF DeliverStatefulSet, Cluster

LEMMA StatefulSetControllerKeeps ==
    ASSUME PlacementInv, NEW i \in Ids, StatefulSetController(i)
    PROVE  PlacementInv' /\ KeepsTenants
<1>1. VersionsTyped
  BY DEF PlacementInv, PlacementTyped
<1>2. Latest(sts[i]) \in Versions /\ \A t \in Tenants : Lists(i, t) => Known(i, t)
  BY <1>1, VersionsRead
<1>3. PutSts(i, Latest(sts[i]))
  BY DEF StatefulSetController
<1>4. /\ VersionsTyped'
      /\ \A j \in Ids, t \in Tenants : j # i =>
           (Lists(j, t)' <=> Lists(j, t)) /\ (Known(j, t)' <=> Known(j, t))
      /\ \A t \in Tenants : Lists(i, t)' <=> Exists(Latest(sts[i])) /\ t \in Latest(sts[i])
      /\ \A t \in Tenants : Known(i, t)' <=> Known(i, t) \/ (Exists(Latest(sts[i])) /\ t \in Latest(sts[i]))
  BY <1>1, <1>2, <1>3, VersionsPut
<1>5. \A t \in Tenants : Lists(i, t) <=> Exists(Latest(sts[i])) /\ t \in Latest(sts[i])
  BY DEF Lists
<1>6. SameLists
  BY <1>2, <1>4, <1>5 DEF SameLists
<1>7. PlacementTyped' /\ OwnerInv'
  <2>1. parts' \in [Ids -> SUBSET Parts]
    BY DEF PlacementInv, PlacementTyped, StatefulSetController, Parts
  <2> QED  BY <1>4, <2>1 DEF PlacementInv, PlacementTyped, WorkerTyped, OwnerInv,
             StatefulSetController, Cluster
<1> QED  BY <1>6, <1>7, QuietKeeps, SameListsKeepTenants DEF StatefulSetController, Cluster

LEMMA RunJobKeeps ==
    ASSUME PlacementInv, NEW j \in jobs, RunJob(j)
    PROVE  PlacementInv' /\ KeepsTenants
<1>1. VersionsTyped' /\ SameLists
  BY SameListsUnchanged DEF PlacementInv, PlacementTyped, RunJob
<1>2. j.inst \in Ids /\ j.tenant \in Tenants /\ home[j.inst] \in {Shared, j.tenant}
  BY DEF PlacementInv, PlacementTyped, OwnerInv, Jobs
<1>3. /\ databases' \in [Ids -> SUBSET Tenants]
      /\ \A i \in Ids : \A t \in databases'[i] : t \in databases[i] \/ (i = j.inst /\ t = j.tenant)
  BY <1>2 DEF PlacementInv, PlacementTyped, RunJob
<1>4. jobs' \subseteq jobs /\ UNCHANGED <<phase, home, secretOf, w>>
  BY DEF RunJob, Cluster
<1>5. PlacementTyped'
  BY <1>1, <1>3, <1>4 DEF PlacementInv, PlacementTyped, WorkerTyped, RunJob, Cluster
<1>6. OwnerInv'
  BY <1>2, <1>3, <1>4 DEF PlacementInv, OwnerInv
<1> QED  BY <1>1, <1>4, <1>5, <1>6, QuietKeeps, SameListsKeepTenants

LEMMA JobFailsKeeps ==
    ASSUME PlacementInv, NEW j \in jobs, JobFails(j)
    PROVE  PlacementInv' /\ KeepsTenants
<1>1. VersionsTyped' /\ SameLists
  BY SameListsUnchanged DEF PlacementInv, PlacementTyped, JobFails
<1>2. j \in Jobs /\ home[j.inst] \in {Shared, j.tenant}
  BY DEF PlacementInv, PlacementTyped, OwnerInv
<1>3. UNCHANGED <<phase, dedicated, home, parts, secretOf, databases, startup, w>>
  BY DEF JobFails
<1>4. PICK k \in Jobs : /\ k.inst = j.inst /\ k.tenant = j.tenant
                        /\ jobs' = (jobs \ {j}) \cup {k}
  BY <1>2 DEF JobFails, Jobs
<1>5. faults' \in 0 .. MaxFaults
  BY FaultsAssumption DEF PlacementInv, PlacementTyped, JobFails, Fault
<1>6. PlacementTyped'
  BY <1>1, <1>2, <1>3, <1>4, <1>5 DEF PlacementInv, PlacementTyped, WorkerTyped
<1>7. OwnerInv'
  BY <1>2, <1>3, <1>4 DEF PlacementInv, OwnerInv
<1> QED  BY <1>1, <1>3, <1>6, <1>7, QuietKeeps, SameListsKeepTenants

LEMMA LaterStepFailsKeeps ==
    ASSUME PlacementInv, NEW t \in Tenants, LaterStepFails(t)
    PROVE  PlacementInv' /\ KeepsTenants
<1>1. VersionsTyped' /\ SameLists
  BY SameListsUnchanged DEF PlacementInv, PlacementTyped, LaterStepFails
<1>2. faults' \in 0 .. MaxFaults
  BY FaultsAssumption DEF PlacementInv, PlacementTyped, LaterStepFails, Fault
<1>3. /\ phase' \in [Tenants -> Phases] /\ phase[t] = "cleaned" /\ phase'[t] = "deleting"
      /\ \A u \in Tenants : u # t => phase'[u] = phase[u]
      /\ UNCHANGED <<home, secretOf, jobs, databases, w>>
  BY DEF PlacementInv, PlacementTyped, LaterStepFails, Phases
<1>4. PlacementTyped'
  BY <1>1, <1>2, <1>3 DEF PlacementInv, PlacementTyped, WorkerTyped, LaterStepFails
<1>5. CallInv'
  BY <1>3, WorkerSteps DEF PlacementInv, PlacementTyped, WorkerTyped, CallInv, CallSteps
<1>6. PlaceInv' /\ OwnerInv'
  BY <1>3 DEF PlacementInv, PlaceInv, OwnerInv
<1>7. KnownInv'
  BY <1>1, <1>3 DEF PlacementInv, KnownInv, SameLists
<1>8. EmptyInv'
  BY <1>1, <1>3 DEF PlacementInv, PlacementTyped, WorkerTyped, EmptyInv, SameLists, InstanceSteps, CallSteps,
         CreateSteps, DeleteSteps, CleanupSteps
<1>9. RegisteredInv'
  BY <1>1, <1>3, StillRegistered DEF SameLists
<1> QED  BY <1>1, <1>4, <1>5, <1>6, <1>7, <1>8, <1>9, SameListsKeepTenants DEF PlacementInv

LEMMA NamespaceGoneKeeps ==
    ASSUME PlacementInv, NEW t \in Tenants, NamespaceGone(t)
    PROVE  PlacementInv' /\ KeepsTenants
<1> DEFINE own == {i \in Ids : home[i] = t}
<1>1. /\ VersionsTyped'
      /\ \A j \in Ids, u \in Tenants : 
            /\ Lists(j, u)' <=> Lists(j, u) /\ j \notin own
            /\ Known(j, u)' <=> Known(j, u)
  <2>1. sts' = [i \in Ids |-> IF i \in own /\ Exists(Latest(sts[i])) THEN Append(sts[i], None)
                              ELSE sts[i]]
    BY DEF NamespaceGone
  <2>2. own \in SUBSET Ids /\ VersionsTyped
    BY DEF PlacementInv, PlacementTyped
  <2> HIDE DEF own
  <2> QED  BY <2>1, <2>2, VersionsGone
<1>2. \A i \in Ids, u \in Tenants : Lists(i, u) => Known(i, u) /\ home[i] = Shared
  BY VersionsRead DEF PlacementInv, PlacementTyped, KnownInv
<1>3. SameLists
  BY <1>1, <1>2, PlacesAssumption DEF SameLists
<1>4. /\ phase' \in [Tenants -> Phases] /\ phase[t] = "cleaned" /\ phase'[t] = "gone"
      /\ \A u \in Tenants : u # t => phase'[u] = phase[u]
      /\ secretOf' \in [Tenants -> Ids \cup {None}] /\ secretOf'[t] = None
      /\ \A u \in Tenants : u # t => secretOf'[u] = secretOf[u]
      /\ UNCHANGED <<home, w>>
  BY DEF PlacementInv, PlacementTyped, NamespaceGone, Phases
<1>5. /\ jobs' \subseteq jobs
      /\ databases' \in [Ids -> SUBSET Tenants] /\ \A i \in Ids : databases'[i] \subseteq databases[i]
      /\ parts' \in [Ids -> SUBSET Parts]
  BY DEF PlacementInv, PlacementTyped, NamespaceGone
<1>6. PlacementTyped'
  BY <1>1, <1>4, <1>5 DEF PlacementInv, PlacementTyped, WorkerTyped, NamespaceGone
<1>7. CallInv'
  BY <1>4, WorkerSteps DEF PlacementInv, PlacementTyped, WorkerTyped, CallInv, CallSteps
<1>8. PlaceInv'
  <2>1. w.step \in CreateSteps => w.tenant # t /\ w.tenant \in Tenants
    BY <1>4, WorkerSteps DEF PlacementInv, PlacementTyped, WorkerTyped, CallInv, CallSteps
  <2> QED  BY <1>4, <2>1 DEF PlacementInv, PlaceInv, CreateSteps
<1>9. OwnerInv'
  BY <1>4, <1>5, PlacesAssumption DEF PlacementInv, OwnerInv
<1>10. KnownInv'
  BY <1>3, <1>4 DEF PlacementInv, KnownInv, SameLists
<1>11. EmptyInv'
  BY <1>3, <1>4 DEF PlacementInv, PlacementTyped, WorkerTyped, EmptyInv, SameLists, InstanceSteps, CallSteps,
         CreateSteps, DeleteSteps, CleanupSteps
<1>12. RegisteredInv'
  BY <1>3, <1>4, StillRegistered DEF SameLists
<1> QED  BY <1>3, <1>6, <1>7, <1>8, <1>9, <1>10, <1>11, <1>12, SameListsKeepTenants DEF PlacementInv

-----------------------------------------------------------------------------
(* CreatePostgreSQLForTenant *)

\* A step of a call that changes the worker and the phases only.
LEMMA CallFrame ==
    ASSUME PlacementInv, WorkerTyped', phase' \in [Tenants -> Phases], faults' \in 0 .. MaxFaults,
           UNCHANGED <<dedicated, home, sts, parts, secretOf, jobs, databases, startup>>
    PROVE  PlacementTyped' /\ OwnerInv' /\ SameLists
<1>1. VersionsTyped' /\ SameLists
  BY SameListsUnchanged DEF PlacementInv, PlacementTyped
<1> QED  BY <1>1 DEF PlacementInv, PlacementTyped, OwnerInv

\* A call that gives up.
LEMMA GivesUp ==
    ASSUME PlacementInv, w.step # "idle", ReturnError, faults' \in 0 .. MaxFaults,
           UNCHANGED <<dedicated, home, sts, parts, secretOf, jobs, databases, startup>>
    PROVE  PlacementInv' /\ KeepsTenants
<1>1. \/ w.step \in CreateSteps /\ Return("failed")
      \/ w.step \in DeleteSteps /\ Return("deleting")
  BY ReturnsError DEF PlacementInv
<1>2. WorkerTyped' /\ phase' \in [Tenants -> Phases]
  BY <1>1, Returns DEF PlacementInv, Phases
<1>3. PlacementTyped' /\ OwnerInv' /\ SameLists
  BY <1>2, CallFrame
<1> QED  BY <1>1, <1>3, ReturnKeeps, SameListsKeepTenants

LEMMA StartCreateKeeps ==
    ASSUME PlacementInv, NEW t \in Tenants, StartCreate(t)
    PROVE  PlacementInv' /\ KeepsTenants
<1>1. PICK s \in {"configMap", "find"}, p \in {t, Shared} :
        Call(t, s, p) /\ (s = "find" => p = Shared)
  BY DEF StartCreate
<1>2. s \in CallSteps \ InstanceSteps /\ p \in Tenants \cup {Shared} /\ s \in CreateSteps
  BY <1>1 DEF CallSteps, InstanceSteps, CreateSteps
<1>3. /\ WorkerTyped' /\ w'.step = s /\ w'.tenant = t /\ w'.place = p
      /\ w.step = "idle"
      /\ UNCHANGED <<dedicated, home, sts, parts, secretOf, jobs, databases, startup, faults>>
  BY <1>1, <1>2, Calls DEF Call
<1>4. /\ phase' \in [Tenants -> Phases] /\ phase[t] = "new" /\ phase'[t] = "creating"
      /\ \A u \in Tenants : u # t => phase'[u] = phase[u]
  BY DEF StartCreate, PlacementInv, PlacementTyped, Phases
<1>5. PlacementTyped' /\ OwnerInv' /\ SameLists
  BY <1>3, <1>4, CallFrame DEF PlacementInv, PlacementTyped
<1>6. CallInv'
  BY <1>1, <1>2, <1>3, <1>4, WorkerSteps DEF PlacementInv, CallInv, CallSteps
<1>7. PlaceInv' /\ EmptyInv'
  BY <1>1, <1>3 DEF PlaceInv, EmptyInv, CleanupSteps
<1>8. KnownInv'
  BY <1>3, <1>4, <1>5 DEF PlacementInv, KnownInv, SameLists
<1>9. RegisteredInv'
  BY <1>3, <1>4, <1>5, StillRegistered DEF SameLists
<1> QED  BY <1>5, <1>6, <1>7, <1>8, <1>9, SameListsKeepTenants DEF PlacementInv

LEMMA FindAvailableSharedInstanceKeeps ==
    ASSUME PlacementInv, FindAvailableSharedInstance
    PROVE  PlacementInv' /\ KeepsTenants
<1>1. /\ w.step = "find" /\ w.place = Shared
      /\ UNCHANGED <<dedicated, home, sts, parts, secretOf, jobs, databases, startup>>
  BY DEF FindAvailableSharedInstance, StepOf, PlacementInv, PlaceInv
<1>2. faults' \in 0 .. MaxFaults
  BY FaultsAssumption DEF FindAvailableSharedInstance, Fault, PlacementInv, PlacementTyped
<1>3. w.inst \in Ids \cup {None}
  BY <1>1, WorkerSteps DEF PlacementInv, PlacementTyped, WorkerTyped, Worker
<1>4. PICK s \in {"tenantSecret", "masterSecret"}, i \in Ids \cup {None} :
        /\ (Go(s) /\ i = w.inst) \/ GoWith(s, i)
        /\ s = "tenantSecret" => i \in Ids /\ home[i] = Shared
  <2>1. CASE \E i \in Available : GoWith("tenantSecret", i)
    BY <2>1 DEF Available, SharedInstances
  <2>2. CASE Go("masterSecret")
    BY <2>2, <1>3
  <2> QED  BY <2>1, <2>2 DEF FindAvailableSharedInstance
<1>5. s \in CallSteps /\ (s \in InstanceSteps => i \in Ids) /\ s \in CreateSteps /\ w.step \in CreateSteps
  BY <1>1, <1>4 DEF CallSteps, InstanceSteps, CreateSteps
<1>6. /\ WorkerTyped' /\ phase' = phase
      /\ w'.step = s /\ w'.tenant = w.tenant /\ w'.place = w.place /\ w'.inst = i
  BY <1>1, <1>4, <1>5, Steps DEF PlacementInv
<1>7. PlacementTyped' /\ OwnerInv' /\ SameLists
  BY <1>1, <1>2, <1>6, CallFrame DEF PlacementInv, PlacementTyped
<1>8. PlaceInv' /\ EmptyInv'
  BY <1>1, <1>4, <1>6 DEF PlaceInv, EmptyInv, CleanupSteps
<1> QED  BY <1>1, <1>5, <1>6, <1>7, <1>8, StepKeeps, SameListsKeepTenants

LEMMA CopyPostgreSQLConfigMapKeeps ==
    ASSUME PlacementInv, CopyPostgreSQLConfigMap
    PROVE  PlacementInv' /\ KeepsTenants
<1>1. /\ w.step = "configMap" /\ faults' \in 0 .. MaxFaults
      /\ UNCHANGED <<dedicated, home, sts, parts, secretOf, jobs, databases, startup>>
  BY DEF CopyPostgreSQLConfigMap, StepOf, PlacementInv, PlacementTyped
<1>2. CASE ReturnError
  BY <1>1, <1>2, GivesUp
<1>3. CASE Go("masterSecret")
  <2>1. /\ w.inst \in Ids \cup {None} /\ {w.step, "masterSecret"} \subseteq CreateSteps
        /\ "masterSecret" \in CallSteps \ InstanceSteps
    BY <1>1, WorkerSteps DEF PlacementInv, PlacementTyped, WorkerTyped, Worker, CallSteps,
          InstanceSteps, CreateSteps
  <2>2. /\ WorkerTyped' /\ phase' = phase
        /\ w'.step = "masterSecret" /\ w'.tenant = w.tenant /\ w'.place = w.place
    BY <1>1, <1>3, <2>1, Steps DEF PlacementInv
  <2>3. PlacementTyped' /\ OwnerInv' /\ SameLists
    BY <1>1, <2>2, CallFrame DEF PlacementInv, PlacementTyped
  <2>4. PlaceInv' /\ EmptyInv'
    BY <2>2 DEF PlaceInv, EmptyInv, CleanupSteps
  <2> QED  BY <1>1, <2>1, <2>2, <2>3, <2>4, StepKeeps, SameListsKeepTenants
<1> QED  BY <1>2, <1>3 DEF CopyPostgreSQLConfigMap

LEMMA CreateMasterSecretKeeps ==
    ASSUME PlacementInv, CreateMasterSecret
    PROVE  PlacementInv' /\ KeepsTenants
<1>1. /\ w.step = "masterSecret" /\ faults' \in 0 .. MaxFaults
      /\ UNCHANGED <<dedicated, sts, secretOf, jobs, databases, startup, faults>>
  BY DEF CreateMasterSecret, StepOf, PlacementInv, PlacementTyped
<1>2. CASE ReturnError /\ UNCHANGED <<home, parts>>
  BY <1>1, <1>2, GivesUp
<1>3. CASE \E i \in Ids :
             /\ home[i] = None
             /\ home' = [home EXCEPT ![i] = w.place]
             /\ parts' = [parts EXCEPT ![i] = @ \cup {"secret"}]
             /\ GoWith("statefulSet", i)
  <2>1. PICK i \in Ids :
             /\ home[i] = None
             /\ home' = [home EXCEPT ![i] = w.place]
             /\ parts' = [parts EXCEPT ![i] = @ \cup {"secret"}]
             /\ GoWith("statefulSet", i)
    BY <1>3
  <2>2. /\ "statefulSet" \in CallSteps /\ {w.step, "statefulSet"} \subseteq CreateSteps
        /\ w.place \in Tenants \cup {Shared} /\ w.tenant \in Tenants
    BY <1>1, WorkerSteps DEF PlacementInv, PlacementTyped, WorkerTyped, Worker, CallSteps, CreateSteps
  <2>3. /\ WorkerTyped' /\ phase' = phase
        /\ w'.step = "statefulSet" /\ w'.tenant = w.tenant /\ w'.place = w.place /\ w'.inst = i
    BY <1>1, <2>1, <2>2, Steps DEF PlacementInv
  <2>4. /\ home' \in [Ids -> Tenants \cup {None, Shared}] /\ home'[i] = w.place
        /\ \A j \in Ids : j # i => home'[j] = home[j]
        /\ parts' \in [Ids -> SUBSET Parts]
    BY <2>1, <2>2 DEF PlacementInv, PlacementTyped, Parts
  <2>5. VersionsTyped' /\ SameLists
    BY <1>1, SameListsUnchanged DEF PlacementInv, PlacementTyped
  <2>6. PlacementTyped'
    BY <1>1, <2>3, <2>4, <2>5 DEF PlacementInv, PlacementTyped
  <2>7. CallInv'
    BY <2>2, <2>3, WorkerSteps DEF PlacementInv, CallInv
  <2>8. \A j \in Ids : home[j] # None => home'[j] = home[j]
    BY <2>1, <2>4
  <2>9. OwnerInv'
    <3>1. \A t \in Tenants : secretOf'[t] \in Ids => home'[secretOf'[t]] \in {Shared, t}
      BY <1>1, <2>8, PlacesAssumption DEF PlacementInv, OwnerInv
    <3>2. \A j \in jobs' : home'[j.inst] \in {Shared, j.tenant}
      <4> TAKE j \in jobs'
      <4>1. j \in jobs /\ j.inst \in Ids /\ j.tenant \in Tenants
        BY <1>1 DEF PlacementInv, PlacementTyped, Jobs
      <4> QED  BY <4>1, <2>8, PlacesAssumption DEF PlacementInv, OwnerInv
    <3>3. \A j \in Ids, t \in Tenants : t \in databases'[j] => home'[j] \in {Shared, t}
      BY <1>1, <2>8, PlacesAssumption DEF PlacementInv, OwnerInv
    <3> QED  BY <3>1, <3>2, <3>3 DEF OwnerInv
  <2>10. PlaceInv'
    BY <2>3, <2>4 DEF PlaceInv, CleanupSteps
  <2>11. KnownInv' /\ EmptyInv'
    <3>1. \A t \in Tenants : ~Known(i, t)
      BY <2>1, PlacesAssumption DEF PlacementInv, KnownInv
    <3>2. KnownInv'
      BY <2>3, <2>5, <2>8, PlacesAssumption DEF PlacementInv, KnownInv, SameLists
    <3>3. EmptyInv'
      BY <2>3, <2>5, <3>1 DEF EmptyInv, SameLists, CleanupSteps
    <3> QED  BY <3>2, <3>3
  <2>12. RegisteredInv'
    <3>1. \A t \in Tenants : phase'[t] = "assigned" => home'[secretOf[t]] = home[secretOf[t]]
      BY <1>1, <2>3, <2>8, PlacesAssumption DEF PlacementInv, RegisteredInv, OwnerInv
    <3> QED  BY <1>1, <2>3, <2>5, <3>1, StillRegistered DEF SameLists
  <2> QED  BY <2>5, <2>6, <2>7, <2>9, <2>10, <2>11, <2>12, SameListsKeepTenants DEF PlacementInv
<1> QED  BY <1>2, <1>3 DEF CreateMasterSecret

\* The instance of a call that creates one is there, with its tenant.
LEMMA CreateStepFacts ==
    ASSUME PlacementInv, w.step \in {"statefulSet", "service", "tenantSecret", "initJob", "add"}
    PROVE  /\ w \in Worker /\ w.step # "idle" /\ w.step \in CreateSteps /\ w.inst \in Ids
           /\ w.tenant \in Tenants /\ home[w.inst] = w.place /\ w.place \in {Shared, w.tenant}
           /\ phase[w.tenant] = "creating" /\ \A i \in Ids : ~Known(i, w.tenant)
<1>1. w.step \in CreateSteps /\ w.step \in InstanceSteps /\ w.step # "idle"
  BY DEF InstanceSteps, CallSteps, CreateSteps
<1>2. w \in Worker /\ w.inst \in Ids /\ w.tenant \in Tenants
  BY <1>1, WorkerSteps DEF PlacementInv, PlacementTyped, WorkerTyped
<1> QED  BY <1>1, <1>2 DEF PlacementInv, CallInv, PlaceInv, KnownInv

LEMMA CreateStatefulSetKeeps ==
    ASSUME PlacementInv, CreateStatefulSet
    PROVE  PlacementInv' /\ KeepsTenants
<1>1. /\ w.step = "statefulSet" /\ PutSts(w.inst, {}) /\ Go("service")
      /\ UNCHANGED <<dedicated, home, parts, secretOf, jobs, databases, startup, faults>>
  BY DEF CreateStatefulSet, StepOf
<1>2. /\ w.step # "idle" /\ w.step \in CreateSteps /\ w.inst \in Ids
      /\ home[w.inst] = w.place
  BY <1>1, CreateStepFacts
<1>3. "service" \in CallSteps /\ "service" \in CreateSteps
  BY DEF CallSteps, CreateSteps
<1>4. /\ WorkerTyped' /\ phase' = phase
      /\ w'.step = "service" /\ w'.tenant = w.tenant /\ w'.place = w.place /\ w'.inst = w.inst
  BY <1>1, <1>2, <1>3, Steps DEF PlacementInv
<1>5. VersionsTyped' /\ SameLists
  <2>1. {} \in Versions /\ VersionsTyped
    BY DEF Versions, PlacementInv, PlacementTyped
  <2>2. \A t \in Tenants : ~Known(w.inst, t) /\ ~Lists(w.inst, t)
    BY <1>1, <1>2, <2>1, VersionsRead DEF PlacementInv, EmptyInv
  <2>3. PICK i \in Ids : i = w.inst
    BY <1>2
  <2>4. /\ VersionsTyped'
        /\ \A j \in Ids, t \in Tenants : j # i =>
             (Lists(j, t)' <=> Lists(j, t)) /\ (Known(j, t)' <=> Known(j, t))
        /\ \A t \in Tenants : ~Lists(i, t)' /\ (Known(i, t)' <=> Known(i, t))
    BY <1>1, <2>1, <2>3, VersionsPut
  <2> QED  BY <2>2, <2>3, <2>4 DEF SameLists
<1>6. PlacementTyped' /\ OwnerInv'
  BY <1>1, <1>4, <1>5 DEF PlacementInv, PlacementTyped, OwnerInv
<1>7. PlaceInv' /\ EmptyInv'
  BY <1>1, <1>2, <1>4 DEF PlaceInv, EmptyInv, CleanupSteps
<1> QED  BY <1>1, <1>2, <1>3, <1>4, <1>5, <1>6, <1>7, StepKeeps, SameListsKeepTenants

LEMMA CreateServiceKeeps ==
    ASSUME PlacementInv, CreateService
    PROVE  PlacementInv' /\ KeepsTenants
<1>1. /\ w.step = "service" /\ Go("tenantSecret")
      /\ UNCHANGED <<dedicated, home, sts, secretOf, jobs, databases, startup, faults>>
  BY DEF CreateService, StepOf
<1>2. /\ w.step # "idle" /\ w.step \in CreateSteps /\ w.inst \in Ids
      /\ home[w.inst] = w.place
  BY <1>1, CreateStepFacts
<1>3. "tenantSecret" \in CallSteps /\ "tenantSecret" \in CreateSteps
  BY DEF CallSteps, CreateSteps
<1>4. /\ WorkerTyped' /\ phase' = phase
      /\ w'.step = "tenantSecret" /\ w'.tenant = w.tenant /\ w'.place = w.place /\ w'.inst = w.inst
  BY <1>1, <1>2, <1>3, Steps DEF PlacementInv
<1>5. VersionsTyped' /\ SameLists
  BY <1>1, SameListsUnchanged DEF PlacementInv, PlacementTyped
<1>6. parts' \in [Ids -> SUBSET Parts]
  BY <1>2 DEF CreateService, PlacementInv, PlacementTyped, Parts
<1>7. PlacementTyped' /\ OwnerInv'
  BY <1>1, <1>4, <1>5, <1>6 DEF PlacementInv, PlacementTyped, OwnerInv
<1>8. PlaceInv' /\ EmptyInv'
  BY <1>1, <1>2, <1>4 DEF PlaceInv, EmptyInv, CleanupSteps
<1> QED  BY <1>1, <1>2, <1>3, <1>4, <1>5, <1>7, <1>8, StepKeeps, SameListsKeepTenants

LEMMA CreateTenantSecretKeeps ==
    ASSUME PlacementInv, CreateTenantSecret
    PROVE  PlacementInv' /\ KeepsTenants
<1>1. /\ w.step = "tenantSecret" /\ Go("initJob")
      /\ UNCHANGED <<dedicated, home, sts, parts, jobs, databases, startup, faults>>
  BY DEF CreateTenantSecret, StepOf
<1>2. /\ w.step # "idle" /\ w.step \in CreateSteps /\ w.inst \in Ids /\ w.tenant \in Tenants
      /\ home[w.inst] = w.place /\ w.place \in {Shared, w.tenant} /\ phase[w.tenant] = "creating"
  BY <1>1, CreateStepFacts
<1>3. "initJob" \in CallSteps /\ "initJob" \in CreateSteps
  BY DEF CallSteps, CreateSteps
<1>4. /\ WorkerTyped' /\ phase' = phase
      /\ w'.step = "initJob" /\ w'.tenant = w.tenant /\ w'.place = w.place /\ w'.inst = w.inst
  BY <1>1, <1>2, <1>3, Steps DEF PlacementInv
<1>5. VersionsTyped' /\ SameLists
  BY <1>1, SameListsUnchanged DEF PlacementInv, PlacementTyped
<1>6. /\ secretOf' \in [Tenants -> Ids \cup {None}] /\ secretOf'[w.tenant] = w.inst
      /\ \A t \in Tenants : t # w.tenant => secretOf'[t] = secretOf[t]
  BY <1>2 DEF CreateTenantSecret, PlacementInv, PlacementTyped
<1>7. PlacementTyped'
  BY <1>1, <1>4, <1>5, <1>6 DEF PlacementInv, PlacementTyped
<1>8. OwnerInv'
  BY <1>1, <1>2, <1>6 DEF PlacementInv, OwnerInv
<1>9. CallInv'
  BY <1>2, <1>3, <1>4, WorkerSteps DEF PlacementInv, CallInv
<1>10. PlaceInv' /\ EmptyInv'
  BY <1>1, <1>2, <1>4, <1>6 DEF PlaceInv, EmptyInv, CleanupSteps
<1>11. KnownInv'
  BY <1>1, <1>4, <1>5 DEF PlacementInv, KnownInv, SameLists
<1>12. RegisteredInv'
  BY <1>1, <1>2, <1>4, <1>5, <1>6, StillRegistered DEF SameLists
<1> QED  BY <1>5, <1>7, <1>8, <1>9, <1>10, <1>11, <1>12, SameListsKeepTenants DEF PlacementInv

\* The call of CreatePostgreSQLForTenant succeeds.
LEMMA AssignKeeps ==
    ASSUME PlacementInv, PlacementTyped', Return("assigned"),
           w.step \in {"initJob", "add"}, UNCHANGED <<home, secretOf>>, OwnerInv', KeepsTenants,
           NEW u \in Tenants, u = w.tenant, NEW k \in Ids, k = w.inst,
           \A i \in Ids, t \in Tenants : t # u => (Known(i, t)' => Known(i, t)),
           \A i \in Ids : Known(i, u)' => i = k /\ home[i] = Shared,
           home[k] = Shared => Lists(k, u)'
    PROVE  PlacementInv'
<1>1. /\ w.step # "idle" /\ w.step \in CreateSteps /\ w.inst \in Ids /\ w.tenant \in Tenants
      /\ phase[w.tenant] = "creating" /\ secretOf[w.tenant] = w.inst
  BY CreateStepFacts DEF PlacementInv, PlaceInv
<1>2. /\ w'.step = "idle" /\ phase'[w.tenant] = "assigned"
      /\ \A t \in Tenants : t # w.tenant => phase'[t] = phase[t]
  BY <1>1, Returns DEF PlacementInv, Phases
<1>3. CallInv'
  BY <1>1, <1>2, WorkerSteps DEF PlacementInv, CallInv, CallSteps
<1>4. PlaceInv' /\ EmptyInv'
  BY <1>2 DEF PlaceInv, EmptyInv, CleanupSteps
<1>5. KnownInv'
  BY <1>1, <1>2 DEF PlacementInv, KnownInv
<1>6. RegisteredInv'
  <2>1. \A t \in Tenants : phase'[t] = "assigned" => secretOf'[t] \in Ids
    BY <1>1, <1>2 DEF PlacementInv, RegisteredInv
  <2>2. ASSUME NEW t \in Tenants, phase'[t] = "assigned", home'[secretOf'[t]] = Shared
        PROVE  Lists(secretOf[t], t)'
    <3>1. PICK i \in Ids : i = secretOf'[t]
      BY <2>1, <2>2
    <3>2. CASE t = w.tenant
      <4>1. i = k /\ home[k] = Shared /\ t = u
        BY <1>1, <2>2, <3>1, <3>2
      <4> QED  BY <3>1, <4>1
    <3>3. CASE t # w.tenant
      <4>1. phase[t] = "assigned" /\ i = secretOf[t] /\ home[i] = Shared
        BY <1>2, <2>2, <3>1, <3>3
      <4>2. Lists(i, t)
        BY <4>1 DEF PlacementInv, RegisteredInv, AssignedIsRegistered
      <4>3. Lists(i, t)'
        BY <3>3, <4>2 DEF KeepsTenants
      <4> QED  BY <3>1, <4>3
    <3> QED  BY <3>2, <3>3
  <2> QED  BY <2>1, <2>2 DEF RegisteredInv, AssignedIsRegistered
<1> QED  BY <1>3, <1>4, <1>5, <1>6 DEF PlacementInv

LEMMA CreateDatabaseInitJobKeeps ==
    ASSUME PlacementInv, CreateDatabaseInitJob
    PROVE  PlacementInv' /\ KeepsTenants
<1>1. /\ w.step = "initJob"
      /\ jobs' = jobs \cup {NewJob("init")}
      /\ UNCHANGED <<dedicated, home, sts, parts, secretOf, databases, startup, faults>>
  BY DEF CreateDatabaseInitJob, StepOf
<1>2. /\ w.step # "idle" /\ w.step \in CreateSteps /\ w.inst \in Ids /\ w.tenant \in Tenants
      /\ home[w.inst] = w.place /\ w.place \in {Shared, w.tenant}
      /\ secretOf[w.tenant] = w.inst /\ \A i \in Ids : ~Known(i, w.tenant)
  BY <1>1, CreateStepFacts DEF PlacementInv, PlaceInv
<1>3. VersionsTyped' /\ SameLists
  BY <1>1, SameListsUnchanged DEF PlacementInv, PlacementTyped
<1>7. PICK n \in Jobs : n = NewJob("init") /\ n.inst = w.inst /\ n.tenant = w.tenant
  <2>1. NewJob("init") \in Jobs
    BY <1>2, Zenon DEF NewJob, Jobs
  <2>2. NewJob("init").inst = w.inst /\ NewJob("init").tenant = w.tenant
    BY Zenon DEF NewJob
  <2> QED  BY <2>1, <2>2, Zenon
<1>4. jobs' \subseteq Jobs /\ OwnerInv'
  BY <1>1, <1>2, <1>7 DEF PlacementInv, PlacementTyped, OwnerInv
<1>5. CASE w.place = Shared /\ Go("add")
  <2>1. "add" \in CallSteps /\ "add" \in CreateSteps
    BY DEF CallSteps, CreateSteps
  <2>2. /\ WorkerTyped' /\ phase' = phase
        /\ w'.step = "add" /\ w'.tenant = w.tenant /\ w'.place = w.place /\ w'.inst = w.inst
    BY <1>2, <1>5, <2>1, Steps DEF PlacementInv
  <2>3. PlacementTyped'
    BY <1>1, <1>3, <1>4, <2>2 DEF PlacementInv, PlacementTyped
  <2>4. PlaceInv' /\ EmptyInv'
    BY <1>1, <1>2, <1>5, <2>2 DEF PlaceInv, EmptyInv, CleanupSteps
  <2> QED  BY <1>1, <1>2, <1>3, <1>4, <2>1, <2>2, <2>3, <2>4, StepKeeps, SameListsKeepTenants
<1>6. CASE w.place # Shared /\ Return("assigned")
  <2>1. WorkerTyped' /\ phase' \in [Tenants -> Phases]
    BY <1>2, <1>6, Returns DEF PlacementInv, Phases
  <2>2. PlacementTyped'
    BY <1>1, <1>3, <1>4, <2>1 DEF PlacementInv, PlacementTyped
  <2>3. PICK u \in Tenants, k \in Ids : u = w.tenant /\ k = w.inst
    BY <1>2
  <2>4. /\ \A i \in Ids, t \in Tenants : Known(i, t)' => Known(i, t)
        /\ \A i \in Ids : ~Known(i, u)'
        /\ home[k] # Shared
    BY <1>2, <1>3, <1>6, <2>3 DEF SameLists
  <2> QED  BY <1>1, <1>3, <1>4, <1>6, <2>2, <2>3, <2>4, AssignKeeps, SameListsKeepTenants
<1> QED  BY <1>5, <1>6 DEF CreateDatabaseInitJob

\* The update that adds the tenant is refused unless it was computed from the
\* list the API server holds, so that nobody gets lost.
LEMMA AddTenantToSharedInstanceKeeps ==
    ASSUME PlacementInv, AddTenantToSharedInstance
    PROVE  PlacementInv' /\ KeepsTenants
<1>1. /\ w.step = "add" /\ faults' \in 0 .. MaxFaults
      /\ UNCHANGED <<dedicated, home, parts, secretOf, jobs, databases, startup, faults>>
  BY DEF AddTenantToSharedInstance, StepOf, PlacementInv, PlacementTyped
<1>2. /\ w \in Worker /\ w.step # "idle" /\ w.step \in CreateSteps /\ w.inst \in Ids /\ w.tenant \in Tenants
      /\ home[w.inst] = Shared /\ w.place = Shared
      /\ secretOf[w.tenant] = w.inst /\ \A i \in Ids : ~Known(i, w.tenant)
  BY <1>1, CreateStepFacts DEF PlacementInv, PlaceInv
<1>3. CASE ReturnError /\ UNCHANGED sts
  BY <1>1, <1>3, GivesUp
<1>4. CASE /\ w.tries + 1 < RetrySteps /\ w' = [w EXCEPT !.tries = @ + 1]
           /\ UNCHANGED <<phase, sts>>
  <2>1. /\ w' \in Worker
        /\ w'.step = w.step /\ w'.tenant = w.tenant /\ w'.place = w.place /\ w'.inst = w.inst
    BY <1>2, <1>4, TriesAgain
  <2>2. WorkerTyped' /\ phase' \in [Tenants -> Phases]
    BY <1>2, <1>4, <2>1 DEF WorkerTyped, PlacementInv, PlacementTyped
  <2>3. PlacementTyped' /\ OwnerInv' /\ SameLists
    BY <1>1, <1>4, <2>2, CallFrame
  <2>4. PlaceInv' /\ EmptyInv'
    BY <1>1, <1>2, <2>1 DEF PlaceInv, EmptyInv, CleanupSteps
  <2> QED  BY <1>1, <1>2, <1>4, <2>1, <2>3, <2>4, StepKeeps, SameListsKeepTenants
<1>5. CASE /\ Exists(CachedSts(w.inst)) /\ Current(w.inst)
           /\ PutSts(w.inst, CachedSts(w.inst) \cup {w.tenant})
           /\ Return("assigned")
  <2>1. PICK u \in Tenants, k \in Ids : u = w.tenant /\ k = w.inst
    BY <1>2
  <2>2. PICK v \in Versions : v = CachedSts(k) \cup {u} /\ Exists(v) /\ PutSts(k, v)
    <3>1. CachedSts(k) \in Versions
      BY VersionsRead DEF PlacementInv, PlacementTyped
    <3>2. CachedSts(k) \cup {u} \in SUBSET Tenants
      BY <1>5, <2>1, <3>1 DEF Versions, Exists
    <3> QED  BY <1>5, <2>1, <3>2, NoneAssumption DEF Versions, Exists
  <2>3. /\ \A t \in Tenants : t \in CachedSts(k) => Known(k, t)
        /\ \A t \in Tenants : Lists(k, t) => t \in CachedSts(k)
    BY <1>5, <2>1, VersionsRead DEF PlacementInv, PlacementTyped, Lists
  <2>4. /\ VersionsTyped'
        /\ \A j \in Ids, t \in Tenants : j # k =>
             (Lists(j, t)' <=> Lists(j, t)) /\ (Known(j, t)' <=> Known(j, t))
        /\ \A t \in Tenants : Lists(k, t)' <=> t \in v
        /\ \A t \in Tenants : Known(k, t)' <=> Known(k, t) \/ t \in v
    BY <2>2, VersionsPut DEF PlacementInv, PlacementTyped
  <2>5. KeepsTenants
    BY <2>2, <2>3, <2>4 DEF KeepsTenants
  <2>6. WorkerTyped' /\ phase' \in [Tenants -> Phases]
    BY <1>2, <1>5, Returns DEF PlacementInv, Phases
  <2>7. PlacementTyped' /\ OwnerInv'
    BY <1>1, <2>4, <2>6 DEF PlacementInv, PlacementTyped, OwnerInv
  <2>8. /\ \A i \in Ids, t \in Tenants : t # u => (Known(i, t)' => Known(i, t))
        /\ \A i \in Ids : Known(i, u)' => i = k /\ home[i] = Shared
        /\ Lists(k, u)'
    BY <1>2, <2>1, <2>2, <2>3, <2>4
  <2> QED  BY <1>1, <1>5, <2>1, <2>5, <2>7, <2>8, AssignKeeps
<1> QED  BY <1>3, <1>4, <1>5 DEF AddTenantToSharedInstance

-----------------------------------------------------------------------------
(* DeletePostgreSQLForTenant *)

LEMMA StartDeleteKeeps ==
    ASSUME PlacementInv, NEW t \in Tenants, StartDelete(t)
    PROVE  PlacementInv' /\ KeepsTenants
<1>1. /\ w.step = "idle" /\ phase[t] \notin {"creating", "cleaned", "gone"}
      /\ UNCHANGED <<dedicated, home, sts, parts, secretOf, jobs, databases, startup, faults>>
  BY DEF StartDelete, Call
<1>2. PICK p \in {"cleaned", "deleting"} :
        /\ phase' = [phase EXCEPT ![t] = p]
        /\ p = "cleaned" => UNCHANGED w
        /\ p = "deleting" => Call(t, "remove", Shared)
  BY DEF StartDelete
<1>3. /\ phase' \in [Tenants -> Phases] /\ phase'[t] = p
      /\ \A u \in Tenants : u # t => phase'[u] = phase[u]
  BY <1>2 DEF PlacementInv, PlacementTyped, Phases
<1>4. "remove" \in CallSteps \ InstanceSteps /\ "remove" \in DeleteSteps
  BY DEF CallSteps, InstanceSteps, DeleteSteps
<1>5. /\ WorkerTyped'
      /\ p = "cleaned" => w'.step = "idle"
      /\ p = "deleting" => w'.step = "remove" /\ w'.tenant = t
  BY <1>1, <1>2, <1>4, Calls DEF PlacementInv, PlacementTyped, WorkerTyped
<1>6. PlacementTyped' /\ OwnerInv' /\ SameLists
  BY <1>1, <1>3, <1>5, CallFrame DEF PlacementInv, PlacementTyped
<1>7. CallInv'
  BY <1>1, <1>2, <1>3, <1>4, <1>5, WorkerSteps DEF PlacementInv, CallInv, CallSteps
<1>8. PlaceInv' /\ EmptyInv'
  BY <1>2, <1>5 DEF PlaceInv, EmptyInv, CleanupSteps
<1>9. KnownInv'
  BY <1>1, <1>2, <1>3, <1>6 DEF PlacementInv, KnownInv, SameLists
<1>10. RegisteredInv'
  BY <1>1, <1>2, <1>3, <1>6, StillRegistered DEF SameLists
<1> QED  BY <1>6, <1>7, <1>8, <1>9, <1>10, SameListsKeepTenants DEF PlacementInv

\* The worker of DeletePostgreSQLForTenant, and its instance once it has one.
LEMMA DeleteStepFacts ==
    ASSUME PlacementInv, w.step \in DeleteSteps
    PROVE  /\ w \in Worker /\ w.step # "idle" /\ w.step \notin CreateSteps
           /\ w.tenant \in Tenants /\ w.inst \in Ids \cup {None}
           /\ phase[w.tenant] = "deleting"
           /\ w.step # "remove" => w.inst \in Ids /\ home[w.inst] = Shared
<1>1. w.step # "idle" /\ w.step \notin CreateSteps /\ (w.step # "remove" => w.step \in InstanceSteps)
  BY WorkerSteps DEF CallSteps, InstanceSteps, DeleteSteps, CleanupSteps
<1>2. w \in Worker /\ w.tenant \in Tenants
  BY <1>1, WorkerSteps DEF PlacementInv, PlacementTyped, WorkerTyped
<1>3. w.inst \in Ids \cup {None}
  BY <1>2 DEF Worker
<1> QED  BY <1>1, <1>2, <1>3 DEF PlacementInv, PlacementTyped, WorkerTyped, CallInv, PlaceInv, DeleteSteps

LEMMA RemoveTenantFromSharedInstanceKeeps ==
    ASSUME PlacementInv, RemoveTenantFromSharedInstance
    PROVE  PlacementInv' /\ KeepsTenants
<1>1. /\ w.step = "remove" /\ w.step \in DeleteSteps /\ faults' \in 0 .. MaxFaults
      /\ UNCHANGED <<dedicated, home, parts, secretOf, jobs, databases, startup, faults>>
  BY DEF RemoveTenantFromSharedInstance, StepOf, PlacementInv, PlacementTyped, DeleteSteps
<1>2. /\ w.step # "idle" /\ w.step \notin CreateSteps /\ w.tenant \in Tenants
      /\ phase[w.tenant] = "deleting"
  BY <1>1, DeleteStepFacts
<1>3. CASE Return("cleaned") /\ UNCHANGED sts
  <2>1. WorkerTyped' /\ phase' \in [Tenants -> Phases]
    BY <1>2, <1>3, Returns DEF PlacementInv, Phases
  <2>2. PlacementTyped' /\ OwnerInv' /\ SameLists
    BY <1>1, <1>3, <2>1, CallFrame
  <2> QED  BY <1>1, <1>3, <2>2, ReturnKeeps, SameListsKeepTenants
<1>4. CASE ReturnError /\ UNCHANGED sts
  BY <1>1, <1>2, <1>4, GivesUp
<1>5. CASE \E i \in SharedInstances :
             /\ Current(i) /\ PutSts(i, CachedSts(i) \ {w.tenant})
             /\ GoWith(IF CachedSts(i) \ {w.tenant} = {} THEN "cleanPVC" ELSE "removeJob", i)
  <2>1. PICK i \in Ids :
          /\ home[i] = Shared /\ Exists(CachedSts(i))
          /\ Current(i) /\ PutSts(i, CachedSts(i) \ {w.tenant})
          /\ GoWith(IF CachedSts(i) \ {w.tenant} = {} THEN "cleanPVC" ELSE "removeJob", i)
    BY <1>5 DEF SharedInstances
  <2>2. PICK u \in Tenants : u = w.tenant
    BY <1>2
  <2>3. PICK v \in Versions : v = CachedSts(i) \ {u} /\ Exists(v) /\ PutSts(i, v)
    <3>1. CachedSts(i) \in Versions
      BY VersionsRead DEF PlacementInv, PlacementTyped
    <3>2. CachedSts(i) \ {u} \in SUBSET Tenants
      BY <2>1, <3>1 DEF Versions, Exists
    <3> QED  BY <2>1, <2>2, <3>2, NoneAssumption DEF Versions, Exists
  <2>4. /\ \A t \in Tenants : t \in CachedSts(i) => Known(i, t)
        /\ \A t \in Tenants : Lists(i, t) => t \in CachedSts(i)
    BY <2>1, VersionsRead DEF PlacementInv, PlacementTyped, Lists
  <2>5. /\ VersionsTyped'
        /\ \A j \in Ids, t \in Tenants : j # i =>
             (Lists(j, t)' <=> Lists(j, t)) /\ (Known(j, t)' <=> Known(j, t))
        /\ \A t \in Tenants : Lists(i, t)' <=> t \in v
        /\ \A t \in Tenants : Known(i, t)' <=> Known(i, t) \/ t \in v
    BY <2>3, VersionsPut DEF PlacementInv, PlacementTyped
  <2>6. /\ \A j \in Ids, t \in Tenants : Known(j, t)' => Known(j, t)
        /\ \A j \in Ids, t \in Tenants : t # u /\ Lists(j, t) => Lists(j, t)'
    BY <2>3, <2>4, <2>5
  <2>7. PICK s \in {"cleanPVC", "removeJob"} : GoWith(s, i) /\ (s = "cleanPVC" => v = {})
    BY <2>1, <2>2, <2>3
  <2>8. s \in CallSteps /\ s \in DeleteSteps
    BY <2>7 DEF CallSteps, DeleteSteps, CleanupSteps
  <2>9. /\ WorkerTyped' /\ phase' = phase
        /\ w'.step = s /\ w'.tenant = w.tenant /\ w'.inst = i
    BY <1>2, <2>7, <2>8, Steps DEF PlacementInv
  <2>10. PlacementTyped' /\ OwnerInv'
    BY <1>1, <2>5, <2>9 DEF PlacementInv, PlacementTyped, OwnerInv
  <2>11. CallInv'
    BY <1>1, <1>2, <2>8, <2>9, WorkerSteps DEF PlacementInv, CallInv
  <2>12. PlaceInv'
    BY <1>1, <2>1, <2>7, <2>9 DEF PlaceInv, CleanupSteps
  <2>13. EmptyInv'
    <3>1. s = "cleanPVC" => \A t \in Tenants : ~Lists(i, t)'
      BY <2>5, <2>7
    <3>2. s = "removeJob" => s \notin CleanupSteps
      BY DEF CleanupSteps
    <3> QED  BY <2>7, <2>9, <3>1, <3>2 DEF EmptyInv
  <2>14. KnownInv'
    BY <1>1, <2>6, <2>9 DEF PlacementInv, KnownInv
  <2>15. RegisteredInv'
    <3>1. \A t \in Tenants : phase'[t] = "assigned" => t # u
      BY <1>2, <2>2, <2>9
    <3> QED  BY <1>1, <2>6, <2>9, <3>1, StillRegistered
  <2>16. KeepsTenants
    BY <1>1, <2>2, <2>6 DEF KeepsTenants
  <2> QED  BY <2>10, <2>11, <2>12, <2>13, <2>14, <2>15, <2>16 DEF PlacementInv
<1> QED  BY <1>3, <1>4, <1>5 DEF RemoveTenantFromSharedInstance

LEMMA CreateDatabaseRemoveJobKeeps ==
    ASSUME PlacementInv, CreateDatabaseRemoveJob
    PROVE  PlacementInv' /\ KeepsTenants
<1>1. /\ w.step = "removeJob" /\ w.step \in DeleteSteps /\ Return("cleaned")
      /\ jobs' = jobs \cup {NewJob("remove")}
      /\ UNCHANGED <<dedicated, home, sts, parts, secretOf, databases, startup, faults>>
  BY DEF CreateDatabaseRemoveJob, StepOf, DeleteSteps
<1>2. w.step # "idle" /\ w.tenant \in Tenants /\ w.inst \in Ids /\ home[w.inst] = Shared
  BY <1>1, DeleteStepFacts
<1>3. VersionsTyped' /\ SameLists
  BY <1>1, SameListsUnchanged DEF PlacementInv, PlacementTyped
<1>7. PICK n \in Jobs : n = NewJob("remove") /\ n.inst = w.inst /\ n.tenant = w.tenant
  <2>1. NewJob("remove") \in Jobs
    BY <1>2, Zenon DEF NewJob, Jobs
  <2>2. NewJob("remove").inst = w.inst /\ NewJob("remove").tenant = w.tenant
    BY Zenon DEF NewJob
  <2> QED  BY <2>1, <2>2, Zenon
<1>4. jobs' \subseteq Jobs /\ OwnerInv'
  BY <1>1, <1>2, <1>7 DEF PlacementInv, PlacementTyped, OwnerInv
<1>5. WorkerTyped' /\ phase' \in [Tenants -> Phases]
  BY <1>1, <1>2, Returns DEF PlacementInv, Phases
<1>6. PlacementTyped'
  BY <1>1, <1>3, <1>4, <1>5 DEF PlacementInv, PlacementTyped
<1> QED  BY <1>1, <1>3, <1>4, <1>6, ReturnKeeps, SameListsKeepTenants

\* A step of the cleanup that takes nobody off the list.
LEMMA CleanupKeeps ==
    ASSUME PlacementInv, w.step \in CleanupSteps, CleanupGoesOn, SameLists, VersionsTyped',
           parts' \in [Ids -> SUBSET Parts], jobs' \subseteq jobs,
           databases' \in [Ids -> SUBSET Tenants], \A i \in Ids : databases'[i] \subseteq databases[i],
           faults' \in 0 .. MaxFaults, UNCHANGED <<dedicated, home, secretOf, startup>>
    PROVE  PlacementInv' /\ KeepsTenants
<1>1. w.step \in DeleteSteps /\ w.inst \in Ids /\ home[w.inst] = Shared
  BY DeleteStepFacts, WorkerSteps DEF CleanupSteps
<1>2. /\ WorkerTyped' /\ phase' \in [Tenants -> Phases]
      /\ \/ Return("cleaned")
         \/ /\ w'.step \in CleanupSteps /\ w'.tenant = w.tenant /\ w'.place = w.place
            /\ w'.inst = w.inst /\ phase' = phase
  BY Cleans DEF PlacementInv
<1>3. PlacementTyped' /\ OwnerInv'
  BY <1>2 DEF PlacementInv, PlacementTyped, OwnerInv
<1>4. CASE Return("cleaned")
  BY <1>1, <1>3, <1>4, ReturnKeeps, SameListsKeepTenants
<1>5. CASE /\ w'.step \in CleanupSteps /\ w'.tenant = w.tenant /\ w'.place = w.place
           /\ w'.inst = w.inst /\ phase' = phase
  <2>1. PlaceInv'
    BY <1>1, <1>5 DEF PlaceInv, CleanupSteps
  <2>2. EmptyInv'
    BY <1>1, <1>5 DEF PlacementInv, EmptyInv, SameLists, CleanupSteps
  <2> QED  BY <1>1, <1>3, <1>5, <2>1, <2>2, StepKeeps, SameListsKeepTenants, WorkerSteps
<1> QED  BY <1>2, <1>4, <1>5

LEMMA CleanPartKeeps ==
    ASSUME PlacementInv, NEW step \in CleanupSteps, NEW part \in Parts, CleanPart(step, part)
    PROVE  PlacementInv' /\ KeepsTenants
<1>1. /\ w.step = step /\ CleanupGoesOn
      /\ UNCHANGED <<dedicated, home, sts, secretOf, jobs, databases, startup, faults>>
  BY DEF CleanPart, StepOf
<1>2. VersionsTyped' /\ SameLists
  BY <1>1, SameListsUnchanged DEF PlacementInv, PlacementTyped
<1>3. parts' \in [Ids -> SUBSET Parts]
  BY DEF CleanPart, PlacementInv, PlacementTyped
<1> QED  BY <1>1, <1>2, <1>3, CleanupKeeps DEF PlacementInv, PlacementTyped

LEMMA CleanJobsKeeps ==
    ASSUME PlacementInv, CleanJobs
    PROVE  PlacementInv' /\ KeepsTenants
<1>1. /\ w.step \in CleanupSteps /\ CleanupGoesOn /\ jobs' \subseteq jobs
      /\ UNCHANGED <<dedicated, home, sts, parts, secretOf, databases, startup, faults>>
  BY DEF CleanJobs, StepOf, CleanupSteps
<1>2. VersionsTyped' /\ SameLists
  BY <1>1, SameListsUnchanged DEF PlacementInv, PlacementTyped
<1> QED  BY <1>1, <1>2, CleanupKeeps DEF PlacementInv, PlacementTyped

\* Nobody can have been added to the list since it became empty: the call that
\* emptied it is the one that cleans up.
LEMMA CleanStatefulSetKeeps ==
    ASSUME PlacementInv, CleanStatefulSet
    PROVE  PlacementInv' /\ KeepsTenants
<1>1. /\ w.step = "cleanStatefulSet" /\ w.step \in CleanupSteps /\ CleanupGoesOn /\ PutSts(w.inst, None)
      /\ databases' = [databases EXCEPT ![w.inst] = {}]
      /\ UNCHANGED <<dedicated, home, parts, secretOf, jobs, startup, faults>>
  BY DEF CleanStatefulSet, CleanupSteps
<1>2. w.inst \in Ids
  BY <1>1, DeleteStepFacts, WorkerSteps
<1>3. PICK i \in Ids : i = w.inst
  BY <1>2
<1>4. VersionsTyped' /\ SameLists
  <2>1. None \in Versions /\ VersionsTyped /\ ~Exists(None)
    BY DEF Versions, Exists, PlacementInv, PlacementTyped
  <2>2. \A t \in Tenants : ~Lists(i, t)
    BY <1>1, <1>3 DEF PlacementInv, EmptyInv
  <2>3. /\ VersionsTyped'
        /\ \A j \in Ids, t \in Tenants : j # i =>
             (Lists(j, t)' <=> Lists(j, t)) /\ (Known(j, t)' <=> Known(j, t))
        /\ \A t \in Tenants : ~Lists(i, t)' /\ (Known(i, t)' <=> Known(i, t))
    BY <1>1, <1>3, <2>1, VersionsPut
  <2> QED  BY <2>2, <2>3 DEF SameLists
<1>5. databases' \in [Ids -> SUBSET Tenants] /\ \A j \in Ids : databases'[j] \subseteq databases[j]
  BY <1>1, <1>2 DEF PlacementInv, PlacementTyped
<1> QED  BY <1>1, <1>4, <1>5, CleanupKeeps DEF PlacementInv, PlacementTyped

-----------------------------------------------------------------------------
(* Failures *)

LEMMA ApiErrorKeeps ==
    ASSUME PlacementInv, ApiError
    PROVE  PlacementInv' /\ KeepsTenants
<1>1. /\ w.step # "idle" /\ faults' \in 0 .. MaxFaults
      /\ UNCHANGED <<dedicated, home, sts, parts, secretOf, jobs, databases, startup>>
  BY FaultsAssumption DEF ApiError, Fault, PlacementInv, PlacementTyped
<1>2. VersionsTyped' /\ SameLists
  BY <1>1, SameListsUnchanged DEF PlacementInv, PlacementTyped
<1>3. CASE w.step \in CleanupSteps /\ CleanupGoesOn
  BY <1>1, <1>2, <1>3, CleanupKeeps DEF PlacementInv, PlacementTyped
<1>4. CASE w.step = "cleanPVC" /\ Return("cleaned")
  <2>1. w.step \in DeleteSteps
    BY <1>4 DEF DeleteSteps, CleanupSteps
  <2>2. WorkerTyped' /\ phase' \in [Tenants -> Phases]
    BY <1>1, <1>4, Returns DEF PlacementInv, Phases
  <2>3. PlacementTyped' /\ OwnerInv'
    BY <1>1, <2>2, CallFrame
  <2> QED  BY <1>1, <1>2, <1>4, <2>1, <2>3, ReturnKeeps, SameListsKeepTenants
<1>5. CASE ReturnError
  BY <1>1, <1>5, GivesUp
<1> QED  BY <1>3, <1>4, <1>5 DEF ApiError

LEMMA CrashKeeps ==
    ASSUME PlacementInv, Crash
    PROVE  PlacementInv' /\ KeepsTenants
<1>1. /\ faults' \in 0 .. MaxFaults
      /\ UNCHANGED <<dedicated, home, parts, secretOf, jobs, databases, startup>>
  BY FaultsAssumption DEF Crash, Fault, PlacementInv, PlacementTyped
<1>2. VersionsTyped' /\ SameLists
  BY VersionsRestarted DEF Crash, PlacementInv, PlacementTyped, SameLists
<1>3. CASE w.step = "idle"
  <2>1. UNCHANGED <<w, phase>>
    BY <1>3 DEF Crash
  <2>2. PlacementTyped' /\ OwnerInv'
    BY <1>1, <1>2, <2>1 DEF PlacementInv, PlacementTyped, WorkerTyped, OwnerInv
  <2> QED  BY <1>1, <1>2, <2>1, <2>2, QuietKeeps, SameListsKeepTenants
<1>4. CASE w.step # "idle"
  <2>1. ReturnError
    BY <1>4 DEF Crash
  <2>2. \/ w.step \in CreateSteps /\ Return("failed")
        \/ w.step \in DeleteSteps /\ Return("deleting")
    BY <1>4, <2>1, ReturnsError DEF PlacementInv
  <2>3. WorkerTyped' /\ phase' \in [Tenants -> Phases]
    BY <1>4, <2>2, Returns DEF PlacementInv, Phases
  <2>4. PlacementTyped' /\ OwnerInv'
    BY <1>1, <1>2, <2>3 DEF PlacementInv, PlacementTyped, OwnerInv
  <2> QED  BY <1>1, <1>2, <2>2, <2>4, ReturnKeeps, SameListsKeepTenants
<1> QED  BY <1>3, <1>4

-----------------------------------------------------------------------------
(* The invariant, and what it gives *)

\* The invariant holds at first.
LEMMA InitPlacement == Init => PlacementInv
<1> SUFFICES ASSUME Init  PROVE PlacementInv
  OBVIOUS
<1>1. w.step = "idle" /\ WorkerTyped
  BY DEF Init, Idle, WorkerTyped, InstanceSteps, CallSteps, CreateSteps, DeleteSteps, CleanupSteps
<1>2. w.step \notin CreateSteps \cup DeleteSteps /\ w.step \notin CleanupSteps
  BY <1>1 DEF CreateSteps, DeleteSteps, CleanupSteps
<1>3. VersionsTyped /\ \A i \in Ids, t \in Tenants : ~Known(i, t) /\ ~Lists(i, t)
  <2>1. <<None>> \in Seq(Versions) /\ Len(<<None>>) = 1 /\ <<None>>[1] = None /\ DOMAIN <<None>> = {1}
    BY DEF Versions
  <2>2. sts \in [Ids -> Seq(Versions)] /\ \A i \in Ids : sts[i] = <<None>>
    BY <2>1 DEF Init
  <2>3. \A i \in Ids : Len(sts[i]) = 1 /\ sts[i][1] = None /\ DOMAIN sts[i] = {1}
    BY <2>1, <2>2
  <2> QED  BY <2>2, <2>3 DEF VersionsTyped, Known, Lists, Latest, Exists
<1>4. PlacementTyped
  BY <1>1, <1>3, FaultsAssumption DEF Init, PlacementTyped, Phases
<1>5. CallInv /\ PlaceInv
  BY <1>1, <1>2 DEF Init, CallInv, PlaceInv
<1>6. OwnerInv
  BY PlacesAssumption DEF Init, OwnerInv
<1>7. KnownInv /\ EmptyInv
  BY <1>1, <1>2, <1>3 DEF KnownInv, EmptyInv
<1>8. RegisteredInv
  BY DEF Init, RegisteredInv, AssignedIsRegistered
<1> QED  BY <1>4, <1>5, <1>6, <1>7, <1>8 DEF PlacementInv

\* Every step keeps the invariant, and the tenants on the lists.
LEMMA NextPlacement == PlacementInv /\ [Next]_vars => PlacementInv' /\ (KeepsTenants \/ UNCHANGED vars)
<1> SUFFICES ASSUME PlacementInv, [Next]_vars  PROVE PlacementInv' /\ (KeepsTenants \/ UNCHANGED vars)
  OBVIOUS
<1>1. CASE UNCHANGED vars
  <2>1. UNCHANGED <<phase, dedicated, home, sts, parts, secretOf, jobs, databases, startup, w, faults>>
    BY <1>1 DEF vars
  <2>2. VersionsTyped' /\ SameLists
    BY <2>1, SameListsUnchanged DEF PlacementInv, PlacementTyped
  <2>3. PlacementTyped' /\ OwnerInv'
    BY <2>1, <2>2 DEF PlacementInv, PlacementTyped, WorkerTyped, OwnerInv
  <2> QED  BY <2>1, <2>2, <2>3, QuietKeeps, SameListsKeepTenants
<1>2. ASSUME NEW t \in Tenants,
             \/ StartCreate(t) \/ StartDelete(t) \/ LaterStepFails(t)
             \/ FlipDedicated(t) \/ NamespaceGone(t)
      PROVE  PlacementInv' /\ KeepsTenants
  BY <1>2, StartCreateKeeps, StartDeleteKeeps, LaterStepFailsKeeps, FlipDedicatedKeeps, NamespaceGoneKeeps
<1>3. CASE CallStep
  <2>1. CASE CleanPVC \/ CleanService \/ CleanSecret
    BY <2>1, CleanPartKeeps DEF CleanPVC, CleanService, CleanSecret, CleanupSteps, Parts
  <2> QED  BY <1>3, <2>1, FindAvailableSharedInstanceKeeps, CopyPostgreSQLConfigMapKeeps,
        CreateMasterSecretKeeps, CreateStatefulSetKeeps, CreateServiceKeeps, CreateTenantSecretKeeps,
        CreateDatabaseInitJobKeeps, AddTenantToSharedInstanceKeeps,
        RemoveTenantFromSharedInstanceKeeps, CreateDatabaseRemoveJobKeeps,
        CleanStatefulSetKeeps, CleanJobsKeeps DEF CallStep
<1>4. CASE ApiError \/ Crash \/ Startup
  BY <1>4, ApiErrorKeeps, CrashKeeps, StartupKeeps
<1>5. CASE \E i \in Ids : DeliverStatefulSet(i) \/ StatefulSetController(i)
  BY <1>5, DeliverStatefulSetKeeps, StatefulSetControllerKeeps
<1>6. CASE \E j \in jobs : RunJob(j) \/ JobFails(j)
  BY <1>6, RunJobKeeps, JobFailsKeeps
<1> QED  BY <1>1, <1>2, <1>3, <1>4, <1>5, <1>6 DEF Next

\* The invariant holds in every state.
LEMMA PlacementInvariant == Spec => []PlacementInv
<1>1. PlacementInv /\ [Next]_vars => PlacementInv'
  BY NextPlacement
<1> QED  BY InitPlacement, <1>1, PTL DEF Spec

\* The state has its type for any constants: in particular the worker of every
\* step that uses an instance has one.
THEOREM PlacementTypes == Spec => []TypeOK
<1>1. PlacementInv => TypeOK
  BY PlacementTypedIsTypeOK DEF PlacementInv
<1> QED  BY <1>1, PlacementInvariant, PTL

\* No tenant is ever on the lists of two shared instances.
THEOREM PlacedOnce == Spec => []OneInstancePerTenant
<1>1. PlacementInv => OneInstancePerTenant
  BY VersionsRead DEF PlacementInv, PlacementTyped, KnownInv, OneInstancePerTenant
<1> QED  BY <1>1, PlacementInvariant, PTL

\* A tenant that was assigned to a shared instance is on its list until its
\* own deletion.
THEOREM AssignedStaysRegistered == Spec => []AssignedIsRegistered
<1>1. PlacementInv => AssignedIsRegistered
  BY DEF PlacementInv, RegisteredInv
<1> QED  BY <1>1, PlacementInvariant, PTL

\* A dedicated instance serves its own tenant only.
THEOREM DedicatedStaysExclusive == Spec => []DedicatedIsExclusive
<1>1. PlacementInv => DedicatedIsExclusive
  <2> SUFFICES ASSUME PlacementInv, NEW i \in Ids, NEW t \in Tenants, home[i] = t
               PROVE  /\ databases[i] \subseteq {t}
                      /\ \A u \in Tenants \ {t} : secretOf[u] # i /\ ~Lists(i, u)
    BY DEF DedicatedIsExclusive
  <2>1. databases[i] \subseteq {t}
    BY PlacesAssumption DEF PlacementInv, PlacementTyped, OwnerInv
  <2>2. \A u \in Tenants \ {t} : secretOf[u] # i
    BY PlacesAssumption DEF PlacementInv, OwnerInv
  <2>3. \A u \in Tenants : ~Lists(i, u)
    BY PlacesAssumption, VersionsRead DEF PlacementInv, PlacementTyped, KnownInv
  <2> QED  BY <2>1, <2>2, <2>3
<1> QED  BY <1>1, PlacementInvariant, PTL

\* Only the deletion of a tenant takes it off a list, however far the cache an
\* update was computed from lags.
THEOREM TenantsAreKept == Spec => NoLostTenant
<1> DEFINE Kept == \A i \in Ids, t \in Tenants :
                      Lists(i, t) /\ ~Lists(i, t)' => w.step = "remove" /\ w.tenant = t
<1>1. PlacementInv /\ [Next]_vars => [Kept]_vars
  BY NextPlacement DEF KeepsTenants
<1>2. Spec => [][Kept]_vars
  BY <1>1, PlacementInvariant, PTL DEF Spec
<1> QED  BY <1>2 DEF NoLostTenant

=============================================================================
