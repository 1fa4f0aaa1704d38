---------------------------- MODULE ManagerProofs ----------------------------
(***************************************************************************)
(* What main() and startupRunner guarantee for any number of replicas of   *)
(* the operator and any number of faults.                                  *)
(***************************************************************************)
EXTENDS Manager, TLAPS

-----------------------------------------------------------------------------
(* The inductive invariant *)

\* The caches hold nothing that is not there, and startupRunner is past an
\* object only when it exists.
SharedInv ==
    \A r \in Replicas :
        /\ cached[r] \subseteq shared
        /\ runner[r] \in {"configMap", "createConfigMap", "done"} => "namespace" \in shared
        /\ runner[r] = "done" => "configMap" \in shared

\* A creation that was lost is not tried again: the object is in the cache of
\* the next process, which looks there before it would create it.  The
\* ConfigMap is created last, so the next process finds the namespace too.
LostInv ==
    \A r \in Replicas :
        /\ \/ lost[r]["namespace"] = 0
           \/ /\ lost[r]["namespace"] = 1
              /\ "namespace" \in shared /\ runner[r] # "createNamespace"
              /\ runner[r] = "namespace" => "namespace" \in cached[r]
        /\ \/ lost[r]["configMap"] = 0
           \/ /\ lost[r]["configMap"] = 1
              /\ Objects \subseteq shared
              /\ runner[r] \notin {"createNamespace", "createConfigMap"}
              /\ runner[r] \in {"namespace", "configMap"} => Objects \subseteq cached[r]

ManagerInv == TypeOK /\ SharedInv /\ LostInv

-----------------------------------------------------------------------------
(* Every step keeps it *)

\* The invariant holds at first.
LEMMA ManagerInit == Init => ManagerInv
<1> SUFFICES ASSUME Init PROVE ManagerInv
  OBVIOUS
<1>1. TypeOK
  <2>1. leaderElect \in BOOLEAN /\ certificates \in BOOLEAN /\ crd \in BOOLEAN
    BY Zenon DEF Init
  <2>2. /\ step \in [Replicas -> Steps] /\ runner \in [Replicas -> RunnerSteps]
        /\ controller \in [Replicas -> {"off", "syncing", "working"}]
        /\ cached \in [Replicas -> SUBSET Objects] /\ lost \in [Replicas -> [Objects -> Nat]]
    BY DEF Init, Steps, RunnerSteps
  <2>3. \A r \in Replicas : step[r] = "down" /\ controller[r] = "off" /\ runner[r] = "off"
    BY DEF Init
  <2> QED  BY <2>1, <2>2, <2>3, ManagerFaultsAssumption DEF Init, TypeOK
<1>2. SharedInv /\ LostInv
  BY DEF Init, SharedInv, LostInv, Objects
<1> QED  BY <1>1, <1>2 DEF ManagerInv

\* A step that leaves the replicas and the shared objects alone.
LEMMA WorldKeeps ==
    ASSUME ManagerInv, TypeOK', UNCHANGED <<shared, runner, cached, lost>>
    PROVE  ManagerInv'
BY DEF ManagerInv, SharedInv, LostInv

\* The end of a process.
LEMMA ExitKeeps ==
    ASSUME ManagerInv, NEW r \in Replicas, Exit(r), shared' = shared,
           leaderElect' = leaderElect, certificates' = certificates, crd' = crd,
           faults' \in 0 .. MaxFaults,
           \/ lost' = lost
           \/ "namespace" \in shared /\ lost[r]["namespace"] = 0
              /\ lost' = [lost EXCEPT ![r]["namespace"] = @ + 1]
           \/ Objects \subseteq shared /\ lost[r]["configMap"] = 0
              /\ lost' = [lost EXCEPT ![r]["configMap"] = @ + 1]
    PROVE  ManagerInv'
<1>1. TypeOK'
  BY DEF ManagerInv, TypeOK, Exit, Steps, RunnerSteps, Objects
<1>3. SharedInv'
  BY DEF ManagerInv, TypeOK, SharedInv, Exit, RunnerSteps, Objects
<1>4. LostInv'
  BY DEF ManagerInv, TypeOK, LostInv, Exit, RunnerSteps, Objects
<1> QED  BY <1>1, <1>3, <1>4 DEF ManagerInv

\* main() goes on to a step before mgr.Start's runnables.
LEMMA AdvanceKeeps ==
    ASSUME ManagerInv, NEW r \in Replicas, NEW from \in Steps \ {"running"},
           NEW to \in Steps \ {"running"}, Advance(r, from, to)
    PROVE  ManagerInv'
<1>1. TypeOK'
  BY DEF ManagerInv, TypeOK, Advance, World, Steps
<1> QED  BY <1>1 DEF ManagerInv, TypeOK, SharedInv, LostInv, Advance, World, Steps

\* The runnables start, with the lease or without leader election.
LEMMA RunKeeps ==
    ASSUME ManagerInv, NEW r \in Replicas, Run(r),
           \/ ~leaderElect /\ lease' = lease
           \/ lease = None /\ lease' = r
    PROVE  ManagerInv'
<1>1. TypeOK'
  BY DEF ManagerInv, TypeOK, Run, World, Steps, RunnerSteps
<1>3. SharedInv'
  BY DEF ManagerInv, TypeOK, SharedInv, Run, RunnerSteps
<1>4. LostInv'
  BY DEF ManagerInv, TypeOK, LostInv, Run, RunnerSteps, Objects
<1> QED  BY <1>1, <1>3, <1>4 DEF ManagerInv

\* startupRunner looks for an object, in its cache.
LEMMA LookKeeps ==
    ASSUME ManagerInv, NEW r \in Replicas,
           \/ Look(r, "namespace", "createNamespace", "configMap")
           \/ Look(r, "configMap", "createConfigMap", "done")
    PROVE  ManagerInv'
<1>1. TypeOK'
  <2>1. PICK to \in RunnerSteps \ {"off"} : RunnerGoes(r, to)
    BY DEF Look, RunnerSteps
  <2>2. runner[r] # "off" /\ UNCHANGED <<shared, lost>>
    BY DEF Look
  <2> QED  BY <2>1, <2>2 DEF ManagerInv, TypeOK, RunnerGoes, World
<1>3. SharedInv'
  BY DEF ManagerInv, TypeOK, SharedInv, Look, RunnerGoes, RunnerSteps
<1>4. LostInv'
  BY DEF ManagerInv, TypeOK, LostInv, Look, RunnerGoes, RunnerSteps, Objects
<1> QED  BY <1>1, <1>3, <1>4 DEF ManagerInv

\* startupRunner creates an object, or ends the process because another has.
LEMMA CreateKeeps ==
    ASSUME ManagerInv, NEW r \in Replicas,
           NEW object, NEW create, NEW next, Create(r, object, create, next),
           \/ object = "namespace" /\ create = "createNamespace" /\ next = "configMap"
           \/ object = "configMap" /\ create = "createConfigMap" /\ next = "done"
    PROVE  ManagerInv'
<1>1. CASE object \in shared
  <2>1. /\ Exit(r) /\ UNCHANGED <<shared, leaderElect, certificates, crd, faults>>
        /\ lost' = [lost EXCEPT ![r][object] = @ + 1]
    BY <1>1 DEF Create, World
  <2>2. lost[r][object] = 0
    BY DEF ManagerInv, LostInv, Create
  <2>3. CASE object = "namespace"
    BY <1>1, <2>1, <2>2, <2>3, ExitKeeps DEF ManagerInv, TypeOK
  <2>4. CASE object = "configMap"
    <3>1. Objects \subseteq shared
      BY <1>1, <2>4 DEF ManagerInv, SharedInv, Create, Objects
    <3> QED  BY <2>1, <2>2, <2>4, <3>1, ExitKeeps DEF ManagerInv, TypeOK
  <2> QED  BY <2>3, <2>4
<1>2. CASE object \notin shared
  <2>1. /\ shared' = shared \cup {object} /\ lost' = lost /\ runner[r] = create
        /\ runner' = [runner EXCEPT ![r] = next]
        /\ object = "configMap" => "namespace" \in shared
        /\ UNCHANGED <<leaderElect, certificates, crd, faults, lease, step, controller, cached>>
    BY <1>2 DEF Create, RunnerGoes, World
  <2>2. TypeOK'
    BY <2>1 DEF ManagerInv, TypeOK, RunnerSteps, Steps, Objects
  <2>4. SharedInv'
    BY <2>1 DEF ManagerInv, TypeOK, SharedInv, RunnerSteps
  <2>5. LostInv'
    BY <2>1 DEF ManagerInv, TypeOK, LostInv, RunnerSteps, Objects
  <2> QED  BY <2>2, <2>4, <2>5 DEF ManagerInv
<1> QED  BY <1>1, <1>2

\* Every step keeps the invariant.
LEMMA ManagerStep == ManagerInv /\ [Next]_vars => ManagerInv'
<1> SUFFICES ASSUME ManagerInv, [Next]_vars PROVE ManagerInv'
  OBVIOUS
<1>1. ASSUME NEW r \in Replicas, Main(r) PROVE ManagerInv'
  <2>1. CASE Configure(r) /\ Exit(r)
    BY <2>1, ExitKeeps DEF Configure, World, Advance, Exit, ManagerInv, TypeOK, Steps
  <2>2. CASE \E from \in Steps \ {"running"}, to \in Steps \ {"running"} : Advance(r, from, to)
    BY <2>2, AdvanceKeeps
  <2>3. CASE Run(r) /\ ~leaderElect /\ UNCHANGED lease
    BY <2>3, RunKeeps
  <2> QED  BY <1>1, <2>1, <2>2, <2>3 DEF Main, Launch, Configure, SetUp, Start, Steps
<1>2. ASSUME NEW r \in Replicas, TakeLease(r) PROVE ManagerInv'
  BY <1>2, RunKeeps DEF TakeLease
<1>3. ASSUME NEW r \in Replicas, SyncController(r) PROVE ManagerInv'
  <2>1. CASE crd
    <3>1. /\ controller[r] = "syncing"
          /\ controller' = [controller EXCEPT ![r] = "working"]
          /\ UNCHANGED <<World, shared, lease, step, runner, cached, lost>>
      BY <1>3, <2>1 DEF SyncController
    <3>2. TypeOK'
      BY <3>1 DEF ManagerInv, TypeOK, World
    <3> QED  BY <3>1, <3>2, WorldKeeps DEF World
  <2>2. CASE ~crd
    BY <1>3, <2>2, ExitKeeps DEF SyncController, World, ManagerInv, TypeOK
  <2> QED  BY <2>1, <2>2
<1>4. ASSUME NEW r \in Replicas, StartupRunner(r) PROVE ManagerInv'
  BY <1>4, LookKeeps, CreateKeeps
     DEF StartupRunner, EnsureSharedServicesNamespace, EnsureSharedPostgreSQLConfigMap
<1>5. ASSUME NEW r \in Replicas, DeliverShared(r) PROVE ManagerInv'
  <2>1. TypeOK'
    BY <1>5 DEF ManagerInv, TypeOK, DeliverShared, World
  <2> QED  BY <1>5, <2>1 DEF ManagerInv, TypeOK, SharedInv, LostInv, DeliverShared, World
<1>6. ASSUME NEW r \in Replicas, Failure(r) PROVE ManagerInv'
  <2>1. faults' \in 0 .. MaxFaults
    BY <1>6, ManagerFaultsAssumption DEF ManagerInv, TypeOK, Failure
  <2> QED  BY <1>6, <2>1, ExitKeeps DEF Failure
<1>7. CASE LeaseExpires
  <2>1. faults' \in 0 .. MaxFaults
    BY <1>7, ManagerFaultsAssumption DEF ManagerInv, TypeOK, LeaseExpires
  <2>2. TypeOK'
    BY <1>7, <2>1 DEF ManagerInv, TypeOK, LeaseExpires
  <2> QED  BY <1>7, <2>2, WorldKeeps DEF LeaseExpires
<1>10. ASSUME NEW r \in Replicas, RenewLease(r) PROVE ManagerInv'
  <2>1. TypeOK'
    BY <1>10 DEF ManagerInv, TypeOK, RenewLease, World
  <2> QED  BY <1>10, <2>1, WorldKeeps DEF RenewLease
<1>11. ASSUME NEW r \in Replicas, LoseLease(r) PROVE ManagerInv'
  BY <1>11, ExitKeeps DEF LoseLease, World, ManagerInv, TypeOK
<1>8. CASE InstallCRD \/ MountCertificates
  <2>1. TypeOK'
    BY <1>8 DEF ManagerInv, TypeOK, InstallCRD, MountCertificates
  <2> QED  BY <1>8, <2>1, WorldKeeps DEF InstallCRD, MountCertificates
<1>9. CASE UNCHANGED vars
  <2>1. TypeOK'
    BY <1>9 DEF vars, ManagerInv, TypeOK
  <2> QED  BY <1>9, <2>1, WorldKeeps DEF vars
<1> QED  BY <1>1, <1>2, <1>3, <1>4, <1>5, <1>6, <1>7, <1>8, <1>9, <1>10, <1>11 DEF Next

\* The invariant holds in every state.
LEMMA ManagerAlways == Spec => []ManagerInv
BY ManagerInit, ManagerStep, PTL DEF Spec

-----------------------------------------------------------------------------
(* What follows *)

\* The types, and that the runnables of a process are on together: the
\* controller and startupRunner run from mgr.Start to the end of main().
THEOREM ManagerTypes == Spec => []TypeOK
<1>1. ManagerInv => TypeOK
  BY DEF ManagerInv
<1> QED  BY <1>1, ManagerAlways, PTL

\* However many replicas start at the same time, lose their lease or end, the
\* creations of startupRunner end each of them at most once for each object.
THEOREM RacesAreBounded == Spec => []RaceIsLostOncePerObject
<1>1. ManagerInv => RaceIsLostOncePerObject
  BY DEF ManagerInv, LostInv, RaceIsLostOncePerObject, Objects
<1> QED  BY <1>1, ManagerAlways, PTL

\* A startupRunner that returned nil has made, or seen, both shared objects.
THEOREM DoneIsShared == Spec => []DoneMeansShared
<1>1. ManagerInv => DoneMeansShared
  BY DEF ManagerInv, TypeOK, SharedInv, DoneMeansShared, Objects
<1> QED  BY <1>1, ManagerAlways, PTL

=============================================================================
