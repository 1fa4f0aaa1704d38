---------------------------- MODULE ResourceQuota ----------------------------
(***************************************************************************)
(* CreateResourceQuotaForTenant for one tenant: how spec.resourceQuotas    *)
(* becomes the hard limits of the tenant-quota object, over the edits of   *)
(* the spec.  TenantReconciler has the call as one step that stores one    *)
(* value; this module has the arithmetic, the entry-by-entry update and    *)
(* the life of a Go map that is stored, read back and written to.          *)
(*                                                                         *)
(* CPU quantities are in millicores, the others in their own unit.         *)
(***************************************************************************)
EXTENDS KubeApi, Integers

CONSTANTS
    Limits,         \* the values of a spec's quota fields and of
                    \* spec.database.dedicatedInstance that users write
    DefaultPods,    \* the CRD's default of podLimit
    None,           \* no object, no copy
    MaxEdits,       \* bound: edits of the spec
    MaxFaults       \* bound: API calls that fail and restarts of the operator

Limit == [cpu: Nat, memory: Nat, storage: Nat, pods: Nat, dedicated: BOOLEAN]

ASSUME LimitsAssumption == Limits \subseteq Limit
ASSUME DefaultPodsAssumption == DefaultPods \in Nat \ {0}
ASSUME QuotaBoundsAssumption == MaxEdits \in Nat /\ MaxFaults \in Nat

VARIABLES
    spec,       \* the versions of the TenantEnvironment, from the cached one on:
                \* its limits and whether it has the finalizer
    quota,      \* the versions of the tenant-quota object, from the cached one on
    queued,     \* a request is in the work queue
    copy,       \* the limits the running reconcile works on, or None
    written,    \* history: the limits of every version of the spec
    edits, faults

vars == <<spec, quota, queued, copy, written, edits, faults>>

-----------------------------------------------------------------------------
(* The desired resource list *)

Keys == {"limits.cpu", "requests.cpu", "limits.memory", "requests.memory",
         "requests.storage", "pods"}

\* cpuRequests.Set(parsed.MilliValue() * multiplier.MilliValue() / 1000): the
\* number computed is in millicores, and Set takes it as cores.
CpuRequests(limit, dedicated) ==
    LET multiplier == IF dedicated THEN 500 ELSE 750
    IN  ((limit * multiplier) \div 1000) * 1000

\* Mutants of MemoryRequests: the limit is taken off the share; the share is
\* added to the limit.
MemoryRequestsOfRest(limit, dedicated) ==
    (limit * (IF dedicated THEN 60 ELSE 75)) \div 100 - limit
MemoryRequestsOnTop(limit, dedicated) ==
    limit + (limit * (IF dedicated THEN 60 ELSE 75)) \div 100

MemoryRequests(limit, dedicated) ==
    LET multiplier == IF dedicated THEN 60 ELSE 75
    IN  (limit * multiplier) \div 100

\* A limit of zero has no entry.
DesiredKeys(l) ==
    {k \in Keys :
        \/ l.cpu # 0 /\ k \in {"limits.cpu", "requests.cpu"}
        \/ l.memory # 0 /\ k \in {"limits.memory", "requests.memory"}
        \/ l.storage # 0 /\ k = "requests.storage"
        \/ l.pods # 0 /\ k = "pods"}

Amount(l, k) ==
    CASE k = "limits.cpu" -> l.cpu
      [] k = "requests.cpu" -> CpuRequests(l.cpu, l.dedicated)
      [] k = "limits.memory" -> l.memory
      [] k = "requests.memory" -> MemoryRequests(l.memory, l.dedicated)
      [] k = "requests.storage" -> l.storage
      [] k = "pods" -> l.pods

DesiredResources(l) == [k \in DesiredKeys(l) |-> Amount(l, k)]

-----------------------------------------------------------------------------
(* The stored list *)

IsHard(hard) == DOMAIN hard \subseteq Keys /\ hard \in [DOMAIN hard -> Nat]

\* "hard" is omitted when it is empty, so that an empty list is read back as
\* a nil map: it has no entries, and none can be assigned to it.
IsNil(hard) == DOMAIN hard = {}

\* Mutant of SetDifferent: entries that are there are not compared.
SetMissing(hard, desired) ==
    [k \in DOMAIN hard \cup DOMAIN desired |->
        IF k \in DOMAIN hard THEN hard[k] ELSE desired[k]]

\* The first loop: an entry that is missing or different is assigned.
SetDifferent(hard, desired) ==
    [k \in DOMAIN hard \cup DOMAIN desired |->
        IF k \in DOMAIN desired THEN desired[k] ELSE hard[k]]

\* Mutant of RemoveOthers: removed fields are forgotten.
RemoveNothing(hard, desired) == hard

\* The second loop: an entry of a field that was removed is deleted.
RemoveOthers(hard, desired) == [k \in DOMAIN hard \cap DOMAIN desired |-> hard[k]]

Refreshed(hard, desired) == RemoveOthers(SetDifferent(hard, desired), desired)

\* Mutant of Panics: an entry is compared without asking whether it exists.
PanicsOnMissing(hard, desired) == \E k \in DOMAIN desired : k \notin DOMAIN hard

\* resourceQuota.Spec.Hard[key] = val on a nil map.
Panics(hard, desired) == IsNil(hard) /\ DOMAIN desired # {}

-----------------------------------------------------------------------------

Version == [limits: Limit, finalizer: BOOLEAN]

TypeOK ==
    /\ Len(spec) > 0 /\ \A n \in DOMAIN spec : spec[n] \in Version
    /\ Len(quota) > 0 /\ \A n \in DOMAIN quota : quota[n] = None \/ IsHard(quota[n])
    /\ queued \in BOOLEAN
    /\ copy = None \/ copy \in Limit
    /\ written \subseteq Limit
    /\ edits \in 0 .. MaxEdits
    /\ faults \in 0 .. MaxFaults

Init ==
    /\ \E l \in Limits :
        /\ spec = <<[limits |-> l, finalizer |-> FALSE]>>
        /\ written = {l}
    /\ quota = <<None>>
    /\ queued = TRUE
    /\ copy = None
    /\ edits = 0
    /\ faults = 0

PutSpec(version) ==
    /\ spec' = Append(spec, version)
    /\ written' = written \cup {version.limits}

\* A user edits the spec.
EditLimits(l) ==
    /\ edits < MaxEdits /\ l # Latest(spec).limits
    /\ PutSpec([limits |-> l, finalizer |-> Latest(spec).finalizer])
    /\ edits' = edits + 1
    /\ UNCHANGED <<quota, queued, copy, faults>>

\* A watch event of the TenantEnvironment is a request.
DeliverSpec ==
    /\ Len(spec) > 1
    /\ spec' = Tail(spec)
    /\ queued' = TRUE
    /\ UNCHANGED <<quota, copy, written, edits, faults>>

\* The ResourceQuota is cached, and its events are nobody's request.
DeliverQuota ==
    /\ Len(quota) > 1
    /\ quota' = Tail(quota)
    /\ UNCHANGED <<spec, queued, copy, written, edits, faults>>

-----------------------------------------------------------------------------
(* Reconcile, as far as the quota is concerned *)

\* The update that adds the finalizer sends the whole object, and podLimit has
\* omitempty: the API server gives a limit of zero its default.
AsSent(l) == [cpu |-> l.cpu, memory |-> l.memory, storage |-> l.storage,
              pods |-> IF l.pods = 0 THEN DefaultPods ELSE l.pods,
              dedicated |-> l.dedicated]

\* The request is requeued, by Requeue: true or by the conflict.
AddFinalizer ==
    LET cached == Head(spec) IN
    /\ queued /\ copy = None /\ ~cached.finalizer
    /\ IF Len(spec) = 1
       THEN PutSpec([limits |-> AsSent(cached.limits), finalizer |-> TRUE])
       ELSE UNCHANGED <<spec, written>>
    /\ UNCHANGED <<quota, queued, copy, edits, faults>>

StartReconcile ==
    /\ queued /\ copy = None /\ Head(spec).finalizer
    /\ queued' = FALSE
    /\ copy' = Head(spec).limits
    /\ UNCHANGED <<spec, quota, written, edits, faults>>

\* The call returned; an error puts the request back.
Finish(error) ==
    /\ queued' = (queued \/ error)
    /\ copy' = None
    /\ UNCHANGED <<spec, written, edits>>

\* Creation fails if the object exists and the cache does not know yet.
CreateQuota ==
    /\ copy # None /\ Head(quota) = None
    /\ IF Latest(quota) = None
       THEN quota' = Append(quota, DesiredResources(copy)) /\ Finish(FALSE)
       ELSE quota' = quota /\ Finish(TRUE)
    /\ UNCHANGED faults

\* controller-runtime recovers the panic and takes it as an error.
UpdateQuota ==
    LET hard == Head(quota)
        desired == DesiredResources(copy)
        refreshed == Refreshed(hard, desired)
    IN
    /\ copy # None /\ Head(quota) # None
    /\ \/ Panics(hard, desired) /\ quota' = quota /\ Finish(TRUE)
       \/ ~Panics(hard, desired) /\ refreshed = hard /\ quota' = quota /\ Finish(FALSE)
       \/ /\ ~Panics(hard, desired) /\ refreshed # hard
          /\ IF Len(quota) = 1
             THEN quota' = Append(quota, refreshed) /\ Finish(FALSE)
             ELSE quota' = quota /\ Finish(TRUE)
    /\ UNCHANGED faults

Fault == faults < MaxFaults /\ faults' = faults + 1

\* The call fails for a reason outside the model.
ApiError ==
    /\ copy # None
    /\ Fault
    /\ quota' = quota
    /\ Finish(TRUE)

\* The caches are filled afresh and every TenantEnvironment is a request.
Restart ==
    /\ Fault
    /\ spec' = <<Latest(spec)>>
    /\ quota' = <<Latest(quota)>>
    /\ queued' = TRUE
    /\ copy' = None
    /\ UNCHANGED <<written, edits>>

-----------------------------------------------------------------------------

Reconcile == AddFinalizer \/ StartReconcile \/ CreateQuota \/ UpdateQuota

Next ==
    \/ \E l \in Limits : EditLimits(l)
    \/ Reconcile \/ ApiError \/ Restart
    \/ DeliverSpec \/ DeliverQuota

Spec == Init /\ [][Next]_vars

\* The worker goes on and the watches deliver.
Fairness == WF_vars(Reconcile) /\ WF_vars(DeliverSpec) /\ WF_vars(DeliverQuota)

FairSpec == Spec /\ Fairness

-----------------------------------------------------------------------------
(* Safety *)

Stored == Latest(quota)
Exists == Stored # None

\* The stored list is the one some version of the spec asked for as a whole:
\* the entry-by-entry update of a list that was read from a lagging cache, cut
\* short by errors and conflicts and begun again on a newer spec, never leaves
\* entries of two versions side by side.
QuotaIsOfOneSpec == Exists => \E l \in written : Stored = DesiredResources(l)

\* The memory a tenant may request is part of the memory it may use, and the
\* quota never asks for one without the other.
MemoryRequestsWithinLimit ==
    Exists =>
        /\ "requests.memory" \in DOMAIN Stored <=> "limits.memory" \in DOMAIN Stored
        /\ "requests.memory" \in DOMAIN Stored =>
            Stored["requests.memory"] <= Stored["limits.memory"]

-----------------------------------------------------------------------------
(* Liveness, under FairSpec *)

Follows == Exists /\ Stored = DesiredResources(Latest(spec).limits)

\* Users are done, the caches have caught up and a reconcile is still to come.
Settled ==
    /\ edits = MaxEdits /\ faults = MaxFaults /\ Latest(spec).finalizer
    /\ queued /\ copy = None
    /\ Len(spec) = 1 /\ Len(quota) = 1

\* That reconcile brings the quota to the last spec for good, unless the stored
\* list is empty.  If the quota's cache lagged it might find the last spec in
\* an old version of the quota and write nothing, and no event of the quota
\* would ask again.
LastReconcileSettles == Settled /\ (Exists => ~IsNil(Stored)) ~> []Follows

-----------------------------------------------------------------------------
(* What the repository says of the quota and the code does not keep *)

\* "Update if there's a difference": that reconcile brings the quota to the
\* last spec, whatever list is stored.
QuotaFollowsSpec == Settled ~> []Follows

=============================================================================
