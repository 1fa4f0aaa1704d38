------------------------- MODULE ResourceQuotaProofs -------------------------
(***************************************************************************)
(* What CreateResourceQuotaForTenant stores, for any limits, edits and     *)
(* faults.  The inductive invariant says that every version of the quota,  *)
(* of the spec and of the reconcile's copy comes from limits somebody      *)
(* wrote; the entry-by-entry update then yields the desired list whatever  *)
(* list it starts from (RefreshedIsDesired).                               *)
(***************************************************************************)
EXTENDS ResourceQuota, SequenceTheorems, TLAPS

Wanted == {DesiredResources(l) : l \in written}

QInv ==
    /\ written \subseteq Limit
    /\ spec \in Seq([limits: written, finalizer: BOOLEAN]) /\ spec # <<>>
    /\ quota \in Seq({None} \cup Wanted) /\ quota # <<>>
    /\ copy \in {None} \cup written
    /\ queued \in BOOLEAN
    /\ edits \in 0 .. MaxEdits
    /\ faults \in 0 .. MaxFaults

-----------------------------------------------------------------------------
(* Arithmetic *)

\* The CPU request of the quota (utils.go:121) is not a share of the limit: from
\* 2 millicores on it is at least the limit, so it never restrains a pod that
\* its limit lets in.
THEOREM CpuRequestsNeverBind ==
    \A limit \in Nat, dedicated \in BOOLEAN :
        limit >= 2 => CpuRequests(limit, dedicated) >= limit
  BY DEF CpuRequests

LEMMA CpuRequestsType ==
    ASSUME NEW limit \in Nat, NEW dedicated \in BOOLEAN
    PROVE  CpuRequests(limit, dedicated) \in Nat
  BY DEF CpuRequests

LEMMA MemoryShare ==
    ASSUME NEW limit \in Nat, NEW dedicated \in BOOLEAN
    PROVE  MemoryRequests(limit, dedicated) \in 0 .. limit
  BY DEF MemoryRequests

-----------------------------------------------------------------------------
(* The lists *)

LEMMA DesiredType ==
    ASSUME NEW l \in Limit
    PROVE  /\ DOMAIN DesiredResources(l) = DesiredKeys(l)
           /\ DesiredKeys(l) \subseteq Keys
           /\ \A k \in DesiredKeys(l) : DesiredResources(l)[k] = Amount(l, k)
           /\ \A k \in DesiredKeys(l) : Amount(l, k) \in Nat
<1>1. /\ DOMAIN DesiredResources(l) = DesiredKeys(l)
      /\ DesiredKeys(l) \subseteq Keys
      /\ \A k \in DesiredKeys(l) : DesiredResources(l)[k] = Amount(l, k)
  BY DEF DesiredResources, DesiredKeys
<1>2. l.cpu \in Nat /\ l.memory \in Nat /\ l.storage \in Nat /\ l.pods \in Nat
      /\ l.dedicated \in BOOLEAN
  BY DEF Limit
<1>3. CpuRequests(l.cpu, l.dedicated) \in Nat /\ MemoryRequests(l.memory, l.dedicated) \in Nat
  BY <1>2, CpuRequestsType, MemoryShare
<1>4. ASSUME NEW k \in Keys PROVE Amount(l, k) \in Nat
  BY <1>2, <1>3 DEF Amount, Keys
<1> QED BY <1>1, <1>4

\* It is one the API server accepts.
LEMMA DesiredIsHard == ASSUME NEW l \in Limit PROVE IsHard(DesiredResources(l))
  BY DesiredType DEF IsHard, DesiredResources

\* The two loops (utils.go:170-186) turn any stored list into the desired one.
LEMMA RefreshedIsDesired ==
    ASSUME NEW l, NEW hard
    PROVE  Refreshed(hard, DesiredResources(l)) = DesiredResources(l)
  BY Zenon DEF Refreshed, RemoveOthers, SetDifferent, DesiredResources

-----------------------------------------------------------------------------
(* The invariant *)

LEMMA InitQ == Init => QInv
<1> SUFFICES ASSUME Init PROVE QInv
  OBVIOUS
<1>1. PICK l \in Limits : spec = <<[limits |-> l, finalizer |-> FALSE]>> /\ written = {l}
  BY DEF Init
<1>2. quota = <<None>> /\ queued = TRUE /\ copy = None /\ edits = 0 /\ faults = 0
  BY DEF Init
<1> QED BY <1>1, <1>2, LimitsAssumption, QuotaBoundsAssumption DEF QInv

\* Sending the object keeps it an object of its type.
LEMMA AsSentType == ASSUME NEW l \in Limit PROVE AsSent(l) \in Limit
  BY DefaultPodsAssumption DEF AsSent, Limit

LEMMA Grows ==
    ASSUME NEW S, NEW T, S \subseteq T, NEW s \in Seq(S)
    PROVE  s \in Seq(T)
  OBVIOUS

LEMMA Shortened ==
    ASSUME NEW S, NEW s \in Seq(S), s # <<>>
    PROVE  /\ Latest(s) \in S /\ Head(s) \in S
           /\ <<Latest(s)>> \in Seq(S) /\ <<Latest(s)>> # <<>>
           /\ Len(s) > 1 => Tail(s) \in Seq(S) /\ Tail(s) # <<>>
<1>1. Len(s) \in Nat /\ Len(s) >= 1
  BY EmptySeq, LenProperties
<1>2. Latest(s) \in S /\ Head(s) \in S
  BY <1>1, ElementOfSeq, HeadTailProperties DEF Latest
<1>3. Tail(s) \in Seq(S) /\ Len(Tail(s)) = Len(s) - 1
  BY HeadTailProperties
<1>4. ASSUME Len(s) > 1 PROVE Tail(s) # <<>>
  <2>1. Len(Tail(s)) # 0
    BY <1>1, <1>3, <1>4
  <2>2. Len(<<>>) = 0
    BY EmptySeq
  <2> QED BY <2>1, <2>2, Zenon
<1>5. <<Latest(s)>> \in Seq(S) /\ <<Latest(s)>> # <<>>
  BY <1>2
<1> QED BY <1>2, <1>3, <1>4, <1>5

LEMMA PutSpecQ ==
    ASSUME QInv, NEW l \in Limit, NEW f \in BOOLEAN,
           PutSpec([limits |-> l, finalizer |-> f])
    PROVE  /\ written' = written \cup {l} /\ written' \subseteq Limit
           /\ spec' \in Seq([limits: written', finalizer: BOOLEAN]) /\ spec' # <<>>
           /\ Wanted \subseteq Wanted'
<1>1. written' = written \cup {l} /\ spec' = Append(spec, [limits |-> l, finalizer |-> f])
  BY DEF PutSpec
<1>2. spec \in Seq([limits: written', finalizer: BOOLEAN])
  <2>1. [limits: written, finalizer: BOOLEAN] \subseteq [limits: written', finalizer: BOOLEAN]
    BY <1>1
  <2> QED BY <2>1, Grows DEF QInv
<1>3. [limits |-> l, finalizer |-> f] \in [limits: written', finalizer: BOOLEAN]
  BY <1>1
<1> QED BY <1>1, <1>2, <1>3, AppendProperties DEF QInv, Wanted

LEMMA NextQ == QInv /\ [Next]_vars => QInv'
<1> SUFFICES ASSUME QInv, [Next]_vars PROVE QInv'
  OBVIOUS
<1> DEFINE V == [limits: written, finalizer: BOOLEAN]
<1>1. /\ spec \in Seq(V) /\ spec # <<>> /\ Latest(spec) \in V /\ Head(spec) \in V
      /\ quota \in Seq({None} \cup Wanted) /\ quota # <<>>
      /\ Latest(quota) \in {None} \cup Wanted /\ Head(quota) \in {None} \cup Wanted
  BY Shortened DEF QInv
<1>2. ASSUME NEW l \in Limits, EditLimits(l) PROVE QInv'
  <2>1. l \in Limit /\ Latest(spec).finalizer \in BOOLEAN
    BY <1>1, LimitsAssumption
  <2>2. /\ PutSpec([limits |-> l, finalizer |-> Latest(spec).finalizer])
        /\ edits < MaxEdits /\ edits' = edits + 1
        /\ UNCHANGED <<quota, queued, copy, faults>>
    BY <1>2 DEF EditLimits
  <2>3. quota' \in Seq(({None} \cup Wanted)')
    BY <2>1, <2>2, PutSpecQ, Grows DEF QInv
  <2> QED BY <2>1, <2>2, <2>3, PutSpecQ, QuotaBoundsAssumption DEF QInv
<1>3. CASE DeliverSpec
  BY <1>3, Shortened DEF DeliverSpec, QInv, Wanted
<1>4. CASE DeliverQuota
  BY <1>4, Shortened DEF DeliverQuota, QInv, Wanted
<1>5. CASE AddFinalizer
  <2>1. Head(spec).limits \in Limit /\ AsSent(Head(spec).limits) \in Limit
    BY <1>1, AsSentType DEF QInv
  <2>2. UNCHANGED <<quota, queued, copy, edits, faults>>
    BY <1>5 DEF AddFinalizer
  <2>3. CASE PutSpec([limits |-> AsSent(Head(spec).limits), finalizer |-> TRUE])
    <3>1. quota' \in Seq(({None} \cup Wanted)')
      BY <2>1, <2>2, <2>3, PutSpecQ, Grows DEF QInv
    <3> QED BY <2>1, <2>2, <2>3, <3>1, PutSpecQ DEF QInv
  <2>4. CASE UNCHANGED <<spec, written>>
    BY <2>2, <2>4 DEF QInv, Wanted
  <2> QED BY <1>5, <2>3, <2>4 DEF AddFinalizer
<1>6. CASE StartReconcile
  BY <1>1, <1>6 DEF StartReconcile, QInv, Wanted
<1>7. ASSUME NEW e \in BOOLEAN, Finish(e), quota' \in Seq({None} \cup Wanted), quota' # <<>>,
             faults' \in 0 .. MaxFaults
      PROVE  QInv'
  BY <1>7 DEF Finish, QInv, Wanted
<1>8. ASSUME NEW hard, copy # None
      PROVE  /\ DesiredResources(copy) \in {None} \cup Wanted
             /\ Append(quota, DesiredResources(copy)) \in Seq({None} \cup Wanted)
             /\ Append(quota, DesiredResources(copy)) # <<>>
             /\ Refreshed(hard, DesiredResources(copy)) = DesiredResources(copy)
  <2>1. DesiredResources(copy) \in {None} \cup Wanted
    BY <1>8 DEF QInv, Wanted
  <2>2. Refreshed(hard, DesiredResources(copy)) = DesiredResources(copy)
    BY RefreshedIsDesired
  <2> QED BY <1>1, <2>1, <2>2, AppendProperties
<1>9. CASE CreateQuota
  <2>1. copy # None /\ faults' = faults
    BY <1>9 DEF CreateQuota
  <2>2. \/ quota' = Append(quota, DesiredResources(copy)) /\ Finish(FALSE)
        \/ quota' = quota /\ Finish(TRUE)
    BY <1>9 DEF CreateQuota
  <2> QED BY <1>1, <1>7, <1>8, <2>1, <2>2 DEF QInv
<1>10. CASE UpdateQuota
  <2>1. copy # None /\ faults' = faults
    BY <1>10 DEF UpdateQuota
  <2>2. \/ \E e \in BOOLEAN : quota' = quota /\ Finish(e)
        \/ quota' = Append(quota, Refreshed(Head(quota), DesiredResources(copy))) /\ Finish(FALSE)
    BY <1>10, Zenon DEF UpdateQuota
  <2> QED BY <1>1, <1>7, <1>8, <2>1, <2>2 DEF QInv
<1>11. CASE ApiError
  <2>1. quota' = quota /\ Finish(TRUE) /\ Fault
    BY <1>11 DEF ApiError
  <2>2. faults' \in 0 .. MaxFaults
    BY <2>1, QuotaBoundsAssumption DEF Fault, QInv
  <2> QED BY <1>1, <1>7, <2>1, <2>2
<1>12. CASE Restart
  <2>1. /\ spec' = <<Latest(spec)>> /\ quota' = <<Latest(quota)>>
        /\ queued' = TRUE /\ copy' = None /\ written' = written /\ edits' = edits
    BY <1>12 DEF Restart
  <2>2. faults' \in 0 .. MaxFaults
    BY <1>12, QuotaBoundsAssumption DEF Restart, Fault, QInv
  <2>3. /\ spec' \in Seq(V) /\ spec' # <<>>
        /\ quota' \in Seq({None} \cup Wanted) /\ quota' # <<>>
    BY <1>1, <2>1, Shortened
  <2> QED BY <2>1, <2>2, <2>3 DEF QInv, Wanted
<1>13. CASE UNCHANGED vars
  BY <1>13 DEF vars, QInv, Wanted
<1> QED
  BY <1>2, <1>3, <1>4, <1>5, <1>6, <1>9, <1>10, <1>11, <1>12, <1>13 DEF Next, Reconcile

THEOREM QuotaInvariant == Spec => []QInv
  BY InitQ, NextQ, PTL DEF Spec

-----------------------------------------------------------------------------
(* What it gives *)

\* Every variable has its type: the stored list is nil or a map from resource
\* names to quantities.
THEOREM QuotaTypeCorrect == Spec => []TypeOK
<1>1. ASSUME QInv PROVE TypeOK
  <2>1. \A n \in DOMAIN spec : spec[n] \in Version
    <3>1. spec \in Seq([limits: written, finalizer: BOOLEAN]) /\ written \subseteq Limit
      BY <1>1 DEF QInv
    <3>2. [limits: written, finalizer: BOOLEAN] \subseteq Version
      BY <3>1 DEF Version
    <3> QED BY <3>1, <3>2, ElementOfSeq, LenProperties
  <2>2. ASSUME NEW n \in DOMAIN quota PROVE quota[n] = None \/ IsHard(quota[n])
    <3>1. quota[n] \in {None} \cup Wanted
      BY <1>1, <2>2 DEF QInv
    <3> QED BY <1>1, <3>1, DesiredIsHard DEF QInv, Wanted
  <2> QED BY <1>1, <2>1, <2>2 DEF QInv, TypeOK
<1> QED BY <1>1, QuotaInvariant, PTL

\* CreateResourceQuotaForTenant never stores a list that mixes two versions of
\* the spec.
THEOREM QuotaWhole == Spec => []QuotaIsOfOneSpec
<1>1. ASSUME QInv PROVE QuotaIsOfOneSpec
  BY <1>1, Shortened DEF QInv, QuotaIsOfOneSpec, Exists, Stored, Wanted
<1> QED BY <1>1, QuotaInvariant, PTL

\* The stored memory request is never more than the stored memory limit.
THEOREM MemoryBounded == Spec => []MemoryRequestsWithinLimit
<1>1. ASSUME QInv PROVE MemoryRequestsWithinLimit
  <2> SUFFICES ASSUME Exists
               PROVE  /\ "requests.memory" \in DOMAIN Stored <=> "limits.memory" \in DOMAIN Stored
                      /\ "requests.memory" \in DOMAIN Stored =>
                            Stored["requests.memory"] <= Stored["limits.memory"]
    BY DEF MemoryRequestsWithinLimit
  <2>1. PICK l \in Limit : Stored = DesiredResources(l)
    BY <1>1, Shortened DEF QInv, Exists, Stored, Wanted
  <2>2. /\ DOMAIN Stored = DesiredKeys(l)
        /\ \A k \in DesiredKeys(l) : Stored[k] = Amount(l, k)
    BY <2>1, DesiredType
  <2>3. /\ "requests.memory" \in DesiredKeys(l) <=> l.memory # 0
        /\ "limits.memory" \in DesiredKeys(l) <=> l.memory # 0
    BY DEF DesiredKeys, Keys
  <2>4. /\ Amount(l, "requests.memory") = MemoryRequests(l.memory, l.dedicated)
        /\ Amount(l, "limits.memory") = l.memory
    BY DEF Amount
  <2>5. l.memory \in Nat /\ MemoryRequests(l.memory, l.dedicated) <= l.memory
    BY MemoryShare DEF Limit
  <2> QED BY <2>2, <2>3, <2>4, <2>5
<1> QED BY <1>1, QuotaInvariant, PTL

=============================================================================
