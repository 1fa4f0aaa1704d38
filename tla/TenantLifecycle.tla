--------------------------- MODULE TenantLifecycle ---------------------------
(***************************************************************************)
(* What the reconciler promises to the PostgreSQL placement about its      *)
(* calls, and what it promises to a user about the order of a tenant's     *)
(* life.  TenantReconciler implements this specification.  What            *)
(* SharedPostgreSQL assumes of its callers is meant to be the same         *)
(* promise: that is by reading its actions StartCreate, StartDelete,       *)
(* LaterStepFails, NamespaceGone and Crash beside those of this module.    *)
(*                                                                         *)
(*   new       no database was asked for                                   *)
(*   asked     CreatePostgreSQLForTenant has been called: never again      *)
(*   closing   the reconciler has seen the deletion                        *)
(*   released  DeletePostgreSQLForTenant has returned nil and the          *)
(*             reconcile that called it goes on                            *)
(*   gone      the TenantEnvironment no longer exists                      *)
(***************************************************************************)
CONSTANTS Tenants, None

VARIABLES
    stage,  \* stage[t]: how far the tenant has got
    call    \* the call being made, <<"create", t>> or <<"delete", t>>, or None

vars == <<stage, call>>

Stages == {"new", "asked", "closing", "released", "gone"}

Init == stage = [t \in Tenants |-> "new"] /\ call = None

MoveTo(t, s) == stage' = [stage EXCEPT ![t] = s]

\* One call at a time; a database is asked for once, and never for a tenant
\* that is being taken down.
BeginCreate(t) ==
    /\ call = None /\ stage[t] = "new"
    /\ call' = <<"create", t>> /\ MoveTo(t, "asked")

EndCreate(t) == call = <<"create", t>> /\ call' = None /\ UNCHANGED stage

\* The deletion may be noticed while any call is under way.
Close(t) == stage[t] \in {"new", "asked"} /\ MoveTo(t, "closing") /\ UNCHANGED call

BeginDelete(t) ==
    /\ call = None /\ stage[t] # "gone"
    /\ call' = <<"delete", t>> /\ MoveTo(t, "closing")

EndDelete(t) == call = <<"delete", t>> /\ call' = None /\ UNCHANGED stage

\* DeletePostgreSQLForTenant returns nil: at once for a dedicated tenant.
Release(t) ==
    /\ call \in {None, <<"delete", t>>} /\ stage[t] \in {"new", "asked", "closing"}
    /\ call' = None /\ MoveTo(t, "released")

\* A later step of the reconcile failed: everything is done again.
Repeat(t) == stage[t] = "released" /\ MoveTo(t, "closing") /\ UNCHANGED call

\* A tenant that asked for a database goes only when it is released.
End(t) ==
    /\ call \notin {<<"create", t>>, <<"delete", t>>} /\ stage[t] \in {"new", "released"}
    /\ MoveTo(t, "gone") /\ UNCHANGED call

\* The operator starts again and may find any tenants deleted.
Restart ==
    /\ call' = None
    /\ \E seen \in SUBSET {t \in Tenants : stage[t] # "gone"} :
        stage' = [t \in Tenants |-> IF t \in seen THEN "closing" ELSE stage[t]]

Next ==
    \/ \E t \in Tenants :
        \/ BeginCreate(t) \/ EndCreate(t) \/ Close(t) \/ BeginDelete(t)
        \/ EndDelete(t) \/ Release(t) \/ Repeat(t) \/ End(t)
    \/ Restart

Spec == Init /\ [][Next]_vars

=============================================================================
