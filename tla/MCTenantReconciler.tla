------------------------- MODULE MCTenantReconciler -------------------------
(***************************************************************************)
(* Instances of TenantReconciler for TLC.                                  *)
(***************************************************************************)
EXTENDS TenantReconciler

\* "small" is an ordinary quota.  "none" limits nothing, with a podLimit of 0
\* among its zeros; sent back by the operator it limits the pods.
PodsDefaulted == [q \in {"small", "none", "pods"} |-> IF q = "none" THEN "pods" ELSE q]

\* The first spec needs an update right after the Deployment is created; the
\* second does not survive a round trip, and becomes the third.
ThreeSpecs == {[quota |-> "small", replicas |-> 1, version |-> "v2"],
               [quota |-> "none", replicas |-> 2, version |-> ""],
               [quota |-> "pods", replicas |-> 2, version |-> "latest"]}

OneSpec == {[quota |-> "small", replicas |-> 1, version |-> "v2"]}

=============================================================================
