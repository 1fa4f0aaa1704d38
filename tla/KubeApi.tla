------------------------------- MODULE KubeApi -------------------------------
(***************************************************************************)
(* How the operator's client (mgr.GetClient() of controller-runtime) sees  *)
(* one API object.  The object is the sequence of all its versions, oldest *)
(* first.  Writes go to the API server, which holds the last version and   *)
(* refuses an update that carries any other resourceVersion; reads are     *)
(* answered by an informer cache, which holds some earlier version and     *)
(* moves through them in order.                                            *)
(***************************************************************************)
EXTENDS Naturals, Sequences

\* The version the API server holds.
Latest(object) == object[Len(object)]

\* The optimistic-concurrency check of an update or a status update: the
\* copy the caller sends was read at, or returned with, version rv.
IsCurrent(object, rv) == rv = Len(object)

=============================================================================
