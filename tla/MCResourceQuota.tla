--------------------------- MODULE MCResourceQuota ---------------------------
(***************************************************************************)
(* Instances of ResourceQuota for TLC.                                     *)
(***************************************************************************)
EXTENDS ResourceQuota

L(cpu, memory, storage, pods, dedicated) ==
    [cpu |-> cpu, memory |-> memory, storage |-> storage, pods |-> pods,
     dedicated |-> dedicated]

\* Everything limited on a shared and on a dedicated instance, some limits
\* only (so small that the share of them rounds to zero), and none at all.
FourLimits == {L(2000, 400, 10, 10, FALSE), L(500, 401, 10, 10, TRUE),
               L(1, 1, 0, 5, FALSE), L(0, 0, 0, 0, FALSE)}

\* No limits, and one: what the nil map takes.
TwoLimits == {L(0, 0, 0, 0, FALSE), L(500, 400, 10, 10, FALSE)}

=============================================================================
