------------------------- MODULE MCSharedPostgreSQL -------------------------
(***************************************************************************)
(* Instances of SharedPostgreSQL for TLC.                                  *)
(***************************************************************************)
EXTENDS SharedPostgreSQL, TLC

\* Tenants and ids are interchangeable in the safety runs.
Interchangeable == Permutations(Tenants) \cup Permutations(Ids)

=============================================================================
