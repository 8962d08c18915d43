---------------------------- MODULE MCDirectory ----------------------------
(***************************************************************************)
(* Directory on small sets, for TLC.                                       *)
(***************************************************************************)
EXTENDS Directory, TLC

Symmetry == Permutations(ServiceIds) \cup Permutations(Replicas)
              \cup Permutations(Providers) \cup Permutations(Prices)
=============================================================================
