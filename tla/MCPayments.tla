----------------------------- MODULE MCPayments -----------------------------
(***************************************************************************)
(* Payments on small sets, for TLC.                                        *)
(***************************************************************************)
EXTENDS Payments, TLC

\* Orders, replicas, intents and callbacks are interchangeable.
Interchangeable ==
  Permutations(OrderIds) \cup Permutations(Replicas)
    \cup Permutations(Refs) \cup Permutations(Callbacks)
=============================================================================
