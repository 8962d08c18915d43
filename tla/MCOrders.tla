------------------------------ MODULE MCOrders ------------------------------
(***************************************************************************)
(* Orders on small sets, for TLC.                                          *)
(***************************************************************************)
EXTENDS Orders, TLC

\* Requests, users and dates are interchangeable: nothing orders or names them.
Interchangeable ==
  Permutations(Requests) \cup Permutations(Users) \cup Permutations(Dates)
=============================================================================
