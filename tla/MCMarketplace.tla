---------------------------- MODULE MCMarketplace ----------------------------
(***************************************************************************)
(* Marketplace on small sets, for TLC.                                     *)
(***************************************************************************)
EXTENDS Marketplace, TLC
=============================================================================
