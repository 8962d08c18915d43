----------------------------- MODULE MCLivioApp -----------------------------
(***************************************************************************)
(* LivioApp on small sets, for TLC.                                        *)
(***************************************************************************)
EXTENDS LivioApp
=============================================================================
