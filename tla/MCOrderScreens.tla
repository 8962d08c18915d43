--------------------------- MODULE MCOrderScreens ---------------------------
(***************************************************************************)
(* OrderScreens on small sets, for TLC.                                    *)
(***************************************************************************)
EXTENDS OrderScreens
=============================================================================
