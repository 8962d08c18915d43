---------------------------- MODULE MCEventFeed ----------------------------
(***************************************************************************)
(* EventFeed on small sets, for TLC.                                       *)
(***************************************************************************)
EXTENDS EventFeed
=============================================================================
