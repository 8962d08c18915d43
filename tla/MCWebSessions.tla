--------------------------- MODULE MCWebSessions ---------------------------
(***************************************************************************)
(* WebSessions on small sets, for TLC.                                     *)
(***************************************************************************)
EXTENDS WebSessions, TLC

CONSTANTS ana, beto, carla

MCRoleOf == ana :> "CLIENT" @@ beto :> "PROVIDER" @@ carla :> "ADMIN"
Symmetry == Permutations(Tabs)
=============================================================================
