------------------------- MODULE MCMissionRuntime -------------------------
(* The mission process with two height levels and short timeouts. *)
EXTENDS MissionRuntime
=============================================================================
