----------------------- MODULE MCTrajectoryController -----------------------
(* The mission controller alone, in an arbitrary environment. *)
EXTENDS TrajectoryController
=============================================================================
