------------------------- MODULE TrajectoryController -------------------------
(***************************************************************************)
(* TrajectoryMissionController: the mission phases around a velocity       *)
(* trajectory.  The trajectory is its total duration, because              *)
(* advance_segment_if_needed carries the remainder of a segment into the   *)
(* next and only the segment, not the end, depends on the split.           *)
(***************************************************************************)
EXTENDS MissionPhases

CONSTANT TrajectoryDuration  \* the sum of the segments' duration_s

ASSUME TrajectoryAssumption ==
    TrajectoryDuration \in Nat /\ TrajectoryDuration <= AgeCap

VARIABLE segment_elapsed  \* time spent on the trajectory

controllerVars == <<phaseVars, segment_elapsed>>

ControllerTypeOK == PhasesTypeOK /\ segment_elapsed \in 0..AgeCap

ControllerInit == PhasesInit /\ segment_elapsed = 0

-----------------------------------------------------------------------------
\* ExecuteMission: follow the trajectory until it ends or a finish is requested.
AdvanceTrajectory(in) == segment_elapsed' = Saturate(segment_elapsed + in.dt)

TickExecute(in) ==
    /\ Phase = "ExecuteMission"
    /\ NoRecovery
    /\ \/ in.finish /\ Move("GoHome", in) /\ UNCHANGED segment_elapsed
       \/ /\ ~in.finish
          /\ AdvanceTrajectory(in)
          /\ \/ segment_elapsed' >= TrajectoryDuration /\ Move("GoHome", in)
             \/ segment_elapsed' < TrajectoryDuration /\ SendVelocity(in)

\* GoHome: fly towards the pose of the first tick; there is no timeout.
TickGoHome(in) ==
    /\ Phase = "GoHome"
    /\ NoRecovery
    /\ \/ in.at_home /\ Move("Land", in)
       \/ ~in.at_home /\ SendVelocity(in)

\* Leaving Takeoff for ExecuteMission starts the trajectory.
StartTrajectory ==
    segment_elapsed' = IF state' = "ExecuteMission" THEN 0 ELSE segment_elapsed

Tick(in) ==
    /\ finish_seen' = in.finish
    /\ \/ TickPrepare(in) /\ UNCHANGED segment_elapsed
       \/ TickTakeoff(in) /\ StartTrajectory
       \/ TickExecute(in)
       \/ TickGoHome(in) /\ UNCHANGED segment_elapsed
       \/ TickLand(in) /\ UNCHANGED segment_elapsed
       \/ TickComplete(in) /\ UNCHANGED segment_elapsed
       \/ TickAbort(in) /\ UNCHANGED segment_elapsed

-----------------------------------------------------------------------------
\* The controller in an arbitrary environment: any telemetry, any command
\* results, and a finish flag that, once set, stays set.
ControllerNext == \E in \in Inputs : (finish_seen => in.finish) /\ Tick(in)

ControllerSpec == ControllerInit /\ [][ControllerNext]_controllerVars

\* Frames with newer timestamps keep arriving: the runtime ticks for ever and
\* takes its time from the snapshots, so time passes only if they do.
TimePasses == \E in \in Inputs : in.dt > 0 /\ (finish_seen => in.finish) /\ Tick(in)

ControllerFairSpec == ControllerSpec /\ WF_controllerVars(TimePasses)

-----------------------------------------------------------------------------
\* A finish request is final: no tick that saw it leaves the vehicle on the
\* trajectory or asks it to take off, also when the request arrives while the
\* vehicle is still being armed and the arming succeeds later.
FinishStopsClimb ==
    finish_seen => state # "ExecuteMission" /\ command # "Takeoff"
=============================================================================
