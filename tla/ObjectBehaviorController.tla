----------------------- MODULE ObjectBehaviorController -----------------------
(***************************************************************************)
(* ObjectBehaviorMissionController: the mission phases around a behavior   *)
(* relative to a selected target, or a sequence of such behaviors, and the *)
(* TargetSelector it asks in every tick.                                   *)
(*                                                                         *)
(* The geometry of a behavior is numeric.  What it decides about the       *)
(* sequence is part of the view of a tick: whether an approach has reached *)
(* its standoff, whether the vehicle is on the circle, and how far it has  *)
(* turned since the last tick.  The agents that match the target's class,  *)
(* handles, lifecycle and confidence are v.seen, the one the ranking       *)
(* prefers is v.best, and v.stale is the age of the selected agent's last  *)
(* sighting.  Camera pointing, yaw, velocities and events are outputs no   *)
(* decision depends on.                                                    *)
(***************************************************************************)
EXTENDS MissionPhases, Sequences

CONSTANTS
    Steps,            \* behavior.steps, or the one behavior by itself
    IsSequence,       \* behavior.type is Sequence
    CompletionAfter,  \* completion.after_s, 0 for none
    Agents,           \* the agents of the world that may match
    Persistent,       \* selector policy persistent_track
    ReacquireTimeout, \* reacquire_timeout_s
    MaxStale,         \* how old a selected sighting may be
    MaxTurn,          \* how far one tick may turn
    OrbitCap,         \* turns are counted up to here
    NoTarget

BehaviorTypes == {"approach", "circle", "terminal", "other"}

ASSUME BehaviorAssumption ==
    /\ IsSequence \in BOOLEAN /\ Persistent \in BOOLEAN
    /\ CompletionAfter \in 0..AgeCap
    /\ ReacquireTimeout \in Nat /\ MaxStale \in Nat
    /\ MaxTurn \in Nat /\ OrbitCap \in Nat
    /\ Steps \in Seq([type : BehaviorTypes, duration : 0..AgeCap, orbits : 0..OrbitCap])
    /\ Len(Steps) > 0 /\ (IsSequence \/ Len(Steps) = 1)
    /\ NoTarget \notin [agent : Agents, age : 0..MaxStale]

VARIABLES
    step,       \* sequence_step_index_, from 1
    clock,      \* now minus behavior_start_ and sequence_step_start_
    started,    \* behavior_start_emitted_ and target_selected_emitted_
    previous,   \* previous_selection_
    tracking,   \* circle_orbit_tracking_
    turned,     \* circle_completed_orbits_
    selection,  \* the status the selector returned to the last tick
    missing     \* history: how long the previous target has not been selected

behaviorVars == <<step, clock, started, previous, tracking, turned>>
objectVars == <<phaseVars, behaviorVars, selection, missing>>

Selections == [agent : Agents, age : 0..MaxStale]

Views ==
    [seen : SUBSET Agents, best : Agents, stale : 0..MaxStale,
     arrived : BOOLEAN, circling : BOOLEAN, turn : 0..MaxTurn]

ObjectTypeOK ==
    /\ PhasesTypeOK
    /\ step \in 1..Len(Steps)
    /\ clock \in [{"behavior", "step"} -> 0..AgeCap]
    /\ started \in BOOLEAN
    /\ previous \in Selections \cup {NoTarget}
    /\ tracking \in BOOLEAN /\ turned \in 0..OrbitCap
    /\ selection \in {"none", "selected", "reacquiring", "lost", "no_candidates"}
    /\ missing \in 0..AgeCap

ObjectInit ==
    /\ PhasesInit
    /\ step = 1 /\ clock = [c \in {"behavior", "step"} |-> 0]
    /\ started = FALSE /\ previous = NoTarget
    /\ tracking = FALSE /\ turned = 0
    /\ selection = "none" /\ missing = 0

-----------------------------------------------------------------------------
\* TargetSelector::select.
KeepsPrevious(v) ==
    Persistent /\ previous # NoTarget /\ previous.agent \in v.seen

\* target_age_s is that of the previous selection, which is stored only by a
\* tick that selects.
Reacquires(v) ==
    /\ Persistent /\ previous # NoTarget /\ previous.agent \notin v.seen
    /\ previous.age <= ReacquireTimeout

Select(v) ==
    IF KeepsPrevious(v) THEN "selected"
    ELSE IF Reacquires(v) THEN "reacquiring"
    ELSE IF v.seen # {} THEN "selected"
    ELSE IF previous # NoTarget THEN "lost"
    ELSE "no_candidates"

Selected(v) ==
    [agent |-> IF KeepsPrevious(v) THEN previous.agent ELSE v.best, age |-> v.stale]

-----------------------------------------------------------------------------
\* The two clocks as this tick reads them; the behavior's starts with the first
\* tick that has a target, the step's with the step.
Clock(in) ==
    [behavior |-> IF started THEN Saturate(clock["behavior"] + in.dt) ELSE 0,
     step |-> Saturate(clock["step"] + in.dt)]

\* completion_elapsed
DurationComplete(in) == CompletionAfter > 0 /\ Clock(in).behavior >= CompletionAfter

\* The geometry is computed only for a behavior that goes on.
Observes(in) == ~in.finish /\ ~DurationComplete(in)

\* update_circle_orbit_progress
CountsOrbits(in) ==
    Observes(in) /\ Steps[step].type = "circle" /\ Steps[step].orbits > 0

Turned(v) ==
    IF ~v.circling THEN turned
    ELSE IF ~tracking THEN 0
    ELSE IF turned + v.turn < OrbitCap THEN turned + v.turn ELSE OrbitCap

OrbitComplete(in, v) ==
    CountsOrbits(in) /\ v.circling /\ tracking /\ Turned(v) >= Steps[step].orbits

UpdateOrbit(in, v) ==
    IF CountsOrbits(in) THEN tracking' = v.circling /\ turned' = Turned(v)
    ELSE UNCHANGED <<tracking, turned>>

StepComplete(in, v) ==
    /\ IsSequence
    /\ \/ Steps[step].duration > 0 /\ Clock(in).step >= Steps[step].duration
       \/ OrbitComplete(in, v)
       \/ Steps[step].type = "approach" /\ Observes(in) /\ v.arrived
       \/ Steps[step].type = "terminal"

\* Mutant of LastStep: the size is compared with the index after next.
NearlyLastStep == step + 1 >= Len(Steps)

\* active_behavior_is_last_sequence_step
LastStep == step >= Len(Steps)

\* Mutant of AdvanceStep: the index is not incremented.
RestartStep(in) ==
    /\ UNCHANGED step
    /\ clock' = [Clock(in) EXCEPT !.step = 0]
    /\ tracking' = FALSE /\ turned' = 0
    /\ WaitIn(in)

\* The next step of the sequence begins with the next tick; reset_sequence_step.
AdvanceStep(in) ==
    /\ step' = step + 1
    /\ clock' = [Clock(in) EXCEPT !.step = 0]
    /\ tracking' = FALSE /\ turned' = 0
    /\ WaitIn(in)

\* A tick with a target.  The end of a step that is not the last comes before
\* the finish flag and before the end of the behavior.
TickWithTarget(in, v) ==
    /\ previous' = Selected(v)
    /\ started' = TRUE
    /\ \/ StepComplete(in, v) /\ ~LastStep /\ AdvanceStep(in)
       \/ /\ ~(StepComplete(in, v) /\ ~LastStep)
          /\ UpdateOrbit(in, v)
          /\ clock' = Clock(in) /\ UNCHANGED step
          /\ LET over == \/ in.finish \/ DurationComplete(in)
                         \/ OrbitComplete(in, v) \/ StepComplete(in, v)
             IN  \/ over /\ Move("GoHome", in)
                 \/ ~over /\ SendVelocity(in)

\* Mutant of TickWithoutTarget: the vehicle hovers whatever is requested.
HoverWithoutTarget(in) ==
    /\ SendVelocity(in)
    /\ clock' = Clock(in)
    /\ UNCHANGED <<step, started, previous, tracking, turned>>

\* Without one the vehicle hovers; neither fallback nor lost_target_timeout_s is
\* looked at.
TickWithoutTarget(in) ==
    /\ \/ in.finish /\ Move("GoHome", in)
       \/ ~in.finish /\ SendVelocity(in)
    /\ clock' = Clock(in)
    /\ UNCHANGED <<step, started, previous, tracking, turned>>

\* tick_execute_mission
TickExecuteMission(in, v) ==
    /\ Phase = "ExecuteMission"
    /\ NoRecovery
    /\ selection' = Select(v)
    /\ missing' = IF selection' = "selected" \/ previous = NoTarget THEN 0
                  ELSE Saturate(missing + in.dt)
    /\ \/ Select(v) = "selected" /\ TickWithTarget(in, v)
       \/ Select(v) # "selected" /\ TickWithoutTarget(in)

\* tick_go_home: the vehicle climbs back to takeoff_height_m before it lands.
TickGoHome(in) ==
    /\ Phase = "GoHome"
    /\ NoRecovery
    /\ \/ in.at_home /\ in.height >= SafeHeight /\ Move("Land", in)
       \/ ~(in.at_home /\ in.height >= SafeHeight) /\ SendVelocity(in)

\* reset_behavior_run, when Takeoff is left for ExecuteMission.
ResetBehaviorRun ==
    /\ step' = 1 /\ clock' = [c \in {"behavior", "step"} |-> 0]
    /\ started' = FALSE /\ previous' = NoTarget
    /\ tracking' = FALSE /\ turned' = 0

TickTakeoffAndReset(in) ==
    /\ TickTakeoff(in)
    /\ IF state' = "ExecuteMission" THEN ResetBehaviorRun ELSE UNCHANGED behaviorVars

\* Every other phase.  Only an Arm that was sent can have succeeded; the code
\* reads no command time before it has set it.
TickOtherPhase(in) ==
    /\ in.arm_ok => "Arm" \in sent
    /\ \/ TickTakeoffAndReset(in)
       \/ /\ \/ TickPrepare(in) \/ TickGoHome(in) \/ TickLand(in)
             \/ TickComplete(in) \/ TickAbort(in)
          /\ UNCHANGED behaviorVars
    /\ UNCHANGED <<selection, missing>>

-----------------------------------------------------------------------------
\* The controller in an arbitrary world: any telemetry, any agents, and a finish
\* flag that, once set, stays set.  ExecuteMission reads the time and the finish
\* flag of its input, and the view.
TickAfter(dt) ==
    \E finish \in {f \in BOOLEAN : finish_seen => f} :
        /\ finish_seen' = finish
        /\ \/ /\ Phase = "ExecuteMission"
              /\ \E v \in Views : /\ v.seen # {} => v.best \in v.seen
                                 /\ TickExecuteMission([dt |-> dt, finish |-> finish], v)
           \/ /\ Phase # "ExecuteMission"
              /\ \E in \in Inputs : /\ in.dt = dt /\ in.finish = finish
                                   /\ TickOtherPhase(in)

ObjectNext == \E dt \in 0..MaxDt : TickAfter(dt)

ObjectSpec == ObjectInit /\ [][ObjectNext]_objectVars

\* Ticks with newer snapshots keep coming.
ObjectTimePasses == \E dt \in 1..MaxDt : TickAfter(dt)

ObjectFairSpec == ObjectSpec /\ WF_objectVars(ObjectTimePasses)

-----------------------------------------------------------------------------
\* A finish request stops the behavior: no tick that saw it asks for a takeoff
\* or flies on relative to the target.  A tick may still be in ExecuteMission
\* then, when it ended a step of the sequence, but it commands nothing.
FinishStopsBehavior ==
    finish_seen => /\ command # "Takeoff"
                   /\ state = "ExecuteMission" => command = "none"

\* ... and the mission goes home, however many steps are left, whether or not
\* there is a target.
FinishEndsBehavior ==
    (finish_seen /\ state = "ExecuteMission") ~> (state # "ExecuteMission")

\* A sequence is flown to its last step: without a finish request, an abort or
\* the end of completion.after_s, nothing but the last step sends the vehicle
\* home.
SequenceIsFlown ==
    (/\ state \in {"GoHome", "Land", "Complete"}
     /\ ~aborting /\ ~finish_seen
     /\ CompletionAfter > 0 => clock["behavior"] < CompletionAfter)
        => step = Len(Steps)

\* docs/object_conditioned_behavior_plan.md: "reacquiring: Previous target is
\* missing but still within reacquire_timeout_s."
ReacquisitionTimesOut == selection = "reacquiring" => missing <= ReacquireTimeout
=============================================================================
