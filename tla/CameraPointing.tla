--------------------------- MODULE CameraPointing ---------------------------
(***************************************************************************)
(* Where the camera looks, and where the program believes it looks.  The   *)
(* mission thread derives a pointing command from the phase of the         *)
(* mission, hands it to the frame loop through a store under a mutex, and  *)
(* then sends it to the gimbal.  The frame loop copies the store before    *)
(* every frame and places the sensing volume of the frame's camera with    *)
(* the copy: the volume is of the intent, nothing measures the gimbal.     *)
(* Angles are small integers; yaw is carried along but never actuated.     *)
(***************************************************************************)
EXTENDS CommandSinks

CONSTANTS
    Cameras,        \* camera_pointing_cameras
    CameraConfigs,  \* camera_configs_ of the coverage provider
    FrameCameras,   \* camera_id of the frames
    Elevations,     \* elevations of what is pointed at
    BehaviorModes,  \* camera_pointing_mode of the steps of the behavior
    PitchSign, PitchOffset, PitchMin, PitchMax,
    MaxCommands     \* bound: pointing commands

ASSUME PointingAssumption ==
    /\ Cameras \in Seq(STRING) /\ Elevations \subseteq Int
    /\ {PitchOffset, PitchMin, PitchMax} \subseteq Int /\ PitchMin <= PitchMax
    /\ PitchSign \in {-1, 1} /\ MaxCommands \in Nat

VARIABLES
    stare,      \* vertical_stare_mode is not None
    phase,      \* phase of the controller
    thread,     \* where the mission thread is
    command,    \* the command of this tick
    issued,     \* commands handed over so far, the time of the last one
    states,     \* states_, and latest_camera_pointing_states
    loop,       \* where the frame loop is
    given,      \* camera_pointing_states_ of the runner
    seen,       \* issued when they were copied
    volume,     \* pointing state of the last sensing volume, Absent before
    volumeOf,   \* seen when it was made
    faulty      \* the gimbal's last real send did not reach every target

missionVars == <<stare, phase, thread, command, issued, states, faulty>>
loopVars == <<loop, given, seen, volume, volumeOf>>
pointingVars == <<missionVars, loopVars>>

Ranks == <<"Prepare", "Takeoff", "ExecuteMission", "GoHome", "Land", "Complete">>

-----------------------------------------------------------------------------
(* The mission thread. *)

None == [mode |-> "none", pitch |-> 0]

\* neutral_camera_pointing_command(): level, whatever the limits are.
neutral_camera_pointing_command(mode) ==
    IF ~stare \/ mode = "none" THEN None ELSE [mode |-> mode, pitch |-> 0]

Clamp(p) == IF p > PitchMax THEN PitchMax ELSE IF p < PitchMin THEN PitchMin ELSE p

PitchTo(elevation) == Clamp(PitchSign * elevation + PitchOffset)

camera_pointing_command_to_point(elevation, mode) ==
    IF ~stare \/ mode = "none" THEN None
    ELSE IF mode = "neutral" THEN neutral_camera_pointing_command(mode)
    ELSE [mode |-> mode, pitch |-> PitchTo(elevation)]

\* camera_pointing_command_for_behavior(): with a target selected, the mode of the
\* active step, "target" if it has none; the elevation is that of the target or of
\* the home position, which the first tick has stored.
camera_pointing_command_for_behavior(elevation, mode) ==
    camera_pointing_command_to_point(elevation, IF mode = "" THEN "target" ELSE mode)

\* What a tick emits, by the phase it begins in.
CommandOf(elevation, mode, selected) ==
    CASE phase \in {"Prepare", "Takeoff", "Complete"} -> neutral_camera_pointing_command("neutral")
      [] phase = "ExecuteMission" ->
            IF selected THEN camera_pointing_command_for_behavior(elevation, mode) ELSE None
      [] phase = "GoHome" -> camera_pointing_command_to_point(elevation, "home")
      [] phase = "Land" -> camera_pointing_command_to_point(elevation, "landing_area")

\* A tick; how the phases follow each other is the controllers' business.
emit_camera_pointing ==
    /\ thread = "tick" /\ issued < MaxCommands
    /\ \E e \in Elevations, m \in BehaviorModes, b \in BOOLEAN :
          /\ command' = CommandOf(e, m, b)
          /\ thread' = IF CommandOf(e, m, b) = None THEN "tick" ELSE "handoff"
    /\ \E i, j \in DOMAIN Ranks : i <= j /\ Ranks[i] = phase /\ phase' = Ranks[j]
    /\ UNCHANGED <<stare, issued, states, faulty, loopVars, sinkVars>>

StateFrom(name, c, time) == [name |-> name, pitch |-> c.pitch, time |-> time, valid |-> TRUE]

\* CameraPointingStateStore::apply(): for every camera with a name, its state is
\* replaced, or appended when there is none.
Apply(stored, c, time) ==
    LET step[k \in 0..Len(Cameras)] ==
          IF k = 0 THEN stored
          ELSE LET name == Cameras[k]  before == step[k - 1]
                   same == {i \in DOMAIN before : before[i].name = name}
               IN  IF name = "" THEN before
                   ELSE IF same = {} THEN Append(before, StateFrom(name, c, time))
                   ELSE [before EXCEPT ![CHOOSE i \in same : \A j \in same : i <= j] =
                             StateFrom(name, c, time)]
    IN  step[Len(Cameras)]

\* dispatch_camera_pointing() calls the handoff before the sink; the lambda
\* changes the store and the copy under the mutex.
camera_pointing_handoff ==
    /\ thread = "handoff"
    /\ thread' = "send" /\ issued' = issued + 1
    /\ states' = Apply(states, command, issued + 1)
    /\ UNCHANGED <<stare, phase, command, faulty, loopVars, sinkVars>>

\* NullCameraPointingSink::send(): success, and nothing turns.
null_send ==
    /\ thread = "send" /\ sink = "null"
    /\ thread' = "tick"
    /\ UNCHANGED <<stare, phase, command, issued, states, faulty, loopVars, sinkVars>>

\* MavlinkGimbalPointingSink::send(): suppressed, or sent target by target.
sink_send ==
    /\ thread = "send" /\ gimbal_send(command.pitch)
    /\ thread' = IF gimbal'.at = 0 THEN "tick" ELSE "sending"
    /\ UNCHANGED <<stare, phase, command, issued, states, faulty, loopVars>>

sink_sendto ==
    /\ thread = "sending" /\ gimbal_sendto
    /\ thread' = IF gimbal'.at = 0 THEN "tick" ELSE "sending"
    /\ faulty' = (faulty /\ gimbal'.at # 0)
    /\ UNCHANGED <<stare, phase, command, issued, states, loopVars>>

\* The exception is caught and logged: the tick goes on to the flight command.
sink_throws ==
    /\ thread = "sending" /\ gimbal_throws
    /\ thread' = "tick" /\ faulty' = TRUE
    /\ UNCHANGED <<stare, phase, command, issued, states, loopVars>>

-----------------------------------------------------------------------------
(* The frame loop. *)

\* The copy under the mutex, before run_once().
update_camera_pointing_states ==
    /\ loop = "copy"
    /\ given' = states /\ seen' = issued /\ loop' = "frame"
    /\ UNCHANGED <<volume, volumeOf, missionVars, sinkVars>>

FirstOf(list, Match(_)) ==
    LET found == {i \in DOMAIN list : Match(list[i])}
    IN  IF found = {} THEN Absent ELSE list[CHOOSE i \in found : \A j \in found : i <= j]

camera_matches(config, camera) ==
    IF camera = "" THEN config.id = "" \/ config.name = "front_center"
    ELSE camera \in {config.id, config.name}

default_config_for_frame(camera) ==
    LET name == IF camera = "" THEN "front_center" ELSE camera IN [id |-> name, name |-> name]

find_config_or_default(camera) ==
    LET found == FirstOf(CameraConfigs, LAMBDA c : camera_matches(c, camera))
    IN  IF found = Absent THEN default_config_for_frame(camera) ELSE found

\* Mutant of find_pointing_state: what is assumed without a state counts as known.
find_pointing_state_always(config) ==
    LET found == FirstOf(given, LAMBDA s : s.name \in {config.id, config.name})
    IN  IF found = Absent THEN [name |-> config.name, pitch |-> 0, time |-> 0, valid |-> TRUE]
        ELSE found

\* The first state with the camera's id or name; without one the camera is taken
\* to look straight ahead, and the state says that it is not valid.
find_pointing_state(config) ==
    LET found == FirstOf(given, LAMBDA s : s.name \in {config.id, config.name})
    IN  IF found = Absent THEN [name |-> config.name, pitch |-> 0, time |-> 0, valid |-> FALSE]
        ELSE found

\* run_once() places the volume of the frame's camera.
volume_for_frame ==
    /\ loop = "frame"
    /\ \E camera \in FrameCameras : volume' = find_pointing_state(find_config_or_default(camera))
    /\ volumeOf' = seen /\ loop' = "copy"
    /\ UNCHANGED <<given, seen, missionVars, sinkVars>>

-----------------------------------------------------------------------------
PointingInit ==
    /\ stare \in BOOLEAN
    /\ phase = "Prepare" /\ thread = "tick" /\ command = None
    /\ issued = 0 /\ states = <<>> /\ faulty = FALSE
    /\ loop = "copy" /\ given = <<>> /\ seen = 0
    /\ volume = Absent /\ volumeOf = 0

PointingNext ==
    \/ emit_camera_pointing \/ camera_pointing_handoff
    \/ null_send \/ sink_send \/ sink_sendto \/ sink_throws
    \/ update_camera_pointing_states \/ volume_for_frame
    \/ time_passes /\ UNCHANGED pointingVars

\* The mission runtime with the camera pointing sink the configuration names.
PointingSpec ==
    /\ SinksInit /\ sink \in {"null", "gimbal"} /\ PointingInit
    /\ [][PointingNext]_<<pointingVars, sinkVars>>

-----------------------------------------------------------------------------
\* The pitch of a state is within the limits or level, and a camera has at most
\* one state, so that the first match is the only one.
PointingTypeOK ==
    /\ command.pitch \in PitchMin..PitchMax \cup {0}
    /\ thread \in {"tick", "handoff", "send", "sending"} /\ loop \in {"copy", "frame"}
    /\ \A i, j \in DOMAIN states : states[i].name = states[j].name => i = j
    /\ seen <= issued /\ volumeOf <= seen

\* The frame loop never places cameras by a mixture of two commands: what it
\* copied is one command for every camera that has a name.
PointingIsOfOneCommand ==
    /\ \A i \in DOMAIN given : given[i].time = seen
    /\ seen > 0 => {given[i].name : i \in DOMAIN given} = {Cameras[i] : i \in DOMAIN Cameras} \ {""}

\* Once the frame loop has taken up the newest command and its send is over, the
\* volume is where the gimbal was told to look, to within the deadband, unless a
\* send failed since the last one that reached every target.
CoverageMatchesGimbal ==
    (/\ sink = "gimbal" /\ ~faulty /\ thread = "tick"
     /\ volume # Absent /\ volumeOf = issued)
    => (volume.valid => \A t \in 1..Targets :
            /\ pitch[t] # Absent
            /\ pitch[t] = volume.pitch \/ Apart(pitch[t], volume.pitch) < Deadband)

\* What the frame loop believes of the cameras is one command, and what the gimbal
\* was told.
PointingIsCoherent == PointingTypeOK /\ PointingIsOfOneCommand /\ CoverageMatchesGimbal
=============================================================================
