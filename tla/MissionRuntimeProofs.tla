------------------------- MODULE MissionRuntimeProofs -------------------------
(***************************************************************************)
(* What the trajectory controller guarantees for every set of heights and  *)
(* every choice of its limits, whatever telemetry it is given; then the    *)
(* mission process as a whole: what holds of the runtime thread, the main  *)
(* thread and the vehicle for every choice of limits and budgets, although *)
(* the telemetry a tick acts on may be older than the last commands.       *)
(***************************************************************************)
EXTENDS MissionRuntime, MissionPhasesProofs

\* Every tick of the trajectory controller is a tick of the mission phases.
LEMMA TrajectoryTicks ==
    ASSUME NEW in \in Inputs, Tick(in)
    PROVE  Timed(in) /\ PhaseTick(in)
BY DEF Timed, Inputs, Tick, TickExecute, TickGoHome, FlightTick, PhaseTick

\* The time spent on the trajectory stays within its cap.
LEMMA ElapsedType ==
    ASSUME ControllerTypeOK, NEW in \in Inputs, Tick(in)
    PROVE  segment_elapsed' \in 0..AgeCap
<1>1. segment_elapsed \in 0..AgeCap /\ 0 \in 0..AgeCap
    BY ConfigAssumption DEF ControllerTypeOK, ConfigAssumption
<1>2. CASE TickExecute(in)
    <2>1. segment_elapsed \in Nat /\ in.dt \in Nat
        BY ConfigAssumption DEF ControllerTypeOK, Inputs, ConfigAssumption
    <2>2. segment_elapsed + in.dt \in Nat
        BY <2>1
    <2> QED BY <1>1, <1>2, <2>2, SaturateType DEF TickExecute, AdvanceTrajectory
<1>3. CASE ~TickExecute(in)
    BY <1>1, <1>3 DEF Tick, StartTrajectory
<1> QED BY <1>2, <1>3

\* The controller's state always has its type, whatever the telemetry: the
\* machine never leaves its states and no age runs past its cap.
THEOREM TypeCorrect == ControllerSpec => []ControllerTypeOK
<1>1. ControllerInit => ControllerTypeOK
    <2>1. 0 \in 0..AgeCap
        BY ConfigAssumption DEF ConfigAssumption
    <2> QED BY <2>1 DEF ControllerInit, PhasesInit, ControllerTypeOK, PhasesTypeOK, States
<1>2. ControllerTypeOK /\ [ControllerNext]_controllerVars => ControllerTypeOK'
    <2>1. ASSUME ControllerTypeOK, ControllerNext PROVE ControllerTypeOK'
        BY <2>1, TickType, TrajectoryTicks, ElapsedType
           DEF ControllerNext, ControllerTypeOK
    <2>2. ASSUME ControllerTypeOK, UNCHANGED controllerVars PROVE ControllerTypeOK'
        BY <2>2 DEF ControllerTypeOK, PhasesTypeOK, controllerVars, phaseVars
    <2> QED BY <2>1, <2>2
<1> QED BY <1>1, <1>2, PTL DEF ControllerSpec

-----------------------------------------------------------------------------
\* The inductive invariant.
Safe ==
    /\ ControllerTypeOK
    /\ AbortRecoveryEndsInAbort
    /\ FinishStopsClimb
    /\ LandBelongsToLanding
    /\ NoPhaseOutlivesItsTimeout

\* Takeoff and ExecuteMission look at the finish flag before anything else.
LEMMA TickStopsClimb ==
    ASSUME ControllerTypeOK, NEW in \in Inputs, Tick(in)
    PROVE  FinishStopsClimb'
<1> USE DEF FinishStopsClimb, Move, Enter, WaitIn, Stay, Quiet, Say, Fail,
            SendFlagged, SendVelocity, Phase, Tick, ControllerTypeOK, PhasesTypeOK, Inputs
<1>1. CASE TickPrepare(in)
    BY <1>1 DEF TickPrepare, ArmTimedOut, BeginAbortRecovery
<1>2. CASE TickTakeoff(in)
    BY <1>2 DEF TickTakeoff, TakeoffDecision
<1>3. CASE TickExecute(in)
    BY <1>3 DEF TickExecute
<1>4. CASE TickGoHome(in)
    BY <1>4 DEF TickGoHome
<1>5. CASE TickLand(in)
    BY <1>5 DEF TickLand
<1>6. CASE TickComplete(in)
    BY <1>6 DEF TickComplete
<1>7. CASE TickAbort(in)
    BY <1>7 DEF TickAbort
<1> QED BY <1>1, <1>2, <1>3, <1>4, <1>5, <1>6, <1>7

\* Every tick keeps the invariant.
LEMMA SafeIsInductive ==
    /\ ControllerInit => Safe
    /\ Safe /\ [ControllerNext]_controllerVars => Safe'
<1>1. ControllerInit => Safe
    <2>1. ControllerInit => ControllerTypeOK
        <3>1. 0 \in 0..AgeCap
            BY ConfigAssumption DEF ConfigAssumption
        <3> QED BY <3>1 DEF ControllerInit, PhasesInit, ControllerTypeOK, PhasesTypeOK, States
    <2> QED BY <2>1
            DEF ControllerInit, PhasesInit, Safe, AbortRecoveryEndsInAbort, FinishStopsClimb,
                LandBelongsToLanding, NoPhaseOutlivesItsTimeout
<1>2. ASSUME Safe, ControllerNext PROVE Safe'
    BY <1>2, TrajectoryTicks, TickType, ElapsedType, TickKeepsRecovery,
       TickStopsClimb, TickKeepsLand, TickKeepsTimeouts
       DEF ControllerNext, Safe, ControllerTypeOK
<1>3. ASSUME Safe, UNCHANGED controllerVars PROVE Safe'
    BY <1>3 DEF Safe, ControllerTypeOK, PhasesTypeOK, AbortRecoveryEndsInAbort, FinishStopsClimb,
                LandBelongsToLanding, NoPhaseOutlivesItsTimeout, controllerVars,
                phaseVars
<1> QED BY <1>1, <1>2, <1>3

\* begin_abort_recovery is final: an aborted mission comes down and ends in
\* Abort, for every configuration and all telemetry.
THEOREM AbortIsFinal == ControllerSpec => []AbortRecoveryEndsInAbort
<1>1. Safe => AbortRecoveryEndsInAbort
    BY DEF Safe
<1> QED BY <1>1, SafeIsInductive, PTL DEF ControllerSpec

\* A finish request is final: after it the vehicle is neither sent up nor kept
\* on the trajectory.
THEOREM FinishIsFinal == ControllerSpec => []FinishStopsClimb
<1>1. Safe => FinishStopsClimb
    BY DEF Safe
<1> QED BY <1>1, SafeIsInductive, PTL DEF ControllerSpec

\* No timed phase of tick() outlives its timeout, whatever the limits are and
\* however far apart the snapshots are.
THEOREM TimeoutsAreKept == ControllerSpec => []NoPhaseOutlivesItsTimeout
<1>1. Safe => NoPhaseOutlivesItsTimeout
    BY DEF Safe
<1> QED BY <1>1, SafeIsInductive, PTL DEF ControllerSpec

-----------------------------------------------------------------------------
\* The controller implements the command protocol: for every configuration and
\* whatever telemetry it is given, phases only move forward, a change of phase
\* is silent, and Takeoff and Land are requested at most once each.
THEOREM ImplementsProtocol == ControllerSpec => KeepsProtocol
<1>1. ControllerInit => Protocol!Init
    BY DEF ControllerInit, PhasesInit, Protocol!Init
<1>2. ControllerTypeOK /\ [ControllerNext]_controllerVars
        => [Protocol!Next]_Protocol!vars
    <2>1. ASSUME ControllerTypeOK, ControllerNext PROVE Protocol!Next
        BY <2>1, TrajectoryTicks, TickKeepsProtocol DEF ControllerNext, ControllerTypeOK
    <2>2. ASSUME UNCHANGED controllerVars PROVE UNCHANGED Protocol!vars
        BY <2>2 DEF controllerVars, phaseVars, Protocol!vars
    <2> QED BY <2>1, <2>2
<1> QED BY <1>1, <1>2, TypeCorrect, PTL DEF ControllerSpec, KeepsProtocol, Protocol!Spec

-----------------------------------------------------------------------------
(* The process. *)

\* The commands of the first phases, and what Takeoff says about the phase.
CommandsFitPhase ==
    /\ state \in {"Idle", "Prepare"} => command \in {"none", "Arm"} /\ "Takeoff" \notin sent
    /\ command = "Arm" => state = "Prepare"
    /\ command = "Takeoff" => "Takeoff" \in sent

\* The flag the controller has seen has been raised, and a full run of overruns has
\* raised it.
FinishIsKept ==
    /\ finish_seen => finish_requested
    /\ MaxOverruns > 0 /\ overruns >= MaxOverruns => finish_requested

\* While the mission is being armed, an armed vehicle has been sent an Arm, and the
\* tracker has not forgotten it.
ArmIsRemembered ==
    (state \in {"Idle", "Prepare"} /\ VehicleArmed) => tracker \in {"ArmRequested", "ArmFailed"}

\* Nothing leaves the ground before the Takeoff.
GroundUntilTakeoff ==
    "Takeoff" \notin sent =>
        /\ vehicle.mode # "flying" /\ vehicle.height = 0
        /\ \A ego \in sample \cup slot : ego.height = 0

\* A snapshot that shows the vehicle disarmed is still true.
Truthful(s) == \A ego \in s : ego.armed_valid /\ ~ego.armed => ~VehicleArmed

Airborne(s) == \E ego \in s : ego.height > 0

\* Telemetry sampled after the takeoff is newer than every Arm, so what it says of a
\* disarm stays true, however long it lies in the slot.
AirborneIsTruthful ==
    /\ Airborne(sample) => Truthful(sample)
    /\ Airborne(slot) \/ flew => Truthful(slot) /\ Truthful(sample)

\* A mission that flew has passed the arming.
FlewIsLate ==
    /\ flew => state \notin {"Idle", "Prepare", "Takeoff"}
    /\ state = "ExecuteMission" => flew

\* The inductive invariant; the last part needs a safe height above the ground.
RuntimeSafe ==
    /\ RuntimeTypeOK /\ CommandsFitPhase /\ FinishIsKept /\ ArmIsRemembered
    /\ SettledSendsOnlyDisarm /\ GroundUntilTakeoff /\ FlewIsLate

FlightSafe == RuntimeSafe /\ AirborneIsTruthful /\ CompletedFlightIsDisarmed

-----------------------------------------------------------------------------
\* What one tick of the controller does to the phases, as far as the runtime
\* depends on it.

\* A tick keeps the commands and the phases together and never clears a flag.
LEMMA TickFitsPhase ==
    ASSUME ControllerTypeOK, CommandsFitPhase, NEW in \in Inputs, Tick(in)
    PROVE  CommandsFitPhase' /\ sent \subseteq sent'
<1> USE DEF CommandsFitPhase, Move, Enter, WaitIn, Stay, Quiet, Say, Fail,
            SendFlagged, SendVelocity, Phase, ControllerTypeOK, PhasesTypeOK, States
<1>1. CASE TickPrepare(in)
    BY <1>1 DEF TickPrepare, ArmTimedOut, BeginAbortRecovery
<1>2. CASE TickTakeoff(in)
    BY <1>2 DEF TickTakeoff
<1>3. CASE TickExecute(in)
    BY <1>3 DEF TickExecute
<1>4. CASE TickGoHome(in)
    BY <1>4 DEF TickGoHome
<1>5. CASE TickLand(in)
    BY <1>5 DEF TickLand
<1>6. CASE TickComplete(in)
    BY <1>6 DEF TickComplete
<1>7. CASE TickAbort(in)
    BY <1>7 DEF TickAbort
<1> QED BY <1>1, <1>2, <1>3, <1>4, <1>5, <1>6, <1>7 DEF Tick

\* The terminal phases: nothing leaves them, Abort is never left, only Disarm is
\* requested in them, and "complete" is reported on telemetry that says disarmed.
LEMMA TickIsTerminal ==
    ASSUME ControllerTypeOK, NEW in \in Inputs, Tick(in)
    PROVE  /\ state \in {"Complete", "Abort"} =>
                  state' \in {"Complete", "Abort"} /\ command' \in {"none", "Disarm"}
           /\ state = "Abort" => state' = "Abort"
           /\ status' = "complete" =>
                  state' = "Complete" /\ command' = "none" /\ Disarmed(in)
           /\ status' = "abort" => state' = "Abort" /\ command' = "none"
<1> USE DEF Move, Enter, WaitIn, Stay, Quiet, Say, Fail,
            SendFlagged, SendVelocity, Phase, ControllerTypeOK, PhasesTypeOK, States
<1>1. CASE TickPrepare(in)
    BY <1>1 DEF TickPrepare, ArmTimedOut, BeginAbortRecovery
<1>2. CASE TickTakeoff(in)
    BY <1>2 DEF TickTakeoff
<1>3. CASE TickExecute(in)
    BY <1>3 DEF TickExecute
<1>4. CASE TickGoHome(in)
    BY <1>4 DEF TickGoHome
<1>5. CASE TickLand(in)
    BY <1>5 DEF TickLand
<1>6. CASE TickComplete(in)
    BY <1>6 DEF TickComplete, CompleteDecision
<1>7. CASE TickAbort(in)
    BY <1>7 DEF TickAbort
<1> QED BY <1>1, <1>2, <1>3, <1>4, <1>5, <1>6, <1>7 DEF Tick

\* Prepare is left on telemetry that says armed and never entered again; the
\* trajectory is reached only from Takeoff, at the safe height.
LEMMA TickClimbs ==
    ASSUME ControllerTypeOK, NEW in \in Inputs, Tick(in)
    PROVE  /\ state' \in {"Idle", "Prepare"} =>
                  state \in {"Idle", "Prepare"} /\ ~Armed(in)
           /\ state \notin {"Idle", "Prepare", "Takeoff"} =>
                  state' \notin {"Idle", "Prepare", "Takeoff"}
           /\ state' = "ExecuteMission" =>
                  \/ state = "ExecuteMission"
                  \/ state = "Takeoff" /\ in.height >= SafeHeight
<1> USE DEF Move, Enter, WaitIn, Stay, Quiet, Say, Fail,
            SendFlagged, SendVelocity, Phase, ControllerTypeOK, PhasesTypeOK, States
<1>1. CASE TickPrepare(in)
    BY <1>1 DEF TickPrepare, ArmTimedOut, BeginAbortRecovery, PrepareDecision, Armed,
                Disarmed
<1>2. CASE TickTakeoff(in)
    BY <1>2 DEF TickTakeoff, TakeoffDecision
<1>3. CASE TickExecute(in)
    BY <1>3 DEF TickExecute
<1>4. CASE TickGoHome(in)
    BY <1>4 DEF TickGoHome
<1>5. CASE TickLand(in)
    BY <1>5 DEF TickLand
<1>6. CASE TickComplete(in)
    BY <1>6 DEF TickComplete
<1>7. CASE TickAbort(in)
    BY <1>7 DEF TickAbort
<1> QED BY <1>1, <1>2, <1>3, <1>4, <1>5, <1>6, <1>7 DEF Tick

-----------------------------------------------------------------------------
\* The input a tick is given is one the controller's theorems are about.
LEMMA TickInputIsInput ==
    ASSUME RuntimeTypeOK, NEW ego \in slot
    PROVE  TickInput(ego) \in Inputs
<1>1. ego \in Telemetry
    BY DEF RuntimeTypeOK
<1> QED BY <1>1 DEF RuntimeTypeOK, Telemetry, TickInput, Inputs

\* A tick of the runtime is a tick of the controller.
LEMMA TickOnceTicks ==
    ASSUME RuntimeTypeOK, FinishIsKept, TickOnce
    PROVE  /\ \E ego \in slot : /\ TickInput(ego) \in Inputs /\ Tick(TickInput(ego))
                                /\ tracker' = ApplyToSnapshot(tracker, ego)
           /\ ControllerNext
<1>1. PICK ego \in slot : Tick(TickInput(ego)) /\ tracker' = ApplyToSnapshot(tracker, ego)
    BY DEF TickOnce
<1>2. TickInput(ego) \in Inputs
    BY TickInputIsInput
<1>3. finish_seen => TickInput(ego).finish
    BY DEF FinishIsKept, TickInput
<1> QED BY <1>1, <1>2, <1>3 DEF ControllerNext

\* Every other step leaves the controller alone.
LEMMA OthersLeaveController ==
    ASSUME RuntimeNext, ~TickOnce
    PROVE  UNCHANGED controllerVars
BY DEF RuntimeNext, ThreadNext, ThreadExit, TickThrows, DispatchCommand, CheckOverrun, MainNext,
       MainTop, SampleTelemetry, PublishSnapshot, FrameSourceEnds, Drain, Stop, Join,
       Interrupt, VehicleMoves, Finished, vars

-----------------------------------------------------------------------------
\* Type correctness.

\* A tick keeps the types.
LEMMA TickOnceType ==
    ASSUME RuntimeTypeOK, FinishIsKept, TickOnce
    PROVE  RuntimeTypeOK'
<1>1. PICK ego \in slot : /\ TickInput(ego) \in Inputs /\ Tick(TickInput(ego))
                          /\ tracker' = ApplyToSnapshot(tracker, ego)
    BY TickOnceTicks
<1>2. ControllerTypeOK'
    BY <1>1, TrajectoryTicks, TickType, ElapsedType DEF RuntimeTypeOK, ControllerTypeOK
<1>3. tracker' \in ArmStates
    BY <1>1 DEF ApplyToSnapshot, RuntimeTypeOK, ArmStates
<1>4. lag' \in 0..MaxDt
    BY ConfigAssumption DEF ConfigAssumption, TickOnce
<1>5. terminal_settled' \in BOOLEAN /\ flew' \in BOOLEAN
    BY DEF TickOnce, RuntimeTypeOK
<1> QED BY <1>2, <1>3, <1>4, <1>5 DEF TickOnce, RuntimeTypeOK, mainVars

\* The rest of the runtime thread keeps the types.
LEMMA ThreadType ==
    ASSUME RuntimeTypeOK, ThreadNext, ~TickOnce
    PROVE  RuntimeTypeOK'
<1> USE DEF RuntimeTypeOK, ControllerTypeOK, PhasesTypeOK, controllerVars, phaseVars,
            mainVars
<1>1. CASE ThreadExit
    BY <1>1 DEF ThreadExit
<1>2. CASE TickThrows
    <2>1. running' \in BOOLEAN
        BY <1>2 DEF TickThrows
    <2> QED BY <1>2, <2>1 DEF TickThrows
<1>3. CASE DispatchCommand
    <2>1. arm_ok' \in BOOLEAN /\ tracker' \in ArmStates
        BY <1>3 DEF DispatchCommand, AfterCommand, ArmStates
    <2>2. Obey(vehicle, command) \in Vehicles
        BY DEF Obey, Vehicles
    <2>3. vehicle' \in Vehicles
        BY <1>3, <2>2 DEF DispatchCommand
    <2> QED BY <1>3, <2>1, <2>3 DEF DispatchCommand
<1>4. CASE CheckOverrun
    <2>1. overruns' \in 0..MaxOverruns
        BY <1>4, RuntimeAssumption DEF CheckOverrun, RuntimeAssumption
    <2>2. finish_requested' \in BOOLEAN
        BY <1>4 DEF CheckOverrun
    <2> QED BY <1>4, <2>1, <2>2 DEF CheckOverrun
<1> QED BY <1>1, <1>2, <1>3, <1>4 DEF ThreadNext

\* The main thread keeps the types.
LEMMA MainType ==
    ASSUME RuntimeTypeOK, MainNext
    PROVE  RuntimeTypeOK'
<1> USE DEF RuntimeTypeOK, ControllerTypeOK, PhasesTypeOK, controllerVars, phaseVars,
            threadVars
<1>1. CASE MainTop
    <2>1. waited' \in 0..ShutdownBudget
        BY <1>1, RuntimeAssumption
           DEF MainTop, ExitMissionComplete, BeginFrame, RuntimeAssumption
    <2>2. finishing' \in BOOLEAN /\ finish_requested' \in BOOLEAN
        BY <1>1 DEF MainTop, ExitMissionComplete, BeginFrame
    <2>3. main' \in {"frame", "stop"}
        BY <1>1 DEF MainTop, ExitMissionComplete, BeginFrame
    <2> QED BY <1>1, <2>1, <2>2, <2>3 DEF MainTop
<1>2. CASE SampleTelemetry
    <2>1. PICK valid \in BOOLEAN :
            sample' = {[armed_valid |-> valid, armed |-> valid /\ VehicleArmed,
                        height |-> vehicle.height, at_home |-> vehicle.at_home]}
        BY <1>2 DEF SampleTelemetry
    <2>2. vehicle.height \in Heights /\ vehicle.at_home \in BOOLEAN
        BY DEF Vehicles
    <2>3. (valid /\ VehicleArmed) \in BOOLEAN
        OBVIOUS
    <2>4. sample' \in SUBSET Telemetry
        BY <2>1, <2>2, <2>3 DEF Telemetry
    <2> QED BY <1>2, <2>4 DEF SampleTelemetry
<1>3. CASE PublishSnapshot
    <2>1. lag' \in 0..MaxDt
        BY <1>3, ConfigAssumption DEF PublishSnapshot, ConfigAssumption
    <2>2. frames' \in 0..MaxFrames
        BY <1>3, RuntimeAssumption DEF PublishSnapshot, RuntimeAssumption
    <2> QED BY <1>3, <2>1, <2>2 DEF PublishSnapshot
<1>4. CASE FrameSourceEnds
    <2>1. finishing' \in BOOLEAN /\ finish_requested' \in BOOLEAN
        BY <1>4 DEF FrameSourceEnds
    <2>2. main' \in {"stop", "drain"}
        BY <1>4 DEF FrameSourceEnds
    <2> QED BY <1>4, <2>1, <2>2 DEF FrameSourceEnds
<1>5. CASE Drain
    <2>1. consumed' \in 0..ShutdownBudget
        BY <1>5, RuntimeAssumption DEF Drain, RuntimeAssumption
    <2> QED BY <1>5, <2>1 DEF Drain
<1>6. CASE Stop
    <2>1. running' \in BOOLEAN
        BY <1>6 DEF Stop
    <2> QED BY <1>6, <2>1 DEF Stop
<1>7. CASE Join
    BY <1>7 DEF Join
<1> QED BY <1>1, <1>2, <1>3, <1>4, <1>5, <1>6, <1>7 DEF MainNext

\* The operator and the vehicle keep the types.
LEMMA WorldType ==
    ASSUME RuntimeTypeOK, Interrupt \/ VehicleMoves
    PROVE  RuntimeTypeOK'
<1> USE DEF RuntimeTypeOK, ControllerTypeOK, PhasesTypeOK, controllerVars, phaseVars,
            threadVars, mainVars
<1>1. CASE Interrupt
    BY <1>1 DEF Interrupt
<1>2. CASE VehicleMoves
    <2>1. 0 \in Heights
        BY RuntimeAssumption DEF RuntimeAssumption
    <2>2. vehicle' \in Vehicles
        BY <1>2, <2>1 DEF VehicleMoves, Vehicles
    <2> QED BY <1>2, <2>2 DEF VehicleMoves
<1> QED BY <1>1, <1>2

\* Every step keeps the types.
LEMMA RuntimeTypeStep ==
    ASSUME RuntimeTypeOK, FinishIsKept, [RuntimeNext]_vars
    PROVE  RuntimeTypeOK'
<1>1. CASE TickOnce
    BY <1>1, TickOnceType
<1>2. CASE ThreadNext /\ ~TickOnce
    BY <1>2, ThreadType
<1>3. CASE MainNext
    BY <1>3, MainType
<1>4. CASE Interrupt \/ VehicleMoves
    BY <1>4, WorldType
<1>5. CASE UNCHANGED vars
    BY <1>5 DEF RuntimeTypeOK, ControllerTypeOK, PhasesTypeOK, controllerVars, phaseVars,
                threadVars, mainVars, vars
<1> QED BY <1>1, <1>2, <1>3, <1>4, <1>5 DEF RuntimeNext, Finished

\* The process starts with its types.
LEMMA RuntimeInitType ==
    ASSUME RuntimeInit
    PROVE  RuntimeTypeOK
<1>1. 0 \in 0..AgeCap /\ 0 \in 0..MaxDt
    BY ConfigAssumption DEF ConfigAssumption
<1>2. /\ 0 \in Heights /\ 0 \in 0..MaxOverruns /\ 0 \in 0..ShutdownBudget
      /\ 0 \in 0..MaxFrames
    BY RuntimeAssumption DEF RuntimeAssumption
<1>3. ControllerTypeOK
    BY <1>1 DEF RuntimeInit, ControllerInit, PhasesInit, ControllerTypeOK, PhasesTypeOK, States
<1>4. vehicle \in Vehicles
    BY <1>2 DEF RuntimeInit, Vehicles
<1>5. /\ running \in BOOLEAN /\ finish_requested \in BOOLEAN /\ terminal_settled \in BOOLEAN
      /\ arm_ok \in BOOLEAN /\ flew \in BOOLEAN /\ finishing \in BOOLEAN
    BY DEF RuntimeInit
<1> QED BY <1>1, <1>2, <1>3, <1>4, <1>5 DEF RuntimeInit, RuntimeTypeOK, ArmStates

-----------------------------------------------------------------------------
\* The inductive invariant, action by action.

\* The parts of RuntimeSafe besides the types.
RuntimeParts ==
    /\ CommandsFitPhase /\ FinishIsKept /\ ArmIsRemembered
    /\ SettledSendsOnlyDisarm /\ GroundUntilTakeoff /\ FlewIsLate

\* A tick keeps the parts: it acts on the snapshot in the slot, and a snapshot
\* that shows the vehicle armed ends the arming.
LEMMA TickOnceKeeps ==
    ASSUME RuntimeSafe, TickOnce
    PROVE  RuntimeParts'
<1>1. PICK ego \in slot : /\ TickInput(ego) \in Inputs /\ Tick(TickInput(ego))
                          /\ tracker' = ApplyToSnapshot(tracker, ego)
    BY TickOnceTicks DEF RuntimeSafe
<1> DEFINE in == TickInput(ego)
<1>2. in \in Inputs /\ Tick(in) /\ ControllerTypeOK /\ CommandsFitPhase
    BY <1>1 DEF RuntimeSafe, RuntimeTypeOK
<1>3. /\ in.armed = ego.armed /\ in.armed_valid = ego.armed_valid /\ in.height = ego.height
      /\ in.finish = finish_requested
    BY DEF TickInput
<1> HIDE DEF in
<1>4. CommandsFitPhase' /\ sent \subseteq sent'
    BY <1>2, TickFitsPhase
<1>5. FinishIsKept'
    BY <1>2, <1>3 DEF RuntimeSafe, FinishIsKept, Tick, TickOnce
<1>6. ArmIsRemembered'
    <2>1. state' \in {"Idle", "Prepare"} => state \in {"Idle", "Prepare"} /\ ~Armed(in)
        BY <1>2, TickClimbs
    <2> QED BY <1>1, <1>3, <2>1
            DEF RuntimeSafe, ArmIsRemembered, TickOnce, ApplyToSnapshot, Armed, VehicleArmed
<1>7. SettledSendsOnlyDisarm'
    <2>1. /\ state \in {"Complete", "Abort"} =>
                  state' \in {"Complete", "Abort"} /\ command' \in {"none", "Disarm"}
          /\ status' = "complete" => state' = "Complete" /\ command' = "none"
          /\ status' = "abort" => state' = "Abort" /\ command' = "none"
        BY <1>2, TickIsTerminal
    <2> QED BY <2>1 DEF RuntimeSafe, SettledSendsOnlyDisarm, TickOnce, OutputIsTerminalSettled
<1>8. GroundUntilTakeoff'
    BY <1>4 DEF RuntimeSafe, GroundUntilTakeoff, TickOnce, mainVars
<1>9. FlewIsLate'
    <2>1. /\ state \notin {"Idle", "Prepare", "Takeoff"} =>
                 state' \notin {"Idle", "Prepare", "Takeoff"}
        BY <1>2, TickClimbs
    <2> QED BY <2>1 DEF RuntimeSafe, FlewIsLate, TickOnce
<1> QED BY <1>4, <1>5, <1>6, <1>7, <1>8, <1>9 DEF RuntimeParts

\* Delivering a command keeps the parts: only Prepare sends Arm, and Takeoff is
\* remembered before it is sent.
LEMMA DispatchKeeps ==
    ASSUME RuntimeSafe, DispatchCommand
    PROVE  RuntimeParts'
<1>1. vehicle \in Vehicles /\ vehicle' \in {vehicle, Obey(vehicle, command)}
    BY DEF RuntimeSafe, RuntimeTypeOK, DispatchCommand
<1>2. /\ vehicle'.height = vehicle.height
      /\ vehicle'.mode = "flying" => vehicle.mode = "flying" \/ command = "Takeoff"
      /\ vehicle'.mode # "disarmed" => vehicle.mode # "disarmed" \/ command = "Arm"
    BY <1>1 DEF Obey, Vehicles
<1>3. CommandsFitPhase' /\ FinishIsKept' /\ SettledSendsOnlyDisarm' /\ FlewIsLate'
    BY DEF RuntimeSafe, CommandsFitPhase, FinishIsKept, SettledSendsOnlyDisarm, FlewIsLate,
           DispatchCommand, controllerVars, phaseVars
<1>4. ArmIsRemembered'
    BY <1>2 DEF RuntimeSafe, CommandsFitPhase, ArmIsRemembered, VehicleArmed, DispatchCommand,
                AfterCommand, controllerVars, phaseVars
<1>5. GroundUntilTakeoff'
    BY <1>2 DEF RuntimeSafe, CommandsFitPhase, GroundUntilTakeoff, DispatchCommand,
                controllerVars, phaseVars, mainVars
<1> QED BY <1>3, <1>4, <1>5 DEF RuntimeParts

\* The overrun count reaches its limit together with the finish flag.
LEMMA CheckKeeps ==
    ASSUME RuntimeSafe, CheckOverrun
    PROVE  RuntimeParts'
<1>1. FinishIsKept'
    <2>0. /\ finish_requested \in BOOLEAN /\ finish_requested' \in BOOLEAN
          /\ overruns \in 0..MaxOverruns
        BY DEF RuntimeSafe, RuntimeTypeOK, CheckOverrun
    <2>1. finish_seen' = finish_seen /\ (finish_requested => finish_requested')
        BY <2>0 DEF CheckOverrun, controllerVars, phaseVars
    <2>2. MaxOverruns > 0 /\ overruns' >= MaxOverruns => finish_requested'
        <3>1. CASE overruns' = 0
            BY <3>1, RuntimeAssumption DEF RuntimeAssumption
        <3>2. CASE finish_requested' =
                    (finish_requested \/ (MaxOverruns > 0 /\ overruns' >= MaxOverruns))
            BY <2>0, <3>2
        <3> QED BY <3>1, <3>2 DEF CheckOverrun
    <2> QED BY <2>1, <2>2 DEF RuntimeSafe, FinishIsKept
<1> QED BY <1>1
        DEF RuntimeSafe, RuntimeParts, CommandsFitPhase, ArmIsRemembered, VehicleArmed,
            SettledSendsOnlyDisarm, GroundUntilTakeoff, FlewIsLate, CheckOverrun,
            controllerVars, phaseVars, mainVars

\* The main thread keeps the parts: it raises the finish flag, never lowers it,
\* and the telemetry it samples is that of the vehicle.
LEMMA MainKeeps ==
    ASSUME RuntimeSafe, MainNext
    PROVE  RuntimeParts'
<1> USE DEF RuntimeSafe, RuntimeParts, CommandsFitPhase, FinishIsKept, ArmIsRemembered,
            VehicleArmed, SettledSendsOnlyDisarm, FlewIsLate, controllerVars, phaseVars,
            threadVars
<1>1. CASE MainTop
    BY <1>1 DEF MainTop, ExitMissionComplete, BeginFrame, GroundUntilTakeoff
<1>2. CASE SampleTelemetry
    <2>1. GroundUntilTakeoff'
        BY <1>2 DEF SampleTelemetry, GroundUntilTakeoff
    <2> QED BY <1>2, <2>1 DEF SampleTelemetry
<1>3. CASE PublishSnapshot
    <2>1. GroundUntilTakeoff'
        BY <1>3 DEF PublishSnapshot, GroundUntilTakeoff
    <2> QED BY <1>3, <2>1 DEF PublishSnapshot
<1>4. CASE FrameSourceEnds
    BY <1>4 DEF FrameSourceEnds, GroundUntilTakeoff
<1>5. CASE Drain
    BY <1>5 DEF Drain, GroundUntilTakeoff
<1>6. CASE Stop
    BY <1>6 DEF Stop, GroundUntilTakeoff
<1>7. CASE Join
    BY <1>7 DEF Join, GroundUntilTakeoff
<1> QED BY <1>1, <1>2, <1>3, <1>4, <1>5, <1>6, <1>7 DEF MainNext

\* A vehicle that moves by itself never arms and never leaves the ground.
LEMMA VehicleStays ==
    ASSUME RuntimeTypeOK, VehicleMoves
    PROVE  /\ vehicle'.mode = "flying" => vehicle.mode = "flying"
           /\ vehicle'.mode # "disarmed" => vehicle.mode # "disarmed"
           /\ vehicle'.height # vehicle.height => vehicle.mode = "flying" \/ vehicle.height > 0
<1>1. vehicle \in Vehicles
    BY DEF RuntimeTypeOK
<1> QED BY <1>1 DEF VehicleMoves, Vehicles, VehicleArmed

\* So does everything else that is not the main thread.
LEMMA OthersKeep ==
    ASSUME RuntimeSafe, ThreadExit \/ TickThrows \/ Interrupt \/ VehicleMoves
    PROVE  RuntimeParts'
<1> USE DEF RuntimeSafe, RuntimeParts, CommandsFitPhase, FinishIsKept,
            SettledSendsOnlyDisarm, FlewIsLate, controllerVars, phaseVars
<1>1. CASE ThreadExit
    BY <1>1 DEF ThreadExit, mainVars, GroundUntilTakeoff, ArmIsRemembered, VehicleArmed
<1>2. CASE TickThrows
    BY <1>2 DEF TickThrows, mainVars, GroundUntilTakeoff, ArmIsRemembered, VehicleArmed
<1>3. CASE Interrupt
    BY <1>3 DEF Interrupt, threadVars, GroundUntilTakeoff, ArmIsRemembered, VehicleArmed
<1>4. CASE VehicleMoves
    <2>1. GroundUntilTakeoff'
        <3>1. "Takeoff" \notin sent => vehicle'.mode # "flying" /\ vehicle'.height = 0
            BY <1>4, VehicleStays DEF GroundUntilTakeoff
        <3> QED BY <1>4, <3>1 DEF VehicleMoves, threadVars, mainVars, GroundUntilTakeoff
    <2>2. ArmIsRemembered'
        <3>1. VehicleArmed' => VehicleArmed
            BY <1>4, VehicleStays DEF VehicleArmed
        <3> QED BY <1>4, <3>1 DEF VehicleMoves, threadVars, ArmIsRemembered
    <2> QED BY <1>4, <2>1, <2>2 DEF VehicleMoves, threadVars, mainVars
<1> QED BY <1>1, <1>2, <1>3, <1>4

\* RuntimeSafe is inductive.
LEMMA RuntimeSafeIsInductive ==
    /\ RuntimeInit => RuntimeSafe
    /\ RuntimeSafe /\ [RuntimeNext]_vars => RuntimeSafe'
<1>1. RuntimeInit => RuntimeSafe
    <2> SUFFICES ASSUME RuntimeInit PROVE RuntimeSafe
        OBVIOUS
    <2>1. ~(MaxOverruns > 0 /\ 0 >= MaxOverruns)
        BY RuntimeAssumption DEF RuntimeAssumption
    <2>2. FinishIsKept
        BY <2>1 DEF RuntimeInit, ControllerInit, PhasesInit, FinishIsKept
    <2> QED BY <2>2, RuntimeInitType
            DEF RuntimeInit, ControllerInit, PhasesInit, RuntimeSafe, CommandsFitPhase,
                ArmIsRemembered, VehicleArmed, SettledSendsOnlyDisarm, GroundUntilTakeoff,
                FlewIsLate
<1>2. ASSUME RuntimeSafe, [RuntimeNext]_vars PROVE RuntimeSafe'
    <2>1. RuntimeTypeOK'
        BY <1>2, RuntimeTypeStep DEF RuntimeSafe
    <2>2. RuntimeParts'
        <3>1. CASE TickOnce
            BY <1>2, <3>1, TickOnceKeeps
        <3>2. CASE DispatchCommand
            BY <1>2, <3>2, DispatchKeeps
        <3>3. CASE CheckOverrun
            BY <1>2, <3>3, CheckKeeps
        <3>4. CASE MainNext
            BY <1>2, <3>4, MainKeeps
        <3>5. CASE ThreadExit \/ TickThrows \/ Interrupt \/ VehicleMoves
            BY <1>2, <3>5, OthersKeep
        <3>6. CASE UNCHANGED vars
            BY <1>2, <3>6
               DEF RuntimeSafe, RuntimeParts, CommandsFitPhase, FinishIsKept, ArmIsRemembered,
                   VehicleArmed, SettledSendsOnlyDisarm, GroundUntilTakeoff, FlewIsLate,
                   controllerVars, phaseVars, threadVars, mainVars, vars
        <3> QED BY <1>2, <3>1, <3>2, <3>3, <3>4, <3>5, <3>6
                DEF RuntimeNext, ThreadNext, Finished
    <2> QED BY <2>1, <2>2 DEF RuntimeSafe, RuntimeParts
<1> QED BY <1>1, <1>2

-----------------------------------------------------------------------------
\* Old telemetry about a flight.

\* The parts of FlightSafe besides RuntimeSafe.
FlightParts == AirborneIsTruthful /\ CompletedFlightIsDisarmed

\* A tick that reaches the safe height acted on telemetry from the air, and a
\* tick that settles acted on telemetry that is still true.
LEMMA TickOnceKeepsFlight ==
    ASSUME FlightSafe, TickOnce, SafeHeight > 0
    PROVE  FlightParts'
<1>1. PICK ego \in slot : /\ TickInput(ego) \in Inputs /\ Tick(TickInput(ego))
                          /\ tracker' = ApplyToSnapshot(tracker, ego)
    BY TickOnceTicks DEF FlightSafe, RuntimeSafe
<1> DEFINE in == TickInput(ego)
<1>2. in \in Inputs /\ Tick(in) /\ ControllerTypeOK
    BY <1>1 DEF FlightSafe, RuntimeSafe, RuntimeTypeOK
<1>3. in.armed = ego.armed /\ in.armed_valid = ego.armed_valid /\ in.height = ego.height
    BY DEF TickInput
<1>4. in.height \in Int /\ SafeHeight \in Int
    BY <1>2, ConfigAssumption DEF Inputs, ConfigAssumption
<1> HIDE DEF in
<1>5. flew' => flew \/ Airborne(slot)
    <2>1. state' = "ExecuteMission" => state = "ExecuteMission" \/ in.height >= SafeHeight
        BY <1>2, TickClimbs
    <2>2. in.height >= SafeHeight => ego.height > 0
        BY <1>3, <1>4
    <2> QED BY <2>1, <2>2 DEF FlightSafe, RuntimeSafe, FlewIsLate, TickOnce, Airborne
<1>6. AirborneIsTruthful'
    <2>1. /\ Airborne(sample) => Truthful(sample)
          /\ Airborne(slot) \/ flew' => Truthful(slot) /\ Truthful(sample)
        BY <1>5 DEF FlightSafe, AirborneIsTruthful
    <2> QED BY <2>1 DEF AirborneIsTruthful, Airborne, Truthful, VehicleArmed, TickOnce, mainVars
<1>7. CompletedFlightIsDisarmed'
    <2>1. SUFFICES ASSUME terminal_settled', flew', state' = "Complete"
                   PROVE  ~VehicleArmed
        BY DEF CompletedFlightIsDisarmed, VehicleArmed, TickOnce
    <2>2. CASE terminal_settled
        <3>1. state \in {"Complete", "Abort"}
            BY <2>2 DEF FlightSafe, RuntimeSafe, SettledSendsOnlyDisarm
        <3>2. state = "Complete"
            BY <1>2, <2>1, <3>1, TickIsTerminal
        <3>3. flew
            BY <2>1 DEF TickOnce
        <3> QED BY <2>2, <3>2, <3>3 DEF FlightSafe, CompletedFlightIsDisarmed
    <2>3. CASE ~terminal_settled
        <3>1. status' = "complete"
            BY <2>1, <2>3 DEF TickOnce, OutputIsTerminalSettled
        <3>2. Disarmed(in)
            BY <1>2, <3>1, TickIsTerminal
        <3>3. Truthful(slot)
            BY <1>5, <2>1 DEF FlightSafe, AirborneIsTruthful
        <3> QED BY <1>1, <1>3, <3>2, <3>3 DEF Truthful, Disarmed
    <2> QED BY <2>2, <2>3
<1> QED BY <1>6, <1>7 DEF FlightParts

\* A step of the vehicle or of the sink arms only a vehicle that was being
\* prepared, when all telemetry is from the ground and the mission has not flown.
LEMMA VehicleKeepsFlight ==
    ASSUME FlightSafe, DispatchCommand \/ VehicleMoves
    PROVE  FlightParts'
<1>1. UNCHANGED <<sample, slot, flew, terminal_settled, state>>
    BY DEF DispatchCommand, VehicleMoves, controllerVars, phaseVars, threadVars, mainVars
<1>2. CASE VehicleArmed' => VehicleArmed
    BY <1>1, <1>2 DEF FlightSafe, FlightParts, AirborneIsTruthful, CompletedFlightIsDisarmed,
                      Airborne, Truthful
<1>3. CASE VehicleArmed' /\ ~VehicleArmed
    <2>1. DispatchCommand
        BY <1>3, VehicleStays DEF FlightSafe, RuntimeSafe, VehicleArmed
    <2>2. command = "Arm"
        BY <1>3, <2>1
           DEF FlightSafe, RuntimeSafe, RuntimeTypeOK, DispatchCommand, Obey, Vehicles, VehicleArmed
    <2>3. state = "Prepare" /\ "Takeoff" \notin sent
        BY <2>2 DEF FlightSafe, RuntimeSafe, CommandsFitPhase
    <2>4. \A ego \in sample \cup slot : ego.height = 0
        BY <2>3 DEF FlightSafe, RuntimeSafe, GroundUntilTakeoff
    <2>5. ~Airborne(sample) /\ ~Airborne(slot)
        BY <2>4 DEF Airborne
    <2>6. ~flew
        BY <2>3 DEF FlightSafe, RuntimeSafe, FlewIsLate
    <2> QED BY <1>1, <2>5, <2>6 DEF FlightParts, AirborneIsTruthful, CompletedFlightIsDisarmed,
                                    Airborne
<1> QED BY <1>2, <1>3 DEF VehicleArmed

\* Fresh telemetry is true, and publishing it only moves it.
LEMMA SnapshotsKeepFlight ==
    ASSUME FlightSafe, SampleTelemetry \/ PublishSnapshot
    PROVE  FlightParts'
<1>1. UNCHANGED <<vehicle, flew, terminal_settled, state>>
    BY DEF SampleTelemetry, PublishSnapshot, controllerVars, phaseVars, threadVars
<1>2. CompletedFlightIsDisarmed'
    BY <1>1 DEF FlightSafe, CompletedFlightIsDisarmed, VehicleArmed
<1>3. CASE SampleTelemetry
    <2>1. slot' = slot /\ \A ego \in sample' : ego.armed_valid /\ ~ego.armed => ~VehicleArmed
        BY <1>3 DEF SampleTelemetry
    <2> QED BY <1>1, <1>2, <2>1 DEF FlightSafe, FlightParts, AirborneIsTruthful, Airborne, Truthful,
                                    VehicleArmed
<1>4. CASE PublishSnapshot
    <2>1. slot' = sample /\ sample' = {}
        BY <1>4 DEF PublishSnapshot
    <2> QED BY <1>1, <1>2, <2>1 DEF FlightSafe, FlightParts, AirborneIsTruthful, Airborne, Truthful,
                                    VehicleArmed
<1> QED BY <1>3, <1>4

\* FlightSafe is inductive when the safe height is above the ground.
LEMMA FlightSafeIsInductive ==
    ASSUME SafeHeight > 0
    PROVE  /\ RuntimeInit => FlightSafe
           /\ FlightSafe /\ [RuntimeNext]_vars => FlightSafe'
<1>1. RuntimeInit => FlightSafe
    BY RuntimeSafeIsInductive
       DEF RuntimeInit, FlightSafe, AirborneIsTruthful, Airborne, Truthful,
           CompletedFlightIsDisarmed
<1>2. ASSUME FlightSafe, [RuntimeNext]_vars PROVE FlightSafe'
    <2>1. RuntimeSafe'
        BY <1>2, RuntimeSafeIsInductive DEF FlightSafe
    <2>2. FlightParts'
        <3>1. CASE TickOnce
            BY <1>2, <3>1, TickOnceKeepsFlight
        <3>2. CASE DispatchCommand \/ VehicleMoves
            BY <1>2, <3>2, VehicleKeepsFlight
        <3>3. CASE SampleTelemetry \/ PublishSnapshot
            BY <1>2, <3>3, SnapshotsKeepFlight
        <3>4. CASE UNCHANGED <<sample, slot, vehicle, flew, terminal_settled, state>>
            BY <1>2, <3>4
               DEF FlightSafe, FlightParts, AirborneIsTruthful, CompletedFlightIsDisarmed,
                   Airborne, Truthful, VehicleArmed
        <3>5. CASE \/ ThreadExit \/ TickThrows \/ CheckOverrun \/ MainTop \/ FrameSourceEnds
                   \/ Drain \/ Stop \/ Join \/ Interrupt \/ UNCHANGED vars
            <4>1. UNCHANGED <<sample, slot, vehicle, flew, terminal_settled, state>>
                BY <3>5
                   DEF ThreadExit, TickThrows, CheckOverrun, MainTop, FrameSourceEnds, Drain, Stop,
                       Join, Interrupt, controllerVars, phaseVars, threadVars, mainVars, vars
            <4> QED BY <3>4, <4>1
        <3> QED BY <1>2, <3>1, <3>2, <3>3, <3>5
                DEF RuntimeNext, ThreadNext, MainNext, Finished
    <2> QED BY <2>1, <2>2 DEF FlightSafe, FlightParts
<1> QED BY <1>1, <1>2

-----------------------------------------------------------------------------
\* The state of the process always has its type: no budget, count of overruns,
\* frame count or lag runs past its bound, whatever the bounds are.
THEOREM RuntimeTypeCorrect == RuntimeSpec => []RuntimeTypeOK
<1>1. RuntimeSafe => RuntimeTypeOK
    BY DEF RuntimeSafe
<1> QED BY <1>1, RuntimeSafeIsInductive, PTL DEF RuntimeSpec

\* Once terminal_settled() is up the controller stays in a terminal state and the
\* only command it still sends is Disarm.
THEOREM SettledIsFinal == RuntimeSpec => []SettledSendsOnlyDisarm
<1>1. RuntimeSafe => SettledSendsOnlyDisarm
    BY DEF RuntimeSafe
<1> QED BY <1>1, RuntimeSafeIsInductive, PTL DEF RuntimeSpec

\* While the mission is being armed, a disarm the tracker reports as confirmed is
\* the truth, however old the telemetry is that confirmed it.
THEOREM TrackerTellsTruth == RuntimeSpec => []TrackerConfirmsTruth
<1>1. RuntimeSafe => TrackerConfirmsTruth
    BY DEF RuntimeSafe, ArmIsRemembered, TrackerConfirmsTruth
<1> QED BY <1>1, RuntimeSafeIsInductive, PTL DEF RuntimeSpec

\* A full run of slow ticks has raised the finish flag before the next tick.
THEOREM OverrunsFinish == RuntimeSpec => []OverrunsRequestFinish
<1>1. RuntimeSafe => OverrunsRequestFinish
    BY DEF RuntimeSafe, FinishIsKept, OverrunsRequestFinish
<1> QED BY <1>1, RuntimeSafeIsInductive, PTL DEF RuntimeSpec

\* A mission that flew and settled as Complete left the vehicle disarmed, for
\* every schedule of the threads and every loss of commands and telemetry,
\* provided the safe height is above the ground.
THEOREM CompletedFlightStaysDisarmed ==
    ASSUME SafeHeight > 0
    PROVE  RuntimeSpec => []CompletedFlightIsDisarmed
<1>1. FlightSafe => CompletedFlightIsDisarmed
    BY DEF FlightSafe
<1>2. RuntimeInit => FlightSafe
    BY FlightSafeIsInductive
<1>3. FlightSafe /\ [RuntimeNext]_vars => FlightSafe'
    BY FlightSafeIsInductive
<1> QED BY <1>1, <1>2, <1>3, PTL DEF RuntimeSpec

-----------------------------------------------------------------------------
\* The process implements the controller's specification: the thread gives the
\* controller only inputs its theorems allow, and nothing else touches its state.
THEOREM RuntimeImplementsController == RuntimeSpec => ControllerSpec
<1>1. RuntimeInit => ControllerInit
    BY DEF RuntimeInit
<1>2. RuntimeSafe /\ [RuntimeNext]_vars => [ControllerNext]_controllerVars
    <2>1. ASSUME RuntimeSafe, TickOnce PROVE ControllerNext
        BY <2>1, TickOnceTicks DEF RuntimeSafe
    <2>2. ASSUME RuntimeNext, ~TickOnce PROVE UNCHANGED controllerVars
        BY <2>2, OthersLeaveController
    <2>3. ASSUME UNCHANGED vars PROVE UNCHANGED controllerVars
        BY <2>3 DEF vars
    <2> QED BY <2>1, <2>2, <2>3
<1> QED BY <1>1, <1>2, RuntimeSafeIsInductive, PTL DEF RuntimeSpec, ControllerSpec

\* Hence what is proved of the controller alone holds inside the process: its
\* commands keep to the protocol, an aborted mission ends in Abort, a finish
\* request is final and no timed phase outlives its timeout.
THEOREM ProcessKeepsProtocol ==
    RuntimeSpec => /\ KeepsProtocol
                   /\ []AbortRecoveryEndsInAbort
                   /\ []FinishStopsClimb
                   /\ []NoPhaseOutlivesItsTimeout
BY RuntimeImplementsController, ImplementsProtocol, AbortIsFinal, FinishIsFinal, TimeoutsAreKept,
   PTL
=============================================================================
