---------------------------- MODULE MissionRuntime ----------------------------
(***************************************************************************)
(* The mission process: the main loop of dedalus_mission_loop, the thread  *)
(* of MissionRuntime that ticks the controller and delivers its commands,  *)
(* the flight control tracker, the latest-snapshot slot between the two    *)
(* threads, and the vehicle at the other end of the command sink.          *)
(*                                                                         *)
(* The main thread samples telemetry, works on the frame, and publishes    *)
(* it; the runtime thread loads whatever is in the slot, so the state it   *)
(* acts on may be older than the last command it sent.  Its clock is the   *)
(* timestamp of that snapshot: lag is the time from the last snapshot it   *)
(* used to the one in the slot.                                            *)
(***************************************************************************)
EXTENDS TrajectoryController

CONSTANTS
    MaxHeight,          \* heights the vehicle reaches: 0..MaxHeight
    MaxOverruns,        \* max_consecutive_inflight_overruns, 0 when disabled
    ShutdownBudget,     \* shutdown_max_frames
    MaxFrames           \* max_frames, 0 for no limit

ASSUME RuntimeAssumption ==
    /\ MaxHeight \in Nat /\ Heights = 0..MaxHeight
    /\ MaxOverruns \in Nat /\ ShutdownBudget \in Nat /\ MaxFrames \in Nat

VARIABLES
    vehicle,           \* what the vehicle really is
    sample,            \* the telemetry of the frame run_once is working on
    slot,              \* LatestWorldSnapshot, a set of at most one snapshot
    lag,               \* time from the last snapshot used to the slot's
    pc,                \* where the runtime thread is
    running,           \* running_
    finish_requested,  \* finish_requested_
    terminal_settled,  \* terminal_settled_
    arm_ok,            \* last_command_result_ is a successful Arm
    tracker,           \* flight_control_tracker_.state_.arm_state
    overruns,          \* consecutive_inflight_overruns_
    flew,              \* history: the controller has seen the safe height
    main,              \* where the main thread is
    finishing,         \* main's own finish_requested
    waited,            \* shutdown_wait_ticks
    consumed,          \* consumed_ticks of wait_for_graceful_runtime_settle
    frames,            \* frame_count, up to MaxFrames
    interrupts         \* g_interrupt_count

threadVars == <<pc, terminal_settled, arm_ok, tracker, overruns, flew>>
mainVars == <<sample, main, finishing, waited, consumed, frames>>
vars == <<controllerVars, threadVars, mainVars, vehicle, slot, lag, running,
          finish_requested, interrupts>>

Telemetry ==
    [armed_valid : BOOLEAN, armed : BOOLEAN, height : Heights, at_home : BOOLEAN]

\* A vehicle leaves the ground only after it has obeyed a Takeoff.
Vehicles ==
    [mode : {"disarmed", "armed", "flying"}, height : Heights, at_home : BOOLEAN]

VehicleArmed == vehicle.mode # "disarmed"

ArmStates == {"Unknown", "ArmRequested", "ArmedConfirmed", "DisarmRequested",
              "DisarmedConfirmed", "ArmFailed", "DisarmFailed"}

InFlight == {"ExecuteMission", "GoHome"}

Over == main \in {"done", "killed"}

RuntimeTypeOK ==
    /\ ControllerTypeOK
    /\ vehicle \in Vehicles
    /\ sample \in SUBSET Telemetry /\ slot \in SUBSET Telemetry
    /\ lag \in 0..MaxDt
    /\ pc \in {"tick", "dispatch", "check", "exited"}
    /\ running \in BOOLEAN /\ finish_requested \in BOOLEAN
    /\ terminal_settled \in BOOLEAN /\ arm_ok \in BOOLEAN
    /\ tracker \in ArmStates
    /\ overruns \in 0..MaxOverruns
    /\ flew \in BOOLEAN
    /\ main \in {"top", "frame", "publish", "drain", "stop", "join", "done", "killed"}
    /\ finishing \in BOOLEAN
    /\ waited \in 0..ShutdownBudget /\ consumed \in 0..ShutdownBudget
    /\ frames \in 0..MaxFrames
    /\ interrupts \in 0..2

\* main constructs the runner and the runtime and starts the thread; the
\* vehicle stands on the ground.
RuntimeInit ==
    /\ ControllerInit
    /\ vehicle = [mode |-> "disarmed", height |-> 0, at_home |-> TRUE]
    /\ sample = {} /\ slot = {}
    /\ lag = 0
    /\ pc = "tick"
    /\ running = TRUE
    /\ finish_requested = FALSE /\ terminal_settled = FALSE
    /\ arm_ok = FALSE
    /\ tracker = "Unknown"
    /\ overruns = 0
    /\ flew = FALSE
    /\ main = "top" /\ finishing = FALSE
    /\ waited = 0 /\ consumed = 0 /\ frames = 0
    /\ interrupts = 0

-----------------------------------------------------------------------------
\* The runtime thread: loop() and tick_once().

\* The thread looks at running_ only between two ticks.
ThreadExit ==
    /\ pc = "tick" /\ ~running
    /\ pc' = "exited"
    /\ UNCHANGED <<controllerVars, mainVars, vehicle, slot, lag, running,
                   finish_requested, interrupts, terminal_settled,
                   arm_ok, tracker, overruns, flew>>

\* Mutant of ApplyToSnapshot: any valid disarmed flag confirms the disarm.
ApplyAnySnapshot(s, ego) ==
    IF ego.armed_valid /\ ego.armed THEN "ArmedConfirmed"
    ELSE IF ego.armed_valid THEN "DisarmedConfirmed"
    ELSE s

\* FlightControlStateTracker::apply_to_snapshot.
ApplyToSnapshot(s, ego) ==
    IF ego.armed_valid /\ ego.armed THEN "ArmedConfirmed"
    ELSE IF /\ ego.armed_valid
            /\ s \in {"DisarmRequested", "ArmedConfirmed", "DisarmedConfirmed", "Unknown"}
         THEN "DisarmedConfirmed"
    ELSE s

TickInput(ego) ==
    [dt |-> lag, armed_valid |-> ego.armed_valid, armed |-> ego.armed,
     height |-> ego.height, at_home |-> ego.at_home,
     finish |-> finish_requested, arm_ok |-> arm_ok]

\* tick_once: take the latest snapshot (without one the tick does nothing) and
\* run the controller on it.  terminal_settled_ is raised by the very tick that
\* reports a terminal state.
TickOnce ==
    /\ pc = "tick" /\ running
    /\ \E ego \in slot :
        /\ Tick(TickInput(ego))
        /\ tracker' = ApplyToSnapshot(tracker, ego)
    /\ lag' = 0
    /\ terminal_settled' = (terminal_settled \/ OutputIsTerminalSettled')
    /\ flew' = (flew \/ state' = "ExecuteMission")
    /\ pc' = IF command' = "none" THEN "check" ELSE "dispatch"
    /\ UNCHANGED <<mainVars, vehicle, slot, running, finish_requested,
                   interrupts, arm_ok, overruns>>

\* An exception of the controller ends the thread; nobody is told.
TickThrows ==
    /\ pc = "tick" /\ running /\ slot # {}
    /\ pc' = "exited" /\ running' = FALSE
    /\ UNCHANGED <<controllerVars, mainVars, vehicle, slot, lag,
                   finish_requested, interrupts, terminal_settled, arm_ok,
                   tracker, overruns, flew>>

\* FlightControlStateTracker::on_command_dispatched and on_command_failed.
AfterCommand(s, c, ok) ==
    IF c = "Arm" THEN (IF ok THEN "ArmRequested" ELSE "ArmFailed")
    ELSE IF c = "Disarm" THEN (IF ok THEN "DisarmRequested" ELSE "DisarmFailed")
    ELSE s

\* What the vehicle makes of a command.
Obey(v, c) ==
    IF c = "Arm" /\ v.mode = "disarmed" THEN [v EXCEPT !.mode = "armed"]
    ELSE IF c = "Takeoff" /\ v.mode = "armed" THEN [v EXCEPT !.mode = "flying"]
    ELSE IF c = "Disarm" THEN [v EXCEPT !.mode = "disarmed"]
    ELSE v

\* dispatch_command: sink_->send() succeeds, reports failure or throws, and in
\* each case the vehicle may or may not have obeyed.
DispatchCommand ==
    /\ pc = "dispatch"
    /\ \E ok \in BOOLEAN :
        /\ arm_ok' = (command = "Arm" /\ ok)
        /\ tracker' = AfterCommand(tracker, command, ok)
    /\ vehicle' \in {vehicle, Obey(vehicle, command)}
    /\ pc' = "check"
    /\ UNCHANGED <<controllerVars, mainVars, slot, lag, running,
                   finish_requested, interrupts, terminal_settled,
                   overruns, flew>>

\* Mutant of CheckOverrun: one overrun too many is needed.
CheckOverrunStrictly ==
    /\ pc = "check"
    /\ \/ /\ state \in InFlight
          /\ overruns' = IF overruns < MaxOverruns THEN overruns + 1 ELSE overruns
          /\ finish_requested' =
                (finish_requested \/ (MaxOverruns > 0 /\ overruns' > MaxOverruns))
       \/ overruns' = 0 /\ UNCHANGED finish_requested
    /\ pc' = "tick"
    /\ UNCHANGED <<controllerVars, mainVars, vehicle, slot, lag, running,
                   interrupts, terminal_settled, arm_ok, tracker, flew>>

\* The rest of loop(): a run of slow ticks in flight requests a finish.
CheckOverrun ==
    /\ pc = "check"
    /\ \/ /\ state \in InFlight
          /\ overruns' = IF overruns < MaxOverruns THEN overruns + 1 ELSE overruns
          /\ finish_requested' =
                (finish_requested \/ (MaxOverruns > 0 /\ overruns' >= MaxOverruns))
       \/ overruns' = 0 /\ UNCHANGED finish_requested
    /\ pc' = "tick"
    /\ UNCHANGED <<controllerVars, mainVars, vehicle, slot, lag, running,
                   interrupts, terminal_settled, arm_ok, tracker, flew>>

ThreadNext ==
    \/ ThreadExit \/ TickOnce \/ TickThrows
    \/ DispatchCommand \/ CheckOverrun

-----------------------------------------------------------------------------
\* The main thread.

FinishDue == interrupts >= 1 \/ (MaxFrames > 0 /\ frames >= MaxFrames)

\* The mission settled by itself.
ExitMissionComplete ==
    /\ main = "top" /\ interrupts = 0 /\ ~finishing /\ terminal_settled
    /\ main' = "stop"
    /\ UNCHANGED <<finishing, waited, finish_requested>>

\* Go on with a frame, requesting a finish when one is due.
BeginFrame ==
    /\ main = "top"
    /\ interrupts >= 1 \/ finishing \/ ~terminal_settled
    /\ finishing' = (finishing \/ FinishDue)
    /\ finish_requested' = (finish_requested \/ (finishing' /\ ~finishing))
    /\ \/ ~finishing' /\ main' = "frame" /\ UNCHANGED waited
       \/ /\ finishing' /\ (terminal_settled \/ waited >= ShutdownBudget)
          /\ main' = "stop" /\ UNCHANGED waited
       \/ /\ finishing' /\ ~terminal_settled /\ waited < ShutdownBudget
          /\ main' = "frame" /\ waited' = waited + 1

MainTop ==
    /\ ExitMissionComplete \/ BeginFrame
    /\ UNCHANGED <<controllerVars, threadVars, vehicle, sample, slot, lag,
                   running, consumed, frames, interrupts>>

\* run_once: read the telemetry, then work on the frame.  The armed flag may be
\* missing from it.
SampleTelemetry ==
    /\ main = "frame"
    /\ \E valid \in BOOLEAN :
        sample' = {[armed_valid |-> valid, armed |-> valid /\ VehicleArmed,
                    height |-> vehicle.height, at_home |-> vehicle.at_home]}
    /\ main' = "publish"
    /\ UNCHANGED <<controllerVars, threadVars, vehicle, slot, lag, running,
                   finish_requested, finishing, waited, consumed, frames,
                   interrupts>>

\* ... and publish it, with a newer timestamp than the last.
PublishSnapshot ==
    /\ main = "publish"
    /\ slot' = sample /\ sample' = {}
    /\ lag' = IF lag < MaxDt THEN lag + 1 ELSE lag
    /\ frames' = IF frames < MaxFrames THEN frames + 1 ELSE frames
    /\ main' = "top"
    /\ UNCHANGED <<controllerVars, threadVars, vehicle, running,
                   finish_requested, finishing, waited, consumed, interrupts>>

\* run_once returns false: request a finish and wait for the runtime.
FrameSourceEnds ==
    /\ main = "frame"
    /\ \/ terminal_settled /\ main' = "stop" /\ UNCHANGED <<finishing, finish_requested>>
       \/ /\ ~terminal_settled /\ main' = "drain"
          /\ finishing' = TRUE
          /\ finish_requested' = (finish_requested \/ ~finishing)
    /\ UNCHANGED <<controllerVars, threadVars, vehicle, sample, slot, lag,
                   running, waited, consumed, frames, interrupts>>

\* Mutant of Drain: waits for the runtime without a budget.
DrainPatiently ==
    /\ main = "drain" /\ terminal_settled
    /\ main' = "stop"
    /\ UNCHANGED <<controllerVars, threadVars, vehicle, sample, slot, lag,
                   running, finish_requested, finishing, waited, consumed,
                   frames, interrupts>>

\* wait_for_graceful_runtime_settle, one sleep at a time.
Drain ==
    /\ main = "drain"
    /\ \/ /\ ~terminal_settled /\ consumed < ShutdownBudget /\ interrupts < 2
          /\ consumed' = consumed + 1 /\ UNCHANGED main
       \/ /\ terminal_settled \/ consumed >= ShutdownBudget
          /\ main' = "stop" /\ UNCHANGED consumed
    /\ UNCHANGED <<controllerVars, threadVars, vehicle, sample, slot, lag,
                   running, finish_requested, finishing, waited, frames,
                   interrupts>>

\* MissionRuntime::stop(): lower running_, then join the thread.
Stop ==
    /\ main = "stop"
    /\ running' = FALSE /\ main' = "join"
    /\ UNCHANGED <<controllerVars, threadVars, vehicle, sample, slot, lag,
                   finish_requested, finishing, waited, consumed, frames,
                   interrupts>>

Join ==
    /\ main = "join" /\ pc = "exited"
    /\ main' = "done"
    /\ UNCHANGED <<controllerVars, threadVars, vehicle, sample, slot, lag,
                   running, finish_requested, finishing, waited, consumed,
                   frames, interrupts>>

MainNext ==
    \/ MainTop \/ SampleTelemetry \/ PublishSnapshot \/ FrameSourceEnds
    \/ Drain \/ Stop \/ Join

\* handle_interrupt_signal: the second interrupt ends the process on the spot.
Interrupt ==
    /\ interrupts < 2
    /\ interrupts' = interrupts + 1
    /\ main' = IF interrupts = 1 THEN "killed" ELSE main
    /\ UNCHANGED <<controllerVars, threadVars, vehicle, sample, slot, lag,
                   running, finish_requested, finishing, waited, consumed,
                   frames>>

-----------------------------------------------------------------------------
\* The vehicle, in any way a vehicle may move: in flight it may climb, sink and
\* drift, disarmed it falls, and standing on the ground it may disarm itself.
VehicleMoves ==
    /\ \/ /\ vehicle.mode = "flying"
          /\ \E h \in {vehicle.height - 1, vehicle.height + 1} \cap Heights :
                vehicle' = [vehicle EXCEPT !.height = h]
       \/ /\ vehicle.mode = "flying" /\ vehicle.height > 0
          /\ vehicle' = [vehicle EXCEPT !.at_home = ~@]
       \/ /\ vehicle.mode = "disarmed" /\ vehicle.height > 0
          /\ vehicle' = [vehicle EXCEPT !.height = 0]
       \/ /\ VehicleArmed /\ vehicle.height = 0
          /\ vehicle' = [vehicle EXCEPT !.mode = "disarmed"]
    /\ UNCHANGED <<controllerVars, threadVars, mainVars, slot, lag, running,
                   finish_requested, interrupts>>

Finished == Over /\ UNCHANGED vars

RuntimeNext ==
    \/ ~Over /\ (ThreadNext \/ MainNext \/ Interrupt \/ VehicleMoves)
    \/ Finished

RuntimeSpec == RuntimeInit /\ [][RuntimeNext]_vars

\* Both threads are scheduled by the operating system.  Nothing is assumed of
\* what they may block in: run_once() reads a child process without a timeout
\* once a frame has begun, and sink_->send() waits for an answer.  Nothing is
\* assumed of the vehicle, the frames or the operator either.
RuntimeFairSpec ==
    /\ RuntimeSpec
    /\ WF_vars(~Over /\ (ThreadExit \/ TickOnce \/ TickThrows \/ CheckOverrun))
    /\ WF_vars(~Over /\ (MainTop \/ Drain \/ Stop \/ Join))

-----------------------------------------------------------------------------
\* When terminal_settled() is up the mission is over for good: the controller
\* stays in a terminal state and the only command still sent is Disarm.
SettledSendsOnlyDisarm ==
    terminal_settled => /\ state \in {"Complete", "Abort"}
                        /\ command \in {"none", "Disarm"}

\* A mission that flew and settled as Complete left the vehicle disarmed,
\* although every tick acted on telemetry that may have been sampled before the
\* last commands took effect.
CompletedFlightIsDisarmed ==
    (terminal_settled /\ flew /\ state = "Complete") => ~VehicleArmed

\* The tracker never reports a disarm confirmed by telemetry older than an Arm
\* command: while the mission is being armed, DisarmedConfirmed is the truth.
TrackerConfirmsTruth ==
    (state \in {"Idle", "Prepare"} /\ tracker = "DisarmedConfirmed")
        => ~VehicleArmed

\* A full run of slow ticks in flight has always raised the finish flag by the
\* time the next tick reads it.
OverrunsRequestFinish ==
    (MaxOverruns > 0 /\ pc # "check" /\ overruns >= MaxOverruns) => finish_requested

\* No call of run_once() keeps the main thread for ever, no call of
\* sink_->send() the runtime thread.
RunOnceReturns == []<>(main \notin {"frame", "publish"})

SendReturns == []<>(pc # "dispatch")

\* Shutting down ends: once an interrupt came, the frames ended or the mission
\* settled, the process finishes, whether or not the vehicle ever lands, the
\* thread died of an exception or the runtime settles; the two calls that may
\* block, run_once() and sink_->send(), are all that can hold it up.
ShutdownEnds ==
    RunOnceReturns /\ SendReturns
        => ((interrupts > 0 \/ finishing \/ terminal_settled) ~> Over)

\* docs/mission_pipeline_current_state.md: in Complete the controller requests
\* "Disarm until telemetry confirms disarmed or timeout".  A mission that
\* settled as Complete should therefore leave no armed vehicle behind.
CompleteMeansDisarmed ==
    (main = "done" /\ terminal_settled /\ state = "Complete") => ~VehicleArmed
=============================================================================
