---------------------------- MODULE MissionPhases ----------------------------
(***************************************************************************)
(* The phases every flying mission controller goes through, from arming to *)
(* disarming.  TrajectoryMissionController and                             *)
(* ObjectBehaviorMissionController carry the same code for Prepare,        *)
(* Takeoff, Land, Complete and Abort and for begin_abort_recovery; they    *)
(* differ in ExecuteMission and GoHome, which their own modules add.  The  *)
(* mission runtime calls tick() with a world snapshot, the result of the   *)
(* last command and the finish flag; in stands for these.                  *)
(*                                                                         *)
(* Times are kept as ages.  The code stores absolute time points and       *)
(* compares "now - point" with a limit; now only moves by the distance dt  *)
(* between two ticks, so age[t], the distance from the point of timer t to *)
(* the last tick, carries the same information.  Ages stop at AgeCap,      *)
(* which is at least every limit they are compared with.  Heights, limits  *)
(* and dt are integers; in.at_home says whether the vehicle is close       *)
(* enough to the pose of the first tick.                                   *)
(***************************************************************************)
EXTENDS Integers

CONSTANTS
    Heights,             \* the heights telemetry reports
    LandHeight,          \* kLandHeightM
    AssistHeight,        \* kTakeoffVelocityAssistHeightM
    SafeHeight,          \* safe_height_m, takeoff_height_m
    ArmTimeout, ArmRetry,
    ArmFallback,         \* arm_dispatch_fallback_s, 0 when disabled
    LandTimeout,
    DisarmTimeout, DisarmRetry,
    AgeCap,              \* ages saturate here
    MaxDt                \* the longest distance between two ticks

Limits == {ArmTimeout, ArmRetry, ArmFallback, LandTimeout, DisarmTimeout,
           DisarmRetry}

ASSUME ConfigAssumption ==
    /\ Heights \subseteq Int
    /\ LandHeight \in Int /\ AssistHeight \in Int /\ SafeHeight \in Int
    /\ Limits \subseteq Nat
    /\ AgeCap \in Nat /\ \A l \in Limits : l <= AgeCap
    /\ MaxDt \in Nat \ {0}

VARIABLES
    state,        \* state_
    age,          \* now minus state_start_ and the *_last_command_time_ points
    sent,         \* the *_command_sent_ flags that are set
    aborting,     \* aborting_
    status,       \* output.status, as far as the runtime tells it apart
    command,      \* output.command
    finish_seen   \* history: input.finish_requested of the last tick

phaseVars == <<state, age, sent, aborting, status, command, finish_seen>>

States == {"Idle", "Prepare", "Takeoff", "ExecuteMission", "GoHome",
           "Land", "Complete", "Abort"}

Timers == {"state", "Arm", "Land", "Disarm"}

Commands == {"Arm", "Takeoff", "Velocity", "Land", "Disarm"}

Flagged == {"Arm", "Takeoff", "Land", "Disarm"}

\* MissionTickInput: the time since the last tick, the part of the ego state
\* the controller reads, the finish flag, and last_result_matches_success
\* for an Arm command.
Inputs ==
    [dt : 0..MaxDt, armed_valid : BOOLEAN, armed : BOOLEAN,
     height : Heights, at_home : BOOLEAN, finish : BOOLEAN,
     arm_ok : BOOLEAN]

PhasesTypeOK ==
    /\ state \in States
    /\ age \in [Timers -> 0..AgeCap]
    /\ sent \in SUBSET Flagged
    /\ aborting \in BOOLEAN
    /\ status \in {"working", "complete", "abort"}
    /\ command \in Commands \cup {"none"}
    /\ finish_seen \in BOOLEAN

PhasesInit ==
    /\ state = "Idle"
    /\ age = [t \in Timers |-> 0]
    /\ sent = {}
    /\ aborting = FALSE
    /\ status = "working"
    /\ command = "none"
    /\ finish_seen = FALSE

-----------------------------------------------------------------------------
\* The first tick initialises every time point and runs as Prepare.
Phase == IF state = "Idle" THEN "Prepare" ELSE state

Saturate(n) == IF n < AgeCap THEN n ELSE AgeCap

Aged(in) ==
    IF state = "Idle" THEN [t \in Timers |-> 0]
    ELSE [t \in Timers |-> Saturate(age[t] + in.dt)]

\* Mutant of Elapsed: > for >=.
ElapsedStrictly(t, limit, in) == Aged(in)[t] > limit

Elapsed(t, limit, in) == Aged(in)[t] >= limit

\* Mutant of Disarmed: armed_valid is not looked at.
SeemsDisarmed(in) == ~in.armed

Armed(in) == in.armed_valid /\ in.armed

Disarmed(in) == in.armed_valid /\ ~in.armed

\* A command that may be sent now: never sent, or due for a retry.
Due(c, retry, in) == c \notin sent \/ Elapsed(c, retry, in)

\* The pieces an outcome of tick() is made of.
Enter(s, in) == state' = s /\ age' = [Aged(in) EXCEPT !["state"] = 0]
Stay(in) == state' = Phase /\ age' = Aged(in)

Say(s) == status' = s
Quiet == command' = "none" /\ UNCHANGED sent

\* Mutant of SendFlagged: every request also restarts the phase's clock.
SendAndRestart(c, in) ==
    /\ state' = Phase
    /\ age' = [t \in Timers |-> IF t \in {c, "state"} THEN 0 ELSE Aged(in)[t]]
    /\ sent' = sent \cup {c}
    /\ command' = c
    /\ Say("working")

\* A flagged command: the flag is set and the time point taken before the
\* runtime even tries to deliver it.
SendFlagged(c, in) ==
    /\ state' = Phase
    /\ age' = [t \in Timers |-> IF t = c THEN 0 ELSE Aged(in)[t]]
    /\ sent' = sent \cup {c}
    /\ command' = c
    /\ Say("working")

SendVelocity(in) ==
    /\ Stay(in)
    /\ command' = "Velocity"
    /\ UNCHANGED sent
    /\ Say("working")

Move(s, in) == Enter(s, in) /\ Quiet /\ Say("working")
WaitIn(in) == Stay(in) /\ Quiet /\ Say("working")

\* Abort keeps state_start_: nothing reads it any more.
Fail(in) == state' = "Abort" /\ age' = Aged(in) /\ Quiet /\ Say("abort")

NoRecovery == UNCHANGED aborting

-----------------------------------------------------------------------------
\* Prepare.
ArmFallbackDue(in) ==
    ArmFallback > 0 /\ in.arm_ok /\ Elapsed("Arm", ArmFallback, in)

PrepareDecision(in) ==
    IF in.finish /\ Disarmed(in) THEN "finish"
    ELSE IF Armed(in) \/ ArmFallbackDue(in) THEN "armed"
    ELSE IF Elapsed("state", ArmTimeout, in) THEN "timeout"
    ELSE IF Due("Arm", ArmRetry, in) THEN "arm"
    ELSE "wait"

BeginAbortRecovery(in) ==
    /\ aborting' = TRUE
    /\ Move(IF in.height > LandHeight THEN "GoHome" ELSE "Complete", in)

ArmTimedOut(in) ==
    \/ Disarmed(in) /\ Fail(in) /\ NoRecovery
    \/ ~Disarmed(in) /\ BeginAbortRecovery(in)

TickPrepare(in) ==
    /\ Phase = "Prepare"
    /\ \/ PrepareDecision(in) = "finish" /\ Move("Complete", in) /\ NoRecovery
       \/ PrepareDecision(in) = "armed" /\ Move("Takeoff", in) /\ NoRecovery
       \/ PrepareDecision(in) = "timeout" /\ ArmTimedOut(in)
       \/ PrepareDecision(in) = "arm" /\ SendFlagged("Arm", in) /\ NoRecovery
       \/ PrepareDecision(in) = "wait" /\ WaitIn(in) /\ NoRecovery

-----------------------------------------------------------------------------
\* Takeoff: one Takeoff request, then velocity assistance once the vehicle has
\* left the ground.  A request that is lost is not repeated and nothing times
\* out.
\* Mutant of TakeoffDecision: the height is looked at before the finish flag.
TakeoffHeightFirst(in) ==
    IF in.height >= SafeHeight THEN "reached"
    ELSE IF in.finish THEN "finish"
    ELSE IF "Takeoff" \notin sent THEN "takeoff"
    ELSE IF in.height >= AssistHeight THEN "climb"
    ELSE "wait"

TakeoffDecision(in) ==
    IF in.finish THEN "finish"
    ELSE IF in.height >= SafeHeight THEN "reached"
    ELSE IF "Takeoff" \notin sent THEN "takeoff"
    ELSE IF in.height >= AssistHeight THEN "climb"
    ELSE "wait"

TickTakeoff(in) ==
    /\ Phase = "Takeoff"
    /\ NoRecovery
    /\ \/ /\ TakeoffDecision(in) = "finish"
          /\ Move(IF in.height > LandHeight THEN "Land" ELSE "Complete", in)
       \/ TakeoffDecision(in) = "reached" /\ Move("ExecuteMission", in)
       \/ TakeoffDecision(in) = "takeoff" /\ SendFlagged("Takeoff", in)
       \/ TakeoffDecision(in) = "climb" /\ SendVelocity(in)
       \/ TakeoffDecision(in) = "wait" /\ WaitIn(in)

-----------------------------------------------------------------------------
\* Land: one Land request, never repeated, and a timeout.
\* Mutant of LandDecision: a Land request that timed out is repeated.
LandAgain(in) ==
    IF in.height <= LandHeight THEN "landed"
    ELSE IF Due("Land", LandTimeout, in) THEN "land"
    ELSE "wait"

LandDecision(in) ==
    IF in.height <= LandHeight THEN "landed"
    ELSE IF "Land" \notin sent THEN "land"
    ELSE IF Elapsed("Land", LandTimeout, in) THEN "timeout"
    ELSE "wait"

TickLand(in) ==
    /\ Phase = "Land"
    /\ NoRecovery
    /\ \/ LandDecision(in) = "landed" /\ Move("Complete", in)
       \/ LandDecision(in) = "land" /\ SendFlagged("Land", in)
       \/ LandDecision(in) = "timeout" /\ Fail(in)
       \/ LandDecision(in) = "wait" /\ WaitIn(in)

\* Complete: ask for Disarm until telemetry confirms it.  An aborted mission
\* ends in Abort, any other reports "complete" and stays.
CompleteDecision(in) ==
    IF Disarmed(in) THEN "disarmed"
    ELSE IF Elapsed("state", DisarmTimeout, in) THEN "timeout"
    ELSE IF Due("Disarm", DisarmRetry, in) THEN "disarm"
    ELSE "wait"

\* Mutant of TickComplete: the disarmed branch forgets that it is an abort.
CompleteForgetsAbort(in) ==
    /\ Phase = "Complete"
    /\ NoRecovery
    /\ \/ CompleteDecision(in) = "disarmed" /\ Stay(in) /\ Quiet /\ Say("complete")
       \/ CompleteDecision(in) = "timeout" /\ Fail(in)
       \/ CompleteDecision(in) = "disarm" /\ SendFlagged("Disarm", in)
       \/ CompleteDecision(in) = "wait" /\ WaitIn(in)

TickComplete(in) ==
    /\ Phase = "Complete"
    /\ NoRecovery
    /\ \/ CompleteDecision(in) = "disarmed" /\ aborting /\ Fail(in)
       \/ /\ CompleteDecision(in) = "disarmed" /\ ~aborting
          /\ Stay(in) /\ Quiet /\ Say("complete")
       \/ CompleteDecision(in) = "timeout" /\ Fail(in)
       \/ CompleteDecision(in) = "disarm" /\ SendFlagged("Disarm", in)
       \/ CompleteDecision(in) = "wait" /\ WaitIn(in)

TickAbort(in) == Phase = "Abort" /\ Fail(in) /\ NoRecovery

\* Mutant of OutputIsTerminalSettled: landing counts as settled.
LandingIsSettled ==
    \/ state \in {"Land", "Complete"}
    \/ state = "Abort" /\ status = "abort"

\* output_is_terminal_settled, of the output of the last tick.
OutputIsTerminalSettled ==
    \/ state = "Complete" /\ status = "complete"
    \/ state = "Abort" /\ status = "abort"

-----------------------------------------------------------------------------
\* The controller keeps to the protocol the command sink is promised.
Protocol ==
    INSTANCE CommandProtocol WITH
        phase <- state, issued <- sent \cap {"Takeoff", "Land"}, command <- command

\* Every tick of tick(), whatever telemetry and results it is given, is a step
\* of the command protocol: phases move forward only, phase changes are silent,
\* Takeoff and Land go out at most once.
KeepsProtocol == Protocol!Spec

\* Once begin_abort_recovery has run, the mission is on its way down and can
\* only end in Abort: it never climbs, never flies the mission, and never
\* reports "complete" however the telemetry changes afterwards.
AbortRecoveryEndsInAbort ==
    aborting => /\ state \in {"GoHome", "Land", "Complete", "Abort"}
                /\ status # "complete"

\* No phase with a timeout outlives it: after a tick the controller is not
\* still in Prepare with the arm timeout reached, in Land with the land timeout
\* of its Land request reached, or in an unconfirmed Complete with the disarm
\* timeout reached.  The age of 0 is a phase or a request that began this tick.
NoPhaseOutlivesItsTimeout ==
    /\ state = "Prepare" => age["state"] < ArmTimeout
    /\ (state = "Land" /\ "Land" \in sent) =>
          age["Land"] < LandTimeout \/ age["Land"] = 0
    /\ state = "Complete" =>
          age["state"] < DisarmTimeout \/ age["state"] = 0 \/ status = "complete"

\* Whatever the vehicle does, arming is decided one way or the other.
ArmingEnds == (state = "Prepare") ~> (state # "Prepare")

\* Whatever the vehicle does, a mission that has begun to land settles: it is
\* reported complete or it aborts.
LandingSettles == (state \in {"Land", "Complete"}) ~> OutputIsTerminalSettled

\* The timed phases end whatever the telemetry says: arming is over when its
\* timeout is, however often the command was repeated, and a landing settles.
TimedPhasesEnd == ArmingEnds /\ LandingSettles
=============================================================================
