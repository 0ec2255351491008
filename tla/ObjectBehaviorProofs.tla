------------------------- MODULE ObjectBehaviorProofs -------------------------
(***************************************************************************)
(* What the object behavior controller guarantees for every sequence of    *)
(* steps, every set of agents and every choice of its limits.              *)
(***************************************************************************)
EXTENDS ObjectBehaviorController, MissionPhasesProofs

\* What a tick of ExecuteMission is given.
Reading(dt, finish) == [dt |-> dt, finish |-> finish]

\* Every tick of the controller is a tick of the mission phases.
LEMMA ExecuteTicks ==
    ASSUME NEW in, NEW v, TickExecuteMission(in, v)
    PROVE  FlightTick(in)
BY DEF TickExecuteMission, TickWithTarget, TickWithoutTarget, AdvanceStep, FlightTick

\* ... whatever phase it is in, with some reading of the time and the finish flag.
LEMMA ObjectTicks ==
    ASSUME NEW dt \in 0..MaxDt, TickAfter(dt)
    PROVE  \E in : Timed(in) /\ PhaseTick(in)
<1>1. PICK finish \in BOOLEAN :
        /\ finish_seen' = finish
        /\ \/ \E v \in Views : TickExecuteMission(Reading(dt, finish), v)
           \/ \E in \in Inputs : in.dt = dt /\ in.finish = finish /\ TickOtherPhase(in)
    BY DEF TickAfter, Reading
<1>2. CASE \E v \in Views : TickExecuteMission(Reading(dt, finish), v)
    <2>1. FlightTick(Reading(dt, finish))
        BY <1>2, ExecuteTicks
    <2>2. Timed(Reading(dt, finish)) /\ Reading(dt, finish).finish = finish
        BY DEF Timed, Reading
    <2>3. PhaseTick(Reading(dt, finish))
        BY <1>1, <2>1, <2>2 DEF PhaseTick
    <2> QED BY <2>2, <2>3
<1>3. ASSUME NEW in \in Inputs, in.dt = dt, in.finish = finish, TickOtherPhase(in)
      PROVE  Timed(in) /\ PhaseTick(in)
    <2>1. Timed(in)
        BY <1>3 DEF Timed, Inputs
    <2> QED BY <1>1, <1>3, <2>1
            DEF PhaseTick, FlightTick, TickOtherPhase, TickTakeoffAndReset, TickGoHome
<1> QED BY <1>1, <1>2, <1>3

-----------------------------------------------------------------------------
\* The state of the behavior has its type.
BehaviorTypeOK ==
    /\ step \in 1..Len(Steps)
    /\ clock \in [{"behavior", "step"} -> 0..AgeCap]
    /\ started \in BOOLEAN
    /\ previous \in Selections \cup {NoTarget}
    /\ tracking \in BOOLEAN /\ turned \in 0..OrbitCap
    /\ selection \in {"none", "selected", "reacquiring", "lost", "no_candidates"}
    /\ missing \in 0..AgeCap

\* The facts about the constants the types need.
LEMMA Bounds ==
    /\ Len(Steps) \in Nat /\ 1 \in 1..Len(Steps)
    /\ AgeCap \in Nat /\ 0 \in 0..AgeCap
    /\ OrbitCap \in Nat /\ 0 \in 0..OrbitCap
    /\ MaxTurn \in Nat /\ MaxDt \in Nat
BY BehaviorAssumption, ConfigAssumption DEF BehaviorAssumption, ConfigAssumption

\* The clocks as a tick reads them.
LEMMA ClockType ==
    ASSUME BehaviorTypeOK, NEW in, in.dt \in 0..MaxDt
    PROVE  Clock(in) \in [{"behavior", "step"} -> 0..AgeCap]
<1>1. in.dt \in Nat /\ clock["behavior"] \in Nat /\ clock["step"] \in Nat
    BY Bounds DEF BehaviorTypeOK
<1>2. clock["behavior"] + in.dt \in Nat /\ clock["step"] + in.dt \in Nat
    BY <1>1
<1>3. /\ Saturate(clock["behavior"] + in.dt) \in 0..AgeCap
      /\ Saturate(clock["step"] + in.dt) \in 0..AgeCap
    BY <1>2, SaturateType
<1> QED BY <1>3, Bounds DEF Clock

\* The turns counted by a tick.
LEMMA TurnedType ==
    ASSUME BehaviorTypeOK, NEW v \in Views
    PROVE  Turned(v) \in 0..OrbitCap /\ v.circling \in BOOLEAN
<1>1. v.turn \in 0..MaxTurn /\ v.circling \in BOOLEAN
    BY DEF Views
<1> QED BY <1>1, Bounds DEF Turned, BehaviorTypeOK

\* What the selector returns.
LEMMA SelectedType ==
    ASSUME BehaviorTypeOK, NEW v \in Views
    PROVE  /\ Selected(v) \in Selections
           /\ Select(v) \in {"selected", "reacquiring", "lost", "no_candidates"}
<1>1. v.best \in Agents /\ v.stale \in 0..MaxStale
    BY DEF Views
<1>2. KeepsPrevious(v) => previous.agent \in Agents
    BY DEF KeepsPrevious, BehaviorTypeOK, Selections
<1> QED BY <1>1, <1>2 DEF Selected, Select, Selections

\* A tick of ExecuteMission keeps the types of the behavior.
LEMMA ExecuteType ==
    ASSUME BehaviorTypeOK, NEW in, in.dt \in 0..MaxDt, NEW v \in Views,
           TickExecuteMission(in, v)
    PROVE  BehaviorTypeOK'
<1>1. selection' \in {"none", "selected", "reacquiring", "lost", "no_candidates"}
    BY SelectedType DEF TickExecuteMission
<1>2. missing' \in 0..AgeCap
    <2>1. missing + in.dt \in Nat
        BY Bounds DEF BehaviorTypeOK
    <2> QED BY <2>1, SaturateType, Bounds DEF TickExecuteMission
<1>3. CASE TickWithoutTarget(in)
    BY <1>1, <1>2, <1>3, ClockType DEF TickWithoutTarget, BehaviorTypeOK
<1>4. CASE TickWithTarget(in, v)
    <2>1. previous' \in Selections \cup {NoTarget} /\ started' \in BOOLEAN
        BY <1>4, SelectedType DEF TickWithTarget
    <2>2. CASE ~LastStep /\ AdvanceStep(in)
        <3>1. step' \in 1..Len(Steps)
            BY <2>2, Bounds DEF AdvanceStep, LastStep, BehaviorTypeOK
        <3>2. clock' \in [{"behavior", "step"} -> 0..AgeCap]
            BY <2>2, ClockType, Bounds DEF AdvanceStep
        <3> QED BY <1>1, <1>2, <2>1, <2>2, <3>1, <3>2, Bounds
                DEF AdvanceStep, BehaviorTypeOK
    <2>3. CASE UpdateOrbit(in, v) /\ clock' = Clock(in) /\ UNCHANGED step
        <3>1. tracking' \in BOOLEAN /\ turned' \in 0..OrbitCap
            BY <2>3, TurnedType DEF UpdateOrbit, BehaviorTypeOK
        <3> QED BY <1>1, <1>2, <2>1, <2>3, <3>1, ClockType DEF BehaviorTypeOK
    <2> QED BY <1>4, <2>2, <2>3 DEF TickWithTarget
<1> QED BY <1>3, <1>4 DEF TickExecuteMission

\* Every tick keeps the types of the behavior.
LEMMA BehaviorType ==
    ASSUME BehaviorTypeOK, NEW dt \in 0..MaxDt, TickAfter(dt)
    PROVE  BehaviorTypeOK'
<1>1. CASE Phase = "ExecuteMission"
    <2>1. PICK finish \in BOOLEAN, v \in Views :
            TickExecuteMission(Reading(dt, finish), v)
        BY <1>1 DEF TickAfter, Reading
    <2>2. Reading(dt, finish).dt \in 0..MaxDt
        BY DEF Reading
    <2> QED BY <2>1, <2>2, ExecuteType
<1>2. CASE Phase # "ExecuteMission"
    <2>1. PICK in \in Inputs : TickOtherPhase(in)
        BY <1>2 DEF TickAfter
    <2>2. CASE ResetBehaviorRun /\ UNCHANGED <<selection, missing>>
        BY <2>2, Bounds DEF ResetBehaviorRun, BehaviorTypeOK
    <2>3. CASE UNCHANGED behaviorVars /\ UNCHANGED <<selection, missing>>
        BY <2>3 DEF behaviorVars, BehaviorTypeOK
    <2> QED BY <2>1, <2>2, <2>3 DEF TickOtherPhase, TickTakeoffAndReset
<1> QED BY <1>1, <1>2

-----------------------------------------------------------------------------
\* The type invariant in the two parts the lemmas are about.
LEMMA TypeParts == ObjectTypeOK <=> PhasesTypeOK /\ BehaviorTypeOK
BY DEF ObjectTypeOK, BehaviorTypeOK

\* The initial state has its type.
LEMMA InitType == ObjectInit => ObjectTypeOK
<1>1. ObjectInit => PhasesTypeOK
    BY Bounds DEF ObjectInit, PhasesInit, PhasesTypeOK, States
<1>2. ObjectInit => BehaviorTypeOK
    BY Bounds DEF ObjectInit, BehaviorTypeOK
<1> QED BY <1>1, <1>2, TypeParts

\* Every tick keeps the types of the phases and of the behavior.
LEMMA NextType ==
    ASSUME ObjectTypeOK, ObjectNext
    PROVE  ObjectTypeOK'
<1>1. PICK dt \in 0..MaxDt : TickAfter(dt)
    BY DEF ObjectNext
<1>2. BehaviorTypeOK'
    BY <1>1, TypeParts, BehaviorType
<1>3. PhasesTypeOK'
    BY <1>1, TypeParts, ObjectTicks, TickType
<1> QED BY <1>2, <1>3 DEF ObjectTypeOK, BehaviorTypeOK

\* A stuttering step keeps the types.
LEMMA StutterType ==
    ASSUME ObjectTypeOK, UNCHANGED objectVars
    PROVE  ObjectTypeOK'
BY DEF ObjectTypeOK, PhasesTypeOK, objectVars, phaseVars, behaviorVars

\* The controller's state always has its type, for every sequence of steps: the
\* index of the step never runs off behavior.steps, and no clock and no count of
\* orbits passes its cap.
THEOREM ObjectTypeCorrect == ObjectSpec => []ObjectTypeOK
<1>1. ObjectTypeOK /\ [ObjectNext]_objectVars => ObjectTypeOK'
    BY NextType, StutterType
<1> QED BY <1>1, InitType, PTL DEF ObjectSpec

-----------------------------------------------------------------------------
\* No tick that sees a finish request flies on: Takeoff looks at the flag first,
\* a tick without a target looks at nothing else, and a tick with one either
\* ends a step silently or goes home.
LEMMA TickStopsBehavior ==
    ASSUME ObjectTypeOK, NEW dt \in 0..MaxDt, TickAfter(dt)
    PROVE  FinishStopsBehavior'
<1> USE DEF FinishStopsBehavior, Move, Enter, WaitIn, Stay, Quiet, Say, Fail,
            SendFlagged, SendVelocity
<1>1. CASE Phase = "ExecuteMission"
    <2>1. PICK finish \in BOOLEAN, v \in Views :
            finish_seen' = finish /\ TickExecuteMission(Reading(dt, finish), v)
        BY <1>1 DEF TickAfter, Reading
    <2>2. Reading(dt, finish).finish = finish
        BY DEF Reading
    <2>3. CASE TickWithoutTarget(Reading(dt, finish))
        BY <1>1, <2>1, <2>2, <2>3 DEF TickWithoutTarget
    <2>4. CASE TickWithTarget(Reading(dt, finish), v)
        BY <1>1, <2>1, <2>2, <2>4 DEF TickWithTarget, AdvanceStep
    <2> QED BY <2>1, <2>3, <2>4 DEF TickExecuteMission
<1>2. CASE Phase # "ExecuteMission"
    <2>1. PICK in \in Inputs : finish_seen' = in.finish /\ TickOtherPhase(in)
        BY <1>2 DEF TickAfter
    <2>2. CASE TickTakeoff(in)
        BY <1>2, <2>1, <2>2 DEF TickTakeoff, TakeoffDecision
    <2>3. CASE TickPrepare(in)
        BY <1>2, <2>3 DEF TickPrepare, ArmTimedOut, BeginAbortRecovery
    <2>4. CASE TickGoHome(in)
        BY <1>2, <2>4 DEF TickGoHome
    <2>5. CASE TickLand(in)
        BY <1>2, <2>5 DEF TickLand
    <2>6. CASE TickComplete(in)
        BY <1>2, <2>6 DEF TickComplete
    <2>7. CASE TickAbort(in)
        BY <1>2, <2>7 DEF TickAbort
    <2> QED BY <2>1, <2>2, <2>3, <2>4, <2>5, <2>6, <2>7
            DEF TickOtherPhase, TickTakeoffAndReset
<1> QED BY <1>1, <1>2

\* A tick that goes home without a finish request and before the end of
\* completion.after_s has ended the last step.
LEMMA ExecuteFliesSequence ==
    ASSUME BehaviorTypeOK, NEW in, in.dt \in 0..MaxDt, in.finish \in BOOLEAN,
           NEW v \in Views, TickExecuteMission(in, v), finish_seen' = in.finish
    PROVE  SequenceIsFlown'
<1>1. Len(Steps) \in Nat /\ step \in 1..Len(Steps)
    BY Bounds DEF BehaviorTypeOK
<1>2. Clock(in).behavior = Clock(in)["behavior"] /\ Clock(in)["behavior"] \in Nat
    BY ClockType, Bounds
<1> USE DEF SequenceIsFlown, Move, Enter, WaitIn, Stay, Quiet, SendVelocity
<1>3. CASE TickWithoutTarget(in)
    BY <1>3 DEF TickWithoutTarget, TickExecuteMission
<1>4. CASE TickWithTarget(in, v)
    <2>1. CASE WaitIn(in) \/ SendVelocity(in)
        BY <2>1 DEF TickExecuteMission
    <2>2. CASE /\ ~(StepComplete(in, v) /\ ~LastStep)
               /\ clock' = Clock(in) /\ UNCHANGED step
               /\ \/ in.finish \/ DurationComplete(in)
                  \/ OrbitComplete(in, v) \/ StepComplete(in, v)
        <3>1. CASE in.finish
            BY <3>1
        <3>2. CASE DurationComplete(in)
            <4>1. CompletionAfter > 0 /\ clock'["behavior"] >= CompletionAfter
                BY <1>2, <2>2, <3>2 DEF DurationComplete
            <4>2. CompletionAfter \in Nat /\ clock'["behavior"] \in Nat
                BY <1>2, <2>2, BehaviorAssumption, Bounds DEF BehaviorAssumption
            <4> QED BY <4>1, <4>2
        <3>3. CASE OrbitComplete(in, v) /\ ~IsSequence
            <4>1. Len(Steps) = 1
                BY <3>3, BehaviorAssumption DEF BehaviorAssumption
            <4>2. step' = Len(Steps)
                BY <1>1, <2>2, <4>1
            <4> QED BY <4>2
        <3>4. CASE StepComplete(in, v)
            BY <1>1, <2>2, <3>4 DEF LastStep
        <3>5. OrbitComplete(in, v) /\ IsSequence => StepComplete(in, v)
            BY DEF StepComplete
        <3> QED BY <2>2, <3>1, <3>2, <3>3, <3>4, <3>5
    <2> QED BY <1>4, <2>1, <2>2 DEF TickWithTarget, AdvanceStep
<1> QED BY <1>3, <1>4 DEF TickExecuteMission

\* The other phases keep the step, the clocks and the reason for going home:
\* Prepare and Takeoff leave for a later phase than ExecuteMission only with a
\* finish request or with an abort.
LEMMA OtherPhaseFliesSequence ==
    ASSUME ObjectTypeOK, SequenceIsFlown, Phase # "ExecuteMission", NEW in \in Inputs,
           finish_seen => in.finish, finish_seen' = in.finish, TickOtherPhase(in)
    PROVE  SequenceIsFlown'
<1> USE DEF SequenceIsFlown, Move, Enter, WaitIn, Stay, Quiet, Fail,
            SendFlagged, SendVelocity, NoRecovery, Phase, behaviorVars
<1>0. in.finish \in BOOLEAN /\ finish_seen \in BOOLEAN /\ aborting \in BOOLEAN
    BY DEF Inputs, ObjectTypeOK, PhasesTypeOK
<1>1. CASE TickTakeoffAndReset(in)
    BY <1>0, <1>1 DEF TickTakeoffAndReset, TickTakeoff, TakeoffDecision
<1>2. CASE UNCHANGED behaviorVars
    <2>1. CASE TickPrepare(in)
        BY <1>0, <1>2, <2>1
           DEF TickPrepare, PrepareDecision, ArmTimedOut, BeginAbortRecovery
    <2>2. CASE TickGoHome(in)
        BY <1>0, <1>2, <2>2 DEF TickGoHome
    <2>3. CASE TickLand(in)
        BY <1>0, <1>2, <2>3 DEF TickLand
    <2>4. CASE TickComplete(in)
        BY <1>0, <1>2, <2>4 DEF TickComplete
    <2>5. CASE TickAbort(in)
        BY <1>0, <1>2, <2>5 DEF TickAbort
    <2> QED BY <1>1, <2>1, <2>2, <2>3, <2>4, <2>5 DEF TickOtherPhase
<1> QED BY <1>1, <1>2 DEF TickOtherPhase

\* Every tick flies the sequence.
LEMMA TickFliesSequence ==
    ASSUME ObjectTypeOK, SequenceIsFlown, NEW dt \in 0..MaxDt, TickAfter(dt)
    PROVE  SequenceIsFlown'
<1>1. CASE Phase = "ExecuteMission"
    <2>1. PICK finish \in BOOLEAN, v \in Views :
            finish_seen' = finish /\ TickExecuteMission(Reading(dt, finish), v)
        BY <1>1 DEF TickAfter, Reading
    <2>2. Reading(dt, finish).finish = finish /\ Reading(dt, finish).dt = dt
        BY DEF Reading
    <2> QED BY <2>1, <2>2, TypeParts, ExecuteFliesSequence
<1>2. CASE Phase # "ExecuteMission"
    <2>1. PICK in \in Inputs : /\ (finish_seen => in.finish) /\ finish_seen' = in.finish
                              /\ TickOtherPhase(in)
        BY <1>2 DEF TickAfter
    <2> QED BY <1>2, <2>1, OtherPhaseFliesSequence
<1> QED BY <1>1, <1>2

-----------------------------------------------------------------------------
\* The inductive invariant.
ObjectSafe ==
    /\ ObjectTypeOK
    /\ AbortRecoveryEndsInAbort
    /\ FinishStopsBehavior
    /\ LandBelongsToLanding
    /\ NoPhaseOutlivesItsTimeout
    /\ SequenceIsFlown

\* Every tick keeps the invariant.
LEMMA ObjectSafeIsInductive ==
    /\ ObjectInit => ObjectSafe
    /\ ObjectSafe /\ [ObjectNext]_objectVars => ObjectSafe'
<1>1. ObjectInit => ObjectSafe
    BY InitType
       DEF ObjectInit, PhasesInit, ObjectSafe, AbortRecoveryEndsInAbort,
           FinishStopsBehavior, LandBelongsToLanding, NoPhaseOutlivesItsTimeout,
           SequenceIsFlown
<1>2. ASSUME ObjectSafe, ObjectNext PROVE ObjectSafe'
    <2>1. PICK dt \in 0..MaxDt : TickAfter(dt)
        BY <1>2 DEF ObjectNext
    <2>2. PICK in : Timed(in) /\ PhaseTick(in)
        BY <2>1, ObjectTicks
    <2>3. PhasesTypeOK /\ ObjectTypeOK'
        BY <1>2, TypeParts, NextType DEF ObjectSafe
    <2>4. /\ AbortRecoveryEndsInAbort' /\ LandBelongsToLanding'
          /\ NoPhaseOutlivesItsTimeout'
        BY <1>2, <2>2, <2>3, TickKeepsRecovery, TickKeepsLand, TickKeepsTimeouts
           DEF ObjectSafe
    <2>5. FinishStopsBehavior' /\ SequenceIsFlown'
        BY <1>2, <2>1, TickStopsBehavior, TickFliesSequence DEF ObjectSafe
    <2> QED BY <2>3, <2>4, <2>5 DEF ObjectSafe
<1>3. ASSUME ObjectSafe, UNCHANGED objectVars PROVE ObjectSafe'
    BY <1>3, StutterType
       DEF ObjectSafe, AbortRecoveryEndsInAbort, FinishStopsBehavior,
           LandBelongsToLanding, NoPhaseOutlivesItsTimeout, SequenceIsFlown,
           objectVars, phaseVars, behaviorVars
<1> QED BY <1>1, <1>2, <1>3

\* A finish request stops the behavior, whatever the sequence, the target and
\* the limits are.
THEOREM FinishIsObeyed == ObjectSpec => []FinishStopsBehavior
<1>1. ObjectSafe => FinishStopsBehavior
    BY DEF ObjectSafe
<1> QED BY <1>1, ObjectSafeIsInductive, PTL DEF ObjectSpec

\* Every sequence, however long, is flown to its last step unless a finish
\* request, an abort or completion.after_s ends it.
THEOREM SequencesAreFlown == ObjectSpec => []SequenceIsFlown
<1>1. ObjectSafe => SequenceIsFlown
    BY DEF ObjectSafe
<1> QED BY <1>1, ObjectSafeIsInductive, PTL DEF ObjectSpec

\* This controller keeps its timeouts and the finality of its aborts, too.
THEOREM ObjectTimeoutsAndAborts ==
    ObjectSpec => [](NoPhaseOutlivesItsTimeout /\ AbortRecoveryEndsInAbort)
<1>1. ObjectSafe => NoPhaseOutlivesItsTimeout /\ AbortRecoveryEndsInAbort
    BY DEF ObjectSafe
<1> QED BY <1>1, ObjectSafeIsInductive, PTL DEF ObjectSpec

\* The object behavior controller implements the same command protocol as the
\* trajectory controller, for every sequence of steps and every target.
THEOREM ObjectImplementsProtocol == ObjectSpec => KeepsProtocol
<1>1. ObjectInit => Protocol!Init
    BY DEF ObjectInit, PhasesInit, Protocol!Init
<1>2. ObjectTypeOK /\ [ObjectNext]_objectVars => [Protocol!Next]_Protocol!vars
    <2>1. ASSUME ObjectTypeOK, ObjectNext PROVE Protocol!Next
        BY <2>1, TypeParts, ObjectTicks, TickKeepsProtocol DEF ObjectNext
    <2>2. ASSUME UNCHANGED objectVars PROVE UNCHANGED Protocol!vars
        BY <2>2 DEF objectVars, phaseVars, Protocol!vars
    <2> QED BY <2>1, <2>2
<1> QED BY <1>1, <1>2, ObjectTypeCorrect, PTL DEF ObjectSpec, KeepsProtocol, Protocol!Spec
=============================================================================
