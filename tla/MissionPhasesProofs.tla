------------------------- MODULE MissionPhasesProofs -------------------------
(***************************************************************************)
(* What a tick of a mission controller keeps, for every set of heights and *)
(* every choice of the limits.  A tick is one of the shared phases or a    *)
(* tick in flight; the lemmas below hold for both controllers and are      *)
(* cited by the proofs about each of them.                                 *)
(***************************************************************************)
EXTENDS MissionPhases, TLAPS

\* What the lemmas need to know of an input.
Timed(in) == in.dt \in 0..MaxDt /\ in.finish \in BOOLEAN

\* All a tick of ExecuteMission or GoHome may do to the shared state.
FlightTick(in) ==
    /\ NoRecovery
    /\ \/ /\ Phase = "ExecuteMission"
          /\ Move("GoHome", in) \/ SendVelocity(in) \/ WaitIn(in)
       \/ Phase = "GoHome" /\ (Move("Land", in) \/ SendVelocity(in))

PhaseTick(in) ==
    /\ finish_seen' = in.finish
    /\ \/ TickPrepare(in) \/ TickTakeoff(in) \/ FlightTick(in)
       \/ TickLand(in) \/ TickComplete(in) \/ TickAbort(in)

-----------------------------------------------------------------------------
\* Ages stay between 0 and AgeCap, which is at least every limit.
LEMMA SaturateType ==
    ASSUME NEW n \in Nat
    PROVE  Saturate(n) \in 0..AgeCap
BY ConfigAssumption DEF Saturate, ConfigAssumption

\* The ages after the time since the last tick has been added.
LEMMA AgedType ==
    ASSUME PhasesTypeOK, NEW in, Timed(in)
    PROVE  Aged(in) \in [Timers -> 0..AgeCap]
<1>1. 0 \in 0..AgeCap
    BY ConfigAssumption DEF ConfigAssumption
<1>2. ASSUME NEW t \in Timers
      PROVE  Saturate(age[t] + in.dt) \in 0..AgeCap
    <2>1. age[t] \in Nat /\ in.dt \in Nat
        BY ConfigAssumption DEF PhasesTypeOK, Timed, ConfigAssumption
    <2>2. age[t] + in.dt \in Nat
        BY <2>1
    <2> QED BY <2>2, SaturateType
<1> QED BY <1>1, <1>2 DEF Aged

\* The phase a tick runs in is a real one.
LEMMA PhaseType ==
    ASSUME PhasesTypeOK
    PROVE  Phase \in States \ {"Idle"}
BY DEF PhasesTypeOK, Phase, States

\* What a tick assigns besides aborting and the finish flag.
OutcomeOK ==
    /\ state \in States
    /\ age \in [Timers -> 0..AgeCap]
    /\ sent \in SUBSET Flagged
    /\ status \in {"working", "complete", "abort"}
    /\ command \in Commands \cup {"none"}

\* A silent move to another phase keeps the types.
LEMMA MoveType ==
    ASSUME PhasesTypeOK, NEW in, Timed(in), NEW s \in States, Move(s, in)
    PROVE  OutcomeOK'
<1>1. Aged(in) \in [Timers -> 0..AgeCap] /\ 0 \in 0..AgeCap
    BY AgedType, ConfigAssumption DEF ConfigAssumption
<1> QED BY <1>1 DEF Move, Enter, Quiet, Say, OutcomeOK, PhasesTypeOK, Timers

\* A tick that only waits keeps the types.
LEMMA WaitType ==
    ASSUME PhasesTypeOK, NEW in, Timed(in), Stay(in), Quiet,
           status' \in {"working", "complete"}
    PROVE  OutcomeOK'
BY AgedType, PhaseType DEF Stay, Quiet, OutcomeOK, PhasesTypeOK

\* A tick that ends in Abort keeps the types.
LEMMA FailType ==
    ASSUME PhasesTypeOK, NEW in, Timed(in), Fail(in)
    PROVE  OutcomeOK'
BY AgedType DEF Fail, Quiet, Say, OutcomeOK, PhasesTypeOK, States

\* A tick that sends a flagged command keeps the types.
LEMMA SendFlaggedType ==
    ASSUME PhasesTypeOK, NEW in, Timed(in), NEW c \in Flagged, SendFlagged(c, in)
    PROVE  OutcomeOK'
<1>1. Aged(in) \in [Timers -> 0..AgeCap] /\ 0 \in 0..AgeCap
    BY AgedType, ConfigAssumption DEF ConfigAssumption
<1>2. age' \in [Timers -> 0..AgeCap]
    BY <1>1 DEF SendFlagged
<1> QED BY <1>2, PhaseType
        DEF SendFlagged, Say, OutcomeOK, PhasesTypeOK, Flagged, Commands

\* A tick that sends a velocity keeps the types.
LEMMA SendVelocityType ==
    ASSUME PhasesTypeOK, NEW in, Timed(in), SendVelocity(in)
    PROVE  OutcomeOK'
BY AgedType, PhaseType
   DEF SendVelocity, Stay, Say, OutcomeOK, PhasesTypeOK, Commands

-----------------------------------------------------------------------------
\* Every tick keeps the type invariant.
LEMMA TickType ==
    ASSUME PhasesTypeOK, NEW in, Timed(in), PhaseTick(in)
    PROVE  PhasesTypeOK'
<1> USE DEF NoRecovery
<1>s. {"Prepare", "Takeoff", "ExecuteMission", "GoHome", "Land", "Complete", "Abort"}
        \subseteq States /\ Flagged = {"Arm", "Takeoff", "Land", "Disarm"}
    BY DEF States, Flagged
<1>w. WaitIn(in) => OutcomeOK'
    BY WaitType DEF WaitIn, Say
<1>f. finish_seen' \in BOOLEAN
    BY DEF PhaseTick, Timed
<1>1. OutcomeOK' /\ aborting' \in BOOLEAN
    <2>1. CASE TickPrepare(in)
        BY <2>1, <1>s, <1>w, MoveType, FailType, SendFlaggedType
           DEF TickPrepare, ArmTimedOut, BeginAbortRecovery, PhasesTypeOK
    <2>2. CASE TickTakeoff(in)
        BY <2>2, <1>s, <1>w, MoveType, SendFlaggedType, SendVelocityType
           DEF TickTakeoff, PhasesTypeOK
    <2>3. CASE FlightTick(in)
        BY <2>3, <1>s, <1>w, MoveType, SendVelocityType DEF FlightTick, PhasesTypeOK
    <2>4. CASE TickLand(in)
        BY <2>4, <1>s, <1>w, MoveType, FailType, SendFlaggedType
           DEF TickLand, PhasesTypeOK
    <2>5. CASE TickComplete(in)
        BY <2>5, <1>s, <1>w, FailType, SendFlaggedType, WaitType
           DEF TickComplete, Say, PhasesTypeOK
    <2>6. CASE TickAbort(in)
        BY <2>6, FailType DEF TickAbort, PhasesTypeOK
    <2> QED BY <2>1, <2>2, <2>3, <2>4, <2>5, <2>6 DEF PhaseTick
<1> QED BY <1>1, <1>f DEF OutcomeOK, PhasesTypeOK

-----------------------------------------------------------------------------
\* The strengthening the timeout invariant needs: a Land request belongs to the
\* landing, so Land is never entered with one already out.
LandBelongsToLanding == "Land" \in sent => state \in {"Land", "Complete", "Abort"}

\* Only begin_abort_recovery raises the flag, and no later phase lowers it or
\* reports success.
LEMMA TickKeepsRecovery ==
    ASSUME PhasesTypeOK, AbortRecoveryEndsInAbort, NEW in, Timed(in), PhaseTick(in)
    PROVE  AbortRecoveryEndsInAbort'
<1> USE DEF NoRecovery, AbortRecoveryEndsInAbort, Move, Enter, WaitIn, Stay, Quiet,
            Say, Fail, SendFlagged, SendVelocity, Phase
<1>1. CASE TickPrepare(in)
    BY <1>1 DEF TickPrepare, ArmTimedOut, BeginAbortRecovery
<1>2. CASE TickTakeoff(in)
    BY <1>2 DEF TickTakeoff
<1>3. CASE FlightTick(in)
    BY <1>3 DEF FlightTick
<1>5. CASE TickLand(in)
    BY <1>5 DEF TickLand
<1>6. CASE TickComplete(in)
    BY <1>6 DEF TickComplete
<1>7. CASE TickAbort(in)
    BY <1>7 DEF TickAbort
<1> QED BY <1>1, <1>2, <1>3, <1>5, <1>6, <1>7 DEF PhaseTick

\* A Land request has only ever been sent by the Land phase: the flag is up in
\* no earlier one.
LEMMA TickKeepsLand ==
    ASSUME PhasesTypeOK, LandBelongsToLanding, NEW in, Timed(in), PhaseTick(in)
    PROVE  LandBelongsToLanding'
<1> USE DEF LandBelongsToLanding, Move, Enter, WaitIn, Stay, Quiet, Fail,
            SendFlagged, SendVelocity, Phase
<1>1. CASE TickPrepare(in)
    BY <1>1 DEF TickPrepare, ArmTimedOut, BeginAbortRecovery
<1>2. CASE TickTakeoff(in)
    BY <1>2 DEF TickTakeoff
<1>3. CASE FlightTick(in)
    BY <1>3 DEF FlightTick
<1>5. CASE TickLand(in)
    BY <1>5 DEF TickLand
<1>6. CASE TickComplete(in)
    BY <1>6 DEF TickComplete
<1>7. CASE TickAbort(in)
    BY <1>7 DEF TickAbort
<1> QED BY <1>1, <1>2, <1>3, <1>5, <1>6, <1>7 DEF PhaseTick

\* A tick that stays in a timed phase has found its timeout not reached, and a
\* tick that enters one starts its clock.
LEMMA TickKeepsTimeouts ==
    ASSUME PhasesTypeOK, LandBelongsToLanding, NEW in, Timed(in), PhaseTick(in)
    PROVE  NoPhaseOutlivesItsTimeout'
<1>a. Aged(in) \in [Timers -> 0..AgeCap]
    BY AgedType
<1>l. /\ AgeCap \in Nat
      /\ ArmTimeout \in Nat /\ LandTimeout \in Nat /\ DisarmTimeout \in Nat
    BY ConfigAssumption DEF ConfigAssumption, Limits
<1>t. Timers = {"state", "Arm", "Land", "Disarm"}
    BY DEF Timers
<1> USE DEF NoPhaseOutlivesItsTimeout, Move, Enter, WaitIn, Stay, Quiet, Say, Fail,
            SendFlagged, SendVelocity
<1>1. CASE TickPrepare(in)
    <2>1. Phase = "Prepare" /\ "Land" \notin sent
        BY <1>1 DEF TickPrepare, Phase, LandBelongsToLanding
    <2>2. CASE PrepareDecision(in) \in {"arm", "wait"}
        <3>1. ~Elapsed("state", ArmTimeout, in)
            BY <2>2 DEF PrepareDecision
        <3>2. Aged(in)["state"] < ArmTimeout
            BY <3>1, <1>a, <1>l, <1>t DEF Elapsed
        <3> QED BY <1>1, <2>1, <2>2, <3>2, <1>t DEF TickPrepare
    <2>3. CASE PrepareDecision(in) \in {"finish", "armed"}
        BY <1>1, <2>1, <2>3, <1>a, <1>t DEF TickPrepare
    <2>4. CASE PrepareDecision(in) = "timeout"
        BY <1>1, <2>1, <2>4, <1>a, <1>t
           DEF TickPrepare, ArmTimedOut, BeginAbortRecovery
    <2> QED BY <1>1, <2>2, <2>3, <2>4 DEF TickPrepare
<1>2. CASE TickTakeoff(in)
    <2>1. Phase = "Takeoff" /\ "Land" \notin sent
        BY <1>2 DEF TickTakeoff, Phase, LandBelongsToLanding
    <2> QED BY <1>2, <2>1, <1>a, <1>t DEF TickTakeoff
<1>3. CASE FlightTick(in)
    <2>1. Phase \in {"ExecuteMission", "GoHome"} /\ "Land" \notin sent
        BY <1>3 DEF FlightTick, Phase, LandBelongsToLanding
    <2> QED BY <1>3, <2>1, <1>a, <1>t DEF FlightTick
<1>5. CASE TickLand(in)
    <2>1. Phase = "Land"
        BY <1>5 DEF TickLand
    <2>2. CASE LandDecision(in) = "wait"
        <3>1. "Land" \in sent /\ ~Elapsed("Land", LandTimeout, in)
            BY <2>2 DEF LandDecision
        <3>2. Aged(in)["Land"] < LandTimeout
            BY <3>1, <1>a, <1>l, <1>t DEF Elapsed
        <3> QED BY <1>5, <2>1, <2>2, <3>2 DEF TickLand
    <2>3. CASE LandDecision(in) = "land"
        BY <1>5, <2>1, <2>3, <1>t DEF TickLand
    <2>4. CASE LandDecision(in) \in {"landed", "timeout"}
        BY <1>5, <2>1, <2>4, <1>a, <1>t DEF TickLand
    <2> QED BY <1>5, <2>2, <2>3, <2>4 DEF TickLand
<1>6. CASE TickComplete(in)
    <2>1. Phase = "Complete"
        BY <1>6 DEF TickComplete
    <2>2. CASE CompleteDecision(in) \in {"disarm", "wait"}
        <3>1. ~Elapsed("state", DisarmTimeout, in)
            BY <2>2 DEF CompleteDecision
        <3>2. Aged(in)["state"] < DisarmTimeout
            BY <3>1, <1>a, <1>l, <1>t DEF Elapsed
        <3> QED BY <1>6, <2>1, <2>2, <3>2, <1>t DEF TickComplete
    <2>3. CASE CompleteDecision(in) \in {"disarmed", "timeout"}
        BY <1>6, <2>1, <2>3 DEF TickComplete
    <2> QED BY <1>6, <2>2, <2>3 DEF TickComplete
<1>7. CASE TickAbort(in)
    BY <1>7 DEF TickAbort
<1> QED BY <1>1, <1>2, <1>3, <1>5, <1>6, <1>7 DEF PhaseTick

-----------------------------------------------------------------------------
\* The ranks of the phases are what the protocol says.
LEMMA Ranks ==
    /\ Protocol!Rank["Idle"] = 0 /\ Protocol!Rank["Prepare"] = 1
    /\ Protocol!Rank["Takeoff"] = 2 /\ Protocol!Rank["ExecuteMission"] = 3
    /\ Protocol!Rank["GoHome"] = 4 /\ Protocol!Rank["Land"] = 5
    /\ Protocol!Rank["Complete"] = 6 /\ Protocol!Rank["Abort"] = 7
BY DEF Protocol!Rank, Protocol!Phases

\* A silent tick into a later phase.
LEMMA MoveAdvances ==
    ASSUME PhasesTypeOK, NEW s \in States,
           Protocol!Rank[s] > Protocol!Rank[state],
           state' = s, Quiet
    PROVE  Protocol!Advance
BY DEF Quiet, Protocol!Advance, Protocol!Phases, States

\* A silent tick that stays.
LEMMA StayWaits ==
    ASSUME PhasesTypeOK, state' = Phase, Quiet
    PROVE  Protocol!Next
<1>1. CASE state = "Idle"
    <2>1. state' = "Prepare" /\ "Prepare" \in States
        BY <1>1 DEF Phase, States
    <2> QED BY <1>1, <2>1, Ranks, MoveAdvances DEF Protocol!Next
<1>2. CASE state # "Idle"
    BY <1>2 DEF Phase, Quiet, Protocol!Next, Protocol!Wait
<1> QED BY <1>1, <1>2

\* A tick that sends a command of its phase.
LEMMA SendSends ==
    ASSUME PhasesTypeOK, NEW c \in Commands,
           state' = Phase, command' = c, c \in Protocol!Permitted[Phase],
           c \in {"Takeoff", "Land"} => c \notin sent,
           sent' = sent \cup ({c} \cap Flagged)
    PROVE  Protocol!Send
<1>1. (sent \cup ({c} \cap Flagged)) \cap {"Takeoff", "Land"}
        = (sent \cap {"Takeoff", "Land"}) \cup ({c} \cap {"Takeoff", "Land"})
    BY DEF Flagged
<1> QED BY <1>1 DEF Protocol!Send, Protocol!OneShot, Phase

\* What each phase may send.
LEMMA Permits ==
    /\ Protocol!Permitted["Prepare"] = {"Arm"}
    /\ Protocol!Permitted["Takeoff"] = {"Takeoff", "Velocity"}
    /\ Protocol!Permitted["ExecuteMission"] = {"Velocity"}
    /\ Protocol!Permitted["GoHome"] = {"Velocity"}
    /\ Protocol!Permitted["Land"] = {"Land"}
    /\ Protocol!Permitted["Complete"] = {"Disarm"}
BY DEF Protocol!Permitted, Protocol!Phases

\* Every tick is a step of the command protocol.
LEMMA TickKeepsProtocol ==
    ASSUME PhasesTypeOK, NEW in, Timed(in), PhaseTick(in)
    PROVE  Protocol!Next
<1>s. {"Prepare", "Takeoff", "ExecuteMission", "GoHome", "Land", "Complete", "Abort"}
        \subseteq States
    BY DEF States
<1>m. ASSUME NEW s \in States, Protocol!Rank[s] > Protocol!Rank[state],
             Move(s, in) \/ (s = "Abort" /\ Fail(in))
      PROVE  Protocol!Next
    BY <1>m, MoveAdvances DEF Move, Enter, Fail, Protocol!Next
<1>w. WaitIn(in) => Protocol!Next
    BY StayWaits DEF WaitIn, Stay
<1>f. ASSUME NEW c \in Flagged, SendFlagged(c, in), c \in Protocol!Permitted[Phase],
             c \in {"Takeoff", "Land"} => c \notin sent
      PROVE  Protocol!Next
    BY <1>f, SendSends DEF SendFlagged, Protocol!Next, Flagged, Commands
<1>v. ASSUME SendVelocity(in), "Velocity" \in Protocol!Permitted[Phase]
      PROVE  Protocol!Next
    BY <1>v, SendSends DEF SendVelocity, Stay, Protocol!Next, Flagged, Commands
<1>1. CASE TickPrepare(in)
    <2>1. Phase = "Prepare" /\ state \in {"Idle", "Prepare"}
        BY <1>1 DEF TickPrepare, Phase
    <2>2. CASE ArmTimedOut(in)
        BY <2>1, <2>2, <1>s, <1>m, Ranks DEF ArmTimedOut, BeginAbortRecovery
    <2> QED BY <1>1, <2>1, <2>2, <1>s, <1>m, <1>w, <1>f, Ranks, Permits
            DEF TickPrepare, Flagged
<1>2. CASE TickTakeoff(in)
    <2>1. Phase = "Takeoff" /\ state = "Takeoff"
        BY <1>2 DEF TickTakeoff, Phase
    <2>2. TakeoffDecision(in) = "takeoff" => "Takeoff" \notin sent
        BY DEF TakeoffDecision
    <2> QED BY <1>2, <2>1, <2>2, <1>s, <1>m, <1>w, <1>f, <1>v, Ranks, Permits
            DEF TickTakeoff, Flagged
<1>3. CASE FlightTick(in)
    <2>1. state = Phase
        BY <1>3 DEF FlightTick, Phase
    <2>2. CASE Phase = "ExecuteMission"
        BY <1>3, <2>1, <2>2, <1>s, <1>m, <1>v, <1>w, Ranks, Permits DEF FlightTick
    <2>3. CASE Phase = "GoHome"
        BY <1>3, <2>1, <2>3, <1>s, <1>m, <1>v, Ranks, Permits DEF FlightTick
    <2> QED BY <1>3, <2>2, <2>3 DEF FlightTick
<1>5. CASE TickLand(in)
    <2>1. Phase = "Land" /\ state = "Land"
        BY <1>5 DEF TickLand, Phase
    <2>2. LandDecision(in) = "land" => "Land" \notin sent
        BY DEF LandDecision
    <2> QED BY <1>5, <2>1, <2>2, <1>s, <1>m, <1>w, <1>f, Ranks, Permits
            DEF TickLand, Flagged
<1>6. CASE TickComplete(in)
    <2>1. Phase = "Complete" /\ state = "Complete"
        BY <1>6 DEF TickComplete, Phase
    <2>2. Stay(in) /\ Quiet => Protocol!Next
        BY StayWaits DEF Stay
    <2> QED BY <1>6, <2>1, <2>2, <1>s, <1>m, <1>w, <1>f, Ranks, Permits
            DEF TickComplete, Flagged
<1>7. CASE TickAbort(in)
    <2>1. state' = Phase /\ Quiet
        BY <1>7 DEF TickAbort, Fail
    <2> QED BY <2>1, StayWaits
<1> QED BY <1>1, <1>2, <1>3, <1>5, <1>6, <1>7 DEF PhaseTick
=============================================================================
