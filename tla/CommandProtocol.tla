--------------------------- MODULE CommandProtocol ---------------------------
(***************************************************************************)
(* What a mission controller promises to the flight command sink, and so   *)
(* to the vehicle behind it, whatever the telemetry it is fed: the phases  *)
(* of a mission only ever move forward, a tick that changes the phase      *)
(* sends nothing, every phase sends its own kind of command, and Takeoff   *)
(* and Land, the two manoeuvres the vehicle performs on its own, are       *)
(* requested at most once each.                                            *)
(***************************************************************************)
EXTENDS Integers

VARIABLES
    phase,    \* MissionLifecycleState
    issued,   \* which of the one-shot commands have been sent
    command   \* what the last tick handed to the sink

vars == <<phase, issued, command>>

Phases == {"Idle", "Prepare", "Takeoff", "ExecuteMission", "GoHome",
           "Land", "Complete", "Abort"}

Rank ==
    [p \in Phases |->
        CASE p = "Idle"           -> 0
          [] p = "Prepare"        -> 1
          [] p = "Takeoff"        -> 2
          [] p = "ExecuteMission" -> 3
          [] p = "GoHome"         -> 4
          [] p = "Land"           -> 5
          [] p = "Complete"       -> 6
          [] p = "Abort"          -> 7]

OneShot == {"Takeoff", "Land"}

\* The commands a phase may send.
Permitted ==
    [p \in Phases |->
        CASE p = "Prepare"                     -> {"Arm"}
          [] p = "Takeoff"                     -> {"Takeoff", "Velocity"}
          [] p \in {"ExecuteMission", "GoHome"} -> {"Velocity"}
          [] p = "Land"                        -> {"Land"}
          [] p = "Complete"                    -> {"Disarm"}
          [] OTHER                             -> {}]

Init == phase = "Idle" /\ issued = {} /\ command = "none"

\* A tick that leaves the phase for a later one, silently.
Advance ==
    /\ \E p \in Phases : Rank[p] > Rank[phase] /\ phase' = p
    /\ command' = "none"
    /\ UNCHANGED issued

\* A tick that sends a command of its phase.  The first tick of all runs in
\* Prepare.
Send ==
    /\ phase' = IF phase = "Idle" THEN "Prepare" ELSE phase
    /\ \E c \in Permitted[phase'] \ issued :
        /\ command' = c
        /\ issued' = issued \cup ({c} \cap OneShot)

\* A tick that only waits.
Wait == phase # "Idle" /\ command' = "none" /\ UNCHANGED <<phase, issued>>

Next == Advance \/ Send \/ Wait

Spec == Init /\ [][Next]_vars
=============================================================================
