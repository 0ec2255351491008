---------------------------- MODULE CommandSinks ----------------------------
(***************************************************************************)
(* The command sinks between the mission runtime and the vehicle: one      *)
(* flight command sink, chosen by the configuration (Px4MavlinkCommandSink *)
(* over UDP, Px4BridgeCommandSink over the pipes of a child process,       *)
(* AirSimVelocityCommandSink with one child process per command, or the    *)
(* null sink), and the gimbal sink.  The dispatch thread of the runtime    *)
(* calls them one command at a time; around it peers send heartbeats,      *)
(* system calls fail, children answer, refuse or die, and time passes.     *)
(***************************************************************************)
EXTENDS Integers, Sequences, FiniteSets

CONSTANTS
    Sinks,          \* the sinks looked at, one at a time: they share nothing
    Endpoints,      \* endpoints of the MAVLink sink, "out" or "in" each
    Targets,        \* number of targets of the gimbal sink
    Pitches,        \* pitches the behaviors ask for
    Deadband,       \* deadband_rad
    Resend,         \* resend_interval_s
    MaxRequests,    \* bound: commands sent through the flight sink
    Absent          \* no value

CommandKinds == {"arm", "takeoff", "land", "disarm", "velocity"}

ASSUME SinkAssumption ==
    /\ Sinks \subseteq {"mavlink", "bridge", "airsim", "null", "gimbal"}
    /\ Endpoints \in Seq({"out", "in"}) /\ Endpoints # <<>>
    /\ Targets \in Nat \ {0}
    /\ {Deadband, Resend, MaxRequests} \subseteq Nat
    /\ Pitches \subseteq Int /\ Absent \notin Int
    /\ Absent \notin CommandKinds \cup {"start", "shutdown", "failed", "killed", "gone"}

VARIABLES
    sink,       \* the sink in use
    shell,      \* use_px4_shell_lifecycle
    auto_offboard,  \* set_offboard_on_velocity
    call,       \* the command being sent, Absent between two calls
    result,     \* how the last call ended
    requests,   \* commands sent so far
    plan,       \* messages the MAVLink sink has still to hand over
    at,         \* endpoint the first of them is at
    offboard,   \* offboard_requested
    learned,    \* endpoints with has_learned_peer
    handed,     \* per endpoint, the messages given to sendto(), duplicates dropped
    child,      \* the bridge process
    toChild,    \* requests in the pipe to it
    fromChild,  \* responses in the pipe from it
    pitch,      \* per gimbal target, the pitch last sent to it
    lastPitch,  \* last_pitch_rad, Absent while last_pitch_valid is false
    since,      \* time since last_send_time, up to Resend
    gimbal      \* the last gimbal call: its pitch, its target, its result

optionVars == <<sink, shell, auto_offboard>>
flightVars == <<optionVars, call, result, requests>>
udpVars == <<plan, at, offboard, learned, handed>>
childVars == <<child, toChild, fromChild>>
gimbalVars == <<pitch, lastPitch, since, gimbal>>
sinkVars == <<flightVars, udpVars, childVars, gimbalVars>>

-----------------------------------------------------------------------------
(* The MAVLink sink. *)

Peers == DOMAIN Endpoints

Note(seen, message) == IF message \in {seen[i] : i \in DOMAIN seen} THEN seen
                       ELSE Append(seen, message)

\* send(): a lifecycle command goes through the PX4 shell or as one packet; if
\* the sink is to set the mode, the first velocity is preceded by zero setpoints
\* and the request for offboard mode.
Messages(kind) ==
    IF kind = "velocity" /\ auto_offboard /\ ~offboard THEN <<"zero", "mode", "velocity">>
    ELSE <<kind>>

mavlink_send(kind) ==
    /\ sink = "mavlink" /\ call = Absent /\ requests < MaxRequests
    /\ call' = kind /\ requests' = requests + 1
    /\ plan' = IF shell /\ kind # "velocity" THEN <<>> ELSE Messages(kind)
    /\ at' = 1
    /\ UNCHANGED <<optionVars, result, offboard, learned, handed, childVars, gimbalVars>>

\* run_px4_shell(): tmux takes the keys, or the call throws.
run_px4_shell(ok) ==
    /\ sink = "mavlink" /\ call # Absent /\ plan = <<>>
    /\ result' = IF ok THEN "ok" ELSE "thrown"
    /\ call' = Absent
    /\ UNCHANGED <<optionVars, requests, udpVars, childVars, gimbalVars>>

\* learn_peer_if_needed(): a heartbeat arrives in time.
learn_peer ==
    /\ sink = "mavlink" /\ plan # <<>>
    /\ Endpoints[at] = "in" /\ at \notin learned
    /\ learned' = learned \cup {at}
    /\ UNCHANGED <<flightVars, plan, at, offboard, handed, childVars, gimbalVars>>

\* Mutant of Sent: the mode request is remembered before it is sent.
SentEarly(again) ==
    LET message == Head(plan)
        rest == IF message = "zero" /\ again THEN plan ELSE Tail(plan)
    IN /\ plan' = rest
       /\ at' = 1
       /\ offboard' = (offboard \/ message = "zero")
       /\ IF rest = <<>> THEN call' = Absent /\ result' = "ok"
          ELSE UNCHANGED <<call, result>>

\* What follows the last endpoint of a message: zero setpoints are repeated
\* until the two seconds are over, and the mode request is remembered.
Sent(again) ==
    LET message == Head(plan)
        rest == IF message = "zero" /\ again THEN plan ELSE Tail(plan)
    IN /\ plan' = rest
       /\ at' = 1
       /\ offboard' = (offboard \/ message = "mode")
       /\ IF rest = <<>> THEN call' = Absent /\ result' = "ok"
          ELSE UNCHANGED <<call, result>>

\* send_packet(): sendto() for the endpoint the packet is at.
send_packet(again) ==
    /\ sink = "mavlink" /\ plan # <<>>
    /\ Endpoints[at] = "in" => at \in learned
    /\ handed' = [handed EXCEPT ![at] = Note(@, Head(plan))]
    /\ IF at < Len(Endpoints)
       THEN at' = at + 1 /\ UNCHANGED <<plan, offboard, call, result>>
       ELSE Sent(again)
    /\ UNCHANGED <<optionVars, requests, learned, childVars, gimbalVars>>

\* sendto() fails, or no heartbeat comes within four seconds: the call throws,
\* and the endpoints before this one have had the packet.
send_packet_throws ==
    /\ sink = "mavlink" /\ plan # <<>>
    /\ plan' = <<>> /\ call' = Absent /\ result' = "thrown"
    /\ UNCHANGED <<optionVars, requests, at, offboard, learned, handed,
                   childVars, gimbalVars>>

-----------------------------------------------------------------------------
(* The bridge sink, and the script it talks to. *)

\* start_bridge(): fork, and wait for the line that says ready.
start_bridge ==
    /\ sink = "bridge" /\ child = "none"
    /\ child' = "starting"
    /\ call' = "start"
    /\ UNCHANGED <<optionVars, result, requests, udpVars, toChild, fromChild, gimbalVars>>

\* The child reports itself ready, or that it is not.
child_ready(ok) ==
    /\ child = "starting"
    /\ child' = "running"
    /\ fromChild' = Append(fromChild, [of |-> "start", ok |-> ok])
    /\ UNCHANGED <<flightVars, udpVars, toChild, gimbalVars>>

\* The child answers the requests in order, one line each.
child_answers(ok) ==
    /\ child = "running" /\ toChild # <<>>
    /\ fromChild' = Append(fromChild, [of |-> Head(toChild), ok |-> ok])
    /\ toChild' = Tail(toChild)
    /\ child' = IF Head(toChild) = "shutdown" THEN "dead" ELSE child
    /\ UNCHANGED <<flightVars, udpVars, gimbalVars>>

\* The child dies; what is in the pipe from it can still be read.
child_dies ==
    /\ child \in {"starting", "running"}
    /\ child' = "dead"
    /\ UNCHANGED <<flightVars, udpVars, toChild, fromChild, gimbalVars>>

\* send_json(): the request is written.  SIGPIPE has its default action, so a
\* write to a dead child does not return an error but ends the process.
send_json(kind) ==
    /\ sink = "bridge" /\ call = Absent /\ requests < MaxRequests
    /\ child \in {"running", "dead"}
    /\ requests' = requests + 1
    /\ IF child = "dead" THEN call' = "killed" /\ UNCHANGED toChild
       ELSE call' = kind /\ toChild' = Append(toChild, kind)
    /\ UNCHANGED <<optionVars, result, udpVars, child, fromChild, gimbalVars>>

\* read_response(): blocks until there is a line.  A line that is not ok is an
\* exception; during construction it is the end of the sink.
read_response ==
    /\ sink = "bridge" /\ call \in CommandKinds \cup {"start"} /\ fromChild # <<>>
    /\ result' = IF ~Head(fromChild).ok THEN "thrown"
                 ELSE IF Head(fromChild).of = call THEN "ok" ELSE "crossed"
    /\ call' = IF call = "start" /\ ~Head(fromChild).ok THEN "failed" ELSE Absent
    /\ fromChild' = Tail(fromChild)
    /\ UNCHANGED <<optionVars, requests, udpVars, child, toChild, gimbalVars>>

\* Mutant of read_response_eof: the end of the pipe is taken for no line yet.
read_response_eof_retried ==
    /\ sink = "bridge" /\ call \in CommandKinds \cup {"start"}
    /\ child = "dead" /\ fromChild = <<>>
    /\ UNCHANGED sinkVars

\* read_response(): the child closed its end.
read_response_eof ==
    /\ sink = "bridge" /\ call \in CommandKinds \cup {"start"}
    /\ child = "dead" /\ fromChild = <<>>
    /\ result' = "thrown"
    /\ call' = IF call = "start" THEN "failed" ELSE Absent
    /\ UNCHANGED <<optionVars, requests, udpVars, childVars, gimbalVars>>

\* ~Impl(): the shutdown request is written (not to a child that is gone: that
\* ends the process) and its response awaited for three seconds.
shutdown_bridge ==
    /\ sink = "bridge" /\ call = Absent /\ child \in {"running", "dead"}
    /\ IF child = "dead" THEN call' = "killed" /\ UNCHANGED toChild
       ELSE call' = "shutdown" /\ toChild' = Append(toChild, "shutdown")
    /\ UNCHANGED <<optionVars, result, requests, udpVars, child, fromChild, gimbalVars>>

\* The rest of ~Impl(): with the response, or without one after the timeout, the
\* pipes are closed and the child is reaped, by SIGTERM if it still runs.
reap_child ==
    /\ sink = "bridge" /\ call = "shutdown"
    /\ call' = "gone" /\ child' = "reaped"
    /\ toChild' = <<>> /\ fromChild' = <<>>
    /\ UNCHANGED <<optionVars, result, requests, udpVars, gimbalVars>>

-----------------------------------------------------------------------------
(* The AirSim sink and the null sink. *)

\* One child per command: its output is read to the end, its status checked,
\* and it has to say "ok":true; everything else throws.
one_shot(kind, ok) ==
    /\ sink \in {"airsim", "null"} /\ call = Absent /\ requests < MaxRequests
    /\ requests' = requests + 1
    /\ result' = IF ok \/ sink = "null" THEN "ok" ELSE "thrown"
    /\ UNCHANGED <<optionVars, call, udpVars, childVars, gimbalVars>>

-----------------------------------------------------------------------------
(* The gimbal sink. *)

Apart(p, q) == IF p > q THEN p - q ELSE q - p

should_send(p) ==
    \/ lastPitch = Absent
    \/ Apart(p, lastPitch) >= Deadband
    \/ Resend > 0 /\ since >= Resend

\* send(): suppressed, or begun with the first target.
gimbal_send(p) ==
    /\ sink = "gimbal" /\ gimbal.at = 0
    /\ gimbal' = IF should_send(p) THEN [of |-> p, at |-> 1, result |-> "sending"]
                 ELSE [of |-> p, at |-> 0, result |-> "suppressed"]
    /\ UNCHANGED <<flightVars, udpVars, childVars, pitch, lastPitch, since>>

\* sendto() for one target; after the last one the pitch is remembered.
gimbal_sendto ==
    /\ gimbal.at > 0
    /\ pitch' = [pitch EXCEPT ![gimbal.at] = gimbal.of]
    /\ IF gimbal.at < Targets
       THEN gimbal' = [gimbal EXCEPT !.at = @ + 1] /\ UNCHANGED <<lastPitch, since>>
       ELSE /\ gimbal' = [gimbal EXCEPT !.at = 0, !.result = "ok"]
            /\ lastPitch' = gimbal.of /\ since' = 0
    /\ UNCHANGED <<flightVars, udpVars, childVars>>

\* sendto() fails: the targets before this one already turn.
gimbal_throws ==
    /\ gimbal.at > 0
    /\ gimbal' = [gimbal EXCEPT !.at = 0, !.result = "thrown"]
    /\ UNCHANGED <<flightVars, udpVars, childVars, pitch, lastPitch, since>>

time_passes ==
    /\ sink = "gimbal" /\ since < Resend
    /\ since' = since + 1
    /\ UNCHANGED <<flightVars, udpVars, childVars, pitch, lastPitch, gimbal>>

-----------------------------------------------------------------------------
SinksInit ==
    /\ sink \in Sinks
    /\ shell \in IF sink = "mavlink" THEN BOOLEAN ELSE {FALSE}
    /\ auto_offboard \in IF sink = "mavlink" THEN BOOLEAN ELSE {FALSE}
    /\ call = Absent /\ result = "none" /\ requests = 0
    /\ plan = <<>> /\ at = 1 /\ offboard = FALSE /\ learned = {}
    /\ handed = [e \in Peers |-> <<>>]
    /\ child = "none" /\ toChild = <<>> /\ fromChild = <<>>
    /\ pitch = [t \in 1..Targets |-> Absent] /\ lastPitch = Absent /\ since = 0
    /\ gimbal = [of |-> Absent, at |-> 0, result |-> "none"]

Mavlink ==
    \/ \E kind \in CommandKinds : mavlink_send(kind)
    \/ learn_peer \/ send_packet_throws
    \/ \E b \in BOOLEAN : run_px4_shell(b) \/ send_packet(b)

Bridge ==
    \/ start_bridge \/ child_dies \/ read_response \/ read_response_eof
    \/ shutdown_bridge \/ reap_child
    \/ \E b \in BOOLEAN : child_ready(b) \/ child_answers(b)
    \/ \E kind \in CommandKinds : send_json(kind)

Gimbal ==
    \/ \E p \in Pitches : gimbal_send(p)
    \/ gimbal_sendto \/ gimbal_throws \/ time_passes

SinksNext ==
    \/ Mavlink \/ Bridge \/ Gimbal
    \/ \E kind \in CommandKinds, b \in BOOLEAN : one_shot(kind, b)

\* The dispatch thread goes on with a call it has begun, the two seconds of
\* zero setpoints end, and a child with something to say says it or dies.
\* Nothing obliges the runtime to call.
SinksFairness ==
    /\ WF_sinkVars((\E b \in BOOLEAN : send_packet(b)) \/ send_packet_throws \/ learn_peer)
    /\ SF_sinkVars(at = Len(Endpoints) /\ send_packet(FALSE))
    /\ WF_sinkVars(read_response \/ read_response_eof)
    /\ WF_sinkVars(reap_child)
    /\ WF_sinkVars(\E b \in BOOLEAN : run_px4_shell(b))
    /\ WF_sinkVars(\/ call \in CommandKinds \cup {"start"} /\ child_dies
               \/ \E b \in BOOLEAN : child_ready(b) \/ child_answers(b))

SinksSpec == SinksInit /\ [][SinksNext]_sinkVars /\ SinksFairness

-----------------------------------------------------------------------------
\* Where a thread is that will not call again.
Ended == {Absent, "failed", "killed", "gone"}

\* A request is at most one line in each pipe, a message is at an endpoint
\* there is, and the members have their types.
SinksTypeOK ==
    /\ sink \in Sinks /\ {shell, auto_offboard} \subseteq BOOLEAN
    /\ call \in Ended \cup CommandKinds \cup {"start", "shutdown"}
    /\ result \in {"none", "ok", "thrown", "crossed"}
    /\ requests \in 0..MaxRequests
    /\ plan \in Seq(CommandKinds \cup {"zero", "mode"}) /\ at \in Peers /\ learned \subseteq Peers
    /\ child \in {"none", "starting", "running", "dead", "reaped"}
    /\ Len(toChild) + Len(fromChild) <= 2
    /\ pitch \in [1..Targets -> Pitches \cup {Absent}]
    /\ lastPitch \in Pitches \cup {Absent} /\ since \in 0..Resend
    /\ gimbal.at \in 0..Targets

Before(seen, first, second) ==
    \A i \in DOMAIN seen : seen[i] = second => \E j \in 1..(i - 1) : seen[j] = first

\* PX4 refuses offboard mode without setpoints and ignores velocities outside of
\* it.  A sink that is to set the mode gives every endpoint, whatever calls fail
\* half way, zero setpoints, then the mode request, then velocities, and
\* offboard_requested is only true when every endpoint has been given the request.
\* A sink that is not to set it asks no endpoint for a mode: its velocities count
\* on whoever flies.
OffboardBeforeVelocity ==
    /\ auto_offboard => \A e \in Peers : /\ Before(handed[e], "zero", "mode")
                                         /\ Before(handed[e], "mode", "velocity")
    /\ offboard => \A e \in Peers : \E i \in DOMAIN handed[e] : handed[e][i] = "mode"
    /\ ~auto_offboard => \A e \in Peers : \A i \in DOMAIN handed[e] : handed[e][i] \in CommandKinds

\* The response send_json() returns is that of its own request, also after
\* refusals: the pipe never runs one line behind.
ResponsesMatchRequests == result # "crossed"

\* Every call of a flight sink returns, throws or ends with the process, and the
\* destructor reaps the child, whether or not it answers.
CallsReturn == (call \notin Ended) ~> (call \in Ended)

\* The deadband compares with the last pitch every target was sent.  A gimbal
\* command is therefore suppressed only if all targets are within the deadband,
\* or if a failed send left them apart less than a resend interval ago.
SuppressedErrorIsBrief ==
    [][ gimbal'.result = "suppressed" /\ gimbal' # gimbal =>
            \/ since < Resend
            \/ \A t \in 1..Targets :
                  pitch[t] # Absent /\ Apart(pitch[t], gimbal'.of) < Deadband ]_sinkVars

\* What the vehicle and the bridge see is a protocol kept: offboard mode before
\* velocities at every endpoint, and an answer for each request, its own.
SinkOrder == SinksTypeOK /\ OffboardBeforeVelocity /\ ResponsesMatchRequests

\* A call comes back, and a gimbal command that was not sent was not needed, or is
\* made up for within a resend interval.
CallsAreHonoured == CallsReturn /\ SuppressedErrorIsBrief
=============================================================================
