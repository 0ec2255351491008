------------------------------ MODULE PortsProofs ------------------------------
(***************************************************************************)
(* The command sinks, the camera pointing on top of the gimbal sink and    *)
(* the viewer: what the vehicle, the bridge process, the frame loop and    *)
(* the browsers are promised, for every number of endpoints, targets,      *)
(* cameras and browsers, whatever calls fail half way and whatever part of *)
(* an event a socket takes.                                                *)
(***************************************************************************)
EXTENDS CameraPointing, ViewerRelay, SequenceTheorems, WellFoundedInduction, TLAPS

-----------------------------------------------------------------------------
\* The messages of the MAVLink sink.

MessageKinds == CommandKinds \cup {"zero", "mode"}

\* An endpoint has been given a message.
Had(log, message) == \E i \in DOMAIN log : log[i] = message

\* Noting a message keeps what was noted and adds the message.
LEMMA NoteKeeps ==
    ASSUME NEW S, NEW log \in Seq(S), NEW message \in S
    PROVE  /\ Note(log, message) \in Seq(S)
           /\ Had(Note(log, message), message)
           /\ \A m : Had(log, m) => Had(Note(log, message), m)
           /\ \A m : Had(Note(log, message), m) => Had(log, m) \/ m = message
<1>1. CASE Had(log, message)
    BY <1>1 DEF Note, Had
<1>2. CASE ~Had(log, message)
    <2>1. Note(log, message) = Append(log, message)
        BY <1>2 DEF Note, Had
    <2>2. /\ Append(log, message) \in Seq(S) /\ DOMAIN Append(log, message) = 1..Len(log) + 1
          /\ Append(log, message)[Len(log) + 1] = message
          /\ \A i \in 1..Len(log) : Append(log, message)[i] = log[i]
        OBVIOUS
    <2>3. DOMAIN log = 1..Len(log) /\ Len(log) \in Nat
        OBVIOUS
    <2>4. \A i \in 1..Len(log) + 1 : i \in 1..Len(log) \/ i = Len(log) + 1
        BY <2>3
    <2> QED BY <2>1, <2>2, <2>3, <2>4 DEF Had
<1> QED BY <1>1, <1>2

\* The order of two messages is kept by a note, unless it is the second message
\* and the first has not been given.
LEMMA NoteKeepsOrder ==
    ASSUME NEW S, NEW log \in Seq(S), NEW message \in S, NEW first, NEW second,
           Before(log, first, second), message = second => Had(log, first)
    PROVE  Before(Note(log, message), first, second)
<1>1. CASE Had(log, message)
    BY <1>1 DEF Note, Had
<1>2. CASE ~Had(log, message)
    <2>1. Note(log, message) = Append(log, message)
        BY <1>2 DEF Note, Had
    <2> DEFINE new == Append(log, message)
    <2>2. /\ DOMAIN new = 1..Len(log) + 1 /\ new[Len(log) + 1] = message
          /\ \A i \in 1..Len(log) : new[i] = log[i]
          /\ DOMAIN log = 1..Len(log) /\ Len(log) \in Nat
        OBVIOUS
    <2> HIDE DEF new
    <2>3. ASSUME NEW i \in DOMAIN new, new[i] = second
          PROVE  \E j \in 1..(i - 1) : new[j] = first
        <3>1. CASE i = Len(log) + 1
            <4>1. Had(log, first)
                BY <2>2, <2>3, <3>1
            <4>2. PICK j \in DOMAIN log : log[j] = first
                BY <4>1 DEF Had
            <4> QED BY <2>2, <3>1, <4>2
        <3>2. CASE i \in 1..Len(log)
            <4>1. log[i] = second
                BY <2>2, <2>3, <3>2
            <4>2. PICK j \in 1..(i - 1) : log[j] = first
                BY <2>2, <3>2, <4>1 DEF Before
            <4>3. j \in 1..Len(log)
                BY <2>2, <3>2, <4>2
            <4> QED BY <2>2, <4>2, <4>3
        <3> QED BY <2>2, <3>1, <3>2
    <2> QED BY <2>1, <2>3 DEF Before, new
<1> QED BY <1>1, <1>2

\* What the MAVLink sink still has to send: nothing, one lifecycle command, or a
\* velocity with what has to precede it.
Offboarding == <<"zero", "mode", "velocity">>
ModeNext == <<"mode", "velocity">>
Plans == {<<kind>> : kind \in CommandKinds} \cup {<<>>, Offboarding, ModeNext}

\* Of the messages of a plan p that is at endpoint a: the endpoints before a have
\* had the first of them, and all have had what must precede it if the sink sets
\* the mode.
GivenInOrder(p, a, given_to, sets) ==
    /\ p = Offboarding => \A e \in Peers : e < a => Had(given_to[e], "zero")
    /\ p = ModeNext => \A e \in Peers : /\ Had(given_to[e], "zero")
                                        /\ e < a => Had(given_to[e], "mode")
    /\ sets /\ p = <<"velocity">> => \A e \in Peers : Had(given_to[e], "mode")

\* What the endpoints have been given by a sink that sets the mode, and by one that
\* does not.
InOrder(given_to) ==
    \A e \in Peers : /\ Before(given_to[e], "zero", "mode")
                     /\ Before(given_to[e], "mode", "velocity")
CommandsOnly(given_to) ==
    \A e \in Peers : \A m : Had(given_to[e], m) => m \in CommandKinds

\* The invariant of the MAVLink sink, in a state with these values.
UdpSound(p, a, given_to, requested, sets) ==
    /\ p \in Plans /\ a \in Peers
    /\ given_to \in [Peers -> Seq(MessageKinds)]
    /\ requested \in BOOLEAN /\ sets \in BOOLEAN
    /\ requested => \A e \in Peers : Had(given_to[e], "mode")
    /\ GivenInOrder(p, a, given_to, sets)
    /\ sets => InOrder(given_to)
    /\ ~sets => p \notin {Offboarding, ModeNext} /\ CommandsOnly(given_to)

\* The plans, told apart.
LEMMA PlanFacts ==
    /\ Head(Offboarding) = "zero" /\ Tail(Offboarding) = ModeNext
    /\ Head(ModeNext) = "mode" /\ Tail(ModeNext) = <<"velocity">>
    /\ Offboarding # ModeNext /\ Offboarding # <<>> /\ ModeNext # <<>>
    /\ \A kind \in CommandKinds : /\ Head(<<kind>>) = kind /\ Tail(<<kind>>) = <<>>
                                  /\ <<kind>> \notin {<<>>, Offboarding, ModeNext}
                                  /\ <<kind>> = <<"velocity">> => kind = "velocity"
<1>1. Len(Offboarding) = 3 /\ Len(ModeNext) = 2 /\ Len(<<>>) = 0
    BY DEF Offboarding, ModeNext
<1>2. \A kind \in CommandKinds : Len(<<kind>>) = 1
    OBVIOUS
<1>3. /\ Head(Offboarding) = "zero" /\ Tail(Offboarding) = ModeNext
      /\ Head(ModeNext) = "mode" /\ Tail(ModeNext) = <<"velocity">>
    BY DEF Offboarding, ModeNext
<1>4. \A kind \in CommandKinds : /\ Head(<<kind>>) = kind /\ Tail(<<kind>>) = <<>>
                                 /\ <<kind>> = <<"velocity">> => kind = "velocity"
    OBVIOUS
<1>5. Offboarding # ModeNext /\ Offboarding # <<>> /\ ModeNext # <<>>
    BY <1>1
<1>6. \A kind \in CommandKinds : <<kind>> \notin {<<>>, Offboarding, ModeNext}
    <2> TAKE kind \in CommandKinds
    <2>1. Len(<<kind>>) = 1
        BY <1>2
    <2>2. Len(<<>>) # 1 /\ Len(Offboarding) # 1 /\ Len(ModeNext) # 1
        BY <1>1
    <2>3. <<kind>> # <<>> /\ <<kind>> # Offboarding /\ <<kind>> # ModeNext
        BY <2>1, <2>2
    <2> QED BY <2>3
<1> QED BY <1>3, <1>4, <1>5, <1>6

\* There is an endpoint, and they are numbered from 1.
LEMMA PeerFacts == /\ Peers = 1..Len(Endpoints) /\ Len(Endpoints) \in Nat \ {0}
                   /\ 1 \in Peers
<1>1. Endpoints \in Seq({"out", "in"}) /\ Endpoints # <<>>
    BY SinkAssumption DEF SinkAssumption
<1> QED BY <1>1 DEF Peers

\* What sendto() for one endpoint adds.
LEMMA HandOver ==
    ASSUME NEW p, NEW a, NEW g, NEW requested,
           UdpSound(p, a, g, requested, auto_offboard), p # <<>>,
           NEW h, h[a] = Note(g[a], Head(p)), \A e \in Peers : e # a => h[e] = g[e]
    PROVE  /\ h[a] \in Seq(MessageKinds)
           /\ Had(h[a], Head(p))
           /\ \A e \in Peers : \A m : Had(g[e], m) => Had(h[e], m)
           /\ auto_offboard => InOrder(h)
           /\ ~auto_offboard => CommandsOnly(h)
<1>1. g \in [Peers -> Seq(MessageKinds)] /\ a \in Peers /\ g[a] \in Seq(MessageKinds)
    BY DEF UdpSound
<1>2. p = Offboarding \/ p = ModeNext \/ \E kind \in CommandKinds : p = <<kind>>
    BY DEF UdpSound, Plans
<1>3. Head(p) \in MessageKinds
    BY <1>2, PlanFacts DEF MessageKinds, CommandKinds
<1>4. /\ auto_offboard /\ Head(p) = "mode" => Had(g[a], "zero")
      /\ auto_offboard /\ Head(p) = "velocity" => Had(g[a], "mode")
      /\ ~auto_offboard => Head(p) \in CommandKinds
    <2>1. CASE p = Offboarding
        BY <2>1, PlanFacts DEF UdpSound
    <2>2. CASE p = ModeNext
        BY <1>1, <2>2, PlanFacts DEF UdpSound, GivenInOrder
    <2>3. CASE \E kind \in CommandKinds : p = <<kind>>
        <3>1. PICK kind \in CommandKinds : p = <<kind>>
            BY <2>3
        <3>2. Head(p) = kind /\ kind # "mode"
            BY <3>1, PlanFacts DEF CommandKinds
        <3>3. auto_offboard /\ kind = "velocity" => Had(g[a], "mode")
            BY <1>1, <3>1 DEF UdpSound, GivenInOrder
        <3> QED BY <3>2, <3>3
    <2> QED BY <1>2, <2>1, <2>2, <2>3
<1>5. /\ Note(g[a], Head(p)) \in Seq(MessageKinds) /\ Had(Note(g[a], Head(p)), Head(p))
      /\ \A m : Had(g[a], m) => Had(Note(g[a], Head(p)), m)
      /\ \A m : Had(Note(g[a], Head(p)), m) => Had(g[a], m) \/ m = Head(p)
    BY <1>1, <1>3, NoteKeeps
<1>6. ASSUME auto_offboard PROVE InOrder(h)
    <2>1. InOrder(g)
        BY <1>6 DEF UdpSound
    <2>2. Before(g[a], "zero", "mode") /\ Before(g[a], "mode", "velocity")
        BY <1>1, <2>1 DEF InOrder
    <2>3. Before(Note(g[a], Head(p)), "zero", "mode")
        BY <1>1, <1>3, <1>4, <1>6, <2>2, NoteKeepsOrder
    <2>4. Before(Note(g[a], Head(p)), "mode", "velocity")
        BY <1>1, <1>3, <1>4, <1>6, <2>2, NoteKeepsOrder
    <2> QED BY <2>1, <2>3, <2>4 DEF InOrder
<1>7. ASSUME ~auto_offboard PROVE CommandsOnly(h)
    <2>1. CommandsOnly(g)
        BY <1>7 DEF UdpSound
    <2> QED BY <1>1, <1>4, <1>5, <1>7, <2>1 DEF CommandsOnly
<1>8. /\ h[a] \in Seq(MessageKinds) /\ Had(h[a], Head(p))
      /\ \A e \in Peers : \A m : Had(g[e], m) => Had(h[e], m)
    BY <1>5
<1> QED BY <1>6, <1>7, <1>8

-----------------------------------------------------------------------------
\* The invariant of the sinks.

\* The pipes of the bridge hold at most one line, and it belongs to the call under
\* way: not yet taken up, or answered.  A request to a child that died stays where
\* it is, and nobody waits for it.
PipesFollowCalls ==
    /\ sink # "bridge" => child = "none" /\ toChild = <<>> /\ fromChild = <<>>
    /\ child = "starting" => call = "start"
    /\ \/ /\ toChild = <<>> /\ fromChild = <<>>
          /\ sink = "bridge" => \/ call \in Ended
                                \/ call = "start" /\ child \in {"starting", "dead"}
       \/ /\ toChild = <<>> /\ \E ok \in BOOLEAN : fromChild = <<[of |-> call, ok |-> ok]>>
          /\ child \in {"running", "dead"} /\ call \notin Ended
       \/ /\ toChild = <<call>> /\ fromChild = <<>>
          /\ child \in {"running", "dead"} /\ call \in CommandKinds \cup {"shutdown"}
       \/ /\ \E c : toChild = <<c>>
          /\ fromChild = <<>> /\ child = "dead" /\ call \in {Absent, "killed"}

\* The sink, the call under way and how the last one ended.
FlightSound ==
    /\ sink \in Sinks /\ shell \in BOOLEAN /\ auto_offboard \in BOOLEAN
    /\ call \in Ended \cup CommandKinds \cup {"start", "shutdown"}
    /\ result \in {"none", "ok", "thrown"}
    /\ requests \in 0..MaxRequests
    /\ child \in {"none", "starting", "running", "dead", "reaped"}
    /\ learned \subseteq Peers

GimbalResults == {"none", "sending", "suppressed", "ok", "thrown"}

\* A gimbal call under way has a pitch to send.
GimbalSound ==
    /\ pitch \in [1..Targets -> Pitches \cup {Absent}]
    /\ lastPitch \in Pitches \cup {Absent} /\ since \in 0..Resend
    /\ gimbal \in [of : Pitches \cup {Absent}, at : 0..Targets, result : GimbalResults]
    /\ gimbal.at > 0 => gimbal.of \in Pitches

SinksSafe ==
    FlightSound /\ UdpSound(plan, at, handed, offboard, auto_offboard) /\ PipesFollowCalls /\ GimbalSound

\* A call between two calls is none of the kinds.
LEMMA AbsentIsNoCall ==
    Absent \notin CommandKinds \cup {"start", "shutdown", "failed", "killed", "gone"}
BY SinkAssumption DEF SinkAssumption

\* The invariant is what is promised.
LEMMA SinksSafeImplies == SinksSafe => SinkOrder
<1> SUFFICES ASSUME SinksSafe PROVE SinkOrder
    OBVIOUS
<1>1. OffboardBeforeVelocity
    <2>1. ~auto_offboard => CommandsOnly(handed)
        BY DEF SinksSafe, UdpSound
    <2>2. ~auto_offboard => \A e \in Peers : \A i \in DOMAIN handed[e] : handed[e][i] \in CommandKinds
        BY <2>1 DEF CommandsOnly, Had
    <2>3. auto_offboard => \A e \in Peers : /\ Before(handed[e], "zero", "mode")
                                           /\ Before(handed[e], "mode", "velocity")
        BY DEF SinksSafe, UdpSound, InOrder
    <2>4. offboard => \A e \in Peers : \E i \in DOMAIN handed[e] : handed[e][i] = "mode"
        BY DEF SinksSafe, UdpSound, Had
    <2> QED BY <2>2, <2>3, <2>4 DEF OffboardBeforeVelocity
<1>2. Len(toChild) + Len(fromChild) <= 2
    <2>1. toChild = <<>> \/ \E c : toChild = <<c>>
        BY DEF SinksSafe, PipesFollowCalls
    <2>2. fromChild = <<>> \/ \E c : fromChild = <<c>>
        BY DEF SinksSafe, PipesFollowCalls
    <2>3. Len(<<>>) = 0 /\ \A c : Len(<<c>>) = 1
        OBVIOUS
    <2>4. Len(toChild) \in {0, 1}
        BY <2>1, <2>3
    <2>5. Len(fromChild) \in {0, 1}
        BY <2>2, <2>3
    <2>6. \A a, b \in {0, 1} : a + b <= 2
        OBVIOUS
    <2> QED BY <2>4, <2>5, <2>6
<1>3. plan \in Seq(CommandKinds \cup {"zero", "mode"}) /\ at \in Peers
    <2>1. \A kind \in CommandKinds : <<kind>> \in Seq(CommandKinds \cup {"zero", "mode"})
        OBVIOUS
    <2>2. <<>> \in Seq(CommandKinds \cup {"zero", "mode"})
        OBVIOUS
    <2>3. {Offboarding, ModeNext} \subseteq Seq(CommandKinds \cup {"zero", "mode"})
        BY DEF Offboarding, ModeNext, CommandKinds
    <2> QED BY <2>1, <2>2, <2>3 DEF SinksSafe, UdpSound, Plans
<1>4. ResponsesMatchRequests
    BY DEF SinksSafe, FlightSound, ResponsesMatchRequests
<1>5. SinksTypeOK
    BY <1>2, <1>3 DEF SinksSafe, FlightSound, GimbalSound, SinksTypeOK
<1> QED BY <1>1, <1>4, <1>5 DEF SinkOrder

\* A sink that has been built.
LEMMA SinksInitSafe == SinksInit => SinksSafe
<1> SUFFICES ASSUME SinksInit PROVE SinksSafe
    OBVIOUS
<1>1. 0 \in 0..MaxRequests /\ 0 \in 0..Resend /\ 0 \in 0..Targets
    BY SinkAssumption DEF SinkAssumption
<1>2. shell \in BOOLEAN /\ auto_offboard \in BOOLEAN /\ offboard \in BOOLEAN
    BY DEF SinksInit
<1>3. FlightSound
    BY <1>1, <1>2 DEF SinksInit, FlightSound, Ended
<1>4. UdpSound(plan, at, handed, offboard, auto_offboard)
    <2>1. plan = <<>> /\ at = 1 /\ offboard = FALSE /\ handed = [e \in Peers |-> <<>>]
        BY DEF SinksInit
    <2>2. \A e \in Peers : handed[e] = <<>> /\ DOMAIN handed[e] = {}
        BY <2>1
    <2>3. handed \in [Peers -> Seq(MessageKinds)]
        BY <2>1
    <2>4. GivenInOrder(plan, at, handed, auto_offboard)
        BY <2>1, PlanFacts DEF GivenInOrder
    <2>5. InOrder(handed) /\ CommandsOnly(handed)
        BY <2>2 DEF Before, InOrder, CommandsOnly, Had
    <2>6. plan \in Plans /\ plan \notin {Offboarding, ModeNext}
        BY <2>1, PlanFacts DEF Plans
    <2> QED BY <1>2, <2>1, <2>3, <2>4, <2>5, <2>6, PeerFacts DEF UdpSound
<1>5. PipesFollowCalls
    BY DEF SinksInit, PipesFollowCalls, Ended
<1>6. GimbalSound
    <2>1. gimbal = [of |-> Absent, at |-> 0, result |-> "none"]
        BY DEF SinksInit
    <2>2. gimbal \in [of : Pitches \cup {Absent}, at : 0..Targets, result : GimbalResults]
        BY <1>1, <2>1 DEF GimbalResults
    <2>3. ~(gimbal.at > 0)
        BY <2>1
    <2> QED BY <1>1, <2>2, <2>3 DEF SinksInit, GimbalSound
<1> QED BY <1>3, <1>4, <1>5, <1>6 DEF SinksSafe

\* The MAVLink actions keep the order of the messages.
LEMMA UdpStep ==
    ASSUME SinksSafe, SinksNext
    PROVE  UdpSound(plan, at, handed, offboard, auto_offboard)'
<1>0. UdpSound(plan, at, handed, offboard, auto_offboard)
    BY DEF SinksSafe
<1>s. auto_offboard' = auto_offboard
    BY DEF SinksNext, Mavlink, mavlink_send, learn_peer, send_packet_throws, run_px4_shell,
           send_packet, Bridge, start_bridge, child_dies, read_response, read_response_eof,
           shutdown_bridge, reap_child, child_ready, child_answers, send_json, Gimbal, gimbal_send,
           gimbal_sendto, gimbal_throws, time_passes, one_shot, optionVars, flightVars
<1>1. ASSUME NEW kind \in CommandKinds, mavlink_send(kind)
      PROVE  UdpSound(plan, at, handed, offboard, auto_offboard)'
    <2>1. at' = 1 /\ handed' = handed /\ offboard' = offboard
        BY <1>1 DEF mavlink_send
    <2>2. \/ plan' = <<>>
          \/ kind # "velocity" /\ plan' = <<kind>>
          \/ (offboard \/ ~auto_offboard) /\ plan' = <<"velocity">>
          \/ auto_offboard /\ plan' = Offboarding
        BY <1>1 DEF mavlink_send, Messages, Offboarding
    <2>3. plan' \in Plans
        <3>1. <<kind>> \in Plans /\ <<"velocity">> \in Plans /\ <<>> \in Plans
              /\ Offboarding \in Plans
            BY DEF Plans, CommandKinds
        <3> QED BY <2>2, <3>1
    <2>4. GivenInOrder(plan', 1, handed, auto_offboard)
        <3>1. CASE plan' = <<>>
            BY <3>1, PlanFacts DEF GivenInOrder
        <3>2. CASE kind # "velocity" /\ plan' = <<kind>>
            BY <3>2, PlanFacts DEF GivenInOrder
        <3>3. CASE (offboard \/ ~auto_offboard) /\ plan' = <<"velocity">>
            <4>1. "velocity" \in CommandKinds
                BY DEF CommandKinds
            <4> QED BY <1>0, <3>3, <4>1, PlanFacts DEF GivenInOrder, UdpSound
        <3>4. CASE plan' = Offboarding
            <4>1. "velocity" \in CommandKinds /\ Offboarding # <<"velocity">>
                BY PlanFacts DEF CommandKinds
            <4>2. \A e \in Peers : ~(e < 1)
                BY PeerFacts
            <4> QED BY <3>4, <4>1, <4>2, PlanFacts DEF GivenInOrder
        <3> QED BY <2>2, <3>1, <3>2, <3>3, <3>4
    <2>5. ~auto_offboard => plan' \notin {Offboarding, ModeNext}
        <3>1. "velocity" \in CommandKinds
            BY DEF CommandKinds
        <3> QED BY <2>2, <3>1, PlanFacts
    <2> QED BY <1>0, <1>s, <2>1, <2>3, <2>4, <2>5, PeerFacts DEF UdpSound
<1>2. ASSUME send_packet_throws
      PROVE  UdpSound(plan, at, handed, offboard, auto_offboard)'
    <2>1. plan' = <<>> /\ at' = at /\ handed' = handed /\ offboard' = offboard
        BY <1>2 DEF send_packet_throws
    <2>2. /\ <<>> \in Plans /\ <<>> \notin {Offboarding, ModeNext}
          /\ GivenInOrder(<<>>, at, handed, auto_offboard)
        BY PlanFacts DEF Plans, GivenInOrder
    <2> QED BY <1>0, <1>s, <2>1, <2>2 DEF UdpSound
<1>3. ASSUME NEW again \in BOOLEAN, send_packet(again)
      PROVE  UdpSound(plan, at, handed, offboard, auto_offboard)'
    <2> DEFINE m == Head(plan)
    <2>1. plan # <<>> /\ handed' = [handed EXCEPT ![at] = Note(@, Head(plan))]
        BY <1>3 DEF send_packet
    <2>2. /\ handed' \in [Peers -> Seq(MessageKinds)]
          /\ Had(handed'[at], m)
          /\ \A e \in Peers : \A x : Had(handed[e], x) => Had(handed'[e], x)
          /\ auto_offboard => InOrder(handed')
          /\ ~auto_offboard => CommandsOnly(handed')
        <3> DEFINE h == [handed EXCEPT ![at] = Note(@, Head(plan))]
        <3>0. /\ handed \in [Peers -> Seq(MessageKinds)] /\ at \in Peers
              /\ plan # <<>> /\ handed' = h
            BY <1>0, <2>1 DEF UdpSound
        <3>1. h[at] = Note(handed[at], Head(plan)) /\ \A e \in Peers : e # at => h[e] = handed[e]
            BY <3>0
        <3>2. /\ h[at] \in Seq(MessageKinds)
              /\ Had(h[at], Head(plan))
              /\ \A e \in Peers : \A x : Had(handed[e], x) => Had(h[e], x)
              /\ auto_offboard => InOrder(h)
              /\ ~auto_offboard => CommandsOnly(h)
            <4> HIDE DEF h
            <4> QED BY <1>0, <3>0, <3>1, HandOver
        <3>3. h \in [Peers -> Seq(MessageKinds)]
            BY <3>0, <3>1, <3>2
        <3> HIDE DEF h
        <3> QED BY <3>0, <3>2, <3>3
    <2>3. plan \in Plans /\ at \in Peers /\ offboard \in BOOLEAN
        BY <1>0 DEF UdpSound
    <2>4. plan = Offboarding \/ plan = ModeNext \/ \E kind \in CommandKinds : plan = <<kind>>
        BY <2>1, <2>3 DEF Plans
    <2>5. /\ plan = Offboarding => \A e \in Peers : e <= at => Had(handed'[e], "zero")
          /\ plan = ModeNext => \A e \in Peers : /\ Had(handed'[e], "zero")
                                                 /\ e <= at => Had(handed'[e], "mode")
          /\ auto_offboard /\ plan = <<"velocity">> => \A e \in Peers : Had(handed'[e], "mode")
        <3>1. GivenInOrder(plan, at, handed, auto_offboard)
            BY <1>0 DEF UdpSound
        <3>2. \A e \in Peers : e <= at => e < at \/ e = at
            BY <2>3, PeerFacts
        <3> QED BY <2>2, <3>1, <3>2, PlanFacts DEF GivenInOrder
    <2>6. CASE at < Len(Endpoints)
        <3>1. plan' = plan /\ at' = at + 1 /\ offboard' = offboard
            BY <1>3, <2>6 DEF send_packet
        <3>2. at + 1 \in Peers /\ \A e \in Peers : e < at + 1 => e <= at
            BY <2>3, <2>6, PeerFacts
        <3>3. GivenInOrder(plan, at + 1, handed', auto_offboard)
            BY <2>5, <3>2 DEF GivenInOrder
        <3>4. offboard => \A e \in Peers : Had(handed'[e], "mode")
            BY <1>0, <2>2 DEF UdpSound
        <3> QED BY <1>0, <1>s, <2>2, <2>3, <3>1, <3>2, <3>3, <3>4 DEF UdpSound
    <2>7. CASE ~(at < Len(Endpoints))
        <3>1. \A e \in Peers : e <= at
            BY <2>3, <2>7, PeerFacts
        <3> DEFINE rest == IF m = "zero" /\ again THEN plan ELSE Tail(plan)
        <3>2. plan' = rest /\ at' = 1 /\ offboard' = (offboard \/ m = "mode")
            BY <1>3, <2>7 DEF send_packet, Sent
        <3>3. \A e \in Peers : ~(e < 1)
            BY PeerFacts
        <3>4. plan = Offboarding \/ m # "zero"
            BY <2>4, PlanFacts DEF CommandKinds
        <3>5. plan = ModeNext \/ m # "mode"
            BY <2>4, PlanFacts DEF CommandKinds
        <3>6. \/ plan = Offboarding /\ rest \in {Offboarding, ModeNext}
              \/ plan = ModeNext /\ rest = <<"velocity">>
              \/ rest = <<>>
            BY <2>4, <3>4, PlanFacts DEF CommandKinds
        <3>7. "velocity" \in CommandKinds
            BY DEF CommandKinds
        <3>8. GivenInOrder(rest, 1, handed', auto_offboard)
            <4> HIDE DEF rest
            <4>1. CASE plan = Offboarding /\ rest \in {Offboarding, ModeNext}
                BY <2>5, <3>1, <3>3, <3>7, <4>1, PlanFacts DEF GivenInOrder
            <4>2. CASE plan = ModeNext /\ rest = <<"velocity">>
                BY <2>5, <3>1, <3>7, <4>2, PlanFacts DEF GivenInOrder
            <4>3. CASE rest = <<>>
                BY <4>3, PlanFacts DEF GivenInOrder
            <4> QED BY <3>6, <4>1, <4>2, <4>3
        <3>9. rest \in Plans
            BY <3>6, <3>7 DEF Plans
        <3>10. offboard' => \A e \in Peers : Had(handed'[e], "mode")
            <4>1. CASE offboard
                BY <1>0, <2>2, <4>1 DEF UdpSound
            <4>2. CASE m = "mode"
                BY <2>5, <3>1, <3>5, <4>2
            <4> QED BY <3>2, <4>1, <4>2
        <3>11. offboard' \in BOOLEAN
            BY <3>2
        <3>12. ~auto_offboard => rest \notin {Offboarding, ModeNext}
            BY <1>0, <3>6, <3>7, PlanFacts DEF UdpSound
        <3> HIDE DEF rest
        <3> QED BY <1>0, <1>s, <2>2, <3>2, <3>8, <3>12, <3>9, <3>10, <3>11, PeerFacts DEF UdpSound
    <2> QED BY <2>6, <2>7
<1>4. ASSUME UNCHANGED <<plan, at, handed, offboard>>
      PROVE  UdpSound(plan, at, handed, offboard, auto_offboard)'
    BY <1>0, <1>4, <1>s
<1>5. CASE Mavlink
    <2>1. CASE learn_peer \/ \E b \in BOOLEAN : run_px4_shell(b)
        BY <1>4, <2>1 DEF learn_peer, run_px4_shell, udpVars
    <2> QED BY <1>1, <1>2, <1>3, <1>5, <2>1 DEF Mavlink
<1>6. CASE Bridge \/ Gimbal \/ \E kind \in CommandKinds, b \in BOOLEAN : one_shot(kind, b)
    BY <1>4, <1>6
       DEF Bridge, start_bridge, child_dies, read_response, read_response_eof, shutdown_bridge,
           reap_child, child_ready, child_answers, send_json, Gimbal, gimbal_send, gimbal_sendto,
           gimbal_throws, time_passes, one_shot, udpVars
<1> QED BY <1>5, <1>6 DEF SinksNext

\* What is in the pipes belongs to the call under way, and an answer is read by
\* the call that asked.
LEMMA PipesStep ==
    ASSUME SinksSafe, SinksNext
    PROVE  PipesFollowCalls' /\ (read_response => result' # "crossed")
<1> USE AbsentIsNoCall DEF PipesFollowCalls, Ended, optionVars
<1>0. PipesFollowCalls
    BY DEF SinksSafe
<1>1. ASSUME UNCHANGED <<sink, child, toChild, fromChild>>, sink # "bridge"
      PROVE  PipesFollowCalls' /\ ~read_response
    BY <1>0, <1>1 DEF read_response
<1>2. ASSUME UNCHANGED <<sink, call, child, toChild, fromChild>>
      PROVE  PipesFollowCalls' 
    BY <1>0, <1>2
<1>3. CASE Mavlink
    BY <1>1, <1>3 DEF Mavlink, mavlink_send, learn_peer, send_packet_throws, run_px4_shell,
                      send_packet, flightVars, childVars
<1>4. CASE start_bridge
    BY <1>0, <1>4 DEF start_bridge, read_response
<1>5. CASE child_dies
    BY <1>0, <1>5 DEF child_dies, flightVars, read_response
<1>6. CASE read_response
    <2>1. PICK ok \in BOOLEAN : fromChild = <<[of |-> call, ok |-> ok]>>
        BY <1>0, <1>6 DEF read_response
    <2>2. Head(fromChild) = [of |-> call, ok |-> ok] /\ Tail(fromChild) = <<>>
        BY <2>1
    <2>3. Head(fromChild).of = call /\ Head(fromChild).ok = ok
        BY <2>2
    <2>4. toChild = <<>> /\ child \in {"running", "dead"} /\ sink = "bridge"
        BY <1>0, <1>6, <2>1 DEF read_response
    <2>5. fromChild' = <<>> /\ toChild' = <<>> /\ child' = child /\ call' \in {"failed", Absent}
          /\ sink' = sink
        BY <1>6, <2>2, <2>4 DEF read_response
    <2>6. result' # "crossed"
        BY <1>6, <2>3 DEF read_response
    <2> QED BY <2>4, <2>5, <2>6
<1>7. CASE read_response_eof
    BY <1>0, <1>7 DEF read_response_eof, childVars, read_response, CommandKinds
<1>8. CASE shutdown_bridge
    <2>1. CASE child = "dead"
        BY <1>0, <1>8, <2>1 DEF shutdown_bridge, read_response, CommandKinds
    <2>2. CASE child # "dead"
        <3>1. toChild = <<>> /\ fromChild = <<>>
            BY <1>0, <1>8, <2>2 DEF shutdown_bridge, CommandKinds
        <3>2. Append(toChild, "shutdown") = <<"shutdown">>
            BY <3>1
        <3> QED BY <1>8, <2>2, <3>1, <3>2 DEF shutdown_bridge, read_response
    <2> QED BY <2>1, <2>2
<1>9. CASE reap_child
    BY <1>9 DEF reap_child, read_response
<1>10. ASSUME NEW ok \in BOOLEAN, child_ready(ok)
       PROVE  PipesFollowCalls'
    <2>1. call = "start" /\ toChild = <<>> /\ fromChild = <<>> /\ sink = "bridge"
        BY <1>0, <1>10 DEF child_ready, CommandKinds
    <2>2. fromChild' = <<[of |-> call, ok |-> ok]>>
        BY <1>10, <2>1 DEF child_ready
    <2> QED BY <1>10, <2>1, <2>2 DEF child_ready, flightVars
<1>11. ASSUME NEW ok \in BOOLEAN, child_answers(ok)
       PROVE  PipesFollowCalls'
    <2>1. toChild = <<call>> /\ fromChild = <<>> /\ call \in CommandKinds \cup {"shutdown"}
          /\ sink = "bridge"
        BY <1>0, <1>11 DEF child_answers
    <2>2. Head(toChild) = call /\ Tail(toChild) = <<>>
        BY <2>1
    <2>3. fromChild' = <<[of |-> call, ok |-> ok]>> /\ toChild' = <<>>
        BY <1>11, <2>1, <2>2 DEF child_answers
    <2>4. child' \in {"running", "dead"} /\ call' = call /\ sink' = sink
        BY <1>11 DEF child_answers, flightVars
    <2>5. call \notin Ended
        BY <2>1 DEF CommandKinds
    <2> QED BY <2>1, <2>3, <2>4, <2>5
<1>12. ASSUME NEW kind \in CommandKinds, send_json(kind)
       PROVE  PipesFollowCalls'
    <2>1. CASE child = "dead"
        BY <1>0, <1>12, <2>1 DEF send_json, CommandKinds
    <2>2. CASE child # "dead"
        <3>1. toChild = <<>> /\ fromChild = <<>>
            BY <1>0, <1>12, <2>2 DEF send_json, CommandKinds
        <3>2. Append(toChild, kind) = <<kind>>
            BY <3>1
        <3> QED BY <1>12, <2>2, <3>1, <3>2 DEF send_json
    <2> QED BY <2>1, <2>2
<1>13. ASSUME Gimbal \/ \E kind \in CommandKinds, b \in BOOLEAN : one_shot(kind, b)
       PROVE  PipesFollowCalls'
    BY <1>2, <1>13 DEF Gimbal, gimbal_send, gimbal_sendto, gimbal_throws, time_passes, one_shot,
                       flightVars, childVars
<1>14. CASE Bridge
    BY <1>4, <1>5, <1>6, <1>7, <1>8, <1>9, <1>10, <1>11, <1>12, <1>14 DEF Bridge
<1> QED BY <1>3, <1>6, <1>13, <1>14 DEF SinksNext

\* The calls of the flight sinks keep their types.
LEMMA FlightStep ==
    ASSUME SinksSafe, SinksNext
    PROVE  FlightSound'
<1> USE DEF FlightSound, Ended, optionVars
<1>0. FlightSound
    BY DEF SinksSafe
<1>1. requests < MaxRequests => requests + 1 \in 0..MaxRequests
    BY <1>0, SinkAssumption DEF SinkAssumption
<1>2. CASE Mavlink
    <2>1. ASSUME NEW kind \in CommandKinds, mavlink_send(kind) PROVE FlightSound'
        BY <1>0, <1>1, <2>1 DEF mavlink_send, childVars
    <2>2. ASSUME learn_peer PROVE FlightSound'
        BY <1>0, <2>2 DEF learn_peer, flightVars, childVars, SinksSafe, UdpSound
    <2>3. ASSUME send_packet_throws PROVE FlightSound'
        BY <1>0, <2>3 DEF send_packet_throws, childVars
    <2>4. ASSUME NEW b \in BOOLEAN, run_px4_shell(b) PROVE FlightSound'
        BY <1>0, <2>4 DEF run_px4_shell, childVars, udpVars
    <2>5. ASSUME NEW b \in BOOLEAN, send_packet(b) PROVE FlightSound'
        <3>1. call' \in {call, Absent} /\ result' \in {result, "ok"}
            BY <2>5 DEF send_packet, Sent
        <3> QED BY <1>0, <2>5, <3>1 DEF send_packet, childVars
    <2> QED BY <1>2, <2>1, <2>2, <2>3, <2>4, <2>5 DEF Mavlink
<1>3. CASE Bridge
    <2>1. ASSUME start_bridge \/ child_dies PROVE FlightSound'
        BY <1>0, <2>1 DEF start_bridge, child_dies, flightVars, udpVars
    <2>2. ASSUME read_response PROVE FlightSound'
        <3>1. result' \in {"ok", "thrown"}
            BY <2>2, PipesStep DEF read_response
        <3> QED BY <1>0, <2>2, <3>1 DEF read_response, udpVars
    <2>3. ASSUME read_response_eof PROVE FlightSound'
        BY <1>0, <2>3 DEF read_response_eof, udpVars, childVars
    <2>4. ASSUME shutdown_bridge \/ reap_child PROVE FlightSound'
        BY <1>0, <2>4 DEF shutdown_bridge, reap_child, udpVars
    <2>5. ASSUME NEW b \in BOOLEAN, child_ready(b) \/ child_answers(b) PROVE FlightSound'
        BY <1>0, <2>5 DEF child_ready, child_answers, flightVars, udpVars
    <2>6. ASSUME NEW kind \in CommandKinds, send_json(kind) PROVE FlightSound'
        BY <1>0, <1>1, <2>6 DEF send_json, udpVars
    <2> QED BY <1>3, <2>1, <2>2, <2>3, <2>4, <2>5, <2>6 DEF Bridge
<1>4. CASE Gimbal
    BY <1>0, <1>4 DEF Gimbal, gimbal_send, gimbal_sendto, gimbal_throws, time_passes, flightVars,
                      udpVars, childVars
<1>5. CASE \E kind \in CommandKinds, b \in BOOLEAN : one_shot(kind, b)
    <2>1. ASSUME NEW kind \in CommandKinds, NEW b \in BOOLEAN, one_shot(kind, b)
          PROVE  FlightSound'
        BY <1>0, <1>1, <2>1 DEF one_shot, udpVars, childVars
    <2> QED BY <1>5, <2>1
<1> QED BY <1>2, <1>3, <1>4, <1>5 DEF SinksNext

\* The gimbal sink keeps its types.
LEMMA GimbalStep ==
    ASSUME SinksSafe, SinksNext
    PROVE  GimbalSound'
<1>0. GimbalSound
    BY DEF SinksSafe
<1>1. Targets \in Nat \ {0} /\ Resend \in Nat /\ Pitches \subseteq Int
    BY SinkAssumption DEF SinkAssumption
<1>2. /\ gimbal.at \in 0..Targets /\ gimbal.of \in Pitches \cup {Absent}
      /\ gimbal.result \in GimbalResults
    BY <1>0 DEF GimbalSound
<1>3. ASSUME NEW p \in Pitches, gimbal_send(p) PROVE GimbalSound'
    <2>1. \/ gimbal' = [of |-> p, at |-> 1, result |-> "sending"]
          \/ gimbal' = [of |-> p, at |-> 0, result |-> "suppressed"]
        BY <1>3 DEF gimbal_send
    <2>2. gimbal' \in [of : Pitches \cup {Absent}, at : 0..Targets, result : GimbalResults]
          /\ gimbal'.of \in Pitches
        BY <1>1, <2>1 DEF GimbalResults
    <2> QED BY <1>0, <1>3, <2>2 DEF gimbal_send, GimbalSound
<1>4. ASSUME gimbal_sendto PROVE GimbalSound'
    <2>1. gimbal.at \in 1..Targets /\ gimbal.of \in Pitches
        BY <1>0, <1>1, <1>2, <1>4 DEF gimbal_sendto, GimbalSound
    <2>2. pitch' \in [1..Targets -> Pitches \cup {Absent}]
        BY <1>0, <1>4, <2>1 DEF gimbal_sendto, GimbalSound
    <2>3. gimbal' \in [of : Pitches \cup {Absent}, at : 0..Targets, result : GimbalResults]
          /\ gimbal'.of = gimbal.of
        <3>1. CASE gimbal.at < Targets
            <4>1. gimbal' = [gimbal EXCEPT !.at = @ + 1] /\ gimbal.at + 1 \in 0..Targets
                BY <1>1, <1>4, <2>1, <3>1 DEF gimbal_sendto
            <4> QED BY <1>0, <4>1 DEF GimbalSound
        <3>2. CASE ~(gimbal.at < Targets)
            <4>1. gimbal' = [gimbal EXCEPT !.at = 0, !.result = "ok"] /\ 0 \in 0..Targets
                BY <1>1, <1>4, <3>2 DEF gimbal_sendto
            <4> QED BY <1>0, <4>1 DEF GimbalSound, GimbalResults
        <3> QED BY <3>1, <3>2
    <2>4. lastPitch' \in Pitches \cup {Absent} /\ since' \in 0..Resend
        BY <1>0, <1>1, <1>4, <2>1 DEF gimbal_sendto, GimbalSound
    <2> QED BY <2>1, <2>2, <2>3, <2>4 DEF GimbalSound
<1>5. ASSUME gimbal_throws PROVE GimbalSound'
    <2>1. gimbal' = [gimbal EXCEPT !.at = 0, !.result = "thrown"] /\ 0 \in 0..Targets
        BY <1>1, <1>5 DEF gimbal_throws
    <2>2. gimbal' \in [of : Pitches \cup {Absent}, at : 0..Targets, result : GimbalResults]
          /\ gimbal'.at = 0
        BY <1>0, <2>1 DEF GimbalSound, GimbalResults
    <2>3. ~(gimbal'.at > 0)
        BY <2>2
    <2> QED BY <1>0, <1>5, <2>2, <2>3 DEF gimbal_throws, GimbalSound
<1>6. ASSUME time_passes PROVE GimbalSound'
    <2>1. since \in 0..Resend /\ since < Resend /\ since' = since + 1
        BY <1>0, <1>6 DEF time_passes, GimbalSound
    <2>2. since' \in 0..Resend
        BY <1>1, <2>1
    <2> QED BY <1>0, <1>6, <2>2 DEF time_passes, GimbalSound
<1>7. ASSUME UNCHANGED gimbalVars PROVE GimbalSound'
    BY <1>0, <1>7 DEF gimbalVars, GimbalSound
<1>8. CASE Mavlink \/ Bridge \/ \E kind \in CommandKinds, b \in BOOLEAN : one_shot(kind, b)
    BY <1>7, <1>8
       DEF Mavlink, mavlink_send, learn_peer, send_packet_throws, run_px4_shell, send_packet,
           Bridge, start_bridge, child_dies, read_response, read_response_eof, shutdown_bridge,
           reap_child, child_ready, child_answers, send_json, one_shot
<1> QED BY <1>3, <1>4, <1>5, <1>6, <1>8 DEF SinksNext, Gimbal

\* SinksSafe is inductive.
LEMMA SinksSafeStep == SinksSafe /\ [SinksNext]_sinkVars => SinksSafe'
<1>1. ASSUME SinksSafe, SinksNext PROVE SinksSafe'
    BY <1>1, UdpStep, PipesStep, FlightStep, GimbalStep DEF SinksSafe
<1>2. ASSUME SinksSafe, UNCHANGED sinkVars PROVE SinksSafe'
    BY <1>2 DEF SinksSafe, FlightSound, PipesFollowCalls, GimbalSound, sinkVars, flightVars, optionVars,
                udpVars, childVars, gimbalVars
<1> QED BY <1>1, <1>2

\* Whatever calls fail half way, for every number of endpoints: each endpoint is
\* given zero setpoints, the mode request and velocities in this order,
\* offboard_requested is true only when all have been given the request, and the
\* bridge's answers go to the calls that asked.
THEOREM SinksKeepOrder == SinksSpec => []SinkOrder
BY SinksInitSafe, SinksSafeStep, SinksSafeImplies, PTL DEF SinksSpec

-----------------------------------------------------------------------------
\* Induction over the natural numbers, for sets.

\* A set of naturals has a least element.
LEMMA LeastNat ==
    ASSUME NEW S \in SUBSET Nat, S # {}
    PROVE  \E m \in S : \A k \in S : m <= k
<1> DEFINE R == OpToRel(<, Nat)
<1>1. IsWellFoundedOn(R, Nat)
    BY NatLessThanWellFounded
<1>2. \A x, y \in Nat : y < x => <<y, x>> \in R
    BY DEF OpToRel
<1> HIDE DEF R
<1>3. PICK x \in S : \A y \in S : ~ (<<y, x>> \in R)
    BY <1>1, WFMin
<1>4. \A y \in S : x <= y
    <2> TAKE y \in S
    <2>1. x \in Nat /\ y \in Nat /\ ~(y < x)
        BY <1>2, <1>3
    <2> QED BY <2>1
<1> QED BY <1>4

\* A set that holds 0 and with every number the next holds them all.
LEMMA AllNats ==
    ASSUME NEW S, 0 \in S, \A n \in Nat : n \in S => n + 1 \in S
    PROVE  \A n \in Nat : n \in S
<1> SUFFICES ASSUME NEW n \in Nat, n \notin S PROVE FALSE
    OBVIOUS
<1> DEFINE T == {k \in Nat : k \notin S}
<1>1. T \in SUBSET Nat /\ T # {}
    OBVIOUS
<1>2. PICK m \in T : \A k \in T : m <= k
    BY <1>1, LeastNat
<1>3. m \in Nat /\ m \notin S /\ m # 0
    BY <1>2
<1>4. m - 1 \in Nat /\ m - 1 \notin T
    BY <1>2, <1>3
<1> QED BY <1>3, <1>4

-----------------------------------------------------------------------------
\* CameraPointingStateStore::apply().

CameraNames == {Cameras[i] : i \in DOMAIN Cameras} \ {""}
PointingState == [name : CameraNames, pitch : Int, time : Nat, valid : {TRUE}]

NamesOf(list) == {list[i].name : i \in DOMAIN list}
OneEach(list) == \A i, j \in DOMAIN list : list[i].name = list[j].name => i = j

\* What apply() does for one camera.
ApplyOne(before, name, c, time) ==
    LET same == {i \in DOMAIN before : before[i].name = name}
    IN  IF name = "" THEN before
        ELSE IF same = {} THEN Append(before, StateFrom(name, c, time))
        ELSE [before EXCEPT ![CHOOSE i \in same : \A j \in same : i <= j] = StateFrom(name, c, time)]

\* The states after each of the first n cameras.
StepsUpTo(g, n, stored, c, time) ==
    g = [k \in 0..n |-> IF k = 0 THEN stored ELSE ApplyOne(g[k - 1], Cameras[k], c, time)]

\* They exist for every n.
LEMMA StepsExist ==
    ASSUME NEW stored, NEW c, NEW time
    PROVE  \A n \in Nat : \E g : StepsUpTo(g, n, stored, c, time)
<1> DEFINE S == {n \in Nat : \E g : StepsUpTo(g, n, stored, c, time)}
<1>1. 0 \in S
    <2> DEFINE g == [k \in 0..0 |-> stored]
    <2>1. StepsUpTo(g, 0, stored, c, time)
        BY DEF StepsUpTo
    <2> QED BY <2>1
<1>2. ASSUME NEW n \in Nat, n \in S PROVE n + 1 \in S
    <2>1. PICK g : StepsUpTo(g, n, stored, c, time)
        BY <1>2
    <2> DEFINE h == [k \in 0..(n + 1) |->
                        IF k <= n THEN g[k] ELSE ApplyOne(g[n], Cameras[n + 1], c, time)]
    <2>2. \A k \in 0..n : g[k] = IF k = 0 THEN stored ELSE ApplyOne(g[k - 1], Cameras[k], c, time)
        BY <2>1 DEF StepsUpTo
    <2>3. \A k \in 0..n : h[k] = g[k]
        OBVIOUS
    <2>4. h[n + 1] = ApplyOne(g[n], Cameras[n + 1], c, time)
        OBVIOUS
    <2>5. ASSUME NEW k \in 0..(n + 1)
          PROVE  h[k] = IF k = 0 THEN stored ELSE ApplyOne(h[k - 1], Cameras[k], c, time)
        <3>1. CASE k = 0
            BY <2>2, <2>3, <3>1
        <3>2. CASE k \in 1..n
            <4>1. k \in 0..n /\ k - 1 \in 0..n /\ k # 0
                BY <3>2
            <4>2. h[k] = g[k] /\ h[k - 1] = g[k - 1]
                BY <2>3, <4>1
            <4>3. g[k] = ApplyOne(g[k - 1], Cameras[k], c, time)
                BY <2>2, <4>1
            <4> HIDE DEF h
            <4> QED BY <4>1, <4>2, <4>3
        <3>3. CASE k = n + 1
            <4>1. k # 0 /\ k - 1 = n /\ n \in 0..n
                BY <3>3
            <4>2. h[k - 1] = g[n]
                BY <2>3, <4>1
            <4> HIDE DEF h
            <4> QED BY <2>4, <3>3, <4>1, <4>2
        <3> QED BY <3>1, <3>2, <3>3
    <2>6. h = [k \in 0..(n + 1) |->
                  IF k = 0 THEN stored ELSE ApplyOne(h[k - 1], Cameras[k], c, time)]
        <3>1. h = [k \in 0..(n + 1) |-> h[k]]
            OBVIOUS
        <3> HIDE DEF h
        <3> QED BY <2>5, <3>1
    <2>7. StepsUpTo(h, n + 1, stored, c, time)
        BY <2>6 DEF StepsUpTo
    <2> HIDE DEF h
    <2> QED BY <2>7
<1> HIDE DEF S
<1>3. \A n \in Nat : n \in S
    BY <1>1, <1>2, AllNats
<1> QED BY <1>3 DEF S

\* apply() is the last of these steps.
LEMMA ApplyIsLastStep ==
    ASSUME NEW stored, NEW c, NEW time
    PROVE  \E g : /\ StepsUpTo(g, Len(Cameras), stored, c, time)
                  /\ Apply(stored, c, time) = g[Len(Cameras)]
<1> DEFINE step == CHOOSE g : StepsUpTo(g, Len(Cameras), stored, c, time)
<1>1. Len(Cameras) \in Nat
    BY PointingAssumption DEF PointingAssumption
<1>2. StepsUpTo(step, Len(Cameras), stored, c, time)
    BY <1>1, StepsExist
<1>3. Apply(stored, c, time) = step[Len(Cameras)]
    BY DEF Apply, StepsUpTo, ApplyOne
<1> HIDE DEF step
<1> QED BY <1>2, <1>3

\* A state of one camera.
LEMMA StateFromType ==
    ASSUME NEW name \in CameraNames, NEW c, c.pitch \in Int, NEW time \in Nat
    PROVE  /\ StateFrom(name, c, time) \in PointingState
           /\ StateFrom(name, c, time).name = name
           /\ StateFrom(name, c, time).pitch = c.pitch
           /\ StateFrom(name, c, time).time = time
BY DEF StateFrom, PointingState

\* The states of these names are those of the command.
UpToDate(list, names, c, time) ==
    \A i \in DOMAIN list : list[i].name \in names => list[i].pitch = c.pitch /\ list[i].time = time

\* One camera: its state is new, the others stay, and none is there twice.
LEMMA ApplyOneKeeps ==
    ASSUME NEW before \in Seq(PointingState), OneEach(before), NEW name \in CameraNames,
           NEW c, c.pitch \in Int, NEW time \in Nat, NEW names, UpToDate(before, names, c, time),
           NEW after, after = ApplyOne(before, name, c, time)
    PROVE  /\ after \in Seq(PointingState) /\ OneEach(after)
           /\ NamesOf(after) = NamesOf(before) \cup {name}
           /\ UpToDate(after, names \cup {name}, c, time)
<1> DEFINE rec == StateFrom(name, c, time)
           same == {i \in DOMAIN before : before[i].name = name}
<1>0. name # ""
    BY DEF CameraNames
<1>1. rec \in PointingState /\ rec.name = name /\ rec.pitch = c.pitch /\ rec.time = time
    BY StateFromType
<1>2. DOMAIN before = 1..Len(before) /\ Len(before) \in Nat
    OBVIOUS
<1>3. after = IF same = {} THEN Append(before, rec)
              ELSE [before EXCEPT ![CHOOSE i \in same : \A j \in same : i <= j] = rec]
    BY <1>0 DEF ApplyOne
<1> HIDE DEF rec
<1>4. CASE same = {}
    <2>1. after = Append(before, rec)
        BY <1>3, <1>4
    <2>2. /\ after \in Seq(PointingState) /\ DOMAIN after = 1..(Len(before) + 1)
          /\ after[Len(before) + 1] = rec
          /\ \A i \in 1..Len(before) : after[i] = before[i]
        <3>1. rec \in PointingState
            BY <1>1
        <3> QED BY <2>1, <3>1
    <2>3. \A i \in 1..Len(before) : before[i].name # name
        BY <1>2, <1>4
    <2>4. \A i \in DOMAIN after : i \in DOMAIN before \/ i = Len(before) + 1
        BY <1>2, <2>2
    <2>5. DOMAIN before \subseteq DOMAIN after /\ Len(before) + 1 \in DOMAIN after
        BY <1>2, <2>2
    <2>6. OneEach(after)
        <3> SUFFICES ASSUME NEW i \in DOMAIN after, NEW j \in DOMAIN after,
                            after[i].name = after[j].name
                     PROVE  i = j
            BY DEF OneEach
        <3>1. CASE i \in DOMAIN before /\ j \in DOMAIN before
            BY <1>2, <2>2, <3>1 DEF OneEach
        <3>2. CASE i \in DOMAIN before /\ j = Len(before) + 1
            BY <1>1, <1>2, <2>2, <2>3, <3>2
        <3>3. CASE i = Len(before) + 1 /\ j \in DOMAIN before
            BY <1>1, <1>2, <2>2, <2>3, <3>3
        <3> QED BY <2>4, <3>1, <3>2, <3>3
    <2>7. NamesOf(after) = NamesOf(before) \cup {name}
        BY <1>1, <1>2, <2>2, <2>4, <2>5 DEF NamesOf
    <2>8. UpToDate(after, names \cup {name}, c, time)
        BY <1>1, <1>2, <2>2, <2>3, <2>4 DEF UpToDate
    <2> QED BY <2>2, <2>6, <2>7, <2>8
<1>5. CASE same # {}
    <2>1. PICK i \in DOMAIN before : before[i].name = name
        BY <1>5
    <2>2. same = {i}
        BY <2>1 DEF OneEach
    <2>3. (CHOOSE k \in same : \A j \in same : k <= j) = i
        <3>1. i <= i
            BY <1>2, <2>1
        <3> QED BY <2>2, <3>1
    <2>4. after = [before EXCEPT ![i] = rec]
        BY <1>3, <1>5, <2>3
    <2> HIDE DEF same
    <2>5. /\ after \in Seq(PointingState) /\ DOMAIN after = DOMAIN before
          /\ after[i] = rec /\ \A j \in DOMAIN before : j # i => after[j] = before[j]
        <3>1. rec \in PointingState /\ i \in 1..Len(before)
            BY <1>1, <1>2, <2>1
        <3>2. [before EXCEPT ![i] = rec] \in Seq(PointingState)
            BY <3>1, ExceptSeq
        <3> QED BY <2>1, <2>4, <3>2
    <2>6. \A j \in DOMAIN before : after[j].name = before[j].name
        BY <1>1, <2>1, <2>5
    <2>7. OneEach(after)
        BY <2>5, <2>6 DEF OneEach
    <2>8. NamesOf(after) = NamesOf(before) /\ name \in NamesOf(before)
        BY <2>1, <2>5, <2>6 DEF NamesOf
    <2>9. UpToDate(after, names \cup {name}, c, time)
        <3> SUFFICES ASSUME NEW j \in DOMAIN after, after[j].name \in names \cup {name}
                     PROVE  after[j].pitch = c.pitch /\ after[j].time = time
            BY DEF UpToDate
        <3>1. CASE j = i
            BY <1>1, <2>5, <3>1
        <3>2. CASE j # i
            <4>1. after[j] = before[j] /\ j \in DOMAIN before
                BY <2>5, <3>2
            <4>2. before[j].name # name
                BY <2>1, <3>2, <4>1 DEF OneEach
            <4> QED BY <4>1, <4>2 DEF UpToDate
        <3> QED BY <3>1, <3>2
    <2> QED BY <2>5, <2>7, <2>8, <2>9
<1> QED BY <1>4, <1>5

\* After apply() there is one state for every camera with a name, and all of them
\* are those of the command.
LEMMA ApplyRenews ==
    ASSUME NEW stored \in Seq(PointingState), OneEach(stored), NEW c, c.pitch \in Int,
           NEW time \in Nat
    PROVE  LET after == Apply(stored, c, time)
           IN  /\ after \in Seq(PointingState) /\ OneEach(after)
               /\ NamesOf(after) = CameraNames
               /\ \A i \in DOMAIN after : after[i].pitch = c.pitch /\ after[i].time = time
<1>1. PICK g : /\ StepsUpTo(g, Len(Cameras), stored, c, time)
               /\ Apply(stored, c, time) = g[Len(Cameras)]
    BY ApplyIsLastStep
<1>2. /\ Len(Cameras) \in Nat /\ DOMAIN Cameras = 1..Len(Cameras)
    BY PointingAssumption DEF PointingAssumption
<1> DEFINE Before_(k) == {Cameras[i] : i \in 1..k} \ {""}
           Done(k) == /\ g[k] \in Seq(PointingState) /\ OneEach(g[k])
                      /\ NamesOf(g[k]) = NamesOf(stored) \cup Before_(k)
                      /\ UpToDate(g[k], Before_(k), c, time)
           S == {k \in Nat : k <= Len(Cameras) => Done(k)}
<1>3. \A k \in 0..Len(Cameras) :
          g[k] = IF k = 0 THEN stored ELSE ApplyOne(g[k - 1], Cameras[k], c, time)
    BY <1>1 DEF StepsUpTo
<1>4. 0 \in S
    <2>1. g[0] = stored
        BY <1>2, <1>3
    <2>2. Before_(0) = {}
        OBVIOUS
    <2> QED BY <2>1, <2>2 DEF UpToDate
<1>5. ASSUME NEW k \in Nat, k \in S PROVE k + 1 \in S
    <2> SUFFICES ASSUME k + 1 <= Len(Cameras) PROVE Done(k + 1)
        <3> HIDE DEF Done
        <3> QED OBVIOUS
    <2>1. Done(k)
        <3> HIDE DEF Done
        <3> QED BY <1>2, <1>5
    <2>2. k + 1 \in 0..Len(Cameras) /\ k + 1 # 0 /\ (k + 1) - 1 = k /\ k + 1 \in DOMAIN Cameras
        BY <1>2
    <2>3. g[k + 1] = ApplyOne(g[k], Cameras[k + 1], c, time)
        <3>1. g[k + 1] = ApplyOne(g[(k + 1) - 1], Cameras[k + 1], c, time)
            BY <1>3, <2>2
        <3> QED BY <2>2, <3>1
    <2>4. Before_(k + 1) = Before_(k) \cup ({Cameras[k + 1]} \ {""})
        <3>1. 1..(k + 1) = 1..k \cup {k + 1}
            OBVIOUS
        <3> QED BY <3>1
    <2>5. CASE Cameras[k + 1] = ""
        <3>1. g[k + 1] = g[k] /\ Before_(k + 1) = Before_(k)
            BY <2>3, <2>4, <2>5 DEF ApplyOne
        <3> HIDE DEF Before_
        <3> QED BY <2>1, <3>1
    <2>6. CASE Cameras[k + 1] # ""
        <3>1. Cameras[k + 1] \in CameraNames
            BY <2>2, <2>6 DEF CameraNames
        <3>2. Before_(k + 1) = Before_(k) \cup {Cameras[k + 1]}
            BY <2>4, <2>6
        <3> DEFINE b == Before_(k)
        <3>3. /\ g[k] \in Seq(PointingState) /\ OneEach(g[k])
              /\ NamesOf(g[k]) = NamesOf(stored) \cup b /\ UpToDate(g[k], b, c, time)
            BY <2>1
        <3> HIDE DEF b
        <3>4. /\ g[k + 1] \in Seq(PointingState) /\ OneEach(g[k + 1])
              /\ NamesOf(g[k + 1]) = NamesOf(g[k]) \cup {Cameras[k + 1]}
              /\ UpToDate(g[k + 1], b \cup {Cameras[k + 1]}, c, time)
            BY <2>3, <3>1, <3>3, ApplyOneKeeps
        <3>5. /\ NamesOf(g[k + 1]) = NamesOf(stored) \cup Before_(k + 1)
              /\ Before_(k + 1) = b \cup {Cameras[k + 1]}
            <4>1. Before_(k + 1) = b \cup {Cameras[k + 1]}
                BY <3>2 DEF b
            <4> HIDE DEF Before_
            <4> QED BY <3>3, <3>4, <4>1
        <3> HIDE DEF Before_
        <3> QED BY <3>4, <3>5
    <2> QED BY <2>5, <2>6
<1> HIDE DEF S
<1>6. \A k \in Nat : k \in S
    BY <1>4, <1>5, AllNats
<1>7. Done(Len(Cameras))
    <2> HIDE DEF Done
    <2> QED BY <1>2, <1>6 DEF S
<1>8. Before_(Len(Cameras)) = CameraNames
    BY <1>2 DEF CameraNames
<1>9. NamesOf(stored) \subseteq CameraNames
    <2>1. \A i \in DOMAIN stored : stored[i] \in PointingState
        OBVIOUS
    <2> QED BY <2>1 DEF NamesOf, PointingState
<1> DEFINE after == Apply(stored, c, time)
<1>10. /\ after \in Seq(PointingState) /\ OneEach(after)
       /\ NamesOf(after) = CameraNames /\ UpToDate(after, CameraNames, c, time)
    BY <1>1, <1>7, <1>8, <1>9
<1> HIDE DEF after
<1>11. \A i \in DOMAIN after : after[i].pitch = c.pitch /\ after[i].time = time
    BY <1>10 DEF NamesOf, UpToDate
<1> QED BY <1>10, <1>11 DEF after

-----------------------------------------------------------------------------
\* Camera pointing on top of the gimbal sink.

\* What the mission thread and the frame loop are about.
ThreadsSound ==
    /\ command.pitch \in PitchMin..PitchMax \cup {0}
    /\ phase \in {Ranks[i] : i \in DOMAIN Ranks}
    /\ thread \in {"tick", "handoff", "send", "sending"} /\ loop \in {"copy", "frame"}

\* A list of states that is one command, the time-th, for every camera with a name.
OneCommand(list, time) ==
    /\ list \in Seq(PointingState) /\ OneEach(list)
    /\ time > 0 => NamesOf(list) = CameraNames
    /\ \A i \in DOMAIN list : list[i].time = time

\* The store is the last command, the copy one of the commands up to it, and the
\* same as the store when it is that of the last command.
StoreSound ==
    /\ issued \in Nat /\ seen \in Nat /\ volumeOf \in Nat
    /\ volumeOf <= seen /\ seen <= issued
    /\ OneCommand(states, issued) /\ OneCommand(given, seen)
    /\ seen = issued => given = states

\* A volume of the last command is placed by one of the states of the store.
VolumeSound ==
    (volumeOf = issued /\ volume # Absent /\ volume.valid)
    => \E i \in DOMAIN states : volume = states[i]

\* The sink is in a send exactly while the mission thread is, and for the command
\* of the tick.
SendSound ==
    /\ sink \in {"null", "gimbal"} /\ faulty \in BOOLEAN
    /\ gimbal \in [of : Int \cup {Absent}, at : 0..Targets, result : GimbalResults]
    /\ pitch \in [1..Targets -> Int \cup {Absent}] /\ lastPitch \in Int \cup {Absent}
    /\ gimbal.at > 0 <=> thread = "sending"
    /\ thread = "sending" =>
          /\ sink = "gimbal" /\ gimbal.of = command.pitch
          /\ \A t \in 1..Targets : t < gimbal.at => pitch[t] = gimbal.of

\* Within the deadband.
Near(p, q) == p = q \/ Apart(p, q) < Deadband

\* Without a failed send all targets have the pitch the sink remembers, and
\* between two sends that is the pitch of the store, to within the deadband.
GimbalFollows ==
    /\ thread \in {"send", "sending"} => \A i \in DOMAIN states : states[i].pitch = command.pitch
    /\ (~faulty /\ thread # "sending" /\ lastPitch # Absent)
       => \A t \in 1..Targets : pitch[t] = lastPitch
    /\ (~faulty /\ thread \in {"tick", "handoff"} /\ sink = "gimbal")
       => \A i \in DOMAIN states : lastPitch # Absent /\ Near(lastPitch, states[i].pitch)

\* The inductive invariant of the camera pointing.
PointingSafe == ThreadsSound /\ StoreSound /\ VolumeSound /\ SendSound /\ GimbalFollows

\* It gives what the run checks.
LEMMA PointingSafeImplies == PointingSafe => PointingIsCoherent
<1> SUFFICES ASSUME PointingSafe PROVE PointingIsCoherent
    OBVIOUS
<1>1. PointingTypeOK
    BY DEF PointingSafe, ThreadsSound, StoreSound, OneCommand, OneEach, PointingTypeOK
<1>2. PointingIsOfOneCommand
    BY DEF PointingSafe, StoreSound, OneCommand, NamesOf, CameraNames, PointingIsOfOneCommand
<1>3. CoverageMatchesGimbal
    <2> SUFFICES ASSUME sink = "gimbal", ~faulty, thread = "tick", volume # Absent,
                        volumeOf = issued, volume.valid, NEW t \in 1..Targets
                 PROVE  /\ pitch[t] # Absent
                        /\ pitch[t] = volume.pitch \/ Apart(pitch[t], volume.pitch) < Deadband
        BY DEF CoverageMatchesGimbal
    <2>1. PICK i \in DOMAIN states : volume = states[i]
        BY DEF PointingSafe, VolumeSound
    <2>2. lastPitch # Absent /\ Near(lastPitch, states[i].pitch)
        BY <2>1 DEF PointingSafe, GimbalFollows
    <2>3. pitch[t] = lastPitch
        BY <2>2 DEF PointingSafe, GimbalFollows
    <2> QED BY <2>1, <2>2, <2>3 DEF Near
<1> QED BY <1>1, <1>2, <1>3 DEF PointingIsCoherent

\* The pitch of a command is clamped, or level.
LEMMA CommandIsClamped ==
    ASSUME phase \in {Ranks[i] : i \in DOMAIN Ranks}, NEW e \in Elevations, NEW m, NEW b \in BOOLEAN
    PROVE  CommandOf(e, m, b).pitch \in PitchMin..PitchMax \cup {0}
<1> DEFINE Good(c) == c.pitch \in PitchMin..PitchMax \cup {0}
<1>1. phase \in {"Prepare", "Takeoff", "ExecuteMission", "GoHome", "Land", "Complete"}
    BY DEF Ranks
<1>2. PitchTo(e) \in PitchMin..PitchMax
    <2>1. e \in Int /\ PitchMin \in Int /\ PitchMax \in Int /\ PitchOffset \in Int
          /\ PitchMin <= PitchMax /\ (PitchSign = -1 \/ PitchSign = 1)
        BY PointingAssumption DEF PointingAssumption
    <2>2. PitchSign * e + PitchOffset \in Int
        BY <2>1
    <2> QED BY <2>1, <2>2 DEF PitchTo, Clamp
<1>3. Good(None)
    BY DEF None
<1>4. ASSUME NEW n PROVE Good(neutral_camera_pointing_command(n))
    BY <1>3 DEF neutral_camera_pointing_command
<1>5. ASSUME NEW n PROVE Good(camera_pointing_command_to_point(e, n))
    BY <1>2, <1>3, <1>4 DEF camera_pointing_command_to_point
<1>6. Good(camera_pointing_command_for_behavior(e, m))
    BY <1>5 DEF camera_pointing_command_for_behavior
<1> HIDE DEF Good
<1>7. Good(CommandOf(e, m, b))
    BY <1>1, <1>3, <1>4, <1>5, <1>6 DEF CommandOf
<1> QED BY <1>7 DEF Good

\* The state a volume is placed by is one of the copied ones, or says that it is
\* not valid.
LEMMA FoundIsGiven ==
    ASSUME given \in Seq(PointingState), NEW config
    PROVE  LET found == find_pointing_state(config)
           IN  ~found.valid \/ \E i \in DOMAIN given : found = given[i]
<1> DEFINE match == {i \in DOMAIN given : given[i].name \in {config.id, config.name}}
           first == CHOOSE i \in match : \A j \in match : i <= j
           none == [name |-> config.name, pitch |-> 0, time |-> 0, valid |-> FALSE]
<1>1. find_pointing_state(config) =
          IF (IF match = {} THEN Absent ELSE given[first]) = Absent THEN none
          ELSE IF match = {} THEN Absent ELSE given[first]
    BY DEF find_pointing_state, FirstOf
<1>2. ~none.valid
    OBVIOUS
<1>3. match # {} => first \in DOMAIN given
    <2> SUFFICES ASSUME match # {} PROVE first \in match
        OBVIOUS
    <2>1. match \in SUBSET Nat
        OBVIOUS
    <2> HIDE DEF match
    <2> QED BY <2>1, LeastNat
<1> HIDE DEF match, first, none
<1> QED BY <1>1, <1>2, <1>3

\* It holds initially.
LEMMA PointingInitSafe ==
    SinksInit /\ sink \in {"null", "gimbal"} /\ PointingInit => PointingSafe
<1> SUFFICES ASSUME SinksInit, sink \in {"null", "gimbal"}, PointingInit PROVE PointingSafe
    OBVIOUS
<1> USE DEF PointingInit
<1>1. ThreadsSound
    BY DEF ThreadsSound, None, Ranks
<1>2. StoreSound
    <2>1. <<>> \in Seq(PointingState) /\ DOMAIN <<>> = {}
        OBVIOUS
    <2>2. OneCommand(<<>>, 0)
        BY <2>1 DEF OneCommand, OneEach
    <2> QED BY <2>2 DEF StoreSound
<1>3. VolumeSound
    BY DEF VolumeSound
<1>4. SendSound
    <2>1. Targets \in Nat \ {0}
        BY SinkAssumption DEF SinkAssumption
    <2>2. gimbal \in [of : Int \cup {Absent}, at : 0..Targets, result : GimbalResults]
        BY <2>1 DEF SinksInit, GimbalResults
    <2>3. gimbal.at = 0 /\ lastPitch = Absent /\ pitch \in [1..Targets -> Int \cup {Absent}]
        BY DEF SinksInit
    <2>4. sink \in {"null", "gimbal"} /\ faulty = FALSE /\ thread = "tick"
        OBVIOUS
    <2>5. faulty \in BOOLEAN /\ thread # "sending"
        BY <2>4
    <2>6. ~(gimbal.at > 0) /\ lastPitch \in Int \cup {Absent}
        BY <2>3
    <2> HIDE DEF PointingInit
    <2> QED BY <2>2, <2>3, <2>4, <2>5, <2>6 DEF SendSound
<1>5. GimbalFollows
    <2>1. DOMAIN states = {}
        OBVIOUS
    <2> QED BY <2>1 DEF SinksInit, GimbalFollows
<1> QED BY <1>1, <1>2, <1>3, <1>4, <1>5 DEF PointingSafe

\* A tick emits its command and leaves the store and the sink alone.
LEMMA EmitKeeps == PointingSafe /\ emit_camera_pointing => PointingSafe'
<1> SUFFICES ASSUME PointingSafe, emit_camera_pointing PROVE PointingSafe'
    OBVIOUS
<1>1. PICK e \in Elevations, m \in BehaviorModes, b \in BOOLEAN :
          /\ command' = CommandOf(e, m, b)
          /\ thread' = IF CommandOf(e, m, b) = None THEN "tick" ELSE "handoff"
    BY DEF emit_camera_pointing
<1>2. /\ thread = "tick" /\ thread' \in {"tick", "handoff"}
      /\ UNCHANGED <<stare, issued, states, faulty, loopVars, sinkVars>>
    BY <1>1 DEF emit_camera_pointing
<1>3. ThreadsSound'
    <2>1. command'.pitch \in PitchMin..PitchMax \cup {0}
        BY <1>1, CommandIsClamped DEF PointingSafe, ThreadsSound
    <2>2. phase' \in {Ranks[i] : i \in DOMAIN Ranks}
        BY DEF emit_camera_pointing
    <2> QED BY <1>2, <2>1, <2>2 DEF PointingSafe, ThreadsSound, loopVars
<1>4. StoreSound' /\ VolumeSound'
    BY <1>2 DEF PointingSafe, StoreSound, VolumeSound, loopVars
<1>5. SendSound' /\ GimbalFollows'
    BY <1>2 DEF PointingSafe, SendSound, GimbalFollows, sinkVars, flightVars, optionVars, gimbalVars
<1> QED BY <1>3, <1>4, <1>5 DEF PointingSafe

\* The handoff renews the whole store.
LEMMA HandoffKeeps == PointingSafe /\ camera_pointing_handoff => PointingSafe'
<1> SUFFICES ASSUME PointingSafe, camera_pointing_handoff PROVE PointingSafe'
    OBVIOUS
<1>1. /\ thread = "handoff" /\ thread' = "send" /\ issued' = issued + 1
      /\ states' = Apply(states, command, issued + 1)
      /\ UNCHANGED <<stare, phase, command, faulty, loopVars, sinkVars>>
    BY DEF camera_pointing_handoff
<1>2. /\ issued \in Nat /\ seen \in Nat /\ volumeOf \in Nat /\ volumeOf <= seen /\ seen <= issued
      /\ OneCommand(states, issued) /\ OneCommand(given, seen)
    BY DEF PointingSafe, StoreSound
<1>3. command.pitch \in Int
    BY PointingAssumption DEF PointingSafe, ThreadsSound, PointingAssumption
<1>4. /\ states' \in Seq(PointingState) /\ OneEach(states') /\ NamesOf(states') = CameraNames
      /\ \A i \in DOMAIN states' : states'[i].pitch = command.pitch /\ states'[i].time = issued + 1
    <2>1. states \in Seq(PointingState) /\ OneEach(states) /\ issued + 1 \in Nat
        BY <1>2 DEF OneCommand
    <2> QED BY <1>1, <1>3, <2>1, ApplyRenews
<1>5. ThreadsSound'
    BY <1>1 DEF PointingSafe, ThreadsSound, loopVars
<1>6. StoreSound'
    <2>1. OneCommand(states, issued)'
        BY <1>1, <1>4 DEF OneCommand
    <2>2. OneCommand(given, seen)' /\ seen' = seen /\ volumeOf' = volumeOf
        BY <1>1, <1>2 DEF loopVars
    <2>3. issued' \in Nat /\ seen' <= issued' /\ seen' # issued' /\ volumeOf' <= seen'
        BY <1>1, <1>2, <2>2
    <2> QED BY <1>2, <2>1, <2>2, <2>3 DEF StoreSound
<1>7. VolumeSound'
    <2>1. volumeOf' # issued'
        BY <1>1, <1>2 DEF loopVars
    <2> QED BY <2>1 DEF VolumeSound
<1>8. SendSound'
    BY <1>1 DEF PointingSafe, SendSound, sinkVars, flightVars, optionVars, gimbalVars
<1>9. GimbalFollows'
    BY <1>1, <1>4 DEF PointingSafe, GimbalFollows, sinkVars, flightVars, optionVars, gimbalVars
<1> QED BY <1>5, <1>6, <1>7, <1>8, <1>9 DEF PointingSafe

\* The steps of the mission thread at the sink.
SinkSteps == null_send \/ sink_send \/ sink_sendto \/ sink_throws

\* They change neither the store nor the frame loop's copy.
LEMMA SinkStepsKeepStore ==
    PointingSafe /\ SinkSteps => ThreadsSound' /\ StoreSound' /\ VolumeSound'
<1> SUFFICES ASSUME PointingSafe, SinkSteps PROVE ThreadsSound' /\ StoreSound' /\ VolumeSound'
    OBVIOUS
<1>1. UNCHANGED <<phase, command, issued, states, loopVars>>
      /\ thread' \in {"tick", "handoff", "send", "sending"}
    BY DEF SinkSteps, null_send, sink_send, sink_sendto, sink_throws
<1> QED BY <1>1 DEF PointingSafe, ThreadsSound, StoreSound, VolumeSound, loopVars

\* The deadband is symmetric.
LEMMA NearFromApart ==
    ASSUME NEW p \in Int, NEW q \in Int, ~(Apart(p, q) >= Deadband)
    PROVE  Near(q, p)
<1>1. Deadband \in Nat
    BY SinkAssumption DEF SinkAssumption
<1> QED BY <1>1 DEF Near, Apart

\* A command is suppressed only when the targets are near it.
LEMMA SinkSendKeeps == PointingSafe /\ sink_send => SendSound' /\ GimbalFollows'
<1> SUFFICES ASSUME PointingSafe, sink_send PROVE SendSound' /\ GimbalFollows'
    OBVIOUS
<1>1. /\ thread = "send" /\ sink = "gimbal" /\ gimbal.at = 0
      /\ gimbal' = IF should_send(command.pitch)
                   THEN [of |-> command.pitch, at |-> 1, result |-> "sending"]
                   ELSE [of |-> command.pitch, at |-> 0, result |-> "suppressed"]
      /\ thread' = IF gimbal'.at = 0 THEN "tick" ELSE "sending"
      /\ UNCHANGED <<command, states, faulty, sink, pitch, lastPitch>>
    BY DEF sink_send, gimbal_send, flightVars, optionVars
<1>2. Targets \in Nat \ {0} /\ command.pitch \in Int
    BY SinkAssumption, PointingAssumption
       DEF PointingSafe, ThreadsSound, PointingAssumption, SinkAssumption
<1>3. CASE should_send(command.pitch)
    <2>1. /\ gimbal' = [of |-> command.pitch, at |-> 1, result |-> "sending"]
          /\ thread' = "sending"
        BY <1>1, <1>3
    <2>2. SendSound'
        BY <1>1, <1>2, <2>1 DEF PointingSafe, SendSound, GimbalResults
    <2>3. GimbalFollows'
        BY <1>1, <2>1 DEF PointingSafe, GimbalFollows
    <2> QED BY <2>2, <2>3
<1>4. CASE ~should_send(command.pitch)
    <2>1. /\ gimbal' = [of |-> command.pitch, at |-> 0, result |-> "suppressed"]
          /\ thread' = "tick"
        BY <1>1, <1>4
    <2>2. SendSound'
        BY <1>1, <1>2, <2>1 DEF PointingSafe, SendSound, GimbalResults
    <2>3. lastPitch # Absent /\ ~(Apart(command.pitch, lastPitch) >= Deadband)
        BY <1>4 DEF should_send
    <2>4. Near(lastPitch, command.pitch)
        <3>1. lastPitch \in Int
            BY <2>3 DEF PointingSafe, SendSound
        <3> QED BY <1>2, <2>3, <3>1, NearFromApart
    <2>5. GimbalFollows'
        BY <1>1, <2>1, <2>3, <2>4 DEF PointingSafe, GimbalFollows
    <2> QED BY <2>2, <2>5
<1> QED BY <1>3, <1>4

\* After the last target all of them have the pitch of the command.
LEMMA SinkSendtoKeeps == PointingSafe /\ sink_sendto => SendSound' /\ GimbalFollows'
<1> SUFFICES ASSUME PointingSafe, sink_sendto PROVE SendSound' /\ GimbalFollows'
    OBVIOUS
<1>1. /\ thread = "sending" /\ gimbal.at > 0
      /\ pitch' = [pitch EXCEPT ![gimbal.at] = gimbal.of]
      /\ thread' = IF gimbal'.at = 0 THEN "tick" ELSE "sending"
      /\ faulty' = (faulty /\ gimbal'.at # 0)
      /\ UNCHANGED <<command, states, sink>>
    BY DEF sink_sendto, gimbal_sendto, flightVars, optionVars
<1>2. Targets \in Nat \ {0} /\ command.pitch \in Int
    BY SinkAssumption, PointingAssumption
       DEF PointingSafe, ThreadsSound, PointingAssumption, SinkAssumption
<1>3. /\ sink = "gimbal" /\ gimbal.of = command.pitch /\ gimbal.at \in 1..Targets
      /\ \A t \in 1..Targets : t < gimbal.at => pitch[t] = gimbal.of
      /\ gimbal \in [of : Int \cup {Absent}, at : 0..Targets, result : GimbalResults]
      /\ pitch \in [1..Targets -> Int \cup {Absent}]
      /\ faulty \in BOOLEAN
    BY <1>1, <1>2 DEF PointingSafe, SendSound
<1>4. /\ pitch' \in [1..Targets -> Int \cup {Absent}]
      /\ pitch'[gimbal.at] = command.pitch
      /\ \A t \in 1..Targets : t # gimbal.at => pitch'[t] = pitch[t]
    BY <1>1, <1>2, <1>3
<1>5. \A t \in 1..Targets : t <= gimbal.at => pitch'[t] = command.pitch
    BY <1>2, <1>3, <1>4
<1>6. CASE gimbal.at < Targets
    <2>1. /\ gimbal' = [gimbal EXCEPT !.at = @ + 1] /\ lastPitch' = lastPitch
        BY <1>6 DEF sink_sendto, gimbal_sendto
    <2>2. /\ gimbal'.of = command.pitch /\ gimbal'.at = gimbal.at + 1 /\ gimbal'.at \in 0..Targets
          /\ gimbal'.at # 0
          /\ gimbal' \in [of : Int \cup {Absent}, at : 0..Targets, result : GimbalResults]
        BY <1>2, <1>3, <1>6, <2>1
    <2>3. thread' = "sending"
        BY <1>1, <2>2
    <2>4. \A t \in 1..Targets : t < gimbal'.at => pitch'[t] = gimbal'.of
        BY <1>2, <1>3, <1>5, <2>2
    <2>5. SendSound'
        <3>1. faulty' \in BOOLEAN /\ sink' = "gimbal" /\ lastPitch' \in Int \cup {Absent}
            BY <1>1, <1>3, <2>1 DEF PointingSafe, SendSound
        <3>2. command' = command /\ gimbal'.at > 0
            BY <1>1, <2>2
        <3> QED BY <1>4, <2>2, <2>3, <2>4, <3>1, <3>2 DEF SendSound
    <2>6. GimbalFollows'
        BY <1>1, <2>3 DEF PointingSafe, GimbalFollows
    <2> QED BY <2>5, <2>6
<1>7. CASE ~(gimbal.at < Targets)
    <2>1. gimbal' = [gimbal EXCEPT !.at = 0, !.result = "ok"] /\ lastPitch' = gimbal.of
        BY <1>7 DEF sink_sendto, gimbal_sendto
    <2>2. /\ gimbal'.at = 0
          /\ gimbal' \in [of : Int \cup {Absent}, at : 0..Targets, result : GimbalResults]
        <3>1. gimbal' = [of |-> gimbal.of, at |-> 0, result |-> "ok"]
            BY <1>3, <2>1
        <3>2. gimbal.of \in Int \cup {Absent} /\ 0 \in 0..Targets
            BY <1>2, <1>3
        <3> QED BY <3>1, <3>2 DEF GimbalResults
    <2>3. thread' = "tick" /\ lastPitch' = command.pitch /\ lastPitch' # Absent
        BY <1>1, <1>2, <1>3, <2>1, <2>2, SinkAssumption DEF SinkAssumption
    <2>4. \A t \in 1..Targets : pitch'[t] = lastPitch'
        BY <1>2, <1>3, <1>5, <1>7, <2>3
    <2>5. SendSound'
        <3>1. faulty' \in BOOLEAN /\ sink' = "gimbal" /\ lastPitch' \in Int \cup {Absent}
            BY <1>1, <1>2, <1>3, <2>3
        <3>2. ~(gimbal'.at > 0)
            BY <2>2
        <3> QED BY <1>4, <2>2, <2>3, <3>1, <3>2 DEF SendSound
    <2>6. \A i \in DOMAIN states : states[i].pitch = command.pitch
        BY <1>1 DEF PointingSafe, GimbalFollows
    <2>7. GimbalFollows'
        BY <1>1, <2>3, <2>4, <2>6 DEF GimbalFollows, Near
    <2> QED BY <2>5, <2>7
<1> QED BY <1>6, <1>7

\* After a failed send nothing is claimed of the targets.
LEMMA SinkThrowsKeeps == PointingSafe /\ sink_throws => SendSound' /\ GimbalFollows'
<1> SUFFICES ASSUME PointingSafe, sink_throws PROVE SendSound' /\ GimbalFollows'
    OBVIOUS
<1>1. /\ thread' = "tick" /\ faulty' = TRUE /\ gimbal' = [gimbal EXCEPT !.at = 0, !.result = "thrown"]
      /\ UNCHANGED <<command, states, sink, pitch, lastPitch>>
    BY DEF sink_throws, gimbal_throws, flightVars, optionVars
<1>2. gimbal \in [of : Int \cup {Absent}, at : 0..Targets, result : GimbalResults] /\ Targets \in Nat
    BY SinkAssumption DEF PointingSafe, SendSound, SinkAssumption
<1>3. /\ gimbal'.at = 0
      /\ gimbal' \in [of : Int \cup {Absent}, at : 0..Targets, result : GimbalResults]
    <2>1. gimbal' = [of |-> gimbal.of, at |-> 0, result |-> "thrown"]
        BY <1>1, <1>2
    <2>2. gimbal.of \in Int \cup {Absent} /\ 0 \in 0..Targets
        BY <1>2
    <2> QED BY <2>1, <2>2 DEF GimbalResults
<1>4. SendSound'
    BY <1>1, <1>3 DEF PointingSafe, SendSound
<1>5. GimbalFollows'
    BY <1>1 DEF GimbalFollows
<1> QED BY <1>4, <1>5

\* The null sink turns nothing, and nothing is claimed of it.
LEMMA NullSendKeeps == PointingSafe /\ null_send => SendSound' /\ GimbalFollows'
BY DEF PointingSafe, null_send, SendSound, GimbalFollows, sinkVars, flightVars, optionVars, gimbalVars

\* The frame loop copies the store, or places a volume by its copy.
LEMMA LoopKeeps ==
    PointingSafe /\ (update_camera_pointing_states \/ volume_for_frame) => PointingSafe'
<1> SUFFICES ASSUME PointingSafe, update_camera_pointing_states \/ volume_for_frame
             PROVE  PointingSafe'
    OBVIOUS
<1>1. UNCHANGED <<missionVars, sinkVars>> /\ loop' \in {"copy", "frame"}
    BY DEF update_camera_pointing_states, volume_for_frame
<1>2. ThreadsSound' /\ SendSound' /\ GimbalFollows'
    BY <1>1 DEF PointingSafe, ThreadsSound, SendSound, GimbalFollows, missionVars, sinkVars,
                flightVars, optionVars, gimbalVars
<1>3. CASE update_camera_pointing_states
    <2>1. /\ given' = states /\ seen' = issued /\ UNCHANGED <<issued, states, volume, volumeOf>>
        BY <1>3 DEF update_camera_pointing_states, missionVars
    <2>2. issued \in Nat /\ volumeOf \in Nat /\ seen \in Nat /\ volumeOf <= seen /\ seen <= issued
        BY DEF PointingSafe, StoreSound
    <2>3. volumeOf <= issued
        BY <2>2
    <2>4. StoreSound'
        BY <2>1, <2>2, <2>3 DEF PointingSafe, StoreSound
    <2>5. VolumeSound'
        BY <2>1 DEF PointingSafe, VolumeSound
    <2> QED BY <1>2, <2>4, <2>5 DEF PointingSafe
<1>4. CASE volume_for_frame
    <2>1. volumeOf' = seen /\ UNCHANGED <<issued, states, given, seen>>
        BY <1>4 DEF volume_for_frame, missionVars
    <2>2. PICK camera \in FrameCameras :
              volume' = find_pointing_state(find_config_or_default(camera))
        BY <1>4 DEF volume_for_frame
    <2>3. ~volume'.valid \/ \E i \in DOMAIN given : volume' = given[i]
        BY <2>2, FoundIsGiven DEF PointingSafe, StoreSound, OneCommand
    <2>4. StoreSound'
        BY <2>1 DEF PointingSafe, StoreSound
    <2>5. VolumeSound'
        BY <2>1, <2>3 DEF PointingSafe, StoreSound, VolumeSound
    <2> QED BY <1>2, <2>4, <2>5 DEF PointingSafe
<1> QED BY <1>3, <1>4

\* PointingSafe is inductive.
LEMMA PointingSafeStep ==
    PointingSafe /\ [PointingNext]_<<pointingVars, sinkVars>> => PointingSafe'
<1> SUFFICES ASSUME PointingSafe, [PointingNext]_<<pointingVars, sinkVars>> PROVE PointingSafe'
    OBVIOUS
<1>1. ASSUME SinkSteps PROVE PointingSafe'
    <2>1. SendSound' /\ GimbalFollows'
        BY <1>1, NullSendKeeps, SinkSendKeeps, SinkSendtoKeeps, SinkThrowsKeeps DEF SinkSteps
    <2> QED BY <1>1, <2>1, SinkStepsKeepStore DEF PointingSafe
<1>2. ASSUME UNCHANGED <<missionVars, loopVars, sink, pitch, lastPitch, gimbal>> PROVE PointingSafe'
    BY <1>2 DEF PointingSafe, ThreadsSound, StoreSound, VolumeSound, SendSound, GimbalFollows,
                missionVars, loopVars
<1>3. ASSUME time_passes, UNCHANGED pointingVars PROVE PointingSafe'
    BY <1>2, <1>3 DEF time_passes, pointingVars, flightVars, optionVars
<1>4. ASSUME UNCHANGED <<pointingVars, sinkVars>> PROVE PointingSafe'
    BY <1>2, <1>4 DEF pointingVars, sinkVars, flightVars, optionVars, gimbalVars
<1> QED BY <1>1, <1>3, <1>4, EmitKeeps, HandoffKeeps, LoopKeeps DEF PointingNext, SinkSteps

\* For any cameras, limits, deadband and number of gimbal targets: the frame loop
\* never places cameras by a mixture of two commands, a camera has one state, and
\* once the newest command is taken up and its send is over, the sensing volume is
\* where every target was told to look, to within the deadband, unless a send failed.
THEOREM PointingStaysCoherent == PointingSpec => []PointingIsCoherent
BY PointingInitSafe, PointingSafeStep, PointingSafeImplies, PTL DEF PointingSpec

-----------------------------------------------------------------------------
\* What a browser makes of the units of an event.

AnyUnit == EventKinds \X Nat \X {"data", ""}

\* The parser after the first j units of an event.
Reached(kind, j) == SubSeq(make_sse_frame(kind), 1, j)

\* A parser that j units of an event have taken there, or that is ready for the
\* first unit when j is at an end of the event.
From(kind, j, p) == p = Reached(kind, j) \/ (j \in {0, Size[kind]} /\ Idle(p))

\* A unit has a kind, a place and a field.
LEMMA UnitType ==
    ASSUME NEW kind \in EventKinds, NEW i \in Nat
    PROVE  Unit(kind, i) \in AnyUnit /\ Unit(kind, i)[1] = kind
<1> DEFINE field == IF i <= FirstLine[kind] THEN "data" ELSE ""
<1>1. field \in {"data", ""}
    OBVIOUS
<1>2. Unit(kind, i) = <<kind, i, field>>
    BY DEF Unit
<1> HIDE DEF field
<1>3. <<kind, i, field>> \in AnyUnit
    BY <1>1 DEF AnyUnit
<1> QED BY <1>2, <1>3

\* An event has as many units as its size says, numbered from 1.
LEMMA UnitsFacts ==
    ASSUME NEW kind \in EventKinds
    PROVE  /\ Size[kind] \in Nat \ {0} /\ Len(make_sse_frame(kind)) = Size[kind]
           /\ make_sse_frame(kind) \in Seq(AnyUnit)
           /\ \A i \in 1..Size[kind] : make_sse_frame(kind)[i] = Unit(kind, i)
<1>1. Size[kind] \in Nat \ {0}
    BY ViewerAssumption DEF ViewerAssumption
<1>2. \A i \in 1..Size[kind] : Unit(kind, i) \in AnyUnit
    BY <1>1, UnitType
<1>3. make_sse_frame(kind) \in [1..Size[kind] -> AnyUnit]
    BY <1>2 DEF make_sse_frame
<1> QED BY <1>1, <1>3 DEF make_sse_frame

\* The beginning and the rest of an event.
LEMMA PartsFacts ==
    ASSUME NEW kind \in EventKinds, NEW j \in 0..Size[kind]
    PROVE  /\ SubSeq(make_sse_frame(kind), 1, j) \in Seq(AnyUnit) /\ Len(SubSeq(make_sse_frame(kind), 1, j)) = j
           /\ \A i \in 1..j : SubSeq(make_sse_frame(kind), 1, j)[i] = Unit(kind, i)
           /\ SubSeq(make_sse_frame(kind), j + 1, Size[kind]) \in Seq(AnyUnit)
           /\ Len(SubSeq(make_sse_frame(kind), j + 1, Size[kind])) = Size[kind] - j
           /\ \A i \in 1..(Size[kind] - j) : SubSeq(make_sse_frame(kind), j + 1, Size[kind])[i] = Unit(kind, j + i)
<1> DEFINE U == make_sse_frame(kind)  n == Size[kind]
<1>1. U \in Seq(AnyUnit) /\ Len(U) = n /\ n \in Nat \ {0} /\ \A i \in 1..n : U[i] = Unit(kind, i)
    BY UnitsFacts
<1>2. j \in 0..n
    OBVIOUS
<1> HIDE DEF U, n
<1>3. SubSeq(U, 1, j) \in Seq(AnyUnit) /\ Len(SubSeq(U, 1, j)) = j
    BY <1>1, <1>2
<1>4. \A i \in 1..j : SubSeq(U, 1, j)[i] = Unit(kind, i)
    <2> TAKE i \in 1..j
    <2>1. SubSeq(U, 1, j)[i] = U[i] /\ i \in 1..n
        BY <1>1, <1>2
    <2> QED BY <1>1, <2>1
<1>5. SubSeq(U, j + 1, n) \in Seq(AnyUnit) /\ Len(SubSeq(U, j + 1, n)) = n - j
    BY <1>1, <1>2
<1>6. \A i \in 1..(n - j) : SubSeq(U, j + 1, n)[i] = Unit(kind, j + i)
    <2> TAKE i \in 1..(n - j)
    <2>1. SubSeq(U, j + 1, n)[i] = U[j + i] /\ j + i \in 1..n
        BY <1>1, <1>2
    <2> QED BY <1>1, <2>1
<1> QED BY <1>3, <1>4, <1>5, <1>6 DEF U, n

\* Units of two events are told apart by their kind and their place.
LEMMA UnitFacts ==
    ASSUME NEW kind, NEW k, NEW i, NEW j, Unit(kind, i) = Unit(k, j)
    PROVE  kind = k /\ i = j
BY DEF Unit

\* A parser in the course of an event is not torn.
LEMMA ReachedIsWhole ==
    ASSUME NEW kind \in EventKinds, NEW j \in 0..Size[kind]
    PROVE  Reached(kind, j) # Torn /\ Reached(kind, j) \in Seq(AnyUnit)
<1>1. Reached(kind, j) # Torn
    <2> SUFFICES ASSUME Reached(kind, j) = Torn PROVE FALSE
        OBVIOUS
    <2>1. Len(Torn) = 1 /\ Torn[1] = <<"torn", 0, "">>
        BY DEF Torn
    <2>2. Len(Reached(kind, j)) = j /\ \A i \in 1..j : Reached(kind, j)[i] = Unit(kind, i)
        BY PartsFacts DEF Reached
    <2>3. j = 1 /\ Reached(kind, j)[1] = Unit(kind, 1)
        <3>1. j = 1
            BY <2>1, <2>2
        <3>2. 1 \in 1..j
            BY <3>1
        <3> QED BY <2>2, <3>1, <3>2
    <2>4. Unit(kind, 1) = <<"torn", 0, "">>
        BY <2>1, <2>3
    <2> QED BY <2>4 DEF Unit
<1> QED BY <1>1, PartsFacts DEF Reached

\* All units of an event are the event.
LEMMA AllReached ==
    ASSUME NEW kind \in EventKinds
    PROVE  /\ Reached(kind, Size[kind]) = make_sse_frame(kind)
           /\ Reached(kind, 0) = <<>> /\ Complete(Reached(kind, Size[kind]))
<1>1. make_sse_frame(kind) \in Seq(AnyUnit) /\ Len(make_sse_frame(kind)) = Size[kind] /\ Size[kind] \in Nat
    BY UnitsFacts
<1>2. Reached(kind, Size[kind]) = make_sse_frame(kind)
    <2> DEFINE U == make_sse_frame(kind)  n == Size[kind]
    <2>1. U \in Seq(AnyUnit) /\ Len(U) = n /\ n \in Nat
        BY <1>1
    <2> HIDE DEF U, n
    <2>2. SubSeq(U, 1, n) \in Seq(AnyUnit) /\ Len(SubSeq(U, 1, n)) = n
          /\ \A i \in 1..n : SubSeq(U, 1, n)[i] = U[i]
        BY <2>1
    <2>3. SubSeq(U, 1, n) = U
        BY <2>1, <2>2, SeqEqual
    <2> QED BY <2>3 DEF Reached, U, n
<1>3. Reached(kind, 0) = <<>>
    BY <1>1, SubSeqEmpty DEF Reached
<1> QED BY <1>2, <1>3 DEF Complete

\* A parser between the ends of an event has not completed one.
LEMMA MidEvent ==
    ASSUME NEW kind \in EventKinds, NEW j \in 1..Size[kind], j # Size[kind]
    PROVE  ~Idle(Reached(kind, j))
<1>1. Size[kind] \in Nat \ {0} /\ j \in 0..Size[kind] /\ 1 \in 1..j
    BY UnitsFacts
<1>2. Len(Reached(kind, j)) = j /\ Reached(kind, j)[1] = Unit(kind, 1)
    BY <1>1, PartsFacts DEF Reached
<1>3. Reached(kind, j) # Fresh
    BY <1>1, <1>2 DEF Fresh
<1>4. ASSUME NEW k \in EventKinds, Reached(kind, j) = make_sse_frame(k) PROVE FALSE
    <2>1. Len(make_sse_frame(k)) = Size[k] /\ make_sse_frame(k)[1] = Unit(k, 1)
        <3>1. Size[k] \in Nat \ {0}
            BY UnitsFacts
        <3>2. 1 \in 1..Size[k]
            BY <3>1
        <3> QED BY <3>2, UnitsFacts
    <2>2. Unit(kind, 1) = Unit(k, 1) /\ j = Size[k]
        BY <1>2, <1>4, <2>1
    <2>3. kind = k
        BY <2>2, UnitFacts
    <2> QED BY <2>2, <2>3
<1> QED BY <1>3, <1>4 DEF Idle, Complete

\* What a parser has is no torn event.
LEMMA FromIsWhole ==
    ASSUME NEW kind \in EventKinds, NEW j \in 0..Size[kind], NEW p, From(kind, j, p)
    PROVE  p # Torn /\ p \in Seq(AnyUnit)
<1>1. CASE p = Reached(kind, j)
    BY <1>1, ReachedIsWhole
<1>2. CASE p = Fresh
    <2>1. Len(Fresh) = 0 /\ Len(Torn) = 1 /\ Fresh \in Seq(AnyUnit)
        BY DEF Fresh, Torn
    <2> QED BY <1>2, <2>1
<1>3. CASE Complete(p)
    <2>1. PICK k \in EventKinds : p = make_sse_frame(k)
        BY <1>3 DEF Complete
    <2>2. Size[k] \in 0..Size[k]
        BY UnitsFacts
    <2>3. p = Reached(k, Size[k])
        BY <2>1, AllReached
    <2> QED BY <2>2, <2>3, ReachedIsWhole
<1> QED BY <1>1, <1>2, <1>3 DEF From, Idle

\* At the end of an event the parser is ready for any other.
LEMMA EndIsBeginning ==
    ASSUME NEW kind \in EventKinds, NEW next \in EventKinds, NEW p, From(kind, Size[kind], p)
    PROVE  From(next, 0, p) /\ Idle(p)
BY AllReached DEF From, Idle

\* One more unit of the event takes it one further.
LEMMA ParseContinues ==
    ASSUME NEW kind \in EventKinds, NEW j \in Nat, j < Size[kind], NEW p, From(kind, j, p)
    PROVE  From(kind, j + 1, Parse(p, Unit(kind, j + 1)))
<1> DEFINE here == SubSeq(make_sse_frame(kind), 1, j)
           there == SubSeq(make_sse_frame(kind), 1, j + 1)
           unit == Unit(kind, j + 1)
           so_far == IF Idle(p) THEN <<>> ELSE p
<1>1. Size[kind] \in Nat \ {0}
    BY UnitsFacts
<1>2. j \in 0..Size[kind] /\ j + 1 \in 0..Size[kind] /\ j # Size[kind]
    BY <1>1
<1>3. here \in Seq(AnyUnit) /\ Len(here) = j /\ \A i \in 1..j : here[i] = Unit(kind, i)
    BY <1>2, PartsFacts
<1>4. there \in Seq(AnyUnit) /\ Len(there) = j + 1 /\ \A i \in 1..(j + 1) : there[i] = Unit(kind, i)
    BY <1>2, PartsFacts
<1>5. so_far = here
    <2>1. CASE j = 0
        <3>1. here = <<>>
            BY <2>1, AllReached DEF Reached
        <3>2. Idle(p)
            BY <2>1, AllReached DEF From, Idle, Fresh
        <3> QED BY <3>1, <3>2
    <2>2. CASE j # 0
        <3>1. j \in 1..Size[kind] /\ p = Reached(kind, j)
            BY <1>1, <1>2, <2>2 DEF From
        <3>2. ~Idle(p)
            BY <1>2, <3>1, MidEvent
        <3> QED BY <3>1, <3>2 DEF Reached
    <2> QED BY <2>1, <2>2
<1>6. unit[1] = kind /\ unit \in AnyUnit
    BY UnitType
<1>7. Append(here, unit) = there
    <2> HIDE DEF here, there, unit
    <2>1. Append(here, unit) \in Seq(AnyUnit) /\ Len(Append(here, unit)) = j + 1
        BY <1>3, <1>6
    <2>2. \A i \in 1..(j + 1) : Append(here, unit)[i] = there[i]
        <3> TAKE i \in 1..(j + 1)
        <3>1. CASE i \in 1..j
            <4>1. Append(here, unit)[i] = here[i]
                BY <1>3, <1>6, <3>1
            <4> QED BY <1>3, <1>4, <3>1, <4>1
        <3>2. CASE i = j + 1
            <4>1. Append(here, unit)[i] = unit
                BY <1>3, <1>6, <3>2
            <4>2. there[i] = Unit(kind, j + 1)
                BY <1>4, <3>2
            <4> QED BY <4>1, <4>2 DEF unit
        <3>3. i \in 1..j \/ i = j + 1
            OBVIOUS
        <3> QED BY <3>1, <3>2, <3>3, Zenon
    <2> QED BY <1>4, <2>1, <2>2, SeqEqual
<1>8. Parse(p, unit) = there
    <2>1. Append(so_far, unit) = there
        BY <1>5, <1>7
    <2>2. SubSeq(make_sse_frame(unit[1]), 1, Len(so_far) + 1) = there
        BY <1>3, <1>5, <1>6
    <2>3. Parse(p, unit) = IF Append(so_far, unit) = SubSeq(make_sse_frame(unit[1]), 1, Len(so_far) + 1)
                           THEN Append(so_far, unit) ELSE Torn
        BY DEF Parse
    <2> HIDE DEF so_far, there, unit
    <2> QED BY <2>1, <2>2, <2>3
<1> QED BY <1>8 DEF From, Reached

\* The parser after each of the first n units.
ParsesUpTo(g, n, parser, units) ==
    g = [k \in 0..n |-> IF k = 0 THEN parser ELSE Parse(g[k - 1], units[k])]

\* They exist for every n.
LEMMA ParsesExist ==
    ASSUME NEW parser, NEW units
    PROVE  \A n \in Nat : \E g : ParsesUpTo(g, n, parser, units)
<1> DEFINE S == {n \in Nat : \E g : ParsesUpTo(g, n, parser, units)}
<1>1. 0 \in S
    <2> DEFINE g == [k \in 0..0 |-> parser]
    <2>1. ParsesUpTo(g, 0, parser, units)
        BY DEF ParsesUpTo
    <2> QED BY <2>1
<1>2. ASSUME NEW n \in Nat, n \in S PROVE n + 1 \in S
    <2>1. PICK g : ParsesUpTo(g, n, parser, units)
        BY <1>2
    <2> DEFINE h == [k \in 0..(n + 1) |-> IF k <= n THEN g[k] ELSE Parse(g[n], units[n + 1])]
    <2>2. \A k \in 0..n : g[k] = IF k = 0 THEN parser ELSE Parse(g[k - 1], units[k])
        BY <2>1 DEF ParsesUpTo
    <2>3. \A k \in 0..n : h[k] = g[k]
        OBVIOUS
    <2>4. h[n + 1] = Parse(g[n], units[n + 1])
        OBVIOUS
    <2>5. h = [k \in 0..(n + 1) |-> h[k]]
        OBVIOUS
    <2> HIDE DEF h
    <2>6. ASSUME NEW k \in 0..(n + 1)
          PROVE  h[k] = IF k = 0 THEN parser ELSE Parse(h[k - 1], units[k])
        <3>1. CASE k = 0
            BY <2>2, <2>3, <3>1
        <3>2. CASE k \in 1..n
            <4>1. k \in 0..n /\ k - 1 \in 0..n /\ k # 0
                BY <3>2
            <4>2. h[k] = g[k] /\ h[k - 1] = g[k - 1]
                BY <2>3, <4>1
            <4>3. g[k] = Parse(g[k - 1], units[k])
                BY <2>2, <4>1
            <4> QED BY <4>1, <4>2, <4>3
        <3>3. CASE k = n + 1
            <4>1. k # 0 /\ k - 1 = n /\ n \in 0..n
                BY <3>3
            <4>2. h[k - 1] = g[n]
                BY <2>3, <4>1
            <4> QED BY <2>4, <3>3, <4>1, <4>2
        <3> QED BY <3>1, <3>2, <3>3
    <2>7. ParsesUpTo(h, n + 1, parser, units)
        BY <2>5, <2>6 DEF ParsesUpTo
    <2> QED BY <2>7
<1> HIDE DEF S
<1>3. \A n \in Nat : n \in S
    BY <1>1, <1>2, AllNats
<1> QED BY <1>3 DEF S

\* Units that go on with an event, n of them, and, once it is complete, m units
\* of another.
Continues(units, kind, j, n, next, m) ==
    /\ Len(units) = n + m
    /\ \A i \in 1..n : units[i] = Unit(kind, j + i)
    /\ \A i \in 1..m : units[n + i] = Unit(next, i)

\* The parser follows them.
LEMMA ParsedFollows ==
    ASSUME NEW kind \in EventKinds, NEW next \in EventKinds, NEW j \in Nat, NEW n \in Nat, NEW m \in Nat,
           j + n <= Size[kind], m <= Size[next], m = 0 \/ j + n = Size[kind],
           NEW units, Continues(units, kind, j, n, next, m), NEW p, From(kind, j, p)
    PROVE  IF m = 0 THEN From(kind, j + n, Parsed(p, units)) ELSE From(next, m, Parsed(p, units))
<1> DEFINE g == CHOOSE f : ParsesUpTo(f, Len(units), p, units)
           At(i) == IF i <= n THEN From(kind, j + i, g[i]) ELSE From(next, i - n, g[i])
           S == {i \in Nat : i <= n + m => At(i)}
<1>1. Size[kind] \in Nat \ {0} /\ Size[next] \in Nat \ {0} /\ Len(units) = n + m /\ n + m \in Nat
    BY UnitsFacts DEF Continues
<1>2. ParsesUpTo(g, Len(units), p, units)
    BY <1>1, ParsesExist
<1>3. Parsed(p, units) = g[Len(units)]
    BY DEF Parsed, ParsesUpTo
<1> HIDE DEF g
<1>4. \A k \in 0..(n + m) : g[k] = IF k = 0 THEN p ELSE Parse(g[k - 1], units[k])
    BY <1>1, <1>2 DEF ParsesUpTo
<1>5. 0 \in S
    <2>1. g[0] = p /\ j + 0 = j /\ 0 <= n
        BY <1>1, <1>4
    <2> QED BY <2>1
<1>6. ASSUME NEW i \in Nat, i \in S PROVE i + 1 \in S
    <2> SUFFICES ASSUME i + 1 <= n + m PROVE At(i + 1)
        OBVIOUS
    <2>1. At(i)
        <3>1. i <= n + m
            BY <1>1
        <3> QED BY <1>6, <3>1
    <2>2. g[i + 1] = Parse(g[i], units[i + 1])
        <3>1. i + 1 \in 0..(n + m) /\ i + 1 # 0 /\ (i + 1) - 1 = i
            BY <1>1
        <3> QED BY <1>4, <3>1
    <2> HIDE DEF S
    <2>3. CASE i + 1 <= n
        <3>1. i <= n /\ i + 1 \in 1..n /\ j + i \in Nat /\ j + i < Size[kind] /\ j + (i + 1) = (j + i) + 1
            BY <1>1, <2>3
        <3>2. units[i + 1] = Unit(kind, (j + i) + 1)
            BY <3>1 DEF Continues
        <3>3. From(kind, j + i, g[i])
            BY <2>1, <3>1
        <3>4. From(kind, (j + i) + 1, Parse(g[i], Unit(kind, (j + i) + 1)))
            BY <3>1, <3>3, ParseContinues
        <3>5. From(kind, j + (i + 1), g[i + 1])
            BY <2>2, <3>1, <3>2, <3>4
        <3> QED BY <2>3, <3>5
    <2>4. CASE i + 1 > n
        <3>1. /\ i - n \in Nat /\ i - n < Size[next] /\ (i + 1) - n = (i - n) + 1
              /\ (i - n) + 1 \in 1..m /\ n + ((i - n) + 1) = i + 1 /\ m # 0
            BY <1>1, <2>4
        <3>2. units[i + 1] = Unit(next, (i - n) + 1)
            BY <3>1 DEF Continues
        <3>3. From(next, i - n, g[i])
            <4>1. CASE i = n
                <5>1. j + n = Size[kind] /\ i - n = 0
                    BY <1>1, <3>1, <4>1
                <5>2. From(kind, Size[kind], g[i])
                    BY <2>1, <4>1, <5>1
                <5>3. From(next, 0, g[i])
                    BY <5>2, EndIsBeginning
                <5> QED BY <5>1, <5>3
            <4>2. CASE i # n
                <5>1. ~(i <= n)
                    BY <2>4, <4>2
                <5> QED BY <2>1, <5>1
            <4> QED BY <4>1, <4>2
        <3>4. From(next, (i - n) + 1, Parse(g[i], Unit(next, (i - n) + 1)))
            BY <3>1, <3>3, ParseContinues
        <3>5. From(next, (i + 1) - n, g[i + 1])
            BY <2>2, <3>1, <3>2, <3>4
        <3>6. ~(i + 1 <= n)
            BY <2>4
        <3> QED BY <3>5, <3>6
    <2> QED BY <1>1, <2>3, <2>4
<1> HIDE DEF S
<1>7. n + m \in S
    BY <1>1, <1>5, <1>6, AllNats
<1>8. At(n + m)
    <2>1. n + m <= n + m
        BY <1>1
    <2> QED BY <1>7, <2>1 DEF S
<1>9. CASE m = 0
    <2>1. n + m <= n /\ n + m = n
        BY <1>9
    <2>2. From(kind, j + n, g[n + m])
        BY <1>8, <2>1
    <2> QED BY <1>1, <1>3, <1>9, <2>2
<1>10. CASE m # 0
    <2>1. ~(n + m <= n) /\ (n + m) - n = m
        BY <1>10
    <2>2. From(next, m, g[n + m])
        BY <1>8, <2>1
    <2> QED BY <1>1, <1>3, <1>10, <2>2
<1> QED BY <1>9, <1>10

\* One or two sequences put together.
LEMMA FlattenTwo ==
    ASSUME NEW rows
    PROVE  /\ Len(rows) = 1 => FlattenSeq(rows) = rows[1]
           /\ Len(rows) = 2 => FlattenSeq(rows) = rows[1] \o rows[2]
<1> DEFINE Cat(a, b) == a \o b
           Is(f) == f = [i \in 1..Len(rows) |-> IF i = 1 THEN rows[i] ELSE Cat(f[i - 1], rows[i])]
           flatten == CHOOSE f : Is(f)
<1>1. Len(rows) # 0 => FlattenSeq(rows) = flatten[Len(rows)]
    BY DEF FlattenSeq
<1> HIDE DEF Cat
<1>2. ASSUME Len(rows) = 1 PROVE flatten[1] = rows[1]
    <2> DEFINE f == [i \in 1..1 |-> rows[1]]
    <2>1. Is(f)
        BY <1>2
    <2> HIDE DEF f
    <2>2. Is(flatten)
        <3> HIDE DEF Is
        <3> QED BY <2>1
    <2> HIDE DEF flatten
    <2> QED BY <1>2, <2>2
<1>3. ASSUME Len(rows) = 2 PROVE flatten[2] = Cat(rows[1], rows[2])
    <2> DEFINE f == [i \in 1..2 |-> IF i = 1 THEN rows[1] ELSE Cat(rows[1], rows[2])]
    <2>1. Is(f)
        <3>1. f[1] = rows[1] /\ f[2] = Cat(rows[1], rows[2]) /\ 2 - 1 = 1
            OBVIOUS
        <3>2. f = [i \in 1..2 |-> f[i]]
            OBVIOUS
        <3> HIDE DEF f
        <3>3. \A i \in 1..2 : f[i] = IF i = 1 THEN rows[i] ELSE Cat(f[i - 1], rows[i])
            <4> TAKE i \in 1..2
            <4>1. i = 1 \/ i = 2
                OBVIOUS
            <4> QED BY <3>1, <4>1
        <3> QED BY <1>3, <3>2, <3>3
    <2> HIDE DEF f
    <2>2. Is(flatten)
        <3> HIDE DEF Is
        <3> QED BY <2>1
    <2> HIDE DEF flatten
    <2>3. flatten[1] = rows[1] /\ flatten[2] = Cat(flatten[2 - 1], rows[2])
        BY <1>3, <2>2
    <2> QED BY <2>3
<1> HIDE DEF flatten
<1>4. Len(rows) = 1 => FlattenSeq(rows) = rows[1]
    BY <1>1, <1>2
<1>5. Len(rows) = 2 => FlattenSeq(rows) = Cat(rows[1], rows[2])
    BY <1>1, <1>3
<1> QED BY <1>4, <1>5, Zenon DEF Cat

\* The database that greets a browser leaves its parser between two events.
LEMMA BurstIsWhole ==
    ASSUME NEW burst \in {<<>>, <<"map">>, <<"map", "map">>}, NEW p, Idle(p)
    PROVE  Idle(Parsed(p, FlattenSeq([i \in DOMAIN burst |-> make_sse_frame(burst[i])])))
<1> DEFINE rows == [i \in DOMAIN burst |-> make_sse_frame(burst[i])]
           U == make_sse_frame("map")
           n == Size["map"]
<1>1. /\ "map" \in EventKinds /\ n \in Nat \ {0} /\ U \in Seq(AnyUnit) /\ Len(U) = n
      /\ \A i \in 1..n : U[i] = Unit("map", i)
    BY ViewerAssumption, UnitsFacts DEF ViewerAssumption
<1>2. From("map", 0, p) /\ \A q : From("map", n, q) => Idle(q)
    BY <1>1, EndIsBeginning DEF From
<1>3. CASE burst = <<>>
    <2>1. DOMAIN rows = {} /\ Len(rows) = 0
        BY <1>3
    <2>2. FlattenSeq(rows) = rows
        <3> HIDE DEF rows
        <3> QED BY <2>1 DEF FlattenSeq
    <2>3. Continues(rows, "map", 0, 0, "map", 0)
        BY <2>1 DEF Continues
    <2> HIDE DEF rows, n
    <2>4. From("map", 0 + 0, Parsed(p, rows))
        <3>1. 0 + 0 <= Size["map"] /\ 0 <= Size["map"]
            BY <1>1 DEF n
        <3> QED BY <1>1, <1>2, <2>3, <3>1, ParsedFollows
    <2>5. From("map", 0, Parsed(p, rows)) /\ Reached("map", 0) = Fresh
        BY <1>1, <2>4, AllReached DEF Fresh
    <2>6. Idle(Parsed(p, rows))
        BY <2>5 DEF From, Idle
    <2> QED BY <2>2, <2>6 DEF rows
<1>4. CASE burst = <<"map">>
    <2>1. Len(rows) = 1 /\ rows[1] = U
        BY <1>4
    <2>2. FlattenSeq(rows) = U
        <3> HIDE DEF rows
        <3> QED BY <2>1, FlattenTwo
    <2> HIDE DEF rows, n, U
    <2>3. Continues(U, "map", 0, n, "map", 0)
        BY <1>1 DEF Continues
    <2>4. From("map", 0 + n, Parsed(p, U))
        <3>1. 0 + n <= Size["map"] /\ 0 <= Size["map"]
            BY <1>1 DEF n
        <3> QED BY <1>1, <1>2, <2>3, <3>1, ParsedFollows
    <2>5. 0 + n = n
        BY <1>1
    <2> QED BY <1>2, <2>2, <2>4, <2>5 DEF rows
<1>5. CASE burst = <<"map", "map">>
    <2>1. Len(rows) = 2 /\ rows[1] = U /\ rows[2] = U
        BY <1>5
    <2>2. FlattenSeq(rows) = U \o U
        <3> HIDE DEF rows
        <3> QED BY <2>1, FlattenTwo
    <2> HIDE DEF rows, n, U
    <2>3. Continues(U \o U, "map", 0, n, "map", n)
        <3>1. Len(U \o U) = n + n
            BY <1>1, ConcatProperties
        <3>2. \A i \in 1..(n + n) : (U \o U)[i] = IF i <= n THEN U[i] ELSE U[i - n]
            BY <1>1, ConcatProperties
        <3>4. \A i \in 1..n : i \in 1..(n + n) /\ i <= n /\ 0 + i = i
            BY <1>1
        <3>3. \A i \in 1..n : n + i \in 1..(n + n) /\ ~(n + i <= n) /\ (n + i) - n = i
            BY <1>1
        <3> QED BY <1>1, <3>1, <3>2, <3>3, <3>4 DEF Continues
    <2>4. From("map", n, Parsed(p, U \o U))
        <3>1. 0 + n <= Size["map"] /\ n <= Size["map"] /\ 0 + n = Size["map"] /\ n # 0 /\ n \in Nat /\ 0 \in Nat
            BY <1>1 DEF n
        <3> DEFINE two == U \o U
        <3>2. Continues(two, "map", 0, n, "map", n)
            BY <2>3
        <3> HIDE DEF two
        <3>3. "map" \in EventKinds
            BY <1>1
        <3>4. IF n = 0 THEN From("map", 0 + n, Parsed(p, two)) ELSE From("map", n, Parsed(p, two))
            BY <1>2, <3>1, <3>2, <3>3, ParsedFollows
        <3> QED BY <3>1, <3>4 DEF two
    <2> QED BY <1>2, <2>2, <2>4 DEF rows
<1> QED BY <1>3, <1>4, <1>5

-----------------------------------------------------------------------------
\* A browser's connection.

Conn == [st : {"away", "asking", "greeted", "open"}, pend : Seq(AnyUnit), parser : Seq(AnyUnit)]

\* The parser has reached a place in an event, and what is pending is the rest.
Whole(c) ==
    \E kind \in EventKinds, j \in Nat :
        /\ j <= Size[kind] /\ From(kind, j, c.parser)
        /\ c.pend = SubSeq(make_sse_frame(kind), j + 1, Size[kind])

\* A browser that is not registered yet is between two events.
SoundConn(c) ==
    c \in Conn /\ Whole(c) /\ (c.st # "open" => c.pend = <<>> /\ Idle(c.parser))

\* Between two events nothing is pending.
LEMMA BetweenIsWhole ==
    ASSUME NEW c, c.pend = <<>>, Idle(c.parser)
    PROVE  Whole(c)
<1>1. PICK kind \in EventKinds : TRUE
    BY ViewerAssumption DEF ViewerAssumption
<1>2. Size[kind] \in Nat
    BY UnitsFacts
<1>3. SubSeq(make_sse_frame(kind), Size[kind] + 1, Size[kind]) = <<>>
    BY <1>2, SubSeqEmpty
<1> QED BY <1>2, <1>3 DEF Whole, From

LEMMA AwayIsSound == SoundConn(Away)
<1>1. Away.pend = <<>> /\ Idle(Away.parser) /\ Away.st = "away"
    BY DEF Away, Idle
<1>2. Away \in Conn
    BY DEF Away, Conn, Fresh
<1> QED BY <1>1, <1>2, BetweenIsWhole DEF SoundConn

\* A sound connection has no torn event, and what is pending completes one.
LEMMA WholeConn ==
    ASSUME NEW c, SoundConn(c)
    PROVE  /\ c.parser # Torn
           /\ c.pend # <<>> => \E k \in EventKinds :
                 \/ c.parser \o c.pend = make_sse_frame(k)
                 \/ Idle(c.parser) /\ c.pend = make_sse_frame(k)
<1>1. PICK kind \in EventKinds, j \in Nat :
          /\ j <= Size[kind] /\ From(kind, j, c.parser)
          /\ c.pend = SubSeq(make_sse_frame(kind), j + 1, Size[kind])
    BY DEF SoundConn, Whole
<1>2. Size[kind] \in Nat \ {0} /\ j \in 0..Size[kind]
    BY <1>1, UnitsFacts
<1>3. c.parser # Torn
    BY <1>1, <1>2, FromIsWhole
<1>4. ASSUME c.pend # <<>>, c.parser = Reached(kind, j)
      PROVE  c.parser \o c.pend = make_sse_frame(kind)
    <2> DEFINE U == make_sse_frame(kind)
               n == Size[kind]
               first == SubSeq(U, 1, j)
               rest == SubSeq(U, j + 1, n)
    <2>1. U \in Seq(AnyUnit) /\ Len(U) = n /\ \A i \in 1..n : U[i] = Unit(kind, i)
        BY UnitsFacts
    <2>2. first \in Seq(AnyUnit) /\ Len(first) = j /\ \A i \in 1..j : first[i] = Unit(kind, i)
        BY <1>2, PartsFacts
    <2>3. /\ rest \in Seq(AnyUnit) /\ Len(rest) = n - j
          /\ \A i \in 1..(n - j) : rest[i] = Unit(kind, j + i)
        BY <1>2, PartsFacts
    <2>4. c.parser = first /\ c.pend = rest
        BY <1>1, <1>4 DEF Reached
    <2>5. n \in Nat /\ j \in 0..n
        BY <1>2
    <2> HIDE DEF U, n, first, rest
    <2>7. first \o rest \in Seq(AnyUnit) /\ Len(first \o rest) = n
        <3>1. Len(first \o rest) = Len(first) + Len(rest)
            BY <2>2, <2>3, ConcatProperties
        <3>2. first \o rest \in Seq(AnyUnit)
            BY <2>2, <2>3, ConcatProperties
        <3> QED BY <2>2, <2>3, <2>5, <3>1, <3>2
    <2>8. \A i \in 1..n : (first \o rest)[i] = U[i]
        <3> TAKE i \in 1..n
        <3>1. (first \o rest)[i] = IF i <= Len(first) THEN first[i] ELSE rest[i - Len(first)]
            BY <2>2, <2>3, <2>5, ConcatProperties
        <3>2. CASE i <= j
            <4>1. i \in 1..j
                BY <2>5, <3>2
            <4>2. first[i] = Unit(kind, i) /\ U[i] = Unit(kind, i)
                BY <2>1, <2>2, <4>1
            <4> QED BY <2>2, <3>1, <3>2, <4>2
        <3>3. CASE ~(i <= j)
            <4>1. i - j \in 1..(n - j) /\ j + (i - j) = i
                BY <2>5, <3>3
            <4>2. rest[i - j] = Unit(kind, i)
                BY <2>3, <4>1
            <4> QED BY <2>1, <2>2, <3>1, <3>3, <4>2
        <3> QED BY <3>2, <3>3
    <2>9. first \o rest = U
        BY <2>1, <2>7, <2>8, SeqEqual
    <2> QED BY <2>4, <2>9 DEF U
<1>5. ASSUME c.pend # <<>>, c.parser # Reached(kind, j)
      PROVE  Idle(c.parser) /\ c.pend = make_sse_frame(kind)
    <2> DEFINE U == make_sse_frame(kind)  n == Size[kind]
    <2>1. U \in Seq(AnyUnit) /\ Len(U) = n /\ n \in Nat
        BY <1>2, UnitsFacts
    <2>2. j \in {0, n} /\ Idle(c.parser) /\ c.pend = SubSeq(U, j + 1, n)
        BY <1>1, <1>5 DEF From
    <2> HIDE DEF U, n
    <2>3. SubSeq(U, n + 1, n) = <<>>
        BY <2>1, SubSeqEmpty
    <2>4. c.pend = SubSeq(U, 1, n)
        <3>1. j = 0 \/ j = n
            BY <2>2
        <3>2. j = 0
            BY <1>5, <2>2, <2>3, <3>1
        <3>3. j + 1 = 1
            BY <3>2
        <3> QED BY <2>2, <3>3
    <2>5. SubSeq(U, 1, n) = U
        <3>1. SubSeq(U, 1, n) \in Seq(AnyUnit) /\ Len(SubSeq(U, 1, n)) = n
              /\ \A i \in 1..n : SubSeq(U, 1, n)[i] = U[i]
            BY <2>1
        <3> QED BY <2>1, <3>1, SeqEqual
    <2> QED BY <2>2, <2>4, <2>5 DEF U
<1> QED BY <1>3, <1>4, <1>5

\* Sending an event keeps a connection sound, whatever the socket takes.
LEMMA SendFrameKeeps ==
    ASSUME NEW c, SoundConn(c), NEW kind \in EventKinds, NEW n \in Nat,
           n <= Len(c.pend) + Size[kind]
    PROVE  SendFrame(c, kind, n) \in Conn /\ SendFrame(c, kind, n).st = c.st /\ Whole(SendFrame(c, kind, n))
<1>1. PICK k \in EventKinds, j \in Nat :
          /\ j <= Size[k] /\ From(k, j, c.parser)
          /\ c.pend = SubSeq(make_sse_frame(k), j + 1, Size[k])
    BY DEF SoundConn, Whole
<1>2. Size[k] \in Nat \ {0} /\ j \in 0..Size[k] /\ Size[kind] \in Nat \ {0}
    BY <1>1, UnitsFacts
<1> DEFINE pend == c.pend
           left == Size[k] - j
           U == make_sse_frame(kind)
<1>3. pend \in Seq(AnyUnit) /\ Len(pend) = left /\ \A i \in 1..left : pend[i] = Unit(k, j + i)
    <2>1. /\ SubSeq(make_sse_frame(k), j + 1, Size[k]) \in Seq(AnyUnit)
          /\ Len(SubSeq(make_sse_frame(k), j + 1, Size[k])) = Size[k] - j
          /\ \A i \in 1..(Size[k] - j) : SubSeq(make_sse_frame(k), j + 1, Size[k])[i] = Unit(k, j + i)
        BY <1>2, PartsFacts
    <2> QED BY <1>1, <2>1
<1>4. left \in Nat /\ j + left = Size[k]
    BY <1>2
<1>5. U \in Seq(AnyUnit) /\ Len(U) = Size[kind]
    BY UnitsFacts
<1>6. c \in Conn
    BY DEF SoundConn
<1>7. ASSUME NEW pending \in Seq(AnyUnit), NEW units, Parsed(c.parser, units) \in Seq(AnyUnit)
      PROVE  /\ Receive([c EXCEPT !.pend = pending], units) \in Conn
             /\ Receive([c EXCEPT !.pend = pending], units).st = c.st
             /\ Receive([c EXCEPT !.pend = pending], units).pend = pending
             /\ Receive([c EXCEPT !.pend = pending], units).parser = Parsed(c.parser, units)
    <2>1. c = [st |-> c.st, pend |-> c.pend, parser |-> c.parser] /\ c.st \in {"away", "asking", "greeted", "open"}
        BY <1>6 DEF Conn
    <2>2. Receive([c EXCEPT !.pend = pending], units)
              = [st |-> c.st, pend |-> pending, parser |-> Parsed(c.parser, units)]
        <3> DEFINE d == [c EXCEPT !.pend = pending]
        <3>1. d = [st |-> c.st, pend |-> pending, parser |-> c.parser]
            BY <2>1
        <3> HIDE DEF d
        <3>2. [d EXCEPT !.parser = Parsed(@, units)]
                  = [st |-> c.st, pend |-> pending, parser |-> Parsed(c.parser, units)]
            BY <3>1
        <3> QED BY <3>2 DEF Receive, d
    <2> QED BY <1>7, <2>1, <2>2 DEF Conn
<1>8. CASE n < left
    <2> DEFINE some == SubSeq(pend, 1, n)
               rest == SubSeq(pend, n + 1, left)
               over == SubSeq(make_sse_frame(k), (j + n) + 1, Size[k])
    <2>1. /\ some \in Seq(AnyUnit) /\ Len(some) = n /\ \A i \in 1..n : some[i] = pend[i]
          /\ rest \in Seq(AnyUnit) /\ Len(rest) = left - n /\ \A i \in 1..(left - n) : rest[i] = pend[n + i]
        <3>1. n \in 0..left /\ n + 1 \in 1..(left + 1) /\ 1 \in Nat
            BY <1>4, <1>8
        <3>2. pend \in Seq(AnyUnit) /\ Len(pend) = left /\ left \in Nat
            BY <1>3, <1>4
        <3> HIDE DEF pend, left
        <3>3. some \in Seq(AnyUnit) /\ Len(some) = n /\ \A i \in 1..n : some[i] = pend[i]
            BY <3>1, <3>2
        <3>4. rest \in Seq(AnyUnit) /\ Len(rest) = left - n
            BY <3>1, <3>2
        <3>5. \A i \in 1..(left - n) : rest[i] = pend[n + i]
            BY <3>1, <3>2
        <3> QED BY <3>3, <3>4, <3>5
    <2>2. j + n \in 0..Size[k] /\ j + n <= Size[k] /\ Size[k] - (j + n) = left - n
        BY <1>2, <1>4, <1>8
    <2>3. /\ over \in Seq(AnyUnit) /\ Len(over) = left - n
          /\ \A i \in 1..(left - n) : over[i] = Unit(k, (j + n) + i)
        <3>1. /\ over \in Seq(AnyUnit) /\ Len(over) = Size[k] - (j + n)
              /\ \A i \in 1..(Size[k] - (j + n)) : over[i] = Unit(k, (j + n) + i)
            BY <2>2, PartsFacts
        <3> HIDE DEF over, left
        <3> QED BY <2>2, <3>1
    <2>4. SendFrame(c, kind, n) = Receive([c EXCEPT !.pend = rest], some)
        BY <1>3, <1>8 DEF SendFrame
    <2>5. Continues(some, k, j, n, k, 0)
        <3> HIDE DEF some, pend, left
        <3>1. \A i \in 1..n : i \in 1..left
            BY <1>4, <1>8
        <3>2. \A i \in 1..n : some[i] = Unit(k, j + i)
            BY <1>3, <2>1, <3>1
        <3>3. Len(some) = n + 0 /\ \A i \in 1..0 : some[n + i] = Unit(k, i)
            BY <2>1
        <3> QED BY <3>2, <3>3 DEF Continues
    <2>6. rest = over
        <3>1. \A i \in 1..(left - n) : n + i \in 1..left /\ j + (n + i) = (j + n) + i
            BY <1>2, <1>4, <1>8
        <3> HIDE DEF rest, over, pend, left
        <3>2. \A i \in 1..(left - n) : rest[i] = over[i]
            BY <1>3, <2>1, <2>3, <3>1
        <3> QED BY <2>1, <2>3, <3>2, SeqEqual
    <2> HIDE DEF some, rest, over, pend, left
    <2>7. From(k, j + n, Parsed(c.parser, some))
        <3>1. 0 <= Size[k]
            BY <1>2
        <3> QED BY <1>1, <2>2, <2>5, <3>1, ParsedFollows
    <2>8. Parsed(c.parser, some) \in Seq(AnyUnit)
        BY <2>2, <2>7, FromIsWhole
    <2>9. /\ SendFrame(c, kind, n) \in Conn /\ SendFrame(c, kind, n).st = c.st
          /\ SendFrame(c, kind, n).pend = over /\ From(k, j + n, SendFrame(c, kind, n).parser)
        BY <1>7, <2>1, <2>4, <2>6, <2>7, <2>8
    <2>10. Whole(SendFrame(c, kind, n))
        <3>1. j + n \in Nat
            OBVIOUS
        <3> QED BY <2>2, <2>9, <3>1 DEF Whole, over
    <2> QED BY <2>9, <2>10
<1>9. CASE ~(n < left)
    <2> DEFINE m == n - left
               some == SubSeq(U, 1, m)
               rest == SubSeq(U, m + 1, Size[kind])
               all == pend \o some
    <2>1. m \in Nat /\ m <= Size[kind] /\ m \in 0..Size[kind]
        BY <1>2, <1>3, <1>4, <1>9
    <2>2. some \in Seq(AnyUnit) /\ Len(some) = m /\ \A i \in 1..m : some[i] = Unit(kind, i)
        BY <2>1, PartsFacts
    <2>3. rest \in Seq(AnyUnit)
        BY <2>1, PartsFacts
    <2>4. SendFrame(c, kind, n) = Receive([c EXCEPT !.pend = rest], all)
        BY <1>3, <1>5, <1>9 DEF SendFrame
    <2> HIDE DEF m
    <2>5. Continues(all, k, j, left, kind, m)
        <3> HIDE DEF some, pend, left
        <3>1. Len(all) = left + m
            BY <1>3, <2>2, ConcatProperties
        <3>2. \A i \in 1..(left + m) : all[i] = IF i <= left THEN pend[i] ELSE some[i - left]
            BY <1>3, <2>2, ConcatProperties
        <3> HIDE DEF all
        <3>3. \A i \in 1..left : i \in 1..(left + m) /\ i <= left
            BY <1>4, <2>1
        <3>4. \A i \in 1..m : left + i \in 1..(left + m) /\ ~(left + i <= left) /\ (left + i) - left = i
            BY <1>4, <2>1
        <3>5. \A i \in 1..left : all[i] = Unit(k, j + i)
            BY <1>3, <3>2, <3>3
        <3>6. \A i \in 1..m : all[left + i] = Unit(kind, i)
            BY <2>2, <3>2, <3>4
        <3> QED BY <3>1, <3>5, <3>6 DEF Continues
    <2> HIDE DEF some, all, pend, left
    <2>6. IF m = 0 THEN From(k, j + left, Parsed(c.parser, all)) ELSE From(kind, m, Parsed(c.parser, all))
        <3>1. j + left <= Size[k]
            BY <1>2, <1>4
        <3> QED BY <1>1, <1>4, <2>1, <2>5, <3>1, ParsedFollows
    <2>7. From(kind, m, Parsed(c.parser, all))
        <3>1. CASE m = 0
            <4>1. From(k, Size[k], Parsed(c.parser, all))
                BY <1>4, <2>6, <3>1
            <4>2. From(kind, 0, Parsed(c.parser, all))
                BY <4>1, EndIsBeginning
            <4> QED BY <3>1, <4>2
        <3> QED BY <2>6, <3>1
    <2>8. Parsed(c.parser, all) \in Seq(AnyUnit)
        BY <2>1, <2>7, FromIsWhole
    <2> HIDE DEF rest
    <2>9. /\ SendFrame(c, kind, n) \in Conn /\ SendFrame(c, kind, n).st = c.st
          /\ SendFrame(c, kind, n).pend = rest /\ From(kind, m, SendFrame(c, kind, n).parser)
        BY <1>7, <2>3, <2>4, <2>7, <2>8
    <2>10. Whole(SendFrame(c, kind, n))
        BY <2>1, <2>9 DEF Whole, rest, U
    <2> QED BY <2>9, <2>10
<1> QED BY <1>8, <1>9

-----------------------------------------------------------------------------
\* The viewer.

\* The inductive invariant: every connection is sound.
ConnsSound == conn \in [Fds -> Conn] /\ \A f \in Fds : SoundConn(conn[f])
ViewerSafe == ViewerTypeOK /\ ConnsSound

LEMMA ViewerSafeImplies == ViewerSafe => BrowsersParse
<1> SUFFICES ASSUME ViewerSafe PROVE EventsAreWhole /\ LiveDataIsWhole
    BY DEF BrowsersParse, ViewerSafe
<1>1. EventsAreWhole
    BY WholeConn DEF ViewerSafe, ConnsSound, EventsAreWhole
<1>2. ASSUME NEW kind \in EventKinds
      PROVE  Data(make_sse_frame(kind)) = 1..(IF kind = "replay" THEN FirstLine[kind] ELSE Size[kind])
    <2>1. /\ Size[kind] \in Nat /\ FirstLine[kind] \in 1..Size[kind]
          /\ kind # "replay" => FirstLine[kind] = Size[kind]
        BY ViewerAssumption DEF ViewerAssumption
    <2>2. /\ DOMAIN make_sse_frame(kind) = 1..Size[kind]
          /\ \A i \in 1..Size[kind] : make_sse_frame(kind)[i][3] = "data" <=> i <= FirstLine[kind]
        <3>1. DOMAIN make_sse_frame(kind) = 1..Size[kind]
              /\ \A i \in 1..Size[kind] : make_sse_frame(kind)[i] = Unit(kind, i)
            BY DEF make_sse_frame
        <3>2. ASSUME NEW i \in Nat PROVE Unit(kind, i)[3] = "data" <=> i <= FirstLine[kind]
            <4> DEFINE field == IF i <= FirstLine[kind] THEN "data" ELSE ""
            <4>1. Unit(kind, i) = <<kind, i, field>> /\ (field = "data" <=> i <= FirstLine[kind])
                BY DEF Unit
            <4> HIDE DEF field
            <4> QED BY <4>1
        <3>3. 1..Size[kind] \subseteq Nat
            BY <2>1
        <3> QED BY <3>1, <3>2, <3>3
    <2>3. Data(make_sse_frame(kind)) = 1..FirstLine[kind]
        BY <2>1, <2>2 DEF Data
    <2> QED BY <2>1, <2>3
<1>3. LiveDataIsWhole
    BY <1>2 DEF LiveDataIsWhole
<1> QED BY <1>1, <1>3

LEMMA ViewerInitSafe == ViewerInit => ViewerSafe
<1> SUFFICES ASSUME ViewerInit PROVE ViewerSafe
    OBVIOUS
<1>1. conn = [f \in Fds |-> Away]
    BY DEF ViewerInit
<1>2. Away \in Conn
    BY AwayIsSound DEF SoundConn
<1>3. ConnsSound
    BY <1>1, <1>2, AwayIsSound DEF ConnsSound
<1>4. Away.st = "away"
    BY DEF Away
<1>5. ViewerTypeOK
    <2>1. 1 \in 1..(ReplayFrames + 1) /\ QueueDepth \in Nat
        BY ViewerAssumption DEF ViewerAssumption
    <2>2. queue \in Seq(EventKinds) /\ Len(queue) <= QueueDepth
        BY <2>1 DEF ViewerInit
    <2>3. mtime \in 0..2 /\ last_mtime \in 0..2
        BY DEF ViewerInit
    <2>4. \A f \in Fds : conn[f].st \in {"away", "asking", "greeted", "open"}
        BY <1>1, <1>4
    <2> QED BY <2>1, <2>2, <2>3, <2>4 DEF ViewerInit, ViewerTypeOK
<1> QED BY <1>3, <1>5 DEF ViewerSafe

\* The queue never holds more than its depth.
LEMMA PushKeeps ==
    ASSUME NEW q \in Seq(EventKinds), NEW lines \in Seq(EventKinds)
    PROVE  Push(q, lines) \in Seq(EventKinds) /\ Len(Push(q, lines)) <= QueueDepth
<1> DEFINE all == q \o lines
<1>1. all \in Seq(EventKinds) /\ Len(all) \in Nat
    BY ConcatProperties
<1>2. QueueDepth \in Nat \ {0}
    BY ViewerAssumption DEF ViewerAssumption
<1>3. Push(q, lines) = IF Len(all) <= QueueDepth THEN all
                       ELSE SubSeq(all, Len(all) - QueueDepth + 1, Len(all))
    BY DEF Push
<1> HIDE DEF all
<1>4. CASE Len(all) <= QueueDepth
    BY <1>1, <1>3, <1>4
<1>5. CASE ~(Len(all) <= QueueDepth)
    <2> DEFINE first == Len(all) - QueueDepth + 1
    <2>1. first \in 1..Len(all) /\ Len(all) - first + 1 = QueueDepth
        BY <1>1, <1>2, <1>5
    <2> HIDE DEF first
    <2>2. SubSeq(all, first, Len(all)) \in Seq(EventKinds)
        BY <1>1, <2>1, SubSeqProperties
    <2>3. Len(SubSeq(all, first, Len(all))) = Len(all) - first + 1
        BY <1>1, <2>1
    <2>4. Push(q, lines) = SubSeq(all, first, Len(all))
        BY <1>3, <1>5 DEF first
    <2> QED BY <1>2, <2>1, <2>2, <2>3, <2>4
<1> QED BY <1>4, <1>5

\* A burst is a sequence of events.
LEMMA BurstType ==
    ASSUME NEW burst \in Burst
    PROVE  burst \in {<<>>, <<"map">>, <<"map", "map">>} /\ burst \in Seq(EventKinds)
<1>1. "map" \in EventKinds
    BY ViewerAssumption DEF ViewerAssumption
<1>2. burst \in {<<>>, <<"map">>, <<"map", "map">>}
    BY DEF Burst
<1>3. <<>> \in Seq(EventKinds) /\ <<"map">> \in Seq(EventKinds) /\ <<"map", "map">> \in Seq(EventKinds)
    BY <1>1
<1> QED BY <1>2, <1>3

\* A change of one connection.
LEMMA ConnChange ==
    ASSUME ConnsSound, NEW f \in Fds, NEW d, SoundConn(d), conn' = [conn EXCEPT ![f] = d]
    PROVE  ConnsSound'
<1>1. d \in Conn
    BY DEF SoundConn
<1>2. conn' \in [Fds -> Conn]
    BY <1>1 DEF ConnsSound
<1>3. \A g \in Fds : conn'[g] = IF g = f THEN d ELSE conn[g]
    BY DEF ConnsSound
<1> QED BY <1>2, <1>3 DEF ConnsSound

\* A parser between two events has received text.
LEMMA IdleIsText == ASSUME NEW p, Idle(p) PROVE p \in Seq(AnyUnit)
<1>1. PICK kind \in EventKinds : TRUE
    BY ViewerAssumption DEF ViewerAssumption
<1>2. From(kind, 0, p) /\ 0 \in 0..Size[kind]
    BY UnitsFacts DEF From
<1> QED BY <1>2, FromIsWhole

\* A connection between two events may be in any state.
LEMMA IdleIsSound ==
    ASSUME NEW c \in Conn, c.pend = <<>>, Idle(c.parser), NEW st \in {"away", "asking", "greeted", "open"}
    PROVE  SoundConn([c EXCEPT !.st = st])
<1> DEFINE d == [c EXCEPT !.st = st]
<1>1. d \in Conn /\ d.pend = c.pend /\ d.parser = c.parser
    BY DEF Conn
<1>2. Whole(d)
    <2> HIDE DEF d
    <2> QED BY <1>1, BetweenIsWhole
<1> HIDE DEF d
<1>3. SoundConn(d)
    BY <1>1, <1>2 DEF SoundConn
<1> QED BY <1>3 DEF d

\* Every step keeps the connections sound.
LEMMA ConnsStep == ViewerSafe /\ ViewerNext => ConnsSound'
<1> SUFFICES ASSUME ViewerSafe, ViewerNext PROVE ConnsSound'
    OBVIOUS
<1>0. ConnsSound /\ conn \in [Fds -> Conn] /\ \A f \in Fds : SoundConn(conn[f])
    BY DEF ViewerSafe, ConnsSound
<1>1. ASSUME UNCHANGED conn PROVE ConnsSound'
    BY <1>0, <1>1 DEF ConnsSound
<1>2. ASSUME NEW f \in Fds, conn[f].st # "open" PROVE conn[f] \in Conn /\ conn[f].pend = <<>> /\ Idle(conn[f].parser)
    BY <1>0, <1>2 DEF SoundConn
<1>3. CASE close_clients
    <2>1. conn' = [f \in Fds |-> Away] /\ Away \in Conn
        BY <1>3, AwayIsSound DEF close_clients, SoundConn
    <2> QED BY <2>1, AwayIsSound DEF ConnsSound
<1>4. ASSUME NEW f \in Fds, accept_client(f) PROVE ConnsSound'
    <2>1. conn' = [conn EXCEPT ![f] = [conn[f] EXCEPT !.st = "asking"]] /\ conn[f].st = "away"
        BY <1>4 DEF accept_client
    <2>2. conn[f] \in Conn /\ conn[f].pend = <<>> /\ Idle(conn[f].parser)
        BY <1>2, <2>1
    <2>3. SoundConn([conn[f] EXCEPT !.st = "asking"])
        BY <2>2, IdleIsSound
    <2> QED BY <1>0, <2>1, <2>3, ConnChange
<1>5. ASSUME NEW f \in Fds, respond(f) PROVE ConnsSound'
    <2>1. conn' = [conn EXCEPT ![f] = Away]
        BY <1>5 DEF respond
    <2> QED BY <1>0, <2>1, AwayIsSound, ConnChange
<1>6. ASSUME NEW f \in Fds, handle_sse_upgrade(f) PROVE ConnsSound'
    <2> DEFINE stream(burst) == FlattenSeq([i \in DOMAIN burst |-> make_sse_frame(burst[i])])
               greeted == [conn[f] EXCEPT !.st = "greeted"]
    <2>1. conn[f].st = "asking" /\ \E burst \in Burst : conn' = [conn EXCEPT ![f] = Receive(greeted, stream(burst))]
        BY <1>6 DEF handle_sse_upgrade
    <2>2. PICK burst \in Burst : conn' = [conn EXCEPT ![f] = Receive(greeted, stream(burst))]
        BY <2>1
    <2>3. conn[f] \in Conn /\ conn[f].pend = <<>> /\ Idle(conn[f].parser)
        BY <1>2, <2>1
    <2>4. Idle(Parsed(conn[f].parser, stream(burst)))
        BY <2>3, BurstType, BurstIsWhole
    <2>5. greeted.parser = conn[f].parser /\ greeted.pend = <<>> /\ greeted.st = "greeted" /\ greeted \in Conn
        BY <2>3 DEF Conn
    <2> HIDE DEF stream, greeted
    <2> DEFINE d == Receive(greeted, stream(burst))
    <2>6. d.pend = <<>> /\ d.parser = Parsed(conn[f].parser, stream(burst)) /\ d.st = "greeted"
          /\ d = [st |-> "greeted", pend |-> <<>>, parser |-> Parsed(conn[f].parser, stream(burst))]
        BY <2>5 DEF Receive, Conn
    <2>7. Parsed(conn[f].parser, stream(burst)) \in Seq(AnyUnit)
        BY <2>4, IdleIsText
    <2>8. d \in Conn
        BY <2>6, <2>7 DEF Conn
    <2> HIDE DEF d
    <2>9. SoundConn(d)
        BY <2>4, <2>6, <2>8, BetweenIsWhole DEF SoundConn
    <2> QED BY <1>0, <2>2, <2>9, ConnChange DEF d
<1>7. ASSUME NEW f \in Fds, register(f) PROVE ConnsSound'
    <2>1. conn' = [conn EXCEPT ![f] = [conn[f] EXCEPT !.st = "open"]] /\ conn[f].st = "greeted"
        BY <1>7 DEF register
    <2>2. conn[f] \in Conn /\ conn[f].pend = <<>> /\ Idle(conn[f].parser)
        BY <1>2, <2>1
    <2>3. SoundConn([conn[f] EXCEPT !.st = "open"])
        BY <2>2, IdleIsSound
    <2> QED BY <1>0, <2>1, <2>3, ConnChange
<1>8. CASE writer_loop
    <2>1. Head(queue) \in EventKinds
        <3>1. queue # <<>> /\ queue \in Seq(EventKinds)
            BY <1>8 DEF writer_loop, ViewerSafe, ViewerTypeOK
        <3> QED BY <3>1
    <2> DEFINE SentTo(taken, failed, f) ==
                   LET c == SendFrame(conn[f], Head(queue), taken[f])
                   IN  IF f \notin Open THEN conn[f]
                       ELSE IF f \in failed \/ Len(c.pend) > MaxTail THEN Away
                       ELSE c
    <2>2. PICK taken \in [Open -> 0..(MaxTail + Size[Head(queue)])], failed \in SUBSET Open :
             /\ \A f \in Open : taken[f] <= Len(conn[f].pend) + Size[Head(queue)]
             /\ conn' = [f \in Fds |-> SentTo(taken, failed, f)]
        BY <1>8 DEF writer_loop
    <2>3. ASSUME NEW f \in Fds PROVE SoundConn(SentTo(taken, failed, f))
        <3> DEFINE c == SendFrame(conn[f], Head(queue), taken[f])
        <3>1. CASE f \notin Open
            BY <1>0, <3>1
        <3>2. CASE f \in Open
            <4>1. conn[f].st = "open" /\ SoundConn(conn[f])
                BY <1>0, <3>2 DEF Open
            <4>2. taken[f] \in Nat
                <5>1. taken[f] \in 0..(MaxTail + Size[Head(queue)])
                    BY <2>2, <3>2
                <5>2. MaxTail \in Nat /\ Size[Head(queue)] \in Nat
                    BY <2>1, ViewerAssumption DEF ViewerAssumption
                <5> QED BY <5>1, <5>2
            <4>3. taken[f] <= Len(conn[f].pend) + Size[Head(queue)]
                BY <2>2, <3>2
            <4>4. c \in Conn /\ c.st = conn[f].st /\ Whole(c)
                BY <2>1, <4>1, <4>2, <4>3, SendFrameKeeps
            <4> HIDE DEF c
            <4>5. SoundConn(c)
                BY <4>1, <4>4 DEF SoundConn
            <4> QED BY <3>2, <4>5, AwayIsSound DEF c
        <3> QED BY <3>1, <3>2
    <2> HIDE DEF SentTo
    <2>4. \A f \in Fds : SentTo(taken, failed, f) \in Conn
        BY <2>3 DEF SoundConn
    <2>5. conn' \in [Fds -> Conn] /\ \A f \in Fds : conn'[f] = SentTo(taken, failed, f)
        BY <2>2, <2>4
    <2> QED BY <2>3, <2>5 DEF ConnsSound
<1>9. CASE Outside
    BY <1>1, <1>9 DEF Outside, runtime_changes, database_changes, relayVars
<1>10. CASE start \/ on_signal
    BY <1>1, <1>10 DEF start, on_signal, relayVars
<1>11. CASE Stopping
    BY <1>1, <1>3, <1>11 DEF Stopping, join_monitor, join_writer, relayVars
<1>12. CASE Reading \/ Switching
    BY <1>1, <1>12 DEF Reading, Switching, run_live_line, run_live_end, run_connect, run_no_connection,
                       do_replay_frame, do_replay_end, run_again, relayVars
<1>13. CASE Serving
    BY <1>5, <1>6, <1>13 DEF Serving
<1>14. CASE Accepting
    BY <1>1, <1>4, <1>7, <1>14 DEF Accepting, accept_exit
<1>15. CASE Writing \/ Watching
    BY <1>1, <1>8, <1>15 DEF Writing, Watching, writer_exit, watcher_loop, watcher_exit
<1> QED BY <1>9, <1>10, <1>11, <1>12, <1>13, <1>14, <1>15 DEF ViewerNext

\* Every step keeps the queue bounded.
LEMMA ViewerQueueStep ==
    ViewerSafe /\ ViewerNext => queue' \in Seq(EventKinds) /\ Len(queue') <= QueueDepth
<1> SUFFICES ASSUME ViewerSafe, ViewerNext
             PROVE  queue' \in Seq(EventKinds) /\ Len(queue') <= QueueDepth
    OBVIOUS
<1>1. queue \in Seq(EventKinds) /\ Len(queue) <= QueueDepth
    BY DEF ViewerSafe, ViewerTypeOK
<1>2. ASSUME NEW lines \in Seq(EventKinds), queue' = Push(queue, lines)
      PROVE  queue' \in Seq(EventKinds) /\ Len(queue') <= QueueDepth
    BY <1>1, <1>2, PushKeeps
<1>3. <<"line">> \in Seq(EventKinds) /\ <<"replay">> \in Seq(EventKinds)
    BY ViewerAssumption DEF ViewerAssumption
<1>4. CASE UNCHANGED queue
    BY <1>1, <1>4
<1>5. CASE run_live_line
    BY <1>2, <1>3, <1>5 DEF run_live_line
<1>6. CASE do_replay_frame
    BY <1>1, <1>2, <1>3, <1>6 DEF do_replay_frame
<1>7. CASE watcher_loop
    <2>1. PICK burst \in Burst : queue' = Push(queue, burst)
        BY <1>7 DEF watcher_loop
    <2>2. burst \in Seq(EventKinds)
        BY BurstType
    <2> QED BY <1>2, <2>1, <2>2
<1>8. CASE writer_loop
    <2>1. queue # <<>> /\ queue' = Tail(queue)
        BY <1>8 DEF writer_loop
    <2>2. QueueDepth \in Nat
        BY ViewerAssumption DEF ViewerAssumption
    <2>3. Tail(queue) \in Seq(EventKinds) /\ Len(Tail(queue)) = Len(queue) - 1 /\ Len(queue) \in Nat
        BY <1>1, <2>1
    <2> QED BY <1>1, <2>1, <2>2, <2>3
<1>9. CASE Outside \/ start \/ on_signal \/ Stopping
    BY <1>4, <1>9 DEF Outside, runtime_changes, database_changes, start, on_signal, Stopping, join_monitor,
                      close_clients, join_writer
<1>10. CASE Reading \/ Switching
    BY <1>4, <1>5, <1>6, <1>10 DEF Reading, Switching, run_live_end, run_connect, run_no_connection,
                       do_replay_end, run_again
<1>11. CASE Serving \/ Accepting
    BY <1>4, <1>11 DEF Serving, Accepting, respond, handle_sse_upgrade, accept_exit, accept_client, register
<1>12. CASE Writing \/ Watching
    BY <1>4, <1>7, <1>8, <1>12 DEF Writing, Watching, writer_exit, watcher_exit
<1> QED BY <1>9, <1>10, <1>11, <1>12 DEF ViewerNext

\* The flags, the counters and the places of the threads.
Times == 0..2
Frames == 1..(ReplayFrames + 1)
Flags == monitoring \in BOOLEAN /\ relaying \in BOOLEAN
Counters == mtime \in Times /\ last_mtime \in Times /\ frame \in Frames
SourcePlaces ==
    /\ runtime \in {"up", "down"}
    /\ monitor \in {"off", "connect", "live", "sleep", "replay", "done"}
    /\ source \in {"disconnected", "live", "replay"}
    /\ main \in {"start", "serve", "stop monitor", "stop relay", "join writer", "exit"}
RelayPlaces ==
    /\ accept \in {"off", "loop", "serving", "done"}
    /\ writer_thread \in {"off", "loop", "done"} /\ watcher \in {"off", "loop", "done"}
Threads == Flags /\ Counters /\ SourcePlaces /\ RelayPlaces

\* Every step keeps each of them.
LEMMA FlagsStep == Flags /\ ViewerNext => Flags'
<1> SUFFICES ASSUME Flags, ViewerNext PROVE Flags'
    OBVIOUS
<1>1. CASE Outside \/ start \/ on_signal
    BY <1>1 DEF Outside, runtime_changes, database_changes, start, on_signal, Flags, sourceVars, relayVars
<1>2. CASE Stopping
    BY <1>2 DEF Stopping, join_monitor, close_clients, join_writer, Flags, sourceVars, relayVars
<1>3. CASE Reading \/ Switching
    BY <1>3 DEF Reading, run_live_line, run_live_end, Switching, run_connect, run_no_connection,
                do_replay_frame, do_replay_end, run_again, Flags, relayVars
<1>4. CASE Serving \/ Accepting
    BY <1>4 DEF Serving, respond, handle_sse_upgrade, Accepting, accept_exit, accept_client, register,
                Flags, sourceVars
<1>5. CASE Writing \/ Watching
    BY <1>5 DEF Writing, writer_loop, writer_exit, Watching, watcher_loop, watcher_exit, Flags, sourceVars
<1> QED BY <1>1, <1>2, <1>3, <1>4, <1>5 DEF ViewerNext

LEMMA CountersStep == Counters /\ ViewerNext => Counters'
<1> SUFFICES ASSUME Counters, ViewerNext PROVE Counters'
    OBVIOUS
<1>1. 1 \in Frames /\ (frame <= ReplayFrames => frame + 1 \in Frames)
    <2>1. ReplayFrames \in Nat
        BY ViewerAssumption DEF ViewerAssumption
    <2>2. frame \in 1..(ReplayFrames + 1)
        BY DEF Counters, Frames
    <2> QED BY <2>1, <2>2 DEF Frames
<1>2. CASE UNCHANGED <<mtime, last_mtime, frame>>
    BY <1>2 DEF Counters
<1>3. CASE Outside
    <2>1. mtime' \in Times /\ UNCHANGED <<last_mtime, frame>>
        BY <1>3 DEF Outside, runtime_changes, database_changes, Counters, Times, sourceVars, relayVars
    <2> QED BY <2>1 DEF Counters
<1>4. CASE start \/ on_signal \/ Stopping
    BY <1>2, <1>4 DEF start, on_signal, Stopping, join_monitor, close_clients, join_writer, sourceVars, relayVars
<1>5. CASE Reading \/ Switching
    <2>1. UNCHANGED <<mtime, last_mtime>>
        BY <1>5 DEF Reading, run_live_line, run_live_end, Switching, run_connect, run_no_connection,
                    do_replay_frame, do_replay_end, run_again, relayVars
    <2>2. frame' \in {1, frame} \/ (frame <= ReplayFrames /\ frame' = frame + 1)
        BY <1>5 DEF Reading, run_live_line, run_live_end, NoLive, Switching, run_connect, run_no_connection,
                    do_replay_frame, do_replay_end, run_again
    <2>3. frame' \in Frames
        BY <1>1, <2>2 DEF Counters
    <2> QED BY <2>1, <2>3 DEF Counters
<1>6. CASE Serving \/ Accepting \/ Writing
    BY <1>2, <1>6 DEF Serving, respond, handle_sse_upgrade, Accepting, accept_exit, accept_client, register,
                      Writing, writer_loop, writer_exit, sourceVars
<1>7. CASE Watching
    <2>1. last_mtime' \in {last_mtime, mtime} /\ UNCHANGED <<mtime, frame>>
        BY <1>7 DEF Watching, watcher_loop, watcher_exit, sourceVars
    <2> QED BY <2>1 DEF Counters
<1> QED BY <1>3, <1>4, <1>5, <1>6, <1>7 DEF ViewerNext

LEMMA SourcePlacesStep == SourcePlaces /\ ViewerNext => SourcePlaces'
<1> SUFFICES ASSUME SourcePlaces, ViewerNext PROVE SourcePlaces'
    OBVIOUS
<1>1. CASE Outside
    BY <1>1 DEF Outside, runtime_changes, database_changes, SourcePlaces, sourceVars
<1>2. CASE start \/ on_signal
    BY <1>2 DEF start, on_signal, SourcePlaces
<1>3. CASE Stopping
    BY <1>3 DEF Stopping, join_monitor, close_clients, join_writer, SourcePlaces, sourceVars
<1>4. CASE Reading
    BY <1>4 DEF Reading, run_live_line, run_live_end, NoLive, SourcePlaces
<1>5. CASE Switching
    BY <1>5 DEF Switching, run_connect, run_no_connection, NoLive, do_replay_frame, do_replay_end, run_again,
                SourcePlaces
<1>6. CASE Serving \/ Accepting
    BY <1>6 DEF Serving, respond, handle_sse_upgrade, Accepting, accept_exit, accept_client, register,
                SourcePlaces, sourceVars
<1>7. CASE Writing \/ Watching
    BY <1>7 DEF Writing, writer_loop, writer_exit, Watching, watcher_loop, watcher_exit, SourcePlaces, sourceVars
<1> QED BY <1>1, <1>2, <1>3, <1>4, <1>5, <1>6, <1>7 DEF ViewerNext

LEMMA RelayPlacesStep == RelayPlaces /\ ViewerNext => RelayPlaces'
<1> SUFFICES ASSUME RelayPlaces, ViewerNext PROVE RelayPlaces'
    OBVIOUS
<1>1. CASE Outside \/ on_signal \/ Stopping
    BY <1>1 DEF Outside, runtime_changes, database_changes, on_signal, Stopping, join_monitor, close_clients,
                join_writer, RelayPlaces, relayVars
<1>2. CASE start
    BY <1>2 DEF start, parse_args, RelayPlaces
<1>3. CASE Reading \/ Switching
    BY <1>3 DEF Reading, run_live_line, run_live_end, Switching, run_connect, run_no_connection,
                do_replay_frame, do_replay_end, run_again, RelayPlaces, relayVars
<1>4. CASE Serving \/ Accepting
    BY <1>4 DEF Serving, respond, handle_sse_upgrade, Accepting, accept_exit, accept_client, register, RelayPlaces
<1>5. CASE Writing \/ Watching
    BY <1>5 DEF Writing, writer_loop, writer_exit, Watching, watcher_loop, watcher_exit, RelayPlaces
<1> QED BY <1>1, <1>2, <1>3, <1>4, <1>5 DEF ViewerNext

LEMMA ThreadsStep == Threads /\ [ViewerNext]_viewerVars => Threads'
<1>1. ViewerNext /\ Threads => Threads'
    BY FlagsStep, CountersStep, SourcePlacesStep, RelayPlacesStep DEF Threads
<1>2. UNCHANGED viewerVars /\ Threads => Threads'
    <2> SUFFICES ASSUME UNCHANGED viewerVars, Threads PROVE Threads'
        OBVIOUS
    <2>1. Flags'
        BY DEF viewerVars, sourceVars, relayVars, Threads, Flags
    <2>2. Counters'
        BY DEF viewerVars, sourceVars, relayVars, Threads, Counters
    <2>3. SourcePlaces'
        BY DEF viewerVars, sourceVars, Threads, SourcePlaces
    <2>4. RelayPlaces'
        BY DEF viewerVars, relayVars, Threads, RelayPlaces
    <2> QED BY <2>1, <2>2, <2>3, <2>4 DEF Threads
<1> QED BY <1>1, <1>2

\* The type invariant is the places of the threads, the queue and the states of
\* the connections.
LEMMA ViewerTypeParts ==
    ViewerTypeOK <=> /\ Threads /\ queue \in Seq(EventKinds) /\ Len(queue) <= QueueDepth
                     /\ \A f \in Fds : conn[f].st \in {"away", "asking", "greeted", "open"}
BY DEF ViewerTypeOK, Threads, Flags, Counters, SourcePlaces, RelayPlaces, Times, Frames

LEMMA ViewerSafeStep == ViewerSafe /\ [ViewerNext]_viewerVars => ViewerSafe'
<1> SUFFICES ASSUME ViewerSafe, [ViewerNext]_viewerVars PROVE ViewerSafe'
    OBVIOUS
<1>1. CASE ViewerNext
    <2>1. ConnsSound'
        BY <1>1, ConnsStep
    <2>2. \A f \in Fds : conn'[f].st \in {"away", "asking", "greeted", "open"}
        BY <2>1 DEF ConnsSound, SoundConn, Conn
    <2>3. Threads'
        BY <1>1, ThreadsStep, ViewerTypeParts DEF ViewerSafe
    <2>4. queue' \in Seq(EventKinds) /\ Len(queue') <= QueueDepth
        BY <1>1, ViewerQueueStep
    <2>5. ViewerTypeOK'
        BY <2>2, <2>3, <2>4 DEF ViewerTypeOK, Threads, Flags, Counters, SourcePlaces, RelayPlaces, Times, Frames
    <2> QED BY <2>1, <2>5 DEF ViewerSafe
<1>2. CASE UNCHANGED viewerVars
    <2>1. ViewerTypeOK'
        <3>1. Threads /\ queue \in Seq(EventKinds) /\ Len(queue) <= QueueDepth
            BY ViewerTypeParts DEF ViewerSafe
        <3>2. Threads'
            BY <3>1, ThreadsStep
        <3>3. queue' = queue /\ conn' = conn
            BY <1>2 DEF viewerVars, relayVars
        <3>4. queue' \in Seq(EventKinds) /\ Len(queue') <= QueueDepth
            BY <3>1, <3>3
        <3>5. \A f \in Fds : conn'[f].st \in {"away", "asking", "greeted", "open"}
            BY <3>3 DEF ViewerSafe, ViewerTypeOK
        <3> QED BY <3>2, <3>4, <3>5 DEF ViewerTypeOK, Threads, Flags, Counters, SourcePlaces, RelayPlaces, Times, Frames
    <2>2. ConnsSound'
        BY <1>2 DEF viewerVars, relayVars, ViewerSafe, ConnsSound
    <2> QED BY <2>1, <2>2 DEF ViewerSafe
<1> QED BY <1>1, <1>2

\* BrowsersParse (SseRelay::writer_loop, handle_sse_upgrade and SharedQueue::push):
\* for every number of browsers, every size of an event and every depth of the
\* queue, whatever part of an event each socket takes, whichever events are skipped
\* for a browser that lags, and whoever had the descriptor before, no browser is
\* ever sent a torn event, what is pending for it completes the event it is in the
\* middle of, and the queue stays within its depth.
THEOREM BrowsersAlwaysParse == ViewerSpec => []BrowsersParse
BY ViewerInitSafe, ViewerSafeStep, ViewerSafeImplies, PTL DEF ViewerSpec
=============================================================================
