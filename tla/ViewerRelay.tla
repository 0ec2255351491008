---------------------------- MODULE ViewerRelay ----------------------------
(***************************************************************************)
(* dedalus_viewer: a process of its own between the runtime's event stream *)
(* and the browsers.  SourceMonitor's thread reads lines from the live     *)
(* runtime or replays recorded snapshots; watcher_loop injects the Level 2 *)
(* map when its database file changes; both feed SharedQueue, and          *)
(* SseRelay's writer sends each line as an event to the browsers that the  *)
(* accept thread admitted.                                                 *)
(*                                                                         *)
(* An event is a sequence of units of its text; a socket takes any number  *)
(* of them.  A browser is the parser of what it receives: the event it is  *)
(* in the middle of or has last completed, or torn once a unit arrives     *)
(* that does not belong there.  A completed event is handed to the page as *)
(* what its data line holds.                                               *)
(***************************************************************************)
EXTENDS Integers, Sequences, SequencesExt, FiniteSets

CONSTANTS
    Fds,            \* file descriptors of browsers
    QueueDepth,     \* max_depth_ of SharedQueue
    Size,           \* units of the text of each kind of event
    FirstLine,      \* units before its first newline
    MaxTail,        \* kMaxPending
    ReplayFrames    \* snapshots in the manifest of the replay directory

EventKinds == DOMAIN Size

ASSUME ViewerAssumption ==
    /\ QueueDepth \in Nat \ {0} /\ MaxTail \in Nat /\ ReplayFrames \in Nat
    /\ EventKinds = {"line", "map", "replay"} /\ \A k \in EventKinds : Size[k] \in Nat \ {0}
    /\ \A k \in EventKinds : FirstLine[k] \in 1..Size[k]
    /\ FirstLine["line"] = Size["line"] /\ FirstLine["map"] = Size["map"]

VARIABLES
    runtime,    \* whether the runtime accepts connections (external)
    mtime,      \* st_mtime of the database, 0 when it is absent (external)
    monitor,    \* where SourceMonitor's thread is
    source,     \* status_
    frame,      \* the next snapshot do_replay reads
    monitoring, \* running_ of SourceMonitor
    relaying,   \* running_ of SseRelay
    main,       \* where main is in its shutdown
    queue,      \* SharedQueue
    accept,     \* accept_thread_
    writer_thread, \* writer_thread_
    watcher,    \* watcher_thread_
    last_mtime, \* last_mtime of watcher_loop
    conn        \* sse_clients_, sse_pending_ and each browser's parser

sourceVars == <<monitor, source, frame, monitoring>>
relayVars == <<relaying, accept, writer_thread, watcher, last_mtime, conn>>
viewerVars == <<runtime, mtime, sourceVars, main, queue, relayVars>>

Fresh == <<>>              \* the parser has not received anything
Torn == <<<<"torn", 0, "">>>>  \* it met a unit that does not belong where it is
Away == [st |-> "away", pend |-> <<>>, parser |-> Fresh]

\* The i-th unit of an event, and the name of the field whose line it is on.
Unit(kind, i) == <<kind, i, IF i <= FirstLine[kind] THEN "data" ELSE "">>

\* make_sse_frame(): one "data: " before the text, whatever newlines it has.
make_sse_frame(kind) == [i \in 1..Size[kind] |-> Unit(kind, i)]

ViewerTypeOK ==
    /\ runtime \in {"up", "down"} /\ mtime \in 0..2 /\ last_mtime \in 0..2
    /\ monitor \in {"off", "connect", "live", "sleep", "replay", "done"}
    /\ source \in {"disconnected", "live", "replay"}
    /\ frame \in 1..(ReplayFrames + 1)
    /\ monitoring \in BOOLEAN /\ relaying \in BOOLEAN
    /\ main \in {"start", "serve", "stop monitor", "stop relay", "join writer", "exit"}
    /\ queue \in Seq(EventKinds) /\ Len(queue) <= QueueDepth
    /\ accept \in {"off", "loop", "serving", "done"}
    /\ writer_thread \in {"off", "loop", "done"} /\ watcher \in {"off", "loop", "done"}
    /\ \A f \in Fds : conn[f].st \in {"away", "asking", "greeted", "open"}

ViewerInit ==
    /\ runtime \in {"up", "down"} /\ mtime \in 0..1
    /\ monitor = "off" /\ source = "disconnected" /\ frame = 1 /\ monitoring = FALSE
    /\ relaying = FALSE /\ main = "start" /\ queue = <<>>
    /\ accept = "off" /\ writer_thread = "off" /\ watcher = "off" /\ last_mtime = 0
    /\ conn = [f \in Fds |-> Away]

\* SharedQueue::push: a full queue loses its oldest line.
Push(q, lines) == LET all == q \o lines
                  IN  IF Len(all) <= QueueDepth THEN all
                      ELSE SubSeq(all, Len(all) - QueueDepth + 1, Len(all))

\* L2StaticCache::load: nothing when the file cannot be read or holds no
\* occupied cell, else the Level 2 map, and the Level 3 map if there is one.
Burst == IF mtime = 0 THEN {<<>>} ELSE {<<>>, <<"map">>, <<"map", "map">>}

----------------------------------------------------------------------------
(* The outside                                                             *)

runtime_changes ==
    /\ runtime' = IF runtime = "up" THEN "down" ELSE "up"
    /\ UNCHANGED <<mtime, sourceVars, main, queue, relayVars>>

\* A mission creates or writes the database, or it is removed.  Two writes
\* within a second leave the same time.
database_changes ==
    /\ mtime' \in 0..2
    /\ UNCHANGED <<runtime, sourceVars, main, queue, relayVars>>

----------------------------------------------------------------------------
(* main                                                                    *)

\* The state of the watcher thread that the options ask for: it runs when
\* --l2-db or DEDALUS_SITE_ID names a database.
parse_args == {"off", "loop"}

\* relay.start() and monitor.start(), or a wrong option or a port that cannot
\* be bound.
start ==
    /\ main = "start"
    /\ \/ /\ main' = "serve" /\ monitoring' = TRUE /\ relaying' = TRUE
          /\ monitor' = "connect" /\ accept' = "loop" /\ writer_thread' = "loop"
          /\ watcher' \in parse_args
       \/ main' = "exit" /\ UNCHANGED <<monitoring, relaying, monitor, accept, writer_thread, watcher>>
    /\ UNCHANGED <<runtime, mtime, source, frame, queue, last_mtime, conn>>

on_signal ==
    /\ main = "serve"
    /\ main' = "stop monitor" /\ monitoring' = FALSE
    /\ UNCHANGED <<runtime, mtime, monitor, source, frame, queue, relayVars>>

\* monitor.stop() has joined; relay.stop() begins.
join_monitor ==
    /\ main = "stop monitor" /\ monitor = "done"
    /\ main' = "stop relay" /\ relaying' = FALSE
    /\ UNCHANGED <<runtime, mtime, sourceVars, queue, accept, writer_thread, watcher, last_mtime, conn>>

\* The accept and watcher threads have ended: the browsers are closed.
close_clients ==
    /\ main = "stop relay" /\ accept = "done" /\ watcher \in {"off", "done"}
    /\ main' = "join writer" /\ conn' = [f \in Fds |-> Away]
    /\ UNCHANGED <<runtime, mtime, sourceVars, queue, relaying, accept, writer_thread, watcher, last_mtime>>

join_writer ==
    /\ main = "join writer" /\ writer_thread = "done"
    /\ main' = "exit"
    /\ UNCHANGED <<runtime, mtime, sourceVars, queue, relayVars>>

----------------------------------------------------------------------------
(* SourceMonitor::run                                                      *)

run_connect ==
    /\ monitor = "connect" /\ monitoring /\ runtime = "up"
    /\ monitor' = "live" /\ source' = "live"
    /\ UNCHANGED <<runtime, mtime, frame, monitoring, main, queue, relayVars>>

\* Without a connection: the replay if its manifest has frames, else a pause.
NoLive ==
    /\ source' = IF ReplayFrames > 0 THEN "replay" ELSE "disconnected"
    /\ monitor' = IF ReplayFrames > 0 THEN "replay" ELSE "sleep"
    /\ frame' = 1

run_no_connection ==
    /\ monitor = "connect" /\ monitoring /\ runtime = "down"
    /\ NoLive
    /\ UNCHANGED <<runtime, mtime, monitoring, main, queue, relayVars>>

\* read_line returned a line.  The loop looks at running_ before it reads.
run_live_line ==
    /\ monitor = "live" /\ runtime = "up"
    /\ queue' = Push(queue, <<"line">>)
    /\ IF monitoring THEN UNCHANGED monitor ELSE monitor' = "done"
    /\ UNCHANGED <<runtime, mtime, source, frame, monitoring, main, relayVars>>

\* The connection ended, or this client was dropped for being slow.
run_live_end ==
    /\ monitor = "live"
    /\ IF monitoring THEN NoLive ELSE monitor' = "done" /\ UNCHANGED <<source, frame>>
    /\ UNCHANGED <<runtime, mtime, monitoring, main, queue, relayVars>>

\* A snapshot file that cannot be read is skipped.  make_replay_line() takes the
\* file as it is, and it is written over many lines.
do_replay_frame ==
    /\ monitor = "replay" /\ monitoring /\ frame <= ReplayFrames
    /\ frame' = frame + 1
    /\ queue' \in {queue, Push(queue, <<"replay">>)}
    /\ UNCHANGED <<runtime, mtime, monitor, source, monitoring, main, relayVars>>

\* Mutant of do_replay_end: the replay begins again instead of ending.
do_replay_loops ==
    /\ monitor = "replay" /\ (~monitoring \/ frame > ReplayFrames)
    /\ IF monitoring THEN frame' = 1 /\ UNCHANGED monitor ELSE monitor' = "sleep" /\ UNCHANGED frame
    /\ UNCHANGED <<runtime, mtime, source, monitoring, main, queue, relayVars>>

do_replay_end ==
    /\ monitor = "replay" /\ (~monitoring \/ frame > ReplayFrames)
    /\ monitor' = "sleep"
    /\ UNCHANGED <<runtime, mtime, source, frame, monitoring, main, queue, relayVars>>

\* sleep_chunked is over: by time, or because running_ is cleared.
run_again ==
    /\ monitor = "sleep" \/ (monitor = "connect" /\ ~monitoring)
    /\ monitor' = IF monitoring THEN "connect" ELSE "done"
    /\ UNCHANGED <<runtime, mtime, source, frame, monitoring, main, queue, relayVars>>

----------------------------------------------------------------------------
(* SseRelay                                                                *)

\* The parser has come to the end of an event: it hands its data to the page.
Complete(parser) == \E kind \in EventKinds : parser = make_sse_frame(kind)
Idle(parser) == parser = Fresh \/ Complete(parser)

\* What the browser's parser makes of one more unit.
Parse(parser, unit) ==
    LET so_far == IF Idle(parser) THEN <<>> ELSE parser
    IN  IF Append(so_far, unit) = SubSeq(make_sse_frame(unit[1]), 1, Len(so_far) + 1)
        THEN Append(so_far, unit) ELSE Torn
\* What it makes of units that arrive one after the other.
Parsed(parser, units) ==
    LET p[i \in 0..Len(units)] == IF i = 0 THEN parser ELSE Parse(p[i - 1], units[i])
    IN  p[Len(units)]
Receive(c, units) == [c EXCEPT !.parser = Parsed(@, units)]

accept_client(f) ==
    /\ accept = "loop" /\ relaying /\ conn[f].st = "away"
    /\ accept' = "serving" /\ conn' = [conn EXCEPT ![f].st = "asking"]
    /\ UNCHANGED <<runtime, mtime, sourceVars, main, queue, relaying, writer_thread, watcher, last_mtime>>

\* Anything but GET /events is answered and closed, as is a client that left.
respond(f) ==
    /\ accept = "serving" /\ conn[f].st = "asking"
    /\ accept' = "loop" /\ conn' = [conn EXCEPT ![f] = Away]
    /\ UNCHANGED <<runtime, mtime, sourceVars, main, queue, relaying, writer_thread, watcher, last_mtime>>

\* GET /events: the headers and the whole database, sent blocking, then the
\* browser is registered.
handle_sse_upgrade(f) ==
    /\ accept = "serving" /\ conn[f].st = "asking"
    /\ \E burst \in Burst :
         conn' = [conn EXCEPT ![f] = Receive([@ EXCEPT !.st = "greeted"],
                      FlattenSeq([i \in DOMAIN burst |-> make_sse_frame(burst[i])]))]
    /\ UNCHANGED <<runtime, mtime, sourceVars, main, queue, relaying, accept, writer_thread, watcher, last_mtime>>

register(f) ==
    /\ accept = "serving" /\ conn[f].st = "greeted"
    /\ accept' = "loop" /\ conn' = [conn EXCEPT ![f].st = "open"]
    /\ UNCHANGED <<runtime, mtime, sourceVars, main, queue, relaying, writer_thread, watcher, last_mtime>>

accept_exit ==
    /\ accept = "loop" /\ ~relaying /\ accept' = "done"
    /\ UNCHANGED <<runtime, mtime, sourceVars, main, queue, relaying, writer_thread, watcher, last_mtime, conn>>

\* Mutant of SendFrame: the new event replaces a tail that does not go through.
SendFrameOver(c, kind, n) ==
    LET units == make_sse_frame(kind)
        m == IF n > Len(units) THEN Len(units) ELSE n
    IN  Receive([c EXCEPT !.pend = SubSeq(units, m + 1, Len(units))], SubSeq(units, 1, m))

\* One event for one browser whose socket takes n units: first the tail of
\* the event it was sent in part; while that is not through, the new event is
\* skipped.
SendFrame(c, kind, n) ==
    LET units == make_sse_frame(kind)
    IN  IF n < Len(c.pend)
        THEN Receive([c EXCEPT !.pend = SubSeq(@, n + 1, Len(@))], SubSeq(c.pend, 1, n))
        ELSE LET m == n - Len(c.pend)
             IN  Receive([c EXCEPT !.pend = SubSeq(units, m + 1, Len(units))],
                         c.pend \o SubSeq(units, 1, m))

Open == {f \in Fds : conn[f].st = "open"}

\* A browser is closed on an error, or when its tail is too long.
writer_loop ==
    /\ writer_thread = "loop" /\ relaying /\ queue # <<>>
    /\ queue' = Tail(queue)
    /\ \E taken \in [Open -> 0..(MaxTail + Size[Head(queue)])], failed \in SUBSET Open :
         /\ \A f \in Open : taken[f] <= Len(conn[f].pend) + Size[Head(queue)]
         /\ conn' = [f \in Fds |->
                LET c == SendFrame(conn[f], Head(queue), taken[f])
                IN  IF f \notin Open THEN conn[f]
                    ELSE IF f \in failed \/ Len(c.pend) > MaxTail THEN Away
                    ELSE c]
    /\ UNCHANGED <<runtime, mtime, sourceVars, main, relaying, accept, writer_thread, watcher, last_mtime>>

writer_exit ==
    /\ writer_thread = "loop" /\ ~relaying /\ writer_thread' = "done"
    /\ UNCHANGED <<runtime, mtime, sourceVars, main, queue, relaying, accept, watcher, last_mtime, conn>>

\* The time is remembered before the file is read.
watcher_loop ==
    /\ watcher = "loop" /\ relaying /\ mtime # last_mtime
    /\ last_mtime' = mtime
    /\ \E burst \in Burst : queue' = Push(queue, burst)
    /\ UNCHANGED <<runtime, mtime, sourceVars, main, relaying, accept, writer_thread, watcher, conn>>

watcher_exit ==
    /\ watcher = "loop" /\ ~relaying /\ watcher' = "done"
    /\ UNCHANGED <<runtime, mtime, sourceVars, main, queue, relaying, accept, writer_thread, last_mtime, conn>>

----------------------------------------------------------------------------
Outside == runtime_changes \/ database_changes
Reading == run_live_line \/ run_live_end
Switching == run_connect \/ run_no_connection \/ do_replay_frame \/ do_replay_end \/ run_again
Serving == \E f \in Fds : respond(f) \/ handle_sse_upgrade(f)
Accepting == accept_exit \/ \E f \in Fds : accept_client(f) \/ register(f)
Writing == writer_loop \/ writer_exit
Watching == watcher_loop \/ watcher_exit
Stopping == join_monitor \/ close_clients \/ join_writer
ViewerNext == Outside \/ start \/ on_signal \/ Stopping \/ Reading \/ Switching
        \/ Serving \/ Accepting \/ Writing \/ Watching

\* Every thread runs, except that nothing makes a connected runtime send a
\* line (Reading) or a connected client its request (Serving): both are
\* waited for in a blocking recv.
ViewerFairness ==
    /\ WF_viewerVars(Stopping) /\ WF_viewerVars(Switching) /\ WF_viewerVars(writer_exit)
    /\ WF_viewerVars(watcher_exit) /\ WF_viewerVars(accept_exit)
    /\ \A f \in Fds : WF_viewerVars(register(f))

ViewerSpec == ViewerInit /\ [][ViewerNext]_viewerVars /\ ViewerFairness

\* A browser never receives a torn event: what follows the first part of an
\* event is the rest of it, whatever the socket takes, whichever events are
\* skipped in between, and also when the descriptor had another client
\* before.  What is pending is exactly what the browser still misses.
EventsAreWhole ==
    \A f \in Fds :
        /\ conn[f].parser # Torn
        /\ conn[f].pend # <<>> =>
             \E kind \in EventKinds :
                 \/ conn[f].parser \o conn[f].pend = make_sse_frame(kind)
                 \/ Idle(conn[f].parser) /\ conn[f].pend = make_sse_frame(kind)

\* The units of a completed event that the page is handed.
Data(event) == {i \in DOMAIN event : event[i][3] = "data"}

\* The data of a live line or of a map is the whole of it; of a replayed snapshot
\* the page is handed the first line, which is no JSON.
LiveDataIsWhole ==
    \A f \in Fds, kind \in EventKinds :
        conn[f].parser = make_sse_frame(kind) =>
            Data(conn[f].parser) = 1..(IF kind = "replay" THEN FirstLine[kind] ELSE Size[kind])

\* The monitor finds its way back: once the runtime stays up it is connected again
\* and again, also out of a replay.  Where it is connected, nothing says that the
\* runtime sends: the thread may wait in recv for ever.
ReconnectsToLive ==
    <>[](runtime = "up" /\ main = "serve") => []<>(monitor = "live")

\* A shutdown ends, or waits for a recv: nothing else can hold it up.
ShutdownOnlyWaitsForPeers ==
    main = "stop monitor" ~> (main = "exit" \/ monitor = "live" \/ accept = "serving")

\* Browsers can tell apart all events they are sent, and parse those of a live
\* runtime, from a queue that stays bounded.
BrowsersParse == ViewerTypeOK /\ EventsAreWhole /\ LiveDataIsWhole

\* What make_replay_line() is for: a snapshot wrapped like the runtime's own lines,
\* so that the page can parse it.  It is false as soon as FirstLine["replay"] is less
\* than Size["replay"], and no run checks it.
ReplayedDataIsWhole ==
    \A f \in Fds : Complete(conn[f].parser) => Data(conn[f].parser) = DOMAIN conn[f].parser

\* The relay goes on: to the live runtime when there is one, and to its end when it
\* is told to stop, unless a peer keeps it waiting.
ViewerGoesOn == ReconnectsToLive /\ ShutdownOnlyWaitsForPeers
=============================================================================
