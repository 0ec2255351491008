---------------------------- MODULE EventStream ----------------------------
(***************************************************************************)
(* RuntimeEventStreamServer: the perception thread and the mission thread  *)
(* hand it events, a bounded queue carries them to one writer thread, and  *)
(* the writer sends them to line clients (TCP) and to browsers (SSE).  Two *)
(* accept threads admit clients; a new browser is first sent the last      *)
(* Level 2 and Level 3 maps and then joins the live stream.                *)
(*                                                                         *)
(* One step is one critical section of mutex_, or the code between two of  *)
(* them.  A condition variable is modelled by the writer's states: it      *)
(* evaluates the predicate with the mutex held (deciding) and sleeps       *)
(* (waiting) until notified.  A line is two units long, so that a socket   *)
(* can take a part of it.  The Level 1 map is a function from its cells to *)
(* the time of their last observation, 0 for a cell it does not hold; of   *)
(* the other maps only what is a full snapshot and what a delta is kept.   *)
(* A browser runs mission_unified_viewer.py, of which the Level 1 part is  *)
(* modelled: what it makes of the items it received is a function of them  *)
(* and of when it drew an animation frame.                                 *)
(***************************************************************************)
EXTENDS Integers, Sequences, SequencesExt, FiniteSets

CONSTANTS
    Fds,               \* file descriptors of connections
    Cells,             \* cells of the maps
    QueueDepth,        \* bound: the greatest max_send_queue_depth configured
    PendingDepth,      \* max_client_pending_depth
    MaxSeq,            \* bound: events of the run
    PersistedMap,      \* whether the database holds a Level 2 map at startup
    None               \* no item, no cached message

ASSUME EventStreamAssumption ==
    /\ QueueDepth \in Nat \ {0} /\ PendingDepth \in Nat \ {0}
    /\ MaxSeq \in Nat
    /\ PersistedMap \in BOOLEAN

VARIABLES
    running,     \* running_
    stopper,     \* where stop() is
    httpd,       \* http_accept_thread_: in its loop or serving a client
    depth,       \* config_.max_send_queue_depth
    writer,      \* writer_thread_
    item,        \* the queue item the writer works on
    sendq,       \* send_queue_
    dropped,     \* history: numbers of the events dropped from the queue or as faulty
    seq,         \* published_seq_
    producer,    \* what each producing thread is doing
    watermark,   \* trav_watermark_ns_
    l1,          \* the Level 1 map
    l2_published,\* l2_last_published_seq_ is not zero
    cache,       \* last_planning_sse_ and last_esdf_sse_
    conn         \* client_fds_, sse_client_fds_ and their pending queues

serverVars == <<running, stopper, httpd, depth>>
writerVars == <<writer, item>>
queueVars == <<sendq, dropped>>
sourceVars == <<seq, producer, l1, l2_published>>
vars == <<serverVars, writerVars, queueVars, sourceVars, watermark, cache, conn>>

Threads == {"perception", "mission"}
MaxTime == MaxSeq + 1
Map == [Cells -> 0..MaxTime]
EmptyMap == [c \in Cells |-> 0]
Newest(m) == CHOOSE t \in 0..MaxTime : /\ \A c \in Cells : m[c] <= t
                                       /\ t = 0 \/ \E c \in Cells : m[c] = t

\* The part of m newer than t.
Newer(m, t) == [c \in Cells |-> IF m[c] > t THEN m[c] ELSE 0]

\* map is the Level 1 map at the time of the event, a history field.
Items == {it \in [seq : 1..MaxSeq, by : Threads, kind : {"line", "trav", "planning", "esdf"},
                  full : BOOLEAN, cells : Map, map : Map] :
            it.kind = "trav" => it.by = "perception"}

Idle == [at |-> "idle"]
\* A connection that carries nothing.  since and clean are history: the last
\* number given out when it was registered, and whether it is a browser that
\* was registered while no Level 1 publication was under way.
Away == [st |-> "away", pend |-> <<>>, got |-> <<>>,
         replay |-> <<>>, owed |-> <<>>, since |-> 0, clean |-> FALSE]

\* The mutex is held only by a writer that is about to sleep.
Unlocked == writer # "deciding"

TypeOK ==
    /\ running \in BOOLEAN
    /\ stopper \in {"off", "up", "notify", "joining", "stopped"}
    /\ httpd \in {"off", "loop", "serving", "done"}
    /\ depth \in 1..QueueDepth
    /\ writer \in {"off", "idle", "deciding", "waiting", "serialize",
                   "publish", "chunks", "last chunk", "cache", "done"}
    /\ item \in Items \cup {None}
    /\ sendq \in Seq(Items) /\ Len(sendq) <= depth
    /\ dropped \subseteq 1..MaxSeq
    /\ seq \in 0..MaxSeq
    /\ \A t \in Threads : producer[t].at \in {"idle", "filtered", "assigned"}
    /\ watermark \in 0..(MaxTime + 1)
    /\ l1 \in Map /\ l2_published \in BOOLEAN
    /\ \A k \in {"planning", "esdf"} : cache[k] \in Items \cup {None}
    /\ \A f \in Fds : /\ conn[f].st \in {"away", "asking", "greeted", "open"}
                      /\ Len(conn[f].pend) <= PendingDepth

Init ==
    /\ running = FALSE /\ stopper = "off" /\ httpd = "off"
    /\ depth \in 1..QueueDepth
    /\ writer = "off" /\ item = None
    /\ sendq = <<>> /\ dropped = {} /\ seq = 0
    /\ producer = [t \in Threads |-> Idle]
    /\ watermark = 0
    /\ l1 = EmptyMap /\ l2_published = FALSE
    /\ cache = [planning |-> None, esdf |-> None]
    /\ conn = [f \in Fds |-> Away]

----------------------------------------------------------------------------
(* start and stop                                                          *)

\* A port is bound or, when it is taken or its host is invalid, not.
create_listen_socket == BOOLEAN

\* Without the TCP port start() fails, without the HTTP port it only disables
\* the browsers.
start ==
    /\ stopper = "off"
    /\ \E tcp, http \in create_listen_socket :
         IF tcp
         THEN /\ running' = TRUE /\ stopper' = "up"
              /\ writer' = "idle"
              /\ httpd' = IF http THEN "loop" ELSE "off"
         ELSE stopper' = "stopped" /\ UNCHANGED <<running, writer, httpd>>
    /\ UNCHANGED <<depth, item, queueVars, sourceVars, watermark, cache, conn>>

\* The producing threads have finished when main calls stop().  running_ is
\* cleared, and the writer notified, without the mutex.
stop ==
    /\ stopper = "up" /\ \A t \in Threads : producer[t] = Idle
    /\ running' = FALSE /\ stopper' = "notify"
    /\ UNCHANGED <<httpd, depth, writerVars, queueVars, sourceVars, watermark, cache, conn>>

stop_notify ==
    /\ stopper = "notify"
    /\ stopper' = "joining"
    /\ writer' = IF writer = "waiting" THEN "idle" ELSE writer
    /\ UNCHANGED <<running, httpd, depth, item, queueVars, sourceVars, watermark, cache, conn>>

\* The joins, then close_all_clients.
stop_join ==
    /\ stopper = "joining" /\ httpd \in {"off", "done"} /\ writer = "done"
    /\ stopper' = "stopped"
    /\ conn' = [f \in Fds |-> Away]
    /\ UNCHANGED <<running, httpd, depth, writerVars, queueVars, sourceVars, watermark, cache>>

----------------------------------------------------------------------------
(* The accept threads.  The loop for line clients ends within its 100 ms   *)
(* poll once running_ is cleared, so nothing waits for it.                 *)

\* A line client joins the live stream at once.
accept_client(f) ==
    /\ running /\ Unlocked /\ conn[f].st = "away"
    /\ conn' = [conn EXCEPT ![f] = [@ EXCEPT !.st = "open", !.since = seq]]
    /\ UNCHANGED <<serverVars, writerVars, queueVars, sourceVars, watermark, cache>>

http_loop_exit ==
    /\ httpd = "loop" /\ ~running
    /\ httpd' = "done"
    /\ UNCHANGED <<running, stopper, depth, writerVars, queueVars, sourceVars, watermark, cache, conn>>

\* The thread serves one connection at a time and blocks in recv.
http_accept(f) ==
    /\ httpd = "loop" /\ running /\ conn[f].st = "away"
    /\ httpd' = "serving"
    /\ conn' = [conn EXCEPT ![f].st = "asking"]
    /\ UNCHANGED <<running, stopper, depth, writerVars, queueVars, sourceVars, watermark, cache>>

\* The client leaves, or asks for health, a file or an unknown path.
http_answer(f) ==
    /\ httpd = "serving" /\ conn[f].st = "asking"
    /\ httpd' = "loop"
    /\ conn' = [conn EXCEPT ![f] = Away]
    /\ UNCHANGED <<running, stopper, depth, writerVars, queueVars, sourceVars, watermark, cache>>

\* The line of an item, and the bytes of a sequence of them.
Whole(it) == << <<it.seq, 1>>, <<it.seq, 2>> >>
Bytes(items) == FlattenSeq([i \in DOMAIN items |-> Whole(items[i])])

Cached(kind) == IF cache[kind] = None THEN <<>> ELSE <<cache[kind]>>

\* GET /events: the headers, and the maps cached at this moment.  A failed
\* send of the replay is ignored: the connection is registered all the same.
http_events(f) ==
    /\ httpd = "serving" /\ conn[f].st = "asking" /\ Unlocked
    /\ LET replay == Cached("planning") \o Cached("esdf")
       IN  conn' = [conn EXCEPT ![f] =
                [@ EXCEPT !.st = "greeted", !.got = Bytes(replay), !.replay = replay]]
    /\ UNCHANGED <<serverVars, writerVars, queueVars, sourceVars, watermark, cache>>

\* Mutant of http_register: the watermark is not reset.
http_register_mark_kept(f) ==
    /\ httpd = "serving" /\ conn[f].st = "greeted" /\ Unlocked
    /\ httpd' = "loop"
    /\ conn' = [conn EXCEPT ![f] = [@ EXCEPT !.st = "open", !.since = seq,
                    !.clean = producer["perception"].at # "filtered"]]
    /\ UNCHANGED <<running, stopper, depth, writerVars, queueVars, sourceVars, watermark, cache>>

\* The new browser has no Level 1 map: the watermark is reset so that the
\* next publication is a full one.
http_register(f) ==
    /\ httpd = "serving" /\ conn[f].st = "greeted" /\ Unlocked
    /\ httpd' = "loop"
    /\ watermark' = 0
    /\ conn' = [conn EXCEPT ![f] = [@ EXCEPT !.st = "open", !.since = seq,
                    !.clean = producer["perception"].at # "filtered"]]
    /\ UNCHANGED <<running, stopper, depth, writerVars, queueVars, sourceVars, cache>>

----------------------------------------------------------------------------
(* The producers.  A callback numbers its event in one critical section    *)
(* and enqueues it in another.                                             *)

Assign(t, kind, full, cells, map) ==
    /\ stopper = "up" /\ Unlocked
    /\ seq + Cardinality({u \in Threads \ {t} : producer[u].at = "filtered"}) < MaxSeq
    /\ seq' = seq + 1
    /\ producer' = [producer EXCEPT ![t] =
           [at |-> "assigned",
            item |-> [seq |-> seq + 1, by |-> t, kind |-> kind, full |-> full,
                      cells |-> cells, map |-> map]]]

\* on_mission_event: a line serialized by the mission thread.
on_mission_event ==
    /\ producer["mission"] = Idle
    /\ Assign("mission", "line", FALSE, EmptyMap, EmptyMap)
    /\ UNCHANGED <<serverVars, writerVars, queueVars, l1, l2_published, watermark, cache, conn>>

\* on_ghost_detections and on_mission_obstacle_map_delta, serialized by the
\* perception thread, and on_snapshot, serialized by the writer.
on_perception_event ==
    /\ producer["perception"] = Idle
    /\ Assign("perception", "line", FALSE, EmptyMap, EmptyMap)
    /\ UNCHANGED <<serverVars, writerVars, queueVars, l1, l2_published, watermark, cache, conn>>

\* The perception thread has observed some cells since its last Level 1
\* publication.  on_traversability_map_snapshot, first half: the watermark is
\* read and the cells are filtered; a delta without cells is not published.
\* Time 1 is the least watermark, older than every observation.
on_traversability_filter(seen) ==
    /\ producer["perception"] = Idle /\ Unlocked /\ stopper = "up" /\ seq < MaxSeq
    /\ l1' = [c \in Cells |-> IF c \notin seen THEN l1[c]
                               ELSE IF Newest(l1) = 0 THEN 2 ELSE Newest(l1) + 1]
    /\ LET full == watermark = 0
           cells == Newer(l1', watermark)
       IN  /\ full \/ cells # EmptyMap
           /\ producer' = [producer EXCEPT !["perception"] =
                  [at |-> "filtered", full |-> full, cells |-> cells,
                   mark |-> IF Newest(cells) = 0 THEN 1 ELSE Newest(cells)]]
    /\ UNCHANGED <<serverVars, writerVars, queueVars, seq, l2_published, watermark, cache, conn>>

\* Second half: the number and the new watermark.
on_traversability_assign ==
    /\ producer["perception"].at = "filtered"
    /\ LET p == producer["perception"]
       IN  /\ Assign("perception", "trav", p.full, p.cells, l1)
           /\ watermark' = p.mark
    /\ UNCHANGED <<serverVars, writerVars, queueVars, l1, l2_published, cache, conn>>

HasLevel2 == PersistedMap \/ l1 # EmptyMap

\* Level 2 is published as snapshot(l2_last_published_seq_): a delta, except
\* for the first one.  An empty full snapshot is suppressed.
on_planning_map_snapshot ==
    /\ producer["perception"] = Idle
    /\ l2_published \/ HasLevel2
    /\ Assign("perception", "planning", ~l2_published, EmptyMap, EmptyMap)
    /\ l2_published' = TRUE
    /\ UNCHANGED <<serverVars, writerVars, queueVars, l1, watermark, cache, conn>>

\* Level 3 is always published in full.
on_esdf_snapshot ==
    /\ producer["perception"] = Idle /\ HasLevel2
    /\ Assign("perception", "esdf", TRUE, EmptyMap, EmptyMap)
    /\ UNCHANGED <<serverVars, writerVars, queueVars, l1, l2_published, watermark, cache, conn>>

\* Mutant of enqueue_item: the writer is not notified.
enqueue_item_silent(t) ==
    /\ producer[t].at = "assigned" /\ Unlocked
    /\ LET full == Len(sendq) >= depth
       IN  /\ sendq' = Append(IF full THEN Tail(sendq) ELSE sendq, producer[t].item)
           /\ dropped' = IF full THEN dropped \cup {Head(sendq).seq} ELSE dropped
    /\ producer' = [producer EXCEPT ![t] = Idle]
    /\ UNCHANGED <<serverVars, writer, item, seq, l1, l2_published, watermark, cache, conn>>

\* A full queue loses its oldest item.
enqueue_item(t) ==
    /\ producer[t].at = "assigned" /\ Unlocked
    /\ LET full == Len(sendq) >= depth
       IN  /\ sendq' = Append(IF full THEN Tail(sendq) ELSE sendq, producer[t].item)
           /\ dropped' = IF full THEN dropped \cup {Head(sendq).seq} ELSE dropped
    /\ producer' = [producer EXCEPT ![t] = Idle]
    /\ writer' = IF writer = "waiting" THEN "idle" ELSE writer
    /\ UNCHANGED <<serverVars, item, seq, l1, l2_published, watermark, cache, conn>>

----------------------------------------------------------------------------
(* The writer                                                              *)

\* wait(lock, predicate): take the next item, leave when there is none and
\* the server stops, else go to sleep.
writer_wait ==
    /\ writer = "idle"
    /\ IF sendq # <<>>
       THEN writer' = "serialize" /\ item' = Head(sendq) /\ sendq' = Tail(sendq)
       ELSE writer' = (IF running THEN "deciding" ELSE "done") /\ UNCHANGED <<item, sendq>>
    /\ UNCHANGED <<serverVars, dropped, sourceVars, watermark, cache, conn>>

writer_sleep ==
    /\ writer = "deciding"
    /\ writer' = "waiting"
    /\ UNCHANGED <<serverVars, item, queueVars, sourceVars, watermark, cache, conn>>

\* The line of the item.  Level 2 and small full Level 3 maps are cached
\* before they are published, a large Level 3 map goes out in chunks.
writer_serialize ==
    /\ writer = "serialize" /\ Unlocked
    /\ \/ /\ writer' = "publish"
          /\ cache' = IF item.kind = "planning" THEN [cache EXCEPT !.planning = item]
                      ELSE IF item.kind = "esdf" /\ item.full THEN [cache EXCEPT !.esdf = item]
                      ELSE cache
       \/ /\ item.kind = "esdf"
          /\ writer' = "chunks" /\ UNCHANGED cache
    /\ UNCHANGED <<serverVars, item, queueVars, sourceVars, watermark, conn>>

Weight(pend) == Len(FlattenSeq(pend))

\* Mutant of Unsent: a line sent in part is kept from its beginning.
UnsentWhole(pend, n) ==
    LET whole == CHOOSE k \in 0..Len(pend) :
                   /\ Weight(SubSeq(pend, 1, k)) <= n
                   /\ k = Len(pend) \/ Weight(SubSeq(pend, 1, k + 1)) > n
    IN  SubSeq(pend, whole + 1, Len(pend))

\* pend without its first n units: the lines sent completely leave the queue,
\* the one sent in part keeps its tail.
Unsent(pend, n) ==
    LET whole == CHOOSE k \in 0..Len(pend) :
                   /\ Weight(SubSeq(pend, 1, k)) <= n
                   /\ k = Len(pend) \/ Weight(SubSeq(pend, 1, k + 1)) > n
        rest == SubSeq(pend, whole + 1, Len(pend))
        part == n - Weight(SubSeq(pend, 1, whole))
    IN  IF rest = <<>> \/ part = 0 THEN rest
        ELSE <<SubSeq(Head(rest), part + 1, Len(Head(rest)))>> \o Tail(rest)

\* publish_to_clients for one client whose socket takes n units (none of a
\* peer that is gone: an error counts as a full socket): what is pending
\* first, then the new line; too much pending and it is closed.
Send(c, it, n) ==
    LET all == Append(c.pend, Whole(it))
        left == Unsent(all, n)
    IN  IF Len(left) > PendingDepth THEN Away
        ELSE [c EXCEPT !.got = @ \o SubSeq(FlattenSeq(all), 1, n),
                       !.pend = left,
                       !.owed = Append(@, it)]

Open == {f \in Fds : conn[f].st = "open"}

\* json_line_fault: every kind of line embeds a frame id or other text and floats
\* of other components, a control character or a NaN among which is a fault.
json_line_fault(it) == BOOLEAN

\* A faulty line is dropped; any other goes to every client under one lock.
publish_json_line(it) ==
    \E fault \in json_line_fault(it) :
        \/ fault /\ dropped' = dropped \cup {it.seq} /\ UNCHANGED conn
        \/ /\ ~fault /\ UNCHANGED dropped
           /\ \E taken \in [Open -> 0..(2 * PendingDepth + 2)] :
               /\ \A f \in Open : taken[f] <= Weight(conn[f].pend) + 2
               /\ conn' = [f \in Fds |-> IF f \in Open THEN Send(conn[f], it, taken[f]) ELSE conn[f]]

writer_publish ==
    /\ writer = "publish" /\ Unlocked
    /\ publish_json_line(item)
    /\ writer' = "idle" /\ item' = None
    /\ UNCHANGED <<serverVars, sendq, sourceVars, watermark, cache>>

\* A large map goes out as chunks: the first one resets the client, the
\* others are merged into it.
writer_first_chunk ==
    /\ writer = "chunks"
    /\ publish_json_line(item)
    /\ writer' = "last chunk"
    /\ UNCHANGED <<serverVars, item, sendq, sourceVars, watermark, cache>>

writer_last_chunk ==
    /\ writer = "last chunk"
    /\ publish_json_line([item EXCEPT !.full = FALSE])
    /\ writer' = "cache"
    /\ UNCHANGED <<serverVars, item, sendq, sourceVars, watermark, cache>>

\* The chunks together are the message a new browser is sent.
writer_cache_chunks ==
    /\ writer = "cache"
    /\ cache' = [cache EXCEPT !.esdf = item]
    /\ writer' = "idle" /\ item' = None
    /\ UNCHANGED <<serverVars, queueVars, sourceVars, watermark, conn>>

----------------------------------------------------------------------------
(* The viewer: its Level 1 map and pendingTravSnapshot, a slot of one.     *)

\* applyTravSnapshot replaces the map, applyTravDelta is merged into it.
Apply(view, it) ==
    IF it.full THEN it.cells
    ELSE [c \in Cells |-> IF it.cells[c] > 0 THEN it.cells[c] ELSE view[c]]

\* processPending, on an animation frame.
draw_trav(v) ==
    IF v.slot = <<>> THEN v ELSE [cells |-> Apply(v.cells, v.slot[1]), slot |-> <<>>]

\* The handlers of the two Level 1 events.  A delta that is still in the slot is
\* merged before another takes its place; a full map there is overwritten.
on_trav(v, it) ==
    IF it.full \/ v.slot = <<>> \/ v.slot[1].full THEN [v EXCEPT !.slot = <<it>>]
    ELSE [cells |-> Apply(v.cells, v.slot[1]), slot |-> <<it>>]

\* One event, and whether a frame is drawn before the next.
Receive(v, it, frame) ==
    LET w == IF it.kind = "trav" THEN on_trav(v, it) ELSE v
    IN  IF frame THEN draw_trav(w) ELSE w

NewViewer == [cells |-> EmptyMap, slot |-> <<>>]

----------------------------------------------------------------------------
Producing ==
    \/ \E t \in Threads : enqueue_item(t)
    \/ on_mission_event \/ on_perception_event \/ on_traversability_assign
    \/ \E seen \in SUBSET Cells : on_traversability_filter(seen)
    \/ on_planning_map_snapshot \/ on_esdf_snapshot

Writing ==
    writer_wait \/ writer_sleep \/ writer_serialize \/ writer_publish
    \/ writer_first_chunk \/ writer_last_chunk \/ writer_cache_chunks

Accepting ==
    \/ http_loop_exit
    \/ \E f \in Fds : accept_client(f) \/ http_accept(f) \/ http_answer(f) \/ http_events(f) \/ http_register(f)

Next == start \/ stop \/ stop_notify \/ stop_join \/ Producing \/ Writing \/ Accepting

\* Every client receives whole lines, in the order they were published, each
\* once: what it was sent and what is pending for it is exactly the replay
\* and the lines published since it was registered.  A line sent in part is
\* continued, never restarted, and a descriptor used again inherits nothing.
WholeLines ==
    \A f \in Fds : conn[f].got \o FlattenSeq(conn[f].pend)
                     = Bytes(conn[f].replay \o conn[f].owed)

\* The events of one thread reach a client in the order of their numbers.
ThreadOrder ==
    \A f \in Fds : LET s == conn[f].owed
                    IN  \A i, j \in DOMAIN s : i < j /\ s[i].by = s[j].by => s[i].seq <= s[j].seq

\* The Level 1 items published to a client and numbered after it came, by their
\* places among the items it is owed.
IsLevel1(it, since) == it.kind = "trav" /\ it.seq > since
Level1Of(f) == {i \in DOMAIN conn[f].owed : IsLevel1(conn[f].owed[i], conn[f].since)}
Complete(f, i) == dropped \cap ((conn[f].since + 1)..conn[f].owed[i].seq) = {}

\* The viewer of a browser that has received items, and drew an animation frame
\* after those at the places drawn.
Viewer(items, drawn) ==
    LET viewer[i \in 0..Len(items)] ==
            IF i = 0 THEN NewViewer
            ELSE Receive(viewer[i - 1], items[i], i \in drawn)
    IN  viewer[Len(items)]

\* Between a full map and a later delta the browser drew a frame, so that the delta
\* did not overwrite a map that was still in the slot.
DrawnInTime(items, drawn) ==
    \A i, j \in DOMAIN items :
        /\ items[i].kind = "trav" /\ items[i].full
        /\ items[j].kind = "trav" /\ ~items[j].full /\ i < j
        => drawn \cap (i..(j - 1)) # {}

\* A browser that registered while no Level 1 publication was under way, for which no
\* event was dropped and which draws full maps in time, shows with its next frame
\* every cell of the Level 1 map with the observation it had when the map was last
\* published, though all but the first publication were deltas.  (What changes
\* without an observation, a cell going stale, is in no delta.)
BrowserShowsLevel1 ==
    \A f \in Fds : \A i \in Level1Of(f) :
        /\ conn[f].st = "open" /\ conn[f].clean
        /\ Complete(f, i) /\ \A j \in Level1Of(f) : j <= i
        => \A drawn \in SUBSET DOMAIN conn[f].owed :
             DrawnInTime(conn[f].owed, drawn)
                => draw_trav(Viewer(conn[f].owed, drawn)).cells = conn[f].owed[i].map

\* mission_unified_viewer.py: "we do not lose intermediate state".  A delta does lose
\* a full map that is still in the slot.
NoMapIsOverwritten ==
    \A f \in Fds : \A i \in Level1Of(f) :
        /\ conn[f].st = "open" /\ conn[f].clean
        /\ Complete(f, i) /\ \A j \in Level1Of(f) : j <= i
        => draw_trav(Viewer(conn[f].owed, {})).cells = conn[f].owed[i].map

\* What a new browser is sent of Level 2 is the whole map ("L2 is always a
\* full snapshot").
ReplayedLevel2IsWhole == cache.planning # None => cache.planning.full

\* The sequence numbers not yet handed to the clients.
InFlight == {sendq[i].seq : i \in DOMAIN sendq}
            \cup {producer[t].item.seq : t \in {u \in Threads : producer[u].at = "assigned"}}
            \cup IF item = None THEN {} ELSE {item.seq}

\* Every numbered event is eventually published or dropped by a full queue,
\* also when the server is being stopped.
EventuallyPublished == \A s \in 1..MaxSeq : s \in InFlight ~> s \notin InFlight

\* Threads that are neither blocked nor finished run.
Spec == Init /\ [][Next]_vars /\ WF_vars(Writing)
        /\ \A t \in Threads : WF_vars(enqueue_item(t))

\* What a client is sent can be parsed and is in order, whatever its socket takes
\* and whichever thread published last.
LinesWholeInOrder == TypeOK /\ WholeLines /\ ThreadOrder
=============================================================================
