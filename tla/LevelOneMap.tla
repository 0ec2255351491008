---------------------------- MODULE LevelOneMap ----------------------------
(***************************************************************************)
(* The way of the obstacle evidence of one mission: the raw accumulator    *)
(* (MissionLocalObstacleMap), its delta file, the assimilator's queue, the *)
(* traversability map (Level 1) with its log odds, endpoint spread,        *)
(* free-space rays and incrementally kept derived fields, and the delta    *)
(* handed to Level 2.  One thread runs all of it, inside run_once(); a     *)
(* write of the delta file may throw, which ends the mission, and the      *)
(* runner's destructor then finalizes the map.                             *)
(*                                                                         *)
(* Space is a line of voxels, the sensor sits in the centre of one, the    *)
(* confidence of every item is 1, and log odds are counted in small units. *)
(***************************************************************************)
EXTENDS Integers, Sequences, FiniteSets, SequencesExt, FiniteSetsExt

CONSTANTS
    CellCount,          \* voxels of the line
    Origins,            \* voxels the sensor may be in
    MaxUpdates,         \* bound: calls of run_once()
    MaxTime,            \* bound: the latest frame timestamp
    MaxItems,           \* max_evidence_per_update, counted in cells
    StaleAfter,         \* stale_after_seconds, 0 for never
    Radius,             \* clearance_search_radius_m
    Occupied,           \* log_odds_occupied_increment
    Spread,             \* the increments of the endpoint spread, nearest first
    Free,               \* log_odds_free_decrement
    MaxOdds,            \* log_odds_max, and max_score of the legacy merge
    MaxHits,            \* max_evidence_count
    CrossChecks,        \* raycast_cross_check_per_frame
    Sweep,              \* derived_fields_sweep_per_frame
    MaxPending,         \* max_pending_snapshots
    BackgroundLimit,    \* max_snapshots_per_background_tick
    HighPriorityLimit,  \* max_snapshots_per_high_priority_tick
    FlushTicks,         \* max_post_landing_flush_ticks
    WriteEvery,         \* write_every_updates of the delta writer
    None                \* no value

Cells == 0..(CellCount - 1)

ASSUME LevelOneAssumption ==
    /\ {CellCount, Sweep, MaxPending, BackgroundLimit, HighPriorityLimit,
        FlushTicks, MaxHits, MaxTime} \subseteq Nat \ {0}
    /\ {CrossChecks, MaxUpdates, MaxItems, StaleAfter, Radius, WriteEvery, Occupied,
        Free, MaxOdds} \subseteq Nat
    /\ Spread \in Seq(Nat)
    /\ Origins \subseteq Cells
    /\ None \notin Int /\ None \notin [hits : Nat, seen : Nat, free : BOOLEAN]

VARIABLES
    pc,         \* where run_once() is; "closed" after finalize
    now,        \* timestamp of the current frame
    origin,     \* voxel of the sensor in the current frame
    raw,        \* cells of the raw accumulator
    rawTouched, \* its touched_keys_since_drain_
    updates,    \* its summary_.update_count
    writer,     \* what the delta writer remembers of its last batch (times: of all)
    file,       \* what a reader of the delta file would rebuild
    pending,    \* pending_snapshots_ of the assimilator
    status,     \* status_ of the assimilator
    budget,     \* snapshots the tick or flush under way may still drain
    trav,       \* the traversability map
    lag,        \* per cell, updates of the map since its derived fields were computed
    planned     \* per cell, the odds last handed to Level 2

mapVars == <<pc, now, origin, raw, rawTouched, updates, writer, file, pending,
          status, budget, trav, lag, planned>>

-----------------------------------------------------------------------------
(* MissionLocalObstacleMap. *)

\* One item is evidence enough: it takes the score over its threshold.
RawCell == [hits : 0..(MaxHits + 1), seen : 0..MaxTime, free : BOOLEAN] \cup {None}

NoRawCell == [c \in Cells |-> None]

Kinds == {"occupied", "free"}

\* update(): one compacted update per cell.  items gives, for each cell with
\* accepted evidence, of which kinds it is.
raw_update(items, t) ==
    [c \in Cells |->
        IF c \notin DOMAIN items THEN raw[c]
        ELSE [hits |-> Min({MaxHits + 1, (IF raw[c] = None THEN 0 ELSE raw[c].hits)
                                             + (IF "occupied" \in items[c] THEN 1 ELSE 0)}),
              seen |-> t,
              free |-> "free" \in items[c] \/ (raw[c] # None /\ raw[c].free)]]

\* snapshot(): all cells, and no sensor origin.
raw_snapshot ==
    [cells |-> [c \in {d \in Cells : raw[d] # None} |-> raw[c]], origin |-> None]

\* drain_delta(): the touched cells, stamped by run_once() with the sensor origin.
raw_delta ==
    [cells |-> [c \in rawTouched |-> raw[c]], origin |-> origin]

-----------------------------------------------------------------------------
(* MissionObstacleMapDeltaWriter. *)

NoWriter == [count |-> 0, seen |-> 0, started |-> FALSE, times |-> {}]

\* append_if_due(): is a batch due?
Due == writer.count = 0 \/ updates - writer.count >= WriteEvery

\* render_delta_batch(): the cells observed after the last batch.
Batch == {c \in Cells : /\ raw[c] # None
                        /\ writer.seen # 0 => raw[c].seen > writer.seen}

-----------------------------------------------------------------------------
(* MissionLocalTraversabilityMap.  A map is a record of its members; tick  *)
(* is the set touched_this_tick of the update under way, log_odds is       *)
(* enable_log_odds.  Without log odds, the legacy merge, odds stands for   *)
(* the occupied score.                                                     *)

NoCell == [odds |-> 0, conf |-> 0, hits |-> 0, free |-> FALSE, seen |-> 0, state |-> "unknown",
           stale |-> FALSE, near |-> None]

NoTrav(logOdds) ==
    [cell |-> [c \in Cells |-> NoCell], order |-> <<>>, occupied |-> {},
     touched |-> {}, tick |-> {}, cross |-> 0, sweep |-> 0, log_odds |-> logOdds]

Clamp(odds) == Min({MaxOdds, Max({-MaxOdds, odds})})

\* A cell whose log odds a later stage changes.
Marked(cell, change, t) ==
    [cell EXCEPT !.odds = Clamp(cell.odds + change), !.seen = Max({cell.seen, t})]

Known(map) == Range(map.order)

\* ensure_cell(): a cell that is not there yet is appended.
ensure_cell(order, c) == IF c \in Range(order) THEN order ELSE Append(order, c)

\* The same for every cell of a list that is on the line.
ensure_cells(order, list) ==
    LET grown[i \in 0..Len(list)] ==
          IF i = 0 THEN order
          ELSE IF list[i] \in Cells THEN ensure_cell(grown[i - 1], list[i]) ELSE grown[i - 1]
    IN  grown[Len(list)]

\* The merge loop.  fresh lists the cells that are new, in the order in which
\* the snapshot holds them.
merge(map, snapshot, fresh) ==
    LET given == DOMAIN snapshot.cells IN
    [map EXCEPT
        !.cell = [c \in Cells |->
            IF c \notin given THEN map.cell[c]
            ELSE [map.cell[c] EXCEPT
                     !.odds = Clamp(IF map.log_odds THEN @ + Occupied ELSE Max({@, snapshot.cells[c].hits})),
                     !.conf = 1,
                     !.free = @ \/ snapshot.cells[c].free,
                     !.hits = Max({@, Min({snapshot.cells[c].hits, MaxHits})}),
                     !.seen = Max({@, snapshot.cells[c].seen})]],
        !.order = @ \o fresh,
        !.touched = @ \cup given,
        !.tick = given]

\* Stage 3: a new endpoint is spread away from the sensor, creating cells.
Behind(o, e) ==
    IF o = e THEN <<>>
    ELSE [s \in 1..Len(Spread) |-> e + (IF e > o THEN s ELSE -s)]

Distance(c, d) == IF c < d THEN d - c ELSE c - d

\* What the endpoints add to the log odds of c.
Gain(o, fresh, c) ==
    LET sum[i \in 0..Len(fresh)] ==
          IF i = 0 THEN 0
          ELSE sum[i - 1] + (IF c \in Range(Behind(o, fresh[i])) THEN Spread[Distance(c, fresh[i])] ELSE 0)
    IN  sum[Len(fresh)]

endpoint_spread(map, o, fresh, t) ==
    LET reached == {c \in Cells : \E e \in Range(fresh) : c \in Range(Behind(o, e))}
        created[i \in 0..Len(fresh)] ==
            IF i = 0 THEN map.order ELSE ensure_cells(created[i - 1], Behind(o, fresh[i]))
    IN [map EXCEPT
            !.cell = [c \in Cells |->
                IF c \notin reached THEN map.cell[c]
                ELSE Marked(map.cell[c], Gain(o, fresh, c), t)],
            !.order = created[Len(fresh)],
            !.touched = @ \cup reached,
            !.tick = @ \cup reached]

\* How many samples of the ray from o to e, half a voxel apart, fall into c.
SamplesIn(o, e, c) ==
    IF (o < c /\ c < e) \/ (e < c /\ c < o) THEN 2
    ELSE IF c = o /\ e < o THEN 1 ELSE 0

\* Mutant of free_ray: the crossed cells are not noted for the derived fields.
free_ray_unnoted(map, o, e, t) ==
    LET crossed == {c \in Known(map) : SamplesIn(o, e, c) > 0} IN
    [map EXCEPT
        !.cell = [c \in Cells |->
            IF c \notin crossed THEN map.cell[c]
            ELSE Marked(map.cell[c], -SamplesIn(o, e, c) * Free * map.cell[e].conf, t)],
        !.touched = @ \cup crossed]

\* Mutant of free_ray: the crossed cells are not handed on to Level 2.
free_ray_untouched(map, o, e, t) ==
    LET crossed == {c \in Known(map) : SamplesIn(o, e, c) > 0} IN
    [map EXCEPT
        !.cell = [c \in Cells |->
            IF c \notin crossed THEN map.cell[c]
            ELSE Marked(map.cell[c], -SamplesIn(o, e, c) * Free * map.cell[e].conf, t)],
        !.tick = @ \cup crossed]

\* Stages 2 and 2b: one ray lowers the cells it crosses, if they exist, by the
\* confidence of its endpoint: 0 when only the spread of others created it.
free_ray(map, o, e, t) ==
    LET crossed == {c \in Known(map) : SamplesIn(o, e, c) > 0} IN
    [map EXCEPT
        !.cell = [c \in Cells |->
            IF c \notin crossed THEN map.cell[c]
            ELSE Marked(map.cell[c], -SamplesIn(o, e, c) * Free * map.cell[e].conf, t)],
        !.touched = @ \cup crossed,
        !.tick = @ \cup crossed]

\* One step of the cursor of stage 2b: a ray is cast to a cell whose log odds are
\* positive.
cross_step(acc, o, t) ==
    LET e == acc.map.order[acc.map.cross + 1]
        m == [acc.map EXCEPT !.cross = (@ + 1) % Len(acc.map.order)]
    IN  IF acc.checked >= CrossChecks THEN acc
        ELSE IF m.cell[e].odds <= 0 THEN [acc EXCEPT !.map = m]
        ELSE [map |-> free_ray(m, o, e, t), checked |-> acc.checked + 1]

\* Stage 2b: the cursor walks once round the cells at most, until CrossChecks rays
\* have been cast.
cross_check(map, o, t) ==
    LET total == Len(map.order)
        start == [map EXCEPT !.cross = IF @ >= total THEN 0 ELSE @]
        walked[i \in 0..total] ==
            IF i = 0 THEN [map |-> start, checked |-> 0] ELSE cross_step(walked[i - 1], o, t)
    IN  IF total = 0 \/ CrossChecks = 0 THEN map ELSE walked[total].map

\* The background slice of recompute_derived_fields().
Slice(map) ==
    LET total == Len(map.order)
        start == IF map.sweep >= total THEN 0 ELSE map.sweep
    IN {map.order[((start + i) % total) + 1] : i \in 0..(Min({Sweep, total}) - 1)}

\* occupied_threshold = 1/2, for sigmoid(odds) or for the occupied score.
IsOccupied(map, c) == map.cell[c].odds >= IF map.log_odds THEN 0 ELSE 1
IsFree(map, c) == IF map.log_odds THEN map.cell[c].odds < 0 ELSE map.cell[c].free

\* The distance to the nearest of a set of cells, within the search radius.
Nearest(c, S) ==
    LET within == {Distance(c, d) : d \in S} \cap 0..Radius
    IN  IF within = {} THEN None ELSE Min(within)

\* recompute_derived_fields(): pass 1 sets state and the index of occupied
\* cells, pass 2 the clearance against that index.
recompute_derived_fields(map, t, clearance) ==
    LET total == Len(map.order)
        start == IF map.sweep >= total THEN 0 ELSE map.sweep
        redo == map.tick \cup (IF total = 0 THEN {} ELSE Slice(map))
        hot == {c \in redo : IsOccupied(map, c)}
        occupied == (map.occupied \ redo) \cup hot
        Stale(c) == StaleAfter > 0 /\ map.cell[c].seen # 0 /\ t - map.cell[c].seen > StaleAfter
        State(c) == IF c \in hot THEN (IF IsFree(map, c) THEN "mixed" ELSE "occupied")
                    ELSE IF Stale(c) THEN "stale"
                    ELSE IF IsFree(map, c) THEN "free" ELSE "unknown"
        Near(c) == IF clearance THEN Nearest(c, occupied) ELSE map.cell[c].near
    IN [map EXCEPT
            !.cell = [c \in Cells |->
                IF c \notin redo THEN map.cell[c]
                ELSE [map.cell[c] EXCEPT !.state = State(c), !.stale = Stale(c),
                                         !.near = Near(c)]],
            !.occupied = occupied,
            !.tick = {},
            !.sweep = IF total = 0 THEN @ ELSE (start + Min({Sweep, total})) % total]

\* Stage 2: a ray to every new cell.
free_rays(map, o, fresh, t) ==
    LET rayed[i \in 0..Len(fresh)] ==
          IF i = 0 THEN map ELSE free_ray(rayed[i - 1], o, fresh[i], t)
    IN  rayed[Len(fresh)]

\* The whole of update_from_mission_obstacle_map() but the derived fields. There are
\* no rays without log odds or without a sensor origin.
MapAfter(map, snapshot, fresh, t) ==
    LET o == snapshot.origin
        merged == merge(map, snapshot, fresh)
        spread == endpoint_spread(merged, o, fresh, t)
    IN  IF o = None \/ ~map.log_odds THEN merged ELSE cross_check(free_rays(spread, o, fresh, t), o, t)

update_from_mission_obstacle_map(map, snapshot, fresh, t, clearance) ==
    recompute_derived_fields(MapAfter(map, snapshot, fresh, t), t, clearance)

\* The orders in which the cells of a snapshot that are new may come.
Fresh(map, snapshot) ==
    SetToSeqs(DOMAIN snapshot.cells \ Known(map))

\* The cells whose derived fields an update computed anew.
Redone(map, snapshot, fresh, t) ==
    LET m == MapAfter(map, snapshot, fresh, t)
    IN m.tick \cup (IF m.order = <<>> THEN {} ELSE Slice(m))

-----------------------------------------------------------------------------
(* MissionMapAssimilator. *)

States == {"idle", "background", "post_landing", "finalized", "partial"}

NoStatus == [state |-> "idle", canForget |-> FALSE, dropped |-> FALSE]

\* enqueue_mission_obstacle_map(): the oldest snapshots make room.
enqueue(queue, snapshot) ==
    Append(SubSeq(queue, Max({1, Len(queue) - MaxPending + 2}), Len(queue)), snapshot)

enqueue_status(queue) ==
    [state |-> IF status.state = "finalized" THEN "idle" ELSE status.state,
     canForget |-> FALSE,
     dropped |-> status.dropped \/ Len(queue) >= MaxPending]

-----------------------------------------------------------------------------
MapInit ==
    /\ pc = "idle" /\ now = 1 /\ origin = None
    /\ raw = NoRawCell /\ rawTouched = {} /\ updates = 0
    /\ writer = NoWriter /\ file = NoRawCell
    /\ pending = <<>> /\ status = NoStatus /\ budget = 0
    /\ \E logOdds \in BOOLEAN : trav = NoTrav(logOdds)
    /\ lag = [c \in Cells |-> 0]
    /\ planned = [c \in Cells |-> None]

\* run_once(): the raw accumulator takes the evidence of a frame.  Evidence
\* that is not finite, of another map frame or beyond max_evidence_per_update
\* is not among the items.
update_raw(items, t, o) ==
    /\ pc = "idle" /\ updates < MaxUpdates
    /\ Cardinality(DOMAIN items) <= MaxItems
    /\ raw' = raw_update(items, t)
    /\ rawTouched' = rawTouched \cup DOMAIN items
    /\ updates' = updates + 1
    /\ now' = t /\ origin' = o
    /\ pc' = "updated"
    /\ UNCHANGED <<writer, file, pending, status, budget, trav, lag, planned>>

\* MissionObstacleMapDeltaWriter::append_if_due().
append_if_due ==
    /\ pc = "updated"
    /\ IF Due
       THEN /\ file' = [c \in Cells |-> IF c \in Batch THEN raw[c]
                                        ELSE IF writer.started THEN file[c] ELSE None]
            /\ writer' = [count |-> updates, seen |-> now, started |-> TRUE,
                         times |-> writer.times \cup {now}]
       ELSE UNCHANGED <<file, writer>>
    /\ pc' = "written"
    /\ UNCHANGED <<now, origin, raw, rawTouched, updates, pending, status, budget,
                   trav, lag, planned>>

\* write_if_due() of the artifact writer comes first, and may throw.
write_throws ==
    /\ pc = "updated" /\ pc' = "failed"
    /\ UNCHANGED <<now, origin, raw, rawTouched, updates, writer, file, pending, status, budget,
                   trav, lag, planned>>

\* A file cannot be opened or renamed: the exception leaves run_once(), and
\* with it the mission loop.  The first batch has already removed an old file.
append_throws ==
    /\ pc = "updated" /\ Due
    /\ file' = IF writer.started THEN file ELSE NoRawCell
    /\ writer' = [writer EXCEPT !.started = TRUE]
    /\ pc' = "failed"
    /\ UNCHANGED <<now, origin, raw, rawTouched, updates, pending, status, budget,
                   trav, lag, planned>>

\* drain_delta() and, when it is not empty, enqueue_mission_obstacle_map().
drain_delta ==
    /\ pc = "written"
    /\ IF rawTouched = {} THEN UNCHANGED <<pending, status>>
       ELSE /\ pending' = enqueue(pending, raw_delta)
            /\ status' = enqueue_status(pending)
    /\ rawTouched' = {}
    /\ budget' = BackgroundLimit
    /\ pc' = "drained"
    /\ UNCHANGED <<now, origin, raw, updates, writer, file, trav, lag, planned>>

\* tick() leaves the clearances out, tick_high_priority() computes them.
include_clearance == pc = "flush"

\* One turn of drain_snapshots(): the oldest snapshot goes into the map, with
\* the clearances only after landing.
drain_snapshots(fresh) ==
    LET snapshot == Head(pending) IN
    /\ pc \in {"drained", "flush"} /\ pending # <<>> /\ budget > 0
    /\ trav' = update_from_mission_obstacle_map(trav, snapshot, fresh, now, include_clearance)
    /\ lag' = [c \in Cells |-> IF c \in Redone(trav, snapshot, fresh, now) THEN 0
                               ELSE IF c \in Known(trav) THEN lag[c] + 1 ELSE lag[c]]
    /\ pending' = Tail(pending)
    /\ budget' = budget - 1
    /\ UNCHANGED <<pc, now, origin, raw, rawTouched, updates, writer, file, status,
                   planned>>

\* The end of tick(); run_once() goes on to Level 2 if a snapshot was drained.
tick ==
    /\ pc = "drained" /\ (pending = <<>> \/ budget = 0)
    /\ status' = [status EXCEPT
                     !.state = IF pending = <<>> THEN "idle" ELSE "background",
                     !.canForget = (pending = <<>>)]
    /\ pc' = IF budget < BackgroundLimit THEN "assimilated" ELSE "idle"
    /\ UNCHANGED <<now, origin, raw, rawTouched, updates, writer, file, pending,
                   budget, trav, lag, planned>>

\* drain_delta_for_planning_map(), handed to update_from_traversability().
drain_delta_for_planning_map ==
    /\ pc = "assimilated"
    /\ planned' = [c \in Cells |->
                      IF c \in trav.touched /\ trav.cell[c].hits > 0
                      THEN trav.cell[c].odds ELSE planned[c]]
    /\ trav' = [trav EXCEPT !.touched = {}]
    /\ pc' = "idle"
    /\ UNCHANGED <<now, origin, raw, rawTouched, updates, writer, file, pending,
                   status, budget, lag>>

\* Mutant of finalize_mission_map: the final snapshot is not enqueued.
finalize_without_snapshot ==
    /\ pc \in {"idle", "failed"}
    /\ status' = [status EXCEPT !.state = "post_landing"]
    /\ budget' = FlushTicks * HighPriorityLimit
    /\ pc' = "flush"
    /\ UNCHANGED <<now, origin, raw, rawTouched, updates, writer, file, pending, trav, lag,
                   planned>>

\* finalize_mission_map_after_landing(): one full snapshot is enqueued, then
\* flush_after_landing() runs FlushTicks high-priority ticks at most.
finalize_mission_map ==
    /\ pc \in {"idle", "failed"}
    /\ IF updates = 0 THEN UNCHANGED <<pending, status>>
       ELSE /\ pending' = enqueue(pending, raw_snapshot)
            /\ status' = [enqueue_status(pending) EXCEPT !.state = "post_landing"]
    /\ budget' = FlushTicks * HighPriorityLimit
    /\ pc' = "flush"
    /\ UNCHANGED <<now, origin, raw, rawTouched, updates, writer, file, trav, lag,
                   planned>>

\* The end of flush_after_landing(); the artifact is written, the database closed.
flush_after_landing ==
    /\ pc = "flush" /\ (pending = <<>> \/ budget = 0)
    /\ status' = [status EXCEPT
                     !.state = IF pending = <<>> THEN "finalized" ELSE "partial",
                     !.canForget = (pending = <<>>)]
    /\ pc' = "closed"
    /\ UNCHANGED <<now, origin, raw, rawTouched, updates, writer, file, pending,
                   budget, trav, lag, planned>>

MapNext ==
    \/ \E S \in SUBSET Cells, t \in {now, now + 1}, o \in Origins :
          t <= MaxTime /\ \E items \in [S -> SUBSET Kinds \ {{}}] : update_raw(items, t, o)
    \/ append_if_due \/ write_throws \/ append_throws \/ drain_delta
    \/ \E fresh \in IF pending = <<>> THEN {} ELSE Fresh(trav, Head(pending)) :
          drain_snapshots(fresh)
    \/ tick \/ drain_delta_for_planning_map
    \/ finalize_mission_map \/ flush_after_landing

MapDone == pc = "closed" /\ UNCHANGED mapVars

MapSpec == MapInit /\ [][MapNext \/ MapDone]_mapVars

-----------------------------------------------------------------------------
TravCell == [odds : -MaxOdds..MaxOdds, conf : 0..1, hits : 0..MaxHits, free : BOOLEAN, seen : 0..MaxTime,
             state : {"unknown", "free", "occupied", "mixed", "stale"},
             stale : BOOLEAN, near : Cells \cup {None}]

\* The cursors stay inside the cells, the queue inside its limit, and the
\* order lists each cell once: the members of the three classes have their types.
MapTypeOK ==
    /\ pc \in {"idle", "updated", "written", "drained", "assimilated", "failed",
               "flush", "closed"}
    /\ now \in 1..MaxTime /\ origin \in Origins \cup {None}
    /\ raw \in [Cells -> RawCell] /\ file \in [Cells -> RawCell]
    /\ rawTouched \subseteq {c \in Cells : raw[c] # None}
    /\ updates \in 0..MaxUpdates
    /\ Len(pending) <= MaxPending
    /\ status.state \in States
    /\ trav.cell \in [Cells -> TravCell]
    /\ IsInjective(trav.order) /\ Known(trav) \subseteq Cells
    /\ trav.occupied \cup trav.touched \subseteq Known(trav)
    /\ trav.order # <<>> => {trav.cross, trav.sweep} \subseteq 0..(Len(trav.order) - 1)

\* The derived fields are computed for the touched cells and a slice of the
\* others only.  Even so the index of occupied cells is exactly the set of
\* cells whose score reaches the threshold, and no state contradicts it.
DerivedFieldsAreCurrent ==
    /\ trav.occupied = {c \in Known(trav) : IsOccupied(trav, c)}
    /\ \A c \in Known(trav) :
          trav.cell[c].state \in {"occupied", "mixed"} <=> IsOccupied(trav, c)

\* The round robin of recompute_derived_fields() reaches every cell, however
\* the map grows meanwhile: none waits longer than one round.
SweepReachesEveryCell ==
    \A c \in Known(trav) : lag[c] * Sweep < Len(trav.order)

\* Between two calls of run_once() everything observed has come through the
\* accumulator, the queue and Level 1 to Level 2, also the cells that only a
\* ray lowered: the drop-oldest queue never drops.
EvidenceReachesLevelTwo ==
    /\ ~status.dropped
    /\ pc = "idle" =>
          \A c \in Cells : raw[c] # None /\ raw[c].hits > 0 =>
              /\ trav.cell[c].hits = Min({raw[c].hits, MaxHits})
              /\ planned[c] = trav.cell[c].odds

\* can_forget_raw_evidence is said only when Level 1 holds all the evidence
\* that has been drained from the accumulator, and after landing all there is.
ForgettingIsSafe ==
    /\ status.canForget =>
          \A c \in Cells : raw[c] # None /\ c \notin rawTouched =>
              c \in Known(trav) /\ trav.cell[c].hits = Min({raw[c].hits, MaxHits})
    /\ pc = "closed" =>
          /\ status.state = "finalized"
          /\ \A c \in Cells : raw[c] # None =>
                c \in Known(trav) /\ trav.cell[c].hits = Min({raw[c].hits, MaxHits})

\* The artifact written after landing gives every observed cell its distance
\* to the nearest occupied cell within the search radius, or none where there is no
\* such cell, though clearances are never computed in flight.
FinalClearances ==
    pc = "closed" =>
        \A c \in Cells : raw[c] # None => trav.cell[c].near = Nearest(c, trav.occupied)

\* A reader of the delta file rebuilds the accumulator: it misses only what was
\* observed since the last batch, and what was observed again at the very
\* timestamp of some batch, the last or an earlier one, which render_delta_batch()
\* takes for written.
DeltaFileReplays ==
    \A c \in Cells : file[c] # raw[c] =>
        raw[c] # None /\ (raw[c].seen > writer.seen \/ raw[c].seen \in writer.times)

\* The comment in run_once(): evidence that was not drained is resynchronised
\* after landing and not lost.  Level 2 is not part of that.
LandingResyncsLevelTwo ==
    pc = "closed" => \A c \in Cells : raw[c] # None /\ raw[c].hits > 0 => planned[c] # None

\* The incremental map is the map: the index of occupied cells, the round robin and
\* the clearances after landing give what computing everything anew would.
DerivedFieldsAreKept ==
    MapTypeOK /\ DerivedFieldsAreCurrent /\ SweepReachesEveryCell /\ FinalClearances

\* No evidence gets lost on its two ways: to Level 2, and to the delta file.
EvidenceSurvives == EvidenceReachesLevelTwo /\ DeltaFileReplays
=============================================================================
