----------------------------- MODULE PlanningMap -----------------------------
(***************************************************************************)
(* MissionLocalPlanningMap, the persistent "Level 2" obstacle map, with    *)
(* the two threads of CoreStackRunner that use it.  The main thread slides *)
(* the in-memory window after the drone and merges Level 1 evidence into   *)
(* it; the flush thread writes what changed to SQLite; the destructor      *)
(* stops the thread, flushes once more and closes the database.            *)
(*                                                                         *)
(* A cell is its log odds.  The score is the sigmoid of the log odds, so   *)
(* comparing it with min_occupied_score is comparing the log odds with     *)
(* MinOdds; the sentinel score 0 of a cell that is to be swept is its      *)
(* membership of cleared.  Keys and positions lie on a line.  Both threads *)
(* share one SQLite connection, so the main thread reads the rows of an    *)
(* unfinished transaction: rows is what the connection sees, durable what  *)
(* has been committed.                                                     *)
(***************************************************************************)
EXTENDS Integers

CONSTANTS
    Keys,           \* the cells, by their coordinate
    Positions,      \* where the drone may be
    Horizon,        \* horizon_m
    ObservedRange,  \* how far from the last slide position evidence arrives
    MaxOdds,        \* log_odds_max
    EvictOdds,      \* log_odds_eviction_threshold
    MinOdds,        \* the log odds whose sigmoid is min_occupied_score
    OccupiedSteps,  \* confidence-weighted log_odds_occupied_increment
    FreeSteps,      \* confidence-weighted log_odds_free_decrement
    None            \* no cell, no row, no position

ASSUME PlanningMapAssumption ==
    /\ Keys \subseteq Int /\ Positions \subseteq Int
    /\ Horizon \in Nat /\ ObservedRange \in Nat
    /\ MaxOdds \in Nat
    /\ EvictOdds \in (-MaxOdds)..0 /\ MinOdds \in (-MaxOdds)..0
    /\ OccupiedSteps \subseteq Nat \ {0} /\ FreeSteps \subseteq Nat \ {0}
    /\ None \notin Int

VARIABLES
    cells,          \* cells_ and cell_index_
    cleared,        \* the cells whose score is the sentinel 0
    local_dirty,    \* local_dirty of update_from_traversability
    local_evicted,  \* local_evicted
    dirty_cells,    \* dirty_cells_
    evicted_keys,   \* evicted_keys_
    batch,          \* to_upsert and to_delete of each flusher
    todo,           \* the statements of the batch not yet executed
    rows,           \* the table as the connection sees it
    durable,        \* the table as last committed
    last_slide_pos, \* last_slide_pos_, None before the first slide
    dirty_snap,     \* dirty_snap of load_window_from_db
    pc,             \* where the main thread is
    thread,         \* where the flush thread is
    flush_stop,     \* planning_map_flush_stop_
    reloaded,       \* history: cells as the window read them from the table
    exposed         \* history: cells in memory whose deletion was queued

mapVars == <<cells, cleared, local_dirty, local_evicted>>
queueVars == <<dirty_cells, evicted_keys>>
dbVars == <<batch, todo, rows, durable>>
windowVars == <<last_slide_pos, dirty_snap>>
historyVars == <<reloaded, exposed>>
vars == <<mapVars, queueVars, dbVars, windowVars, pc, thread, flush_stop,
          historyVars>>

Odds == (-MaxOdds)..MaxOdds

Tables == [Keys -> Odds \cup {None}]

Empty == [k \in Keys |-> None]

Present(t) == {k \in Keys : t[k] # None}

Flushers == {"main", "thread"}

NoBatch == [up |-> Empty, del |-> {}]

NothingToDo == [up |-> {}, del |-> {}]

PlanningTypeOK ==
    /\ cells \in Tables
    /\ cleared \subseteq Keys
    /\ local_dirty \in Tables /\ local_evicted \subseteq Keys
    /\ dirty_cells \in Tables /\ evicted_keys \subseteq Keys
    /\ batch \in [Flushers -> [up : Tables, del : SUBSET Keys]]
    /\ todo \in [Flushers -> [up : SUBSET Keys, del : SUBSET Keys]]
    /\ rows \in Tables /\ durable \in Tables
    /\ last_slide_pos \in Positions \cup {None}
    /\ dirty_snap \in Tables
    /\ pc \in {"slide", "load", "update", "join", "close", "write",
               "closed", "crashed"}
    /\ thread \in {"sleep", "flush", "write", "exited"}
    /\ flush_stop \in BOOLEAN
    /\ reloaded \subseteq Keys /\ exposed \subseteq Keys

-----------------------------------------------------------------------------
\* open_db: the map holds every row with a sufficient score.
Readable(t) ==
    [k \in Keys |-> IF t[k] # None /\ t[k] >= MinOdds THEN t[k] ELSE None]

PlanningInit ==
    /\ cells = Empty /\ cleared = {}
    /\ local_dirty = Empty /\ local_evicted = {}
    /\ dirty_cells = Empty /\ evicted_keys = {}
    /\ batch = [f \in Flushers |-> NoBatch]
    /\ todo = [f \in Flushers |-> NothingToDo]
    /\ rows = Empty /\ durable = Empty
    /\ last_slide_pos = None /\ dirty_snap = Empty
    /\ pc = "slide" /\ thread = "sleep" /\ flush_stop = FALSE
    /\ reloaded = {} /\ exposed = {}

\* Nothing but the committed table outlives a process; an open transaction is
\* rolled back.
Forget ==
    /\ cleared' = {} /\ local_dirty' = Empty /\ local_evicted' = {}
    /\ dirty_cells' = Empty /\ evicted_keys' = {}
    /\ batch' = [f \in Flushers |-> NoBatch]
    /\ todo' = [f \in Flushers |-> NothingToDo]
    /\ rows' = durable
    /\ last_slide_pos' = None /\ dirty_snap' = Empty
    /\ flush_stop' = FALSE
    /\ reloaded' = {} /\ exposed' = {}
    /\ UNCHANGED durable

\* The next run of the program opens the same file and starts its thread.
Open ==
    /\ pc \in {"closed", "crashed"}
    /\ Forget
    /\ cells' = Readable(durable)
    /\ pc' = "slide" /\ thread' = "sleep"

-----------------------------------------------------------------------------
\* The main thread: slide_window and update_from_traversability.

Distance(a, b) == IF a < b THEN b - a ELSE a - b

\* The window moves when the drone is a quarter of the horizon away from where
\* it moved last.
Moved(p) ==
    \/ last_slide_pos = None
    \/ last_slide_pos # None /\ 4 * Distance(p, last_slide_pos) >= Horizon

StayInWindow ==
    /\ pc = "slide"
    /\ \E p \in Positions : ~Moved(p)
    /\ pc' = "update"
    /\ UNCHANGED <<mapVars, queueVars, dbVars, windowVars, thread, flush_stop,
                   historyVars>>

\* evict_far_cells touches neither dirty_cells_ nor evicted_keys_.
EvictFarCells(c, p) ==
    [k \in Keys |-> IF Distance(k, p) > 2 * Horizon THEN None ELSE c[k]]

\* slide_window up to the copy of dirty_cells_ that load_window_from_db takes
\* under the lock.
SlideWindow(p) ==
    /\ pc = "slide" /\ Moved(p)
    /\ last_slide_pos' = p
    /\ cells' = EvictFarCells(cells, p)
    /\ dirty_snap' = dirty_cells
    /\ pc' = "load"
    /\ reloaded' = reloaded \cap Present(cells')
    /\ exposed' = exposed \cap Present(cells')
    /\ UNCHANGED <<cleared, local_dirty, local_evicted, queueVars, dbVars,
                   thread, flush_stop>>

\* The keys the SELECT returns that are not in memory.
Loadable ==
    {k \in Keys : /\ cells[k] = None
                  /\ Distance(k, last_slide_pos) <= Horizon
                  /\ Readable(rows)[k] # None}

QueuedDeletes == evicted_keys \cup UNION {batch[f].del : f \in Flushers}

\* The rest of load_window_from_db.  The SELECT does not read log_odds, so a
\* cell that was not dirty starts again from 0.
LoadWindowFromDb ==
    /\ pc = "load"
    /\ cells' = [k \in Keys |->
                    IF k \notin Loadable THEN cells[k]
                    ELSE IF dirty_snap[k] # None THEN dirty_snap[k] ELSE 0]
    /\ dirty_snap' = Empty
    /\ pc' = "update"
    /\ reloaded' = reloaded \cup Loadable
    /\ exposed' = exposed \cup (Loadable \cap QueuedDeletes)
    /\ UNCHANGED <<cleared, local_dirty, local_evicted, queueVars, dbVars,
                   last_slide_pos, thread, flush_stop>>

InSight(k) == Distance(k, last_slide_pos) <= ObservedRange

\* One Occupied or Mixed cell of the Level 1 delta.
MergeOccupied(k) ==
    /\ pc = "update" /\ InSight(k)
    /\ \E inc \in OccupiedSteps :
        LET sum == (IF cells[k] = None THEN 0 ELSE cells[k]) + inc
            log_odds == IF sum < MaxOdds THEN sum ELSE MaxOdds
        IN  /\ cells' = [cells EXCEPT ![k] = log_odds]
            /\ local_dirty' = [local_dirty EXCEPT ![k] = log_odds]
    /\ cleared' = cleared \ {k}
    /\ UNCHANGED <<local_evicted, queueVars, dbVars, windowVars, pc, thread,
                   flush_stop, historyVars>>

\* One ObservedFree cell of the delta; it matters only to an existing cell.
MergeFree(k) ==
    /\ pc = "update" /\ InSight(k) /\ cells[k] # None
    /\ \E dec \in FreeSteps :
        LET log_odds == IF cells[k] - dec > -MaxOdds THEN cells[k] - dec ELSE -MaxOdds
        IN  /\ cells' = [cells EXCEPT ![k] = log_odds]
            /\ \/ /\ log_odds < EvictOdds
                  /\ cleared' = cleared \cup {k}
                  /\ local_evicted' = local_evicted \cup {k}
                  /\ UNCHANGED local_dirty
               \/ /\ log_odds >= EvictOdds
                  /\ cleared' = cleared \ {k}
                  /\ local_dirty' = [local_dirty EXCEPT ![k] = log_odds]
                  /\ UNCHANGED local_evicted
    /\ UNCHANGED <<queueVars, dbVars, windowVars, pc, thread, flush_stop,
                   historyVars>>

\* Mutant of HandOver: an entry already in the dirty map is not overwritten.
HandOverOnce(k) ==
    IF k \in local_evicted THEN None
    ELSE IF dirty_cells[k] # None THEN dirty_cells[k]
    ELSE local_dirty[k]

\* The dirty entry of k after the merge under the lock: the last write wins, an
\* eviction drops it.
HandOver(k) ==
    IF k \in local_evicted THEN None
    ELSE IF local_dirty[k] # None THEN local_dirty[k]
    ELSE dirty_cells[k]

\* The end of update_from_traversability: sweep what is still cleared, then
\* hand the changes to the flush under the lock.  An eviction drops the dirty
\* entry of its key; a dirty entry does not drop the eviction.
FinishUpdate ==
    /\ pc = "update"
    /\ cells' = [k \in Keys |->
                    IF k \in local_evicted \cap cleared THEN None ELSE cells[k]]
    /\ dirty_cells' = [k \in Keys |-> HandOver(k)]
    /\ evicted_keys' = evicted_keys \cup local_evicted
    /\ cleared' = {} /\ local_dirty' = Empty /\ local_evicted' = {}
    /\ pc' = "slide"
    /\ reloaded' = (reloaded \ Present(local_dirty)) \cap Present(cells')
    /\ exposed' = ((exposed \ Present(local_dirty))
                       \cup (Present(local_dirty) \cap evicted_keys'))
                     \cap Present(cells')
    /\ UNCHANGED <<dbVars, windowVars, thread, flush_stop>>

-----------------------------------------------------------------------------
\* flush_dirty_to_db, called by the flush thread and by close_db.

\* Mutant of TakeBatch: the evictions are cleared and never executed.
TakeUpserts(f) ==
    /\ batch' = [batch EXCEPT ![f] = [up |-> dirty_cells, del |-> {}]]
    /\ todo' = [todo EXCEPT ![f] = [up |-> Present(dirty_cells), del |-> {}]]
    /\ dirty_cells' = Empty /\ evicted_keys' = {}

\* The snapshot under the lock.
TakeBatch(f) ==
    /\ batch' = [batch EXCEPT ![f] = [up |-> dirty_cells, del |-> evicted_keys]]
    /\ todo' = [todo EXCEPT ![f] = [up |-> Present(dirty_cells), del |-> evicted_keys]]
    /\ dirty_cells' = Empty /\ evicted_keys' = {}

\* The statements of the transaction: the upserts, then the deletes.
Upsert(f, k) ==
    /\ k \in todo[f].up
    /\ todo' = [todo EXCEPT ![f].up = @ \ {k}]
    /\ rows' = [rows EXCEPT ![k] = batch[f].up[k]]

Delete(f, k) ==
    /\ todo[f].up = {} /\ k \in todo[f].del
    /\ todo' = [todo EXCEPT ![f].del = @ \ {k}]
    /\ rows' = [rows EXCEPT ![k] = None]

Commit(f) ==
    /\ todo[f] = NothingToDo
    /\ durable' = rows
    /\ batch' = [batch EXCEPT ![f] = NoBatch]

Statement(f) ==
    /\ \E k \in Keys : Upsert(f, k) \/ Delete(f, k)
    /\ UNCHANGED <<mapVars, queueVars, batch, durable, windowVars, pc, thread,
                   flush_stop, historyVars>>

-----------------------------------------------------------------------------
\* The flush thread of CoreStackRunner.
ThreadWakes ==
    /\ thread = "sleep"
    /\ thread' = IF flush_stop THEN "exited" ELSE "flush"
    /\ UNCHANGED <<mapVars, queueVars, dbVars, windowVars, pc, flush_stop,
                   historyVars>>

ThreadTakes ==
    /\ thread = "flush" /\ TakeBatch("thread")
    /\ thread' = "write"
    /\ UNCHANGED <<mapVars, rows, durable, windowVars, pc, flush_stop, historyVars>>

ThreadCommits ==
    /\ thread = "write" /\ Commit("thread")
    /\ thread' = "sleep"
    /\ UNCHANGED <<mapVars, queueVars, todo, rows, windowVars, pc, flush_stop,
                   historyVars>>

FlushThread ==
    \/ ThreadWakes \/ ThreadTakes \/ ThreadCommits
    \/ thread = "write" /\ Statement("thread")

\* ~CoreStackRunner: stop and join the thread, then close_db.
BeginShutdown ==
    /\ pc = "slide"
    /\ flush_stop' = TRUE /\ pc' = "join"
    /\ UNCHANGED <<mapVars, queueVars, dbVars, windowVars, thread, historyVars>>

\* Mutant of JoinThread: the thread is detached instead.
DetachThread ==
    /\ pc = "join"
    /\ pc' = "close"
    /\ UNCHANGED <<mapVars, queueVars, dbVars, windowVars, thread, flush_stop,
                   historyVars>>

JoinThread ==
    /\ pc = "join" /\ thread = "exited"
    /\ pc' = "close"
    /\ UNCHANGED <<mapVars, queueVars, dbVars, windowVars, thread, flush_stop,
                   historyVars>>

CloseTakes ==
    /\ pc = "close" /\ TakeBatch("main")
    /\ pc' = "write"
    /\ UNCHANGED <<mapVars, rows, durable, windowVars, thread, flush_stop,
                   historyVars>>

CloseCommits ==
    /\ pc = "write" /\ Commit("main")
    /\ pc' = "closed"
    /\ UNCHANGED <<mapVars, queueVars, todo, rows, windowVars, thread,
                   flush_stop, historyVars>>

Shutdown ==
    \/ JoinThread \/ CloseTakes \/ CloseCommits
    \/ pc = "write" /\ Statement("main")

\* The process dies.
Crash ==
    /\ pc \notin {"closed", "crashed"}
    /\ Forget
    /\ cells' = Empty
    /\ pc' = "crashed" /\ thread' = "exited"

Frame ==
    \/ StayInWindow \/ LoadWindowFromDb \/ FinishUpdate
    \/ \E p \in Positions : SlideWindow(p)
    \/ \E k \in Keys : MergeOccupied(k) \/ MergeFree(k)

PlanningNext ==
    \/ Frame \/ FlushThread \/ BeginShutdown \/ Shutdown \/ Crash \/ Open

PlanningSpec == PlanningInit /\ [][PlanningNext]_vars

\* The flush thread is scheduled, and so is the main thread: frames keep
\* coming, a frame's delta is finite, and a destructor that has begun runs to
\* its end.
PlanningFairness ==
    /\ WF_vars(FlushThread)
    /\ WF_vars(Shutdown)
    /\ WF_vars(FinishUpdate)

PlanningFairSpec == PlanningSpec /\ PlanningFairness

-----------------------------------------------------------------------------
\* Where the next transactions will take a row: the last value on its way to
\* the table, or the committed one.
OnItsWay(k) ==
    IF dirty_cells[k] # None THEN dirty_cells[k]
    ELSE IF batch["thread"].up[k] # None THEN batch["thread"].up[k]
    ELSE IF batch["main"].up[k] # None THEN batch["main"].up[k]
    ELSE durable[k]

\* No update is lost between memory, the dirty map, the batch of a flush in
\* progress and the committed table, whatever the two threads interleave: a
\* cell in memory always has its value, or for one the window read back some
\* value, in one of them.  The exception is a cell that was seen again while
\* its eviction was still queued, until it is next updated.
NothingUpdatedIsLost ==
    pc # "update" =>
        \A k \in Present(cells) \ exposed :
            IF k \in reloaded THEN OnItsWay(k) # None
            ELSE OnItsWay(k) = cells[k]

\* close_db leaves nothing behind: when the destructor is done, no change waits
\* in memory, no transaction is open and no thread uses the connection.
CloseFlushesEverything ==
    pc = "closed" =>
        /\ Present(dirty_cells) = {} /\ evicted_keys = {}
        /\ batch = [f \in Flushers |-> NoBatch]
        /\ rows = durable /\ thread = "exited"

\* A cell that free-space evidence cleared leaves the table, unless it comes
\* back or the process dies first.
EvictionReachesTable ==
    \A k \in Keys :
        (k \in evicted_keys /\ cells[k] = None)
            ~> (durable[k] = None \/ cells[k] # None \/ pc = "crashed")

\* mission_local_planning_map.hpp: "Persistent across missions: saved to disk at
\* landing", and "Cells only leave L2 when free-space evidence explicitly clears
\* them".  So an occupied cell in memory at landing has a row.
SavedAtLanding ==
    pc = "closed" =>
        \A k \in Present(cells) : cells[k] >= MinOdds => durable[k] # None

\* mission_local_planning_map_spatial.cpp: "re-entry (load_window_from_db)
\* correctly picks up the dirty value instead of the stale DB row".
ReentryPicksUpDirtyValue ==
    [][pc = "load" /\ pc' = "update" =>
        \A k \in Present(dirty_snap) :
            Distance(k, last_slide_pos) <= Horizon => cells'[k] # None]_vars
=============================================================================
