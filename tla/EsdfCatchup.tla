----------------------------- MODULE EsdfCatchup -----------------------------
(***************************************************************************)
(* How CoreStackRunner::run_once keeps the two views of the Level 2 map up *)
(* to date: the Level 3 distance field, caught up a little in every frame, *)
(* and the copy that a stream viewer (mission_unified_viewer.py) builds    *)
(* from the published snapshots, as far as they reach it.                  *)
(*                                                                         *)
(* Sequence numbers become sets.  A write_seq is only ever compared with   *)
(* esdf_last_l2_seq_, l2_last_published_seq_ or 0, so a cell is described  *)
(* by which of the three it exceeds.  The distance field is the set of     *)
(* voxels it treats as obstacles, along one axis; DistanceField has its    *)
(* windows and its distances.  What the sliding window drops, and what it  *)
(* finds in the database, is arbitrary here; PlanningMap has the detail.   *)
(* On the way to the viewer a line is the set of the written cells in      *)
(* memory whose latest write it carries: writing a cell again, or dropping *)
(* it from memory, takes it out.  The send queue is EventStream's: here a  *)
(* line reaches the viewer as it is published, or never.  Its delay would  *)
(* only let the viewer draw later, which it may do anyway.                 *)
(***************************************************************************)
EXTENDS DistanceField

CONSTANTS
    Keys,        \* the cells, by their coordinate
    MaxBatches   \* residency batches the model lets queue up

ASSUME CatchupAssumption ==
    /\ Keys \subseteq Int /\ IsFiniteSet(Keys)
    /\ MaxBatches \in Nat

VARIABLES
    resident,    \* the cells in memory
    occupied,    \* ... with a score of at least min_occupied_score
    written,     \* ... with write_seq > 0
    fresh,       \* ... with write_seq > esdf_last_l2_seq_
    unsent,      \* ... with write_seq > l2_last_published_seq_
    updated,     \* map_seq_ > 0
    sent,        \* l2_last_published_seq_ > 0
    esdf,        \* the voxels esdf_map_ knows as obstacles
    stored,      \* esdf_map_.cell_count() > 0: those voxels, or others near them
    configured,  \* compute_esdf() made esdf_map_, and with it its config_
    erased,      \* history: the voxels erased by an update that did not compute them
    esdf_sent,   \* esdf_seq_ > 0
    esdf_dirty,  \* esdf_dirty_since_publish_
    pending,     \* esdf_pending_residency_batches_
    slot,        \* the viewer's pendingPlanningSnapshot and pendingPlanningIsDelta
    shown,       \* planningCellsByKey: the written cells it shows as last written
    lost,        \* history: the cells whose latest write was in a line that was lost
    pc           \* the stage of run_once

l2Vars == <<resident, occupied, written, fresh, unsent, updated>>
fieldVars == <<esdf, stored, configured, erased>>
l3Vars == <<fieldVars, esdf_dirty, pending>>
viewerVars == <<slot, shown, lost>>
streamVars == <<sent, esdf_sent, viewerVars>>
catchupVars == <<l2Vars, l3Vars, streamVars, pc>>

\* planning_map_snapshot, which replaces what a viewer shows, or planning_map_delta.
PlanningLines == [full : BOOLEAN, cells : SUBSET Keys]
NoLine == [full |-> FALSE, cells |-> {}]

CatchupTypeOK ==
    /\ resident \subseteq Keys /\ occupied \subseteq resident
    /\ written \subseteq resident
    /\ fresh \subseteq written /\ unsent \subseteq written
    /\ updated \in BOOLEAN /\ sent \in BOOLEAN
    /\ esdf \subseteq Voxels(Keys) /\ erased \subseteq Voxels(Keys)
    /\ stored \in BOOLEAN /\ configured \in BOOLEAN
    /\ esdf_sent \in BOOLEAN /\ esdf_dirty \in BOOLEAN
    /\ pending \in Seq(SUBSET Keys)
    /\ slot \in PlanningLines
    /\ shown \subseteq Keys /\ lost \subseteq Keys
    /\ pc \in {"start", "slide", "update", "publish", "residency", "value"}

\* open_db has loaded what an earlier mission left.
CatchupInit ==
    /\ resident \in SUBSET Keys /\ occupied = resident
    /\ written = {} /\ fresh = {} /\ unsent = {}
    /\ updated = FALSE /\ sent = FALSE
    /\ esdf = {} /\ stored = FALSE /\ configured = FALSE /\ erased = {}
    /\ esdf_sent = FALSE /\ esdf_dirty = FALSE
    /\ pending = <<>>
    /\ slot = NoLine /\ shown = {} /\ lost = {}
    /\ pc = "start"

-----------------------------------------------------------------------------
\* The way to the viewer.

\* on_planning_map_snapshot: a full snapshot without cells is suppressed.  Any other
\* is lost when a full send queue drops it or json_line_fault finds fault with it;
\* else it is put in the viewer's one place for both events, where it overwrites
\* what has not been drawn yet.
SendPlanning(full, cells) ==
    \/ full /\ cells = {} /\ UNCHANGED viewerVars
    \/ /\ ~(full /\ cells = {})
       /\ \/ lost' = lost \cup cells /\ UNCHANGED slot
          \/ /\ slot' = [full |-> full, cells |-> cells]
             /\ lost' = (lost \cup slot.cells) \ cells
       /\ UNCHANGED shown

\* processPending, on the next animation frame: applyPlanningSnapshot or
\* applyPlanningDelta.
DrawPlanning ==
    /\ slot # NoLine
    /\ shown' = IF slot.full THEN slot.cells ELSE shown \cup slot.cells
    /\ slot' = NoLine
    /\ UNCHANGED <<l2Vars, l3Vars, sent, esdf_sent, lost, pc>>

-----------------------------------------------------------------------------
\* The field of the whole map, over a window with a margin of D0.
ComputeField ==
    /\ esdf' = Voxels(occupied)
    /\ stored' = (occupied # {})
    /\ configured' = TRUE
    /\ erased' = {}

\* The startup step, repeated in every frame until a distance field has been
\* published: compute the field, publish the map as snapshot(0), which holds
\* the cells with write_seq > 0, and publish the field.
StartupPublish ==
    /\ pc = "start" /\ ~esdf_sent
    /\ \/ ~stored /\ resident # {} /\ ComputeField
       \/ (stored \/ resident = {}) /\ UNCHANGED fieldVars
    /\ \/ resident = {} /\ UNCHANGED <<viewerVars, unsent, sent>>
       \/ /\ resident # {}
          /\ SendPlanning(TRUE, written) /\ unsent' = {} /\ sent' = updated
    /\ esdf_sent' = stored'
    /\ pc' = "slide"
    /\ UNCHANGED <<resident, occupied, written, fresh, updated, esdf_dirty, pending>>

SkipStartup ==
    /\ pc = "start" /\ esdf_sent
    /\ pc' = "slide"
    /\ UNCHANGED <<l2Vars, l3Vars, streamVars>>

\* The latest write of these cells is in no line, and the viewer does not show it.
Outdate(cells) ==
    /\ slot' = [slot EXCEPT !.cells = @ \ cells]
    /\ shown' = shown \ cells
    /\ lost' = lost \ cells

Drop(gone) ==
    /\ written' = written \ gone
    /\ fresh' = fresh \ gone
    /\ unsent' = unsent \ gone
    /\ Outdate(gone)

\* slide_window: cells are dropped from memory and others are read back, with
\* write_seq 0; the positions read back are queued.
SlideWindow ==
    /\ pc = "slide"
    /\ \E gone \in SUBSET resident, loaded \in SUBSET (Keys \ resident) :
        /\ Drop(gone)
        /\ resident' = (resident \ gone) \cup loaded
        /\ occupied' = (occupied \ gone) \cup loaded
        /\ \/ loaded = {} /\ UNCHANGED pending
           \/ /\ loaded # {} /\ Len(pending) < MaxBatches
              /\ pending' = Append(pending, loaded)
    /\ pc' \in {"update", "residency"}
    /\ updated' = (updated \/ pc' = "update")
    /\ UNCHANGED <<fieldVars, esdf_dirty, sent, esdf_sent>>

\* update_from_traversability writes a cell, which may leave it below the
\* minimum score ...
TouchCell(k) ==
    /\ pc = "update"
    /\ resident' = resident \cup {k}
    /\ occupied' \in {occupied \cup {k}, occupied \ {k}}
    /\ written' = written \cup {k}
    /\ fresh' = fresh \cup {k}
    /\ unsent' = unsent \cup {k}
    /\ Outdate({k})
    /\ UNCHANGED <<updated, l3Vars, sent, esdf_sent, pc>>

\* ... or evicts it.
EvictCell(k) ==
    /\ pc = "update" /\ k \in resident
    /\ Drop({k})
    /\ resident' = resident \ {k} /\ occupied' = occupied \ {k}
    /\ UNCHANGED <<updated, l3Vars, sent, esdf_sent, pc>>

FinishUpdate ==
    /\ pc = "update"
    /\ pc' \in {"publish", "residency"}
    /\ UNCHANGED <<l2Vars, l3Vars, streamVars>>

\* Mutant of Publish: the snapshot is never marked as a delta.
PublishAsFull ==
    /\ pc = "publish"
    /\ SendPlanning(TRUE, IF sent THEN unsent ELSE written)
    /\ unsent' = {} /\ sent' = updated
    /\ \/ esdf_dirty /\ stored /\ esdf_sent' = TRUE /\ esdf_dirty' = FALSE
       \/ ~(esdf_dirty /\ stored) /\ UNCHANGED <<esdf_sent, esdf_dirty>>
    /\ pc' = "residency"
    /\ UNCHANGED <<resident, occupied, written, fresh, updated, fieldVars, pending>>

\* The throttled publication: the cells written since the last one, marked as
\* a delta unless nothing had been published before, and the field.
Publish ==
    /\ pc = "publish"
    /\ SendPlanning(~sent, IF sent THEN unsent ELSE written)
    /\ unsent' = {} /\ sent' = updated
    /\ \/ esdf_dirty /\ stored /\ esdf_sent' = TRUE /\ esdf_dirty' = FALSE
       \/ ~(esdf_dirty /\ stored) /\ UNCHANGED <<esdf_sent, esdf_dirty>>
    /\ pc' = "residency"
    /\ UNCHANGED <<resident, occupied, written, fresh, updated, fieldVars, pending>>

-----------------------------------------------------------------------------
\* config_.cell_size_m: a LocalESDFMap that no compute_esdf() has made keeps the
\* default, one Level 2 cell.
CellSize == IF configured THEN Spacing ELSE 1

\* update_incremental erases the field around the bounding box of s, and merges
\* the grid computed for it.
UpdateIncremental(s) ==
    \/ s = {} /\ UNCHANGED fieldVars
    \/ /\ s # {}
       /\ LET grid == {v \in Voxels(Keys) : InGrid(v, s, CellSize)}
              gone == {v \in Voxels(Keys) : InErased(v, s, CellSize)}
          IN  /\ esdf' = (esdf \ gone) \cup (Voxels(occupied) \cap grid)
              /\ erased' = (erased \cup gone) \ grid
       /\ stored' \in {TRUE} \cup (IF esdf' = {} THEN {FALSE} ELSE {})
       /\ stored' => stored \/ esdf' # {}
       /\ UNCHANGED configured

\* Mutant of ApplyBatch: the batch is popped and dropped.
DropBatch ==
    /\ pc = "residency" /\ pending # <<>>
    /\ pending' = Tail(pending)
    /\ esdf_dirty' = TRUE
    /\ UNCHANGED <<l2Vars, streamVars, pc, fieldVars>>

\* One residency batch, while the time budget lasts.
ApplyBatch ==
    /\ pc = "residency" /\ pending # <<>>
    /\ UpdateIncremental(Head(pending))
    /\ pending' = Tail(pending)
    /\ esdf_dirty' = TRUE
    /\ UNCHANGED <<l2Vars, streamVars, pc>>

EndResidency ==
    /\ pc = "residency"
    /\ pc' = "value"
    /\ UNCHANGED <<l2Vars, l3Vars, streamVars>>

\* The value delta, at most once per interval.
PullValueDelta ==
    /\ pc = "value"
    /\ UpdateIncremental(fresh)
    /\ esdf_dirty' = (esdf_dirty \/ fresh # {})
    /\ fresh' = {}
    /\ pc' = "start"
    /\ UNCHANGED <<resident, occupied, written, unsent, updated, pending, streamVars>>

\* Mutant of ThrottleValueDelta: the sequence number advances although the pull
\* was only attempted.
ThrottleAndAdvance ==
    /\ pc = "value"
    /\ fresh' = {}
    /\ pc' = "start"
    /\ UNCHANGED <<resident, occupied, written, unsent, updated, l3Vars, streamVars>>

ThrottleValueDelta ==
    /\ pc = "value"
    /\ pc' = "start"
    /\ UNCHANGED <<l2Vars, l3Vars, streamVars>>

CatchupNext ==
    \/ StartupPublish \/ SkipStartup \/ SlideWindow \/ FinishUpdate \/ Publish
    \/ \E k \in Keys : TouchCell(k) \/ EvictCell(k)
    \/ ApplyBatch \/ EndResidency \/ PullValueDelta \/ ThrottleValueDelta
    \/ DrawPlanning

CatchupSpec == CatchupInit /\ [][CatchupNext]_catchupVars

\* Frames keep coming and each ends; the budget is positive, so again and again
\* a frame with a queue applies a batch; and the interval of the value delta
\* passes.
CatchupFairSpec ==
    /\ CatchupSpec
    /\ WF_catchupVars(StartupPublish \/ SkipStartup \/ SlideWindow \/ FinishUpdate
               \/ Publish \/ EndResidency \/ PullValueDelta \/ ThrottleValueDelta)
    /\ SF_catchupVars(ApplyBatch)
    /\ SF_catchupVars(PullValueDelta)

-----------------------------------------------------------------------------
\* The cells of the batches that wait.
Batches == UNION {pending[i] : i \in DOMAIN pending}

Queued == fresh \cup Batches

\* The occupied cells whose voxel the field does not know.
Missing == {k \in occupied : Voxel(k) \notin esdf}

\* What the distance field has not seen is queued for it: once a frame is past
\* the startup step, an occupied cell that is missing from the field is in the
\* next value delta or in a residency batch, however the cell came, went and came
\* back -- or an update of a neighbour erased its voxel.
MissingIsExplained ==
    pc # "start" => \A k \in Missing : k \in Queued \/ Voxel(k) \in erased

\* A viewer that has been connected from the start shows every cell in memory that
\* this run wrote, as it was last written, except those the next publication will
\* send, those of the line it has not drawn yet, and those whose line was lost:
\* dropped from the send queue, faulty, or overwritten before it was drawn.  The deltas add
\* up to the map, across the startup snapshots and the cells that come and go, and
\* a lost cell is the only kind nothing will bring before it is written again.
ViewersLackOnlyUnsent ==
    written \subseteq shown \cup unsent \cup slot.cells \cup lost

\* Every obstacle that is queued reaches the distance field, or leaves the map
\* first.
QueuedReachesField ==
    \A k \in Keys : (k \in Queued) ~> (Voxel(k) \in esdf \/ k \notin occupied)

\* On every column of a few voxels, whatever the earlier phases
\* left there, dt1d finds the nearest source, and the three phases of
\* compute_esdf together find the nearest obstacle of a small grid whose voxels
\* are taller than wide.
EdtExactOnSmallGrids ==
    /\ \A f \in [0..4 -> {0, 1, 4, InfSq}], s \in 1..2 :
        dt1d(f, s) = [q \in 0..4 |-> Min({InfSq} \cup
                        {s * s * (q - p) * (q - p) + f[p] : p \in {i \in 0..4 : f[i] < InfSq}})]
    /\ \A occ \in SUBSET ((0..1) \X (0..1) \X (0..1)) :
        compute_esdf(occ, <<2, 2, 2>>, <<1, 1, 2>>) =
            [c \in (0..1) \X (0..1) \X (0..1) |-> Min({InfSq} \cup
                {(c[1] - o[1]) * (c[1] - o[1]) + (c[2] - o[2]) * (c[2] - o[2])
                    + 4 * (c[3] - o[3]) * (c[3] - o[3]) : o \in occ})]

\* A field that is stored holds exact distances: compute_esdf() agrees with the
\* nearest obstacle, found by trying them all.
EdtIsExact == stored => EdtExactOnSmallGrids

\* core_stack_runner.hpp: "every L2 change must eventually reach it -- never
\* silently dropped".  It does not hold: an update erases more than it computes.
MissingIsQueued == pc # "start" => Missing \subseteq Queued

\* local_esdf_map.hpp: query() finds the cell of a position.  It does not hold on
\* a fresh site, where the field is stored by one voxel size and read by another.
QueryUsesTheStoredSize == esdf # {} => configured

\* core_stack_runner_run.cpp: "every L2 change -- value or residency -- must
\* eventually reach it", so what left the map would leave the field, too.  It
\* does not: an evicted cell is in no delta and no batch.
ChangesReachField ==
    \A k \in Keys : (Voxel(k) \in esdf /\ k \notin occupied) ~> (Voxel(k) \notin esdf \/ k \in occupied)

\* core_stack_runner_run.cpp: "Publish full L2 snapshot so connecting viewers
\* see the persisted map".  The cells loaded at startup have write_seq 0 and are
\* left out.
ViewersSeePersistedMap ==
    [][pc = "start" /\ ~esdf_sent /\ slot' # slot => resident \subseteq slot'.cells]_catchupVars

\* core_stack_runner_run.cpp: "publish a full snapshot every time L1 is published",
\* so nothing a viewer missed would stay missing.  The snapshot is a delta: what is
\* lost stays lost until the cell is written again.
NothingStaysLost == \A k \in Keys : (k \in lost) ~> (k \notin lost)
=============================================================================
