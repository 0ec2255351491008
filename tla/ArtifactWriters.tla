-------------------------- MODULE ArtifactWriters --------------------------
(***************************************************************************)
(* The two files a mission leaves behind for the offline tools: run_once() *)
(* hands every snapshot of the obstacle map to                             *)
(* MissionObstacleMapArtifactWriter, which writes it when enough updates   *)
(* have passed, and finalize_mission_map_after_landing() hands the last    *)
(* traversability map to MissionTraversabilityMapArtifactWriter.  Each     *)
(* write is two calls of atomic_write_text(): the map, then its meta file. *)
(*                                                                         *)
(* atomic_write_text() is four system calls, and the process may die       *)
(* between any two of them; the next run finds the files as they are.  A   *)
(* map is the times its cells were first observed, in order.               *)
(***************************************************************************)
EXTENDS Integers, Sequences

CONSTANTS
    ArtifactEvery,      \* write_every_updates
    MaxCells,           \* max_cells of the traversability map's writer; 0: no cap
    MaxMapUpdates,      \* bound: updates of the map, in all runs together
    MaxRuns             \* bound: runs that share the output paths

ASSUME ArtifactAssumption ==
    /\ ArtifactEvery \in Nat \ {0} /\ MaxCells \in Nat
    /\ MaxMapUpdates \in Nat /\ MaxRuns \in Nat \ {0}

VARIABLES
    mission,    \* what the process does, and whether it is there
    enabled,    \* the writers that are enabled
    run,        \* the current run (ghost)
    map_updates, \* updates of the map in all runs (ghost)
    map,        \* update count, last update timestamp and cells of the map
    progress,   \* last_written_update_count_ and the first timestamp of each writer
    job,        \* the call of atomic_write_text() in progress
    disk,       \* the files
    written,    \* count of the last artifact each writer put in place in this run (ghost)
    full,       \* some stream failed while the text was written (ghost)
    db_closed   \* close_db() was reached

mapFields == <<enabled, run, map_updates, map>>
artifactVars == <<mapFields, mission, progress, job, disk, written, full, db_closed>>

Writers == {"obstacle", "traversability"}
Files == {"map", "meta"}
Steps == {"open", "write", "remove", "rename"}
Unset == -1
Nothing == [run |-> 0, count |-> 0, first |-> 0, seen |-> <<>>, capped |-> FALSE, whole |-> TRUE]
NoJob == [writer |-> "obstacle", file |-> "map", step |-> "none", text |-> Nothing]

\* from_environment(): the traversability artifact comes with the other one.
from_environment == {{}, {"traversability"}, Writers}

Least(a, b) == IF a < b THEN a ELSE b

\* aligned_unix_ns(): both clocks are the same one, so it only fills in the unset
\* times and caps the others.
aligned(t, end) == IF t = 0 THEN end ELSE Least(t, end)

\* The minimum of a non-empty set of times.
Earliest(S) == CHOOSE t \in S : \A u \in S : t <= u

\* mission_start_unix_ns_ and first_update_timestamp_ns(): the first time any
\* cell was observed; a time of 0 is unset.
first_of(w, m) ==
    LET times == {m.seen[i] : i \in DOMAIN m.seen} \ {0} IN
    IF w = "obstacle" \/ m.clock # 0 THEN Earliest(times \cup {m.clock})
    ELSE IF times = {} THEN 0 ELSE Earliest(times)

\* render_artifact() and render_meta() of the obstacle map: all cells, their times
\* aligned.
render_obstacle(m, first) ==
    [run |-> run, count |-> m.count, first |-> first, capped |-> FALSE, whole |-> TRUE,
     seen |-> [i \in DOMAIN m.seen |-> aligned(m.seen[i], m.clock)]]

\* Those of the traversability map: capped_snapshot() keeps the first MaxCells
\* cells, and both texts say whether it dropped any.
render_traversability(m, first) ==
    LET dropped == MaxCells # 0 /\ Len(m.seen) > MaxCells
    IN  [run |-> run, count |-> m.count, first |-> first, capped |-> dropped, whole |-> TRUE,
         seen |-> IF dropped THEN SubSeq(m.seen, 1, MaxCells) ELSE m.seen]

\* last_written_update_count_ after a write.
noted(text) == text.count

\* The early returns of write_if_due() and write_snapshot().
due(w, m, force) ==
    /\ w \in enabled /\ m.count # 0
    /\ force \/ progress[w].last = 0 \/ m.count - progress[w].last >= ArtifactEvery

\* The file a write starts with; the other one follows.
starts_with == "map"

\* A write begins: the first timestamp is fixed by the first one of the run.
write_snapshot(w, m) ==
    LET first == IF progress[w].first # Unset THEN progress[w].first ELSE first_of(w, m)
    IN  /\ progress' = [progress EXCEPT ![w].first = first]
        /\ job' = [writer |-> w, file |-> starts_with, step |-> "open",
                   text |-> IF w = "obstacle" THEN render_obstacle(m, first)
                            ELSE render_traversability(m, first)]

\* One run_once(): the map is updated, then write_if_due() looks at its snapshot.
update_map(clock, cells) ==
    /\ mission = "flying" /\ job = NoJob /\ map_updates < MaxMapUpdates
    /\ LET m == [count |-> map.count + 1, clock |-> clock, seen |-> map.seen \o cells]
       IN  /\ map' = m /\ map_updates' = map_updates + 1
           /\ IF due("obstacle", m, FALSE) THEN write_snapshot("obstacle", m)
              ELSE UNCHANGED <<progress, job>>
    /\ UNCHANGED <<mission, enabled, run, disk, written, full, db_closed>>

\* finalize_mission_map_after_landing(), in the destructor.  What the assimilator
\* has drained is its own matter: nothing, or all of it.
finalize(drained) ==
    /\ mission \in {"flying", "failed"} /\ job = NoJob
    /\ LET m == [map EXCEPT !.count = drained]
       IN  IF due("traversability", m, TRUE)
           THEN /\ mission' = "closing" /\ write_snapshot("traversability", m)
                /\ UNCHANGED db_closed
           ELSE /\ mission' = "ended" /\ db_closed' = TRUE
                /\ UNCHANGED <<progress, job>>
    /\ UNCHANGED <<mapFields, disk, written, full>>

\* Mutant of After: the old file is removed before the new one is written.
AfterRemovesFirst(step) ==
    CASE step = "open" -> "remove" [] step = "remove" -> "write" [] OTHER -> "rename"

\* The order of the system calls of atomic_write_text().
After(step) ==
    CASE step = "open" -> "write" [] step = "write" -> "remove" [] OTHER -> "rename"

Put(place, content) == disk' = [disk EXCEPT ![job.writer][job.file][place] = content]
Advance == job' = [job EXCEPT !.step = After(@)]

\* The temporary file is opened, which empties it.
open_temp ==
    /\ job.step = "open"
    /\ Put("tmp", [job.text EXCEPT !.whole = FALSE]) /\ Advance
    /\ UNCHANGED <<mapFields, mission, progress, written, full, db_closed>>

\* The text is written and the stream closed; nobody looks at its state.
write_temp(ok) ==
    /\ job.step = "write"
    /\ Put("tmp", [job.text EXCEPT !.whole = ok]) /\ Advance
    /\ full' = (full \/ ~ok)
    /\ UNCHANGED <<mapFields, mission, progress, written, db_closed>>

\* The old file is removed; an error is ignored.
remove_target(ok) ==
    /\ job.step = "remove"
    /\ IF ok THEN Put("target", Nothing) ELSE UNCHANGED disk
    /\ Advance
    /\ UNCHANGED <<mapFields, mission, progress, written, full, db_closed>>

\* The temporary file takes its place.  The meta file follows the map; after it
\* the writer notes what it wrote, and the last write lets the runner close the
\* database.
rename_temp ==
    /\ job.step = "rename"
    /\ LET w == job.writer
           more == job.file = starts_with
           other == CHOOSE f \in Files : f # job.file
       IN  /\ disk' = [disk EXCEPT ![w][job.file] =
                          [target |-> disk[w][job.file].tmp, tmp |-> Nothing]]
           /\ written' = IF job.file = "map" THEN [written EXCEPT ![w] = job.text.count]
                         ELSE written
           /\ job' = IF more THEN [job EXCEPT !.file = other, !.step = "open"] ELSE NoJob
           /\ progress' = IF more THEN progress
                          ELSE [progress EXCEPT ![w].last = noted(job.text)]
           /\ IF ~more /\ w = "traversability" THEN mission' = "ended" /\ db_closed' = TRUE
              ELSE UNCHANGED <<mission, db_closed>>
    /\ UNCHANGED <<mapFields, full>>

\* The temporary file cannot be opened, or the rename fails: run_once() throws
\* out of the mission, and the destructor swallows what its own call throws.
write_throws ==
    /\ job.step \in {"open", "rename"}
    /\ mission' = IF mission = "flying" THEN "failed" ELSE "ended"
    /\ job' = NoJob
    /\ UNCHANGED <<mapFields, progress, disk, written, full, db_closed>>

\* The process is killed.
crash ==
    /\ mission \in {"flying", "failed", "closing"}
    /\ mission' = "crashed" /\ job' = NoJob
    /\ UNCHANGED <<mapFields, progress, disk, written, full, db_closed>>

\* The next run finds the same paths.
restart ==
    /\ mission \in {"ended", "crashed"} /\ run < MaxRuns
    /\ mission' = "flying" /\ run' = run + 1
    /\ map' = [count |-> 0, clock |-> 0, seen |-> <<>>]
    /\ progress' = [w \in Writers |-> [last |-> 0, first |-> Unset]]
    /\ written' = [w \in Writers |-> 0]
    /\ db_closed' = FALSE
    /\ UNCHANGED <<enabled, map_updates, job, disk, full>>

ArtifactInit ==
    /\ mission = "flying" /\ enabled \in from_environment /\ run = 1 /\ map_updates = 0
    /\ map = [count |-> 0, clock |-> 0, seen |-> <<>>]
    /\ progress = [w \in Writers |-> [last |-> 0, first |-> Unset]]
    /\ job = NoJob
    /\ disk = [w \in Writers |-> [f \in Files |-> [target |-> Nothing, tmp |-> Nothing]]]
    /\ written = [w \in Writers |-> 0] /\ full = FALSE /\ db_closed = FALSE

ArtifactNext ==
    \/ \E clock \in {map.clock, map.clock + 1} : \E cells \in {<<>>, <<clock>>} :
          update_map(clock, cells)
    \/ \E drained \in {0, map.count} : finalize(drained)
    \/ open_temp \/ rename_temp \/ write_throws \/ crash \/ restart
    \/ \E ok \in BOOLEAN : write_temp(ok) \/ remove_target(ok)

ArtifactDone == mission \in {"ended", "crashed"} /\ UNCHANGED artifactVars

ArtifactSpec == ArtifactInit /\ [][ArtifactNext \/ ArtifactDone]_artifactVars

-----------------------------------------------------------------------------
IsText(text) ==
    /\ text.run \in 0..run /\ text.capped \in BOOLEAN /\ text.whole \in BOOLEAN
    /\ text.run > 0 => text.count \in 1..map_updates
    /\ text.first \in Nat /\ text.seen \in Seq(Nat)

\* The files hold texts of the runs there were, and a writer has never noted a
\* count the map did not have.
ArtifactTypeOK ==
    /\ mission \in {"flying", "failed", "closing", "ended", "crashed"}
    /\ run \in 1..MaxRuns /\ map_updates \in 0..MaxMapUpdates /\ enabled \subseteq Writers
    /\ map.count \in 0..map_updates /\ map.clock \in 0..map.count
    /\ job.step \in Steps \cup {"none"} /\ job.file \in Files /\ job.writer \in Writers
    /\ \A w \in Writers :
          /\ progress[w].last \in 0..map.count /\ progress[w].first \in {Unset} \cup 0..map.clock
          /\ written[w] \in 0..map.count
          /\ \A f \in Files : IsText(disk[w][f].target) /\ IsText(disk[w][f].tmp)
    /\ full \in BOOLEAN /\ db_closed \in BOOLEAN

OnDisk(text) == text.run # 0
Older(a, b) == a.run < b.run \/ (a.run = b.run /\ a.count <= b.count)

\* atomic_write_text(): a tool that opens an artifact at any moment, of a running
\* or a crashed mission, finds a whole text or none, unless the disk was full.
ArtifactsAreWhole ==
    full \/ \A w \in Writers, f \in Files : disk[w][f].target.whole

\* The last map a run put in place is not lost: it, or a newer whole one, is under
\* its own name or under the temporary name wherever the process dies.
WrittenMapSurvives ==
    full \/ \A w \in Writers :
        written[w] > 0 =>
            \E text \in {disk[w]["map"].target, disk[w]["map"].tmp} :
                text.run = run /\ text.count >= written[w] /\ text.whole

\* write_if_due(): the meta file is never newer than the map beside it, and
\* between two writes of a flying mission both are of the same update.
MetaFollowsMap ==
    \A w \in Writers :
        LET text == disk[w]["map"].target  meta == disk[w]["meta"].target IN
        /\ (OnDisk(text) /\ OnDisk(meta)) => Older(meta, text)
        /\ (mission = "flying" /\ job = NoJob /\ progress[w].last > 0) =>
              meta.run = run /\ meta.count = text.count

\* Between two frames the obstacle map on disk lacks fewer updates than the
\* writer may skip, the last ones of the mission included: no final write follows.
ArtifactLagIsBounded ==
    (mission = "flying" /\ job = NoJob /\ "obstacle" \in enabled /\ map.count > 0) =>
        LET text == disk["obstacle"]["map"].target IN
        text.run = run /\ map.count - text.count < ArtifactEvery

\* mission_start_unix_ns_ is fixed at the first write, from the cells of that
\* moment: no cell of any later artifact was seen before it.
StartCoversCells ==
    \A w \in Writers :
        LET text == disk[w]["map"].target IN
        \A i \in DOMAIN text.seen : text.seen[i] # 0 => text.first <= text.seen[i]

\* A process that ends by itself has closed the planning map's database.  The
\* code does not keep this: when write_final() throws, the destructor swallows
\* the exception and close_db() is skipped.
EndClosesDatabase == mission = "ended" => db_closed

\* What the offline tools find after any crash: texts that are whole, the last map
\* that was put in place, a meta file that fits it, and an obstacle map that lacks
\* fewer updates than the writer may skip.
ArtifactsAreSound ==
    /\ ArtifactTypeOK /\ ArtifactsAreWhole /\ WrittenMapSurvives
    /\ MetaFollowsMap /\ ArtifactLagIsBounded /\ StartCoversCells
=============================================================================
