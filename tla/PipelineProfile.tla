-------------------------- MODULE PipelineProfile --------------------------
(***************************************************************************)
(* The pipeline profiler: one line of the profile file per frame, written  *)
(* when run_once() ends the frame, or by the destructor when an exception  *)
(* left the frame open, and a ring with the totals of the last frames.     *)
(* A write may fail, and a failed stream stays failed.                     *)
(***************************************************************************)
EXTENDS Integers, Sequences

CONSTANTS
    StatsWindow,    \* kStatsWindow
    Durations,      \* values of a stage, in microseconds or of a count
    MaxStages,      \* bound: stages recorded in a frame
    MaxFrames       \* bound: frames

ASSUME ProfileAssumption ==
    StatsWindow \in Nat \ {0} /\ Durations \subseteq Nat /\ {MaxStages, MaxFrames} \subseteq Nat

VARIABLES
    app,        \* the program: "run", "unwinding", "ended"
    begun,      \* frames begun so far, the id of the current one
    frameOpen,  \* frame_open_
    current,    \* stages and measured_total_us of current_frame_
    lines,      \* the file
    failed,     \* the stream's failbit
    ring,       \* stats_totals_us_
    count,      \* stats_frame_count_
    totals      \* the totals of all frames ended

profileVars == <<app, begun, frameOpen, current, lines, failed, ring, count, totals>>

NoStages == [stages |-> <<>>, measured |-> 0]

\* begin_frame().  Its branch for a frame that is still open is not taken: a
\* run_once() that leaves its frame open is left by an exception, and so is the loop.
begin_frame ==
    /\ app = "run" /\ begun < MaxFrames /\ ~frameOpen
    /\ begun' = begun + 1 /\ frameOpen' = TRUE /\ current' = NoStages
    /\ UNCHANGED <<app, lines, failed, ring, count, totals>>

\* record_stage(): a duration of its own, one that rolls others up or is a detail of
\* one (is_attribution_only_stage), or a reading with another unit.
record_stage(kind, value) ==
    /\ app = "run" /\ frameOpen /\ current.measured = 0
    /\ Len(current.stages) < MaxStages
    /\ current' = [current EXCEPT !.stages = Append(@, [kind |-> kind, value |-> value])]
    /\ UNCHANGED <<app, begun, frameOpen, lines, failed, ring, count, totals>>

\* set_measured_total(), just before the frame ends.
set_measured_total(value) ==
    /\ app = "run" /\ frameOpen /\ current.measured = 0
    /\ current' = [current EXCEPT !.measured = value]
    /\ UNCHANGED <<app, begun, frameOpen, lines, failed, ring, count, totals>>

\* is_attribution_only_stage(), and the unit.
IsLeaf(stage) == stage.kind = "leaf"

\* accounted_total_us: the durations that are no part of another one.
Accounted(stages) ==
    LET sum[k \in 0..Len(stages)] ==
          IF k = 0 THEN 0
          ELSE sum[k - 1] + (IF IsLeaf(stages[k]) THEN stages[k].value ELSE 0)
    IN  sum[Len(stages)]

Total == IF current.measured > 0 THEN current.measured ELSE Accounted(current.stages)

\* The ring of the last totals.
Roll(total) ==
    /\ ring' = IF Len(ring) < StatsWindow THEN Append(ring, total)
               ELSE [ring EXCEPT ![(count % StatsWindow) + 1] = total]
    /\ count' = count + 1

LineOf(whole) ==
    [id |-> begun, total |-> Total, delta |-> Total - Accounted(current.stages), whole |-> whole]

\* end_frame() with a stream that works.
Written ==
    /\ ~failed
    /\ lines' = Append(lines, LineOf(TRUE)) /\ frameOpen' = FALSE
    /\ Roll(Total) /\ totals' = Append(totals, Total)
    /\ UNCHANGED <<begun, current, failed>>

\* end_frame() throws before it closes the frame; a part of the line may be in the
\* file.  Nothing is written to a stream that has failed before.
WriteFails ==
    /\ failed' = TRUE
    /\ \/ UNCHANGED lines
       \/ ~failed /\ lines' = Append(lines, LineOf(FALSE))
    /\ UNCHANGED <<begun, frameOpen, current, ring, count, totals>>

\* run_once() ends its frame: the last thing it does, or on its way out without a pose.
end_frame == app = "run" /\ frameOpen /\ current.measured > 0 /\ Written /\ UNCHANGED app

end_frame_throws ==
    /\ app = "run" /\ frameOpen /\ current.measured > 0 /\ WriteFails
    /\ app' = "unwinding"

\* A stage throws, or there is no further frame: the programs leave their loop.
leave_loop ==
    /\ app = "run" /\ app' = "unwinding"
    /\ UNCHANGED <<begun, frameOpen, current, lines, failed, ring, count, totals>>

\* Mutant of destroy: a frame that is still open is dropped.
destroy_only ==
    /\ app = "unwinding" /\ app' = "ended"
    /\ UNCHANGED <<begun, frameOpen, current, lines, failed, ring, count, totals>>

\* ~PipelineProfiler(): an open frame is ended, and errors are swallowed.
destroy ==
    /\ app = "unwinding" /\ app' = "ended"
    /\ IF frameOpen THEN Written \/ WriteFails
       ELSE UNCHANGED <<begun, frameOpen, current, lines, failed, ring, count, totals>>

ProfileInit ==
    /\ app = "run" /\ begun = 0 /\ frameOpen = FALSE /\ current = NoStages
    /\ lines = <<>> /\ failed = FALSE /\ ring = <<>> /\ count = 0 /\ totals = <<>>

ProfileNext ==
    \/ begin_frame \/ end_frame \/ end_frame_throws \/ leave_loop \/ destroy
    \/ \E kind \in {"leaf", "rollup", "reading"}, v \in Durations : record_stage(kind, v)
    \/ \E v \in Durations \ {0} : set_measured_total(v)

ProfileDone == app = "ended" /\ UNCHANGED profileVars

ProfileSpec == ProfileInit /\ [][ProfileNext \/ ProfileDone]_profileVars

-----------------------------------------------------------------------------
\* However the program leaves its loop, the file has one line per frame, in order:
\* at the end the frames without a whole line are those a failed write lost, at most
\* one, and a torn line is the last one.
OneLinePerFrame ==
    /\ \A i \in DOMAIN lines : lines[i].id = i /\ (~lines[i].whole => i = Len(lines))
    /\ begun - Len(lines) <= 1
    /\ app = "ended" /\ ~failed => Len(lines) = begun

\* The percentiles are of the last StatsWindow frames, none missing or counted twice.
StatsAreOfLastFrames ==
    /\ count = Len(totals) /\ Len(ring) = (IF count < StatsWindow THEN count ELSE StatsWindow)
    /\ \A i \in DOMAIN totals :
          i > count - StatsWindow => ring[((i - 1) % StatsWindow) + 1] = totals[i]

\* What is said of the frames is said of every frame once, on disk and in the ring.
ProfileIsComplete == OneLinePerFrame /\ StatsAreOfLastFrames
=============================================================================
