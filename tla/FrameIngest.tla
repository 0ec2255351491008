---------------------------- MODULE FrameIngest ----------------------------
(***************************************************************************)
(* How a frame reaches CoreStackRunner::run_once(): a bridge process (a    *)
(* child, one of the AirSim scripts) writes frames into a pipe;            *)
(* PipeBridgeTransport reads them, with a watchdog before each part;       *)
(* AirSimFrameSource puts a frame together from its parts;                 *)
(* AsyncPrefetchFrameSource reads one frame ahead in a thread of its own.  *)
(* A part of a frame (the header, the image, the sidecar; a line; a whole  *)
(* PPM) is two units of data, so that a child can stall or die in the      *)
(* middle of one, and a line can be longer than the buffer it is read in.  *)
(***************************************************************************)
EXTENDS Integers, Sequences, FiniteSets

CONSTANTS
    BinaryParts,    \* parts of a binary frame
    MaxFrames       \* bound: frames a child writes, and one-shot frames

ASSUME IngestAssumption == {BinaryParts, MaxFrames} \subseteq Nat \ {0}

Modes == {"stream_binary", "stream_jsonl", "one_shot_ppm"}

VARIABLES
    mode,       \* bridge_mode
    child,      \* the bridge process, "ok" and "bad" once it has exited
    lives,      \* children started so far
    written,    \* units the child has written
    pulled,     \* of these, the ones the pipe no longer holds (stdio read them)
    taken,      \* of these, the ones the reader has used
    status,     \* what the last pclose() returned
    reader,     \* what the prefetch thread is doing
    got,        \* units of the frame being read
    future,     \* what the thread has returned and nobody has taken yet
    signalled,  \* the one interrupt the process survives has come
    main,       \* what the thread that calls run_once() is doing
    frames      \* the frames run_once() was given

ingestVars == <<mode, child, lives, written, pulled, taken, status,
                reader, got, future, signalled, main, frames>>
childVars == <<child, lives, written>>

Nothing == [kind |-> "none", units |-> <<>>]
Whole(units) == [kind |-> "frame", units |-> units]
Thrown == [kind |-> "throw", units |-> <<>>]
Ended == [kind |-> "end", units |-> <<>>]

Parts == IF mode = "stream_binary" THEN BinaryParts ELSE 1
Exited == child \in {"ok", "bad"}
Leaving == {"ended", "dropped", "failed", "left"}   \* the loop is over
Readable == written > pulled \/ Exited      \* what select() sees of the pipe

IngestInit(m) ==
    /\ mode = m
    /\ child = "none" /\ lives = 0 /\ written = 0 /\ pulled = 0 /\ taken = 0
    /\ reader = "idle" /\ got = <<>> /\ future = Nothing
    /\ main = "loop" /\ frames = <<>> /\ status = "none" /\ signalled = FALSE

-----------------------------------------------------------------------------
(* The bridge process: it writes parts and flushes them after a frame, and   *)
(* exits when its count is reached, when a call of it throws, or when it     *)
(* writes to a pipe that was closed.                                         *)

child_writes ==
    /\ child = "running" /\ main # "closing"
    /\ written < 2 * Parts * (IF mode = "one_shot_ppm" THEN 1 ELSE MaxFrames)
    /\ written' = written + 1
    /\ UNCHANGED <<mode, child, lives, pulled, taken, status, reader, got, future, signalled, main, frames>>

child_exits(how) ==
    /\ child = "running"
    /\ child' = how
    /\ UNCHANGED <<mode, lives, written, pulled, taken, status, reader, got, future, signalled, main, frames>>

-----------------------------------------------------------------------------
(* PipeBridgeTransport and AirSimFrameSource, in the prefetch thread. *)

Return(result) == future' = result /\ reader' = "idle" /\ got' = <<>>

\* popen(), once per stream and once per one-shot frame.
open_stream ==
    /\ reader = "open"
    /\ IF child # "none" THEN UNCHANGED <<child, lives, written, pulled, taken>>
       ELSE /\ child' = "running" /\ lives' = lives + 1
            /\ written' = 0 /\ pulled' = 0 /\ taken' = 0
    /\ reader' = CASE mode = "one_shot_ppm" -> "read"
                   [] mode = "stream_jsonl" /\ child = "none" -> "first"
                   [] OTHER -> "select"
    /\ UNCHANGED <<mode, status, got, future, signalled, main, frames>>

popen_throws ==
    /\ reader = "open" /\ child = "none"
    /\ Return(Thrown)
    /\ UNCHANGED <<mode, signalled, childVars, pulled, taken, status, main, frames>>

\* select() finds the pipe readable; a line stream first has its startup watchdog.
select_ready ==
    /\ reader \in {"first", "select"} /\ Readable
    /\ reader' = IF reader = "first" THEN "select" ELSE "read"
    /\ UNCHANGED <<mode, childVars, pulled, taken, status, got, future, signalled, main, frames>>

\* 30 s or 10 s pass without data: the read throws, the child is left alone.
select_timeout ==
    /\ reader \in {"first", "select"} /\ ~Readable
    /\ Return(Thrown)
    /\ UNCHANGED <<mode, signalled, childVars, pulled, taken, status, main, frames>>

\* A signal ends select() early, and its caller goes on as if there were data.  A
\* second one ends the process.
select_interrupted ==
    /\ reader \in {"first", "select"} /\ ~signalled
    /\ signalled' = TRUE
    /\ reader' = IF reader = "first" THEN "select" ELSE "read"
    /\ UNCHANGED <<mode, childVars, pulled, taken, status, got, future, main, frames>>

\* What follows a part: the header is parsed, the next part is read, or the frame
\* is put together.
PartRead(units) ==
    LET aligned == units[1][2] % (2 * Parts) = 0
    IN IF ~aligned THEN Return(Thrown)
       ELSE IF Len(units) = 2 * Parts THEN Return(Whole(units))
       ELSE reader' = "select" /\ got' = units /\ UNCHANGED future

\* fgets() has a buffer of 64 KiB: of a longer line it returns the beginning, which
\* does not parse.
line_too_long ==
    /\ reader = "read" /\ written > taken /\ mode = "stream_jsonl" /\ got = <<>>
    /\ pulled' \in IF pulled > taken THEN {pulled} ELSE (taken + 1)..written
    /\ taken' = taken + 1
    /\ Return(Thrown)
    /\ UNCHANGED <<mode, childVars, status, signalled, main, frames>>

\* fread() or fgets() use up what stdio holds before they read the pipe again.
read_stream_byte_vector ==
    /\ reader = "read" /\ written > taken
    /\ pulled' \in IF pulled > taken THEN {pulled} ELSE (taken + 1)..written
    /\ taken' = taken + 1
    /\ LET units == Append(got, <<lives, taken>>)
       IN IF mode # "one_shot_ppm" /\ Len(units) % 2 = 0 THEN PartRead(units)
          ELSE got' = units /\ UNCHANGED <<reader, future>>
    /\ UNCHANGED <<mode, signalled, childVars, status, main, frames>>

\* Mutant of read_eof: what was read of a frame so far is good enough.
read_eof_short ==
    /\ reader = "read" /\ written = taken /\ Exited
    /\ mode = "stream_jsonl" => got = <<>>
    /\ child' = "none" /\ status' = child
    /\ Return(CASE child = "bad" \/ (got = <<>> /\ mode = "one_shot_ppm") -> Thrown
                [] got = <<>> -> Ended
                [] OTHER -> Whole(got))
    /\ UNCHANGED <<mode, signalled, lives, written, pulled, taken, main, frames>>

\* Mutant of read_eof: a child that crashed is waited for.
read_eof_crash_waits ==
    /\ reader = "read" /\ written = taken /\ Exited
    /\ mode = "stream_jsonl" => got = <<>>
    /\ IF child = "bad" THEN reader' = "select" /\ UNCHANGED <<child, status, got, future>>
       ELSE /\ child' = "none" /\ status' = child
            /\ Return(IF mode = "one_shot_ppm"
                      THEN IF Len(got) = 2 THEN Whole(got) ELSE Thrown
                      ELSE IF got = <<>> THEN Ended ELSE Thrown)
    /\ UNCHANGED <<mode, signalled, lives, written, pulled, taken, main, frames>>

\* A line that the child did not finish is returned as it is, and does not parse.
read_eof_in_line ==
    /\ reader = "read" /\ written = taken /\ Exited
    /\ mode = "stream_jsonl" /\ got # <<>>
    /\ Return(Thrown)
    /\ UNCHANGED <<mode, childVars, pulled, taken, status, signalled, main, frames>>

\* The end of the data: pclose(), and its status decides; then a stream has ended,
\* or a frame is incomplete.  A one-shot frame ends here.
read_eof ==
    /\ reader = "read" /\ written = taken /\ Exited
    /\ mode = "stream_jsonl" => got = <<>>
    /\ child' = "none" /\ status' = child
    /\ Return(CASE child = "bad" -> Thrown
                [] mode = "one_shot_ppm" -> IF Len(got) = 2 THEN Whole(got) ELSE Thrown
                [] OTHER -> IF got = <<>> THEN Ended ELSE Thrown)
    /\ UNCHANGED <<mode, signalled, lives, written, pulled, taken, main, frames>>

-----------------------------------------------------------------------------
(* AsyncPrefetchFrameSource and the loop around run_once(). *)

\* next_frame(): the first call launches the thread.
next_frame ==
    /\ main = "loop"
    /\ mode = "one_shot_ppm" => Len(frames) < MaxFrames
    /\ main' = "get"
    /\ reader' = IF reader = "idle" /\ future = Nothing THEN "open" ELSE reader
    /\ UNCHANGED <<mode, signalled, childVars, pulled, taken, status, got, future, frames>>

\* get() returns a frame, and the next one is launched before this one is used.
get_frame ==
    /\ main = "get" /\ future.kind = "frame"
    /\ frames' = Append(frames, future.units)
    /\ future' = Nothing /\ reader' = "open" /\ main' = "run"
    /\ UNCHANGED <<mode, signalled, childVars, pulled, taken, status, got>>

\* get() returns no frame, and run_once() returns false, or it throws.
get_end ==
    /\ main = "get" /\ future \in {Ended, Thrown}
    /\ main' = IF future = Ended THEN "ended" ELSE "failed"
    /\ future' = Nothing
    /\ UNCHANGED <<mode, signalled, childVars, pulled, taken, status, reader, got, frames>>

\* An interrupt or the frame limit ends the loop between two frames.
leave_loop ==
    /\ main = "loop"
    /\ main' = "left"
    /\ UNCHANGED <<mode, signalled, childVars, pulled, taken, status, reader, got, future, frames>>

\* ~AsyncPrefetchFrameSource waits for the frame in flight and drops it;
\* close_stream() then closes the pipe, which ends a child that writes.
destroy ==
    /\ main \in Leaving /\ reader = "idle"
    /\ main' = "closing" /\ future' = Nothing
    /\ UNCHANGED <<mode, signalled, childVars, pulled, taken, status, reader, got, frames>>

\* pclose() has waited for the child.
closed ==
    /\ main = "closing" /\ child # "running"
    /\ main' = "closed" /\ child' = "none"
    /\ UNCHANGED <<mode, signalled, lives, written, pulled, taken, status, reader, got, future, frames>>

readerStep == \/ open_stream \/ select_ready \/ select_timeout
              \/ read_stream_byte_vector \/ read_eof_in_line \/ read_eof
mainStep == next_frame \/ get_frame \/ get_end \/ destroy \/ closed
childStep == child_writes \/ \E how \in {"ok", "bad"} : child_exits(how)

\* Everything of the frame path that does not use the frame.
IngestNext == \/ readerStep \/ popen_throws \/ select_interrupted \/ line_too_long
              \/ mainStep \/ leave_loop \/ childStep

-----------------------------------------------------------------------------
\* Of what was written a part was pulled, and of that a part taken.
IngestTypeOK ==
    /\ child \in {"none", "running", "ok", "bad"} /\ lives \in 0..MaxFrames + 1
    /\ taken \in 0..pulled /\ pulled \in 0..written
    /\ reader \in {"idle", "open", "first", "select", "read"}
    /\ future = Nothing \/ reader = "idle"
    /\ signalled \in BOOLEAN
    /\ main \in {"loop", "get", "run", "closing", "closed"} \cup Leaving

Frame(life, n) == [i \in 1..2 * Parts |-> <<life, 2 * Parts * n + i - 1>>]

\* The pipeline gets whole frames in the order the child wrote them, none of them
\* lost, repeated, cut short or mixed with another: whatever the child does in the
\* middle of a part, and with the next frame always in flight.
FramesWholeInOrder ==
    frames = [n \in 1..Len(frames) |->
                 IF mode = "one_shot_ppm" THEN Frame(n, 0) ELSE Frame(1, n - 1)]

\* A stream is said to have ended only when every frame it wrote was used and the
\* child exited without an error: a child that crashes, at a frame boundary too,
\* is an exception and not the end of the mission's frames.
EndIsTheEnd ==
    main = "ended" => /\ mode # "one_shot_ppm" /\ status = "ok"
                      /\ written = 2 * Parts * Len(frames)

\* What the program cannot do for itself.  A read of a part has no timeout, and none
\* of a one-shot frame has: it returns when the child writes on or exits.  pclose()
\* waits until the child has ended.
ReadsReturn == []<>(reader # "read")
ChildEnds == (main = "closing") ~> (child # "running")

\* As long as no child stalls inside a part every call of next_frame() returns,
\* however often it is silent between two: it finds a frame, the end or an exception.
CallReturns == ReadsReturn => ((main = "get") ~> (main # "get"))

\* The program that leaves the loop gets past the frame in flight and the child.
FrameSourceCloses == ReadsReturn /\ ChildEnds => ((main \in Leaving) ~> (main = "closed"))

\* Not kept: the comment on the watchdog of read_stream_line() says that it is there
\* "so a stalled bridge subprocess cannot block the pipeline thread indefinitely".
StalledChildCannotBlock == (main = "get") ~> (main # "get")
=============================================================================
