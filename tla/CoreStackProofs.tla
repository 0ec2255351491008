--------------------------- MODULE CoreStackProofs ---------------------------
(***************************************************************************)
(* The core stack for every set of configuration files and keys, every     *)
(* number of parts of a frame and every length of a stream: the frames     *)
(* that reach run_once() are the child's, visual odometry stays within its *)
(* bounds, and the configuration that is used is the one precedence        *)
(* defines.  The bounds on drift and on frames are arbitrary.              *)
(***************************************************************************)
EXTENDS CoreStack, FiniteSetTheorems, SequenceTheorems, NaturalsInduction, WellFoundedInduction,
        TLAPS

-----------------------------------------------------------------------------
(* The inductive invariant: the loader. *)

\* Lines of a file or of the environment: for every key a value of it, or none.
IsLines(l) == \A k \in Keys : l[k] \in ValuesOf[k] \cup {None}

IsConfig(c) == DOMAIN c = Keys /\ \A k \in Keys : c[k] \in ValuesOf[k]

Entries == [file : Files, inc : Seq(Files)]

\* No file is on the loading stack twice.
NoFileTwice == \A i, j \in DOMAIN stack : stack[i].file = stack[j].file => i = j

\* A file on the stack has been read.
OpenFilesAreRead == \A i \in DOMAIN stack : IsLines(own[stack[i].file])

LoaderSafe ==
    /\ loader \in {"load", "validate", "build", "resolve", "loaded", "created", "failed"}
    /\ IsConfig(config) /\ IsLines(env)
    /\ layout \in [Files -> Seq(Files)] /\ layout \in Layouts
    /\ DOMAIN own = Files /\ \A f \in Files : own[f] = None \/ IsLines(own[f])
    /\ todo \in Seq(Files) /\ stack \in Seq(Entries)
    /\ NoFileTwice /\ OpenFilesAreRead
    /\ stack # <<>> => todo # <<>>
    /\ loader \notin {"load", "failed"} => stack = <<>>

-----------------------------------------------------------------------------
(* The frames. *)

\* Units of a frame, and the child and the unit that the next frame begins with.
Size == 2 * Parts
Life == IF mode = "one_shot_ppm" THEN Len(frames) + 1 ELSE 1
Base == IF mode = "one_shot_ppm" THEN 0 ELSE Size * Len(frames)

\* The n units of child l from unit b on.
Units(l, b, n) == [i \in 1..n |-> <<l, b + i - 1>>]

\* What is read of the next frame is its beginning; until popen() there is no child,
\* and none of its data.
ReadingIsNext ==
    /\ reader \in {"first", "select", "read"} =>
          /\ child # "none" /\ lives = Life
          /\ got \in Seq(Nat \X Nat) /\ got = Units(Life, Base, Len(got)) /\ taken = Base + Len(got)
    /\ reader \in {"idle", "open"} => got = <<>>
    /\ reader = "open" => IF child = "none" THEN lives + 1 = Life /\ Base = 0
                          ELSE mode # "one_shot_ppm" /\ lives = Life /\ taken = Base

\* What the thread has returned: the next frame, the end or an exception.
FutureIsNext ==
    /\ \/ future \in {Nothing, Thrown, Ended}
       \/ /\ future = Whole(Units(Life, Base, Size)) /\ lives = Life
          /\ IF mode = "one_shot_ppm" THEN child = "none"
             ELSE child # "none" /\ taken = Base + Size
    /\ future # Nothing => reader = "idle"
    /\ future = Ended => /\ mode # "one_shot_ppm" /\ child = "none"
                         /\ status = "ok" /\ written = Base

\* A frame is in flight, or has been read, from the first call until the end.
AlwaysOneAhead ==
    /\ main \in {"get", "run"} => reader # "idle" \/ future # Nothing
    /\ main = "loop" /\ reader = "idle" /\ future = Nothing =>
          lives = 0 /\ child = "none" /\ frames = <<>>
    /\ main = "ended" => /\ reader = "idle" /\ future = Nothing /\ child = "none"
                         /\ mode # "one_shot_ppm" /\ status = "ok" /\ written = Base
    /\ main \in {"closing", "closed"} => reader = "idle" /\ future = Nothing

FramesCounted ==
    /\ frames \in Seq(Seq(Nat \X Nat))
    /\ lives \in Nat /\ lives <= Life /\ written \in Nat
    /\ mode = "one_shot_ppm" => /\ Len(frames) <= MaxFrames
                                /\ main = "get" => Len(frames) < MaxFrames

IngestSafe ==
    /\ IngestTypeOK /\ FramesCounted /\ FramesWholeInOrder
    /\ ReadingIsNext /\ FutureIsNext /\ AlwaysOneAhead

-----------------------------------------------------------------------------
(* The poses. *)

\* Without a fallback provider the drift stops at the bound; with one it is small
\* before every frame.
EgoSafe ==
    /\ seen \in Nat /\ fallback \in BOOLEAN /\ features \in [old : Nat, new : Nat]
    /\ scale \in Nat /\ stride \in Nat /\ drift \in Nat
    /\ seen = 0 => features = [old |-> 0, new |-> 0]
    /\ FeaturesBounded /\ DriftIsReanchored

\* Before the providers are created there are no frames and no poses.
NothingBeforeCreate ==
    loader # "created" => IngestInit(mode) /\ seen = 0 /\ drift = 0 /\ fallback = FALSE

\* The inductive invariant.
CoreSafe == LoaderSafe /\ IngestSafe /\ EgoSafe /\ NothingBeforeCreate

-----------------------------------------------------------------------------
(* Loading. *)

\* Overriding a configuration with lines gives a configuration.
LEMMA OverlayIsConfig ==
    ASSUME NEW c, IsConfig(c), NEW l, IsLines(l)
    PROVE  IsConfig(Overlay(c, l))
BY DEF IsConfig, IsLines, Overlay

\* The lines a file can have are lines.
LEMMA FileLinesAreLines == \A l \in FileLines : IsLines(l)
BY DEF FileLines, IsLines

LEMMA LoaderSafeInit == ConfigInit => LoaderSafe
<1> SUFFICES ASSUME ConfigInit PROVE LoaderSafe
    OBVIOUS
<1> USE DEF ConfigInit
<1>1. IsConfig(config) /\ layout \in [Files -> Seq(Files)] /\ todo \in Seq(Files)
    BY ConfigAssumption DEF ConfigAssumption, IsConfig
<1>2. IsLines(env)
    BY FileLinesAreLines
<1>3. stack \in Seq(Entries) /\ NoFileTwice /\ OpenFilesAreRead
    BY DEF NoFileTwice, OpenFilesAreRead
<1> QED BY <1>1, <1>2, <1>3 DEF LoaderSafe

\* Opening a file on top of entries that are those of the stack, with or without the
\* include that named it.
LEMMA OpenFileSafe ==
    ASSUME LoaderSafe, loader = "load", todo # <<>>, NEW file \in Files, NEW rest \in Seq(Entries),
           Len(rest) = Len(stack), \A i \in 1..Len(rest) : rest[i].file = stack[i].file,
           open_file(file, rest)
    PROVE  LoaderSafe'
<1> USE DEF LoaderSafe
<1>1. CASE file \in Loading
    <2>1. loader' = "failed" /\ UNCHANGED <<todo, layout, own, stack, config, env>>
        BY <1>1 DEF open_file, Fail
    <2>2. IsConfig(config') /\ IsLines(env') /\ \A f \in Files : own'[f] = None \/ IsLines(own'[f])
        BY <2>1
    <2>3. NoFileTwice' /\ OpenFilesAreRead'
        BY <2>1 DEF NoFileTwice, OpenFilesAreRead, IsLines
    <2> QED BY <2>1, <2>2, <2>3
<1>2. CASE file \notin Loading
    <2> DEFINE e == [file |-> file, inc |-> layout[file]]
    <2>1. PICK lines \in IF own[file] = None THEN FileLines ELSE {own[file]} :
             /\ own' = [own EXCEPT ![file] = lines]
             /\ stack' = Append(rest, e)
             /\ UNCHANGED <<loader, todo, layout, config, env>>
        BY <1>2 DEF open_file
    <2>2. IsLines(lines)
        BY <2>1, FileLinesAreLines
    <2>3. e \in Entries /\ e.file = file
        BY DEF Entries
    <2> HIDE DEF e
    <2>4. /\ stack' \in Seq(Entries) /\ DOMAIN stack' = 1..(Len(rest) + 1)
          /\ stack'[Len(rest) + 1] = e /\ \A i \in 1..Len(rest) : stack'[i] = rest[i]
        BY <2>1, <2>3
    <2>5. Len(rest) \in Nat /\ DOMAIN stack = 1..Len(rest)
        OBVIOUS
    <2>6. \A i \in 1..Len(rest) : stack'[i].file = stack[i].file /\ stack[i].file # file
        BY <1>2, <2>4, <2>5 DEF Loading
    <2>7. NoFileTwice'
        <3> SUFFICES ASSUME NEW i \in DOMAIN stack', NEW j \in DOMAIN stack',
                            stack'[i].file = stack'[j].file
                     PROVE  i = j
            BY DEF NoFileTwice
        <3>1. \A x, y \in 1..Len(rest) : stack[x].file = stack[y].file => x = y
            BY <2>5 DEF NoFileTwice
        <3>2. \A x \in 1..Len(rest) : stack'[x].file = stack[x].file /\ stack'[x].file # file
            BY <2>6
        <3>3. stack'[Len(rest) + 1].file = file
            BY <2>3, <2>4
        <3>4. /\ i \in 1..Len(rest) \/ i = Len(rest) + 1
              /\ j \in 1..Len(rest) \/ j = Len(rest) + 1
            BY <2>4, <2>5
        <3> HIDE DEF LoaderSafe
        <3> QED BY <3>1, <3>2, <3>3, <3>4
    <2>8. DOMAIN own' = Files /\ own'[file] = lines
          /\ \A f \in Files : f # file => own'[f] = own[f]
        BY <2>1
    <2>9. \A f \in Files : own'[f] = None \/ IsLines(own'[f])
        BY <2>2, <2>8
    <2>10. OpenFilesAreRead'
        <3>1. ASSUME NEW i \in DOMAIN stack' PROVE IsLines(own'[stack'[i].file])
            <4>1. CASE i = Len(rest) + 1
                BY <2>2, <2>3, <2>4, <2>8, <4>1
            <4>2. CASE i \in 1..Len(rest)
                <5>1. stack'[i].file = stack[i].file /\ stack[i].file # file
                    BY <2>6, <4>2
                <5>2. i \in DOMAIN stack
                    BY <2>5, <4>2
                <5>3. stack[i] \in Entries
                    BY <5>2
                <5>4. stack[i].file \in Files
                    BY <5>3 DEF Entries
                <5>5. IsLines(own[stack[i].file])
                    BY <5>2, Zenon DEF OpenFilesAreRead
                <5> QED BY <2>8, <5>1, <5>4, <5>5
            <4> QED BY <2>4, <2>5, <4>1, <4>2
        <3> QED BY <3>1 DEF OpenFilesAreRead, IsLines
    <2>11. IsConfig(config') /\ IsLines(env')
        BY <2>1
    <2> QED BY <2>1, <2>4, <2>7, <2>8, <2>9, <2>10, <2>11
<1> QED BY <1>1, <1>2

\* A step that moves the loader on, or makes it give up, without touching a file.
LEMMA LoaderMovesOn ==
    ASSUME LoaderSafe, UNCHANGED <<todo, layout, own, stack>>, IsConfig(config'), IsLines(env'),
           loader' \in {"load", "validate", "build", "resolve", "loaded", "created", "failed"},
           loader' \notin {"load", "failed"} => stack = <<>>
    PROVE  LoaderSafe'
<1> USE DEF LoaderSafe
<1>1. NoFileTwice' /\ OpenFilesAreRead'
    BY DEF NoFileTwice, OpenFilesAreRead, IsLines
<1>2. \A f \in Files : own'[f] = None \/ IsLines(own'[f])
    OBVIOUS
<1> QED BY <1>1, <1>2

\* The file on top of the stack is done.
LEMMA ApplySafe == ASSUME LoaderSafe, apply_own_lines PROVE LoaderSafe'
<1> USE DEF LoaderSafe, apply_own_lines
<1> DEFINE n == Len(stack)
<1>1. n \in Nat \ {0} /\ DOMAIN stack = 1..n
    BY EmptySeq
<1>2. IsConfig(config')
    <2>1. IsLines(own[stack[n].file])
        <3>1. n \in DOMAIN stack
            BY <1>1
        <3> QED BY <3>1, Zenon DEF OpenFilesAreRead
    <2> QED BY <2>1, OverlayIsConfig
<1>3. /\ stack' \in Seq(Entries) /\ DOMAIN stack' = 1..(n - 1)
      /\ \A i \in 1..(n - 1) : stack'[i] = stack[i]
    BY <1>1
<1>4. NoFileTwice' /\ OpenFilesAreRead'
    <2>1. \A i \in DOMAIN stack' : i \in DOMAIN stack /\ stack'[i] = stack[i]
        BY <1>1, <1>3
    <2>2. NoFileTwice'
        BY <2>1 DEF NoFileTwice
    <2>3. UNCHANGED own
        OBVIOUS
    <2>4. ASSUME NEW i \in DOMAIN stack' PROVE IsLines(own'[stack'[i].file])
        <3>1. IsLines(own[stack[i].file])
            BY <2>1, Zenon DEF OpenFilesAreRead
        <3> QED BY <2>1, <2>3, <3>1
    <2> QED BY <2>2, <2>4 DEF OpenFilesAreRead, IsLines
<1>5. todo' \in Seq(Files)
    OBVIOUS
<1>6. stack' # <<>> => todo' # <<>>
    <2>1. Len(stack') = n - 1
        BY <1>1
    <2>2. stack' # <<>> => Len(stack') # 0
        BY <1>3, EmptySeq
    <2>3. todo' = IF n = 1 THEN Tail(todo) ELSE todo
        OBVIOUS
    <2> QED BY <1>1, <2>1, <2>2, <2>3
<1>7. \A f \in Files : own'[f] = None \/ IsLines(own'[f])
    OBVIOUS
<1>8. IsLines(env')
    OBVIOUS
<1> QED BY <1>2, <1>3, <1>4, <1>5, <1>6, <1>7, <1>8

\* One step of the loader at a time.
LEMMA LoaderSafeStep == ASSUME LoaderSafe, ConfigNext PROVE LoaderSafe'
<1> DEFINE n == Len(stack)
<1>1. CASE load_path
    <2>1. stack = <<>> /\ todo # <<>> /\ loader = "load" /\ open_file(Head(todo), <<>>)
        BY <1>1 DEF load_path
    <2>2. Head(todo) \in Files /\ <<>> \in Seq(Entries) /\ Len(<<>>) = Len(stack)
        BY <2>1 DEF LoaderSafe
    <2>3. \A i \in 1..Len(<<>>) : <<>>[i].file = stack[i].file
        OBVIOUS
    <2> QED BY <2>1, <2>2, <2>3, OpenFileSafe
<1>2. CASE load_include
    <2> DEFINE top == stack[n]
               rest == [stack EXCEPT ![n].inc = Tail(@)]
    <2>1. /\ loader = "load" /\ stack # <<>> /\ top.inc # <<>> /\ todo # <<>>
          /\ open_file(Head(top.inc), rest)
        BY <1>2 DEF load_include, LoaderSafe
    <2>2. n \in Nat \ {0} /\ DOMAIN stack = 1..n /\ stack \in Seq(Entries)
        BY <2>1, EmptySeq DEF LoaderSafe
    <2>3. top \in Entries
        BY <2>2
    <2>4. Head(top.inc) \in Files /\ Tail(top.inc) \in Seq(Files)
        BY <2>1, <2>3 DEF Entries
    <2> DEFINE e == [top EXCEPT !.inc = Tail(top.inc)]
    <2>5. rest = [stack EXCEPT ![n] = e]
        OBVIOUS
    <2>6. e \in Entries /\ e.file = top.file
        BY <2>3, <2>4 DEF Entries
    <2> HIDE DEF e, rest
    <2>7. rest \in Seq(Entries) /\ Len(rest) = Len(stack)
        <3>1. rest \in [1..n -> Entries]
            BY <2>2, <2>5, <2>6
        <3> QED BY <2>2, <3>1
    <2>8. \A i \in 1..Len(rest) : rest[i].file = stack[i].file
        <3>1. \A i \in 1..n : i # n => rest[i] = stack[i]
            BY <2>2, <2>5
        <3>2. rest[n] = e
            BY <2>2, <2>5
        <3> QED BY <2>6, <2>7, <3>1, <3>2
    <2> HIDE DEF top
    <2> QED BY <2>1, <2>4, <2>7, <2>8, OpenFileSafe
<1>3. CASE open_throws \/ apply_throws
    BY <1>3, LoaderMovesOn DEF open_throws, apply_throws, Fail, LoaderSafe
<1>4. CASE apply_own_lines
    BY <1>4, ApplySafe
<1>5. CASE apply_eval_env_overrides
    <2>1. IsConfig(config')
        BY <1>5, OverlayIsConfig DEF apply_eval_env_overrides, LoaderSafe
    <2> QED BY <1>5, <2>1, LoaderMovesOn DEF apply_eval_env_overrides, LoaderSafe
<1>6. CASE populate_runner_eval_slots
    BY <1>6, LoaderMovesOn DEF populate_runner_eval_slots, LoaderSafe
<1>7. ASSUME NEW ok \in BOOLEAN, validate_config(ok) \/ build_depth_slots(ok) PROVE LoaderSafe'
    BY <1>7, LoaderMovesOn DEF validate_config, build_depth_slots, LoaderSafe
<1> QED BY <1>1, <1>2, <1>3, <1>4, <1>5, <1>6, <1>7 DEF ConfigNext

\* The types of the loader's part of CoreTypeOK: the stack holds different files.
LEMMA StackIsShort == LoaderSafe => Len(stack) <= Cardinality(Files)
<1> SUFFICES ASSUME LoaderSafe PROVE Len(stack) <= Cardinality(Files)
    OBVIOUS
<1> DEFINE n == Len(stack)
           f == [i \in 1..n |-> stack[i].file]
<1>1. n \in Nat /\ DOMAIN stack = 1..n /\ stack \in Seq(Entries)
    BY DEF LoaderSafe
<1>2. f \in [1..n -> Files]
    <2>1. ASSUME NEW i \in 1..n PROVE stack[i].file \in Files
        <3>1. stack[i] \in Entries
            BY <1>1
        <3> QED BY <3>1 DEF Entries
    <2> QED BY <2>1
<1>3. \A i, j \in 1..n : f[i] = f[j] => i = j
    BY <1>1 DEF LoaderSafe, NoFileTwice
<1> HIDE DEF f
<1>4. f \in Injection(1..n, Files)
    BY <1>2, <1>3 DEF Injection, IsInjective
<1>5. Cardinality(1..n) <= Cardinality(Files)
    BY <1>4, FS_Injection, ConfigAssumption DEF ConfigAssumption
<1>6. Cardinality(1..n) = n
    <2>1. 1 \in Int /\ n \in Int
        BY <1>1
    <2>2. Cardinality(1..n) = IF 1 > n THEN 0 ELSE n - 1 + 1
        BY <2>1, FS_Interval
    <2> QED BY <1>1, <2>2
<1> QED BY <1>5, <1>6

-----------------------------------------------------------------------------
(* Reading frames. *)

LEMMA IngestLimits == BinaryParts \in Nat \ {0} /\ MaxFrames \in Nat \ {0}
BY IngestAssumption DEF IngestAssumption

\* The numbers the next frame is described with.
LEMMA NextFrameFacts ==
    ASSUME frames \in Seq(Seq(Nat \X Nat))
    PROVE  /\ Len(frames) \in Nat /\ Parts \in Nat \ {0} /\ Size \in Nat /\ Size > 0
           /\ Life \in Nat /\ Base \in Nat
<1>1. Len(frames) \in Nat /\ Parts \in Nat \ {0}
    BY IngestLimits DEF Parts
<1>2. Size \in Nat /\ Size > 0
    BY <1>1 DEF Size
<1>3. Size * Len(frames) \in Nat
    BY <1>1, <1>2
<1> QED BY <1>1, <1>2, <1>3 DEF Life, Base

\* A step that delivers no frame leaves the next one what it is.
LEMMA SameNext ==
    ASSUME UNCHANGED <<mode, frames>>
    PROVE  /\ Parts' = Parts /\ Size' = Size /\ Life' = Life /\ Base' = Base
           /\ FramesWholeInOrder' <=> FramesWholeInOrder
<1>1. Parts' = Parts /\ Size' = Size /\ Life' = Life
    BY DEF Parts, Size, Life
<1>2. Base' = Base
    BY <1>1 DEF Base
<1>3. FramesWholeInOrder' <=> FramesWholeInOrder
    BY <1>1 DEF FramesWholeInOrder, Frame
<1> QED BY <1>1, <1>2, <1>3

\* The next unit.
LEMMA UnitsGrow ==
    ASSUME NEW l \in Nat, NEW b \in Nat, NEW n \in Nat
    PROVE  /\ Units(l, b, n) \in Seq(Nat \X Nat) /\ Len(Units(l, b, n)) = n
           /\ Append(Units(l, b, n), <<l, b + n>>) = Units(l, b, n + 1)
<1>1. \A i \in Nat \ {0} : b + i - 1 \in Nat
    OBVIOUS
<1>2. Units(l, b, n) \in [1..n -> Nat \X Nat]
    BY <1>1 DEF Units
<1>3. Units(l, b, n) \in Seq(Nat \X Nat) /\ Len(Units(l, b, n)) = n
    BY <1>2
<1> DEFINE s == Append(Units(l, b, n), <<l, b + n>>)
           t == Units(l, b, n + 1)
<1>4. DOMAIN t = 1..(n + 1) /\ \A i \in 1..(n + 1) : t[i] = <<l, b + i - 1>>
    BY DEF Units
<1>5. \A i \in 1..n : Units(l, b, n)[i] = <<l, b + i - 1>>
    BY DEF Units
<1> HIDE DEF t
<1>6. /\ s \in Seq(Nat \X Nat) /\ Len(s) = n + 1 /\ s[n + 1] = <<l, b + n>>
      /\ \A i \in 1..n : s[i] = <<l, b + i - 1>>
    <2>1. <<l, b + n>> \in Nat \X Nat
        OBVIOUS
    <2> QED BY <1>3, <1>5, <2>1
<1> HIDE DEF s
<1>7. DOMAIN s = 1..(n + 1) /\ s = [i \in 1..(n + 1) |-> s[i]]
    BY <1>6
<1>8. t = [i \in 1..(n + 1) |-> t[i]]
    BY <1>4 DEF t, Units
<1>9. \A i \in 1..(n + 1) : s[i] = t[i]
    <2>1. ASSUME NEW i \in 1..(n + 1) PROVE s[i] = t[i]
        <3>1. CASE i = n + 1
            <4>1. b + (n + 1) - 1 = b + n
                OBVIOUS
            <4> QED BY <1>4, <1>6, <3>1, <4>1
        <3>2. CASE i \in 1..n
            BY <1>4, <1>6, <3>2
        <3> QED BY <3>1, <3>2
    <2> QED BY <2>1
<1>10. s = t
    BY <1>7, <1>8, <1>9
<1> QED BY <1>3, <1>10 DEF s, t

\* The results of the prefetch thread are told apart by their kind.
LEMMA KindsDiffer ==
    /\ Nothing # Thrown /\ Nothing # Ended /\ Thrown # Ended
    /\ \A u : Whole(u).kind = "frame" /\ Whole(u).units = u /\ Whole(u) \notin {Nothing, Thrown, Ended}
    /\ Nothing.kind # "frame" /\ Thrown.kind # "frame" /\ Ended.kind # "frame"
BY DEF Nothing, Thrown, Ended, Whole

\* A step that neither delivers a frame nor touches what was read.
LEMMA ChildStepSafe == ASSUME IngestSafe, childStep PROVE IngestSafe'
<1> USE DEF IngestSafe
<1>1. UNCHANGED <<mode, lives, pulled, taken, status, reader, got, future, signalled, main, frames>>
    BY DEF childStep, child_writes, child_exits
<1>2. /\ child = "running" /\ child' \in {"running", "ok", "bad"}
      /\ written' = written \/ written' = written + 1
    BY DEF childStep, child_writes, child_exits
<1>3. Parts' = Parts /\ Size' = Size /\ Life' = Life /\ Base' = Base /\ FramesWholeInOrder'
    BY <1>1, SameNext
<1>4. written \in Nat /\ written' \in Nat /\ written' >= written
    BY <1>2 DEF FramesCounted
<1>5. IngestTypeOK' /\ FramesCounted'
    BY <1>1, <1>2, <1>3, <1>4 DEF IngestTypeOK, FramesCounted, Leaving
<1>6. ReadingIsNext'
    BY <1>1, <1>2, <1>3 DEF ReadingIsNext
<1>7. FutureIsNext' /\ AlwaysOneAhead'
    BY <1>1, <1>2, <1>3 DEF FutureIsNext, AlwaysOneAhead
<1> QED BY <1>3, <1>5, <1>6, <1>7

\* A step of the main thread that delivers no frame.
LEMMA MainStepSafe ==
    ASSUME IngestSafe, next_frame \/ get_end \/ leave_loop \/ destroy \/ closed
    PROVE  IngestSafe'
<1> USE DEF IngestSafe
<1>1. UNCHANGED <<mode, lives, written, pulled, taken, status, got, signalled, frames>>
    BY DEF next_frame, get_end, leave_loop, destroy, closed, childVars
<1>2. Parts' = Parts /\ Size' = Size /\ Life' = Life /\ Base' = Base /\ FramesWholeInOrder'
    BY <1>1, SameNext
<1>3. Len(frames) \in Nat /\ Size \in Nat /\ Life \in Nat /\ Base \in Nat
    BY NextFrameFacts DEF FramesCounted
<1>4. CASE next_frame
    <2>1. /\ main = "loop" /\ main' = "get" /\ UNCHANGED <<child, future>>
          /\ mode = "one_shot_ppm" => Len(frames) < MaxFrames
          /\ reader' = IF reader = "idle" /\ future = Nothing THEN "open" ELSE reader
        BY <1>4 DEF next_frame, childVars
    <2>2. IngestTypeOK' /\ FramesCounted'
        BY <1>1, <1>2, <2>1 DEF IngestTypeOK, FramesCounted, Leaving
    <2>3. ReadingIsNext'
        <3>1. CASE reader = "idle" /\ future = Nothing
            <4>1. lives = 0 /\ child = "none" /\ Len(frames) = 0 /\ reader' = "open" /\ got = <<>>
                BY <2>1, <3>1 DEF AlwaysOneAhead, ReadingIsNext
            <4>2. Life = 1 /\ Base = 0
                BY <1>3, <4>1 DEF Life, Base
            <4> QED BY <1>1, <1>2, <2>1, <4>1, <4>2 DEF ReadingIsNext
        <3>2. CASE ~(reader = "idle" /\ future = Nothing)
            BY <1>1, <1>2, <2>1, <3>2 DEF ReadingIsNext
        <3> QED BY <3>1, <3>2
    <2>4. FutureIsNext'
        BY <1>1, <1>2, <2>1 DEF FutureIsNext
    <2>5. AlwaysOneAhead'
        BY <1>1, <1>2, <2>1 DEF AlwaysOneAhead
    <2> QED BY <1>2, <2>2, <2>3, <2>4, <2>5
<1>5. CASE get_end
    <2>1. /\ main = "get" /\ future \in {Ended, Thrown} /\ UNCHANGED <<child, reader>>
          /\ main' = IF future = Ended THEN "ended" ELSE "failed"
          /\ future' = Nothing
        BY <1>5 DEF get_end, childVars
    <2>2. IngestTypeOK' /\ FramesCounted'
        BY <1>1, <1>2, <2>1 DEF IngestTypeOK, FramesCounted, Leaving
    <2>3. ReadingIsNext' /\ FutureIsNext'
        BY <1>1, <1>2, <2>1, KindsDiffer DEF ReadingIsNext, FutureIsNext
    <2>4. AlwaysOneAhead'
        BY <1>1, <1>2, <2>1, KindsDiffer DEF AlwaysOneAhead, FutureIsNext
    <2> QED BY <1>2, <2>2, <2>3, <2>4
<1>6. CASE leave_loop
    <2>1. main' = "left" /\ UNCHANGED <<child, reader, future>>
        BY <1>6 DEF leave_loop, childVars
    <2>2. IngestTypeOK' /\ FramesCounted'
        BY <1>1, <1>2, <2>1 DEF IngestTypeOK, FramesCounted, Leaving
    <2>3. ReadingIsNext' /\ FutureIsNext' /\ AlwaysOneAhead'
        BY <1>1, <1>2, <2>1 DEF ReadingIsNext, FutureIsNext, AlwaysOneAhead
    <2> QED BY <1>2, <2>2, <2>3
<1>7. CASE destroy
    <2>1. main' = "closing" /\ future' = Nothing /\ reader = "idle" /\ UNCHANGED <<child, reader>>
        BY <1>7 DEF destroy, childVars
    <2>2. IngestTypeOK' /\ FramesCounted'
        BY <1>1, <1>2, <2>1 DEF IngestTypeOK, FramesCounted, Leaving
    <2>3. ReadingIsNext' /\ FutureIsNext' /\ AlwaysOneAhead'
        BY <1>1, <1>2, <2>1, KindsDiffer DEF ReadingIsNext, FutureIsNext, AlwaysOneAhead
    <2> QED BY <1>2, <2>2, <2>3
<1>8. CASE closed
    <2>1. main = "closing" /\ main' = "closed" /\ child' = "none" /\ UNCHANGED <<reader, future>>
        BY <1>8 DEF closed
    <2>2. reader = "idle" /\ future = Nothing
        BY <2>1 DEF AlwaysOneAhead
    <2>3. IngestTypeOK' /\ FramesCounted'
        BY <1>1, <1>2, <2>1 DEF IngestTypeOK, FramesCounted, Leaving
    <2>4. ReadingIsNext' /\ FutureIsNext' /\ AlwaysOneAhead'
        BY <1>1, <1>2, <2>1, <2>2, KindsDiffer DEF ReadingIsNext, FutureIsNext, AlwaysOneAhead
    <2> QED BY <1>2, <2>3, <2>4
<1> QED BY <1>4, <1>5, <1>6, <1>7, <1>8

\* A step of the prefetch thread that returns nothing but an exception.
LEMMA WaitingSafe ==
    ASSUME IngestSafe, \/ select_ready \/ select_timeout \/ select_interrupted \/ popen_throws
                       \/ read_eof_in_line
    PROVE  IngestSafe'
<1> USE DEF IngestSafe
<1>1. UNCHANGED <<mode, child, lives, written, pulled, taken, status, main, frames>>
      /\ signalled' \in BOOLEAN
    BY DEF select_ready, select_timeout, select_interrupted, popen_throws, read_eof_in_line,
           childVars, IngestTypeOK
<1>2. Parts' = Parts /\ Size' = Size /\ Life' = Life /\ Base' = Base /\ FramesWholeInOrder'
    BY <1>1, SameNext
<1>3. CASE select_ready \/ select_interrupted
    <2>1. /\ reader \in {"first", "select"} /\ reader' \in {"select", "read"}
          /\ UNCHANGED <<got, future>>
        BY <1>3 DEF select_ready, select_interrupted
    <2>2. IngestTypeOK' /\ FramesCounted'
        BY <1>1, <1>2, <2>1 DEF IngestTypeOK, FramesCounted, Leaving
    <2>3. ReadingIsNext' /\ FutureIsNext' /\ AlwaysOneAhead'
        BY <1>1, <1>2, <2>1 DEF ReadingIsNext, FutureIsNext, AlwaysOneAhead
    <2> QED BY <1>2, <2>2, <2>3
<1>4. CASE select_timeout \/ popen_throws \/ read_eof_in_line
    <2>1. /\ reader \in {"open", "first", "select", "read"} /\ reader' = "idle"
          /\ got' = <<>> /\ future' = Thrown
        BY <1>4 DEF select_timeout, popen_throws, read_eof_in_line, Return
    <2>2. IngestTypeOK' /\ FramesCounted'
        BY <1>1, <1>2, <2>1 DEF IngestTypeOK, FramesCounted, Leaving
    <2>3. ReadingIsNext' /\ FutureIsNext' /\ AlwaysOneAhead'
        BY <1>1, <1>2, <2>1, KindsDiffer DEF ReadingIsNext, FutureIsNext, AlwaysOneAhead
    <2> QED BY <1>2, <2>2, <2>3
<1> QED BY <1>3, <1>4

\* popen(): the child that is started is the one the next frame comes from.
LEMMA OpenSafe == ASSUME IngestSafe, open_stream PROVE IngestSafe'
<1> USE DEF IngestSafe
<1>1. /\ UNCHANGED <<mode, status, got, future, signalled, main, frames>> /\ reader = "open"
      /\ reader' \in {"first", "select", "read"}
    BY DEF open_stream
<1>2. Parts' = Parts /\ Size' = Size /\ Life' = Life /\ Base' = Base /\ FramesWholeInOrder'
    BY <1>1, SameNext
<1>3. Len(frames) \in Nat /\ Size \in Nat /\ Life \in Nat /\ Base \in Nat
    BY NextFrameFacts DEF FramesCounted
<1>4. got = <<>> /\ future = Nothing /\ main \notin {"ended", "closing", "closed"}
    BY <1>1 DEF ReadingIsNext, FutureIsNext, AlwaysOneAhead
<1>5. /\ child' \in {"running", "ok", "bad"} /\ lives' = Life /\ taken' = Base
      /\ taken' \in 0..pulled' /\ pulled' \in 0..written' /\ written' \in Nat
    <2>1. CASE child = "none"
        BY <1>1, <2>1 DEF open_stream, ReadingIsNext
    <2>2. CASE child # "none"
        BY <1>1, <2>2 DEF open_stream, ReadingIsNext, IngestTypeOK, FramesCounted
    <2> QED BY <2>1, <2>2
<1>6. Units(Life, Base, 0) = <<>> /\ Len(<<>>) = 0 /\ <<>> \in Seq(Nat \X Nat)
    <2>1. Units(Life, Base, 0) \in Seq(Nat \X Nat) /\ Len(Units(Life, Base, 0)) = 0
        BY <1>3, UnitsGrow
    <2> QED BY <2>1, EmptySeq
<1>7. lives' \in 0..MaxFrames + 1 /\ lives' <= Life
    BY <1>3, <1>5, IngestLimits DEF Life, FramesCounted
<1>8. IngestTypeOK' /\ FramesCounted'
    BY <1>1, <1>2, <1>4, <1>5, <1>7 DEF IngestTypeOK, FramesCounted
<1>9. ReadingIsNext'
    <2>1. taken' = Base' + Len(got')
        BY <1>1, <1>2, <1>3, <1>4, <1>5, <1>6
    <2>2. got' = Units(Life', Base', Len(got'))
        BY <1>1, <1>2, <1>4, <1>6
    <2> QED BY <1>1, <1>2, <1>4, <1>5, <1>6, <2>1, <2>2 DEF ReadingIsNext
<1>10. FutureIsNext' /\ AlwaysOneAhead'
    BY <1>1, <1>4, KindsDiffer DEF FutureIsNext, AlwaysOneAhead
<1> QED BY <1>2, <1>8, <1>9, <1>10

\* fread(): one more unit of the next frame, or all of it.
LEMMA ReadSafe ==
    ASSUME IngestSafe, read_stream_byte_vector \/ line_too_long
    PROVE  IngestSafe'
<1> USE DEF IngestSafe
<1> DEFINE units == Append(got, <<lives, taken>>)
           n == Len(got)
<1>1. /\ UNCHANGED <<mode, child, lives, written, status, signalled, main, frames>>
      /\ reader = "read" /\ written > taken /\ taken' = taken + 1
      /\ pulled' \in IF pulled > taken THEN {pulled} ELSE (taken + 1)..written
    BY DEF read_stream_byte_vector, line_too_long, childVars
<1>2. Parts' = Parts /\ Size' = Size /\ Life' = Life /\ Base' = Base /\ FramesWholeInOrder'
    BY <1>1, SameNext
<1>3. Len(frames) \in Nat /\ Size \in Nat /\ Life \in Nat /\ Base \in Nat
    BY NextFrameFacts DEF FramesCounted
<1>4. /\ future = Nothing /\ main \notin {"ended", "closing", "closed"}
      /\ child # "none" /\ lives = Life /\ n \in Nat
      /\ got = Units(Life, Base, n) /\ taken = Base + n
    BY <1>1 DEF ReadingIsNext, FutureIsNext, AlwaysOneAhead
<1>5. /\ units = Units(Life, Base, n + 1) /\ units \in Seq(Nat \X Nat) /\ Len(units) = n + 1
      /\ taken' = Base + Len(units)
    <2>1. units = Append(Units(Life, Base, n), <<Life, Base + n>>)
        BY <1>4
    <2>2. Append(Units(Life, Base, n), <<Life, Base + n>>) = Units(Life, Base, n + 1)
        BY <1>3, <1>4, UnitsGrow
    <2>3. /\ Units(Life, Base, n + 1) \in Seq(Nat \X Nat)
          /\ Len(Units(Life, Base, n + 1)) = n + 1
        <3>1. n + 1 \in Nat
            BY <1>4
        <3> QED BY <1>3, <3>1, UnitsGrow
    <2>4. units = Units(Life, Base, n + 1)
        BY <2>1, <2>2
    <2>5. Len(units) = n + 1
        BY <2>3, <2>4
    <2>6. taken' = Base + (n + 1)
        BY <1>1, <1>3, <1>4
    <2> HIDE DEF units, n
    <2> QED BY <2>3, <2>4, <2>5, <2>6
<1>6. \/ reader' \in {"read", "select"} /\ got' = units /\ future' = Nothing
      \/ reader' = "idle" /\ got' = <<>> /\ future' = Thrown
      \/ /\ reader' = "idle" /\ got' = <<>> /\ future' = Whole(units)
         /\ mode # "one_shot_ppm" /\ Len(units) = Size
    <2>1. CASE line_too_long
        BY <2>1 DEF line_too_long, Return
    <2>3. CASE read_stream_byte_vector
      <3>1. IF mode # "one_shot_ppm" /\ Len(units) % 2 = 0 THEN PartRead(units)
            ELSE got' = units /\ UNCHANGED <<reader, future>>
          BY <2>3 DEF read_stream_byte_vector
      <3> HIDE DEF units
      <3>2. PartRead(units) => \/ reader' = "select" /\ got' = units /\ UNCHANGED future
                               \/ reader' = "idle" /\ got' = <<>> /\ future' = Thrown
                               \/ /\ reader' = "idle" /\ got' = <<>> /\ future' = Whole(units)
                                  /\ Len(units) = Size
          BY DEF PartRead, Return, Size
      <3> QED BY <1>1, <1>4, <3>1, <3>2
    <2> QED BY <2>1, <2>3
<1> HIDE DEF units, n
<1>7. IngestTypeOK' /\ FramesCounted'
    <2>1. taken' \in 0..pulled' /\ pulled' \in 0..written'
        BY <1>1 DEF IngestTypeOK, FramesCounted
    <2> QED BY <1>1, <1>2, <1>6, <2>1 DEF IngestTypeOK, FramesCounted
<1>8. ReadingIsNext'
    <2>1. CASE reader' \in {"read", "select"} /\ got' = units
        <3>1. /\ got' \in Seq(Nat \X Nat) /\ got' = Units(Life', Base', Len(got'))
              /\ taken' = Base' + Len(got')
            BY <1>2, <1>5, <2>1
        <3> QED BY <1>1, <1>2, <1>4, <2>1, <3>1 DEF ReadingIsNext
    <2>2. CASE reader' = "idle" /\ got' = <<>>
        BY <2>2 DEF ReadingIsNext
    <2> QED BY <1>6, <2>1, <2>2
<1>9. FutureIsNext'
    <2>1. CASE future' \in {Nothing, Thrown} /\ (future' = Nothing \/ reader' = "idle")
        BY <2>1, KindsDiffer DEF FutureIsNext
    <2>2. CASE reader' = "idle" /\ future' = Whole(units) /\ mode # "one_shot_ppm"
               /\ Len(units) = Size
        <3>1. units = Units(Life', Base', Size') /\ taken' = Base' + Size' /\ lives' = Life'
            BY <1>1, <1>2, <1>4, <1>5, <2>2
        <3> QED BY <1>1, <1>4, <2>2, <3>1, KindsDiffer DEF FutureIsNext
    <2> QED BY <1>6, <2>1, <2>2
<1>10. AlwaysOneAhead'
    BY <1>1, <1>4, <1>6, KindsDiffer DEF AlwaysOneAhead
<1> QED BY <1>2, <1>7, <1>8, <1>9, <1>10

\* The end of the data: a one-shot frame is whole, a stream has ended, or it is cut.
LEMMA EofSafe == ASSUME IngestSafe, read_eof PROVE IngestSafe'
<1> USE DEF IngestSafe
<1>1. /\ UNCHANGED <<mode, lives, written, pulled, taken, signalled, main, frames>>
      /\ reader = "read" /\ written = taken /\ child' = "none" /\ status' = child
      /\ child \in {"ok", "bad"} /\ reader' = "idle" /\ got' = <<>>
    BY DEF read_eof, Return, Exited
<1>2. Parts' = Parts /\ Size' = Size /\ Life' = Life /\ Base' = Base /\ FramesWholeInOrder'
    BY <1>1, SameNext
<1>3. Len(frames) \in Nat /\ Size \in Nat /\ Life \in Nat /\ Base \in Nat
    BY NextFrameFacts DEF FramesCounted
<1>4. /\ main \notin {"ended", "closing", "closed"} /\ lives = Life
      /\ got = Units(Life, Base, Len(got)) /\ taken = Base + Len(got)
    BY <1>1 DEF ReadingIsNext, AlwaysOneAhead
<1>5. \/ future' = Thrown
      \/ mode = "one_shot_ppm" /\ Len(got) = 2 /\ future' = Whole(got)
      \/ mode # "one_shot_ppm" /\ got = <<>> /\ child = "ok" /\ future' = Ended
    BY <1>1 DEF read_eof, Return
<1>6. IngestTypeOK' /\ FramesCounted'
    BY <1>1, <1>2 DEF IngestTypeOK, FramesCounted
<1>7. ReadingIsNext'
    BY <1>1 DEF ReadingIsNext
<1>8. FutureIsNext'
    <2>1. CASE future' = Thrown
        BY <1>1, <2>1, KindsDiffer DEF FutureIsNext
    <2>2. CASE mode = "one_shot_ppm" /\ Len(got) = 2 /\ future' = Whole(got)
        <3>1. Size = 2
            BY <2>2 DEF Size, Parts
        <3>2. future' = Whole(Units(Life', Base', Size'))
            BY <1>2, <1>4, <2>2, <3>1
        <3> QED BY <1>1, <1>2, <1>4, <2>2, <3>2, KindsDiffer DEF FutureIsNext
    <2>3. CASE mode # "one_shot_ppm" /\ got = <<>> /\ child = "ok" /\ future' = Ended
        <3>1. written' = Base'
            BY <1>1, <1>2, <1>3, <1>4, <2>3
        <3> QED BY <1>1, <2>3, <3>1, KindsDiffer DEF FutureIsNext
    <2> QED BY <1>5, <2>1, <2>2, <2>3
<1>9. AlwaysOneAhead'
    <2>1. future' # Nothing
        BY <1>5, KindsDiffer
    <2> QED BY <1>1, <1>4, <2>1 DEF AlwaysOneAhead
<1> QED BY <1>2, <1>6, <1>7, <1>8, <1>9

\* get(): the frame in the future is the next one, and becomes the last one.
LEMMA GetFrameSafe == ASSUME IngestSafe, get_frame PROVE IngestSafe'
<1> USE DEF IngestSafe
<1> DEFINE u == Units(Life, Base, Size)
           F == Len(frames)
<1>1. /\ UNCHANGED <<mode, child, lives, written, pulled, taken, status, got, signalled>>
      /\ main = "get" /\ future.kind = "frame" /\ frames' = Append(frames, future.units)
      /\ future' = Nothing /\ reader' = "open" /\ main' = "run"
    BY DEF get_frame, childVars
<1>2. F \in Nat /\ Size \in Nat /\ Life \in Nat /\ Base \in Nat /\ Parts \in Nat
    BY NextFrameFacts DEF FramesCounted
<1>3. /\ future = Whole(u) /\ lives = Life /\ reader = "idle" /\ got = <<>>
      /\ IF mode = "one_shot_ppm" THEN child = "none" ELSE child # "none" /\ taken = Base + Size
    BY <1>1, KindsDiffer DEF FutureIsNext, ReadingIsNext
<1>4. u \in Seq(Nat \X Nat)
    BY <1>2, UnitsGrow
<1>5. frames' = Append(frames, u)
    BY <1>1, <1>3, KindsDiffer
<1>6. u = IF mode = "one_shot_ppm" THEN Frame(F + 1, 0) ELSE Frame(1, F)
    <2>1. \A i \in Int : 2 * Parts * 0 + i - 1 = 0 + i - 1
        BY <1>2
    <2>2. CASE mode = "one_shot_ppm"
        BY <1>2, <2>1, <2>2 DEF Units, Frame, Life, Base, Size
    <2>3. CASE mode # "one_shot_ppm"
        BY <1>2, <2>3 DEF Units, Frame, Life, Base, Size
    <2> QED BY <2>2, <2>3
<1> HIDE DEF u
<1>7. /\ frames \in Seq(Seq(Nat \X Nat)) /\ frames' \in Seq(Seq(Nat \X Nat)) /\ Len(frames') = F + 1
      /\ frames'[F + 1] = u /\ \A i \in 1..F : frames'[i] = frames[i]
    BY <1>4, <1>5 DEF FramesCounted
<1>8. Parts' = Parts /\ Size' = Size
    BY <1>1 DEF Parts, Size
<1>9. Life' = (IF mode = "one_shot_ppm" THEN Life + 1 ELSE Life)
      /\ Base' = (IF mode = "one_shot_ppm" THEN 0 ELSE Base + Size)
    <2>1. Size * (F + 1) = Size * F + Size
        BY <1>2
    <2> QED BY <1>1, <1>2, <1>7, <1>8, <2>1 DEF Life, Base
<1>10. FramesWholeInOrder'
    <2> DEFINE Want(n) == IF mode = "one_shot_ppm" THEN Frame(n, 0) ELSE Frame(1, n - 1)
    <2>1. frames = [n \in 1..F |-> Want(n)]
        BY DEF FramesWholeInOrder
    <2>2. u = Want(F + 1)
        <3>1. (F + 1) - 1 = F
            BY <1>2
        <3> QED BY <1>6, <3>1
    <2> HIDE DEF Want
    <2>3. \A n \in 1..(F + 1) : frames'[n] = Want(n)
        <3>1. \A n \in 1..F : frames[n] = Want(n)
            BY <2>1
        <3>2. \A n \in 1..(F + 1) : n \in 1..F \/ n = F + 1
            BY <1>2
        <3>3. \A n \in 1..F : frames'[n] = Want(n)
            BY <1>7, <3>1
        <3>4. frames'[F + 1] = Want(F + 1)
            BY <1>7, <2>2
        <3> HIDE DEF IngestSafe, F
        <3> QED BY <3>2, <3>3, <3>4
    <2>4. frames' = [n \in 1..Len(frames') |-> Want(n)]
        BY <1>7, <2>3
    <2>5. \A n : Want(n) = IF mode' = "one_shot_ppm" THEN Frame(n, 0)' ELSE Frame(1, n - 1)'
        BY <1>1, <1>8 DEF Want, Frame
    <2> QED BY <2>4, <2>5 DEF FramesWholeInOrder
<1>11. IngestTypeOK'
    BY <1>1 DEF IngestTypeOK
<1>12. FramesCounted'
    BY <1>1, <1>2, <1>3, <1>7, <1>9, IngestLimits DEF FramesCounted
<1>13. ReadingIsNext'
    <2>1. CASE mode = "one_shot_ppm"
        BY <1>1, <1>2, <1>3, <1>9, <2>1 DEF ReadingIsNext
    <2>2. CASE mode # "one_shot_ppm"
        BY <1>1, <1>2, <1>3, <1>9, <2>2 DEF ReadingIsNext
    <2> QED BY <2>1, <2>2
<1>14. FutureIsNext' /\ AlwaysOneAhead'
    BY <1>1, KindsDiffer DEF FutureIsNext, AlwaysOneAhead
<1> QED BY <1>10, <1>11, <1>12, <1>13, <1>14

\* Every step of the frame path keeps its invariant.
LEMMA IngestStepSafe == ASSUME IngestSafe, IngestNext PROVE IngestSafe'
BY ChildStepSafe, MainStepSafe, WaitingSafe, OpenSafe, ReadSafe, EofSafe, GetFrameSafe
   DEF IngestNext, readerStep, mainStep

\* Before the first child, in whatever mode.
LEMMA IngestSafeInit == ASSUME IngestInit(mode) PROVE IngestSafe
<1> USE DEF IngestInit
<1>1. Len(frames) = 0 /\ frames \in Seq(Seq(Nat \X Nat))
    OBVIOUS
<1>2. Parts \in Nat /\ Size \in Nat /\ Life = 1 /\ Base = 0
    BY <1>1, NextFrameFacts DEF Life, Base
<1>3. IngestTypeOK /\ FramesCounted
    <2>1. lives \in 0..MaxFrames + 1 /\ taken \in 0..pulled /\ pulled \in 0..written
        BY IngestLimits
    <2>2. IngestTypeOK
        BY <2>1 DEF IngestTypeOK
    <2> QED BY <1>1, <1>2, <2>2, IngestLimits DEF FramesCounted
<1>4. FramesWholeInOrder
    BY <1>1 DEF FramesWholeInOrder
<1>5. ReadingIsNext /\ FutureIsNext /\ AlwaysOneAhead
    BY KindsDiffer DEF ReadingIsNext, FutureIsNext, AlwaysOneAhead
<1> QED BY <1>3, <1>4, <1>5 DEF IngestSafe

-----------------------------------------------------------------------------
(* Estimating poses. *)

LEMMA EgoLimits ==
    /\ MaxFeatures \in Nat /\ MinFeatures \in Nat /\ MinFeatures > 0
    /\ RelocDrift \in Nat /\ FallbackDrift \in Nat /\ MaxDrift \in Nat
    /\ RelocDrift < FallbackDrift /\ FallbackDrift < MaxDrift
    /\ Scales \subseteq Nat
<1>1. MaxFeatures \in Nat \ {0} /\ MinFeatures \in Nat \ {0}
    BY EgoAssumption DEF EgoAssumption
<1>2. RelocDrift \in Nat /\ FallbackDrift \in Nat /\ MaxDrift \in Nat
    BY EgoAssumption DEF EgoAssumption
<1> QED BY <1>1, <1>2, EgoAssumption DEF EgoAssumption

\* A step adds at most its scale to the drift, whatever it is tried with.
LEMMA DriftStep ==
    ASSUME drift \in Nat, NEW old, NEW new, NEW s \in Nat, NEW moving \in BOOLEAN,
           NEW d1 \in step_vl1(old, new, s, moving), NEW d2 \in relocalize_vl2(d1)
    PROVE  d2 \in Nat /\ d2 <= drift + s
<1>1. d1 \in drift..(drift + s) \/ d1 = drift + s \/ d1 = drift
    BY DEF step_vl1, dead_reckoning, apply_mean_flow, foe_ransac
<1>2. d1 \in Nat /\ d1 <= drift + s
    BY <1>1
<1>3. d1 \div 2 \in Nat /\ d1 \div 2 <= d1
    BY <1>2
<1>4. d2 = d1 \/ d2 = d1 \div 2
    BY DEF relocalize_vl2
<1> QED BY <1>2, <1>3, <1>4

\* What a fallback with threshold f leaves of a drift is within its bound, when the
\* drift d before the step was, and long was the longest step so far.
LEMMA CutIsBounded ==
    ASSUME NEW d \in Nat, NEW d2 \in Nat, NEW s \in Nat, NEW f \in Nat, NEW long \in Nat,
           d2 <= d + s, s <= long, d <= f \/ 7 * d <= 3 * long
    PROVE  /\ reanchor(d2) \in Nat
           /\ reanchor(d2) <= f \/ 7 * reanchor(d2) <= 3 * long
<1> DEFINE r == reanchor(d2)
<1>1. r \in Nat /\ 10 * r <= 3 * d2
    BY DEF reanchor
<1> HIDE DEF r
<1>2. 10 * r <= 3 * d + 3 * long
    BY <1>1
<1>3. CASE 7 * d <= 3 * long
    <2>1. 70 * r <= 30 * long
        BY <1>1, <1>2, <1>3
    <2> QED BY <1>1, <2>1 DEF r
<1>4. CASE d <= f
    <2>1. CASE r <= f
        BY <1>1, <2>1 DEF r
    <2>2. CASE r > f
        <3>1. 10 * r <= 3 * r + 3 * long
            BY <1>1, <1>2, <1>4, <2>2
        <3> QED BY <1>1, <3>1 DEF r
    <2> QED BY <1>1, <2>1, <2>2
<1> QED BY <1>3, <1>4

LEMMA LongerStep ==
    ASSUME NEW d \in Nat, NEW s \in Nat, NEW long \in Nat, s <= long, 7 * d <= 3 * s
    PROVE  7 * d <= 3 * long
OBVIOUS

\* estimate(): features are added only to few, and of too large a drift a part is kept.
LEMMA EstimateSafe ==
    ASSUME EgoSafe, NEW found \in BOOLEAN, estimate(found), main = "run",
           main' = IF found THEN "loop" ELSE "dropped"
    PROVE  EgoSafe'
<1> USE DEF EgoSafe
<1> DEFINE Drifts(d2) ==
        IF fallback /\ d2 > FallbackDrift THEN drift' = IF found THEN reanchor(d2) ELSE d2
        ELSE found /\ drift' = Bounded(d2)
           Made(old, new, s, moving) ==
        /\ features' = [old |-> old, new |-> new] /\ scale' \in update_scale_vl2(old, s)
        /\ \E d1 \in step_vl1(old, new, s, moving) : \E d2 \in relocalize_vl2(d1) : Drifts(d2)
           Estimated(s, moving) ==
        /\ stride' = IF s > stride THEN s ELSE stride
        /\ \E old \in track_lk : \E new \in redetect(old) : Made(old, new, s, moving)
<1>1. PICK moving \in BOOLEAN : \E s \in IF moving THEN Scales ELSE {scale} : Estimated(s, moving)
    BY DEF estimate
<1>2. PICK s \in IF moving THEN Scales ELSE {scale} : Estimated(s, moving)
    BY <1>1
<1> HIDE DEF Made
<1>3. PICK old \in track_lk : \E new \in redetect(old) : Made(old, new, s, moving)
    BY <1>2
<1>4. PICK new \in redetect(old) : Made(old, new, s, moving)
    BY <1>3
<1> HIDE DEF Drifts
<1>5. PICK d1 \in step_vl1(old, new, s, moving) : \E d2 \in relocalize_vl2(d1) : Drifts(d2)
    BY <1>4 DEF Made
<1>6. PICK d2 \in relocalize_vl2(d1) : Drifts(d2)
    BY <1>5
<1>7. IF fallback /\ d2 > FallbackDrift THEN drift' = IF found THEN reanchor(d2) ELSE d2
      ELSE found /\ drift' = Bounded(d2)
    BY <1>6 DEF Drifts
<1>8. s \in Nat /\ stride' \in Nat /\ s <= stride' /\ stride <= stride'
    BY <1>2, EgoLimits
<1>9. scale' \in Nat
    BY <1>4, <1>8, EgoLimits DEF Made, update_scale_vl2
<1> HIDE DEF Estimated
<1>10. drift \in Nat /\ d2 \in Nat /\ d2 <= drift + s
    BY <1>8, DriftStep
<1>11. seen \in Nat /\ seen' = seen + 1 /\ fallback' = fallback
    BY DEF estimate
<1>12. /\ features.old \in Nat /\ features.new \in Nat
       /\ features.old + features.new <= MinFeatures - 1 + MaxFeatures
    BY DEF FeaturesBounded
<1>13. /\ old \in Nat /\ new \in Nat /\ old + new <= MinFeatures - 1 + MaxFeatures
    <2>1. old \in 0..(features.old + features.new)
        BY DEF track_lk
    <2>2. CASE old < MinFeatures
        BY <1>12, <2>1, <2>2, EgoLimits DEF redetect, detect_fast9
    <2>3. CASE ~(old < MinFeatures)
        BY <1>12, <2>1, <2>3, EgoLimits DEF redetect
    <2> QED BY <2>2, <2>3
<1>14. features' \in [old : Nat, new : Nat] /\ FeaturesBounded'
    BY <1>4, <1>13 DEF FeaturesBounded, Made
<1>15. fallback => drift <= FallbackDrift \/ 7 * drift <= 3 * stride'
    <2>1. fallback => drift <= FallbackDrift \/ 7 * drift <= 3 * stride
        BY DEF DriftIsReanchored
    <2>2. stride \in Nat
        OBVIOUS
    <2> HIDE DEF EgoSafe
    <2> QED BY <1>8, <1>10, <2>1, <2>2, LongerStep
<1>16. drift' \in Nat /\ (fallback /\ found => drift' <= FallbackDrift \/ 7 * drift' <= 3 * stride')
    <2>1. CASE fallback /\ d2 > FallbackDrift
        <3>1. /\ reanchor(d2) \in Nat
              /\ reanchor(d2) <= FallbackDrift \/ 7 * reanchor(d2) <= 3 * stride'
            BY <1>8, <1>10, <1>15, <2>1, EgoLimits, CutIsBounded
        <3>2. drift' = IF found THEN reanchor(d2) ELSE d2
            BY <1>7, <2>1
        <3> QED BY <1>10, <3>1, <3>2
    <2>2. CASE ~(fallback /\ d2 > FallbackDrift)
        <3>1. drift' = IF d2 > MaxDrift THEN MaxDrift ELSE d2
            BY <1>7, <2>2 DEF Bounded
        <3>2. drift' \in Nat /\ drift' <= d2
            BY <1>10, <3>1, EgoLimits
        <3>3. fallback => d2 <= FallbackDrift
            BY <1>10, <2>2, EgoLimits
        <3>4. fallback => drift' <= FallbackDrift
            BY <1>10, <3>2, <3>3, EgoLimits
        <3> QED BY <3>2, <3>4
    <2> QED BY <2>1, <2>2
<1>17. DriftIsReanchored'
    BY <1>11, <1>16 DEF DriftIsReanchored
<1> QED BY <1>8, <1>9, <1>11, <1>14, <1>16, <1>17

LEMMA EstimateFirstSafe ==
    ASSUME EgoSafe, estimate_first, main = "run", main' = "loop"
    PROVE  EgoSafe'
<1> USE DEF EgoSafe, estimate_first
<1>1. features = [old |-> 0, new |-> 0]
    OBVIOUS
<1>2. PICK new \in 0..MaxFeatures : features' = [old |-> 0, new |-> new]
    <2>1. PICK new \in 0..MaxFeatures :
              features' = [old |-> features.old, new |-> features.new + new]
        BY DEF detect_fast9
    <2>2. features.old = 0 /\ features.new + new = new
        BY <1>1, EgoLimits
    <2> QED BY <2>1, <2>2
<1>3. features' \in [old : Nat, new : Nat] /\ FeaturesBounded'
    BY <1>2, EgoLimits DEF FeaturesBounded
<1>4. DriftIsReanchored'
    BY DEF DriftIsReanchored
<1>5. scale' \in Nat
    BY EgoLimits
<1> QED BY <1>3, <1>4, <1>5

\* A step that estimates nothing and does not come back from the end of the loop.
LEMMA NoEstimateSafe ==
    ASSUME EgoSafe, UNCHANGED egoVars,
           main' \in {"loop", "get", "run"} => main \in {"loop", "get", "run"}
    PROVE  EgoSafe'
BY DEF EgoSafe, egoVars, FeaturesBounded, DriftIsReanchored

-----------------------------------------------------------------------------
(* The core stack. *)

\* run_once() uses a frame and leaves the frame path alone.
LEMMA UsedSafe ==
    ASSUME IngestSafe, NEW next \in {"loop", "dropped", "failed"}, Used(next)
    PROVE  IngestSafe'
<1> USE DEF IngestSafe
<1>1. /\ UNCHANGED <<mode, child, lives, written, pulled, taken, status, reader, got, future, signalled,
                     frames>>
      /\ main = "run" /\ main' = next
    BY DEF Used, childVars
<1>2. Parts' = Parts /\ Size' = Size /\ Life' = Life /\ Base' = Base /\ FramesWholeInOrder'
    BY <1>1, SameNext
<1>3. IngestTypeOK' /\ FramesCounted'
    BY <1>1, <1>2 DEF IngestTypeOK, FramesCounted, Leaving
<1>4. ReadingIsNext' /\ FutureIsNext'
    BY <1>1, <1>2 DEF ReadingIsNext, FutureIsNext
<1>5. AlwaysOneAhead'
    BY <1>1, <1>2 DEF AlwaysOneAhead
<1> QED BY <1>2, <1>3, <1>4, <1>5

\* Steps that leave the loader, or the frame path, alone.
LEMMA LoaderUnchanged == ASSUME LoaderSafe, UNCHANGED configVars PROVE LoaderSafe'
BY LoaderMovesOn DEF LoaderSafe, configVars

LEMMA IngestUnchanged == ASSUME IngestSafe, UNCHANGED ingestVars PROVE IngestSafe'
<1> USE DEF IngestSafe
<1>1. UNCHANGED <<mode, child, lives, written, pulled, taken, status, reader, got, future, signalled,
                  main, frames>>
    BY DEF ingestVars
<1>2. Parts' = Parts /\ Size' = Size /\ Life' = Life /\ Base' = Base /\ FramesWholeInOrder'
    BY <1>1, SameNext
<1>3. IngestTypeOK' /\ FramesCounted'
    BY <1>1, <1>2 DEF IngestTypeOK, FramesCounted
<1>4. ReadingIsNext' /\ FutureIsNext' /\ AlwaysOneAhead'
    BY <1>1, <1>2 DEF ReadingIsNext, FutureIsNext, AlwaysOneAhead
<1> QED BY <1>2, <1>3, <1>4

LEMMA CoreSafeInit == CoreInit => CoreSafe
<1> SUFFICES ASSUME CoreInit PROVE CoreSafe
    OBVIOUS
<1>1. IngestInit(mode)
    BY DEF CoreInit, IngestInit
<1>2. LoaderSafe /\ IngestSafe
    BY <1>1, LoaderSafeInit, IngestSafeInit DEF CoreInit
<1>3. EgoSafe
    <2>1. /\ seen = 0 /\ features = [old |-> 0, new |-> 0] /\ drift = 0 /\ fallback = FALSE
          /\ scale = 0 /\ stride = 0
        BY DEF CoreInit, EgoInit
    <2>2. features \in [old : Nat, new : Nat] /\ {scale, stride, drift} \subseteq Nat
        BY <2>1, EgoLimits
    <2>3. FeaturesBounded
        BY <2>1, EgoLimits DEF FeaturesBounded
    <2>4. DriftIsReanchored
        BY <2>1 DEF DriftIsReanchored
    <2> QED BY <2>1, <2>2, <2>3, <2>4 DEF EgoSafe
<1>4. NothingBeforeCreate
    BY <1>1 DEF NothingBeforeCreate, CoreInit, EgoInit
<1> QED BY <1>2, <1>3, <1>4 DEF CoreSafe

\* ProviderRegistry::create(): everything is new.
LEMMA CreateSafe == ASSUME CoreSafe, create PROVE CoreSafe'
<1> USE DEF CoreSafe
<1>1. /\ loader = "loaded" /\ loader' = "created" /\ UNCHANGED <<todo, stack>>
      /\ config' = Defaults /\ env' = Unset /\ own' = [f \in Files |-> None]
      /\ layout' = CHOOSE l \in Layouts : TRUE
    BY DEF create
<1>2. LoaderSafe'
    <2>1. stack = <<>> /\ todo \in Seq(Files) /\ layout \in Layouts
        BY <1>1 DEF LoaderSafe
    <2>2. layout' \in Layouts /\ layout' \in [Files -> Seq(Files)]
        BY <1>1, <2>1, ConfigAssumption DEF ConfigAssumption
    <2>3. IsConfig(config') /\ IsLines(env')
        BY <1>1, ConfigAssumption DEF ConfigAssumption, IsConfig, IsLines, Unset
    <2>4. stack' = <<>> /\ stack' \in Seq(Entries) /\ NoFileTwice' /\ OpenFilesAreRead'
        BY <1>1, <2>1 DEF NoFileTwice, OpenFilesAreRead
    <2>5. DOMAIN own' = Files /\ \A f \in Files : own'[f] = None
        BY <1>1
    <2> QED BY <1>1, <2>1, <2>2, <2>3, <2>4, <2>5 DEF LoaderSafe
<1>3. IngestInit(mode) /\ seen = 0 /\ drift = 0
    BY <1>1 DEF NothingBeforeCreate
<1>4. IngestSafe'
    <2>1. IngestInit(mode)'
        BY <1>3 DEF create, IngestInit
    <2> QED BY <2>1, IngestSafeInit, PTL
<1>5. EgoSafe'
    BY <1>3, EgoLimits DEF create, EgoSafe, FeaturesBounded, DriftIsReanchored
<1>6. NothingBeforeCreate'
    BY <1>1 DEF NothingBeforeCreate
<1> QED BY <1>2, <1>4, <1>5, <1>6

\* One step of the core stack.
LEMMA CoreSafeStep ==
    ASSUME CoreSafe, CoreNext \/ UNCHANGED coreVars
    PROVE  CoreSafe'
<1> USE DEF CoreSafe
<1>1. CASE load
    <2>1. ConfigNext /\ UNCHANGED <<ingestVars, egoVars, ego>>
        BY <1>1 DEF load
    <2>2. LoaderSafe' /\ IngestSafe'
        BY <2>1, LoaderSafeStep, IngestUnchanged
    <2>3. EgoSafe'
        BY <2>1, NoEstimateSafe DEF ingestVars
    <2>4. loader # "created" /\ loader' # "created"
        BY <2>1 DEF ConfigNext, load_path, load_include, open_file, open_throws, apply_own_lines,
                    apply_throws, apply_eval_env_overrides, populate_runner_eval_slots,
                    validate_config, build_depth_slots, Fail
    <2>5. NothingBeforeCreate'
        BY <2>1, <2>4 DEF NothingBeforeCreate, ingestVars, egoVars, IngestInit
    <2> QED BY <2>2, <2>3, <2>5
<1>2. CASE create
    BY <1>2, CreateSafe
<1>6. CASE create_throws
    <2>1. loader' = "failed" /\ UNCHANGED <<todo, layout, own, stack, config, env>>
          /\ UNCHANGED ingestVars /\ UNCHANGED egoVars /\ loader = "loaded"
        BY <1>6 DEF create_throws, Fail
    <2>2. LoaderSafe'
        BY <2>1, LoaderMovesOn DEF LoaderSafe
    <2>3. IngestSafe' /\ EgoSafe'
        BY <2>1, IngestUnchanged, NoEstimateSafe DEF ingestVars
    <2>4. NothingBeforeCreate'
        BY <2>1 DEF NothingBeforeCreate, ingestVars, egoVars, IngestInit
    <2> QED BY <2>2, <2>3, <2>4
<1>3. CASE ingest
    <2>1. loader = "created" /\ IngestNext /\ UNCHANGED <<configVars, egoVars, ego>>
        BY <1>3 DEF ingest
    <2>2. LoaderSafe' /\ IngestSafe'
        BY <2>1, LoaderUnchanged, IngestStepSafe
    <2>3. main' \in {"loop", "get", "run"} => main \in {"loop", "get", "run"}
        BY <2>1 DEF IngestNext, readerStep, mainStep, childStep, open_stream, popen_throws,
                    select_ready, select_timeout, select_interrupted, line_too_long,
                    read_stream_byte_vector, read_eof_in_line, read_eof, next_frame,
                    get_frame, get_end, leave_loop, destroy, closed, child_writes, child_exits
    <2>4. EgoSafe'
        BY <2>1, <2>3, NoEstimateSafe
    <2>5. NothingBeforeCreate'
        BY <2>1 DEF NothingBeforeCreate, configVars
    <2> QED BY <2>2, <2>4, <2>5
<1>4. CASE run_once \/ run_once_throws
    <2>1. PICK next \in {"loop", "dropped", "failed"} :
             Used(next) /\ \/ UNCHANGED egoVars
                           \/ next = "loop" /\ estimate_first
                           \/ next = "loop" /\ estimate(TRUE)
                           \/ next = "dropped" /\ estimate(FALSE)
        BY <1>4 DEF run_once, run_once_throws, estimate_no_image
    <2>2. main = "run" /\ main' = next /\ UNCHANGED configVars
        BY <2>1 DEF Used
    <2>3. LoaderSafe' /\ IngestSafe'
        BY <2>1, <2>2, LoaderUnchanged, UsedSafe
    <2>4. EgoSafe'
        <3>1. CASE UNCHANGED egoVars
            BY <2>2, <3>1, NoEstimateSafe
        <3>2. CASE next = "loop" /\ estimate_first
            BY <2>2, <3>2, EstimateFirstSafe
        <3>3. CASE next = "loop" /\ estimate(TRUE)
            <4>1. main' = IF TRUE THEN "loop" ELSE "dropped"
                BY <2>2, <3>3
            <4> QED BY <2>2, <3>3, <4>1, EstimateSafe
        <3>4. CASE next = "dropped" /\ estimate(FALSE)
            <4>1. main' = IF FALSE THEN "loop" ELSE "dropped"
                BY <2>2, <3>4
            <4> QED BY <2>2, <3>4, <4>1, EstimateSafe
        <3> QED BY <2>1, <3>1, <3>2, <3>3, <3>4
    <2>5. NothingBeforeCreate'
        <3>1. loader = "created"
            BY <2>2 DEF NothingBeforeCreate, IngestInit
        <3> QED BY <2>2, <3>1 DEF NothingBeforeCreate, configVars
    <2> QED BY <2>3, <2>4, <2>5
<1>5. CASE UNCHANGED coreVars
    <2>1. UNCHANGED configVars /\ UNCHANGED ingestVars /\ UNCHANGED egoVars
        BY <1>5 DEF coreVars
    <2>2. LoaderSafe' /\ IngestSafe'
        BY <2>1, LoaderUnchanged, IngestUnchanged
    <2>3. EgoSafe'
        BY <2>1, NoEstimateSafe DEF ingestVars
    <2>4. NothingBeforeCreate'
        BY <2>1 DEF NothingBeforeCreate, configVars, ingestVars, egoVars, IngestInit
    <2> QED BY <2>2, <2>3, <2>4
<1> QED BY <1>1, <1>2, <1>3, <1>4, <1>5, <1>6 DEF CoreNext

\* The invariant holds in every behaviour; nothing rests on the fairness.
LEMMA CoreStaysSafe == CoreSpec => []CoreSafe
<1>1. CoreSafe /\ [CoreNext \/ (Finished /\ UNCHANGED coreVars)]_coreVars => CoreSafe'
    BY CoreSafeStep
<1> QED BY <1>1, CoreSafeInit, PTL DEF CoreSpec

\* Under every configuration, for every number of parts of a frame: run_once() gets the
\* frames the children wrote, whole, in order and each once, however writes, reads and
\* the death of a child interleave, and the end of the frames is reported only when
\* all of them were used and the child exited well.
THEOREM FramesAreTheChilds == CoreSpec => []FrameStreamIsSound
<1>1. CoreSafe => FrameStreamIsSound
    <2> SUFFICES ASSUME CoreSafe PROVE FrameStreamIsSound
        OBVIOUS
    <2> USE DEF CoreSafe
    <2>1. DOMAIN config = Keys /\ \A k \in Keys : config[k] \in ValuesOf[k]
        BY DEF LoaderSafe, IsConfig
    <2>2. features \in [old : Nat, new : Nat] /\ {scale, stride, drift} \subseteq Nat
        BY DEF EgoSafe
    <2>3. CoreTypeOK
        BY <2>1, <2>2, StackIsShort DEF CoreTypeOK, LoaderSafe, IngestSafe
    <2>4. EndIsTheEnd
        BY DEF EndIsTheEnd, IngestSafe, AlwaysOneAhead, Base, Size
    <2> QED BY <2>3, <2>4 DEF FrameStreamIsSound, IngestSafe
<1> QED BY <1>1, CoreStaysSafe, PTL

\* For every choice of the feature limits and drift thresholds: visual odometry never
\* tracks more than min_features - 1 + max_features features, and with a fallback
\* provider no frame is begun with a drift past both the fallback's threshold and 3/7
\* of the longest step, however long the steps are that speeds and the map lead to.
THEOREM OdometryStaysBounded == CoreSpec => []EgoStaysBounded
<1>1. CoreSafe => EgoStaysBounded
    BY DEF CoreSafe, EgoSafe, EgoStaysBounded
<1> QED BY <1>1, CoreStaysSafe, PTL

-----------------------------------------------------------------------------
\* Induction and recursion over the natural numbers, for sets and functions.

\* A set of naturals has a least element.
LEMMA LeastNat ==
    ASSUME NEW S \in SUBSET Nat, S # {}
    PROVE  \E m \in S : \A k \in S : m <= k
<1> DEFINE R == OpToRel(<, Nat)
<1>1. IsWellFoundedOn(R, Nat)
    BY NatLessThanWellFounded
<1>2. \A x, y \in Nat : y < x => <<y, x>> \in R
    BY DEF OpToRel
<1> HIDE DEF R
<1>3. PICK x \in S : \A y \in S : ~ (<<y, x>> \in R)
    BY <1>1, WFMin
<1>4. \A y \in S : x <= y
    <2> TAKE y \in S
    <2>1. x \in Nat /\ y \in Nat /\ ~(y < x)
        BY <1>2, <1>3
    <2> QED BY <2>1
<1> QED BY <1>4

\* A set that holds 0 and with every number the next holds them all.
LEMMA AllNats ==
    ASSUME NEW S, 0 \in S, \A m \in Nat : m \in S => m + 1 \in S
    PROVE  \A m \in Nat : m \in S
<1> SUFFICES ASSUME NEW m \in Nat, m \notin S PROVE FALSE
    OBVIOUS
<1> DEFINE T == {k \in Nat : k \notin S}
<1>1. T \in SUBSET Nat /\ T # {}
    OBVIOUS
<1>2. PICK l \in T : \A k \in T : l <= k
    BY <1>1, LeastNat
<1>3. l \in Nat /\ l \notin S /\ l # 0
    BY <1>2
<1>4. l - 1 \in Nat /\ l - 1 \notin T
    BY <1>2, <1>3
<1> QED BY <1>3, <1>4


-----------------------------------------------------------------------------
(* Precedence: what a load has put together. *)

\* What the first n of files say together, of every key the last that sets it.
Sums(says, files, n) ==
    [k \in Keys |->
        LET who == {i \in 1..n : says[files[i]][k] # None}
        IN IF who = {} THEN None
           ELSE says[files[CHOOSE i \in who : \A j \in who : j <= i]][k]]

\* Nothing says nothing.
LEMMA SumsOfNothing == ASSUME NEW says, NEW files PROVE Sums(says, files, 0) = Unset
<1>1. \A k : {i \in 1..0 : says[files[i]][k] # None} = {}
    OBVIOUS
<1> QED BY <1>1 DEF Sums, Unset

\* One more file goes over those before it.
LEMMA SumsGrow ==
    ASSUME NEW says, NEW files, NEW n \in Nat
    PROVE  Sums(says, files, n + 1) = Overlay(Sums(says, files, n), says[files[n + 1]])
<1> DEFINE Who(m, k) == {i \in 1..m : says[files[i]][k] # None}
           LastOf(W, k) == IF W = {} THEN None
                         ELSE says[files[CHOOSE i \in W : \A j \in W : j <= i]][k]
           Of(m, k) == LastOf(Who(m, k), k)
<1>1. ASSUME NEW k \in Keys
      PROVE  Of(n + 1, k) = IF says[files[n + 1]][k] = None THEN Of(n, k) ELSE says[files[n + 1]][k]
    <2>1. CASE says[files[n + 1]][k] = None
        <3>1. Who(n + 1, k) = Who(n, k)
            BY <2>1
        <3> HIDE DEF Who, LastOf
        <3> QED BY <2>1, <3>1
    <2>2. CASE says[files[n + 1]][k] # None
        <3>1. n + 1 \in Who(n + 1, k) /\ \A j \in Who(n + 1, k) : j \in Int /\ j <= n + 1
            BY <2>2
        <3> HIDE DEF Who
        <3>2. (CHOOSE i \in Who(n + 1, k) : \A j \in Who(n + 1, k) : j <= i) = n + 1
            BY <3>1
        <3> QED BY <2>2, <3>1, <3>2
    <2> QED BY <2>1, <2>2
<1>2. \A m : Sums(says, files, m) = [k \in Keys |-> Of(m, k)]
    BY DEF Sums
<1> HIDE DEF Of
<1> QED BY <1>1, <1>2 DEF Overlay

\* Only what the first n files say counts.
LEMMA SumsSame ==
    ASSUME NEW one, NEW two, NEW files, NEW n \in Nat,
           \A i \in 1..n : one[files[i]] = two[files[i]]
    PROVE  Sums(one, files, n) = Sums(two, files, n)
<1>1. ASSUME NEW k \in Keys
      PROVE  Sums(one, files, n)[k] = Sums(two, files, n)[k]
    <2> DEFINE A == {i \in 1..n : one[files[i]][k] # None}
               B == {i \in 1..n : two[files[i]][k] # None}
               c == CHOOSE i \in A : \A j \in A : j <= i
    <2>1. A = B
        OBVIOUS
    <2>2. CASE A = {}
        BY <2>1, <2>2 DEF Sums
    <2>3. CASE A # {}
        <3>1. A \in SUBSET Nat /\ A # {} /\ \A i \in A : i <= n
            BY <2>3
        <3>2. \E i \in A : \A j \in A : j <= i
            <4> HIDE DEF A
            <4> DEFINE U == {m \in 0..n : n - m \in A}
            <4>1. U \in SUBSET Nat /\ U # {}
                <5>1. PICK i \in A : TRUE
                    BY <3>1
                <5>2. i \in Nat /\ i <= n /\ n - i \in 0..n /\ n - (n - i) = i
                    BY <3>1
                <5>3. n - i \in U
                    BY <5>1, <5>2
                <5> QED BY <5>3
            <4>2. PICK m \in U : \A l \in U : m <= l
                BY <4>1, LeastNat
            <4>3. m \in Nat /\ m <= n /\ n - m \in A
                BY <4>2
            <4>4. ASSUME NEW j \in A PROVE j <= n - m
                <5>1. j \in Nat /\ j <= n
                    BY <3>1
                <5>2. n - j \in 0..n /\ n - (n - j) = j
                    BY <5>1
                <5>3. m <= n - j
                    BY <4>2, <5>2
                <5> QED BY <4>3, <5>1, <5>3
            <4> QED BY <4>3, <4>4
        <3>3. c \in A
            BY <3>2
        <3>4. one[files[c]] = two[files[c]]
            BY <3>3
        <3>5. Sums(one, files, n)[k] = one[files[c]][k]
            BY <2>3 DEF Sums
        <3>6. Sums(two, files, n)[k] = two[files[c]][k]
            <4>1. Sums(two, files, n)[k] = IF B = {} THEN None
                                           ELSE two[files[CHOOSE i \in B : \A j \in B : j <= i]][k]
                BY DEF Sums
            <4> HIDE DEF B
            <4> QED BY <4>1, <2>1, <2>3
        <3> QED BY <3>4, <3>5, <3>6
    <2> QED BY <2>2, <2>3
<1>2. /\ DOMAIN Sums(one, files, n) = Keys /\ DOMAIN Sums(two, files, n) = Keys
      /\ Sums(one, files, n) = [k \in Keys |-> Sums(one, files, n)[k]]
      /\ Sums(two, files, n) = [k \in Keys |-> Sums(two, files, n)[k]]
    BY DEF Sums
<1> QED BY <1>1, <1>2

\* What a whole list of files says together.
LEMMA TogetherIsSums ==
    ASSUME NEW says, NEW T, NEW files \in Seq(T)
    PROVE  Together(says, files) = Sums(says, files, Len(files))
<1>1. DOMAIN files = 1..Len(files)
    OBVIOUS
<1> QED BY <1>1 DEF Together, Sums

\* Lines over lines over lines: the order is what counts.
LEMMA OverlayAssoc ==
    ASSUME NEW c, NEW m, NEW o
    PROVE  Overlay(Overlay(c, m), o) = Overlay(c, Overlay(m, o))
BY DEF Overlay

\* Lines that set nothing change nothing.
LEMMA OverlayNothing ==
    ASSUME NEW c, c = [k \in Keys |-> c[k]]
    PROVE  Overlay(c, Unset) = c
BY DEF Overlay, Unset

\* D are the files of which everything below has been read, V what each says with it,
\* and r ranks each of them above the files it includes.
Completed(D, V, r, ow, la) ==
    /\ D \subseteq Files /\ r \in [D -> Nat]
    /\ \A f \in D :
          /\ ow[f] # None /\ r[f] <= Cardinality(D) /\ r[f] # 0
          /\ V[f] = Overlay(Sums(V, la[f], Len(la[f])), ow[f])
          /\ \A i \in 1..Len(la[f]) : la[f][i] \in D /\ r[la[f][i]] < r[f]

\* The first c of files are done and put over below give made, k is being read (0 or
\* 1), and rest is to come.
Level(D, V, files, rest, c, k, below, made) ==
    /\ c \in Nat /\ Len(files) = c + k + Len(rest)
    /\ \A j \in 1..Len(rest) : rest[j] = files[c + k + j]
    /\ \A j \in 1..c : files[j] \in D
    /\ made = Overlay(below, Sums(V, files, c))

\* The command line is level 0, and the files being loaded are the levels above it.
ListOf(la, st, i) == IF i = 0 THEN Paths ELSE la[st[i].file]
RestOf(st, td, i) == IF i = 0 THEN IF Len(st) = 0 THEN td ELSE Tail(td) ELSE st[i].inc
BelowOf(B, i) == IF i = 0 THEN Defaults ELSE B[i - 1]
BusyAt(st, i) == IF i < Len(st) THEN 1 ELSE 0

\* c of level i are done, and B[i] is the configuration with them.
Loaded(D, V, r, B, c, ow, la, st, td, cf) ==
    /\ Completed(D, V, r, ow, la)
    /\ \A i \in 0..Len(st) :
          Level(D, V, ListOf(la, st, i), RestOf(st, td, i), c[i], BusyAt(st, i), BelowOf(B, i), B[i])
    /\ \A i \in 1..Len(st) :
          ow[st[i].file] # None /\ st[i].file = ListOf(la, st, i - 1)[c[i - 1] + 1]
    /\ cf = B[Len(st)]

\* What is read of other files does not touch the completed ones.
LEMMA CompletedKept ==
    ASSUME NEW D, NEW V, NEW r, NEW ow, NEW la, Completed(D, V, r, ow, la),
           NEW read, \A f \in D : read[f] = ow[f]
    PROVE  Completed(D, V, r, read, la)
BY DEF Completed

\* With f the completed files are more, and say what they said.
GrownBy(f, D, V, ow, la) ==
    \E E, W, q : /\ Completed(E, W, q, ow, la) /\ D \subseteq E /\ f \in E
                 /\ \A g \in D : W[g] = V[g]

\* A file whose includes are completed is the next.
LEMMA CompletedGrows ==
    ASSUME NEW D, NEW V, NEW r, NEW ow, NEW la \in [Files -> Seq(Files)], Completed(D, V, r, ow, la),
           NEW f \in Files, ow[f] # None, \A i \in 1..Len(la[f]) : la[f][i] \in D
    PROVE  GrownBy(f, D, V, ow, la)
<1>1. CASE f \in D
    BY <1>1 DEF GrownBy
<1>2. CASE f \notin D
    <2> DEFINE E == D \cup {f}
               n == Cardinality(D)
               W == [g \in Files |-> IF g = f THEN Overlay(Sums(V, la[f], Len(la[f])), ow[f]) ELSE V[g]]
               q == [g \in E |-> IF g = f THEN n + 1 ELSE r[g]]
    <2>1. D \subseteq Files /\ r \in [D -> Nat] /\ E \subseteq Files
        BY DEF Completed
    <2>2. IsFiniteSet(D)
        BY <2>1, ConfigAssumption, FS_Subset DEF ConfigAssumption
    <2>3. n \in Nat /\ Cardinality(E) = n + 1
        BY <1>2, <2>2, FS_CardinalityType, FS_AddElement
    <2>4. W[f] = Overlay(Sums(V, la[f], Len(la[f])), ow[f]) /\ q[f] = n + 1
        OBVIOUS
    <2>5. \A g \in D : W[g] = V[g] /\ q[g] = r[g]
        BY <1>2, <2>1
    <2>6. q \in [E -> Nat]
        BY <2>1, <2>3
    <2>7. \A g \in Files : la[g] \in Seq(Files) /\ Len(la[g]) \in Nat
        OBVIOUS
    <2> HIDE DEF W, q, n
    <2>8. ASSUME NEW g \in E
          PROVE  /\ ow[g] # None /\ q[g] <= n + 1 /\ q[g] # 0
                 /\ W[g] = Overlay(Sums(W, la[g], Len(la[g])), ow[g])
                 /\ \A i \in 1..Len(la[g]) : la[g][i] \in E /\ q[la[g][i]] < q[g]
        <3>1. \A i \in 1..Len(la[g]) : la[g][i] \in D
            BY DEF Completed
        <3>2. Sums(W, la[g], Len(la[g])) = Sums(V, la[g], Len(la[g]))
            <4>1. \A i \in 1..Len(la[g]) : W[la[g][i]] = V[la[g][i]]
                BY <2>5, <3>1
            <4>2. Len(la[g]) \in Nat
                BY <2>1, <2>7
            <4> QED BY <4>1, <4>2, SumsSame
        <3>3. CASE g = f
            <4>1. \A h \in D : r[h] \in Nat /\ r[h] <= n
                BY <2>1 DEF Completed, n
            <4>2. ASSUME NEW i \in 1..Len(la[g]) PROVE la[g][i] \in E /\ q[la[g][i]] < q[g]
                <5> DEFINE h == la[g][i]
                <5>1. h \in D /\ q[h] = r[h] /\ q[g] = n + 1 /\ r[h] \in Nat /\ r[h] <= n
                    BY <2>4, <2>5, <3>1, <3>3, <4>1
                <5> HIDE DEF h
                <5>2. h \in E /\ q[h] < q[g]
                    BY <5>1, <2>3
                <5> QED BY <5>2 DEF h
            <4>3. q[g] <= n + 1 /\ q[g] # 0
                BY <2>3, <2>4, <3>3
            <4> QED BY <2>4, <3>2, <3>3, <4>2, <4>3
        <3>4. CASE g \in D
            <4>1. /\ ow[g] # None /\ r[g] <= n /\ r[g] # 0 /\ r[g] \in Nat
                  /\ V[g] = Overlay(Sums(V, la[g], Len(la[g])), ow[g])
                  /\ \A i \in 1..Len(la[g]) : la[g][i] \in D /\ r[la[g][i]] < r[g]
                BY <2>1, <3>4 DEF Completed, n
            <4>2. q[g] = r[g] /\ W[g] = V[g] /\ q[g] <= n + 1
                BY <2>3, <2>5, <3>4, <4>1
            <4>3. ASSUME NEW i \in 1..Len(la[g]) PROVE la[g][i] \in E /\ q[la[g][i]] < q[g]
                BY <2>5, <4>1, <4>2
            <4> QED BY <3>2, <4>1, <4>2, <4>3
        <3> QED BY <3>3, <3>4
    <2>9. Completed(E, W, q, ow, la)
        <3> HIDE DEF E
        <3> QED BY <2>1, <2>3, <2>6, <2>8 DEF Completed
    <2>10. D \subseteq E /\ f \in E
        OBVIOUS
    <2> HIDE DEF E
    <2> QED BY <2>5, <2>9, <2>10 DEF GrownBy
<1> QED BY <1>1, <1>2

\* More completed files leave a level as it is.
LEMMA LevelKept ==
    ASSUME NEW D, NEW V, NEW E, NEW W, D \subseteq E, \A g \in D : W[g] = V[g],
           NEW files, NEW rest, NEW c, NEW k, NEW below, NEW made,
           Level(D, V, files, rest, c, k, below, made)
    PROVE  Level(E, W, files, rest, c, k, below, made)
<1>1. c \in Nat /\ \A j \in 1..c : W[files[j]] = V[files[j]]
    BY DEF Level
<1>2. Sums(W, files, c) = Sums(V, files, c)
    BY <1>1, SumsSame
<1> QED BY <1>2 DEF Level

\* The next file of a level is opened.
LEMMA LevelOpens ==
    ASSUME NEW D, NEW V, NEW T, NEW files, NEW rest \in Seq(T), NEW c, NEW below, NEW made,
           Level(D, V, files, rest, c, 0, below, made), rest # <<>>
    PROVE  Level(D, V, files, Tail(rest), c, 1, below, made) /\ Head(rest) = files[c + 1]
<1>1. /\ Len(rest) \in Nat \ {0} /\ Len(Tail(rest)) = Len(rest) - 1 /\ Head(rest) = rest[1]
      /\ \A j \in 1..(Len(rest) - 1) : Tail(rest)[j] = rest[j + 1]
    BY EmptySeq, HeadTailProperties
<1>2. c \in Nat /\ Len(files) = c + 0 + Len(rest) /\ \A j \in 1..Len(rest) : rest[j] = files[c + 0 + j]
    BY DEF Level
<1>3. Len(files) = c + 1 + Len(Tail(rest))
    BY <1>1, <1>2
<1>4. Head(rest) = files[c + 1]
    <2>1. 1 \in 1..Len(rest) /\ c + 0 + 1 = c + 1
        BY <1>1, <1>2
    <2> QED BY <1>1, <1>2, <2>1
<1>5. ASSUME NEW j \in 1..Len(Tail(rest)) PROVE Tail(rest)[j] = files[c + 1 + j]
    <2>1. j \in 1..(Len(rest) - 1) /\ j + 1 \in 1..Len(rest) /\ c + 0 + (j + 1) = c + 1 + j
        BY <1>1, <1>2
    <2> QED BY <1>1, <1>2, <2>1
<1> QED BY <1>3, <1>4, <1>5 DEF Level

\* The file a level was waiting for is completed.
LEMMA LevelCloses ==
    ASSUME NEW D, NEW V, NEW files, NEW rest, NEW c, NEW below, NEW made,
           Level(D, V, files, rest, c, 1, below, made), files[c + 1] \in D
    PROVE  Level(D, V, files, rest, c + 1, 0, below, Overlay(made, V[files[c + 1]]))
<1>1. /\ c \in Nat /\ Len(files) = c + 1 + Len(rest) /\ \A j \in 1..Len(rest) : rest[j] = files[c + 1 + j]
      /\ \A j \in 1..c : files[j] \in D
      /\ made = Overlay(below, Sums(V, files, c))
    BY DEF Level
<1>2. Overlay(made, V[files[c + 1]]) = Overlay(below, Sums(V, files, c + 1))
    BY <1>1, SumsGrow, OverlayAssoc
<1>3. Len(files) = (c + 1) + 0 + Len(rest)
    BY <1>1
<1>4. \A j \in 1..Len(rest) : rest[j] = files[(c + 1) + 0 + j]
    <2>1. (c + 1) + 0 = c + 1
        BY <1>1
    <2> QED BY <1>1, <2>1
<1>5. \A j \in 1..(c + 1) : files[j] \in D
    BY <1>1
<1> QED BY <1>1, <1>2, <1>3, <1>4, <1>5 DEF Level

\* Some completed files and levels account for the configuration of a load.
LoadIsSo(ow, la, st, td, cf) == \E D, V, r, B, c : Loaded(D, V, r, B, c, ow, la, st, td, cf)

\* A level that begins.
LEMMA LevelBegins ==
    ASSUME NEW D, NEW V, NEW T, NEW files \in Seq(T), NEW made, made = [k \in Keys |-> made[k]]
    PROVE  Level(D, V, files, files, 0, 0, made, made)
<1>1. made = Overlay(made, Sums(V, files, 0))
    BY SumsOfNothing, OverlayNothing
<1>2. Len(files) = 0 + 0 + Len(files) /\ \A j \in 1..Len(files) : 0 + 0 + j = j
    OBVIOUS
<1>3. 1..0 = {}
    OBVIOUS
<1> QED BY <1>1, <1>2, <1>3 DEF Level

\* The load begins: nothing is completed.
LEMMA LoadedInit ==
    ASSUME NEW ow, NEW la
    PROVE  LoadIsSo(ow, la, <<>>, Paths, Defaults)
<1> DEFINE D == {}
           r == [f \in {} |-> 0]
           B == [i \in {0} |-> Defaults]
           c == [i \in {0} |-> 0]
<1>1. Completed(D, ow, r, ow, la)
    BY DEF Completed
<1>2. Level(D, ow, Paths, Paths, 0, 0, Defaults, Defaults)
    <2>1. Paths \in Seq(Files) /\ Defaults = [k \in Keys |-> Defaults[k]]
        BY ConfigAssumption DEF ConfigAssumption
    <2> QED BY <2>1, LevelBegins
<1>3. /\ Len(<<>>) = 0 /\ c[0] = 0 /\ B[0] = Defaults
      /\ ListOf(la, <<>>, 0) = Paths /\ RestOf(<<>>, Paths, 0) = Paths
      /\ BusyAt(<<>>, 0) = 0 /\ BelowOf(B, 0) = Defaults
    BY DEF ListOf, RestOf, BusyAt, BelowOf
<1> HIDE DEF D, r, B, c
<1>4. \A i \in 0..Len(<<>>) :
         Level(D, ow, ListOf(la, <<>>, i), RestOf(<<>>, Paths, i), c[i], BusyAt(<<>>, i), BelowOf(B, i), B[i])
    <2>1. 0..Len(<<>>) = {0}
        BY <1>3
    <2> QED BY <1>2, <1>3, <2>1
<1>5. 1..Len(<<>>) = {}
    BY <1>3
<1>6. Loaded(D, ow, r, B, c, ow, la, <<>>, Paths, Defaults)
    BY <1>1, <1>3, <1>4, <1>5 DEF Loaded
<1> QED BY <1>6 DEF LoadIsSo

\* up is st with the next file of its top level opened.
OpenedOn(st, td, la, up) ==
    LET rest == RestOf(st, td, Len(st))
    IN  /\ rest \in Seq(Files) /\ rest # <<>>
        /\ Len(up) = Len(st) + 1
        /\ up[Len(st) + 1] = [file |-> Head(rest), inc |-> la[Head(rest)]]
        /\ \A i \in 1..Len(st) : up[i].file = st[i].file
        /\ \A i \in 0..(Len(st) - 1) : RestOf(up, td, i) = RestOf(st, td, i)
        /\ RestOf(up, td, Len(st)) = Tail(rest)

\* file has been read, and what was read before is still so.
ReadAt(file, ow, read) == read[file] # None /\ \A f \in Files : ow[f] # None => read[f] = ow[f]

\* A file is opened: its level begins on top of the others.
LEMMA LoadedOpens ==
    ASSUME NEW ow, NEW la \in [Files -> Seq(Files)], NEW st \in Seq(Entries),
           NEW td \in Seq(Files), NEW cf,
           LoadIsSo(ow, la, st, td, cf),
           NEW up, OpenedOn(st, td, la, up),
           NEW read, ReadAt(Head(RestOf(st, td, Len(st))), ow, read)
    PROVE  LoadIsSo(read, la, up, td, cf)
<1>0. PICK D, V, r, B, c : Loaded(D, V, r, B, c, ow, la, st, td, cf)
    BY DEF LoadIsSo
<1> DEFINE rest == RestOf(st, td, Len(st))
<1>r. /\ rest \in Seq(Files) /\ rest # <<>> /\ Len(up) = Len(st) + 1
      /\ up[Len(st) + 1] = [file |-> Head(rest), inc |-> la[Head(rest)]]
      /\ \A i \in 1..Len(st) : up[i].file = st[i].file
      /\ \A i \in 0..(Len(st) - 1) : RestOf(up, td, i) = RestOf(st, td, i)
      /\ RestOf(up, td, Len(st)) = Tail(rest)
    BY DEF OpenedOn
<1>s. read[Head(rest)] # None /\ \A f \in Files : ow[f] # None => read[f] = ow[f]
    BY DEF ReadAt
<1> USE <1>r, <1>s
<1>u. rest = RestOf(st, td, Len(st))
    OBVIOUS
<1> HIDE DEF rest
<1> DEFINE n == Len(st)
           f == Head(rest)
           B2 == [i \in 0..(n + 1) |-> IF i <= n THEN B[i] ELSE B[n]]
           c2 == [i \in 0..(n + 1) |-> IF i <= n THEN c[i] ELSE 0]
<1>1. n \in Nat /\ f \in Files /\ la[f] \in Seq(Files) /\ Len(up) = n + 1
    OBVIOUS
<1>2. /\ \A i \in 0..n : B2[i] = B[i] /\ c2[i] = c[i]
      /\ B2[n + 1] = B[n] /\ c2[n + 1] = 0
    BY <1>1
<1> HIDE DEF B2, c2
<1>3. /\ Completed(D, V, r, ow, la) /\ cf = B[n]
      /\ \A i \in 0..n :
            Level(D, V, ListOf(la, st, i), RestOf(st, td, i), c[i], BusyAt(st, i), BelowOf(B, i), B[i])
      /\ \A i \in 1..n : ow[st[i].file] # None /\ st[i].file = ListOf(la, st, i - 1)[c[i - 1] + 1]
    BY <1>0 DEF Loaded
<1>4. \A i \in 0..n : ListOf(la, up, i) = ListOf(la, st, i)
    <2> TAKE i \in 0..n
    <2>1. i # 0 => up[i].file = st[i].file
        BY <1>1
    <2> QED BY <2>1 DEF ListOf
<1>5. up[n + 1].file = f /\ up[n + 1].inc = la[f]
    OBVIOUS
<1>6. \A i \in 1..n : st[i] \in Entries /\ st[i].file \in Files /\ up[i].file = st[i].file
    <2> TAKE i \in 1..n
    <2>1. st[i] \in Entries
        BY <1>1
    <2> QED BY <2>1 DEF Entries
<1> HIDE DEF n, f
<1>7. Completed(D, V, r, read, la)
    <2>1. \A g \in D : read[g] = ow[g]
        BY <1>3 DEF Completed
    <2> QED BY <1>3, <2>1, CompletedKept
<1>8. /\ Level(D, V, ListOf(la, st, n), Tail(rest), c[n], 1, BelowOf(B, n), B[n])
      /\ f = ListOf(la, st, n)[c[n] + 1]
    <2>1. n \in 0..n /\ BusyAt(st, n) = 0
        BY <1>1 DEF BusyAt, n
    <2>2. Level(D, V, ListOf(la, st, n), rest, c[n], 0, BelowOf(B, n), B[n])
        BY <1>u, <1>3, <2>1 DEF n
    <2> QED BY <2>2, LevelOpens DEF f
<1>9. B[n] = [k \in Keys |-> B[n][k]]
    BY <1>8 DEF Level, Overlay
<1>10. ASSUME NEW i \in 0..Len(up)
       PROVE  Level(D, V, ListOf(la, up, i), RestOf(up, td, i), c2[i], BusyAt(up, i), BelowOf(B2, i), B2[i])
    <2>1. CASE i = n + 1
        <3>1. Level(D, V, la[f], la[f], 0, 0, B[n], B[n])
            BY <1>1, <1>9, LevelBegins
        <3>2. ListOf(la, up, i) = la[f] /\ RestOf(up, td, i) = la[f] /\ BusyAt(up, i) = 0
            BY <1>1, <1>5, <2>1 DEF ListOf, RestOf, BusyAt
        <3>3. BelowOf(B2, i) = B[n] /\ B2[i] = B[n] /\ c2[i] = 0
            <4>1. i # 0 /\ i - 1 = n /\ n \in 0..n
                BY <1>1, <2>1
            <4> QED BY <1>2, <2>1, <4>1 DEF BelowOf
        <3> QED BY <3>1, <3>2, <3>3
    <2>2. CASE i # n + 1
        <3>1. i \in 0..n
            BY <1>1, <2>2
        <3>2. BelowOf(B2, i) = BelowOf(B, i) /\ B2[i] = B[i] /\ c2[i] = c[i] /\ BusyAt(up, i) = 1
            <4>1. i # 0 => i - 1 \in 0..n
                BY <1>1, <3>1
            <4>2. i < Len(up)
                BY <1>1, <3>1
            <4> QED BY <1>2, <3>1, <4>1, <4>2 DEF BelowOf, BusyAt
        <3>3. ListOf(la, up, i) = ListOf(la, st, i)
            BY <1>4, <3>1
        <3>4. CASE i = n
            BY <1>8, <3>2, <3>3, <3>4 DEF n
        <3>5. CASE i # n
            <4>1. i \in 0..(n - 1) /\ i < n
                BY <1>1, <3>1, <3>5
            <4>2. RestOf(up, td, i) = RestOf(st, td, i)
                BY <4>1 DEF n
            <4>3. BusyAt(st, i) = 1
                BY <4>1 DEF BusyAt, n
            <4>4. Level(D, V, ListOf(la, st, i), RestOf(st, td, i), c[i], BusyAt(st, i), BelowOf(B, i), B[i])
                BY <1>3, <3>1
            <4> QED BY <3>2, <3>3, <4>2, <4>3, <4>4
        <3> QED BY <3>4, <3>5
    <2> QED BY <2>1, <2>2
<1>11. ASSUME NEW i \in 1..Len(up)
       PROVE  read[up[i].file] # None /\ up[i].file = ListOf(la, up, i - 1)[c2[i - 1] + 1]
    <2>1. i - 1 \in 0..n /\ c2[i - 1] = c[i - 1] /\ ListOf(la, up, i - 1) = ListOf(la, st, i - 1)
        <3>1. i - 1 \in 0..n
            BY <1>1
        <3> QED BY <1>2, <1>4, <3>1
    <2>2. CASE i = n + 1
        <3>1. i - 1 = n
            BY <1>1, <2>2
        <3> QED BY <1>5, <1>8, <2>1, <2>2, <3>1 DEF f
    <2>3. CASE i # n + 1
        <3>1. i \in 1..n
            BY <1>1, <2>3
        <3>2. ow[st[i].file] # None /\ st[i].file = ListOf(la, st, i - 1)[c[i - 1] + 1]
            BY <1>3, <3>1
        <3>3. read[st[i].file] = ow[st[i].file]
            BY <1>6, <3>1, <3>2
        <3> QED BY <1>6, <2>1, <3>1, <3>2, <3>3
    <2> QED BY <2>2, <2>3
<1>12. cf = B2[Len(up)]
    BY <1>1, <1>2, <1>3
<1>13. Loaded(D, V, r, B2, c2, read, la, up, td, cf)
    BY <1>7, <1>10, <1>11, <1>12 DEF Loaded
<1> QED BY <1>13 DEF LoadIsSo

\* A file is done: what it says goes over what the level below has.
LEMMA LoadedCloses ==
    ASSUME NEW ow, NEW la \in [Files -> Seq(Files)], NEW st \in Seq(Entries),
           NEW td \in Seq(Files), NEW cf,
           LoadIsSo(ow, la, st, td, cf),
           st # <<>>, st[Len(st)].inc = <<>>,
           NEW down, down = SubSeq(st, 1, Len(st) - 1),
           NEW left, left = IF Len(st) = 1 THEN Tail(td) ELSE td,
           NEW new, new = Overlay(cf, ow[st[Len(st)].file])
    PROVE  LoadIsSo(ow, la, down, left, new)
<1>0. PICK D, V, r, B, c : Loaded(D, V, r, B, c, ow, la, st, td, cf)
    BY DEF LoadIsSo
<1> DEFINE n == Len(st)
           m == n - 1
           f == st[n].file
<1>1. /\ n \in Nat \ {0} /\ m \in Nat /\ m + 1 = n /\ m < n
      /\ Len(down) = m /\ \A i \in 1..m : down[i] = st[i]
    <2>1. n \in Nat \ {0}
        BY EmptySeq
    <2>2. m \in Nat /\ m + 1 = n /\ m < n /\ 1 \in Nat
        BY <2>1
    <2>3. down = [i \in 1..m |-> st[i]] /\ Len(down) = m
        BY <2>1, <2>2 DEF m
    <2> QED BY <2>1, <2>2, <2>3
<1>2. f \in Files /\ la[f] \in Seq(Files) /\ Len(la[f]) \in Nat
    <2>1. st[n] \in Entries
        BY <1>1
    <2> QED BY <2>1 DEF Entries
<1>3. /\ Completed(D, V, r, ow, la) /\ cf = B[n]
      /\ \A i \in 0..n :
            Level(D, V, ListOf(la, st, i), RestOf(st, td, i), c[i], BusyAt(st, i), BelowOf(B, i), B[i])
      /\ \A i \in 1..n : ow[st[i].file] # None /\ st[i].file = ListOf(la, st, i - 1)[c[i - 1] + 1]
    BY <1>0 DEF Loaded
<1>4. new = Overlay(cf, ow[f]) /\ st[n].inc = <<>> /\ ow[f] # None
    <2>1. n \in 1..n
        BY <1>1
    <2> QED BY <1>3, <2>1
<1> HIDE DEF n, f
<1>5. Level(D, V, la[f], <<>>, c[n], 0, B[m], B[n])
    <2>1. n \in 0..n /\ n # 0 /\ ~(n < n)
        BY <1>1
    <2>2. ListOf(la, st, n) = la[f] /\ RestOf(st, td, n) = <<>> /\ BusyAt(st, n) = 0 /\ BelowOf(B, n) = B[m]
        BY <1>4, <2>1 DEF ListOf, RestOf, BusyAt, BelowOf, f, n
    <2>3. Level(D, V, ListOf(la, st, n), RestOf(st, td, n), c[n], BusyAt(st, n), BelowOf(B, n), B[n])
        BY <1>3, <2>1
    <2> QED BY <2>2, <2>3
<1> HIDE DEF m
<1>6. /\ c[n] = Len(la[f]) /\ \A i \in 1..Len(la[f]) : la[f][i] \in D
      /\ B[n] = Overlay(B[m], Sums(V, la[f], Len(la[f])))
    <2>1. /\ c[n] \in Nat /\ Len(la[f]) = c[n] + 0 + Len(<<>>)
          /\ \A j \in 1..c[n] : la[f][j] \in D
          /\ B[n] = Overlay(B[m], Sums(V, la[f], c[n]))
        BY <1>5 DEF Level
    <2>2. c[n] = Len(la[f])
        BY <1>2, <2>1
    <2> QED BY <2>1, <2>2
<1>7. PICK E, W, q : /\ Completed(E, W, q, ow, la) /\ D \subseteq E /\ f \in E
                     /\ \A g \in D : W[g] = V[g]
    <2>1. ow[f] # None /\ \A i \in 1..Len(la[f]) : la[f][i] \in D
        BY <1>4, <1>6
    <2>2. Completed(D, V, r, ow, la)
        BY <1>3
    <2>3. GrownBy(f, D, V, ow, la)
        BY <1>2, <2>1, <2>2, CompletedGrows
    <2> QED BY <2>3 DEF GrownBy
<1>8. new = Overlay(B[m], W[f])
    <2>1. Sums(W, la[f], Len(la[f])) = Sums(V, la[f], Len(la[f]))
        <3>1. \A i \in 1..Len(la[f]) : W[la[f][i]] = V[la[f][i]]
            BY <1>6, <1>7
        <3> QED BY <1>2, <3>1, SumsSame
    <2>2. W[f] = Overlay(Sums(W, la[f], Len(la[f])), ow[f])
        BY <1>7 DEF Completed
    <2> QED BY <1>3, <1>4, <1>6, <2>1, <2>2, OverlayAssoc
<1>9. \A i \in 0..n :
         Level(E, W, ListOf(la, st, i), RestOf(st, td, i), c[i], BusyAt(st, i), BelowOf(B, i), B[i])
    BY <1>3, <1>7, LevelKept
<1>10. /\ \A i \in 0..m : ListOf(la, down, i) = ListOf(la, st, i)
       /\ \A i \in 0..m : RestOf(down, left, i) = RestOf(st, td, i)
    <2>1. ASSUME NEW i \in 0..m PROVE ListOf(la, down, i) = ListOf(la, st, i)
        BY <1>1 DEF ListOf
    <2>2. ASSUME NEW i \in 0..m PROVE RestOf(down, left, i) = RestOf(st, td, i)
        <3>1. CASE i = 0
            <4>1. Len(st) # 0 /\ (Len(down) = 0 <=> Len(st) = 1)
                BY <1>1 DEF n
            <4> QED BY <3>1, <4>1 DEF RestOf
        <3>2. CASE i # 0
            <4>1. i \in 1..m /\ down[i] = st[i]
                BY <1>1, <3>2
            <4> QED BY <3>2, <4>1 DEF RestOf
        <3> QED BY <3>1, <3>2
    <2> QED BY <2>1, <2>2
<1> DEFINE s == ListOf(la, st, m)
           B2 == [i \in 0..m |-> IF i = m THEN new ELSE B[i]]
           c2 == [i \in 0..m |-> IF i = m THEN c[m] + 1 ELSE c[i]]
<1>11. Level(E, W, s, RestOf(st, td, m), c[m] + 1, 0, BelowOf(B, m), new)
    <2>1. n \in 1..n /\ n - 1 = m /\ m \in 0..n
        BY <1>1
    <2>2. f = s[c[m] + 1]
        BY <1>3, <2>1 DEF f
    <2>3. BusyAt(st, m) = 1
        BY <1>1 DEF BusyAt, n
    <2>4. Level(E, W, ListOf(la, st, m), RestOf(st, td, m), c[m], BusyAt(st, m), BelowOf(B, m), B[m])
        BY <1>9, <2>1
    <2>5. Level(E, W, s, RestOf(st, td, m), c[m], 1, BelowOf(B, m), B[m])
        BY <2>3, <2>4
    <2> HIDE DEF s
    <2>6. Level(E, W, s, RestOf(st, td, m), c[m] + 1, 0, BelowOf(B, m), Overlay(B[m], W[s[c[m] + 1]]))
        BY <1>7, <2>2, <2>5, LevelCloses
    <2> QED BY <1>8, <2>2, <2>6
<1>12. /\ B2[m] = new /\ c2[m] = c[m] + 1
       /\ \A i \in 0..m : i # m => B2[i] = B[i] /\ c2[i] = c[i]
    BY <1>1
<1>13. \A i \in 0..m : BelowOf(B2, i) = BelowOf(B, i)
    <2> TAKE i \in 0..m
    <2>1. i # 0 => i - 1 \in 0..m /\ i - 1 # m
        BY <1>1
    <2> QED BY <1>12, <2>1 DEF BelowOf
<1> HIDE DEF B2, c2, s
<1>14. ASSUME NEW i \in 0..Len(down)
       PROVE  Level(E, W, ListOf(la, down, i), RestOf(down, left, i), c2[i], BusyAt(down, i), BelowOf(B2, i), B2[i])
    <2>1. i \in 0..m /\ i \in 0..n
        BY <1>1
    <2>2. CASE i = m
        <3>1. BusyAt(down, i) = 0
            BY <1>1, <2>2 DEF BusyAt
        <3>2. ListOf(la, down, m) = s /\ RestOf(down, left, m) = RestOf(st, td, m)
            BY <1>10, <2>1, <2>2 DEF s
        <3>3. c2[m] = c[m] + 1 /\ B2[m] = new /\ BelowOf(B2, m) = BelowOf(B, m)
            BY <1>12, <1>13, <2>1, <2>2
        <3>4. Level(E, W, ListOf(la, down, m), RestOf(down, left, m), c2[m], 0, BelowOf(B2, m), B2[m])
            BY <1>11, <3>2, <3>3
        <3> QED BY <2>2, <3>1, <3>4
    <2>3. CASE i # m
        <3>1. BusyAt(down, i) = 1 /\ BusyAt(st, i) = 1
            <4>1. i < m /\ i < n
                BY <1>1, <2>1, <2>3
            <4>2. Len(down) = m /\ Len(st) = n
                BY <1>1 DEF n
            <4> QED BY <4>1, <4>2 DEF BusyAt
        <3>2. Level(E, W, ListOf(la, st, i), RestOf(st, td, i), c[i], BusyAt(st, i), BelowOf(B, i), B[i])
            BY <1>9, <2>1
        <3> QED BY <1>10, <1>12, <1>13, <2>1, <2>3, <3>1, <3>2
    <2> QED BY <2>2, <2>3
<1>15. ASSUME NEW i \in 1..Len(down)
       PROVE  ow[down[i].file] # None /\ down[i].file = ListOf(la, down, i - 1)[c2[i - 1] + 1]
    <2>1. i \in 1..m /\ i \in 1..n /\ i - 1 \in 0..m /\ i - 1 # m /\ down[i] = st[i]
        BY <1>1
    <2> QED BY <1>3, <1>10, <1>12, <2>1
<1>16. new = B2[Len(down)]
    BY <1>1, <1>12
<1>17. Loaded(E, W, q, B2, c2, ow, la, down, left, new)
    BY <1>7, <1>14, <1>15, <1>16 DEF Loaded
<1> QED BY <1>17 DEF LoadIsSo

\* When nothing is left, every file of the command line is completed.
LEMMA LoadedEnds ==
    ASSUME NEW D, NEW V, NEW r, NEW B, NEW c, NEW ow, NEW la, NEW cf,
           Loaded(D, V, r, B, c, ow, la, <<>>, <<>>, cf)
    PROVE  /\ Completed(D, V, r, ow, la) /\ \A i \in 1..Len(Paths) : Paths[i] \in D
           /\ cf = Overlay(Defaults, Sums(V, Paths, Len(Paths)))
<1>1. Len(<<>>) = 0 /\ 0 \in 0..0
    OBVIOUS
<1>2. ListOf(la, <<>>, 0) = Paths /\ RestOf(<<>>, <<>>, 0) = <<>> /\ BelowOf(B, 0) = Defaults /\ BusyAt(<<>>, 0) = 0
    BY <1>1 DEF ListOf, RestOf, BelowOf, BusyAt
<1>3. Level(D, V, Paths, <<>>, c[0], 0, Defaults, B[0])
    BY <1>1, <1>2 DEF Loaded
<1>4. /\ c[0] \in Nat /\ Len(Paths) = c[0] + 0 + Len(<<>>)
      /\ \A j \in 1..c[0] : Paths[j] \in D
      /\ B[0] = Overlay(Defaults, Sums(V, Paths, c[0]))
    BY <1>3 DEF Level
<1>5. c[0] = Len(Paths)
    BY <1>1, <1>4
<1> QED BY <1>1, <1>4, <1>5 DEF Loaded

\* The command line is completed, and the configuration is what it says.
EndIsSo(ow, la, cf, e) ==
    \E D, V, r : /\ Completed(D, V, r, ow, la) /\ \A i \in 1..Len(Paths) : Paths[i] \in D
                 /\ cf = Overlay(Overlay(Defaults, Sums(V, Paths, Len(Paths))), e)

Precedence ==
    /\ loader = "load" => LoadIsSo(own, layout, stack, todo, config)
    /\ loader \in {"validate", "build", "resolve", "loaded"} => EndIsSo(own, layout, config, env)

LEMMA PrecedenceInit == ConfigInit => Precedence
<1> SUFFICES ASSUME ConfigInit PROVE Precedence
    OBVIOUS
<1>1. loader = "load" /\ stack = <<>> /\ todo = Paths /\ config = Defaults
    BY DEF ConfigInit
<1>2. LoadIsSo(own, layout, <<>>, Paths, Defaults)
    BY LoadedInit
<1> QED BY <1>1, <1>2 DEF Precedence

\* A value a file is read with is none of nothing.
LEMMA LinesAreSomething == \A l \in FileLines : l # None
BY ConfigAssumption DEF ConfigAssumption, FileLines, Lines

\* open_file() opens a level, or ends the load.
LEMMA OpenFilePrecedes ==
    ASSUME LoaderSafe, Precedence, loader = "load",
           NEW next \in Seq(Files), next = RestOf(stack, todo, Len(stack)), next # <<>>,
           NEW low \in Seq(Entries), Len(low) = Len(stack),
           \A i \in 1..Len(stack) : low[i].file = stack[i].file,
           \A i \in 1..(Len(stack) - 1) : low[i] = stack[i],
           Len(stack) # 0 => low[Len(stack)].inc = Tail(next),
           open_file(Head(next), low)
    PROVE  Precedence'
<1> DEFINE n == Len(stack)
           file == Head(next)
<1>1. CASE file \in Loading
    <2>1. loader' = "failed"
        BY <1>1 DEF open_file, Fail
    <2> QED BY <2>1 DEF Precedence
<1>2. CASE file \notin Loading
    <2>1. PICK lines \in IF own[file] = None THEN FileLines ELSE {own[file]} :
              /\ own' = [own EXCEPT ![file] = lines]
              /\ stack' = Append(low, [file |-> file, inc |-> layout[file]])
              /\ UNCHANGED <<loader, todo, layout, config, env>>
        BY <1>2 DEF open_file
    <2>2. file \in Files /\ n \in Nat /\ layout \in [Files -> Seq(Files)] /\ DOMAIN own = Files
        BY DEF LoaderSafe
    <2>3. lines # None
        BY <2>1, LinesAreSomething
    <2>4. own'[file] # None /\ \A f \in Files : own[f] # None => own'[f] = own[f]
        BY <2>1, <2>2, <2>3
    <2> DEFINE e == [file |-> file, inc |-> layout[file]]
               up == stack'
    <2>5. e \in Entries /\ e.file = file /\ e.inc = layout[file]
        BY <2>2 DEF Entries
    <2>6. up = Append(low, e)
        BY <2>1
    <2> HIDE DEF e
    <2>7. /\ up \in Seq(Entries) /\ Len(up) = n + 1 /\ up[n + 1] = e
          /\ \A i \in 1..n : up[i] = low[i]
        BY <2>2, <2>5, <2>6
    <2> HIDE DEF up, n, file
    <2>8. Len(stack) = n /\ Len(low) = n
        BY DEF n
    <2>9. \A i \in 0..(n - 1) : RestOf(up, todo, i) = RestOf(stack, todo, i)
        <3> TAKE i \in 0..(n - 1)
        <3>1. CASE i = 0
            <4>1. Len(up) # 0 /\ Len(stack) # 0
                BY <2>2, <2>7, <2>8, <3>1
            <4> QED BY <3>1, <4>1 DEF RestOf
        <3>2. CASE i # 0
            <4>1. i \in 1..n /\ i \in 1..(n - 1)
                BY <2>2, <3>2
            <4>2. up[i] = stack[i]
                BY <2>7, <2>8, <4>1
            <4> QED BY <3>2, <4>2 DEF RestOf
        <3> QED BY <3>1, <3>2
    <2>10. RestOf(up, todo, n) = Tail(next)
        <3>1. CASE n = 0
            <4>1. next = todo
                BY <2>8, <3>1 DEF RestOf
            <4>2. Len(up) # 0
                BY <2>7, <3>1
            <4> QED BY <3>1, <4>1, <4>2 DEF RestOf
        <3>2. CASE n # 0
            <4>1. n \in 1..n
                BY <2>2, <3>2
            <4>2. up[n].inc = Tail(next)
                BY <2>7, <2>8, <3>2, <4>1
            <4> QED BY <3>2, <4>2 DEF RestOf
        <3> QED BY <3>1, <3>2
    <2>11. up[n + 1] = [file |-> file, inc |-> layout[file]] /\ \A i \in 1..n : up[i].file = stack[i].file
        BY <2>7, <2>8 DEF e
    <2>12. LoadIsSo(own, layout, stack, todo, config)
        BY DEF Precedence
    <2>13. stack \in Seq(Entries) /\ todo \in Seq(Files)
        BY DEF LoaderSafe
    <2>14. LoadIsSo(own', layout, up, todo, config)
        <3>1. /\ up \in Seq(Entries) /\ Len(up) = Len(stack) + 1
              /\ up[Len(stack) + 1] = [file |-> Head(next), inc |-> layout[Head(next)]]
            BY <2>7, <2>8, <2>11 DEF file
        <3>2. /\ \A i \in 1..Len(stack) : up[i].file = stack[i].file
              /\ \A i \in 0..(Len(stack) - 1) : RestOf(up, todo, i) = RestOf(stack, todo, i)
              /\ RestOf(up, todo, Len(stack)) = Tail(next)
            BY <2>8, <2>9, <2>10, <2>11
        <3>3. own'[Head(next)] # None /\ \A f \in Files : own[f] # None => own'[f] = own[f]
            BY <2>4 DEF file
        <3>4. next \in Seq(Files) /\ next = RestOf(stack, todo, Len(stack)) /\ next # <<>>
            OBVIOUS
        <3>5. OpenedOn(stack, todo, layout, up)
            BY <3>1, <3>2, <3>4 DEF OpenedOn
        <3>6. ReadAt(Head(RestOf(stack, todo, Len(stack))), own, own')
            BY <3>3, <3>4 DEF ReadAt
        <3> QED BY <2>2, <2>12, <2>13, <3>5, <3>6, LoadedOpens
    <2>15. LoadIsSo(own', layout', stack', todo', config') /\ loader' = "load"
        BY <2>1, <2>14 DEF up
    <2> QED BY <2>15 DEF Precedence
<1> QED BY <1>1, <1>2

LEMMA ConfigPrecedes == ASSUME LoaderSafe, Precedence, ConfigNext PROVE Precedence'
<1>t. /\ layout \in [Files -> Seq(Files)] /\ todo \in Seq(Files) /\ stack \in Seq(Entries)
    BY DEF LoaderSafe
<1>1. CASE load_path
    <2>1. loader = "load" /\ stack = <<>> /\ todo # <<>> /\ open_file(Head(todo), <<>>)
        BY <1>1 DEF load_path
    <2>2. Len(stack) = 0 /\ Len(<<>>) = 0 /\ <<>> \in Seq(Entries) /\ 1..0 = {} /\ 1..(0 - 1) = {}
        BY <2>1
    <2>3. todo = RestOf(stack, todo, Len(stack))
        BY <2>2 DEF RestOf
    <2> QED BY <1>t, <2>1, <2>2, <2>3, OpenFilePrecedes
<1>2. CASE load_include
    <2> DEFINE n == Len(stack)
               top == stack[n]
               low == [stack EXCEPT ![n].inc = Tail(@)]
    <2>1. loader = "load" /\ stack # <<>> /\ top.inc # <<>> /\ open_file(Head(top.inc), low)
        BY <1>2 DEF load_include
    <2>2. n \in Nat \ {0} /\ DOMAIN stack = 1..n
        BY <1>t, <2>1, EmptySeq
    <2>3. top \in Entries
        BY <1>t, <2>2
    <2>4. top.file \in Files /\ top.inc \in Seq(Files) /\ Tail(top.inc) \in Seq(Files)
        BY <2>1, <2>3 DEF Entries
    <2> DEFINE e == [top EXCEPT !.inc = Tail(top.inc)]
    <2>6. e \in Entries /\ e.file = top.file /\ e.inc = Tail(top.inc)
        BY <2>3, <2>4 DEF Entries
    <2>7. low = [stack EXCEPT ![n] = e]
        OBVIOUS
    <2> HIDE DEF e, low
    <2>8. low \in Seq(Entries) /\ Len(low) = n
        <3>1. low \in [1..n -> Entries]
            BY <1>t, <2>2, <2>6, <2>7
        <3> QED BY <2>2, <3>1
    <2>t. Len(stack) = n /\ top = stack[n]
        OBVIOUS
    <2> HIDE DEF n, top
    <2>9. low[n] = e /\ \A i \in 1..(n - 1) : low[i] = stack[i]
        BY <2>2, <2>7
    <2>10. \A i \in 1..n : low[i].file = stack[i].file
        <3> TAKE i \in 1..n
        <3>1. CASE i = n
            BY <2>6, <2>9, <2>t, <3>1
        <3>2. CASE i # n
            <4>1. i \in 1..(n - 1)
                BY <2>2, <3>2
            <4> QED BY <2>9, <4>1
        <3> QED BY <3>1, <3>2
    <2>11. top.inc = RestOf(stack, todo, n) /\ low[n].inc = Tail(top.inc)
        BY <2>2, <2>t, <2>6, <2>9 DEF RestOf
    <2> QED BY <2>1, <2>t, <2>4, <2>8, <2>9, <2>10, <2>11, OpenFilePrecedes
<1>3. CASE open_throws \/ apply_throws
    <2>1. loader' = "failed"
        BY <1>3 DEF open_throws, apply_throws, Fail
    <2> QED BY <2>1 DEF Precedence
<1>4. CASE apply_own_lines
    <2>1. /\ loader = "load" /\ stack # <<>> /\ stack[Len(stack)].inc = <<>>
          /\ config' = Overlay(config, own[stack[Len(stack)].file])
          /\ stack' = SubSeq(stack, 1, Len(stack) - 1)
          /\ todo' = IF Len(stack) = 1 THEN Tail(todo) ELSE todo
          /\ loader' = loader /\ layout' = layout /\ own' = own
        BY <1>4 DEF apply_own_lines
    <2>2. LoadIsSo(own, layout, stack, todo, config)
        BY <2>1 DEF Precedence
    <2>3. LoadIsSo(own, layout, stack', todo', config')
        BY <1>t, <2>1, <2>2, LoadedCloses
    <2>4. LoadIsSo(own', layout', stack', todo', config') /\ loader' = "load"
        BY <2>1, <2>3
    <2> QED BY <2>4 DEF Precedence
<1>5. CASE apply_eval_env_overrides
    <2>1. /\ loader = "load" /\ stack = <<>> /\ todo = <<>> /\ config' = Overlay(config, env)
          /\ loader' = "validate" /\ layout' = layout /\ own' = own /\ env' = env
        BY <1>5 DEF apply_eval_env_overrides
    <2>2. PICK D, V, r, B, c : Loaded(D, V, r, B, c, own, layout, <<>>, <<>>, config)
        BY <2>1 DEF Precedence, LoadIsSo
    <2>3. /\ Completed(D, V, r, own, layout) /\ \A i \in 1..Len(Paths) : Paths[i] \in D
          /\ config = Overlay(Defaults, Sums(V, Paths, Len(Paths)))
        BY <2>2, LoadedEnds
    <2>4. EndIsSo(own', layout', config', env') /\ loader' = "validate"
        BY <2>1, <2>3 DEF EndIsSo
    <2> QED BY <2>4 DEF Precedence
<1>6. CASE populate_runner_eval_slots \/ \E ok \in BOOLEAN : validate_config(ok) \/ build_depth_slots(ok)
    <2>1. /\ loader \in {"validate", "build", "resolve"} /\ loader' \in {"build", "resolve", "loaded", "failed"}
          /\ UNCHANGED <<layout, own, config, env>>
        BY <1>6 DEF populate_runner_eval_slots, validate_config, build_depth_slots
    <2>2. EndIsSo(own, layout, config, env)
        BY <2>1 DEF Precedence
    <2>3. EndIsSo(own', layout', config', env')
        BY <2>1, <2>2
    <2> QED BY <2>1, <2>3 DEF Precedence
<1> QED BY <1>1, <1>2, <1>3, <1>4, <1>5, <1>6 DEF ConfigNext

\* What every file says to a depth of d includes, if before is what it says to d - 1.
Row(before, d, ow, la) ==
    [f \in Files |-> IF d = 0 \/ ow[f] = None THEN Unset
                     ELSE Overlay(Together(before, la[f]), ow[f])]

\* g has what every file says to every depth up to m.
RowsOf(g, m, ow, la) == g = [d \in 0..m |-> Row(g[d - 1], d, ow, la)]

LEMMA RowsExist ==
    ASSUME NEW ow, NEW la
    PROVE  \A m \in Nat : \E g : RowsOf(g, m, ow, la)
<1> DEFINE S == {m \in Nat : \E g : RowsOf(g, m, ow, la)}
<1>1. 0 \in S
    <2> DEFINE g == [d \in 0..0 |-> [f \in Files |-> Unset]]
    <2>1. \A v : Row(v, 0, ow, la) = [f \in Files |-> Unset]
        BY DEF Row
    <2>2. RowsOf(g, 0, ow, la)
        <3>1. g = [d \in 0..0 |-> Row(g[d - 1], 0, ow, la)]
            BY <2>1
        <3>2. \A d \in 0..0 : d = 0
            OBVIOUS
        <3> HIDE DEF g
        <3>3. [d \in 0..0 |-> Row(g[d - 1], 0, ow, la)] = [d \in 0..0 |-> Row(g[d - 1], d, ow, la)]
            BY <3>2
        <3> QED BY <3>1, <3>3 DEF RowsOf
    <2> QED BY <2>2
<1>2. ASSUME NEW m \in Nat, m \in S PROVE m + 1 \in S
    <2>1. PICK g : RowsOf(g, m, ow, la)
        BY <1>2
    <2> DEFINE h == [d \in 0..(m + 1) |-> IF d <= m THEN g[d] ELSE Row(g[m], m + 1, ow, la)]
    <2>2. \A d \in 0..m : g[d] = Row(g[d - 1], d, ow, la)
        BY <2>1 DEF RowsOf
    <2>3. (\A d \in 0..m : h[d] = g[d]) /\ h[m + 1] = Row(g[m], m + 1, ow, la)
        OBVIOUS
    <2>4. h = [d \in 0..(m + 1) |-> h[d]]
        OBVIOUS
    <2> HIDE DEF h
    <2>5. ASSUME NEW d \in 0..(m + 1) PROVE h[d] = Row(h[d - 1], d, ow, la)
        <3>1. CASE d = 0
            <4>1. 0 \in 0..m
                OBVIOUS
            <4>2. h[0] = Row(g[0 - 1], 0, ow, la)
                BY <2>2, <2>3, <4>1
            <4>3. \A v, w : Row(v, 0, ow, la) = Row(w, 0, ow, la)
                BY DEF Row
            <4> QED BY <3>1, <4>2, <4>3
        <3>2. CASE d \in 1..m
            <4>1. d \in 0..m /\ d - 1 \in 0..m
                BY <3>2
            <4> QED BY <2>2, <2>3, <4>1
        <3>3. CASE d = m + 1
            <4>1. d - 1 = m /\ m \in 0..m
                BY <3>3
            <4> QED BY <2>3, <3>3, <4>1
        <3> QED BY <3>1, <3>2, <3>3
    <2>6. RowsOf(h, m + 1, ow, la)
        BY <2>4, <2>5 DEF RowsOf
    <2> QED BY <2>6
<1> HIDE DEF S
<1>3. \A m \in Nat : m \in S
    BY <1>1, <1>2, AllNats
<1> QED BY <1>3 DEF S

LEMMA SaidRows == RowsOf(Said, Cardinality(Files), own, layout)
<1> DEFINE n == Cardinality(Files)
           rows == CHOOSE g : RowsOf(g, n, own, layout)
<1>1. n \in Nat
    BY ConfigAssumption, FS_CardinalityType DEF ConfigAssumption
<1>2. \E g : RowsOf(g, n, own, layout)
    BY <1>1, RowsExist
<1>3. RowsOf(rows, n, own, layout)
    <2> HIDE DEF n
    <2> QED BY <1>2
<1>4. Said = rows
    BY DEF Said, RowsOf, Row
<1> QED BY <1>3, <1>4

\* A completed file's rank is a depth at which all it includes is seen.
LEMMA SaidOfCompleted ==
    ASSUME LoaderSafe, NEW D, NEW V, NEW r, Completed(D, V, r, own, layout)
    PROVE  \A f \in D : Said[Cardinality(Files)][f] = V[f]
<1> DEFINE n == Cardinality(Files)
           S == {d \in Nat : d <= n => \A f \in D : r[f] <= d => Said[d][f] = V[f]}
<1>1. n \in Nat
    BY ConfigAssumption, FS_CardinalityType DEF ConfigAssumption
<1>2. \A d \in 0..n : Said[d] = Row(Said[d - 1], d, own, layout)
    BY SaidRows DEF RowsOf
<1>3. /\ D \subseteq Files /\ r \in [D -> Nat]
      /\ \A f \in D : r[f] \in Nat /\ r[f] # 0 /\ r[f] <= Cardinality(D)
    BY DEF Completed
<1>4. 0 \in S
    <2>1. \A f \in D : ~(r[f] <= 0)
        BY <1>3
    <2> QED BY <2>1
<1>5. ASSUME NEW d \in Nat, d \in S PROVE d + 1 \in S
    <2> SUFFICES ASSUME d + 1 <= n, NEW f \in D, r[f] <= d + 1
                 PROVE  Said[d + 1][f] = V[f]
        OBVIOUS
    <2>1. /\ own[f] # None /\ V[f] = Overlay(Sums(V, layout[f], Len(layout[f])), own[f])
          /\ \A i \in 1..Len(layout[f]) : layout[f][i] \in D /\ r[layout[f][i]] < r[f]
        BY DEF Completed
    <2>2. d + 1 \in 0..n /\ (d + 1) - 1 = d /\ d + 1 # 0 /\ f \in Files
        BY <1>1, <1>3
    <2>3. Said[d + 1][f] = Overlay(Together(Said[d], layout[f]), own[f])
        <3>1. Said[d + 1] = Row(Said[d], d + 1, own, layout)
            BY <1>2, <2>2
        <3> QED BY <2>1, <2>2, <3>1 DEF Row
    <2>4. layout[f] \in Seq(Files) /\ Len(layout[f]) \in Nat
        BY <2>2 DEF LoaderSafe
    <2>5. \A i \in 1..Len(layout[f]) : Said[d][layout[f][i]] = V[layout[f][i]]
        <3> TAKE i \in 1..Len(layout[f])
        <3> DEFINE g == layout[f][i]
        <3>1. g \in D /\ r[g] < r[f]
            BY <2>1
        <3> HIDE DEF g
        <3>2. r[g] \in Nat /\ r[f] \in Nat
            BY <1>3, <3>1
        <3>3. r[g] <= d /\ d <= n
            BY <1>1, <3>1, <3>2
        <3>4. Said[d][g] = V[g]
            BY <1>5, <3>1, <3>3
        <3> QED BY <3>4 DEF g
    <2>6. Together(Said[d], layout[f]) = Sums(V, layout[f], Len(layout[f]))
        <3>1. Together(Said[d], layout[f]) = Sums(Said[d], layout[f], Len(layout[f]))
            BY <2>4, TogetherIsSums
        <3>2. Sums(Said[d], layout[f], Len(layout[f])) = Sums(V, layout[f], Len(layout[f]))
            BY <2>4, <2>5, SumsSame
        <3> QED BY <3>1, <3>2
    <2> QED BY <2>1, <2>3, <2>6
<1> HIDE DEF S
<1>6. n \in S
    BY <1>1, <1>4, <1>5, AllNats
<1>7. Cardinality(D) \in Nat /\ Cardinality(D) <= n
    BY <1>3, ConfigAssumption, FS_Subset, FS_CardinalityType DEF ConfigAssumption
<1>8. \A f \in D : r[f] <= n
    <2> HIDE DEF n
    <2> QED BY <1>1, <1>3, <1>7
<1>9. n <= n => \A f \in D : r[f] <= n => Said[n][f] = V[f]
    BY <1>6 DEF S
<1> HIDE DEF n
<1>10. n <= n
    BY <1>1
<1> QED BY <1>8, <1>9, <1>10 DEF n

LEMMA PrecedenceIsEnough == LoaderSafe /\ Precedence => LaterSourceWins
<1> SUFFICES ASSUME LoaderSafe, Precedence, loader \in {"validate", "build", "resolve", "loaded"}
             PROVE  config = Overlay(Overlay(Defaults, Together(Said[Cardinality(Files)], Paths)), env)
    BY DEF LaterSourceWins
<1>1. PICK D, V, r : /\ Completed(D, V, r, own, layout) /\ \A i \in 1..Len(Paths) : Paths[i] \in D
                     /\ config = Overlay(Overlay(Defaults, Sums(V, Paths, Len(Paths))), env)
    BY DEF Precedence, EndIsSo
<1> DEFINE said == Said[Cardinality(Files)]
<1>2. \A f \in D : said[f] = V[f]
    BY <1>1, SaidOfCompleted
<1> HIDE DEF said
<1>3. Paths \in Seq(Files) /\ Len(Paths) \in Nat
    BY ConfigAssumption DEF ConfigAssumption
<1>4. Together(said, Paths) = Sums(said, Paths, Len(Paths))
    BY <1>3, TogetherIsSums
<1>5. Sums(said, Paths, Len(Paths)) = Sums(V, Paths, Len(Paths))
    BY <1>1, <1>2, <1>3, SumsSame
<1> QED BY <1>1, <1>4, <1>5 DEF said

LEMMA PrecedenceStep ==
    ASSUME CoreSafe, Precedence, CoreNext \/ UNCHANGED coreVars
    PROVE  Precedence'
<1>1. CASE load
    BY <1>1, ConfigPrecedes DEF load, CoreSafe
<1>2. CASE create \/ create_throws
    <2>1. loader' \in {"created", "failed"}
        BY <1>2 DEF create, create_throws, Fail
    <2> QED BY <2>1 DEF Precedence
<1>3. CASE UNCHANGED configVars
    BY <1>3 DEF configVars, Precedence
<1>4. ingest \/ run_once \/ run_once_throws \/ UNCHANGED coreVars => UNCHANGED configVars
    BY DEF ingest, run_once, run_once_throws, Used, coreVars
<1> QED BY <1>1, <1>2, <1>3, <1>4 DEF CoreNext

\* For every set of files, every way they can include each other (cycles and files
\* included by many among them) and whatever they say: the configuration that is
\* validated, built and resolved is the one precedence defines, the variables over the
\* paths over the defaults, and of each file its own lines over its includes.
THEOREM LaterSourcesWin == CoreSpec => []LaterSourceWins
<1>1. CoreInit => Precedence
    BY PrecedenceInit DEF CoreInit
<1>2. CoreSafe /\ Precedence /\ [CoreNext \/ (Finished /\ UNCHANGED coreVars)]_coreVars => Precedence'
    BY PrecedenceStep
<1>3. CoreSafe /\ Precedence => LaterSourceWins
    BY PrecedenceIsEnough DEF CoreSafe
<1> QED BY <1>1, <1>2, <1>3, CoreStaysSafe, PTL DEF CoreSpec
=============================================================================
