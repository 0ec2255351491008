-------------------------- MODULE PublicationProofs --------------------------
(***************************************************************************)
(* What reaches the viewers.  The catch-up of the distance field misses    *)
(* only obstacles that are queued or that an update erased, for any finite *)
(* set of cells, any spacing and radius, and any number of queued batches. *)
(* The event stream server sends whole lines, in order, for any number of  *)
(* clients, any length of its queues and any number of events.  The        *)
(* distance transform is exact, for any grid.                              *)
(***************************************************************************)
EXTENDS EsdfCatchup, EventStream, FiniteSetTheorems, SequenceTheorems, WellFoundedInduction,
        TLAPS

\* The type invariant is inductive.
LEMMA CatchupTypeInductive ==
    /\ CatchupInit => CatchupTypeOK
    /\ CatchupTypeOK /\ [CatchupNext]_catchupVars => CatchupTypeOK'
<1>1. CatchupInit => CatchupTypeOK
    <2>1. <<>> \in Seq(SUBSET Keys)
        OBVIOUS
    <2>2. NoLine \in PlanningLines
        BY DEF NoLine, PlanningLines
    <2> QED BY <2>1, <2>2 DEF CatchupInit, CatchupTypeOK
<1>2. ASSUME CatchupTypeOK, CatchupNext PROVE CatchupTypeOK'
    <2> USE <1>2 DEF CatchupTypeOK, l2Vars, l3Vars, fieldVars, streamVars, viewerVars
    <2>0. ASSUME NEW gone, Outdate(gone)
          PROVE  slot' \in PlanningLines /\ shown' \subseteq Keys /\ lost' \subseteq Keys
        BY <2>0 DEF Outdate, PlanningLines
    <2>a. ASSUME NEW full \in BOOLEAN, NEW cells \in SUBSET Keys, SendPlanning(full, cells)
          PROVE  slot' \in PlanningLines /\ shown' \subseteq Keys /\ lost' \subseteq Keys
        BY <2>a DEF SendPlanning, PlanningLines
    <2>1. CASE StartupPublish
        BY <2>1, <2>a DEF StartupPublish, ComputeField, Voxels
    <2>2. CASE SkipStartup
        BY <2>2 DEF SkipStartup
    <2>3. CASE SlideWindow
        <3>1. PICK gone \in SUBSET resident, loaded \in SUBSET (Keys \ resident) :
                 /\ Drop(gone)
                 /\ resident' = (resident \ gone) \cup loaded
                 /\ occupied' = (occupied \ gone) \cup loaded
                 /\ \/ loaded = {} /\ UNCHANGED pending
                    \/ /\ loaded # {} /\ Len(pending) < MaxBatches
                       /\ pending' = Append(pending, loaded)
            BY <2>3 DEF SlideWindow
        <3>2. pending' \in Seq(SUBSET Keys)
            BY <3>1
        <3> QED BY <2>0, <2>3, <3>1, <3>2 DEF SlideWindow, Drop
    <2>4. CASE \E k \in Keys : TouchCell(k)
        BY <2>0, <2>4 DEF TouchCell
    <2>5. CASE \E k \in Keys : EvictCell(k)
        BY <2>0, <2>5 DEF EvictCell, Drop
    <2>6. CASE FinishUpdate
        BY <2>6 DEF FinishUpdate
    <2>7. CASE Publish
        BY <2>7, <2>a DEF Publish
    <2>8. CASE ApplyBatch
        <3>1. Tail(pending) \in Seq(SUBSET Keys)
            BY <2>8 DEF ApplyBatch
        <3> QED BY <2>8, <3>1 DEF ApplyBatch, UpdateIncremental
    <2>9. CASE EndResidency
        BY <2>9 DEF EndResidency
    <2>10. CASE PullValueDelta
        BY <2>10 DEF PullValueDelta, UpdateIncremental
    <2>11. CASE ThrottleValueDelta
        BY <2>11 DEF ThrottleValueDelta
    <2>12. CASE DrawPlanning
        BY <2>12 DEF DrawPlanning, NoLine, PlanningLines
    <2> QED BY <2>1, <2>2, <2>3, <2>4, <2>5, <2>6, <2>7, <2>8, <2>9, <2>10, <2>11, <2>12
            DEF CatchupNext
<1>3. ASSUME CatchupTypeOK, UNCHANGED catchupVars PROVE CatchupTypeOK'
    BY <1>3 DEF CatchupTypeOK, catchupVars, l2Vars, l3Vars, fieldVars, streamVars, viewerVars
<1> QED BY <1>1, <1>2, <1>3

\* The sets that stand for sequence numbers are always those of cells in memory.
THEOREM CatchupTypeCorrect == CatchupSpec => []CatchupTypeOK
BY CatchupTypeInductive, PTL DEF CatchupSpec

-----------------------------------------------------------------------------
\* The part of s below x.
Below(s, x) == {y \in s : y < x}

\* The bounding box of update_incremental exists: a finite set of cells has a
\* least one, by well-foundedness of strict inclusion on its lower parts, ...
LEMMA HasLeast ==
    ASSUME NEW s \in SUBSET Int, IsFiniteSet(s), s # {}
    PROVE  \E x \in s : \A y \in s : x <= y
<1> DEFINE T == {Below(s, x) : x \in s}
<1>1. T \subseteq FiniteSubsetsOf(s)
    BY FS_Subset DEF Below, FiniteSubsetsOf
<1>2. T # {}
    OBVIOUS
<1>3. PICK b \in T : \A c \in T : ~(<<c, b>> \in StrictSubsetOrdering(s))
    BY <1>1, <1>2, FS_StrictSubsetOrderingWellFounded, WFMin
<1>4. PICK x \in s : b = Below(s, x)
    BY <1>3
<1>5. ASSUME NEW y \in s, y < x PROVE FALSE
    <2>1. Below(s, y) \in T /\ Below(s, y) \in SUBSET s /\ b \in SUBSET s
        BY <1>4 DEF Below
    <2>2. x \in Int /\ y \in Int /\ \A z \in s : z \in Int
        OBVIOUS
    <2>3. Below(s, y) \subseteq b
        <3>1. ASSUME NEW z \in Below(s, y) PROVE z \in Below(s, x)
            <4>1. z \in s /\ z < y
                BY <3>1 DEF Below
            <4>2. z < x
                BY <4>1, <1>5, <2>2
            <4> QED BY <4>1, <4>2 DEF Below
        <3> QED BY <3>1, <1>4
    <2>4. y \in b /\ y \notin Below(s, y)
        BY <1>4, <1>5, <2>2 DEF Below
    <2>5. <<Below(s, y), b>> \in StrictSubsetOrdering(s)
        BY <2>1, <2>3, <2>4 DEF StrictSubsetOrdering
    <2> QED BY <1>3, <2>1, <2>5
<1> QED BY <1>5

\* ... and, mirrored, a greatest one.
LEMMA HasGreatest ==
    ASSUME NEW s \in SUBSET Int, IsFiniteSet(s), s # {}
    PROVE  \E x \in s : \A y \in s : x >= y
<1> DEFINE t == {0 - y : y \in s}
<1>0. \A y \in s : y \in Int /\ 0 - y \in Int
    OBVIOUS
<1>1. t \in SUBSET Int /\ t # {}
    BY <1>0, Zenon
<1>2. IsFiniteSet(t)
    <2> DEFINE f == [y \in s |-> 0 - y]
    <2>1. f \in Surjection(s, t)
        BY DEF Surjection
    <2> QED BY <2>1, FS_Surjection
<1>3. PICK x \in t : \A y \in t : x <= y
    BY <1>1, <1>2, HasLeast
<1>4. PICK z \in s : x = 0 - z
    BY <1>3
<1>5. ASSUME NEW y \in s PROVE z >= y
    <2>1. 0 - z <= 0 - y
        BY <1>3, <1>4
    <2> QED BY <2>1, <1>0
<1> QED BY <1>5

\* So the minimum and the maximum of a batch bound it.
LEMMA BoundingBox ==
    ASSUME NEW s \in SUBSET Int, IsFiniteSet(s), s # {}
    PROVE  /\ Min(s) \in s /\ Max(s) \in s
           /\ \A k \in s : Min(s) <= k /\ k <= Max(s)
BY HasLeast, HasGreatest DEF Min, Max

\* Rounding down loses less than the divisor.
LEMMA DivBounds ==
    ASSUME NEW a \in Int, NEW b \in Nat \ {0}
    PROVE  /\ a \div b \in Int
           /\ b * (a \div b) <= a
           /\ a < b * (a \div b) + b
OBVIOUS

\* The grid that compute_esdf() makes of the window holds the voxel of every cell
\* of the batch, although its origin is rounded down: D0 is at least a voxel.
LEMMA GridHoldsBox ==
    ASSUME NEW s \in SUBSET Int, IsFiniteSet(s), s # {},
           NEW size \in Nat \ {0}, NEW k \in s
    PROVE  InGrid(Voxel(k), s, size)
<1> DEFINE lo == Min(s)  hi == Max(s)
<1> DEFINE h == Half(s, size)  c == Centre(s)
<1> DEFINE n == Count(s, size)  o == Origin(s, size)  v == Voxel(k)
<1> DEFINE ns == n * Spacing  os == Spacing * o  vs == Spacing * v
<1>0. Spacing \in Nat \ {0} /\ D0 \in Nat /\ D0 >= Spacing
    BY FieldAssumption DEF FieldAssumption
<1>1. lo \in Int /\ hi \in Int /\ k \in Int /\ lo <= k /\ k <= hi
    BY BoundingBox
<1>2. h \in Int /\ h = hi - lo + 2 * D0 + 2 * size /\ c = lo + hi + 1 /\ c \in Int
    BY <1>0, <1>1 DEF Half, Centre
<1>3. n \in Int /\ ns \in Int /\ ns >= h /\ ns = Spacing * n
    <2>1. n = (h + Spacing - 1) \div Spacing /\ h + Spacing - 1 \in Int
        BY <1>0, <1>2 DEF Count
    <2> HIDE DEF h
    <2>2. n \in Int /\ h + Spacing - 1 < Spacing * n + Spacing
        BY <2>1, <1>0, DivBounds
    <2> HIDE DEF n
    <2>3. ns = Spacing * n /\ ns \in Int
        BY <2>2, <1>0
    <2> HIDE DEF ns
    <2> QED BY <2>2, <2>3, <1>0, <1>2
<1>4. o \in Int /\ 2 * os <= c - ns /\ c - ns < 2 * os + 2 * Spacing /\ os \in Int
    <2>1. o = (c - ns) \div (2 * Spacing) /\ c - ns \in Int /\ 2 * Spacing \in Nat \ {0}
        BY <1>0, <1>2, <1>3 DEF Origin
    <2> HIDE DEF c, ns
    <2>2. o \in Int /\ (2 * Spacing) * o <= c - ns /\ c - ns < (2 * Spacing) * o + 2 * Spacing
        BY <2>1, DivBounds
    <2> HIDE DEF o
    <2>3. (2 * Spacing) * o = 2 * os /\ os \in Int
        BY <2>2, <1>0
    <2> QED BY <2>2, <2>3
<1>5. v \in Int /\ vs \in Int /\ vs <= k /\ k < vs + Spacing
    BY <1>0, <1>1, DivBounds DEF Voxel
<1> HIDE DEF h, c, n, o, v, lo, hi, ns, os, vs
<1>6. os < vs + Spacing
    BY <1>0, <1>1, <1>2, <1>3, <1>4, <1>5
<1>7. vs < os + ns
    BY <1>0, <1>1, <1>2, <1>3, <1>4, <1>5
<1>8. o < v + 1
    BY <1>6, <1>0, <1>4, <1>5 DEF os, vs
<1>9. v < o + n
    BY <1>7, <1>0, <1>3, <1>4, <1>5 DEF os, vs
<1> QED BY <1>8, <1>9, <1>3, <1>4, <1>5 DEF InGrid, o, v, n
-----------------------------------------------------------------------------
\* The inductive form: before the first distance field is stored nothing is
\* promised at the start of a frame, afterwards whatever the field misses is
\* queued or was erased, at the start of a frame as well.
NothingSlipsBy ==
    \/ pc = "start" /\ ~esdf_sent /\ ~stored
    \/ \A k \in Missing : k \in Queued \/ Voxel(k) \in erased

\* Refreshing the field around s leaves nothing of s missing, and whatever it
\* makes missing elsewhere is recorded as erased.
LEMMA RefreshHelps ==
    ASSUME CatchupTypeOK, NEW s \in SUBSET Keys, UpdateIncremental(s)
    PROVE  \A k \in occupied :
             \/ Voxel(k) \in esdf' \cup erased'
             \/ Voxel(k) \notin esdf \cup erased /\ k \notin s
<1>1. CASE s = {}
    BY <1>1 DEF UpdateIncremental, fieldVars, Voxels
<1>2. CASE s # {}
    <2> DEFINE grid == {v \in Voxels(Keys) : InGrid(v, s, CellSize)}
               gone == {v \in Voxels(Keys) : InErased(v, s, CellSize)}
    <2>1. /\ esdf' = (esdf \ gone) \cup (Voxels(occupied) \cap grid)
          /\ erased' = (erased \cup gone) \ grid
        BY <1>2 DEF UpdateIncremental
    <2>2. Voxels(occupied) \subseteq Voxels(Keys) /\ Voxels(s) \subseteq Voxels(Keys)
          /\ erased \subseteq Voxels(Keys)
        BY DEF CatchupTypeOK, Voxels
    <2>3. Voxels(s) \subseteq grid
        <3>1. s \in SUBSET Int /\ IsFiniteSet(s)
            BY CatchupAssumption, FS_Subset DEF CatchupAssumption
        <3>2. CellSize \in Nat \ {0}
            BY FieldAssumption DEF FieldAssumption, CellSize
        <3>3. \A k \in s : InGrid(Voxel(k), s, CellSize)
            BY <1>2, <3>1, <3>2, GridHoldsBox
        <3> QED BY <3>3, <2>2 DEF Voxels
    <2> HIDE DEF grid, gone
    <2>4. \A k \in s : Voxel(k) \in grid
        BY <2>3 DEF Voxels
    <2>5. \A k \in occupied : Voxel(k) \in Voxels(occupied)
        BY DEF Voxels
    <2> QED BY <2>1, <2>4, <2>5
<1> QED BY <1>1, <1>2

\* What the queue holds after a batch is appended ...
LEMMA QueuedAfterAppend ==
    ASSUME CatchupTypeOK, NEW b \in SUBSET Keys, pending' = Append(pending, b)
    PROVE  Batches' = Batches \cup b
<1>1. /\ DOMAIN pending' = 1..(Len(pending) + 1)
      /\ DOMAIN pending = 1..Len(pending)
      /\ Len(pending) \in Nat
      /\ \A i \in 1..Len(pending) : pending'[i] = pending[i]
      /\ pending'[Len(pending) + 1] = b
    BY DEF CatchupTypeOK
<1>2. DOMAIN pending' = DOMAIN pending \cup {Len(pending) + 1}
    BY <1>1
<1>3. ASSUME NEW k
      PROVE  (\E i \in DOMAIN pending' : k \in pending'[i])
               <=> (\E i \in DOMAIN pending : k \in pending[i]) \/ k \in b
    BY <1>1, <1>2
<1> QED BY <1>3, Zenon DEF Batches

\* ... and after the first one is popped.
LEMMA QueuedAfterTail ==
    ASSUME CatchupTypeOK, pending # <<>>, pending' = Tail(pending)
    PROVE  Batches \ Head(pending) \subseteq Batches'
<1>1. /\ DOMAIN pending = 1..Len(pending) /\ Len(pending) \in Nat
      /\ DOMAIN pending' = 1..(Len(pending) - 1)
      /\ Head(pending) = pending[1]
      /\ \A i \in 1..(Len(pending) - 1) : pending'[i] = pending[i + 1]
    BY DEF CatchupTypeOK
<1>2. ASSUME NEW i \in DOMAIN pending, NEW k \in pending[i], k \notin Head(pending)
      PROVE  \E j \in DOMAIN pending' : k \in pending'[j]
    <2>1. i # 1 /\ i - 1 \in DOMAIN pending' /\ pending'[i - 1] = pending[i]
        BY <1>1, <1>2
    <2> QED BY <2>1, <1>2
<1> QED BY <1>2, Zenon DEF Batches

\* Every stage of a frame keeps the inductive form.
LEMMA FrameKeepsQueue ==
    ASSUME CatchupTypeOK, NothingSlipsBy, CatchupNext
    PROVE  NothingSlipsBy'
<1>q. Queued = fresh \cup Batches /\ Queued' = fresh' \cup Batches'
    BY DEF Queued
<1>p. UNCHANGED pending => Batches' = Batches
    BY DEF Batches
<1>o. pc # "start" \/ esdf_sent \/ stored
        => \A k \in occupied : Voxel(k) \in esdf \cup erased \/ k \in Queued
    BY DEF NothingSlipsBy, Missing
<1>g. (\A k \in occupied' : Voxel(k) \in esdf' \cup erased' \/ k \in Queued') => NothingSlipsBy'
    BY DEF NothingSlipsBy, Missing, Voxel
<1>s. UNCHANGED <<occupied, fresh, pending, esdf, erased>> /\ (pc # "start" \/ esdf_sent \/ stored)
        => NothingSlipsBy'
    BY <1>q, <1>p, <1>o, <1>g
<1> USE DEF l2Vars, l3Vars, fieldVars, streamVars, viewerVars
<1>1. CASE StartupPublish
    <2>1. CASE ~stored /\ resident # {} /\ ComputeField
        BY <1>1, <2>1, <1>g DEF StartupPublish, ComputeField, Voxels
    <2>2. CASE stored /\ UNCHANGED fieldVars
        BY <1>1, <2>2, <1>s DEF StartupPublish
    <2>3. CASE resident = {} /\ UNCHANGED fieldVars
        <3>1. occupied' = {}
            BY <1>1, <2>3 DEF StartupPublish, CatchupTypeOK
        <3> QED BY <3>1, <1>g
    <2> QED BY <1>1, <2>1, <2>2, <2>3 DEF StartupPublish
<1>2. CASE SkipStartup
    BY <1>2, <1>s DEF SkipStartup
<1>3. CASE SlideWindow
    <2>1. PICK gone \in SUBSET resident, loaded \in SUBSET (Keys \ resident) :
             /\ Drop(gone)
             /\ occupied' = (occupied \ gone) \cup loaded
             /\ \/ loaded = {} /\ UNCHANGED pending
                \/ loaded # {} /\ pending' = Append(pending, loaded)
        BY <1>3 DEF SlideWindow
    <2>2. Batches' = Batches \cup loaded
        BY <2>1, <1>p, QueuedAfterAppend
    <2>3. pc = "slide" /\ UNCHANGED <<esdf, erased>> /\ fresh' = fresh \ gone
        BY <1>3, <2>1 DEF SlideWindow, Drop
    <2> QED BY <2>1, <2>2, <2>3, <1>o, <1>q, <1>g
<1>4. CASE \E k \in Keys : TouchCell(k)
    <2>1. PICK k \in Keys : TouchCell(k)
        BY <1>4
    <2>2. /\ occupied' \subseteq occupied \cup {k} /\ fresh' = fresh \cup {k}
          /\ UNCHANGED <<esdf, erased, pending>> /\ pc = "update"
        BY <2>1 DEF TouchCell
    <2> QED BY <2>2, <1>o, <1>p, <1>q, <1>g
<1>5. CASE \E k \in Keys : EvictCell(k)
    <2>1. PICK k \in Keys : EvictCell(k)
        BY <1>5
    <2>2. /\ occupied' = occupied \ {k} /\ fresh' = fresh \ {k}
          /\ UNCHANGED <<esdf, erased, pending>> /\ pc = "update"
        BY <2>1 DEF EvictCell, Drop
    <2> QED BY <2>2, <1>o, <1>p, <1>q, <1>g
<1>6. CASE FinishUpdate
    BY <1>6, <1>s DEF FinishUpdate
<1>7. CASE Publish
    BY <1>7, <1>s DEF Publish
<1>8. CASE ApplyBatch
    <2>1. Head(pending) \in SUBSET Keys
        BY <1>8 DEF ApplyBatch, CatchupTypeOK
    <2>2. UpdateIncremental(Head(pending))
        BY <1>8 DEF ApplyBatch
    <2>3. Batches \ Head(pending) \subseteq Batches'
        BY <1>8, QueuedAfterTail DEF ApplyBatch
    <2>4. UNCHANGED <<occupied, fresh>> /\ pc = "residency"
        BY <1>8 DEF ApplyBatch
    <2>5. \A k \in occupied :
             \/ Voxel(k) \in esdf' \cup erased'
             \/ Voxel(k) \notin esdf \cup erased /\ k \notin Head(pending)
        BY <2>1, <2>2, RefreshHelps
    <2> QED BY <2>3, <2>4, <2>5, <1>o, <1>q, <1>g
<1>9. CASE EndResidency
    BY <1>9, <1>s DEF EndResidency
<1>10. CASE PullValueDelta
    <2>1. fresh \in SUBSET Keys
        BY DEF CatchupTypeOK
    <2>2. UpdateIncremental(fresh)
        BY <1>10 DEF PullValueDelta
    <2>3. UNCHANGED <<occupied, pending>> /\ pc = "value"
        BY <1>10 DEF PullValueDelta
    <2>4. \A k \in occupied :
             \/ Voxel(k) \in esdf' \cup erased'
             \/ Voxel(k) \notin esdf \cup erased /\ k \notin fresh
        BY <2>1, <2>2, RefreshHelps
    <2> QED BY <2>3, <2>4, <1>o, <1>p, <1>q, <1>g
<1>11. CASE ThrottleValueDelta
    BY <1>11, <1>s DEF ThrottleValueDelta
<1>12. CASE DrawPlanning
    <2>1. UNCHANGED <<occupied, fresh, pending, esdf, erased, stored, esdf_sent, pc>>
        BY <1>12 DEF DrawPlanning
    <2> QED BY <2>1 DEF NothingSlipsBy, Missing, Queued, Batches
<1> QED BY <1>1, <1>2, <1>3, <1>4, <1>5, <1>6, <1>7, <1>8, <1>9, <1>10, <1>11, <1>12
        DEF CatchupNext

\* The catch-up of run_once forgets no obstacle: whatever the window drops and
\* reads back, and however often the pull is throttled, an obstacle the distance
\* field misses is still queued for it, unless an update of a neighbour erased it.
THEOREM NoObstacleSlipsBy == CatchupSpec => []MissingIsExplained
<1>1. CatchupInit => NothingSlipsBy
    BY DEF CatchupInit, NothingSlipsBy
<1>2. CatchupTypeOK /\ NothingSlipsBy /\ [CatchupNext]_catchupVars => NothingSlipsBy'
    <2>1. ASSUME NothingSlipsBy, UNCHANGED catchupVars PROVE NothingSlipsBy'
        BY <2>1 DEF NothingSlipsBy, Missing, Queued, Batches, catchupVars, l2Vars, l3Vars, fieldVars, streamVars
    <2> QED BY <2>1, FrameKeepsQueue
<1>3. NothingSlipsBy => MissingIsExplained
    BY DEF NothingSlipsBy, MissingIsExplained
<1> QED BY <1>1, <1>2, <1>3, CatchupTypeCorrect, PTL DEF CatchupSpec

-----------------------------------------------------------------------------
\* A full snapshot that waits to be drawn holds what the viewer will need: drawing it
\* takes away nothing that is not in it, unsent or lost.
FullSlotHoldsAll == slot.full => written \subseteq unsent \cup slot.cells \cup lost

ViewerSafe == ViewersLackOnlyUnsent /\ FullSlotHoldsAll

\* Publishing the cells written since the last time, or all of them, accounts for
\* what was unsent.
LEMMA SendAccounts ==
    ASSUME CatchupTypeOK, ViewerSafe, NEW full \in BOOLEAN, NEW cells \in SUBSET Keys,
           IF full THEN cells = written ELSE cells = unsent,
           SendPlanning(full, cells), unsent' = {}, written' = written
    PROVE  ViewerSafe'
<1> USE DEF ViewerSafe, ViewersLackOnlyUnsent, FullSlotHoldsAll
<1>0. slot \in PlanningLines
    BY DEF CatchupTypeOK
<1>1. CASE full /\ cells = {} /\ UNCHANGED viewerVars
    BY <1>1 DEF viewerVars
<1>2. CASE lost' = lost \cup cells /\ UNCHANGED slot /\ UNCHANGED shown
    BY <1>2
<1>3. CASE /\ slot' = [full |-> full, cells |-> cells]
           /\ lost' = (lost \cup slot.cells) \ cells
           /\ UNCHANGED shown
    <2>1. slot'.full = full /\ slot'.cells = cells
        BY <1>3
    <2> QED BY <1>3, <2>1
<1> QED BY <1>1, <1>2, <1>3 DEF SendPlanning

\* Writing a cell again, or dropping cells from memory, leaves the others where they
\* are.
LEMMA OutdateAccounts ==
    ASSUME CatchupTypeOK, ViewerSafe, NEW gone \in SUBSET Keys, Outdate(gone),
           NEW more \in SUBSET gone, written' = (written \ gone) \cup more, unsent' = (unsent \ gone) \cup more
    PROVE  ViewerSafe'
<1>1. slot \in PlanningLines
    BY DEF CatchupTypeOK
<1>2. slot'.full = slot.full /\ slot'.cells = slot.cells \ gone
    BY <1>1 DEF Outdate, PlanningLines
<1> QED BY <1>2 DEF Outdate, ViewerSafe, ViewersLackOnlyUnsent, FullSlotHoldsAll

\* The deltas published after the startup snapshots add up to the map: a viewer
\* lacks only cells that the next publication sends, that wait to be drawn, or whose
\* line was lost.
THEOREM DeltasAddUp == CatchupSpec => []ViewersLackOnlyUnsent
<1>1. CatchupInit => ViewerSafe
    BY DEF CatchupInit, ViewerSafe, ViewersLackOnlyUnsent, FullSlotHoldsAll, NoLine
<1>2. ASSUME CatchupTypeOK, ViewerSafe, CatchupNext PROVE ViewerSafe'
    <2> USE <1>2 DEF l2Vars, l3Vars, streamVars, viewerVars
    <2>1. CASE StartupPublish
        <3>1. CASE resident = {} /\ UNCHANGED <<viewerVars, unsent, sent>>
            BY <2>1, <3>1 DEF StartupPublish, ViewerSafe, ViewersLackOnlyUnsent, FullSlotHoldsAll
        <3>2. CASE SendPlanning(TRUE, written) /\ unsent' = {}
            <4>1. written \in SUBSET Keys /\ written' = written
                BY <2>1 DEF StartupPublish, CatchupTypeOK
            <4> QED BY <3>2, <4>1, SendAccounts
        <3> QED BY <2>1, <3>1, <3>2 DEF StartupPublish
    <2>2. CASE SkipStartup
        BY <2>2 DEF SkipStartup, ViewerSafe, ViewersLackOnlyUnsent, FullSlotHoldsAll
    <2>3. CASE SlideWindow
        <3>1. PICK gone \in SUBSET resident : Drop(gone)
            BY <2>3 DEF SlideWindow
        <3>2. /\ gone \in SUBSET Keys /\ {} \in SUBSET gone
              /\ written' = (written \ gone) \cup {} /\ unsent' = (unsent \ gone) \cup {}
            BY <3>1 DEF Drop, CatchupTypeOK
        <3> QED BY <3>1, <3>2, OutdateAccounts DEF Drop
    <2>4. CASE \E k \in Keys : TouchCell(k)
        <3>1. PICK k \in Keys : TouchCell(k)
            BY <2>4
        <3>2. /\ {k} \in SUBSET Keys /\ {k} \in SUBSET {k} /\ Outdate({k})
              /\ written' = (written \ {k}) \cup {k} /\ unsent' = (unsent \ {k}) \cup {k}
            BY <3>1 DEF TouchCell
        <3> QED BY <3>2, OutdateAccounts
    <2>5. CASE \E k \in Keys : EvictCell(k)
        <3>1. PICK k \in Keys : EvictCell(k)
            BY <2>5
        <3>2. /\ {k} \in SUBSET Keys /\ {} \in SUBSET {k} /\ Outdate({k})
              /\ written' = (written \ {k}) \cup {} /\ unsent' = (unsent \ {k}) \cup {}
            BY <3>1 DEF EvictCell, Drop
        <3> QED BY <3>2, OutdateAccounts
    <2>6. CASE Publish
        <3> DEFINE cells == IF sent THEN unsent ELSE written
        <3>1. /\ SendPlanning(~sent, cells) /\ unsent' = {} /\ written' = written
              /\ cells \in SUBSET Keys /\ (~sent) \in BOOLEAN
              /\ IF ~sent THEN cells = written ELSE cells = unsent
            BY <2>6 DEF Publish, CatchupTypeOK
        <3> HIDE DEF cells
        <3> QED BY <3>1, SendAccounts
    <2>7. CASE FinishUpdate \/ EndResidency \/ ThrottleValueDelta
        BY <2>7 DEF FinishUpdate, EndResidency, ThrottleValueDelta, ViewerSafe, ViewersLackOnlyUnsent,
                    FullSlotHoldsAll
    <2>8. CASE ApplyBatch \/ PullValueDelta
        BY <2>8 DEF ApplyBatch, PullValueDelta, ViewerSafe, ViewersLackOnlyUnsent, FullSlotHoldsAll
    <2>9. CASE DrawPlanning
        <3>1. slot'.full = FALSE /\ slot'.cells = {}
            BY <2>9 DEF DrawPlanning, NoLine
        <3> QED BY <2>9, <3>1 DEF DrawPlanning, ViewerSafe, ViewersLackOnlyUnsent, FullSlotHoldsAll
    <2> QED BY <2>1, <2>2, <2>3, <2>4, <2>5, <2>6, <2>7, <2>8, <2>9 DEF CatchupNext
<1>3. ASSUME ViewerSafe, UNCHANGED catchupVars PROVE ViewerSafe'
    BY <1>3 DEF ViewerSafe, ViewersLackOnlyUnsent, FullSlotHoldsAll, catchupVars, l2Vars, streamVars, viewerVars
<1>4. ViewerSafe => ViewersLackOnlyUnsent
    BY DEF ViewerSafe
<1> QED BY <1>1, <1>2, <1>3, <1>4, CatchupTypeCorrect, PTL DEF CatchupSpec


-----------------------------------------------------------------------------
\* Induction and recursion over the natural numbers, for sets and functions.

\* A set of naturals has a least element.
LEMMA LeastNat ==
    ASSUME NEW S \in SUBSET Nat, S # {}
    PROVE  \E m \in S : \A k \in S : m <= k
<1> DEFINE R == OpToRel(<, Nat)
<1>1. IsWellFoundedOn(R, Nat)
    BY NatLessThanWellFounded
<1>2. \A x, y \in Nat : y < x => <<y, x>> \in R
    BY DEF OpToRel
<1> HIDE DEF R
<1>3. PICK x \in S : \A y \in S : ~ (<<y, x>> \in R)
    BY <1>1, WFMin
<1>4. \A y \in S : x <= y
    <2> TAKE y \in S
    <2>1. x \in Nat /\ y \in Nat /\ ~(y < x)
        BY <1>2, <1>3
    <2> QED BY <2>1
<1> QED BY <1>4

\* A set that holds 0 and with every number the next holds them all.
LEMMA AllNats ==
    ASSUME NEW S, 0 \in S, \A m \in Nat : m \in S => m + 1 \in S
    PROVE  \A m \in Nat : m \in S
<1> SUFFICES ASSUME NEW m \in Nat, m \notin S PROVE FALSE
    OBVIOUS
<1> DEFINE T == {k \in Nat : k \notin S}
<1>1. T \in SUBSET Nat /\ T # {}
    OBVIOUS
<1>2. PICK l \in T : \A k \in T : l <= k
    BY <1>1, LeastNat
<1>3. l \in Nat /\ l \notin S /\ l # 0
    BY <1>2
<1>4. l - 1 \in Nat /\ l - 1 \notin T
    BY <1>2, <1>3
<1> QED BY <1>3, <1>4

\* g is the first m steps of h from b.
StepsOf(g, m, b, h) == g = [k \in 0..m |-> IF k = 0 THEN b ELSE h[<<g[k - 1], k>>]]

\* What is defined step by step up to a number exists.
LEMMA StepsExist ==
    ASSUME NEW b, NEW h
    PROVE  \A m \in Nat : \E g : StepsOf(g, m, b, h)
<1> DEFINE S == {m \in Nat : \E g : StepsOf(g, m, b, h)}
<1>1. 0 \in S
    <2> DEFINE g == [k \in 0..0 |-> b]
    <2>1. StepsOf(g, 0, b, h)
        BY DEF StepsOf
    <2> QED BY <2>1
<1>2. ASSUME NEW m \in Nat, m \in S PROVE m + 1 \in S
    <2>1. PICK g : StepsOf(g, m, b, h)
        BY <1>2
    <2> DEFINE f == [k \in 0..(m + 1) |-> IF k <= m THEN g[k] ELSE h[<<g[m], m + 1>>]]
    <2>2. \A k \in 0..m : g[k] = IF k = 0 THEN b ELSE h[<<g[k - 1], k>>]
        BY <2>1 DEF StepsOf
    <2>3. \A k \in 0..m : f[k] = g[k]
        OBVIOUS
    <2>4. f[m + 1] = h[<<g[m], m + 1>>]
        OBVIOUS
    <2>5. ASSUME NEW k \in 0..(m + 1) PROVE f[k] = IF k = 0 THEN b ELSE h[<<f[k - 1], k>>]
        <3>1. CASE k = 0
            <4>1. 0 \in 0..m
                OBVIOUS
            <4>2. g[0] = b
                BY <2>2, <4>1
            <4>3. f[0] = b
                BY <2>3, <4>1, <4>2
            <4> HIDE DEF f
            <4> QED BY <3>1, <4>3
        <3>2. CASE k \in 1..m
            <4>1. k \in 0..m /\ k - 1 \in 0..m /\ k # 0
                BY <3>2
            <4>2. f[k] = g[k] /\ f[k - 1] = g[k - 1]
                BY <2>3, <4>1
            <4>3. g[k] = h[<<g[k - 1], k>>]
                BY <2>2, <4>1
            <4> HIDE DEF f
            <4> QED BY <4>1, <4>2, <4>3
        <3>3. CASE k = m + 1
            <4>1. k # 0 /\ k - 1 = m /\ m \in 0..m
                BY <3>3
            <4>2. f[k - 1] = g[m]
                BY <2>3, <4>1
            <4> HIDE DEF f
            <4> QED BY <2>4, <3>3, <4>1, <4>2
        <3> QED BY <3>1, <3>2, <3>3
    <2>6. f = [k \in 0..(m + 1) |-> IF k = 0 THEN b ELSE h[<<f[k - 1], k>>]]
        <3>1. f = [k \in 0..(m + 1) |-> f[k]]
            OBVIOUS
        <3> HIDE DEF f
        <3> QED BY <2>5, <3>1
    <2>7. StepsOf(f, m + 1, b, h)
        BY <2>6 DEF StepsOf
    <2> HIDE DEF f
    <2> QED BY <2>7
<1> HIDE DEF S
<1>3. \A m \in Nat : m \in S
    BY <1>1, <1>2, AllNats
<1> QED BY <1>3 DEF S

\* What holds of the first step, and of each with the one before, holds of the last.
LEMMA StepsKeep ==
    ASSUME NEW m \in Nat, NEW g, NEW P, g[0] \in P,
           \A k \in 0..(m - 1) : g[k] \in P => g[k + 1] \in P
    PROVE  \A k \in 0..m : g[k] \in P
<1> DEFINE S == {k \in Nat : k <= m => g[k] \in P}
<1>1. 0 \in S
    OBVIOUS
<1>2. ASSUME NEW k \in Nat, k \in S PROVE k + 1 \in S
    <2> SUFFICES ASSUME k + 1 <= m PROVE g[k + 1] \in P
        OBVIOUS
    <2>1. k \in 0..(m - 1) /\ k <= m
        OBVIOUS
    <2> QED BY <1>2, <2>1
<1> HIDE DEF S
<1>3. \A k \in Nat : k \in S
    BY <1>1, <1>2, AllNats
<1> QED BY <1>3 DEF S
-----------------------------------------------------------------------------
(* The event stream: lines end to end. *)

\* acc adds the rows up, one by one.
Adds(acc, rows, T) ==
    /\ acc \in [0..Len(rows) -> Seq(T)] /\ acc[0] = <<>>
    /\ \A k \in 1..Len(rows) : acc[k] = acc[k - 1] \o rows[k]

\* Rows can be added up.
LEMMA AddsExist ==
    ASSUME NEW T, NEW rows \in Seq(Seq(T))
    PROVE  \E acc : Adds(acc, rows, T)
<1> DEFINE n == Len(rows)
           h == [p \in Seq(T) \X Nat |-> IF p[2] \in 1..n THEN p[1] \o rows[p[2]] ELSE p[1]]
<1>0. n \in Nat /\ \A k \in 1..n : rows[k] \in Seq(T)
    OBVIOUS
<1> HIDE DEF n
<1>1. PICK g : StepsOf(g, n, <<>>, h)
    BY <1>0, StepsExist
<1>2. \A k \in 0..n : g[k] = IF k = 0 THEN <<>> ELSE h[<<g[k - 1], k>>]
    BY <1>1 DEF StepsOf
<1>3. \A v \in Seq(T), k \in 1..n : h[<<v, k>>] = v \o rows[k]
    <2> TAKE v \in Seq(T), k \in 1..n
    <2>1. <<v, k>> \in Seq(T) \X Nat /\ <<v, k>>[1] = v /\ <<v, k>>[2] = k
        BY <1>0
    <2>2. h[<<v, k>>] = IF <<v, k>>[2] \in 1..n THEN <<v, k>>[1] \o rows[<<v, k>>[2]]
                        ELSE <<v, k>>[1]
        BY <2>1
    <2> QED BY <2>1, <2>2
<1> HIDE DEF h
<1>4. g[0] = <<>>
    <2>1. 0 \in 0..n
        BY <1>0
    <2> QED BY <1>2, <2>1
<1>5. ASSUME NEW k \in 0..(n - 1), g[k] \in Seq(T)
      PROVE  g[k + 1] = g[k] \o rows[k + 1] /\ g[k + 1] \in Seq(T)
    <2>1. k + 1 \in 1..n /\ k + 1 \in 0..n /\ (k + 1) - 1 = k /\ k + 1 # 0
        BY <1>0
    <2>2. g[k + 1] = h[<<g[k], k + 1>>]
        BY <1>2, <2>1
    <2>3. g[k + 1] = g[k] \o rows[k + 1]
        BY <1>3, <1>5, <2>1, <2>2
    <2>4. rows[k + 1] \in Seq(T)
        BY <1>0, <2>1
    <2> QED BY <1>5, <2>3, <2>4, ConcatProperties
<1>6. \A k \in 0..n : g[k] \in Seq(T)
    <2> DEFINE P == Seq(T)
    <2>0. <<>> \in P
        OBVIOUS
    <2>1. g[0] \in P /\ \A k \in 0..(n - 1) : g[k] \in P => g[k + 1] \in P
        BY <1>4, <1>5, <2>0
    <2> HIDE DEF P
    <2>2. \A k \in 0..n : g[k] \in P
        BY <1>0, <2>1, StepsKeep
    <2> QED BY <2>2 DEF P
<1>7. ASSUME NEW k \in 1..n PROVE g[k] = g[k - 1] \o rows[k]
    <2>1. k - 1 \in 0..(n - 1) /\ k - 1 \in 0..n /\ (k - 1) + 1 = k
        BY <1>0
    <2> QED BY <1>5, <1>6, <2>1
<1>8. DOMAIN g = 0..n
    BY <1>1 DEF StepsOf
<1>9. g \in [0..n -> Seq(T)]
    <2>1. g = [k \in 0..n |-> g[k]]
        BY <1>1 DEF StepsOf
    <2> QED BY <1>6, <2>1
<1>10. Adds(g, rows, T)
    BY <1>4, <1>7, <1>9 DEF Adds, n
<1> QED BY <1>10

\* Where rows agree, what they add up to agrees.
LEMMA AddsAgree ==
    ASSUME NEW T, NEW a, NEW b, NEW f, NEW g, Adds(f, a, T), Adds(g, b, T),
           Len(a) \in Nat, Len(b) \in Nat,
           NEW m \in Nat, m <= Len(a), m <= Len(b), \A k \in 1..m : a[k] = b[k]
    PROVE  \A k \in 0..m : f[k] = g[k]
<1> DEFINE S == {k \in Nat : k <= m => f[k] = g[k]}
<1>1. 0 \in S
    BY DEF Adds
<1>2. ASSUME NEW k \in Nat, k \in S PROVE k + 1 \in S
    <2> SUFFICES ASSUME k + 1 <= m PROVE f[k + 1] = g[k + 1]
        OBVIOUS
    <2>1. k + 1 \in 1..m /\ k + 1 \in 1..Len(a) /\ k + 1 \in 1..Len(b) /\ (k + 1) - 1 = k /\ k <= m
        OBVIOUS
    <2>2. f[k] = g[k] /\ a[k + 1] = b[k + 1]
        BY <1>2, <2>1
    <2>3. f[k + 1] = f[k] \o a[k + 1] /\ g[k + 1] = g[k] \o b[k + 1]
        BY <2>1 DEF Adds
    <2> QED BY <2>2, <2>3
<1> HIDE DEF S
<1>3. \A k \in Nat : k \in S
    BY <1>1, <1>2, AllNats
<1> QED BY <1>3 DEF S

\* FlattenSeq is the sum of the rows.
LEMMA FlattenAdds ==
    ASSUME NEW T, NEW rows \in Seq(Seq(T)), NEW acc, Adds(acc, rows, T)
    PROVE  FlattenSeq(rows) = acc[Len(rows)] /\ FlattenSeq(rows) \in Seq(T)
<1>0. Len(rows) \in Nat /\ \A k \in 1..Len(rows) : rows[k] \in Seq(T)
    OBVIOUS
<1>1. acc[Len(rows)] \in Seq(T)
    BY <1>0 DEF Adds
<1>2. CASE Len(rows) = 0
    <2>1. FlattenSeq(rows) = rows /\ rows = <<>>
        BY <1>2 DEF FlattenSeq
    <2> QED BY <1>1, <1>2, <2>1 DEF Adds
<1>3. CASE Len(rows) # 0
    <2> DEFINE n == Len(rows)
               Steps(g) == g = [i \in 1..Len(rows) |-> IF i = 1 THEN rows[i] ELSE g[i - 1] \o rows[i]]
               flatten == CHOOSE g : Steps(g)
               f == [i \in 1..Len(rows) |-> acc[i]]
    <2>0. acc[0] = <<>> /\ \A k \in 1..Len(rows) : acc[k] = acc[k - 1] \o rows[k]
        BY DEF Adds
    <2>1. ASSUME NEW i \in 1..Len(rows) PROVE f[i] = IF i = 1 THEN rows[i] ELSE f[i - 1] \o rows[i]
        <3>1. acc[i] = acc[i - 1] \o rows[i] /\ f[i] = acc[i]
            BY <2>0
        <3>2. CASE i = 1
            <4>1. <<>> \o rows[i] = rows[i]
                BY <1>0, ConcatEmptySeq
            <4>2. acc[i - 1] = <<>>
                BY <2>0, <3>2
            <4> QED BY <3>1, <3>2, <4>1, <4>2
        <3>3. CASE i # 1
            <4>1. i - 1 \in 1..Len(rows)
                BY <1>0, <3>3
            <4>2. f[i - 1] = acc[i - 1]
                BY <4>1
            <4> HIDE DEF f
            <4> QED BY <3>1, <3>3, <4>2
        <3> QED BY <3>2, <3>3
    <2>2. f = [i \in 1..Len(rows) |-> f[i]]
        OBVIOUS
    <2> HIDE DEF f
    <2>3. Steps(f)
        BY <2>1, <2>2
    <2>4. FlattenSeq(rows) = flatten[Len(rows)]
        BY <1>3 DEF FlattenSeq
    <2>5. Steps(flatten)
        <3> HIDE DEF Steps
        <3> QED BY <2>3
    <2> HIDE DEF flatten
    <2>6. \A i \in 1..Len(rows) : flatten[i] = IF i = 1 THEN rows[i] ELSE flatten[i - 1] \o rows[i]
        BY <2>5
    <2>7. \A i \in 1..Len(rows) : acc[i] = IF i = 1 THEN rows[i] ELSE acc[i - 1] \o rows[i]
        <3> TAKE i \in 1..Len(rows)
        <3>1. CASE i = 1
            <4>1. <<>> \o rows[i] = rows[i] /\ i - 1 = 0
                BY <1>0, <3>1, ConcatEmptySeq
            <4> QED BY <2>0, <3>1, <4>1
        <3> QED BY <2>0, <3>1
    <2> HIDE DEF Steps
    <2> DEFINE S == {k \in Nat : k + 1 <= n => flatten[k + 1] = acc[k + 1]}
    <2>8. 0 \in S
        <3>1. 1 \in 1..Len(rows)
            BY <1>0, <1>3
        <3> QED BY <2>6, <2>7, <3>1
    <2>9. ASSUME NEW k \in Nat, k \in S PROVE k + 1 \in S
        <3> SUFFICES ASSUME (k + 1) + 1 <= n PROVE flatten[(k + 1) + 1] = acc[(k + 1) + 1]
            OBVIOUS
        <3>1. (k + 1) + 1 \in 1..Len(rows) /\ ((k + 1) + 1) - 1 = k + 1 /\ (k + 1) + 1 # 1 /\ k + 1 <= n
            BY <1>0
        <3>2. flatten[k + 1] = acc[k + 1]
            BY <2>9, <3>1
        <3>3. flatten[(k + 1) + 1] = flatten[k + 1] \o rows[(k + 1) + 1]
            BY <2>6, <3>1
        <3>4. acc[(k + 1) + 1] = acc[k + 1] \o rows[(k + 1) + 1]
            BY <2>7, <3>1
        <3> QED BY <3>2, <3>3, <3>4
    <2> HIDE DEF S
    <2>10. \A k \in Nat : k \in S
        BY <2>8, <2>9, AllNats
    <2>11. n - 1 \in Nat /\ (n - 1) + 1 = n /\ n <= n
        BY <1>0, <1>3
    <2>12. flatten[n] = acc[n]
        BY <2>10, <2>11 DEF S
    <2> QED BY <1>1, <2>4, <2>12
<1> QED BY <1>2, <1>3

\* w is x and then y.
Join(w, x, y) == w = x \o y

\* Concatenation is associative.
LEMMA ConcatGroups ==
    ASSUME NEW T, NEW x \in Seq(T), NEW y \in Seq(T), NEW z \in Seq(T),
           NEW xy, Join(xy, x, y), NEW yz, Join(yz, y, z), NEW w, Join(w, xy, z)
    PROVE  Join(w, x, yz)
<1>1. (x \o y) \o z = x \o (y \o z)
    BY ConcatAssociative
<1> QED BY <1>1 DEF Join

\* The lines of two sequences of lines, one after the other.
LEMMA FlattenConcat ==
    ASSUME NEW T, NEW a \in Seq(Seq(T)), NEW b \in Seq(Seq(T))
    PROVE  FlattenSeq(a \o b) = FlattenSeq(a) \o FlattenSeq(b)
<1>0. Len(a) \in Nat /\ Len(b) \in Nat /\ \A k \in 1..Len(b) : b[k] \in Seq(T)
    OBVIOUS
<1> DEFINE c == a \o b
<1>1. /\ c \in Seq(Seq(T)) /\ Len(c) = Len(a) + Len(b)
      /\ \A k \in 1..Len(a) : c[k] = a[k]
      /\ \A k \in 1..Len(b) : c[Len(a) + k] = b[k]
    BY <1>0, ConcatProperties
<1> HIDE DEF c
<1>2. PICK f : Adds(f, a, T)
    BY AddsExist
<1>3. PICK g : Adds(g, b, T)
    BY AddsExist
<1>4. PICK h : Adds(h, c, T)
    BY <1>1, AddsExist
<1>5. FlattenSeq(a) = f[Len(a)] /\ FlattenSeq(a) \in Seq(T)
    BY <1>2, FlattenAdds
<1>6. FlattenSeq(b) = g[Len(b)]
    BY <1>3, FlattenAdds
<1>7. FlattenSeq(c) = h[Len(c)]
    BY <1>1, <1>4, FlattenAdds
<1>8. h[Len(a)] = f[Len(a)]
    <2>1. \A k \in 1..Len(a) : a[k] = c[k]
        BY <1>1
    <2>2. Len(c) \in Nat /\ Len(a) <= Len(a) /\ Len(a) <= Len(c)
        BY <1>0, <1>1
    <2>3. \A k \in 0..Len(a) : f[k] = h[k]
        BY <1>0, <1>2, <1>4, <2>1, <2>2, AddsAgree
    <2>4. Len(a) \in 0..Len(a)
        BY <1>0
    <2> QED BY <2>3, <2>4
<1> DEFINE Good(k) == h[Len(a) + k] = f[Len(a)] \o g[k]
           S == {k \in Nat : k <= Len(b) => Good(k)}
<1>9. 0 \in S
    <2>1. f[Len(a)] \o <<>> = f[Len(a)]
        BY <1>5, ConcatEmptySeq
    <2>2. g[0] = <<>> /\ Len(a) + 0 = Len(a)
        BY <1>0, <1>3 DEF Adds
    <2>3. Good(0)
        BY <1>8, <2>1, <2>2
    <2> HIDE DEF Good
    <2> QED BY <2>3
<1>10. ASSUME NEW k \in Nat, k \in S PROVE k + 1 \in S
    <2> HIDE DEF Good
    <2> SUFFICES ASSUME k + 1 <= Len(b) PROVE Good(k + 1)
        OBVIOUS
    <2>1. /\ k + 1 \in 1..Len(b) /\ (k + 1) - 1 = k /\ k <= Len(b) /\ k \in 0..Len(b)
          /\ Len(a) + (k + 1) \in 1..Len(c) /\ (Len(a) + (k + 1)) - 1 = Len(a) + k
        <3>1. Len(a) \in Nat /\ Len(b) \in Nat /\ Len(c) = Len(a) + Len(b)
            BY <1>0, <1>1
        <3> QED BY <3>1
    <2>2. h[Len(a) + k] = f[Len(a)] \o g[k]
        <3>1. Good(k)
            BY <1>10, <2>1
        <3> QED BY <3>1 DEF Good
    <2>3. h[Len(a) + (k + 1)] = h[Len(a) + k] \o c[Len(a) + (k + 1)]
        BY <1>4, <2>1 DEF Adds
    <2>4. c[Len(a) + (k + 1)] = b[k + 1] /\ b[k + 1] \in Seq(T)
        BY <1>0, <1>1, <2>1
    <2>5. g[k + 1] = g[k] \o b[k + 1] /\ g[k] \in Seq(T)
        BY <1>3, <2>1 DEF Adds
    <2>6. Join(h[Len(a) + (k + 1)], f[Len(a)], g[k + 1])
        <3>1. f[Len(a)] \in Seq(T) /\ g[k] \in Seq(T) /\ b[k + 1] \in Seq(T)
            BY <1>5, <2>4, <2>5
        <3>2. Join(h[Len(a) + k], f[Len(a)], g[k])
            BY <2>2 DEF Join
        <3>3. Join(g[k + 1], g[k], b[k + 1])
            BY <2>5 DEF Join
        <3>4. Join(h[Len(a) + (k + 1)], h[Len(a) + k], b[k + 1])
            BY <2>3, <2>4 DEF Join
        <3> QED BY <3>1, <3>2, <3>3, <3>4, ConcatGroups
    <2> QED BY <2>6 DEF Good, Join
<1> HIDE DEF S, Good
<1>11. \A k \in Nat : k \in S
    BY <1>9, <1>10, AllNats
<1>12. h[Len(a) + Len(b)] = f[Len(a)] \o g[Len(b)]
    <2>1. Good(Len(b))
        BY <1>0, <1>11 DEF S
    <2> QED BY <2>1 DEF Good
<1> QED BY <1>1, <1>5, <1>6, <1>7, <1>12 DEF c

\* Nothing, one line, and one line more.
LEMMA FlattenFew ==
    ASSUME NEW T
    PROVE  /\ FlattenSeq(<<>>) = <<>>
           /\ \A x \in Seq(T) : FlattenSeq(<<x>>) = x
           /\ \A s \in Seq(Seq(T)) : FlattenSeq(s) \in Seq(T)
           /\ \A s \in Seq(Seq(T)), x \in Seq(T) : FlattenSeq(Append(s, x)) = FlattenSeq(s) \o x
<1>1. FlattenSeq(<<>>) = <<>>
    BY DEF FlattenSeq
<1>2. ASSUME NEW x \in Seq(T) PROVE FlattenSeq(<<x>>) = x
    <2>1. <<x>> \in Seq(Seq(T)) /\ Len(<<x>>) = 1 /\ <<x>>[1] = x
        OBVIOUS
    <2>2. PICK f : Adds(f, <<x>>, T)
        BY <2>1, AddsExist
    <2>3. FlattenSeq(<<x>>) = f[1]
        BY <2>1, <2>2, FlattenAdds
    <2>4. f[0] = <<>> /\ f[1] = f[1 - 1] \o <<x>>[1]
        <3>1. /\ f[0] = <<>>
              /\ \A k \in 1..Len(<<x>>) : f[k] = f[k - 1] \o <<x>>[k]
            BY <2>2 DEF Adds
        <3>2. 1 \in 1..Len(<<x>>)
            OBVIOUS
        <3> QED BY <3>1, <3>2
    <2>5. <<>> \o x = x /\ 1 - 1 = 0
        BY ConcatEmptySeq
    <2> QED BY <2>1, <2>3, <2>4, <2>5
<1>3. ASSUME NEW s \in Seq(Seq(T)) PROVE FlattenSeq(s) \in Seq(T)
    <2>1. PICK f : Adds(f, s, T)
        BY AddsExist
    <2> QED BY <2>1, FlattenAdds
<1>4. ASSUME NEW s \in Seq(Seq(T)), NEW x \in Seq(T) PROVE FlattenSeq(Append(s, x)) = FlattenSeq(s) \o x
    <2>1. <<x>> \in Seq(Seq(T))
        OBVIOUS
    <2>2. Append(s, x) = s \o <<x>>
        BY AppendIsConcat
    <2>3. FlattenSeq(s \o <<x>>) = FlattenSeq(s) \o FlattenSeq(<<x>>)
        BY <2>1, FlattenConcat
    <2> QED BY <1>2, <2>2, <2>3
<1> QED BY <1>1, <1>2, <1>3, <1>4

\* The lines sent completely, where n units are sent.
SentWhole(pend, n, k) ==
    /\ k \in 0..Len(pend) /\ Weight(SubSeq(pend, 1, k)) <= n
    /\ k = Len(pend) \/ Weight(SubSeq(pend, 1, k + 1)) > n

\* The first k lines and the others.
LEMMA LinesSplit ==
    ASSUME NEW T, NEW s \in Seq(Seq(T)), NEW k \in 0..Len(s)
    PROVE  /\ SubSeq(s, 1, k) \in Seq(Seq(T)) /\ SubSeq(s, k + 1, Len(s)) \in Seq(Seq(T))
           /\ s = SubSeq(s, 1, k) \o SubSeq(s, k + 1, Len(s))
           /\ Len(SubSeq(s, k + 1, Len(s))) = Len(s) - k
<1> DEFINE U == Seq(T)
<1>1. s \in Seq(U) /\ Len(s) \in Nat /\ \A i \in 1..Len(s) : s[i] \in U
    OBVIOUS
<1> HIDE DEF U
<1>2. SubSeq(s, 1, k) \in Seq(U)
    BY <1>1, SubSeqProperties
<1>3. SubSeq(s, k + 1, Len(s)) \in Seq(U) /\ Len(SubSeq(s, k + 1, Len(s))) = Len(s) - k
    BY <1>1, SubSeqProperties
<1>4. SubSeq(s, 1, k) \o SubSeq(s, k + 1, Len(s)) = s
    <2>1. 1 \in 1..(Len(s) + 1) /\ k \in (1 - 1)..Len(s) /\ Len(s) \in k..Len(s)
        BY <1>1
    <2>2. SubSeq(s, 1, k) \o SubSeq(s, k + 1, Len(s)) = SubSeq(s, 1, Len(s))
        BY <1>1, <2>1, ConcatAdjacentSubSeq
    <2>3. SubSeq(s, 1, Len(s)) = s
        BY <1>1, SubSeqFull
    <2> QED BY <2>2, <2>3
<1> QED BY <1>2, <1>3, <1>4 DEF U

\* The number of lines sent completely exists.
LEMMA SentWholeExists ==
    ASSUME NEW T, NEW s \in Seq(Seq(T)), NEW n \in Nat
    PROVE  \E k \in 0..Len(s) : SentWhole(s, n, k)
<1> DEFINE Fits(k) == Weight(SubSeq(s, 1, k)) <= n
           S == {k \in Nat : k > Len(s) \/ ~Fits(k)}
<1>0. Len(s) \in Nat /\ Len(s) + 1 \in Nat /\ Len(s) + 1 > Len(s)
    OBVIOUS
<1>1. Fits(0)
    <2>1. SubSeq(s, 1, 0) = <<>>
        BY SubSeqEmpty
    <2>2. FlattenSeq(<<>>) = <<>> /\ Len(<<>>) = 0
        BY FlattenFew
    <2>3. Weight(SubSeq(s, 1, 0)) = Len(FlattenSeq(SubSeq(s, 1, 0)))
        BY DEF Weight
    <2>4. Weight(SubSeq(s, 1, 0)) = 0
        BY <2>1, <2>2, <2>3
    <2> QED BY <2>4
<1>5. \A k \in 0..Len(s) : Weight(SubSeq(s, 1, k)) \in Nat
    <2> TAKE k \in 0..Len(s)
    <2>1. SubSeq(s, 1, k) \in Seq(Seq(T))
        BY LinesSplit
    <2>2. FlattenSeq(SubSeq(s, 1, k)) \in Seq(T)
        BY <2>1, FlattenFew
    <2> QED BY <2>2 DEF Weight
<1> HIDE DEF Fits
<1>2. S \in SUBSET Nat /\ S # {}
    BY <1>0
<1>3. PICK m \in S : \A k \in S : m <= k
    BY <1>2, LeastNat
<1>4. m \in Nat /\ m # 0 /\ (m > Len(s) \/ ~Fits(m))
    BY <1>0, <1>1, <1>3
<1> DEFINE k == m - 1
<1>6. k \in Nat /\ k + 1 = m /\ k \notin S
    BY <1>3, <1>4
<1>7. k \in 0..Len(s) /\ Fits(k)
    BY <1>0, <1>6
<1>8. k = Len(s) \/ ~Fits(k + 1)
    BY <1>0, <1>4, <1>6, <1>7
<1>9. k = Len(s) \/ (k + 1 \in 0..Len(s) /\ ~Fits(k + 1))
    BY <1>0, <1>7, <1>8
<1> HIDE DEF k, S
<1>10. k = Len(s) \/ Weight(SubSeq(s, 1, k + 1)) > n
    <2>1. CASE k + 1 \in 0..Len(s) /\ ~Fits(k + 1)
        <3>1. Weight(SubSeq(s, 1, k + 1)) \in Nat
            BY <1>5, <2>1
        <3>2. ~(Weight(SubSeq(s, 1, k + 1)) <= n)
            BY <2>1 DEF Fits
        <3> QED BY <3>1, <3>2
    <2> QED BY <1>9, <2>1
<1>11. SentWhole(s, n, k)
    BY <1>7, <1>10 DEF Fits, SentWhole
<1> QED BY <1>7, <1>11

\* A sequence begins with what it is made of.
LEMMA BeginsWith ==
    ASSUME NEW T, NEW x \in Seq(T), NEW y \in Seq(T)
    PROVE  SubSeq(x \o y, 1, Len(x)) = x
<1>1. CASE x = <<>>
    <2>1. Len(x) = 0
        BY <1>1
    <2>2. SubSeq(x \o y, 1, 0) = <<>>
        BY SubSeqEmpty
    <2> QED BY <1>1, <2>1, <2>2
<1>2. CASE x # <<>>
    <2>1. Len(x) \in Nat \ {0}
        BY <1>2, EmptySeq
    <2>2. 1 \in 1..Len(x) /\ Len(x) \in 1..Len(x)
        BY <2>1
    <2>3. SubSeq(x \o y, 1, Len(x)) = SubSeq(x, 1, Len(x))
        BY <2>2, SubSeqOfConcat1
    <2>4. SubSeq(x, 1, Len(x)) = x
        BY SubSeqFull
    <2> QED BY <2>3, <2>4
<1> QED BY <1>1, <1>2

\* What is sent and what is kept is what there was: a line sent in part is
\* continued where it stopped.
LEMMA UnsentContinues ==
    ASSUME NEW T, NEW pend \in Seq(Seq(T)), NEW n \in 0..Weight(pend)
    PROVE  /\ Unsent(pend, n) \in Seq(Seq(T))
           /\ SubSeq(FlattenSeq(pend), 1, n) \in Seq(T)
           /\ Join(FlattenSeq(pend), SubSeq(FlattenSeq(pend), 1, n), FlattenSeq(Unsent(pend, n)))
<1> DEFINE whole == CHOOSE k \in 0..Len(pend) :
                      /\ Weight(SubSeq(pend, 1, k)) <= n
                      /\ k = Len(pend) \/ Weight(SubSeq(pend, 1, k + 1)) > n
           first == SubSeq(pend, 1, whole)
           rest == SubSeq(pend, whole + 1, Len(pend))
           part == n - Weight(first)
           all == FlattenSeq(pend)
           A == FlattenSeq(first)
           R == FlattenSeq(rest)
<1>1. Unsent(pend, n) = IF rest = <<>> \/ part = 0 THEN rest
                        ELSE <<SubSeq(Head(rest), part + 1, Len(Head(rest)))>> \o Tail(rest)
    BY DEF Unsent
<1>2. all \in Seq(T) /\ Weight(pend) = Len(all) /\ Len(all) \in Nat /\ n \in Nat
    <2>1. all \in Seq(T)
        BY FlattenFew
    <2>2. Weight(pend) = Len(all)
        BY DEF Weight
    <2> QED BY <2>1, <2>2
<1>3. \E k \in 0..Len(pend) : /\ Weight(SubSeq(pend, 1, k)) <= n
                              /\ k = Len(pend) \/ Weight(SubSeq(pend, 1, k + 1)) > n
    BY <1>2, SentWholeExists DEF SentWhole
<1>4. /\ whole \in 0..Len(pend) /\ Weight(SubSeq(pend, 1, whole)) <= n
      /\ whole = Len(pend) \/ Weight(SubSeq(pend, 1, whole + 1)) > n
    BY <1>3
<1> HIDE DEF whole
<1>5. /\ first \in Seq(Seq(T)) /\ rest \in Seq(Seq(T)) /\ pend = first \o rest
      /\ Len(rest) = Len(pend) - whole
    BY <1>4, LinesSplit
<1>6. A \in Seq(T) /\ R \in Seq(T) /\ Weight(first) = Len(A) /\ Len(A) \in Nat
    <2>1. A \in Seq(T) /\ R \in Seq(T)
        BY <1>5, FlattenFew
    <2>2. Weight(first) = Len(A)
        BY DEF Weight
    <2> QED BY <2>1, <2>2
<1>7. all = A \o R
    BY <1>5, FlattenConcat
<1>8. Len(A) <= n /\ part = n - Len(A) /\ part \in Nat /\ Len(pend) \in Nat /\ Len(all) = Len(A) + Len(R)
    <2>1. Len(A) <= n /\ part = n - Len(A)
        BY <1>4, <1>6
    <2>2. part \in Nat
        BY <1>2, <1>6, <2>1
    <2>3. Len(all) = Len(A) + Len(R)
        BY <1>6, <1>7, ConcatProperties
    <2> QED BY <2>1, <2>2, <2>3
<1> HIDE DEF first, rest, part, all, A, R
<1>9. CASE rest = <<>>
    <2>1. R = <<>> /\ Unsent(pend, n) = <<>>
        BY <1>1, <1>9, FlattenFew DEF R
    <2>2. n = Len(all)
        <3>1. Len(R) = 0
            BY <2>1
        <3>2. n <= Len(all)
            BY <1>2
        <3> QED BY <1>2, <1>6, <1>8, <3>1, <3>2
    <2>3. SubSeq(all, 1, n) = all
        BY <1>2, <2>2, SubSeqFull
    <2>4. FlattenSeq(Unsent(pend, n)) = <<>> /\ <<>> \in Seq(Seq(T))
        BY <2>1, FlattenFew
    <2>5. all \o <<>> = all
        BY <1>2, ConcatEmptySeq
    <2> QED BY <1>2, <2>1, <2>3, <2>4, <2>5 DEF Join, all
<1>10. CASE rest # <<>> /\ part = 0
    <2>1. Unsent(pend, n) = rest
        BY <1>1, <1>10
    <2>2. n = Len(A)
        BY <1>2, <1>6, <1>8, <1>10
    <2>3. SubSeq(all, 1, n) = A
        BY <1>6, <1>7, <2>2, BeginsWith
    <2> QED BY <1>5, <1>6, <1>7, <2>1, <2>3 DEF Join, all, R
<1>11. CASE rest # <<>> /\ part # 0
    <2> DEFINE line == Head(rest)
               others == Tail(rest)
               begin == SubSeq(line, 1, part)
               end == SubSeq(line, part + 1, Len(line))
               O == FlattenSeq(others)
    <2>1. line \in Seq(T) /\ others \in Seq(Seq(T)) /\ rest = <<line>> \o others
        BY <1>5, <1>11
    <2>2. whole < Len(pend) /\ whole + 1 \in 1..Len(pend)
        <3>1. Len(rest) # 0
            BY <1>5, <1>11
        <3> QED BY <1>4, <1>5, <1>8, <3>1
    <2>3. line = pend[whole + 1]
        <3> DEFINE U == Seq(T)
        <3>1. pend \in Seq(U) /\ whole + 1 \in 1..Len(pend) /\ Len(pend) \in (whole + 1)..Len(pend)
            BY <1>8, <2>2
        <3> HIDE DEF U
        <3> QED BY <3>1, HeadTailOfSubSeq DEF rest
    <2>4. Weight(SubSeq(pend, 1, whole + 1)) = Len(A) + Len(line)
        <3> DEFINE U == Seq(T)
        <3>1. pend \in Seq(U) /\ 1 \in 1..Len(pend) /\ whole + 1 \in 1..Len(pend) /\ (whole + 1) - 1 = whole
            BY <1>4, <1>8, <2>2
        <3> HIDE DEF U
        <3>2. SubSeq(pend, 1, whole + 1) = SubSeq(pend, 1, (whole + 1) - 1) \o <<pend[whole + 1]>>
            BY <3>1, SubSeqRecursiveSecond
        <3>3. SubSeq(pend, 1, whole + 1) = first \o <<line>>
            BY <2>3, <3>1, <3>2 DEF first
        <3>4. <<line>> \in Seq(Seq(T))
            BY <2>1
        <3>5. FlattenSeq(first \o <<line>>) = FlattenSeq(first) \o FlattenSeq(<<line>>)
            BY <1>5, <3>4, FlattenConcat
        <3>6. FlattenSeq(<<line>>) = line
            BY <2>1, FlattenFew
        <3>7. FlattenSeq(SubSeq(pend, 1, whole + 1)) = A \o line
            BY <3>3, <3>5, <3>6 DEF A
        <3>8. Len(A \o line) = Len(A) + Len(line)
            BY <1>6, <2>1, ConcatProperties
        <3> QED BY <3>7, <3>8 DEF Weight
    <2>5. part \in 1..Len(line) /\ Len(line) \in Nat /\ part < Len(line)
        <3>1. Len(line) \in Nat
            BY <2>1
        <3>2. Len(A) + Len(line) > n
            BY <1>4, <1>8, <2>2, <2>4
        <3> QED BY <1>2, <1>6, <1>8, <1>11, <3>1, <3>2
    <2>6. /\ begin \in Seq(T) /\ end \in Seq(T) /\ begin \o end = line /\ Len(begin) = part
        <3> HIDE DEF line
        <3>1. \A i \in 1..Len(line) : line[i] \in T
            BY <2>1
        <3>2. begin \in Seq(T) /\ Len(begin) = part
            BY <2>5, <3>1, SubSeqProperties
        <3>3. end \in Seq(T)
            BY <2>5, <3>1, SubSeqProperties
        <3>4. 1 \in 1..(Len(line) + 1) /\ part \in (1 - 1)..Len(line) /\ Len(line) \in part..Len(line)
            BY <2>5
        <3>5. begin \o end = SubSeq(line, 1, Len(line))
            BY <2>1, <3>4, ConcatAdjacentSubSeq
        <3>6. SubSeq(line, 1, Len(line)) = line
            BY <2>1, SubSeqFull
        <3> QED BY <3>2, <3>3, <3>5, <3>6
    <2>7. Unsent(pend, n) = <<end>> \o others
        BY <1>1, <1>11
    <2>8. O \in Seq(T)
        BY <2>1, FlattenFew
    <2> HIDE DEF line, others, begin, end, O
    <2>9. R = line \o O
        <3>1. <<line>> \in Seq(Seq(T))
            BY <2>1
        <3>2. FlattenSeq(<<line>> \o others) = FlattenSeq(<<line>>) \o FlattenSeq(others)
            BY <2>1, <3>1, FlattenConcat
        <3>3. FlattenSeq(<<line>>) = line
            BY <2>1, FlattenFew
        <3> QED BY <2>1, <3>2, <3>3 DEF R, O
    <2>10. FlattenSeq(Unsent(pend, n)) = end \o O /\ Unsent(pend, n) \in Seq(Seq(T))
        <3>1. <<end>> \in Seq(Seq(T))
            BY <2>6
        <3>2. FlattenSeq(<<end>> \o others) = FlattenSeq(<<end>>) \o FlattenSeq(others)
            BY <2>1, <3>1, FlattenConcat
        <3>3. FlattenSeq(<<end>>) = end
            BY <2>6, FlattenFew
        <3>4. <<end>> \o others \in Seq(Seq(T))
            BY <2>1, <3>1, ConcatProperties
        <3> QED BY <2>7, <3>2, <3>3, <3>4 DEF O
    <2> DEFINE passed == A \o begin
               kept == end \o O
    <2>11. passed \in Seq(T) /\ kept \in Seq(T) /\ Len(passed) = n
        <3>1. passed \in Seq(T) /\ Len(passed) = Len(A) + Len(begin)
            BY <1>6, <2>6, ConcatProperties
        <3>2. kept \in Seq(T)
            BY <2>6, <2>8, ConcatProperties
        <3> QED BY <1>2, <1>6, <1>8, <2>6, <3>1, <3>2
    <2>12. Join(all, passed, kept)
        <3>1. Join(all, A, R)
            BY <1>7 DEF Join
        <3>2. Join(R, line, O) /\ Join(line, begin, end)
            BY <2>6, <2>9 DEF Join
        <3>3. Join(kept, end, O) /\ Join(passed, A, begin)
            BY DEF Join
        <3> HIDE DEF passed, kept
        <3>4. Join(R, begin, kept)
            BY <2>6, <2>8, <3>2, <3>3, ConcatGroups
        <3>5. Join(passed \o kept, passed, kept)
            BY DEF Join
        <3>6. Join(passed \o kept, A, R)
            BY <1>6, <2>6, <2>11, <3>3, <3>4, <3>5, ConcatGroups
        <3>7. all = passed \o kept
            BY <3>1, <3>6 DEF Join
        <3> QED BY <3>7 DEF Join
    <2> HIDE DEF passed, kept
    <2>13. SubSeq(all, 1, n) = passed
        BY <2>11, <2>12, BeginsWith DEF Join
    <2>14. FlattenSeq(Unsent(pend, n)) = kept
        BY <2>10 DEF kept
    <2> QED BY <2>10, <2>11, <2>12, <2>13, <2>14 DEF all
<1> QED BY <1>9, <1>10, <1>11

\* The units of a line: the number of its event and its place in the line.
Unit == Int \X Int

\* The line of an item is two units; what items are sent as are units.
LEMMA BytesAreUnits ==
    /\ \A e \in Items : Whole(e) \in Seq(Unit) /\ Len(Whole(e)) = 2
    /\ \A q \in Seq(Items) : /\ [i \in DOMAIN q |-> Whole(q[i])] \in Seq(Seq(Unit))
                             /\ Len([i \in DOMAIN q |-> Whole(q[i])]) = Len(q)
                             /\ Bytes(q) \in Seq(Unit)
<1> DEFINE L(q) == [i \in DOMAIN q |-> Whole(q[i])]
<1>1. ASSUME NEW e \in Items PROVE Whole(e) \in Seq(Unit) /\ Len(Whole(e)) = 2
    <2>1. e.seq \in Int
        BY EventStreamAssumption DEF Items
    <2>2. <<e.seq, 1>> \in Unit /\ <<e.seq, 2>> \in Unit
        BY <2>1 DEF Unit
    <2> HIDE DEF Unit
    <2> QED BY <2>2 DEF Whole
<1>2. ASSUME NEW q \in Seq(Items) PROVE L(q) \in Seq(Seq(Unit)) /\ Len(L(q)) = Len(q)
    <2> DEFINE U == Seq(Unit)
    <2>1. Len(q) \in Nat /\ DOMAIN q = 1..Len(q) /\ \A i \in 1..Len(q) : q[i] \in Items
        OBVIOUS
    <2>2. \A i \in 1..Len(q) : Whole(q[i]) \in U
        BY <1>1, <2>1
    <2>3. L(q) = [i \in 1..Len(q) |-> Whole(q[i])]
        BY <2>1
    <2> HIDE DEF U
    <2>4. L(q) \in [1..Len(q) -> U] /\ DOMAIN L(q) = 1..Len(q)
        BY <2>2, <2>3
    <2> HIDE DEF L
    <2> QED BY <2>1, <2>4, SeqDef DEF U
<1>3. ASSUME NEW q \in Seq(Items) PROVE Bytes(q) \in Seq(Unit)
    <2>1. Bytes(q) = FlattenSeq(L(q))
        BY DEF Bytes
    <2>2. L(q) \in Seq(Seq(Unit))
        BY <1>2
    <2> HIDE DEF L
    <2>3. FlattenSeq(L(q)) \in Seq(Unit)
        BY <2>2, FlattenFew
    <2> QED BY <2>1, <2>3
<1> QED BY <1>1, <1>2, <1>3

\* The bytes of one item more.
LEMMA BytesAppend ==
    ASSUME NEW s \in Seq(Items), NEW it \in Items
    PROVE  Bytes(Append(s, it)) = Bytes(s) \o Whole(it) /\ Bytes(s) \in Seq(Unit)
           /\ Whole(it) \in Seq(Unit) /\ Len(Whole(it)) = 2
<1> DEFINE L(q) == [i \in DOMAIN q |-> Whole(q[i])]
           t == Append(s, it)
<1>1. ASSUME NEW e \in Items PROVE Whole(e) \in Seq(Unit) /\ Len(Whole(e)) = 2
    BY BytesAreUnits
<1>2. ASSUME NEW q \in Seq(Items) PROVE L(q) \in Seq(Seq(Unit)) /\ Len(L(q)) = Len(q)
    BY BytesAreUnits
<1>3. t \in Seq(Items) /\ Len(t) = Len(s) + 1 /\ t[Len(s) + 1] = it /\ \A i \in 1..Len(s) : t[i] = s[i]
    BY AppendProperties
<1>4. L(t) = Append(L(s), Whole(it))
    <2> DEFINE U == Seq(Unit)
               a == L(t)
               b == Append(L(s), Whole(it))
    <2>0. Len(s) \in Nat /\ DOMAIN s = 1..Len(s) /\ DOMAIN t = 1..(Len(s) + 1)
        BY <1>3
    <2>1. a \in Seq(U) /\ Len(a) = Len(s) + 1
        BY <1>2, <1>3
    <2>2. L(s) \in Seq(U) /\ Len(L(s)) = Len(s) /\ Whole(it) \in U
        BY <1>1, <1>2
    <2>3. \A i \in 1..(Len(s) + 1) : a[i] = Whole(t[i])
        BY <2>0
    <2>4. \A i \in 1..Len(s) : L(s)[i] = Whole(s[i])
        BY <2>0
    <2> HIDE DEF U, L, t
    <2>5. b \in Seq(U) /\ Len(b) = Len(s) + 1 /\ b[Len(s) + 1] = Whole(it)
          /\ \A i \in 1..Len(s) : b[i] = L(s)[i]
        BY <2>2, AppendProperties
    <2> HIDE DEF a, b
    <2>6. \A i \in 1..Len(a) : a[i] = b[i]
        <3> TAKE i \in 1..Len(a)
        <3>1. i \in 1..Len(s) \/ i = Len(s) + 1
            BY <2>0, <2>1
        <3>2. CASE i \in 1..Len(s)
            <4>1. a[i] = Whole(t[i]) /\ t[i] = s[i] /\ b[i] = L(s)[i] /\ L(s)[i] = Whole(s[i])
                BY <1>3, <2>0, <2>3, <2>4, <2>5, <3>2
            <4> QED BY <4>1
        <3>3. CASE i = Len(s) + 1
            <4>1. a[i] = Whole(t[i]) /\ t[i] = it /\ b[i] = Whole(it)
                BY <1>3, <2>0, <2>3, <2>5, <3>3
            <4> QED BY <4>1
        <3> QED BY <3>1, <3>2, <3>3
    <2>7. a = b
        BY <2>1, <2>5, <2>6, SeqEqual
    <2> QED BY <2>7 DEF a, b
<1>5. Bytes(t) = FlattenSeq(L(t)) /\ Bytes(s) = FlattenSeq(L(s))
    BY DEF Bytes
<1>6. L(s) \in Seq(Seq(Unit)) /\ Whole(it) \in Seq(Unit) /\ Len(Whole(it)) = 2
    BY <1>1, <1>2
<1> HIDE DEF L, Unit
<1>7. FlattenSeq(Append(L(s), Whole(it))) = FlattenSeq(L(s)) \o Whole(it) /\ FlattenSeq(L(s)) \in Seq(Unit)
    BY <1>6, FlattenFew
<1>8. Bytes(t) = Bytes(s) \o Whole(it) /\ Bytes(s) \in Seq(Unit)
    BY <1>4, <1>5, <1>7
<1> QED BY <1>6, <1>8 DEF t

-----------------------------------------------------------------------------
(* The event stream: the inductive invariant. *)

Busy == writer \in {"serialize", "publish", "chunks", "last chunk", "cache"}

ServerShape ==
    /\ running \in BOOLEAN
    /\ stopper \in {"off", "up", "notify", "joining", "stopped"}
    /\ httpd \in {"off", "loop", "serving", "done"}
    /\ writer \in {"off", "idle", "deciding", "waiting", "serialize",
                   "publish", "chunks", "last chunk", "cache", "done"}

QueueShape ==
    /\ depth \in 1..QueueDepth
    /\ sendq \in Seq(Items) /\ Len(sendq) <= depth
    /\ dropped \subseteq 1..MaxSeq
    /\ item \in Items \cup {None}
    /\ Busy => item \in Items

\* What thread t is doing, when n numbers have been given out.
Producer(p, t, n) ==
    \/ p = Idle
    \/ /\ p.at = "filtered" /\ t = "perception"
       /\ p.full \in BOOLEAN /\ p.cells \in Map /\ p.mark \in 0..MaxTime
    \/ p.at = "assigned" /\ p.item \in Items /\ p.item.by = t /\ p.item.seq <= n

ProducerShape ==
    /\ seq \in 0..MaxSeq
    /\ DOMAIN producer = Threads
    /\ \A t \in Threads : Producer(producer[t], t, seq)

\* The times of observation stay behind the numbers given out, with one more
\* for the Level 1 publication under way.
Filtering(p) == p["perception"].at = "filtered"
MapShape ==
    /\ l1 \in Map /\ l2_published \in BOOLEAN
    /\ watermark \in 0..(MaxTime + 1)
    /\ \A c \in Cells : l1[c] <= seq + (IF Filtering(producer) THEN 2 ELSE 1)

CacheShape ==
    /\ DOMAIN cache = {"planning", "esdf"}
    /\ \A k \in {"planning", "esdf"} : cache[k] \in Items \cup {None}

\* The items of one thread have increasing numbers.
NotAfter(a, b) == a.by = b.by => a.seq <= b.seq
InOrder(s) == \A i, j \in DOMAIN s : i < j => NotAfter(s[i], s[j])

Conns == [st : {"away", "asking", "greeted", "open"},
          pend : Seq(Seq(Unit)), got : Seq(Unit), replay : Seq(Items), owed : Seq(Items),
          since : Nat, clean : BOOLEAN]

\* A connection: its bytes are whole lines in order, and one that is not yet
\* registered has no line of the live stream.
Client(c) ==
    /\ c \in Conns /\ Len(c.pend) <= PendingDepth
    /\ c.st = "away" => c = Away
    /\ c.st = "asking" => c = [Away EXCEPT !.st = "asking"]
    /\ c.st = "greeted" => c.owed = <<>> /\ c.pend = <<>>
    /\ Join(Bytes(c.replay \o c.owed), c.got, FlattenSeq(c.pend))
    /\ InOrder(c.owed)

ClientShape == conn \in [Fds -> Conns] /\ \A f \in Fds : Client(conn[f])

\* a was numbered before b, where they are of one thread.
Earlier(a, b) == a.by = b.by => a.seq < b.seq

\* it was numbered before all that is in queue q, and all that threads p hold
\* and have not queued, when n numbers have been given out.
Behind(it, q, n, p) ==
    /\ it.seq <= n
    /\ \A i \in DOMAIN q : Earlier(it, q[i])
    /\ \A t \in Threads : p[t].at = "assigned" => Earlier(it, p[t].item)

QueueOrder(q, n, p) ==
    /\ \A i, j \in DOMAIN q : i < j => Earlier(q[i], q[j])
    /\ \A i \in DOMAIN q : Behind(q[i], <<>>, n, p)

\* The same of the lines of the connections cn, and of the item it the writer
\* works on if it does.
OwedOrder(cn, q, n, p, busy, it) ==
    \A f \in Fds : \A i \in DOMAIN cn[f].owed :
        Behind(cn[f].owed[i], q, n, p) /\ (busy => NotAfter(cn[f].owed[i], it))

\* Numbers stay in order on the way from the threads to the clients.
NumbersInOrder ==
    /\ QueueOrder(sendq, seq, producer)
    /\ Busy => Behind(item, sendq, seq, producer)
    /\ OwedOrder(conn, sendq, seq, producer, Busy, item)

\* The inductive invariant.
StreamSafe ==
    /\ ServerShape /\ QueueShape /\ ProducerShape /\ MapShape /\ CacheShape
    /\ ClientShape /\ NumbersInOrder

-----------------------------------------------------------------------------
(* What happens to one connection. *)

\* Nothing is whole and in order.
LEMMA AwayIsClient == Client(Away) /\ Client([Away EXCEPT !.st = "asking"])
<1>1. Away \in Conns /\ [Away EXCEPT !.st = "asking"] \in Conns
    <2>1. <<>> \in Seq(Seq(Unit)) /\ <<>> \in Seq(Unit) /\ <<>> \in Seq(Items) /\ 0 \in Nat
        OBVIOUS
    <2> QED BY <2>1 DEF Away, Conns
<1>2. /\ Away.replay = <<>> /\ Away.owed = <<>> /\ Away.got = <<>> /\ Away.pend = <<>> /\ Away.st = "away"
      /\ [Away EXCEPT !.st = "asking"].replay = <<>> /\ [Away EXCEPT !.st = "asking"].owed = <<>>
      /\ [Away EXCEPT !.st = "asking"].got = <<>> /\ [Away EXCEPT !.st = "asking"].pend = <<>>
      /\ [Away EXCEPT !.st = "asking"].st = "asking"
    BY DEF Away
<1>3. Join(Bytes(<<>> \o <<>>), <<>>, FlattenSeq(<<>>))
    <2>1. <<>> \o <<>> = <<>>
        OBVIOUS
    <2>2. FlattenSeq(<<>>) = <<>>
        BY FlattenFew
    <2>3. [i \in DOMAIN <<>> |-> Whole(<<>>[i])] = <<>>
        OBVIOUS
    <2>4. Bytes(<<>>) = <<>>
        BY <2>2, <2>3 DEF Bytes
    <2> QED BY <2>1, <2>2, <2>4 DEF Join
<1>4. InOrder(<<>>) /\ Len(<<>>) <= PendingDepth
    BY EventStreamAssumption DEF InOrder
<1> QED BY <1>1, <1>2, <1>3, <1>4 DEF Client

\* A line joins those the client is owed.
LEMMA OwedAppend ==
    ASSUME NEW r \in Seq(Items), NEW o \in Seq(Items), NEW it \in Items
    PROVE  /\ r \o o \in Seq(Items) /\ Append(o, it) \in Seq(Items)
           /\ r \o Append(o, it) = Append(r \o o, it)
<1>1. r \o o \in Seq(Items) /\ Append(o, it) \in Seq(Items)
    BY ConcatProperties, AppendProperties
<1>2. r \o Append(o, it) = Append(r \o o, it)
    <2> DEFINE I == Items
    <2>1. r \in Seq(I) /\ o \in Seq(I) /\ it \in I
        OBVIOUS
    <2> HIDE DEF I
    <2> QED BY <2>1
<1> QED BY <1>1, <1>2

\* Sending a line to a client closes it or keeps its lines whole: the new one
\* is the last it is owed.
LEMMA SendKeeps ==
    ASSUME NEW c, Client(c), c.st = "open", NEW it \in Items, NEW n \in 0..(Weight(c.pend) + 2),
           \A i \in DOMAIN c.owed : NotAfter(c.owed[i], it)
    PROVE  /\ Client(Send(c, it, n))
           /\ Send(c, it, n) = Away \/ Send(c, it, n).owed = Append(c.owed, it)
<1> DEFINE all == Append(c.pend, Whole(it))
           left == Unsent(all, n)
           pre == SubSeq(FlattenSeq(all), 1, n)
           d == [c EXCEPT !.got = @ \o pre, !.pend = left, !.owed = Append(@, it)]
<1>1. Send(c, it, n) = IF Len(left) > PendingDepth THEN Away ELSE d
    BY DEF Send
<1>2. c \in Conns /\ c.pend \in Seq(Seq(Unit)) /\ c.got \in Seq(Unit)
      /\ c.replay \in Seq(Items) /\ c.owed \in Seq(Items)
    BY DEF Client, Conns
<1>3. Whole(it) \in Seq(Unit) /\ Len(Whole(it)) = 2
    BY <1>2, BytesAppend
<1>4. all \in Seq(Seq(Unit)) /\ FlattenSeq(all) = FlattenSeq(c.pend) \o Whole(it)
      /\ FlattenSeq(c.pend) \in Seq(Unit)
    <2>1. all \in Seq(Seq(Unit))
        BY <1>2, <1>3, AppendProperties
    <2>2. FlattenSeq(all) = FlattenSeq(c.pend) \o Whole(it) /\ FlattenSeq(c.pend) \in Seq(Unit)
        BY <1>2, <1>3, FlattenFew
    <2> QED BY <2>1, <2>2
<1>5. n \in 0..Weight(all)
    <2>1. Len(FlattenSeq(all)) = Len(FlattenSeq(c.pend)) + 2
        <3> DEFINE x == FlattenSeq(c.pend)
                   y == Whole(it)
        <3>1. x \in Seq(Unit) /\ y \in Seq(Unit) /\ Len(y) = 2 /\ FlattenSeq(all) = x \o y
            BY <1>3, <1>4
        <3> HIDE DEF x, y, all
        <3>2. Len(x \o y) = Len(x) + Len(y)
            BY <3>1, ConcatProperties
        <3> QED BY <3>1, <3>2 DEF x
    <2> QED BY <2>1 DEF Weight
<1> HIDE DEF all
<1>6. left \in Seq(Seq(Unit)) /\ pre \in Seq(Unit) /\ Join(FlattenSeq(all), pre, FlattenSeq(left))
    BY <1>4, <1>5, UnsentContinues
<1> HIDE DEF left, pre
<1>7. CASE Len(left) > PendingDepth
    BY <1>1, <1>7, AwayIsClient
<1>8. CASE ~(Len(left) > PendingDepth)
    <2>1. Send(c, it, n) = d
        BY <1>1, <1>8
    <2>2. /\ d.got = c.got \o pre /\ d.pend = left /\ d.owed = Append(c.owed, it)
          /\ d.replay = c.replay /\ d.st = "open"
        BY <1>2 DEF Conns
    <2>3. d.got \in Seq(Unit) /\ d.owed \in Seq(Items)
        <3>1. c.got \o pre \in Seq(Unit)
            BY <1>2, <1>6, ConcatProperties
        <3>2. Append(c.owed, it) \in Seq(Items)
            BY <1>2, OwedAppend
        <3> QED BY <2>2, <3>1, <3>2
    <2>4. d \in Conns
        BY <1>2, <1>6, <2>2, <2>3 DEF Conns
    <2> HIDE DEF d
    <2>5. Len(d.pend) <= PendingDepth
        <3>1. Len(left) \in Nat /\ PendingDepth \in Nat
            BY <1>6, EventStreamAssumption
        <3> QED BY <1>8, <2>2, <3>1
    <2>6. Join(Bytes(d.replay \o d.owed), d.got, FlattenSeq(d.pend))
        <3> DEFINE s == c.replay \o c.owed
                   W == Whole(it)
                   P == FlattenSeq(c.pend)
                   L == FlattenSeq(left)
        <3>1. s \in Seq(Items) /\ d.replay \o d.owed = Append(s, it)
            <4>1. c.replay \o c.owed \in Seq(Items)
                  /\ c.replay \o Append(c.owed, it) = Append(c.replay \o c.owed, it)
                BY <1>2, OwedAppend
            <4> QED BY <2>2, <4>1
        <3>2. Bytes(Append(s, it)) = Bytes(s) \o W /\ Bytes(s) \in Seq(Unit)
            BY <3>1, BytesAppend
        <3>3. Join(Bytes(s), c.got, P)
            BY DEF Client
        <3>4. Join(Bytes(d.replay \o d.owed), Bytes(s), W)
            BY <3>1, <3>2 DEF Join
        <3>5. Join(FlattenSeq(all), P, W)
            BY <1>4 DEF Join
        <3>6. P \in Seq(Unit) /\ W \in Seq(Unit) /\ L \in Seq(Unit)
            <4>1. L \in Seq(Unit)
                BY <1>6, FlattenFew
            <4> QED BY <1>3, <1>4, <4>1
        <3>7. Join(FlattenSeq(all), pre, L)
            BY <1>6
        <3> HIDE DEF s, W, P, L
        <3>8. Join(Bytes(d.replay \o d.owed), c.got, FlattenSeq(all))
            BY <1>2, <3>3, <3>4, <3>5, <3>6, ConcatGroups
        <3>9. Join(d.got \o L, d.got, L) /\ Join(d.got, c.got, pre)
            BY <2>2 DEF Join
        <3>10. Join(d.got \o L, c.got, FlattenSeq(all))
            BY <1>2, <1>6, <3>6, <3>7, <3>9, ConcatGroups
        <3>11. Bytes(d.replay \o d.owed) = d.got \o L
            BY <3>8, <3>10 DEF Join
        <3> QED BY <2>2, <3>11 DEF Join, L
    <2>7. InOrder(d.owed)
        <3> DEFINE o == c.owed
        <3>1. o \in Seq(Items) /\ InOrder(o) /\ \A i \in DOMAIN o : NotAfter(o[i], it)
            BY <1>2 DEF Client
        <3> HIDE DEF o
        <3>2. Len(o) \in Nat /\ DOMAIN o = 1..Len(o) /\ DOMAIN Append(o, it) = 1..(Len(o) + 1)
              /\ Append(o, it)[Len(o) + 1] = it /\ \A i \in 1..Len(o) : Append(o, it)[i] = o[i]
            BY <3>1
        <3>3. ASSUME NEW i \in 1..(Len(o) + 1), NEW j \in 1..(Len(o) + 1), i < j
              PROVE  NotAfter(Append(o, it)[i], Append(o, it)[j])
            <4>1. i \in 1..Len(o) /\ (j \in 1..Len(o) \/ j = Len(o) + 1)
                BY <3>2, <3>3
            <4>2. CASE j \in 1..Len(o)
                <5>1. NotAfter(o[i], o[j])
                    BY <3>1, <3>2, <3>3, <4>1, <4>2 DEF InOrder
                <5> QED BY <3>2, <4>1, <4>2, <5>1
            <4>3. CASE j = Len(o) + 1
                <5>1. NotAfter(o[i], it)
                    BY <3>1, <3>2, <4>1
                <5> QED BY <3>2, <4>1, <4>3, <5>1
            <4> QED BY <4>1, <4>2, <4>3
        <3>4. InOrder(Append(o, it))
            BY <3>2, <3>3 DEF InOrder
        <3> QED BY <2>2, <3>4 DEF o
    <2>8. Client(d)
        BY <2>2, <2>4, <2>5, <2>6, <2>7 DEF Client
    <2> QED BY <2>1, <2>2, <2>8
<1> QED BY <1>7, <1>8

\* What one connection becomes.
LEMMA ClientChange ==
    ASSUME NEW cn \in [Fds -> Conns], \A g \in Fds : Client(cn[g]), NEW f \in Fds, NEW d, Client(d),
           NEW new, new = [cn EXCEPT ![f] = d]
    PROVE  /\ new \in [Fds -> Conns] /\ \A g \in Fds : Client(new[g])
           /\ new[f] = d /\ \A g \in Fds : g # f => new[g] = cn[g]
<1>1. d \in Conns
    BY DEF Client
<1>2. new[f] = d /\ \A g \in Fds : g # f => new[g] = cn[g]
    OBVIOUS
<1>3. new \in [Fds -> Conns]
    BY <1>1
<1> QED BY <1>2, <1>3

\* A connection keeps the lines it is owed or is closed.
OwedKept(new, cn) == \A f \in Fds : new[f].owed = cn[f].owed \/ new[f].owed = <<>>

\* A connection of another state with the same lines.
LEMMA ClientRegistered ==
    ASSUME NEW c, Client(c), NEW d \in Conns, d.st = "open",
           d.pend = c.pend, d.got = c.got, d.replay = c.replay, d.owed = c.owed
    PROVE  Client(d)
BY DEF Client

\* The accept threads and stop() keep every connection sound.
LEMMA AcceptKeeps ==
    ASSUME StreamSafe, stop_join \/ Accepting
    PROVE  ClientShape' /\ OwedKept(conn', conn)
<1> DEFINE Kept == ClientShape' /\ OwedKept(conn', conn)
<1>0. conn \in [Fds -> Conns] /\ \A f \in Fds : Client(conn[f])
    BY DEF StreamSafe, ClientShape
<1>1. ASSUME NEW f \in Fds, NEW d, Client(d), conn' = [conn EXCEPT ![f] = d],
             d.owed = conn[f].owed \/ d.owed = <<>>
      PROVE  Kept
    <2>1. /\ conn' \in [Fds -> Conns] /\ \A g \in Fds : Client(conn'[g])
          /\ conn'[f] = d /\ \A g \in Fds : g # f => conn'[g] = conn[g]
        <3> DEFINE new == conn'
        <3>1. new = [conn EXCEPT ![f] = d]
            BY <1>1
        <3> HIDE DEF new
        <3>2. /\ new \in [Fds -> Conns] /\ \A g \in Fds : Client(new[g])
              /\ new[f] = d /\ \A g \in Fds : g # f => new[g] = conn[g]
            BY <1>0, <1>1, <3>1, ClientChange
        <3> QED BY <3>2 DEF new
    <2>2. OwedKept(conn', conn)
        <3> SUFFICES ASSUME NEW g \in Fds PROVE conn'[g].owed = conn[g].owed \/ conn'[g].owed = <<>>
            BY DEF OwedKept
        <3>1. CASE g = f
            BY <1>1, <2>1, <3>1
        <3>2. CASE g # f
            BY <2>1, <3>2
        <3> QED BY <3>1, <3>2
    <2>3. ClientShape'
        BY <2>1 DEF ClientShape
    <2> QED BY <2>2, <2>3
<1>2. CASE stop_join
    <2>1. \A f \in Fds : conn'[f] = Away
        BY <1>2 DEF stop_join
    <2>2. Client(Away) /\ Away \in Conns /\ Away.owed = <<>>
        BY AwayIsClient DEF Client, Away
    <2>3. conn' \in [Fds -> Conns]
        BY <1>2, <2>2 DEF stop_join
    <2> QED BY <2>1, <2>2, <2>3 DEF ClientShape, OwedKept
<1>3. CASE http_loop_exit
    <2>1. conn' = conn
        BY <1>3 DEF http_loop_exit
    <2> QED BY <1>0, <2>1 DEF ClientShape, OwedKept
<1>4. seq \in Nat
    BY EventStreamAssumption DEF StreamSafe, ProducerShape
<1>5. ASSUME NEW f \in Fds, accept_client(f) PROVE Kept
    <2> DEFINE c == conn[f]
               d == [c EXCEPT !.st = "open", !.since = seq]
    <2>1. c \in Conns /\ Client(c)
        BY <1>0
    <2>2. conn' = [conn EXCEPT ![f] = d]
        BY <1>5 DEF accept_client
    <2> HIDE DEF c
    <2>3. d \in Conns /\ d.st = "open" /\ d.pend = c.pend /\ d.got = c.got /\ d.replay = c.replay
          /\ d.owed = c.owed
        BY <1>4, <2>1 DEF Conns
    <2> HIDE DEF d
    <2>4. Client(d)
        BY <2>1, <2>3, ClientRegistered
    <2>5. d.owed = conn[f].owed
        BY <2>3 DEF c
    <2> HIDE DEF Kept
    <2> QED BY <1>1, <2>2, <2>4, <2>5
<1>6. ASSUME NEW f \in Fds, http_accept(f) PROVE Kept
    <2> DEFINE d == [Away EXCEPT !.st = "asking"]
    <2>1. conn[f] = Away
        BY <1>0, <1>6 DEF http_accept, Client
    <2>2. conn' = [conn EXCEPT ![f] = d]
        BY <1>6, <2>1 DEF http_accept
    <2>3. Client(d) /\ d.owed = <<>>
        BY AwayIsClient DEF Away
    <2> HIDE DEF d, Kept
    <2> QED BY <1>1, <2>2, <2>3
<1>7. ASSUME NEW f \in Fds, http_answer(f) PROVE Kept
    <2>1. conn' = [conn EXCEPT ![f] = Away]
        BY <1>7 DEF http_answer
    <2>2. Client(Away) /\ Away.owed = <<>>
        BY AwayIsClient DEF Away
    <2> HIDE DEF Kept
    <2> QED BY <1>1, <2>1, <2>2
<1>8. ASSUME NEW f \in Fds, http_events(f) PROVE Kept
    <2> DEFINE c == [Away EXCEPT !.st = "asking"]
               replay == Cached("planning") \o Cached("esdf")
               d == [c EXCEPT !.st = "greeted", !.got = Bytes(replay), !.replay = replay]
    <2>1. conn[f] = c
        BY <1>0, <1>8 DEF http_events, Client
    <2>2. conn' = [conn EXCEPT ![f] = d]
        <3>1. conn' = [conn EXCEPT ![f] = [conn[f] EXCEPT !.st = "greeted", !.got = Bytes(replay),
                                                          !.replay = replay]]
            BY <1>8 DEF http_events
        <3> QED BY <2>1, <3>1
    <2>3. replay \in Seq(Items) /\ Bytes(replay) \in Seq(Unit)
        <3>1. ASSUME NEW k \in {"planning", "esdf"} PROVE Cached(k) \in Seq(Items)
            <4>1. cache[k] \in Items \cup {None}
                BY DEF StreamSafe, CacheShape
            <4>2. CASE cache[k] = None
                BY <4>2 DEF Cached
            <4>3. CASE cache[k] # None
                <5>1. cache[k] \in Items /\ Cached(k) = <<cache[k]>>
                    BY <4>1, <4>3 DEF Cached
                <5> QED BY <5>1
            <4> QED BY <4>2, <4>3
        <3>2. replay \in Seq(Items)
            BY <3>1, ConcatProperties
        <3> HIDE DEF replay
        <3> QED BY <3>2, BytesAreUnits
    <2> HIDE DEF replay
    <2>4. /\ d.st = "greeted" /\ d.got = Bytes(replay) /\ d.replay = replay
          /\ d.owed = <<>> /\ d.pend = <<>> /\ d \in Conns
        <3>1. c \in Conns
            BY AwayIsClient DEF Client
        <3>2. c.owed = <<>> /\ c.pend = <<>>
            BY DEF Away
        <3> HIDE DEF c
        <3>3. d.st = "greeted" /\ d.got = Bytes(replay) /\ d.replay = replay
              /\ d.owed = <<>> /\ d.pend = <<>>
            BY <3>1, <3>2 DEF Conns
        <3>4. d \in Conns
            BY <2>3, <3>1 DEF Conns
        <3> QED BY <3>3, <3>4
    <2> HIDE DEF d, c
    <2>5. Join(Bytes(d.replay \o d.owed), d.got, FlattenSeq(d.pend))
        <3>1. replay \o <<>> = replay /\ Bytes(replay) \o <<>> = Bytes(replay)
            BY <2>3, ConcatEmptySeq
        <3>2. FlattenSeq(<<>>) = <<>>
            BY FlattenFew
        <3> QED BY <2>4, <3>1, <3>2 DEF Join
    <2>6. Client(d)
        <3>1. InOrder(<<>>) /\ Len(<<>>) <= PendingDepth
            BY EventStreamAssumption DEF InOrder
        <3> QED BY <2>4, <2>5, <3>1 DEF Client
    <2> HIDE DEF Kept
    <2> QED BY <1>1, <2>2, <2>4, <2>6
<1>9. ASSUME NEW f \in Fds, http_register(f) PROVE Kept
    <2> DEFINE c == conn[f]
               clean == producer["perception"].at # "filtered"
               d == [c EXCEPT !.st = "open", !.since = seq, !.clean = clean]
    <2>1. c \in Conns /\ Client(c)
        BY <1>0
    <2>2. conn' = [conn EXCEPT ![f] = d]
        BY <1>9 DEF http_register
    <2>3. clean \in BOOLEAN
        OBVIOUS
    <2> HIDE DEF c, clean
    <2>4. d \in Conns /\ d.st = "open" /\ d.pend = c.pend /\ d.got = c.got /\ d.replay = c.replay
          /\ d.owed = c.owed
        BY <1>4, <2>1, <2>3 DEF Conns
    <2> HIDE DEF d
    <2>5. Client(d)
        BY <2>1, <2>4, ClientRegistered
    <2>6. d.owed = conn[f].owed
        BY <2>4 DEF c
    <2> HIDE DEF Kept
    <2> QED BY <1>1, <2>2, <2>5, <2>6
<1> HIDE DEF Kept
<1>10. Kept
    BY <1>2, <1>3, <1>5, <1>6, <1>7, <1>8, <1>9 DEF Accepting, Kept
<1> QED BY <1>10 DEF Kept

\* Publishing a line keeps every connection sound, and adds it to those that
\* are open.
OwedGrows(new, cn, it) ==
    \A f \in Fds : \/ new[f].owed = cn[f].owed \/ new[f].owed = <<>>
                   \/ new[f].owed = Append(cn[f].owed, it)

LEMMA PublishKeeps ==
    ASSUME StreamSafe, Busy, NEW it \in Items, it.by = item.by, it.seq = item.seq,
           publish_json_line(it)
    PROVE  ClientShape' /\ OwedGrows(conn', conn, it)
<1>0. conn \in [Fds -> Conns] /\ \A f \in Fds : Client(conn[f])
    BY DEF StreamSafe, ClientShape
<1>1. CASE conn' = conn
    BY <1>0, <1>1 DEF ClientShape, OwedGrows
<1>2. CASE conn' # conn
    <2>1. PICK taken \in [Open -> 0..(2 * PendingDepth + 2)] :
              /\ \A f \in Open : taken[f] <= Weight(conn[f].pend) + 2
              /\ conn' = [f \in Fds |-> IF f \in Open THEN Send(conn[f], it, taken[f]) ELSE conn[f]]
        BY <1>2 DEF publish_json_line
    <2>2. ASSUME NEW f \in Fds
          PROVE  /\ Client(conn'[f])
                 /\ \/ conn'[f].owed = conn[f].owed \/ conn'[f].owed = <<>>
                    \/ conn'[f].owed = Append(conn[f].owed, it)
        <3>1. CASE f \in Open
            <4> DEFINE c == conn[f]
                       n == taken[f]
            <4>1. conn'[f] = Send(c, it, n)
                BY <2>1, <3>1
            <4>2. n \in 0..(2 * PendingDepth + 2) /\ n <= Weight(c.pend) + 2
                BY <2>1, <3>1
            <4>3. Weight(c.pend) \in Nat
                <5>1. c.pend \in Seq(Seq(Unit))
                    BY <1>0 DEF Conns
                <5>2. FlattenSeq(c.pend) \in Seq(Unit)
                    BY <5>1, FlattenFew
                <5> HIDE DEF c
                <5> QED BY <5>2 DEF Weight
            <4>4. Client(c) /\ c.st = "open"
                BY <1>0, <3>1 DEF Open
            <4>5. \A i \in DOMAIN c.owed : NotAfter(c.owed[i], it)
                BY DEF StreamSafe, NumbersInOrder, OwedOrder, NotAfter
            <4> HIDE DEF c, n
            <4>6. n \in 0..(Weight(c.pend) + 2)
                BY <4>2, <4>3, EventStreamAssumption
            <4>7. /\ Client(Send(c, it, n))
                  /\ Send(c, it, n) = Away \/ Send(c, it, n).owed = Append(c.owed, it)
                BY <4>4, <4>5, <4>6, SendKeeps
            <4>8. Away.owed = <<>>
                BY DEF Away
            <4> QED BY <4>1, <4>7, <4>8 DEF c
        <3>2. CASE f \notin Open
            <4>1. conn'[f] = conn[f]
                BY <2>1, <3>2
            <4> QED BY <1>0, <4>1
        <3> QED BY <3>1, <3>2
    <2>3. conn' \in [Fds -> Conns]
        <3>1. DOMAIN conn' = Fds /\ \A f \in Fds : conn'[f] \in Conns
            BY <2>1, <2>2 DEF Client
        <3>2. conn' = [f \in Fds |-> conn'[f]]
            BY <2>1
        <3> QED BY <3>1, <3>2
    <2>4. ClientShape'
        BY <2>2, <2>3 DEF ClientShape
    <2> QED BY <2>2, <2>4 DEF OwedGrows
<1> QED BY <1>1, <1>2

-----------------------------------------------------------------------------
(* Types of the event stream. *)

\* The newest time of a map is one of its times, or 0.
LEMMA NewestIs ==
    ASSUME NEW m \in Map
    PROVE  /\ Newest(m) \in 0..MaxTime
           /\ \A c \in Cells : m[c] <= Newest(m)
           /\ Newest(m) = 0 \/ \E c \in Cells : m[c] = Newest(m)
           /\ \A n \in Nat : (\A c \in Cells : m[c] <= n) => Newest(m) <= n
<1> DEFINE Is(t) == (\A c \in Cells : m[c] <= t) /\ (t = 0 \/ \E c \in Cells : m[c] = t)
           S == {t \in Nat : \A c \in Cells : m[c] <= t}
<1>0. MaxTime \in Nat /\ \A c \in Cells : m[c] \in 0..MaxTime
    BY EventStreamAssumption DEF Map, MaxTime
<1>1. S \in SUBSET Nat /\ MaxTime \in S
    BY <1>0
<1>2. PICK t \in S : \A k \in S : t <= k
    BY <1>1, LeastNat
<1>3. t \in 0..MaxTime
    BY <1>0, <1>1, <1>2
<1>4. Is(t)
    <2> SUFFICES ASSUME t # 0, \A c \in Cells : m[c] # t PROVE FALSE
        BY <1>2
    <2>1. t - 1 \in Nat
        BY <1>3
    <2>2. ASSUME NEW c \in Cells PROVE m[c] <= t - 1
        <3>1. m[c] \in Nat /\ t \in Nat /\ m[c] <= t /\ m[c] # t
            BY <1>0, <1>2
        <3> QED BY <3>1
    <2>3. t - 1 \in S
        BY <2>1, <2>2
    <2>4. t <= t - 1
        BY <1>2, <2>3
    <2> QED BY <1>3, <2>4
<1>5. Newest(m) \in 0..MaxTime /\ Is(Newest(m))
    <2>1. \E u \in 0..MaxTime : Is(u)
        BY <1>3, <1>4
    <2>2. Newest(m) = CHOOSE u \in 0..MaxTime : Is(u)
        BY DEF Newest
    <2> HIDE DEF Is
    <2> QED BY <2>1, <2>2
<1>6. ASSUME NEW n \in Nat, \A c \in Cells : m[c] <= n PROVE Newest(m) <= n
    <2> DEFINE w == Newest(m)
    <2>1. w \in Nat /\ (w = 0 \/ \E c \in Cells : m[c] = w)
        BY <1>0, <1>5
    <2> HIDE DEF w
    <2>2. w <= n
        BY <1>6, <2>1
    <2> QED BY <2>2 DEF w
<1> QED BY <1>5, <1>6

\* The server and its writer.
LEMMA ServerStep == ServerShape /\ Next => ServerShape'
<1> SUFFICES ASSUME ServerShape, Next PROVE ServerShape'
    OBVIOUS
<1> USE DEF ServerShape, serverVars, writerVars
<1>1. CASE start
    BY <1>1 DEF start, create_listen_socket
<1>2. CASE stop \/ stop_notify \/ stop_join
    BY <1>2 DEF stop, stop_notify, stop_join
<1>3. ASSUME NEW t \in Threads, enqueue_item(t) PROVE ServerShape'
    BY <1>3 DEF enqueue_item
<1>4. CASE on_mission_event \/ on_perception_event \/ on_traversability_assign
           \/ (\E seen \in SUBSET Cells : on_traversability_filter(seen))
           \/ on_planning_map_snapshot \/ on_esdf_snapshot
    BY <1>4 DEF on_mission_event, on_perception_event, on_traversability_assign,
                on_traversability_filter, on_planning_map_snapshot, on_esdf_snapshot
<1>5. CASE Writing
    BY <1>5 DEF Writing, writer_wait, writer_sleep, writer_serialize, writer_publish,
                writer_first_chunk, writer_last_chunk, writer_cache_chunks
<1>6. CASE Accepting
    BY <1>6 DEF Accepting, http_loop_exit, accept_client, http_accept, http_answer,
                http_events, http_register
<1> QED BY <1>1, <1>2, <1>3, <1>4, <1>5, <1>6 DEF Next, Producing

\* The steps of the producing threads other than queueing.
Numbering ==
    \/ on_mission_event \/ on_perception_event \/ on_traversability_assign
    \/ \E seen \in SUBSET Cells : on_traversability_filter(seen)
    \/ on_planning_map_snapshot \/ on_esdf_snapshot

\* The steps that leave the queue, the item and the numbers alone.
Serving ==
    \/ start \/ stop \/ stop_notify \/ stop_join \/ Accepting
    \/ writer_sleep \/ writer_serialize \/ writer_cache_chunks

\* Neither gives the writer an item.
LEMMA ServingKeeps ==
    ASSUME ServerShape, Serving
    PROVE  UNCHANGED <<queueVars, seq, producer, l1, l2_published>> /\ (Busy' => Busy /\ item' = item)
           /\ item' \in {item, None}
<1> USE DEF serverVars, writerVars, queueVars, sourceVars, Busy, ServerShape
<1>1. CASE start
    BY <1>1 DEF start
<1>2. CASE stop \/ stop_notify \/ stop_join
    BY <1>2 DEF stop, stop_notify, stop_join
<1>3. CASE Accepting
    BY <1>3 DEF Accepting, http_loop_exit, accept_client, http_accept, http_answer,
                http_events, http_register
<1>4. CASE writer_sleep \/ writer_serialize \/ writer_cache_chunks
    BY <1>4 DEF writer_sleep, writer_serialize, writer_cache_chunks
<1> QED BY <1>1, <1>2, <1>3, <1>4 DEF Serving

LEMMA NumberingKeeps ==
    ASSUME Numbering
    PROVE  UNCHANGED <<serverVars, writerVars, queueVars, cache, conn>>
BY DEF Numbering, on_mission_event, on_perception_event, on_traversability_assign,
       on_traversability_filter, on_planning_map_snapshot, on_esdf_snapshot

\* The configuration of the queue does not change.
LEMMA DepthKept ==
    ASSUME Next
    PROVE  depth' = depth
BY DEF Next, Producing, Writing, Serving, Numbering, Accepting, serverVars, start, stop, stop_notify,
       stop_join, accept_client, http_loop_exit, http_accept, http_answer, http_events, http_register,
       on_mission_event, on_perception_event, on_traversability_assign, on_traversability_filter,
       on_planning_map_snapshot, on_esdf_snapshot, enqueue_item, writer_wait, writer_sleep,
       writer_serialize, writer_publish, writer_first_chunk, writer_last_chunk, writer_cache_chunks

\* The queue stays within its depth, and the writer works on an item.
LEMMA QueueStep == StreamSafe /\ Next => QueueShape'
<1> SUFFICES ASSUME StreamSafe, Next PROVE QueueShape'
    OBVIOUS
<1>0. QueueShape /\ ServerShape /\ ProducerShape
    BY DEF StreamSafe
<1>d. depth' = depth
    BY DepthKept
<1>1. CASE Serving
    BY <1>0, <1>d, <1>1, ServingKeeps DEF QueueShape, queueVars
<1>2. CASE Numbering
    BY <1>0, <1>d, <1>2, NumberingKeeps DEF QueueShape, queueVars, writerVars, Busy
<1>3. ASSUME NEW t \in Threads, enqueue_item(t) PROVE QueueShape'
    <2> DEFINE e == producer[t].item
               full == Len(sendq) >= depth
               q == IF full THEN Tail(sendq) ELSE sendq
    <2>1. e \in Items
        BY <1>0, <1>3 DEF ProducerShape, Producer, enqueue_item, Idle
    <2>2. sendq' = Append(q, e) /\ item' = item /\ (Busy' => Busy)
          /\ dropped' = IF full THEN dropped \cup {Head(sendq).seq} ELSE dropped
        BY <1>3 DEF enqueue_item, Busy
    <2>3. sendq \in Seq(Items) /\ Len(sendq) \in Nat /\ Len(sendq) <= depth /\ depth \in Nat \ {0}
        BY <1>0, EventStreamAssumption DEF QueueShape
    <2> HIDE DEF e
    <2>4. q \in Seq(Items) /\ Len(q) + 1 <= depth
        <3>1. CASE full
            <4>1. sendq # <<>>
                BY <2>3, <3>1
            <4>2. Tail(sendq) \in Seq(Items) /\ Len(Tail(sendq)) = Len(sendq) - 1
                BY <2>3, <4>1, HeadTailProperties
            <4> QED BY <2>3, <3>1, <4>2
        <3>2. CASE ~full
            BY <2>3, <3>2
        <3> QED BY <3>1, <3>2
    <2>5. dropped' \subseteq 1..MaxSeq
        <3>1. CASE full
            <4>1. sendq # <<>>
                BY <2>3, <3>1
            <4>2. Head(sendq) \in Items
                BY <2>3, <4>1, HeadTailProperties
            <4>3. Head(sendq).seq \in 1..MaxSeq
                BY <4>2 DEF Items
            <4> QED BY <1>0, <1>d, <2>2, <3>1, <4>3 DEF QueueShape
        <3>2. CASE ~full
            BY <1>0, <2>2, <3>2 DEF QueueShape
        <3> QED BY <3>1, <3>2
    <2> HIDE DEF q
    <2>6. sendq' \in Seq(Items) /\ Len(sendq') <= depth
        <3>1. Append(q, e) \in Seq(Items) /\ Len(Append(q, e)) = Len(q) + 1
            BY <2>1, <2>4, AppendProperties
        <3> QED BY <2>2, <2>4, <3>1
    <2> QED BY <1>0, <1>d, <2>2, <2>5, <2>6 DEF QueueShape
<1>4. CASE writer_wait
    <2>0. sendq \in Seq(Items) /\ Len(sendq) <= depth /\ Len(sendq) \in Nat /\ depth \in Nat
        BY <1>0, EventStreamAssumption DEF QueueShape
    <2>1. dropped' = dropped
        BY <1>4 DEF writer_wait
    <2>2. CASE sendq # <<>>
        <3>1. item' = Head(sendq) /\ sendq' = Tail(sendq)
            BY <1>4, <2>2 DEF writer_wait
        <3>2. Head(sendq) \in Items /\ Tail(sendq) \in Seq(Items) /\ Len(Tail(sendq)) = Len(sendq) - 1
            BY <2>0, <2>2, HeadTailProperties
        <3>3. Len(sendq') <= depth
            BY <2>0, <3>1, <3>2
        <3> QED BY <1>0, <1>d, <2>1, <3>1, <3>2, <3>3 DEF QueueShape
    <2>3. CASE sendq = <<>>
        <3>1. item' = item /\ sendq' = sendq /\ ~Busy'
            BY <1>4, <2>3 DEF writer_wait, Busy
        <3> QED BY <1>0, <1>d, <2>1, <3>1 DEF QueueShape
    <2> QED BY <2>2, <2>3
<1>5. CASE writer_publish
    <2>1. sendq' = sendq /\ item' = None /\ ~Busy' /\ item \in Items
        BY <1>0, <1>5 DEF writer_publish, QueueShape, Busy
    <2>2. publish_json_line(item)
        BY <1>5 DEF writer_publish
    <2>3. item.seq \in 1..MaxSeq
        BY <2>1 DEF Items
    <2>4. dropped' \subseteq 1..MaxSeq
        BY <1>0, <2>2, <2>3 DEF publish_json_line, QueueShape
    <2> QED BY <1>0, <1>d, <2>1, <2>4 DEF QueueShape
<1>6. CASE writer_first_chunk \/ writer_last_chunk
    <2>1. sendq' = sendq /\ item' = item /\ Busy /\ item \in Items
        BY <1>0, <1>6 DEF writer_first_chunk, writer_last_chunk, QueueShape, Busy
    <2>2. publish_json_line(item) \/ publish_json_line([item EXCEPT !.full = FALSE])
        BY <1>6 DEF writer_first_chunk, writer_last_chunk
    <2>3. item.seq \in 1..MaxSeq /\ [item EXCEPT !.full = FALSE].seq = item.seq
        BY <2>1 DEF Items
    <2>4. dropped' \subseteq 1..MaxSeq
        BY <1>0, <2>2, <2>3 DEF publish_json_line, QueueShape
    <2> QED BY <1>0, <1>d, <2>1, <2>4 DEF QueueShape
<1> QED BY <1>1, <1>2, <1>3, <1>4, <1>5, <1>6 DEF Next, Producing, Writing, Serving, Numbering

\* The cached maps are items.
LEMMA CacheStep == StreamSafe /\ Next => CacheShape'
<1> SUFFICES ASSUME StreamSafe, Next PROVE CacheShape'
    OBVIOUS
<1>0. CacheShape /\ (Busy => item \in Items)
    BY DEF StreamSafe, QueueShape
<1>1. CASE writer_serialize
    <2>1. item \in Items
        BY <1>0, <1>1 DEF writer_serialize, Busy
    <2>2. cache' \in {cache, [cache EXCEPT !.planning = item], [cache EXCEPT !.esdf = item]}
        BY <1>1 DEF writer_serialize
    <2> QED BY <1>0, <2>1, <2>2 DEF CacheShape
<1>2. CASE writer_cache_chunks
    <2>1. item \in Items /\ cache' = [cache EXCEPT !.esdf = item]
        BY <1>0, <1>2 DEF writer_cache_chunks, Busy
    <2> QED BY <1>0, <2>1 DEF CacheShape
<1>3. CASE cache' = cache
    BY <1>0, <1>3 DEF CacheShape
<1>4. CASE start \/ stop \/ stop_notify \/ stop_join \/ Accepting
    <2>1. cache' = cache
        BY <1>4 DEF start, stop, stop_notify, stop_join, Accepting, http_loop_exit, accept_client,
                    http_accept, http_answer, http_events, http_register
    <2> QED BY <1>3, <2>1
<1>5. CASE Producing
    <2>1. cache' = cache
        BY <1>5, NumberingKeeps DEF Producing, Numbering, enqueue_item
    <2> QED BY <1>3, <2>1
<1>6. CASE writer_wait \/ writer_sleep \/ writer_publish \/ writer_first_chunk \/ writer_last_chunk
    <2>1. cache' = cache
        BY <1>6 DEF writer_wait, writer_sleep, writer_publish, writer_first_chunk, writer_last_chunk
    <2> QED BY <1>3, <2>1
<1> QED BY <1>1, <1>2, <1>4, <1>5, <1>6 DEF Next, Writing

\* Thread t has numbered its event: r is the next item.
Numbered(t, r) ==
    /\ seq' = seq + 1 /\ seq + 1 \in 0..MaxSeq
    /\ producer' = [producer EXCEPT ![t] = [at |-> "assigned", item |-> r]]
    /\ r.by = t /\ r.seq = seq + 1

LEMMA AssignNumbers ==
    ASSUME StreamSafe, NEW t \in Threads, NEW kind \in {"line", "trav", "planning", "esdf"},
           NEW full \in BOOLEAN, NEW cells \in Map, NEW map \in Map, Assign(t, kind, full, cells, map),
           kind = "trav" => t = "perception"
    PROVE  \E r \in Items : /\ Numbered(t, r)
                           /\ r.kind = kind /\ r.full = full /\ r.cells = cells /\ r.map = map
<1> DEFINE others == {u \in Threads \ {t} : producer[u].at = "filtered"}
           r == [seq |-> seq + 1, by |-> t, kind |-> kind, full |-> full,
                 cells |-> cells, map |-> map]
<1>1. Cardinality(others) \in Nat
    <2>1. IsFiniteSet(Threads)
        <3>1. IsFiniteSet({"perception"})
            BY FS_Singleton
        <3>2. Threads = {"perception"} \cup {"mission"}
            BY DEF Threads
        <3> QED BY <3>1, <3>2, FS_AddElement
    <2>2. others \subseteq Threads
        OBVIOUS
    <2>3. IsFiniteSet(others)
        BY <2>1, <2>2, FS_Subset
    <2> QED BY <2>3, FS_CardinalityType
<1>2. seq + Cardinality(others) < MaxSeq /\ seq' = seq + 1
      /\ producer' = [producer EXCEPT ![t] = [at |-> "assigned", item |-> r]]
    BY DEF Assign
<1> HIDE DEF others
<1>3. seq \in Nat /\ MaxSeq \in Nat
    BY EventStreamAssumption DEF StreamSafe, ProducerShape
<1>4. seq + 1 \in 0..MaxSeq /\ seq + 1 \in 1..MaxSeq
    BY <1>1, <1>2, <1>3
<1>5. r \in Items /\ r.by = t /\ r.seq = seq + 1
      /\ r.kind = kind /\ r.full = full /\ r.cells = cells /\ r.map = map
    BY <1>4 DEF Items
<1> HIDE DEF r
<1> QED BY <1>2, <1>4, <1>5 DEF Numbered

\* The perception thread has filtered the Level 1 map.
Filtered(p) ==
    /\ producer["perception"] = Idle /\ seq' = seq /\ watermark' = watermark
    /\ producer' = [producer EXCEPT !["perception"] = p]
    /\ p.at = "filtered" /\ Producer(p, "perception", seq)
    /\ l1' \in Map /\ \A c \in Cells : l1'[c] <= seq + 2

LEMMA NumberingCases ==
    ASSUME StreamSafe, Numbering
    PROVE  \/ \E t \in Threads, r \in Items : /\ Numbered(t, r) /\ l1' = l1
                                              /\ watermark' \in 0..(MaxTime + 1)
           \/ \E p : Filtered(p)
<1>0. /\ ServerShape /\ ProducerShape /\ MapShape /\ MaxSeq \in Nat /\ seq \in Nat
      /\ "mission" \in Threads /\ "perception" \in Threads
    BY EventStreamAssumption DEF StreamSafe, Threads, ProducerShape
<1>1. EmptyMap \in Map /\ MaxTime \in Nat /\ MaxTime = MaxSeq + 1
    BY <1>0 DEF EmptyMap, Map, MaxTime
<1>2. CASE on_mission_event \/ on_perception_event \/ on_planning_map_snapshot \/ on_esdf_snapshot
    <2>1. PICK t \in Threads, kind \in {"line", "planning", "esdf"}, full \in BOOLEAN :
              Assign(t, kind, full, EmptyMap, EmptyMap)
        <3>1. CASE on_mission_event
            BY <1>0, <3>1 DEF on_mission_event
        <3>2. CASE on_perception_event
            BY <1>0, <3>2 DEF on_perception_event
        <3>3. CASE on_planning_map_snapshot
            <4>1. (~l2_published) \in BOOLEAN
                BY <1>0 DEF MapShape
            <4>2. Assign("perception", "planning", ~l2_published, EmptyMap, EmptyMap)
                BY <3>3 DEF on_planning_map_snapshot
            <4> QED BY <1>0, <4>1, <4>2
        <3>4. CASE on_esdf_snapshot
            BY <1>0, <3>4 DEF on_esdf_snapshot
        <3> QED BY <1>2, <3>1, <3>2, <3>3, <3>4
    <2>2. \E r \in Items : Numbered(t, r)
        BY <1>1, <2>1, AssignNumbers
    <2>3. l1' = l1 /\ watermark' = watermark
        BY <1>2 DEF on_mission_event, on_perception_event, on_planning_map_snapshot, on_esdf_snapshot
    <2> QED BY <1>0, <2>2, <2>3 DEF MapShape
<1>3. CASE on_traversability_assign
    <2> DEFINE p == producer["perception"]
    <2>1. p.at = "filtered" /\ Assign("perception", "trav", p.full, p.cells, l1)
          /\ watermark' = p.mark /\ l1' = l1
        BY <1>3 DEF on_traversability_assign
    <2>2. Producer(p, "perception", seq)
        BY <1>0 DEF ProducerShape
    <2> HIDE DEF p
    <2>3. p.full \in BOOLEAN /\ p.cells \in Map /\ p.mark \in 0..MaxTime
        BY <2>1, <2>2 DEF Producer, Idle
    <2>4. \E r \in Items : Numbered("perception", r)
        <3>1. l1 \in Map
            BY <1>0 DEF MapShape
        <3> QED BY <1>0, <2>1, <2>3, <3>1, AssignNumbers
    <2>5. watermark' \in 0..(MaxTime + 1)
        BY <1>1, <2>1, <2>3
    <2> QED BY <1>0, <2>1, <2>4, <2>5
<1>4. ASSUME NEW seen \in SUBSET Cells, on_traversability_filter(seen) PROVE \E p : Filtered(p)
    <2> DEFINE next == IF Newest(l1) = 0 THEN 2 ELSE Newest(l1) + 1
               cells == Newer(l1', watermark)
               p == [at |-> "filtered", full |-> watermark = 0, cells |-> cells,
                     mark |-> IF Newest(cells) = 0 THEN 1 ELSE Newest(cells)]
    <2>1. /\ producer["perception"] = Idle /\ seq < MaxSeq
          /\ l1' = [c \in Cells |-> IF c \notin seen THEN l1[c] ELSE next]
          /\ producer' = [producer EXCEPT !["perception"] = p]
          /\ seq' = seq /\ watermark' = watermark
        BY <1>4 DEF on_traversability_filter
    <2>2. l1 \in Map /\ \A c \in Cells : l1[c] <= seq + 1
        <3>1. ~Filtering(producer)
            BY <2>1 DEF Filtering, Idle
        <3> QED BY <1>0, <3>1 DEF MapShape
    <2>3. next \in 0..MaxTime /\ next <= seq + 2
        <3> DEFINE w == Newest(l1)
        <3>1. w \in 0..MaxTime
            BY <2>2, NewestIs
        <3>2. w <= seq + 1
            <4>1. seq + 1 \in Nat
                BY <1>0
            <4> QED BY <2>2, <4>1, NewestIs
        <3> HIDE DEF w
        <3>3. (IF w = 0 THEN 2 ELSE w + 1) \in 0..MaxTime /\ (IF w = 0 THEN 2 ELSE w + 1) <= seq + 2
            BY <1>0, <1>1, <2>1, <3>1, <3>2
        <3> QED BY <3>3 DEF w
    <2> HIDE DEF next
    <2>4. l1' \in Map /\ \A c \in Cells : l1'[c] <= seq + 2
        <3>1. ASSUME NEW c \in Cells PROVE l1'[c] \in 0..MaxTime /\ l1'[c] <= seq + 2
            <4>1. l1[c] \in 0..MaxTime /\ l1[c] <= seq + 1
                BY <2>2 DEF Map
            <4>2. l1'[c] = IF c \notin seen THEN l1[c] ELSE next
                BY <2>1
            <4> QED BY <1>0, <1>1, <2>3, <4>1, <4>2
        <3>2. l1' = [c \in Cells |-> l1'[c]]
            BY <2>1
        <3> QED BY <3>1, <3>2 DEF Map
    <2>5. cells \in Map
        <3> DEFINE m == l1'
        <3>1. m \in Map
            BY <2>4
        <3> HIDE DEF m
        <3>2. Newer(m, watermark) \in Map
            BY <1>1, <3>1 DEF Newer, Map
        <3> QED BY <3>2 DEF m
    <2>6. p.at = "filtered" /\ Producer(p, "perception", seq)
        <3> HIDE DEF cells
        <3>1. Newest(cells) \in 0..MaxTime
            BY <2>5, NewestIs
        <3>2. (IF Newest(cells) = 0 THEN 1 ELSE Newest(cells)) \in 0..MaxTime
            BY <1>0, <1>1, <3>1
        <3>3. (watermark = 0) \in BOOLEAN
            OBVIOUS
        <3> QED BY <2>5, <3>2, <3>3 DEF Producer
    <2> HIDE DEF p
    <2>7. Filtered(p)
        BY <2>1, <2>4, <2>6 DEF Filtered
    <2> QED BY <2>7
<1> QED BY <1>2, <1>3, <1>4 DEF Numbering

\* Numbers are within their bound, and the threads hold items of their own.
LEMMA ProducerStep == StreamSafe /\ Next => ProducerShape' /\ MapShape'
<1> SUFFICES ASSUME StreamSafe, Next PROVE ProducerShape' /\ MapShape'
    OBVIOUS
<1>0. ServerShape /\ ProducerShape /\ MapShape /\ seq \in Nat /\ MaxTime \in Nat
    BY EventStreamAssumption DEF StreamSafe, ProducerShape, MaxTime
<1>a. /\ DOMAIN producer = Threads /\ "perception" \in Threads
      /\ \A t \in Threads : Producer(producer[t], t, seq)
      /\ \A c \in Cells : l1[c] \in Nat /\ l1[c] <= seq + (IF Filtering(producer) THEN 2 ELSE 1)
    BY <1>0 DEF ProducerShape, MapShape, Threads, Map
<1>1. CASE UNCHANGED <<seq, producer, l1, l2_published>> /\ watermark' \in 0..(MaxTime + 1)
    BY <1>0, <1>1 DEF ProducerShape, MapShape
<1>2. CASE Serving
    <2>1. UNCHANGED <<seq, producer, l1, l2_published>>
        BY <1>0, <1>2, ServingKeeps
    <2>2. watermark' \in {watermark, 0}
        BY <1>2 DEF Serving, start, stop, stop_notify, stop_join, Accepting, http_loop_exit,
                    accept_client, http_accept, http_answer, http_events, http_register,
                    writer_sleep, writer_serialize, writer_cache_chunks
    <2>3. watermark' \in 0..(MaxTime + 1)
        BY <1>0, <2>2 DEF MapShape
    <2> QED BY <1>1, <2>1, <2>3
<1>3. CASE writer_wait \/ writer_publish \/ writer_first_chunk \/ writer_last_chunk
    <2>1. UNCHANGED <<seq, producer, l1, l2_published, watermark>>
        BY <1>3 DEF writer_wait, writer_publish, writer_first_chunk, writer_last_chunk, sourceVars
    <2> QED BY <1>0, <1>1, <2>1 DEF MapShape
<1>4. ASSUME NEW t \in Threads, enqueue_item(t) PROVE ProducerShape' /\ MapShape'
    <2>1. /\ UNCHANGED <<seq, l1, l2_published, watermark>> /\ producer[t].at = "assigned"
          /\ producer' = [producer EXCEPT ![t] = Idle]
        BY <1>4 DEF enqueue_item
    <2>2. producer'[t] = Idle /\ \A u \in Threads : u # t => producer'[u] = producer[u]
        BY <1>a, <2>1
    <2>3. \A u \in Threads : Producer(producer'[u], u, seq)
        <3> TAKE u \in Threads
        <3>1. CASE u = t
            BY <2>2, <3>1 DEF Producer
        <3>2. CASE u # t
            BY <1>a, <2>2, <3>2
        <3> QED BY <3>1, <3>2
    <2>4. Filtering(producer) <=> Filtering(producer')
        <3>1. CASE t = "perception"
            <4>1. Idle.at = "idle"
                BY DEF Idle
            <4> QED BY <2>1, <2>2, <3>1, <4>1 DEF Filtering
        <3>2. CASE t # "perception"
            BY <1>a, <2>2, <3>2 DEF Filtering
        <3> QED BY <3>1, <3>2
    <2>5. DOMAIN producer' = Threads
        BY <1>a, <2>1
    <2>6. ProducerShape'
        BY <1>0, <2>1, <2>3, <2>5 DEF ProducerShape
    <2>7. MapShape'
        BY <1>0, <2>1, <2>4 DEF MapShape
    <2> QED BY <2>6, <2>7
<1>5. CASE Numbering
    <2>0. l2_published' \in BOOLEAN
        BY <1>0, <1>5 DEF MapShape, Numbering, on_mission_event, on_perception_event,
                 on_traversability_assign, on_traversability_filter, on_planning_map_snapshot,
                 on_esdf_snapshot
    <2>1. ASSUME NEW t \in Threads, NEW r \in Items, Numbered(t, r), l1' = l1,
                 watermark' \in 0..(MaxTime + 1)
          PROVE  ProducerShape' /\ MapShape'
        <3> DEFINE e == [at |-> "assigned", item |-> r]
        <3>1. e.at = "assigned" /\ e.item = r
            OBVIOUS
        <3>2. seq' = seq + 1 /\ seq + 1 \in 0..MaxSeq /\ producer' = [producer EXCEPT ![t] = e]
              /\ r.by = t /\ r.seq = seq + 1
            BY <2>1 DEF Numbered
        <3> HIDE DEF e
        <3>3. producer'[t] = e /\ DOMAIN producer' = Threads
              /\ \A u \in Threads : u # t => producer'[u] = producer[u]
            BY <1>a, <3>2
        <3>4. ASSUME NEW u \in Threads PROVE Producer(producer'[u], u, seq + 1)
            <4>1. CASE u = t
                <5>1. r.seq <= seq + 1
                    BY <1>0, <3>2
                <5> QED BY <3>1, <3>2, <3>3, <4>1, <5>1 DEF Producer
            <4>2. CASE u # t
                <5> DEFINE p == producer[u]
                <5>1. Producer(p, u, seq) /\ producer'[u] = p
                    BY <1>a, <3>3, <4>2
                <5> HIDE DEF p
                <5>2. Producer(p, u, seq + 1)
                    <6>1. CASE p.at = "assigned" /\ p.item \in Items /\ p.item.by = u /\ p.item.seq <= seq
                        <7>1. p.item.seq \in Int
                            BY <6>1 DEF Items
                        <7>2. p.item.seq <= seq + 1
                            BY <1>0, <6>1, <7>1
                        <7> QED BY <6>1, <7>2 DEF Producer
                    <6> QED BY <5>1, <6>1 DEF Producer
                <5> QED BY <5>1, <5>2
            <4> QED BY <4>1, <4>2
        <3>5. ProducerShape'
            BY <3>2, <3>3, <3>4 DEF ProducerShape
        <3>6. ASSUME NEW c \in Cells PROVE l1[c] <= (seq + 1) + (IF Filtering(producer') THEN 2 ELSE 1)
            BY <1>0, <1>a
        <3>7. MapShape'
            BY <1>0, <2>0, <2>1, <3>2, <3>6 DEF MapShape
        <3> QED BY <3>5, <3>7
    <2>2. ASSUME NEW p, Filtered(p) PROVE ProducerShape' /\ MapShape'
        <3>1. producer' = [producer EXCEPT !["perception"] = p] /\ seq' = seq /\ p.at = "filtered"
              /\ Producer(p, "perception", seq)
            BY <2>2 DEF Filtered
        <3>2. producer'["perception"] = p /\ DOMAIN producer' = Threads
              /\ \A u \in Threads : u # "perception" => producer'[u] = producer[u]
            BY <1>a, <3>1
        <3>3. ProducerShape'
            <4>1. \A u \in Threads : Producer(producer'[u], u, seq)
                BY <1>a, <3>1, <3>2
            <4> QED BY <1>0, <3>1, <3>2, <4>1 DEF ProducerShape
        <3>4. Filtering(producer')
            BY <3>1, <3>2 DEF Filtering
        <3>5. l1' \in Map /\ watermark' \in 0..(MaxTime + 1) /\ \A c \in Cells : l1'[c] <= seq + 2
            BY <1>0, <2>2 DEF Filtered, MapShape
        <3>6. MapShape'
            BY <2>0, <3>1, <3>4, <3>5 DEF MapShape
        <3> QED BY <3>3, <3>6
    <2> QED BY <1>5, <2>1, <2>2, NumberingCases
<1> QED BY <1>2, <1>3, <1>4, <1>5 DEF Next, Producing, Writing, Serving, Numbering

-----------------------------------------------------------------------------
(* The order of the event stream. *)

\* Behind and NotAfter look at the thread and the number of an item.
LEMMA SameNumber ==
    ASSUME NEW a, NEW b, a.by = b.by, a.seq = b.seq, NEW q, NEW n, NEW p, Behind(a, q, n, p)
    PROVE  Behind(b, q, n, p)
BY DEF Behind, Earlier

\* A number given out is after all that went before.
LEMMA BehindNumbered ==
    ASSUME NEW it, it.seq \in Int, NEW q, NEW n \in Nat, NEW p, DOMAIN p = Threads, NEW t \in Threads,
           NEW r, r.seq = n + 1, NEW e, e.item = r, NEW new, new = [p EXCEPT ![t] = e], Behind(it, q, n, p)
    PROVE  Behind(it, q, n + 1, new)
<1>1. it.seq <= n /\ it.seq <= n + 1 /\ it.seq < n + 1
    BY DEF Behind
<1>2. ASSUME NEW u \in Threads, new[u].at = "assigned" PROVE Earlier(it, new[u].item)
    <2>1. CASE u = t
        <3>1. new[u].item = r
            BY <2>1
        <3> QED BY <1>1, <3>1 DEF Earlier
    <2>2. CASE u # t
        <3>1. new[u] = p[u]
            BY <2>2
        <3> QED BY <1>2, <3>1 DEF Behind
    <2> QED BY <2>1, <2>2
<1> QED BY <1>1, <1>2 DEF Behind

\* A thread that holds no item any more.
LEMMA BehindReleased ==
    ASSUME NEW it, NEW q, NEW n, NEW p, DOMAIN p = Threads, NEW t \in Threads,
           NEW e, e.at # "assigned", NEW new, new = [p EXCEPT ![t] = e], Behind(it, q, n, p)
    PROVE  Behind(it, q, n, new)
<1>1. ASSUME NEW u \in Threads, new[u].at = "assigned" PROVE Earlier(it, new[u].item)
    <2>1. CASE u = t
        BY <1>1, <2>1
    <2>2. CASE u # t
        <3>1. new[u] = p[u]
            BY <2>2
        <3> QED BY <1>1, <3>1 DEF Behind
    <2> QED BY <2>1, <2>2
<1> QED BY <1>1 DEF Behind

\* A queue without some of its items.
LEMMA BehindFewer ==
    ASSUME NEW it, NEW q, NEW s, NEW n, NEW p, Behind(it, q, n, p),
           \A i \in DOMAIN s : \E j \in DOMAIN q : s[i] = q[j]
    PROVE  Behind(it, s, n, p)
BY DEF Behind

\* The item of thread t joins the queue.
LEMMA BehindQueued ==
    ASSUME NEW it, NEW q \in Seq(Items), NEW n, NEW p, NEW t \in Threads,
           p[t].at = "assigned", NEW e \in Items, e = p[t].item, Behind(it, q, n, p)
    PROVE  Behind(it, Append(q, e), n, p)
<1>1. Len(q) \in Nat /\ DOMAIN q = 1..Len(q) /\ DOMAIN Append(q, e) = 1..(Len(q) + 1)
      /\ Append(q, e)[Len(q) + 1] = e /\ \A i \in 1..Len(q) : Append(q, e)[i] = q[i]
    BY AppendProperties
<1>2. Earlier(it, e)
    BY DEF Behind
<1>3. ASSUME NEW i \in DOMAIN Append(q, e) PROVE Earlier(it, Append(q, e)[i])
    <2>1. CASE i \in 1..Len(q)
        <3>1. Earlier(it, q[i])
            BY <1>1, <2>1 DEF Behind
        <3> QED BY <1>1, <2>1, <3>1
    <2>2. CASE i = Len(q) + 1
        BY <1>1, <1>2, <2>2
    <2> QED BY <1>1, <2>1, <2>2
<1> QED BY <1>3 DEF Behind

\* The rest of a queue in order, and its head before it.
LEMMA QueueTail ==
    ASSUME NEW q \in Seq(Items), q # <<>>, NEW n, NEW p, QueueOrder(q, n, p)
    PROVE  /\ QueueOrder(Tail(q), n, p) /\ Behind(Head(q), Tail(q), n, p)
           /\ \A i \in DOMAIN Tail(q) : \E j \in DOMAIN q : Tail(q)[i] = q[j]
<1> DEFINE r == Tail(q)
<1>1. /\ r \in Seq(Items) /\ Len(r) = Len(q) - 1 /\ Len(q) \in Nat /\ Len(q) > 0
      /\ DOMAIN q = 1..Len(q) /\ DOMAIN r = 1..Len(r) /\ Head(q) = q[1]
      /\ \A i \in 1..Len(r) : r[i] = q[i + 1]
    BY HeadTailProperties
<1> HIDE DEF r
<1>2. \A i \in DOMAIN r : i + 1 \in DOMAIN q /\ r[i] = q[i + 1] /\ 1 < i + 1 /\ i \in Int
    BY <1>1
<1>3. 1 \in DOMAIN q
    BY <1>1
<1>4. ASSUME NEW i \in DOMAIN r, NEW j \in DOMAIN r, i < j PROVE Earlier(r[i], r[j])
    <2>1. i + 1 \in DOMAIN q /\ j + 1 \in DOMAIN q /\ i + 1 < j + 1
        BY <1>2, <1>4
    <2>2. Earlier(q[i + 1], q[j + 1])
        BY <2>1 DEF QueueOrder
    <2> QED BY <1>2, <2>2
<1>5. \A i \in DOMAIN r : Behind(r[i], <<>>, n, p)
    BY <1>2 DEF QueueOrder
<1>6. Behind(q[1], r, n, p)
    <2>1. Behind(q[1], <<>>, n, p)
        BY <1>3 DEF QueueOrder
    <2>2. \A i \in DOMAIN r : Earlier(q[1], r[i])
        BY <1>2, <1>3 DEF QueueOrder
    <2> QED BY <2>1, <2>2 DEF Behind
<1>7. QueueOrder(r, n, p)
    BY <1>4, <1>5 DEF QueueOrder
<1>8. \A i \in DOMAIN r : \E j \in DOMAIN q : r[i] = q[j]
    BY <1>2
<1> QED BY <1>1, <1>6, <1>7, <1>8 DEF r

\* The item of thread t joins a queue in order.
LEMMA QueueAppend ==
    ASSUME NEW q \in Seq(Items), NEW n \in Nat, NEW p, DOMAIN p = Threads, QueueOrder(q, n, p),
           \A u \in Threads : Producer(p[u], u, n), NEW t \in Threads, p[t].at = "assigned",
           NEW e \in Items, e = p[t].item, NEW new, new = [p EXCEPT ![t] = Idle]
    PROVE  QueueOrder(Append(q, e), n, new)
<1> DEFINE s == Append(q, e)
<1>1. Len(q) \in Nat /\ DOMAIN q = 1..Len(q) /\ DOMAIN s = 1..(Len(q) + 1)
      /\ s[Len(q) + 1] = e /\ \A i \in 1..Len(q) : s[i] = q[i]
    BY AppendProperties
<1> HIDE DEF s
<1>2. ASSUME NEW u \in Threads, p[u].at = "assigned" PROVE p[u].item.by = u /\ p[u].item.seq <= n
    BY <1>2 DEF Producer, Idle
<1>3. new[t] = Idle /\ Idle.at # "assigned" /\ \A u \in Threads : u # t => new[u] = p[u]
    BY DEF Idle
<1>4. Behind(e, <<>>, n, new)
    <2>1. e.seq <= n /\ e.by = t
        BY <1>2
    <2>2. ASSUME NEW u \in Threads, new[u].at = "assigned" PROVE Earlier(e, new[u].item)
        <3>1. u # t /\ new[u] = p[u]
            BY <1>3, <2>2
        <3>2. new[u].item.by = u
            BY <1>2, <2>2, <3>1
        <3> QED BY <2>1, <3>1, <3>2 DEF Earlier
    <2>3. DOMAIN <<>> = {}
        OBVIOUS
    <2> QED BY <2>1, <2>2, <2>3 DEF Behind
<1>5. ASSUME NEW i \in 1..Len(q) PROVE Behind(q[i], <<>>, n, new) /\ Earlier(q[i], e)
    <2>1. Behind(q[i], <<>>, n, p)
        BY <1>1 DEF QueueOrder
    <2>2. Behind(q[i], <<>>, n, new)
        BY <1>3, <2>1, BehindReleased
    <2>3. Earlier(q[i], e)
        BY <2>1 DEF Behind
    <2> QED BY <2>2, <2>3
<1>6. \A i \in 1..(Len(q) + 1) : i \in 1..Len(q) \/ i = Len(q) + 1
    BY <1>1
<1>7. ASSUME NEW i \in DOMAIN s PROVE Behind(s[i], <<>>, n, new)
    <2>1. CASE i \in 1..Len(q)
        BY <1>1, <1>5, <2>1
    <2>2. CASE i = Len(q) + 1
        BY <1>1, <1>4, <2>2
    <2> QED BY <1>1, <1>6, <2>1, <2>2
<1>8. ASSUME NEW i \in DOMAIN s, NEW j \in DOMAIN s, i < j PROVE Earlier(s[i], s[j])
    <2>1. i \in 1..Len(q)
        BY <1>1, <1>8
    <2>2. CASE j \in 1..Len(q)
        <3>1. Earlier(q[i], q[j])
            BY <1>1, <1>8, <2>1, <2>2 DEF QueueOrder
        <3> QED BY <1>1, <2>1, <2>2, <3>1
    <2>3. CASE j = Len(q) + 1
        BY <1>1, <1>5, <2>1, <2>3
    <2> QED BY <1>1, <1>6, <2>2, <2>3
<1>9. QueueOrder(s, n, new)
    BY <1>7, <1>8 DEF QueueOrder
<1> QED BY <1>9 DEF s

\* What the order of the numbers says of the lines of a client.
LEMMA OwedIs ==
    ASSUME StreamSafe, NEW f \in Fds, NEW i \in DOMAIN conn[f].owed
    PROVE  /\ Behind(conn[f].owed[i], sendq, seq, producer)
           /\ Busy => NotAfter(conn[f].owed[i], item)
           /\ conn[f].owed[i] \in Items /\ conn[f].owed[i].seq \in Int
<1>1. conn[f].owed \in Seq(Items)
    BY DEF StreamSafe, ClientShape, Conns
<1>2. conn[f].owed[i] \in Items
    BY <1>1
<1>3. conn[f].owed[i].seq \in Int
    BY <1>2 DEF Items
<1>4. Behind(conn[f].owed[i], sendq, seq, producer) /\ (Busy => NotAfter(conn[f].owed[i], item))
    BY DEF StreamSafe, NumbersInOrder, OwedOrder
<1> QED BY <1>2, <1>3, <1>4

\* Steps that leave the queue, the item and the numbers alone.
LEMMA ServingInOrder ==
    ASSUME StreamSafe, Serving
    PROVE  ClientShape' /\ NumbersInOrder'
<1>1. /\ sendq' = sendq /\ seq' = seq /\ producer' = producer
      /\ Busy' => Busy /\ item' = item
    BY ServingKeeps DEF StreamSafe, queueVars
<1>2. ClientShape' /\ OwedKept(conn', conn)
    <2>1. CASE stop_join \/ Accepting
        BY <2>1, AcceptKeeps
    <2>2. CASE ~(stop_join \/ Accepting)
        <3>1. conn' = conn
            BY <2>2 DEF Serving, start, stop, stop_notify, writer_sleep, writer_serialize,
                        writer_cache_chunks
        <3> QED BY <3>1 DEF StreamSafe, ClientShape, OwedKept
    <2> QED BY <2>1, <2>2
<1>3. OwedOrder(conn', sendq', seq', producer', Busy', item')
    <2> SUFFICES ASSUME NEW f \in Fds, NEW i \in DOMAIN conn'[f].owed
                 PROVE  /\ Behind(conn'[f].owed[i], sendq', seq', producer')
                        /\ Busy' => NotAfter(conn'[f].owed[i], item')
        BY DEF OwedOrder
    <2>1. conn'[f].owed # <<>>
        OBVIOUS
    <2>2. conn'[f].owed = conn[f].owed
        BY <1>2, <2>1 DEF OwedKept
    <2>3. /\ Behind(conn[f].owed[i], sendq, seq, producer)
          /\ Busy => NotAfter(conn[f].owed[i], item)
        BY <2>2, OwedIs
    <2> QED BY <1>1, <2>2, <2>3
<1>4. /\ QueueOrder(sendq, seq, producer)
      /\ Busy => Behind(item, sendq, seq, producer)
    BY DEF StreamSafe, NumbersInOrder
<1>5. NumbersInOrder'
    BY <1>1, <1>3, <1>4 DEF NumbersInOrder
<1> QED BY <1>2, <1>5

\* Numbering an event.
LEMMA NumberingInOrder ==
    ASSUME StreamSafe, Numbering
    PROVE  NumbersInOrder'
<1>1. sendq' = sendq /\ item' = item /\ conn' = conn /\ writer' = writer
    BY NumberingKeeps DEF queueVars, writerVars
<1>2. /\ QueueOrder(sendq, seq, producer)
      /\ Busy => Behind(item, sendq, seq, producer)
      /\ Busy => item \in Items
      /\ sendq \in Seq(Items) /\ DOMAIN producer = Threads /\ seq \in Nat
    BY EventStreamAssumption DEF StreamSafe, NumbersInOrder, QueueShape, ProducerShape
<1>3. \A i \in DOMAIN sendq : sendq[i] \in Items /\ sendq[i].seq \in Int
    <2>1. \A i \in DOMAIN sendq : sendq[i] \in Items
        BY <1>2
    <2>2. \A it \in Items : it.seq \in Int
        BY DEF Items
    <2> QED BY <2>1, <2>2
<1>4. ASSUME \A it, q : it.seq \in Int /\ Behind(it, q, seq, producer) => Behind(it, q, seq', producer')
      PROVE  NumbersInOrder'
    <2>1. QueueOrder(sendq, seq', producer')
        <3>1. \A i \in DOMAIN sendq : Behind(sendq[i], <<>>, seq', producer')
            BY <1>2, <1>3, <1>4 DEF QueueOrder
        <3> QED BY <1>2, <3>1 DEF QueueOrder
    <2>2. Busy => Behind(item, sendq, seq', producer')
        <3>1. item \in Items => item.seq \in Int
            BY DEF Items
        <3> QED BY <1>2, <1>4, <3>1
    <2>3. OwedOrder(conn, sendq, seq', producer', Busy, item)
        <3> SUFFICES ASSUME NEW f \in Fds, NEW i \in DOMAIN conn[f].owed
                     PROVE  /\ Behind(conn[f].owed[i], sendq, seq', producer')
                            /\ Busy => NotAfter(conn[f].owed[i], item)
            BY DEF OwedOrder
        <3>1. /\ Behind(conn[f].owed[i], sendq, seq, producer) /\ conn[f].owed[i].seq \in Int
              /\ Busy => NotAfter(conn[f].owed[i], item)
            BY OwedIs
        <3> QED BY <1>4, <3>1
    <2>4. Busy' = Busy
        BY <1>1 DEF Busy
    <2> QED BY <1>1, <2>1, <2>2, <2>3, <2>4 DEF NumbersInOrder
<1>5. ASSUME NEW t \in Threads, NEW r \in Items, Numbered(t, r) PROVE NumbersInOrder'
    <2> DEFINE e == [at |-> "assigned", item |-> r]
               new == producer'
               m == seq'
    <2>1. new = [producer EXCEPT ![t] = e] /\ m = seq + 1 /\ r.seq = seq + 1 /\ e.item = r
        BY <1>5 DEF Numbered
    <2> HIDE DEF e, new, m
    <2>2. ASSUME NEW it, NEW q, it.seq \in Int, Behind(it, q, seq, producer) PROVE Behind(it, q, m, new)
        <3>1. Behind(it, q, seq + 1, new)
            BY <1>2, <2>1, <2>2, BehindNumbered
        <3> QED BY <2>1, <3>1
    <2> QED BY <1>4, <2>2 DEF new, m
<1>6. ASSUME NEW p, Filtered(p) PROVE NumbersInOrder'
    <2> DEFINE new == producer'
    <2>1. new = [producer EXCEPT !["perception"] = p] /\ seq' = seq /\ p.at = "filtered"
          /\ "perception" \in Threads
        BY <1>6 DEF Filtered, Threads
    <2> HIDE DEF new
    <2>2. p.at # "assigned"
        BY <2>1
    <2>3. ASSUME NEW it, NEW q, Behind(it, q, seq, producer) PROVE Behind(it, q, seq, new)
        BY <1>2, <2>1, <2>2, <2>3, BehindReleased
    <2> QED BY <1>4, <2>1, <2>3 DEF new
<1> QED BY <1>5, <1>6, NumberingCases

\* Queueing an event.
LEMMA EnqueueInOrder ==
    ASSUME StreamSafe, NEW t \in Threads, enqueue_item(t)
    PROVE  NumbersInOrder'
<1> DEFINE e == producer[t].item
           full == Len(sendq) >= depth
           q == IF full THEN Tail(sendq) ELSE sendq
           new == producer'
<1>1. /\ sendq' = Append(q, e) /\ item' = item /\ seq' = seq /\ conn' = conn
      /\ new = [producer EXCEPT ![t] = Idle] /\ producer[t].at = "assigned" /\ (Busy' => Busy)
    BY DEF enqueue_item, Busy
<1>2. /\ QueueOrder(sendq, seq, producer)
      /\ Busy => Behind(item, sendq, seq, producer)
      /\ sendq \in Seq(Items) /\ DOMAIN producer = Threads /\ seq \in Nat /\ depth \in Nat \ {0}
      /\ \A u \in Threads : Producer(producer[u], u, seq)
    BY EventStreamAssumption DEF StreamSafe, NumbersInOrder, QueueShape, ProducerShape
<1>3. e \in Items /\ e = producer[t].item
    BY <1>1, <1>2 DEF Producer, Idle
<1>4. q \in Seq(Items) /\ QueueOrder(q, seq, producer)
      /\ \A i \in DOMAIN q : \E j \in DOMAIN sendq : q[i] = sendq[j]
    <2>1. CASE full
        <3>1. sendq # <<>>
            BY <1>2, <2>1
        <3>2. Tail(sendq) \in Seq(Items)
            BY <1>2, <3>1, HeadTailProperties
        <3>3. QueueOrder(Tail(sendq), seq, producer)
              /\ \A i \in DOMAIN Tail(sendq) : \E j \in DOMAIN sendq : Tail(sendq)[i] = sendq[j]
            BY <1>2, <3>1, QueueTail
        <3> QED BY <2>1, <3>2, <3>3
    <2>2. CASE ~full
        BY <1>2, <2>2
    <2> QED BY <2>1, <2>2
<1> HIDE DEF e, q, new
<1>5. QueueOrder(Append(q, e), seq, new)
    BY <1>1, <1>2, <1>3, <1>4, QueueAppend
<1>6. ASSUME NEW it, Behind(it, sendq, seq, producer) PROVE Behind(it, Append(q, e), seq, new)
    <2>1. Behind(it, q, seq, producer)
        BY <1>4, <1>6, BehindFewer
    <2>2. Behind(it, Append(q, e), seq, producer)
        BY <1>1, <1>3, <1>4, <2>1, BehindQueued
    <2>3. Idle.at # "assigned"
        BY DEF Idle
    <2> QED BY <1>1, <1>2, <2>2, <2>3, BehindReleased
<1>7. OwedOrder(conn, Append(q, e), seq, new, Busy', item)
    <2> SUFFICES ASSUME NEW f \in Fds, NEW i \in DOMAIN conn[f].owed
                 PROVE  /\ Behind(conn[f].owed[i], Append(q, e), seq, new)
                        /\ Busy' => NotAfter(conn[f].owed[i], item)
        BY DEF OwedOrder
    <2>1. /\ Behind(conn[f].owed[i], sendq, seq, producer)
          /\ Busy => NotAfter(conn[f].owed[i], item)
        BY OwedIs
    <2> QED BY <1>1, <1>6, <2>1
<1>8. Busy' => Behind(item, Append(q, e), seq, new)
    BY <1>1, <1>2, <1>6
<1> QED BY <1>1, <1>5, <1>7, <1>8 DEF NumbersInOrder, new

\* Taking the next item.
LEMMA WaitInOrder ==
    ASSUME StreamSafe, writer_wait
    PROVE  NumbersInOrder'
<1>1. seq' = seq /\ producer' = producer /\ conn' = conn
    BY DEF writer_wait, sourceVars
<1>2. QueueOrder(sendq, seq, producer) /\ sendq \in Seq(Items)
    BY DEF StreamSafe, NumbersInOrder, QueueShape
<1>3. CASE sendq = <<>>
    <2>1. sendq' = sendq /\ ~Busy'
        BY <1>3 DEF writer_wait, Busy
    <2>2. OwedOrder(conn, sendq, seq, producer, Busy', item')
        <3> SUFFICES ASSUME NEW f \in Fds, NEW i \in DOMAIN conn[f].owed
                     PROVE  Behind(conn[f].owed[i], sendq, seq, producer)
            BY <2>1 DEF OwedOrder
        <3> QED BY OwedIs
    <2> QED BY <1>1, <1>2, <2>1, <2>2 DEF NumbersInOrder
<1>4. CASE sendq # <<>>
    <2> DEFINE r == Tail(sendq)
               h == Head(sendq)
    <2>1. sendq' = r /\ item' = h
        BY <1>4 DEF writer_wait
    <2>2. QueueOrder(r, seq, producer) /\ Behind(h, r, seq, producer)
          /\ \A i \in DOMAIN r : \E j \in DOMAIN sendq : r[i] = sendq[j]
        BY <1>2, <1>4, QueueTail
    <2>3. 1 \in DOMAIN sendq /\ h = sendq[1] /\ h \in Items
        BY <1>2, <1>4
    <2>4. h.seq \in Int
        BY <2>3 DEF Items
    <2> HIDE DEF r, h
    <2>5. OwedOrder(conn, r, seq, producer, Busy', h)
        <3> SUFFICES ASSUME NEW f \in Fds, NEW i \in DOMAIN conn[f].owed
                     PROVE  /\ Behind(conn[f].owed[i], r, seq, producer)
                            /\ NotAfter(conn[f].owed[i], h)
            BY DEF OwedOrder
        <3> DEFINE o == conn[f].owed[i]
        <3>1. Behind(o, sendq, seq, producer) /\ o.seq \in Int
            BY OwedIs
        <3> HIDE DEF o
        <3>2. Behind(o, r, seq, producer)
            BY <2>2, <3>1, BehindFewer
        <3>3. Earlier(o, h)
            BY <2>3, <3>1 DEF Behind
        <3>4. NotAfter(o, h)
            BY <2>4, <3>1, <3>3 DEF Earlier, NotAfter
        <3> QED BY <3>2, <3>4 DEF o
    <2> QED BY <1>1, <2>1, <2>2, <2>5 DEF NumbersInOrder
<1> QED BY <1>3, <1>4

\* Publishing the item.
LEMMA PublishInOrder ==
    ASSUME StreamSafe, writer_publish \/ writer_first_chunk \/ writer_last_chunk
    PROVE  ClientShape' /\ NumbersInOrder'
<1>1. sendq' = sendq /\ seq' = seq /\ producer' = producer /\ Busy /\ (Busy' => item' = item)
    <2>1. CASE writer_publish
        <3>1. writer' = "idle" /\ writer = "publish" /\ sendq' = sendq /\ seq' = seq /\ producer' = producer
            BY <2>1 DEF writer_publish, queueVars, sourceVars
        <3> QED BY <3>1 DEF Busy
    <2>2. CASE writer_first_chunk
        BY <2>2 DEF writer_first_chunk, queueVars, sourceVars, Busy
    <2>3. CASE writer_last_chunk
        BY <2>3 DEF writer_last_chunk, queueVars, sourceVars, Busy
    <2> QED BY <2>1, <2>2, <2>3
<1>2. item \in Items
    BY <1>1 DEF StreamSafe, QueueShape
<1>3. PICK it \in Items : it.by = item.by /\ it.seq = item.seq /\ publish_json_line(it)
    <2>1. CASE writer_publish \/ writer_first_chunk
        BY <1>2, <2>1 DEF writer_publish, writer_first_chunk
    <2>2. CASE writer_last_chunk
        <3> DEFINE it == [item EXCEPT !.full = FALSE]
        <3>1. publish_json_line(it)
            BY <2>2 DEF writer_last_chunk
        <3>2. it \in Items /\ it.by = item.by /\ it.seq = item.seq
            BY <1>2 DEF Items
        <3> HIDE DEF it
        <3> QED BY <3>1, <3>2
    <2> QED BY <2>1, <2>2
<1>4. ClientShape' /\ OwedGrows(conn', conn, it)
    BY <1>1, <1>3, PublishKeeps
<1>5. /\ QueueOrder(sendq, seq, producer) /\ Behind(item, sendq, seq, producer)
    BY <1>1 DEF StreamSafe, NumbersInOrder
<1>6. Behind(it, sendq, seq, producer) /\ NotAfter(it, item)
    <2>1. Behind(it, sendq, seq, producer)
        BY <1>3, <1>5, SameNumber
    <2>2. it.seq \in Int
        BY <1>3 DEF Items
    <2>3. NotAfter(it, item)
        BY <1>3, <2>2 DEF NotAfter
    <2> QED BY <2>1, <2>3
<1>7. OwedOrder(conn', sendq, seq, producer, Busy', item')
    <2> SUFFICES ASSUME NEW f \in Fds, NEW i \in DOMAIN conn'[f].owed
                 PROVE  /\ Behind(conn'[f].owed[i], sendq, seq, producer)
                        /\ NotAfter(conn'[f].owed[i], item)
        BY <1>1 DEF OwedOrder
    <2>1. CASE conn'[f].owed = conn[f].owed
        BY <1>1, <2>1, OwedIs
    <2>2. CASE conn'[f].owed = <<>>
        BY <2>2
    <2>3. CASE conn'[f].owed = Append(conn[f].owed, it)
        <3> DEFINE o == conn[f].owed
        <3>1. o \in Seq(Items)
            BY DEF StreamSafe, ClientShape, Conns
        <3>2. ASSUME NEW j \in DOMAIN o
              PROVE  Behind(o[j], sendq, seq, producer) /\ NotAfter(o[j], item)
            BY <1>1, <3>2, OwedIs
        <3>3. i \in DOMAIN Append(o, it) /\ conn'[f].owed[i] = Append(o, it)[i]
            BY <2>3
        <3> HIDE DEF o
        <3>4. Len(o) \in Nat /\ DOMAIN o = 1..Len(o) /\ DOMAIN Append(o, it) = 1..(Len(o) + 1)
              /\ Append(o, it)[Len(o) + 1] = it /\ \A j \in 1..Len(o) : Append(o, it)[j] = o[j]
            BY <1>3, <3>1, AppendProperties
        <3>5. CASE i \in 1..Len(o)
            BY <3>2, <3>3, <3>4, <3>5
        <3>6. CASE i = Len(o) + 1
            BY <1>6, <3>3, <3>4, <3>6
        <3> QED BY <3>3, <3>4, <3>5, <3>6
    <2> QED BY <1>4, <2>1, <2>2, <2>3 DEF OwedGrows
<1>8. NumbersInOrder'
    <2>1. Busy' => Behind(item', sendq', seq', producer')
        BY <1>1, <1>5
    <2>2. QueueOrder(sendq', seq', producer')
        BY <1>1, <1>5
    <2>3. OwedOrder(conn', sendq', seq', producer', Busy', item')
        BY <1>1, <1>7
    <2> QED BY <2>1, <2>2, <2>3 DEF NumbersInOrder
<1> QED BY <1>4, <1>8

\* The invariant is inductive.
LEMMA StreamSafeInductive ==
    /\ Init => StreamSafe
    /\ StreamSafe /\ [Next]_vars => StreamSafe'
<1>1. ASSUME Init PROVE StreamSafe
    <2>1. ServerShape /\ ~Busy
        BY <1>1 DEF Init, ServerShape, Busy
    <2>2. QueueShape
        <3>1. <<>> \in Seq(Items) /\ Len(<<>>) = 0
            OBVIOUS
        <3> QED BY <1>1, <2>1, <3>1, EventStreamAssumption DEF Init, QueueShape
    <2>3. ProducerShape
        BY <1>1, EventStreamAssumption DEF Init, ProducerShape, Producer
    <2>4. MapShape
        <3>1. MaxTime \in Nat
            BY EventStreamAssumption DEF MaxTime
        <3>2. EmptyMap \in Map /\ \A c \in Cells : EmptyMap[c] = 0
            BY <3>1 DEF EmptyMap, Map
        <3>3. l1 = EmptyMap /\ seq = 0 /\ watermark = 0 /\ l2_published = FALSE
            BY <1>1 DEF Init
        <3>4. \A c \in Cells : l1[c] <= seq + (IF Filtering(producer) THEN 2 ELSE 1)
            BY <3>2, <3>3
        <3>5. watermark \in 0..(MaxTime + 1)
            BY <3>1, <3>3
        <3> QED BY <3>2, <3>3, <3>4, <3>5 DEF MapShape
    <2>5. CacheShape
        BY <1>1 DEF Init, CacheShape
    <2>6. ClientShape /\ \A f \in Fds : conn[f].owed = <<>>
        <3>1. conn = [f \in Fds |-> Away]
            BY <1>1 DEF Init
        <3>2. Client(Away) /\ Away \in Conns /\ Away.owed = <<>>
            BY AwayIsClient DEF Client, Away
        <3> QED BY <3>1, <3>2 DEF ClientShape
    <2>7. NumbersInOrder
        <3>1. sendq = <<>>
            BY <1>1 DEF Init
        <3>2. QueueOrder(sendq, seq, producer)
            BY <3>1 DEF QueueOrder
        <3>3. OwedOrder(conn, sendq, seq, producer, Busy, item)
            BY <2>6 DEF OwedOrder
        <3> QED BY <2>1, <3>2, <3>3 DEF NumbersInOrder
    <2> QED BY <2>1, <2>2, <2>3, <2>4, <2>5, <2>6, <2>7 DEF StreamSafe
<1>2. ASSUME StreamSafe, Next PROVE StreamSafe'
    <2>1. ServerShape' /\ QueueShape' /\ ProducerShape' /\ MapShape' /\ CacheShape'
        BY <1>2, ServerStep, QueueStep, ProducerStep, CacheStep DEF StreamSafe
    <2>2. CASE Serving
        BY <1>2, <2>1, <2>2, ServingInOrder DEF StreamSafe
    <2>3. ASSUME conn' = conn PROVE ClientShape'
        BY <1>2, <2>3 DEF StreamSafe, ClientShape
    <2>4. CASE Numbering
        <3>1. conn' = conn
            BY <2>4, NumberingKeeps
        <3>2. NumbersInOrder'
            BY <1>2, <2>4, NumberingInOrder
        <3> QED BY <2>1, <2>3, <3>1, <3>2 DEF StreamSafe
    <2>5. ASSUME NEW t \in Threads, enqueue_item(t) PROVE StreamSafe'
        <3>1. conn' = conn
            BY <2>5 DEF enqueue_item
        <3>2. NumbersInOrder'
            BY <1>2, <2>5, EnqueueInOrder
        <3> QED BY <2>1, <2>3, <3>1, <3>2 DEF StreamSafe
    <2>6. CASE writer_wait
        <3>1. conn' = conn
            BY <2>6 DEF writer_wait
        <3>2. NumbersInOrder'
            BY <1>2, <2>6, WaitInOrder
        <3> QED BY <2>1, <2>3, <3>1, <3>2 DEF StreamSafe
    <2>7. CASE writer_publish \/ writer_first_chunk \/ writer_last_chunk
        BY <1>2, <2>1, <2>7, PublishInOrder DEF StreamSafe
    <2> QED BY <1>2, <2>2, <2>4, <2>5, <2>6, <2>7 DEF Next, Producing, Writing, Serving, Numbering
<1>3. ASSUME StreamSafe, UNCHANGED vars PROVE StreamSafe'
    <2>1. UNCHANGED <<running, stopper, httpd, depth, writer, item, sendq, dropped, seq, producer, l1,
                      l2_published, watermark, cache, conn>>
        BY <1>3 DEF vars, serverVars, writerVars, queueVars, sourceVars
    <2>2. Busy' = Busy
        BY <2>1 DEF Busy
    <2>3. ServerShape' /\ QueueShape'
        BY <1>3, <2>1, <2>2 DEF StreamSafe, ServerShape, QueueShape
    <2>4. ProducerShape' /\ MapShape'
        BY <1>3, <2>1 DEF StreamSafe, ProducerShape, MapShape
    <2>5. CacheShape' /\ ClientShape'
        BY <1>3, <2>1 DEF StreamSafe, CacheShape, ClientShape
    <2>6. NumbersInOrder'
        BY <1>3, <2>1, <2>2 DEF StreamSafe, NumbersInOrder
    <2> QED BY <2>3, <2>4, <2>5, <2>6 DEF StreamSafe
<1> QED BY <1>1, <1>2, <1>3

\* RuntimeEventStreamServer: whatever the sockets take and whichever client
\* comes or goes, every client is sent whole lines, each once, and the events of
\* a thread in the order of their numbers.
THEOREM LinesAreWhole == Spec => []LinesWholeInOrder
<1>1. StreamSafe => LinesWholeInOrder
    <2> SUFFICES ASSUME StreamSafe PROVE LinesWholeInOrder
        OBVIOUS
    <2>1. \A t \in Threads : producer[t].at \in {"idle", "filtered", "assigned"}
        <3> TAKE t \in Threads
        <3>1. Producer(producer[t], t, seq)
            BY DEF StreamSafe, ProducerShape
        <3> QED BY <3>1 DEF Producer, Idle
    <2>2. \A f \in Fds : /\ conn[f].st \in {"away", "asking", "greeted", "open"}
                         /\ Len(conn[f].pend) <= PendingDepth
        BY DEF StreamSafe, ClientShape, Client, Conns
    <2>3. TypeOK
        BY <2>1, <2>2 DEF StreamSafe, ServerShape, QueueShape, ProducerShape, MapShape, CacheShape, TypeOK
    <2>4. WholeLines
        <3> SUFFICES ASSUME NEW f \in Fds
                     PROVE  conn[f].got \o FlattenSeq(conn[f].pend) = Bytes(conn[f].replay \o conn[f].owed)
            BY DEF WholeLines
        <3>1. Join(Bytes(conn[f].replay \o conn[f].owed), conn[f].got, FlattenSeq(conn[f].pend))
            BY DEF StreamSafe, ClientShape, Client
        <3> QED BY <3>1 DEF Join
    <2>5. ThreadOrder
        <3>1. \A f \in Fds : InOrder(conn[f].owed)
            BY DEF StreamSafe, ClientShape, Client
        <3> QED BY <3>1 DEF InOrder, NotAfter, ThreadOrder
    <2> QED BY <2>3, <2>4, <2>5 DEF LinesWholeInOrder
<1> QED BY <1>1, StreamSafeInductive, PTL DEF Spec

-----------------------------------------------------------------------------
(* Level 1 on the browsers: what the publications are to each other. *)

\* Time t is not after map m: no observation, or not newer than one m holds.
Old(t, m) == t <= 1 \/ \E d \in Cells : t <= m[d]

\* m2 is m1 with some cells observed again, later than all of m1.
Continues(m1, m2) == \A c \in Cells : m2[c] = m1[c] \/ ~Old(m2[c], m1)

\* cells holds cells of map m as they are there, and all that are newer than a.
PartOf(cells, m) == \A c \in Cells : cells[c] = 0 \/ cells[c] = m[c]
Covers(a, cells, m) == \A c \in Cells : ~Old(m[c], a) => cells[c] = m[c]

\* No event numbered after s, up to k, was dropped.
Undropped(dr, s, k) == \A d \in dr : ~(s < d /\ d <= k)

\* The Level 1 items a client is owed or still to be sent, numbered after it came:
\* in its lines o, with the writer if busy, in the queue, and with the threads.
OnTheWay(x, o, q, busy, it, p) ==
    \/ \E i \in DOMAIN o : x = o[i]
    \/ busy /\ x = it
    \/ \E i \in DOMAIN q : x = q[i]
    \/ \E t \in Threads : p[t].at = "assigned" /\ x = p[t].item

Pipe(c, q, busy, it, p) ==
    {x \in Items : IsLevel1(x, c.since) /\ OnTheWay(x, c.owed, q, busy, it, p)}

\* The items P numbered after s, up to n, show the map m growing.
Growing(P, s, n, m) ==
    /\ \A x \in P : /\ x.by = "perception" /\ s < x.seq /\ x.seq <= n
                    /\ Continues(x.map, m) /\ PartOf(x.cells, x.map)
    /\ \A x, y \in P : x.seq <= y.seq => Continues(x.map, y.map)

\* An item before which nothing was dropped is the whole map, or a delta that
\* holds all that is newer than an item before it.
FullItem(b) == b.full /\ b.cells = b.map
Rests(P, b) == ~b.full /\ \E a \in P : a.seq < b.seq /\ Covers(a.map, b.cells, b.map)
Based(P, s, dr) == \A b \in P : Undropped(dr, s, b.seq) => FullItem(b) \/ Rests(P, b)

\* The same of the next publication: of the cells p has filtered, or of those it
\* will filter by the watermark w.
FilterBased(P, m, p) ==
    \/ p.full /\ p.cells = m
    \/ ~p.full /\ \E a \in P : Covers(a.map, p.cells, m)
MarkBased(P, w) == w = 0 \/ \E a \in P : Old(w, a.map)
NextBased(P, s, dr, n, m, w, p) ==
    Undropped(dr, s, n) => IF p.at = "filtered" THEN FilterBased(P, m, p) ELSE MarkBased(P, w)

\* What holds of a browser that came with number s.
Level1Sound(P, s, dr, n, m, w, p) ==
    /\ Growing(P, s, n, m)
    /\ Based(P, s, dr)
    /\ NextBased(P, s, dr, n, m, w, p)

PipeOf(f) == Pipe(conn[f], sendq, Busy, item, producer)
Watched(c) == c.st = "open" /\ c.clean

\* The inductive invariant, with StreamSafe.
NotStarted == stopper = "off" => writer = "off"
ChunksAreEsdf == writer \in {"chunks", "last chunk", "cache"} => item.kind = "esdf"
FilterIsPart == Filtering(producer) => /\ Old(producer["perception"].mark, l1)
                                       /\ PartOf(producer["perception"].cells, l1)
SinceIsPast == \A f \in Fds : conn[f].since <= seq
SoundFor(f) ==
    Level1Sound(PipeOf(f), conn[f].since, dropped, seq, l1, watermark, producer["perception"])
BrowsersSound == \A f \in Fds : Watched(conn[f]) => SoundFor(f)
Level1Safe == NotStarted /\ ChunksAreEsdf /\ FilterIsPart /\ SinceIsPast /\ BrowsersSound

\* A time not after a map is not after what continues it.
LEMMA OldStays ==
    ASSUME NEW t \in Int, NEW a \in Map, NEW b \in Map, Continues(a, b), Old(t, a)
    PROVE  Old(t, b)
<1>1. CASE t <= 1
    BY <1>1 DEF Old
<1>2. CASE \E d \in Cells : t <= a[d]
    <2>1. PICK d \in Cells : t <= a[d]
        BY <1>2
    <2>2. a[d] \in Int /\ b[d] \in Int
        BY DEF Map
    <2>3. b[d] = a[d] \/ b[d] > a[d]
        BY <2>2 DEF Continues, Old
    <2>4. t <= b[d]
        BY <2>1, <2>2, <2>3
    <2> QED BY <2>4 DEF Old
<1> QED BY <1>1, <1>2 DEF Old

\* Continuing is reflexive and transitive.
LEMMA ContinuesOrder ==
    /\ \A a \in Map : Continues(a, a)
    /\ \A a, b, c \in Map : Continues(a, b) /\ Continues(b, c) => Continues(a, c)
<1>1. \A a \in Map : Continues(a, a)
    BY DEF Continues
<1>2. ASSUME NEW a \in Map, NEW b \in Map, NEW c \in Map, Continues(a, b), Continues(b, c)
      PROVE  Continues(a, c)
    <2> SUFFICES ASSUME NEW d \in Cells, Old(c[d], a) PROVE c[d] = a[d]
        BY DEF Continues
    <2>1. c[d] \in Int
        BY DEF Map
    <2>2. Old(c[d], b)
        BY <1>2, <2>1, OldStays
    <2>3. c[d] = b[d]
        BY <1>2, <2>2 DEF Continues
    <2>4. Old(b[d], a)
        BY <2>3
    <2> QED BY <1>2, <2>3, <2>4 DEF Continues
<1> QED BY <1>1, <1>2

\* What covers what is newer than a covers what is newer than its continuation.
LEMMA CoversLater ==
    ASSUME NEW a \in Map, NEW b \in Map, Continues(a, b), NEW cells, NEW m \in Map, Covers(a, cells, m)
    PROVE  Covers(b, cells, m)
<1> SUFFICES ASSUME NEW c \in Cells, ~Old(m[c], b) PROVE cells[c] = m[c]
    BY DEF Covers
<1>1. m[c] \in Int
    BY DEF Map
<1>2. ~Old(m[c], a)
    BY <1>1, OldStays
<1> QED BY <1>2 DEF Covers

\* A viewer that shows a and merges a delta with all that is newer shows the map.
LEMMA MergedIsMap ==
    ASSUME NEW b \in Items, NEW a \in Map, Continues(a, b.map), PartOf(b.cells, b.map), ~b.full,
           Covers(a, b.cells, b.map)
    PROVE  Apply(a, b) = b.map
<1>1. b.cells \in Map /\ b.map \in Map
    BY DEF Items
<1>2. Apply(a, b) = [c \in Cells |-> IF b.cells[c] > 0 THEN b.cells[c] ELSE a[c]]
    BY DEF Apply
<1>3. ASSUME NEW c \in Cells PROVE (IF b.cells[c] > 0 THEN b.cells[c] ELSE a[c]) = b.map[c]
    <2>1. b.cells[c] \in Nat /\ b.map[c] \in Nat
        BY <1>1, EventStreamAssumption DEF Map, MaxTime
    <2>2. CASE b.cells[c] > 0
        BY <2>1, <2>2 DEF PartOf
    <2>3. CASE ~(b.cells[c] > 0)
        <3>1. b.cells[c] = 0
            BY <2>1, <2>3
        <3>2. Old(b.map[c], a)
            <4>1. CASE b.map[c] = 0
                BY <4>1 DEF Old
            <4>2. CASE b.map[c] # 0
                BY <3>1, <4>2 DEF Covers
            <4> QED BY <4>1, <4>2
        <3>3. b.map[c] = a[c]
            BY <3>2 DEF Continues
        <3> QED BY <2>3, <3>3
    <2> QED BY <2>2, <2>3
<1>4. b.map = [c \in Cells |-> b.map[c]]
    BY <1>1 DEF Map
<1> QED BY <1>2, <1>3, <1>4

\* The numbers of what is on the way.
LEMMA ItemTypes ==
    ASSUME NEW x \in Items
    PROVE  x.seq \in Int /\ x.map \in Map /\ x.cells \in Map /\ x.full \in BOOLEAN
BY DEF Items

\* Dropping more leaves less undropped.
LEMMA UndroppedBefore ==
    ASSUME NEW dr \in SUBSET Int, NEW dr2 \in SUBSET Int, dr \subseteq dr2, NEW s \in Int,
           NEW k \in Int, NEW k2 \in Int, k <= k2, Undropped(dr2, s, k2)
    PROVE  Undropped(dr, s, k)
<1> SUFFICES ASSUME NEW d \in dr, s < d, d <= k PROVE FALSE
    BY DEF Undropped
<1>1. d \in dr2 /\ d \in Int /\ d <= k2
    OBVIOUS
<1> QED BY <1>1 DEF Undropped

\* Items that leave are counted as dropped, numbers are given out, and the
\* watermark is reset: what holds of a browser stays.
LEMMA SoundTransfer ==
    ASSUME NEW P \in SUBSET Items, NEW Q \in SUBSET P, NEW s \in Int,
           NEW dr \in SUBSET Int, NEW dr2 \in SUBSET Int, dr \subseteq dr2,
           \A x \in P : x \in Q \/ x.seq \in dr2,
           NEW n \in Int, NEW n2 \in Int, n <= n2, NEW m, NEW w, NEW w2, w2 = w \/ w2 = 0,
           NEW p, NEW p2, p.at = "filtered" <=> p2.at = "filtered", p.at = "filtered" => p2 = p,
           Level1Sound(P, s, dr, n, m, w, p)
    PROVE  Level1Sound(Q, s, dr2, n2, m, w2, p2)
<1>1. Growing(P, s, n, m) /\ Based(P, s, dr) /\ NextBased(P, s, dr, n, m, w, p)
    BY DEF Level1Sound
<1>2. Growing(Q, s, n2, m)
    <2>1. ASSUME NEW x \in Q PROVE x.seq <= n2
        <3>1. x.seq \in Int
            BY ItemTypes
        <3>2. x.seq <= n
            BY <1>1 DEF Growing
        <3> QED BY <3>1, <3>2
    <2> QED BY <1>1, <2>1 DEF Growing
<1>3. ASSUME NEW a \in P, NEW k \in Int, a.seq <= k, Undropped(dr2, s, k) PROVE a \in Q
    <2>1. s < a.seq
        BY <1>1 DEF Growing
    <2>2. a.seq \notin dr2
        BY <1>3, <2>1 DEF Undropped
    <2> QED BY <2>2
<1>4. Based(Q, s, dr2)
    <2> SUFFICES ASSUME NEW b \in Q, Undropped(dr2, s, b.seq) PROVE FullItem(b) \/ Rests(Q, b)
        BY DEF Based
    <2>1. b.seq \in Int
        BY ItemTypes
    <2>2. Undropped(dr, s, b.seq)
        BY <2>1, UndroppedBefore
    <2>3. FullItem(b) \/ Rests(P, b)
        BY <1>1, <2>2 DEF Based
    <2>4. ASSUME Rests(P, b) PROVE Rests(Q, b)
        <3>1. PICK a \in P : a.seq < b.seq /\ Covers(a.map, b.cells, b.map)
            BY <2>4 DEF Rests
        <3>2. a.seq \in Int
            BY ItemTypes
        <3>3. a.seq <= b.seq
            BY <2>1, <3>1, <3>2
        <3>4. a \in Q
            BY <1>3, <2>1, <3>3
        <3> QED BY <2>4, <3>1, <3>4 DEF Rests
    <2> QED BY <2>3, <2>4
<1>5. NextBased(Q, s, dr2, n2, m, w2, p2)
    <2> SUFFICES ASSUME Undropped(dr2, s, n2)
                 PROVE  IF p2.at = "filtered" THEN FilterBased(Q, m, p2) ELSE MarkBased(Q, w2)
        BY DEF NextBased
    <2>1. Undropped(dr, s, n)
        BY UndroppedBefore
    <2>2. \A a \in P : a \in Q
        <3> TAKE a \in P
        <3>1. a.seq \in Int
            BY ItemTypes
        <3>2. a.seq <= n2
            BY <1>1, <3>1 DEF Growing
        <3> QED BY <1>3, <3>2
    <2>3. CASE p2.at = "filtered"
        <3>1. p.at = "filtered" /\ p2 = p
            BY <2>3
        <3>2. FilterBased(P, m, p)
            BY <1>1, <2>1, <3>1 DEF NextBased
        <3>3. FilterBased(Q, m, p)
            BY <2>2, <3>2 DEF FilterBased
        <3> QED BY <3>1, <3>3
    <2>4. CASE p2.at # "filtered"
        <3>1. MarkBased(P, w)
            BY <1>1, <2>1, <2>4 DEF NextBased
        <3>2. MarkBased(Q, w2)
            BY <2>2, <3>1 DEF MarkBased
        <3> QED BY <2>4, <3>2
    <2> QED BY <2>3, <2>4
<1> QED BY <1>2, <1>4, <1>5 DEF Level1Sound

\* The cells filtered by watermark w are a part of the map, and hold all that is
\* newer than a map w is not after.
LEMMA NewerCovers ==
    ASSUME NEW m \in Map, NEW w \in Nat
    PROVE  /\ Newer(m, w) \in Map /\ PartOf(Newer(m, w), m)
           /\ w = 0 => Newer(m, w) = m
           /\ \A a \in Map : Old(w, a) => Covers(a, Newer(m, w), m)
           /\ Old(IF Newest(Newer(m, w)) = 0 THEN 1 ELSE Newest(Newer(m, w)), m)
<1> DEFINE k == Newer(m, w)
<1>0. MaxTime \in Nat /\ \A c \in Cells : m[c] \in 0..MaxTime
    BY EventStreamAssumption DEF Map, MaxTime
<1>1. \A c \in Cells : k[c] = IF m[c] > w THEN m[c] ELSE 0
    BY DEF Newer
<1>2. k \in Map
    BY <1>0 DEF Newer, Map
<1>3. w = 0 => k = m
    <2>1. ASSUME w = 0, NEW c \in Cells PROVE (IF m[c] > w THEN m[c] ELSE 0) = m[c]
        BY <1>0, <2>1
    <2>2. m = [c \in Cells |-> m[c]]
        BY DEF Map
    <2> QED BY <2>1, <2>2 DEF Newer
<1> HIDE DEF k
<1>4. PartOf(k, m)
    BY <1>1 DEF PartOf
<1>5. ASSUME NEW a \in Map, Old(w, a) PROVE Covers(a, k, m)
    <2> SUFFICES ASSUME NEW c \in Cells, ~Old(m[c], a) PROVE k[c] = m[c]
        BY DEF Covers
    <2>1. m[c] \in Int /\ m[c] > 1 /\ \A d \in Cells : m[c] > a[d] /\ a[d] \in Int
        <3>1. m[c] \in Int /\ \A d \in Cells : a[d] \in Int
            BY DEF Map
        <3> QED BY <3>1 DEF Old
    <2>2. m[c] > w
        <3>1. CASE w <= 1
            BY <2>1, <3>1
        <3>2. CASE \E d \in Cells : w <= a[d]
            <4>1. PICK d \in Cells : w <= a[d]
                BY <3>2
            <4>2. m[c] > a[d] /\ a[d] \in Int
                BY <2>1
            <4> QED BY <2>1, <4>1, <4>2
        <3> QED BY <1>5, <3>1, <3>2 DEF Old
    <2> QED BY <1>1, <2>2
<1>6. Old(IF Newest(k) = 0 THEN 1 ELSE Newest(k), m)
    <2>1. Newest(k) \in 0..MaxTime /\ (Newest(k) = 0 \/ \E c \in Cells : k[c] = Newest(k))
        BY <1>2, NewestIs
    <2> DEFINE u == Newest(k)
    <2> HIDE DEF u
    <2>2. CASE u = 0
        BY <2>2 DEF Old, u
    <2>3. CASE u # 0
        <3>1. PICK c \in Cells : k[c] = u
            BY <2>1, <2>3 DEF u
        <3>2. m[c] = u
            BY <1>1, <2>3, <3>1
        <3>3. u <= m[c]
            BY <1>0, <3>2
        <3>4. Old(u, m)
            BY <3>3 DEF Old
        <3> QED BY <2>3, <3>4 DEF u
    <2> QED BY <2>2, <2>3
<1> QED BY <1>2, <1>3, <1>4, <1>5, <1>6 DEF k

\* The perception thread has observed more and filtered it.
LEMMA SoundFiltered ==
    ASSUME NEW P \in SUBSET Items, NEW s \in Int, NEW dr, NEW n \in Int, NEW m \in Map, NEW m2 \in Map,
           Continues(m, m2), NEW w \in Nat, NEW p, p.at # "filtered", NEW p2, p2.at = "filtered",
           p2.full = (w = 0), p2.cells = Newer(m2, w),
           Level1Sound(P, s, dr, n, m, w, p)
    PROVE  Level1Sound(P, s, dr, n, m2, w, p2)
<1>1. Growing(P, s, n, m) /\ Based(P, s, dr) /\ NextBased(P, s, dr, n, m, w, p)
    BY DEF Level1Sound
<1>2. Growing(P, s, n, m2)
    <2>1. ASSUME NEW x \in P PROVE Continues(x.map, m2)
        <3>1. x.map \in Map /\ Continues(x.map, m)
            BY <1>1, ItemTypes DEF Growing
        <3> QED BY <3>1, ContinuesOrder
    <2> QED BY <1>1, <2>1 DEF Growing
<1>3. NextBased(P, s, dr, n, m2, w, p2)
    <2> SUFFICES ASSUME Undropped(dr, s, n) PROVE FilterBased(P, m2, p2)
        BY DEF NextBased
    <2>1. MarkBased(P, w)
        BY <1>1 DEF NextBased
    <2>2. CASE w = 0
        <3>1. p2.full /\ p2.cells = m2
            BY <2>2, NewerCovers
        <3> QED BY <3>1 DEF FilterBased
    <2>3. CASE w # 0
        <3>1. PICK a \in P : Old(w, a.map)
            BY <2>1, <2>3 DEF MarkBased
        <3>2. a.map \in Map
            BY ItemTypes
        <3>3. Covers(a.map, Newer(m2, w), m2)
            BY <3>1, <3>2, NewerCovers
        <3> QED BY <2>3, <3>3 DEF FilterBased
    <2> QED BY <2>2, <2>3
<1> QED BY <1>1, <1>2, <1>3 DEF Level1Sound

\* It has numbered its publication.
LEMMA SoundNumbered ==
    ASSUME NEW P \in SUBSET Items, NEW s \in Int, NEW dr \in SUBSET Int, NEW n \in Int, s <= n, NEW m \in Map,
           NEW w, NEW p, p.at = "filtered", Old(p.mark, m), PartOf(p.cells, m), NEW p2, p2.at # "filtered",
           NEW it \in Items, it.by = "perception", it.seq = n + 1, it.full = p.full, it.cells = p.cells,
           it.map = m, NEW Q \in SUBSET Items, \A x \in Items : x \in Q <=> x \in P \/ x = it,
           Level1Sound(P, s, dr, n, m, w, p)
    PROVE  Level1Sound(Q, s, dr, n + 1, m, p.mark, p2)
<1>1. Growing(P, s, n, m) /\ Based(P, s, dr) /\ NextBased(P, s, dr, n, m, w, p)
    BY DEF Level1Sound
<1>2. /\ \A x \in P : x \in Q /\ x.seq \in Int /\ x.seq <= n
      /\ \A x \in Q : x \in P \/ x = it
      /\ it \in Q
    <2>1. \A x \in P : x \in Q /\ x.seq \in Int /\ x.seq <= n
        BY <1>1, ItemTypes DEF Growing
    <2> QED BY <2>1
<1>3. ASSUME NEW x \in Q
      PROVE  /\ x.by = "perception" /\ s < x.seq /\ x.seq <= n + 1
             /\ Continues(x.map, m) /\ PartOf(x.cells, x.map)
    <2>1. CASE x \in P
        <3>1. x.seq \in Int /\ x.seq <= n
            BY <1>2, <2>1
        <3>2. x.seq <= n + 1
            BY <3>1
        <3> QED BY <1>1, <2>1, <3>2 DEF Growing
    <2>2. CASE x = it
        BY <2>2, ContinuesOrder
    <2> QED BY <1>2, <2>1, <2>2
<1>4. ASSUME NEW x \in Q, NEW y \in Q, x.seq <= y.seq PROVE Continues(x.map, y.map)
    <2>1. CASE x \in P /\ y \in P
        BY <1>1, <1>4, <2>1 DEF Growing
    <2>2. CASE y = it
        BY <1>3, <2>2
    <2>3. CASE x = it /\ y \in P
        <3>1. y.seq \in Int /\ y.seq <= n
            BY <1>2, <2>3
        <3> QED BY <1>4, <2>3, <3>1
    <2> QED BY <1>2, <2>1, <2>2, <2>3
<1>5. Growing(Q, s, n + 1, m)
    BY <1>3, <1>4 DEF Growing
<1>6. Based(Q, s, dr)
    <2> SUFFICES ASSUME NEW b \in Q, Undropped(dr, s, b.seq) PROVE FullItem(b) \/ Rests(Q, b)
        BY DEF Based
    <2>1. CASE b \in P
        <3>1. FullItem(b) \/ Rests(P, b)
            BY <1>1, <2>1 DEF Based
        <3> QED BY <1>2, <3>1 DEF Rests
    <2>2. CASE b = it
        <3>1. Undropped(dr, s, n)
            <4>1. n + 1 \in Int /\ n <= n + 1 /\ Undropped(dr, s, n + 1)
                BY <2>2
            <4> QED BY <4>1, UndroppedBefore
        <3>2. FilterBased(P, m, p)
            BY <1>1, <3>1 DEF NextBased
        <3>3. CASE p.full /\ p.cells = m
            BY <2>2, <3>3 DEF FullItem
        <3>4. CASE ~p.full /\ \E a \in P : Covers(a.map, p.cells, m)
            <4>1. PICK a \in P : Covers(a.map, p.cells, m)
                BY <3>4
            <4>2. a \in Q /\ a.seq < it.seq
                BY <1>2, <4>1
            <4>3. Rests(Q, it)
                BY <3>4, <4>1, <4>2 DEF Rests
            <4> QED BY <2>2, <4>3
        <3> QED BY <3>2, <3>3, <3>4 DEF FilterBased
    <2> QED BY <1>2, <2>1, <2>2
<1>7. MarkBased(Q, p.mark)
    BY <1>2 DEF MarkBased
<1> QED BY <1>5, <1>6, <1>7 DEF Level1Sound, NextBased

\* Of a browser that has just come, whose next publication is a full one.
LEMMA SoundFresh ==
    ASSUME NEW P, P = {}, NEW s, NEW dr, NEW n, NEW m, NEW p, p.at # "filtered"
    PROVE  Level1Sound(P, s, dr, n, m, 0, p)
BY DEF Level1Sound, Growing, Based, NextBased, MarkBased

-----------------------------------------------------------------------------
(* Level 1 on the browsers: the steps. *)

LEMMA PipeTypes ==
    ASSUME StreamSafe, NEW f \in Fds
    PROVE  /\ PipeOf(f) \in SUBSET Items /\ dropped \in SUBSET Int /\ seq \in Int /\ watermark \in Nat
           /\ conn[f].since \in Int /\ l1 \in Map /\ conn[f].owed \in Seq(Items) /\ sendq \in Seq(Items)
<1>1. dropped \subseteq 1..MaxSeq /\ seq \in 0..MaxSeq /\ l1 \in Map /\ watermark \in 0..(MaxTime + 1)
      /\ sendq \in Seq(Items)
    BY DEF StreamSafe, QueueShape, ProducerShape, MapShape
<1>2. conn[f].since \in Int /\ conn[f].owed \in Seq(Items)
    BY DEF StreamSafe, ClientShape, Conns
<1>3. PipeOf(f) \in SUBSET Items
    BY DEF PipeOf, Pipe
<1>4. watermark \in Nat
    BY <1>1, EventStreamAssumption DEF MaxTime
<1> QED BY <1>1, <1>2, <1>3, <1>4

\* What is on the way to a client.
LEMMA PipeIs ==
    ASSUME NEW f \in Fds, NEW x
    PROVE  /\ x \in PipeOf(f) <=>
                 /\ x \in Items /\ IsLevel1(x, conn[f].since)
                 /\ OnTheWay(x, conn[f].owed, sendq, Busy, item, producer)
           /\ x \in PipeOf(f)' <=>
                 /\ x \in Items /\ IsLevel1(x, conn'[f].since)
                 /\ OnTheWay(x, conn'[f].owed, sendq', Busy', item', producer')
<1>1. x \in PipeOf(f) <=>
                 /\ x \in Items /\ IsLevel1(x, conn[f].since)
                 /\ OnTheWay(x, conn[f].owed, sendq, Busy, item, producer)
    BY DEF PipeOf, Pipe
<1>2. x \in PipeOf(f)' <=>
                 /\ x \in Items /\ IsLevel1(x, conn'[f].since)
                 /\ OnTheWay(x, conn'[f].owed, sendq', Busy', item', producer')
    BY DEF PipeOf, Pipe
<1> QED BY <1>1, <1>2

\* A browser that stays: nothing joins what is on the way to it, and what leaves
\* was dropped.
LEMMA SoundKept ==
    ASSUME StreamSafe, StreamSafe', BrowsersSound, NEW f \in Fds, Watched(conn[f]),
           conn'[f].since = conn[f].since,
           \A x \in PipeOf(f)' : x \in PipeOf(f),
           \A x \in PipeOf(f) : x \in PipeOf(f)' \/ x.seq \in dropped',
           dropped \subseteq dropped', seq <= seq', l1' = l1, watermark' = watermark \/ watermark' = 0,
           Filtering(producer) <=> Filtering(producer'),
           Filtering(producer) => producer'["perception"] = producer["perception"]
    PROVE  SoundFor(f)'
<1> DEFINE P == PipeOf(f)
           Q == PipeOf(f)'
           s == conn[f].since
           dr == dropped
           dr2 == dropped'
           n2 == seq'
           w2 == watermark'
           p == producer["perception"]
           p2 == producer'["perception"]
<1>1. P \in SUBSET Items /\ dr \in SUBSET Int /\ seq \in Int /\ s \in Int
    BY PipeTypes
<1>2. dr2 \in SUBSET Int /\ n2 \in Int
    BY DEF StreamSafe, QueueShape, ProducerShape
<1>3. Q \in SUBSET P /\ dr \subseteq dr2 /\ (\A x \in P : x \in Q \/ x.seq \in dr2) /\ seq <= n2
      /\ (w2 = watermark \/ w2 = 0)
    OBVIOUS
<1>4. (p.at = "filtered" <=> p2.at = "filtered") /\ (p.at = "filtered" => p2 = p)
    BY DEF Filtering
<1>5. Level1Sound(P, s, dr, seq, l1, watermark, p)
    BY DEF BrowsersSound, SoundFor
<1> HIDE DEF P, Q, s, dr, dr2, n2, w2, p, p2
<1>6. Level1Sound(Q, s, dr2, n2, l1, w2, p2)
    BY <1>1, <1>2, <1>3, <1>4, <1>5, SoundTransfer
<1> QED BY <1>6 DEF SoundFor, Q, s, dr2, n2, w2, p2

\* What the accept threads, stop() and the other serving steps do to a client.
LEMMA ServingClient ==
    ASSUME StreamSafe, Serving, NEW f \in Fds
    PROVE  \/ conn'[f] = conn[f]
           \/ ~Watched(conn'[f]) /\ conn'[f].since \in {0, seq, conn[f].since}
           \/ http_register(f)
<1>0. conn \in [Fds -> Conns] /\ \A g \in Fds : Client(conn[g])
    BY DEF StreamSafe, ClientShape
<1>1. Away.st = "away" /\ Away.since = 0 /\ Away.clean = FALSE
    BY DEF Away
<1>2. CASE stop_join
    <2>1. conn'[f] = Away
        BY <1>2 DEF stop_join
    <2> QED BY <1>1, <2>1 DEF Watched
<1>3. ASSUME NEW g \in Fds, accept_client(g) \/ http_accept(g) \/ http_answer(g) \/ http_events(g), f # g
      PROVE  conn'[f] = conn[f]
    BY <1>0, <1>3 DEF accept_client, http_accept, http_answer, http_events
<1>4. ASSUME NEW g \in Fds, http_register(g), f # g
      PROVE  conn'[f] = conn[f]
    BY <1>0, <1>4 DEF http_register
<1>5. CASE accept_client(f)
    <2> DEFINE d == [Away EXCEPT !.st = "open", !.since = seq]
    <2>1. conn[f] = Away
        BY <1>0, <1>5 DEF accept_client, Client
    <2>2. conn'[f] = [conn[f] EXCEPT !.st = "open", !.since = seq]
        BY <1>0, <1>5 DEF accept_client
    <2>3. conn'[f] = d
        BY <2>1, <2>2
    <2>4. d.since = seq /\ d.clean = FALSE
        BY DEF Away
    <2> HIDE DEF d
    <2> QED BY <2>3, <2>4 DEF Watched
<1>6. CASE http_accept(f)
    <2> DEFINE d == [Away EXCEPT !.st = "asking"]
    <2>1. conn[f] = Away
        BY <1>0, <1>6 DEF http_accept, Client
    <2>2. conn'[f] = [conn[f] EXCEPT !.st = "asking"]
        BY <1>0, <1>6 DEF http_accept
    <2>3. conn'[f] = d
        BY <2>1, <2>2
    <2>4. d.since = 0 /\ d.clean = FALSE
        BY DEF Away
    <2> HIDE DEF d
    <2> QED BY <2>3, <2>4 DEF Watched
<1>7. CASE http_answer(f)
    <2>1. conn'[f] = Away
        BY <1>0, <1>7 DEF http_answer
    <2> QED BY <1>1, <2>1 DEF Watched
<1>8. CASE http_events(f)
    <2> DEFINE replay == Cached("planning") \o Cached("esdf")
               bytes == Bytes(replay)
               c == conn[f]
               d == [c EXCEPT !.st = "greeted", !.got = bytes, !.replay = replay]
    <2>1. conn'[f] = d
        BY <1>0, <1>8 DEF http_events
    <2>2. c \in Conns
        BY <1>0
    <2> HIDE DEF replay, bytes, c
    <2>3. d.st = "greeted" /\ d.since = c.since
        BY <2>2 DEF Conns
    <2> HIDE DEF d
    <2> QED BY <2>1, <2>3 DEF Watched, c
<1>9. CASE start \/ stop \/ stop_notify \/ http_loop_exit \/ writer_sleep \/ writer_serialize
           \/ writer_cache_chunks
    <2>1. conn' = conn
        BY <1>9 DEF start, stop, stop_notify, http_loop_exit, writer_sleep, writer_serialize,
                    writer_cache_chunks
    <2> QED BY <2>1
<1> QED BY <1>2, <1>3, <1>4, <1>5, <1>6, <1>7, <1>8, <1>9 DEF Serving, Accepting

\* What the serving steps do to the writer.
LEMMA ServingWriter ==
    ASSUME NotStarted, ChunksAreEsdf, Serving
    PROVE  /\ NotStarted' /\ ChunksAreEsdf'
           /\ Busy => (Busy' /\ item' = item) \/ item.kind = "esdf"
<1> USE DEF NotStarted, ChunksAreEsdf, Busy, serverVars, writerVars
<1>1. CASE start
    BY <1>1 DEF start
<1>2. CASE stop \/ stop_notify \/ stop_join
    BY <1>2 DEF stop, stop_notify, stop_join
<1>3. CASE Accepting
    BY <1>3 DEF Accepting, http_loop_exit, accept_client, http_accept, http_answer,
                http_events, http_register
<1>4. CASE writer_sleep \/ writer_cache_chunks
    BY <1>4 DEF writer_sleep, writer_cache_chunks
<1>5. CASE writer_serialize
    BY <1>5 DEF writer_serialize
<1> QED BY <1>1, <1>2, <1>3, <1>4, <1>5 DEF Serving

\* A browser that has just registered.
LEMMA RegisterSound ==
    ASSUME StreamSafe, NEW f \in Fds, http_register(f), Watched(conn'[f])
    PROVE  SoundFor(f)'
<1> DEFINE c == conn[f]
           clean == producer["perception"].at # "filtered"
           d == [c EXCEPT !.st = "open", !.since = seq, !.clean = clean]
<1>1. conn'[f] = d /\ c.st = "greeted" /\ watermark' = 0
      /\ sendq' = sendq /\ dropped' = dropped /\ seq' = seq /\ producer' = producer /\ item' = item
      /\ writer' = writer /\ l1' = l1
    BY DEF http_register, StreamSafe, ClientShape, queueVars, sourceVars, writerVars
<1>2. c \in Conns /\ c.owed = <<>>
    BY <1>1 DEF StreamSafe, ClientShape, Client
<1> HIDE DEF c, clean
<1>3. d.since = seq /\ d.clean = clean /\ d.owed = <<>>
    BY <1>2 DEF Conns
<1> HIDE DEF d
<1>4. producer'["perception"].at # "filtered"
    BY <1>1, <1>3 DEF Watched, clean
<1>5. Busy' = Busy
    BY <1>1 DEF Busy
<1>6. PipeOf(f)' = {}
    <2> SUFFICES ASSUME NEW x, x \in PipeOf(f)' PROVE FALSE
        OBVIOUS
    <2>1. x \in Items /\ IsLevel1(x, seq) /\ OnTheWay(x, <<>>, sendq, Busy, item, producer)
        <3>1. /\ x \in Items /\ IsLevel1(x, conn'[f].since)
              /\ OnTheWay(x, conn'[f].owed, sendq', Busy', item', producer')
            BY PipeIs
        <3> QED BY <1>1, <1>3, <1>5, <3>1
    <2>2. x.seq \in Int /\ seq \in Int /\ x.seq > seq
        BY <2>1, ItemTypes, PipeTypes DEF IsLevel1
    <2>3. x.seq <= seq
        <3>1. CASE \E i \in DOMAIN sendq : x = sendq[i]
            BY <3>1 DEF StreamSafe, NumbersInOrder, QueueOrder, Behind
        <3>2. CASE Busy /\ x = item
            BY <3>2 DEF StreamSafe, NumbersInOrder, Behind
        <3>3. CASE \E t \in Threads : producer[t].at = "assigned" /\ x = producer[t].item
            <4>1. PICK t \in Threads : producer[t].at = "assigned" /\ x = producer[t].item
                BY <3>3
            <4>2. Producer(producer[t], t, seq)
                BY DEF StreamSafe, ProducerShape
            <4> QED BY <4>1, <4>2 DEF Producer, Idle
        <3>4. DOMAIN <<>> = {}
            OBVIOUS
        <3> QED BY <2>1, <3>1, <3>2, <3>3, <3>4 DEF OnTheWay
    <2> QED BY <2>2, <2>3
<1> DEFINE Q == PipeOf(f)'
           p2 == producer'["perception"]
<1>7. Q = {} /\ p2.at # "filtered"
    BY <1>4, <1>6
<1> HIDE DEF Q, p2
<1>8. Level1Sound(Q, conn'[f].since, dropped', seq', l1', 0, p2)
    BY <1>7, SoundFresh
<1> QED BY <1>1, <1>8 DEF SoundFor, Q, p2

\* Steps that leave the queue and the numbers alone.
LEMMA ServingSound ==
    ASSUME StreamSafe, StreamSafe', Level1Safe, Serving
    PROVE  Level1Safe'
<1>0. ServerShape /\ NotStarted /\ ChunksAreEsdf /\ FilterIsPart /\ SinceIsPast /\ BrowsersSound
    BY DEF StreamSafe, Level1Safe
<1>1. /\ sendq' = sendq /\ dropped' = dropped /\ seq' = seq /\ producer' = producer /\ l1' = l1
      /\ Busy' => Busy /\ item' = item
    BY <1>0, ServingKeeps DEF queueVars
<1>2. /\ NotStarted' /\ ChunksAreEsdf'
      /\ Busy => (Busy' /\ item' = item) \/ item.kind = "esdf"
    BY <1>0, ServingWriter
<1>3. FilterIsPart'
    BY <1>0, <1>1 DEF FilterIsPart
<1>4. seq \in Nat
    BY EventStreamAssumption DEF StreamSafe, ProducerShape
<1>5. SinceIsPast'
    <2> SUFFICES ASSUME NEW f \in Fds PROVE conn'[f].since <= seq
        BY <1>1 DEF SinceIsPast
    <2>1. conn[f].since <= seq
        BY <1>0 DEF SinceIsPast
    <2>2. CASE http_register(f)
        <3> DEFINE c == conn[f]
                   clean == producer["perception"].at # "filtered"
        <3>1. c \in Conns /\ conn'[f] = [c EXCEPT !.st = "open", !.since = seq, !.clean = clean]
            BY <2>2 DEF http_register, StreamSafe, ClientShape
        <3> HIDE DEF c, clean
        <3>2. conn'[f].since = seq
            BY <3>1 DEF Conns
        <3> QED BY <1>4, <3>2
    <2>3. CASE conn'[f].since \in {0, seq, conn[f].since}
        BY <1>4, <2>1, <2>3
    <2>4. \/ conn'[f] = conn[f] \/ conn'[f].since \in {0, seq, conn[f].since} \/ http_register(f)
        BY ServingClient
    <2> QED BY <2>1, <2>2, <2>3, <2>4
<1>6. watermark' = watermark \/ watermark' = 0
    BY DEF Serving, start, stop, stop_notify, stop_join, Accepting, http_loop_exit,
           accept_client, http_accept, http_answer, http_events, http_register,
           writer_sleep, writer_serialize, writer_cache_chunks
<1>7. ASSUME NEW f \in Fds, Watched(conn'[f]) PROVE SoundFor(f)'
    <2>1. CASE http_register(f)
        BY <1>7, <2>1, RegisterSound
    <2>2. CASE conn'[f] = conn[f]
        <3>1. Watched(conn[f]) /\ conn'[f].since = conn[f].since
            BY <1>7, <2>2
        <3>2. ASSUME NEW x, x \in PipeOf(f)' PROVE x \in PipeOf(f)
            <4>1. /\ x \in Items /\ IsLevel1(x, conn[f].since)
                  /\ OnTheWay(x, conn[f].owed, sendq, Busy', item', producer)
                BY <1>1, <2>2, <3>2, PipeIs
            <4>2. OnTheWay(x, conn[f].owed, sendq, Busy, item, producer)
                BY <1>1, <4>1 DEF OnTheWay
            <4> QED BY <4>1, <4>2, PipeIs
        <3>3. ASSUME NEW x, x \in PipeOf(f) PROVE x \in PipeOf(f)'
            <4>1. /\ x \in Items /\ IsLevel1(x, conn[f].since)
                  /\ OnTheWay(x, conn[f].owed, sendq, Busy, item, producer)
                BY <3>3, PipeIs
            <4>2. x.kind = "trav"
                BY <4>1 DEF IsLevel1
            <4>3. OnTheWay(x, conn[f].owed, sendq, Busy', item', producer)
                BY <1>2, <4>1, <4>2 DEF OnTheWay
            <4>4. OnTheWay(x, conn'[f].owed, sendq', Busy', item', producer')
                BY <1>1, <2>2, <4>3
            <4> QED BY <2>2, <4>1, <4>4, PipeIs
        <3>4. /\ dropped \subseteq dropped' /\ seq <= seq' /\ (Filtering(producer) <=> Filtering(producer'))
              /\ (Filtering(producer) => producer'["perception"] = producer["perception"])
            BY <1>1, <1>4
        <3> QED BY <1>0, <1>1, <1>6, <3>1, <3>2, <3>3, <3>4, SoundKept
    <2> QED BY <1>7, <2>1, <2>2, ServingClient
<1>8. BrowsersSound'
    BY <1>7 DEF BrowsersSound
<1> QED BY <1>2, <1>3, <1>5, <1>8 DEF Level1Safe

\* A thread other than the filtering one numbers an event that is not Level 1.
LEMMA PlainNumberingSound ==
    ASSUME StreamSafe, StreamSafe', Level1Safe, Numbering, NEW t \in Threads, NEW r \in Items, Numbered(t, r),
           producer[t] = Idle, r.kind # "trav", l1' = l1, watermark' = watermark
    PROVE  Level1Safe'
<1> DEFINE e == [at |-> "assigned", item |-> r]
<1>0. NotStarted /\ ChunksAreEsdf /\ FilterIsPart /\ SinceIsPast /\ BrowsersSound
    BY DEF Level1Safe
<1>1. /\ sendq' = sendq /\ dropped' = dropped /\ item' = item /\ conn' = conn /\ writer' = writer
      /\ stopper' = stopper
    BY NumberingKeeps DEF queueVars, writerVars, serverVars
<1>2. /\ seq' = seq + 1 /\ seq \in Int /\ DOMAIN producer = Threads /\ "perception" \in Threads
      /\ producer' = [producer EXCEPT ![t] = e]
    BY DEF Numbered, StreamSafe, ProducerShape, Threads
<1>3. e.at = "assigned" /\ e.item = r /\ Idle.at = "idle"
    BY DEF Idle
<1> HIDE DEF e
<1>4. producer'[t] = e /\ \A u \in Threads : u # t => producer'[u] = producer[u]
    BY <1>2
<1>5. /\ (Filtering(producer) <=> Filtering(producer'))
      /\ (Filtering(producer) => producer'["perception"] = producer["perception"])
    <2>1. CASE t = "perception"
        BY <1>3, <1>4, <2>1 DEF Filtering
    <2>2. CASE t # "perception"
        <3>1. producer'["perception"] = producer["perception"]
            BY <1>2, <1>4, <2>2
        <3> QED BY <3>1 DEF Filtering
    <2> QED BY <2>1, <2>2
<1>6. Busy' = Busy /\ NotStarted' /\ ChunksAreEsdf'
    BY <1>0, <1>1 DEF Busy, NotStarted, ChunksAreEsdf
<1>7. FilterIsPart'
    BY <1>0, <1>5 DEF FilterIsPart
<1>8. SinceIsPast'
    <2> SUFFICES ASSUME NEW f \in Fds PROVE conn[f].since <= seq + 1
        BY <1>1, <1>2 DEF SinceIsPast
    <2>1. conn[f].since \in Int /\ conn[f].since <= seq
        BY <1>0, PipeTypes DEF SinceIsPast
    <2> QED BY <1>2, <2>1
<1>9. ASSUME NEW f \in Fds, Watched(conn'[f]) PROVE SoundFor(f)'
    <2>1. Watched(conn[f]) /\ conn'[f].since = conn[f].since
        BY <1>1, <1>9
    <2>2. ASSUME NEW x, x.kind = "trav"
          PROVE  OnTheWay(x, conn[f].owed, sendq, Busy, item, producer)
                 <=> OnTheWay(x, conn'[f].owed, sendq', Busy', item', producer')
        <3>1. ASSUME NEW u \in Threads
              PROVE  (producer[u].at = "assigned" /\ x = producer[u].item)
                     <=> (producer'[u].at = "assigned" /\ x = producer'[u].item)
            <4>1. CASE u = t
                BY <1>3, <1>4, <2>2, <4>1
            <4>2. CASE u # t
                BY <1>4, <4>2
            <4> QED BY <4>1, <4>2
        <3> QED BY <1>1, <1>6, <3>1 DEF OnTheWay
    <2>3. ASSUME NEW x PROVE x \in PipeOf(f) <=> x \in PipeOf(f)'
        <3>1. IsLevel1(x, conn[f].since) => x.kind = "trav"
            BY DEF IsLevel1
        <3> QED BY <2>1, <2>2, <3>1, PipeIs
    <2>4. dropped \subseteq dropped' /\ seq <= seq'
        BY <1>1, <1>2
    <2> QED BY <1>0, <1>5, <2>1, <2>3, <2>4, SoundKept
<1>10. BrowsersSound'
    BY <1>9 DEF BrowsersSound
<1> QED BY <1>6, <1>7, <1>8, <1>10 DEF Level1Safe

\* The perception thread numbers the Level 1 publication it has filtered.
LEMMA AssignSound ==
    ASSUME StreamSafe, StreamSafe', Level1Safe, on_traversability_assign
    PROVE  Level1Safe'
<1> DEFINE p == producer["perception"]
<1>0. NotStarted /\ ChunksAreEsdf /\ FilterIsPart /\ SinceIsPast /\ BrowsersSound /\ Numbering
    BY DEF Level1Safe, Numbering
<1>1. /\ sendq' = sendq /\ dropped' = dropped /\ item' = item /\ conn' = conn /\ writer' = writer
      /\ stopper' = stopper
    BY <1>0, NumberingKeeps DEF queueVars, writerVars, serverVars
<1>2. p.at = "filtered" /\ Assign("perception", "trav", p.full, p.cells, l1) /\ watermark' = p.mark /\ l1' = l1
    BY DEF on_traversability_assign
<1>3. /\ p.full \in BOOLEAN /\ p.cells \in Map /\ l1 \in Map /\ seq \in Int
      /\ DOMAIN producer = Threads /\ "perception" \in Threads
    <2>1. Producer(p, "perception", seq)
        BY DEF StreamSafe, ProducerShape, Threads
    <2>2. p.full \in BOOLEAN /\ p.cells \in Map
        <3> HIDE DEF p
        <3> QED BY <1>2, <2>1 DEF Producer, Idle
    <2> QED BY <2>2 DEF StreamSafe, ProducerShape, MapShape, Threads
<1>4. PICK r \in Items : /\ Numbered("perception", r)
                         /\ r.kind = "trav" /\ r.full = p.full /\ r.cells = p.cells /\ r.map = l1
    <2> HIDE DEF p
    <2> QED BY <1>2, <1>3, AssignNumbers
<1> DEFINE e == [at |-> "assigned", item |-> r]
<1>5. seq' = seq + 1 /\ producer' = [producer EXCEPT !["perception"] = e]
      /\ r.by = "perception" /\ r.seq = seq + 1
    BY <1>4 DEF Numbered
<1>6. e.at = "assigned" /\ e.item = r
    OBVIOUS
<1> HIDE DEF e
<1>7. producer'["perception"] = e /\ \A u \in Threads : u # "perception" => producer'[u] = producer[u]
    BY <1>3, <1>5
<1>8. Busy' = Busy /\ NotStarted' /\ ChunksAreEsdf'
    BY <1>0, <1>1 DEF Busy, NotStarted, ChunksAreEsdf
<1>9. FilterIsPart'
    BY <1>6, <1>7 DEF FilterIsPart, Filtering
<1>10. SinceIsPast'
    <2> SUFFICES ASSUME NEW f \in Fds PROVE conn[f].since <= seq + 1
        BY <1>1, <1>5 DEF SinceIsPast
    <2>1. conn[f].since \in Int /\ conn[f].since <= seq
        BY <1>0, PipeTypes DEF SinceIsPast
    <2> QED BY <1>3, <2>1
<1>11. ASSUME NEW f \in Fds, Watched(conn'[f]) PROVE SoundFor(f)'
    <2> DEFINE P == PipeOf(f)
               Q == PipeOf(f)'
               s == conn[f].since
               p2 == producer'["perception"]
    <2>1. Watched(conn[f]) /\ conn'[f].since = s
        BY <1>1, <1>11
    <2>2. P \in SUBSET Items /\ s \in Int /\ dropped \in SUBSET Int /\ s <= seq
        BY <1>0, PipeTypes DEF SinceIsPast
    <2>3. ASSUME NEW x
          PROVE  OnTheWay(x, conn'[f].owed, sendq', Busy', item', producer')
                 <=> OnTheWay(x, conn[f].owed, sendq, Busy, item, producer) \/ x = r
        <3>1. (\E u \in Threads : producer'[u].at = "assigned" /\ x = producer'[u].item)
              <=> (\E u \in Threads : producer[u].at = "assigned" /\ x = producer[u].item) \/ x = r
            <4>1. ASSUME NEW u \in Threads, producer'[u].at = "assigned", x = producer'[u].item, x # r
                  PROVE  producer[u].at = "assigned" /\ x = producer[u].item
                BY <1>6, <1>7, <4>1
            <4>2. ASSUME NEW u \in Threads, producer[u].at = "assigned", x = producer[u].item
                  PROVE  producer'[u].at = "assigned" /\ x = producer'[u].item
                <5>1. u # "perception"
                    BY <1>2, <4>2
                <5> QED BY <1>7, <4>2, <5>1
            <4>3. producer'["perception"].at = "assigned" /\ r = producer'["perception"].item
                BY <1>6, <1>7
            <4> QED BY <1>3, <4>1, <4>2, <4>3
        <3> QED BY <1>1, <1>8, <3>1 DEF OnTheWay
    <2>4. IsLevel1(r, s)
        BY <1>3, <1>4, <1>5, <2>2 DEF IsLevel1
    <2>5. ASSUME NEW x PROVE x \in Q <=> x \in P \/ x = r
        BY <2>1, <2>3, <2>4, PipeIs
    <2>6. Old(p.mark, l1) /\ PartOf(p.cells, l1)
        BY <1>0, <1>2 DEF FilterIsPart, Filtering
    <2>7. Level1Sound(P, s, dropped, seq, l1, watermark, p)
        BY <1>0, <2>1 DEF BrowsersSound, SoundFor
    <2>8. p2.at # "filtered"
        BY <1>6, <1>7
    <2> HIDE DEF P, Q, s, p2, p
    <2>9. Q \in SUBSET Items
        BY <2>2, <2>5
    <2>10. Level1Sound(Q, s, dropped, seq + 1, l1, p.mark, p2)
        BY <1>2, <1>3, <1>4, <1>5, <2>2, <2>5, <2>6, <2>7, <2>8, <2>9, SoundNumbered
    <2>11. Level1Sound(Q, conn'[f].since, dropped', seq', l1', watermark', p2)
        BY <1>1, <1>2, <1>5, <2>1, <2>10
    <2> QED BY <2>11 DEF SoundFor, Q, p2
<1>12. BrowsersSound'
    BY <1>11 DEF BrowsersSound
<1> QED BY <1>8, <1>9, <1>10, <1>12 DEF Level1Safe

\* Observing cells later than all of the map continues it.
LEMMA ObservedContinues ==
    ASSUME NEW m \in Map, NEW seen \in SUBSET Cells, NEW m2,
           m2 = [c \in Cells |-> IF c \notin seen THEN m[c]
                                 ELSE IF Newest(m) = 0 THEN 2 ELSE Newest(m) + 1]
    PROVE  Continues(m, m2)
<1> DEFINE w == Newest(m)
           next == IF w = 0 THEN 2 ELSE w + 1
<1>1. w \in 0..MaxTime /\ (\A c \in Cells : m[c] <= w) /\ \A c \in Cells : m2[c] = m[c] \/ m2[c] = next
    BY NewestIs
<1>2. \A c \in Cells : m[c] \in Int
    BY DEF Map
<1> HIDE DEF w
<1>3. next > 1 /\ \A c \in Cells : m[c] < next
    <2>1. next \in Int /\ next > 1 /\ next > w /\ w \in Int
        BY <1>1
    <2> HIDE DEF next
    <2>2. ASSUME NEW c \in Cells PROVE m[c] < next
        <3>1. m[c] \in Int /\ m[c] <= w
            BY <1>1, <1>2
        <3> QED BY <2>1, <3>1
    <2> QED BY <2>1, <2>2
<1>4. next \in Int
    BY <1>1
<1> HIDE DEF next
<1>5. ~Old(next, m)
    <2>1. \A c \in Cells : ~(next <= m[c])
        BY <1>2, <1>3, <1>4
    <2>2. ~(next <= 1)
        BY <1>3, <1>4
    <2> QED BY <2>1, <2>2 DEF Old
<1> QED BY <1>1, <1>5 DEF Continues

\* The perception thread filters the Level 1 map.
LEMMA FilterSound ==
    ASSUME StreamSafe, StreamSafe', Level1Safe, NEW seen \in SUBSET Cells, on_traversability_filter(seen)
    PROVE  Level1Safe'
<1> DEFINE p == producer["perception"]
           m2 == l1'
           k == Newer(m2, watermark)
           full == watermark = 0
           p2 == [at |-> "filtered", full |-> full, cells |-> k,
                  mark |-> IF Newest(k) = 0 THEN 1 ELSE Newest(k)]
<1>0. NotStarted /\ ChunksAreEsdf /\ FilterIsPart /\ SinceIsPast /\ BrowsersSound /\ Numbering
    BY DEF Level1Safe, Numbering
<1>1. /\ sendq' = sendq /\ dropped' = dropped /\ item' = item /\ conn' = conn /\ writer' = writer
      /\ stopper' = stopper
    BY <1>0, NumberingKeeps DEF queueVars, writerVars, serverVars
<1>2. /\ p = Idle /\ seq' = seq /\ watermark' = watermark
      /\ m2 = [c \in Cells |-> IF c \notin seen THEN l1[c]
                               ELSE IF Newest(l1) = 0 THEN 2 ELSE Newest(l1) + 1]
      /\ producer' = [producer EXCEPT !["perception"] = p2]
    BY DEF on_traversability_filter
<1>3. /\ l1 \in Map /\ m2 \in Map /\ watermark \in Nat /\ seq \in Int
      /\ DOMAIN producer = Threads /\ "perception" \in Threads
    <2>1. watermark \in Nat
        BY EventStreamAssumption DEF StreamSafe, MapShape, MaxTime
    <2> QED BY <2>1 DEF StreamSafe, ProducerShape, MapShape, Threads
<1>4. Continues(l1, m2)
    <2> HIDE DEF m2
    <2> QED BY <1>2, <1>3, ObservedContinues
<1> HIDE DEF m2
<1>5. PartOf(k, m2) /\ Old(IF Newest(k) = 0 THEN 1 ELSE Newest(k), m2)
    BY <1>3, NewerCovers
<1>6. /\ p2.at = "filtered" /\ p2.full = full /\ p2.cells = k /\ PartOf(p2.cells, m2) /\ Old(p2.mark, m2)
    BY <1>5
<1>7. p.at # "filtered" /\ p.at # "assigned"
    BY <1>2 DEF Idle
<1> HIDE DEF p2, p
<1>8. producer'["perception"] = p2 /\ \A u \in Threads : u # "perception" => producer'[u] = producer[u]
    BY <1>2, <1>3
<1>9. Busy' = Busy /\ NotStarted' /\ ChunksAreEsdf'
    BY <1>0, <1>1 DEF Busy, NotStarted, ChunksAreEsdf
<1>10. FilterIsPart'
    BY <1>6, <1>8 DEF FilterIsPart, m2
<1>11. SinceIsPast'
    BY <1>0, <1>1, <1>2 DEF SinceIsPast
<1>12. ASSUME NEW f \in Fds, Watched(conn'[f]) PROVE SoundFor(f)'
    <2> DEFINE P == PipeOf(f)
               Q == PipeOf(f)'
               s == conn[f].since
    <2>1. Watched(conn[f]) /\ conn'[f].since = s
        BY <1>1, <1>12
    <2>2. P \in SUBSET Items /\ s \in Int
        BY PipeTypes
    <2>3. ASSUME NEW x
          PROVE  OnTheWay(x, conn'[f].owed, sendq', Busy', item', producer')
                 <=> OnTheWay(x, conn[f].owed, sendq, Busy, item, producer)
        <3>1. ASSUME NEW u \in Threads
              PROVE  (producer[u].at = "assigned" /\ x = producer[u].item)
                     <=> (producer'[u].at = "assigned" /\ x = producer'[u].item)
            <4>1. CASE u = "perception"
                BY <1>6, <1>7, <1>8, <4>1 DEF p
            <4>2. CASE u # "perception"
                BY <1>8, <4>2
            <4> QED BY <4>1, <4>2
        <3> QED BY <1>1, <1>9, <3>1 DEF OnTheWay
    <2>4. Q = P
        <3>1. ASSUME NEW x PROVE x \in Q <=> x \in P
            BY <2>1, <2>3, PipeIs
        <3> QED BY <3>1
    <2>5. Level1Sound(P, s, dropped, seq, l1, watermark, p)
        BY <1>0, <2>1 DEF BrowsersSound, SoundFor, p
    <2> HIDE DEF P, Q, s
    <2>6. p2.full = (watermark = 0) /\ p2.cells = Newer(m2, watermark)
        BY <1>6
    <2>7. Level1Sound(P, s, dropped, seq, m2, watermark, p2)
        BY <1>3, <1>4, <1>6, <1>7, <2>2, <2>5, <2>6, SoundFiltered
    <2>8. Level1Sound(Q, conn'[f].since, dropped', seq', l1', watermark', producer'["perception"])
        BY <1>1, <1>2, <1>8, <2>1, <2>4, <2>7 DEF m2
    <2> QED BY <2>8 DEF SoundFor, Q
<1>13. BrowsersSound'
    BY <1>12 DEF BrowsersSound
<1> QED BY <1>9, <1>10, <1>11, <1>13 DEF Level1Safe

\* Numbering an event.
LEMMA NumberingSound ==
    ASSUME StreamSafe, StreamSafe', Level1Safe, Numbering
    PROVE  Level1Safe'
<1>0. EmptyMap \in Map /\ "mission" \in Threads /\ "perception" \in Threads /\ l2_published \in BOOLEAN
    BY EventStreamAssumption DEF EmptyMap, Map, MaxTime, Threads, StreamSafe, MapShape
<1>1. CASE on_traversability_assign
    BY <1>1, AssignSound
<1>2. CASE \E seen \in SUBSET Cells : on_traversability_filter(seen)
    BY <1>2, FilterSound
<1>3. CASE on_mission_event \/ on_perception_event \/ on_planning_map_snapshot \/ on_esdf_snapshot
    <2>1. PICK t \in Threads, kind \in {"line", "planning", "esdf"}, full \in BOOLEAN :
              producer[t] = Idle /\ Assign(t, kind, full, EmptyMap, EmptyMap)
        <3>1. CASE on_mission_event
            BY <1>0, <3>1 DEF on_mission_event
        <3>2. CASE on_perception_event
            BY <1>0, <3>2 DEF on_perception_event
        <3>3. CASE on_planning_map_snapshot
            <4>1. (~l2_published) \in BOOLEAN
                BY <1>0
            <4>2. producer["perception"] = Idle
                  /\ Assign("perception", "planning", ~l2_published, EmptyMap, EmptyMap)
                BY <3>3 DEF on_planning_map_snapshot
            <4> QED BY <1>0, <4>1, <4>2
        <3>4. CASE on_esdf_snapshot
            BY <1>0, <3>4 DEF on_esdf_snapshot
        <3> QED BY <1>3, <3>1, <3>2, <3>3, <3>4
    <2>2. PICK r \in Items : Numbered(t, r) /\ r.kind = kind
        BY <1>0, <2>1, AssignNumbers
    <2>3. l1' = l1 /\ watermark' = watermark
        BY <1>3 DEF on_mission_event, on_perception_event, on_planning_map_snapshot, on_esdf_snapshot
    <2>4. r.kind # "trav"
        BY <2>1, <2>2
    <2> QED BY <2>1, <2>2, <2>3, <2>4, PlainNumberingSound
<1> QED BY <1>1, <1>2, <1>3 DEF Numbering

\* Queueing an event: the oldest of a full queue is dropped.
LEMMA EnqueueSound ==
    ASSUME StreamSafe, StreamSafe', Level1Safe, NEW t \in Threads, enqueue_item(t)
    PROVE  Level1Safe'
<1> DEFINE e == producer[t].item
           full == Len(sendq) >= depth
           q == IF full THEN Tail(sendq) ELSE sendq
<1>0. NotStarted /\ ChunksAreEsdf /\ FilterIsPart /\ SinceIsPast /\ BrowsersSound
    BY DEF Level1Safe
<1>1. /\ sendq' = Append(q, e) /\ item' = item /\ seq' = seq /\ conn' = conn /\ l1' = l1
      /\ watermark' = watermark /\ stopper' = stopper
      /\ producer' = [producer EXCEPT ![t] = Idle] /\ producer[t].at = "assigned"
      /\ writer' = IF writer = "waiting" THEN "idle" ELSE writer
      /\ dropped' = IF full THEN dropped \cup {Head(sendq).seq} ELSE dropped
    BY DEF enqueue_item, serverVars
<1>2. Busy' = Busy /\ NotStarted' /\ ChunksAreEsdf'
    <2>1. Busy' = Busy
        <3>1. CASE writer' = writer
            BY <3>1 DEF Busy
        <3>2. CASE writer' # writer
            <4>1. writer = "waiting" /\ writer' = "idle"
                BY <1>1, <3>2
            <4>2. Busy = FALSE /\ Busy' = FALSE
                BY <4>1 DEF Busy
            <4> QED BY <4>2
        <3> QED BY <3>1, <3>2
    <2>2. NotStarted' /\ ChunksAreEsdf'
        BY <1>0, <1>1 DEF NotStarted, ChunksAreEsdf
    <2> QED BY <2>1, <2>2
<1>3. /\ sendq \in Seq(Items) /\ DOMAIN producer = Threads /\ seq \in Int /\ depth \in Nat \ {0}
      /\ "perception" \in Threads
    BY EventStreamAssumption DEF StreamSafe, QueueShape, ProducerShape, Threads
<1>4. e \in Items
    <2>1. Producer(producer[t], t, seq)
        BY DEF StreamSafe, ProducerShape
    <2> QED BY <1>1, <2>1 DEF Producer, Idle
<1>5. producer'[t] = Idle /\ Idle.at = "idle" /\ \A u \in Threads : u # t => producer'[u] = producer[u]
    BY <1>1, <1>3 DEF Idle
<1>6. /\ (Filtering(producer) <=> Filtering(producer'))
      /\ (Filtering(producer) => producer'["perception"] = producer["perception"])
    <2>1. CASE t = "perception"
        BY <1>1, <1>5, <2>1 DEF Filtering
    <2>2. CASE t # "perception"
        <3>1. producer'["perception"] = producer["perception"]
            BY <1>3, <1>5, <2>2
        <3> QED BY <3>1 DEF Filtering
    <2> QED BY <2>1, <2>2
<1>7. /\ q \in Seq(Items) /\ dropped \subseteq dropped'
      /\ \A i \in DOMAIN q : \E j \in DOMAIN sendq : q[i] = sendq[j]
      /\ \A j \in DOMAIN sendq : (\E i \in DOMAIN q : q[i] = sendq[j]) \/ sendq[j].seq \in dropped'
    <2>1. CASE full
        <3>1. sendq # <<>>
            BY <1>3, <2>1
        <3>2. q = Tail(sendq) /\ dropped' = dropped \cup {Head(sendq).seq}
            BY <1>1, <2>1
        <3> DEFINE r == Tail(sendq)
        <3>3. /\ r \in Seq(Items) /\ Len(r) = Len(sendq) - 1 /\ Len(sendq) \in Nat /\ Len(sendq) > 0
              /\ DOMAIN sendq = 1..Len(sendq) /\ DOMAIN r = 1..Len(r) /\ Head(sendq) = sendq[1]
              /\ \A i \in 1..Len(r) : r[i] = sendq[i + 1]
            BY <1>3, <3>1, HeadTailProperties
        <3> HIDE DEF r
        <3>4. \A i \in DOMAIN r : i + 1 \in DOMAIN sendq /\ r[i] = sendq[i + 1]
            BY <3>3
        <3>5. ASSUME NEW j \in DOMAIN sendq
              PROVE  (\E i \in DOMAIN r : r[i] = sendq[j]) \/ sendq[j].seq \in dropped'
            <4>1. CASE j = 1
                BY <3>2, <3>3, <4>1
            <4>2. CASE j # 1
                <5>1. j - 1 \in DOMAIN r /\ (j - 1) + 1 = j
                    BY <3>3, <4>2
                <5>2. r[j - 1] = sendq[j]
                    BY <3>3, <5>1
                <5> QED BY <5>1, <5>2
            <4> QED BY <4>1, <4>2
        <3>6. q = r
            BY <3>2 DEF r
        <3> HIDE DEF q
        <3> QED BY <3>2, <3>3, <3>4, <3>5, <3>6
    <2>2. CASE ~full
        <3>1. q = sendq /\ dropped' = dropped
            BY <1>1, <2>2
        <3> QED BY <1>3, <3>1
    <2> QED BY <2>1, <2>2
<1> HIDE DEF q
<1>8. /\ \A i \in DOMAIN sendq' : (\E j \in DOMAIN q : sendq'[i] = q[j]) \/ sendq'[i] = e
      /\ \A j \in DOMAIN q : \E i \in DOMAIN sendq' : sendq'[i] = q[j]
      /\ \E i \in DOMAIN sendq' : sendq'[i] = e
    <2> DEFINE s == Append(q, e)
    <2>1. Len(q) \in Nat /\ DOMAIN q = 1..Len(q) /\ DOMAIN s = 1..(Len(q) + 1)
          /\ s[Len(q) + 1] = e /\ \A i \in 1..Len(q) : s[i] = q[i]
        <3> HIDE DEF e
        <3> QED BY <1>4, <1>7, AppendProperties
    <2> HIDE DEF s
    <2>2. \A i \in DOMAIN s : i \in DOMAIN q \/ i = Len(q) + 1
        BY <2>1
    <2>3. \A j \in DOMAIN q : j \in DOMAIN s
        BY <2>1
    <2>4. Len(q) + 1 \in DOMAIN s
        BY <2>1
    <2>5. sendq' = s
        BY <1>1 DEF s
    <2> HIDE DEF e
    <2> QED BY <2>1, <2>2, <2>3, <2>4, <2>5
<1>9. FilterIsPart'
    BY <1>0, <1>1, <1>6 DEF FilterIsPart
<1>10. SinceIsPast'
    BY <1>0, <1>1 DEF SinceIsPast
<1>11. ASSUME NEW f \in Fds, Watched(conn'[f]) PROVE SoundFor(f)'
    <2>1. Watched(conn[f]) /\ conn'[f].since = conn[f].since
        BY <1>1, <1>11
    <2>2. ASSUME NEW x, x \in PipeOf(f)' PROVE x \in PipeOf(f)
        <3>1. /\ x \in Items /\ IsLevel1(x, conn[f].since)
              /\ OnTheWay(x, conn[f].owed, sendq', Busy, item, producer')
            BY <1>1, <1>2, <2>2, PipeIs
        <3>2. x = e => OnTheWay(x, conn[f].owed, sendq, Busy, item, producer)
            BY <1>1 DEF OnTheWay
        <3>3. CASE \E i \in DOMAIN sendq' : x = sendq'[i]
            <4>1. x = e \/ \E j \in DOMAIN q : x = q[j]
                BY <1>8, <3>3
            <4>2. x = e \/ \E j \in DOMAIN sendq : x = sendq[j]
                BY <1>7, <4>1
            <4>3. OnTheWay(x, conn[f].owed, sendq, Busy, item, producer)
                BY <3>2, <4>2 DEF OnTheWay
            <4> QED BY <3>1, <4>3, PipeIs
        <3>4. CASE \E u \in Threads : producer'[u].at = "assigned" /\ x = producer'[u].item
            <4>1. \E u \in Threads : producer[u].at = "assigned" /\ x = producer[u].item
                BY <1>5, <3>4
            <4>2. OnTheWay(x, conn[f].owed, sendq, Busy, item, producer)
                BY <4>1 DEF OnTheWay
            <4> QED BY <3>1, <4>2, PipeIs
        <3>5. CASE (\E i \in DOMAIN conn[f].owed : x = conn[f].owed[i]) \/ (Busy /\ x = item)
            <4>1. OnTheWay(x, conn[f].owed, sendq, Busy, item, producer)
                BY <3>5 DEF OnTheWay
            <4> QED BY <3>1, <4>1, PipeIs
        <3> QED BY <3>1, <3>3, <3>4, <3>5 DEF OnTheWay
    <2>3. ASSUME NEW x, x \in PipeOf(f) PROVE x \in PipeOf(f)' \/ x.seq \in dropped'
        <3>1. /\ x \in Items /\ IsLevel1(x, conn[f].since)
              /\ OnTheWay(x, conn[f].owed, sendq, Busy, item, producer)
            BY <2>3, PipeIs
        <3>2. SUFFICES ASSUME x.seq \notin dropped'
                       PROVE  OnTheWay(x, conn[f].owed, sendq', Busy, item, producer')
            BY <1>1, <1>2, <3>1, PipeIs
        <3>3. CASE \E i \in DOMAIN sendq : x = sendq[i]
            <4>1. \E j \in DOMAIN q : x = q[j]
                BY <1>7, <3>2, <3>3
            <4>2. \E j \in DOMAIN sendq' : x = sendq'[j]
                BY <1>8, <4>1
            <4> QED BY <4>2 DEF OnTheWay
        <3>4. CASE \E u \in Threads : producer[u].at = "assigned" /\ x = producer[u].item
            <4>1. PICK u \in Threads : producer[u].at = "assigned" /\ x = producer[u].item
                BY <3>4
            <4>2. CASE u = t
                <5>1. \E j \in DOMAIN sendq' : x = sendq'[j]
                    BY <1>8, <4>1, <4>2
                <5> QED BY <5>1 DEF OnTheWay
            <4>3. CASE u # t
                BY <1>5, <4>1, <4>3 DEF OnTheWay
            <4> QED BY <4>2, <4>3
        <3>5. CASE (\E i \in DOMAIN conn[f].owed : x = conn[f].owed[i]) \/ (Busy /\ x = item)
            BY <3>5 DEF OnTheWay
        <3> QED BY <3>1, <3>3, <3>4, <3>5 DEF OnTheWay
    <2>4. dropped \subseteq dropped' /\ seq <= seq'
        BY <1>1, <1>3, <1>7
    <2> QED BY <1>0, <1>1, <1>6, <2>1, <2>2, <2>3, <2>4, SoundKept
<1>12. BrowsersSound'
    BY <1>11 DEF BrowsersSound
<1> QED BY <1>2, <1>9, <1>10, <1>12 DEF Level1Safe

\* Taking the next item.
LEMMA WaitSound ==
    ASSUME StreamSafe, StreamSafe', Level1Safe, writer_wait
    PROVE  Level1Safe'
<1>0. NotStarted /\ ChunksAreEsdf /\ FilterIsPart /\ SinceIsPast /\ BrowsersSound
    BY DEF Level1Safe
<1>1. /\ seq' = seq /\ conn' = conn /\ l1' = l1 /\ watermark' = watermark /\ stopper' = stopper
      /\ producer' = producer /\ dropped' = dropped /\ writer = "idle"
      /\ writer' \in {"serialize", "deciding", "done"} /\ ~Busy
    BY DEF writer_wait, sourceVars, serverVars, Busy
<1>2. NotStarted' /\ ChunksAreEsdf' /\ FilterIsPart' /\ SinceIsPast'
    BY <1>0, <1>1 DEF NotStarted, ChunksAreEsdf, FilterIsPart, SinceIsPast
<1>3. sendq \in Seq(Items) /\ seq \in Int
    BY DEF StreamSafe, QueueShape, ProducerShape
<1>4. ASSUME NEW x
      PROVE  (\E i \in DOMAIN sendq : x = sendq[i])
             <=> (\E i \in DOMAIN sendq' : x = sendq'[i]) \/ (Busy' /\ x = item')
    <2>1. CASE sendq = <<>>
        <3>1. sendq' = sendq /\ ~Busy'
            BY <2>1 DEF writer_wait, Busy
        <3> QED BY <3>1
    <2>2. CASE sendq # <<>>
        <3> DEFINE r == Tail(sendq)
        <3>1. sendq' = r /\ item' = Head(sendq) /\ Busy'
            BY <2>2 DEF writer_wait, Busy
        <3>2. /\ r \in Seq(Items) /\ Len(r) = Len(sendq) - 1 /\ Len(sendq) \in Nat /\ Len(sendq) > 0
              /\ DOMAIN sendq = 1..Len(sendq) /\ DOMAIN r = 1..Len(r) /\ Head(sendq) = sendq[1]
              /\ \A i \in 1..Len(r) : r[i] = sendq[i + 1]
            BY <1>3, <2>2, HeadTailProperties
        <3> HIDE DEF r
        <3>3. \A i \in DOMAIN r : i + 1 \in DOMAIN sendq /\ r[i] = sendq[i + 1]
            BY <3>2
        <3>4. ASSUME NEW i \in DOMAIN sendq, i # 1 PROVE \E j \in DOMAIN r : sendq[i] = r[j]
            <4>1. i - 1 \in DOMAIN r /\ (i - 1) + 1 = i
                BY <3>2, <3>4
            <4>2. r[i - 1] = sendq[i]
                BY <3>2, <4>1
            <4> QED BY <4>1, <4>2
        <3>5. 1 \in DOMAIN sendq
            BY <3>2
        <3> QED BY <3>1, <3>2, <3>3, <3>4, <3>5
    <2> QED BY <2>1, <2>2
<1>5. ASSUME NEW f \in Fds, Watched(conn'[f]) PROVE SoundFor(f)'
    <2>1. Watched(conn[f]) /\ conn'[f].since = conn[f].since
        BY <1>1, <1>5
    <2>2. ASSUME NEW x
          PROVE  OnTheWay(x, conn[f].owed, sendq, Busy, item, producer)
                 <=> OnTheWay(x, conn'[f].owed, sendq', Busy', item', producer')
        BY <1>1, <1>4 DEF OnTheWay
    <2>3. ASSUME NEW x PROVE x \in PipeOf(f) <=> x \in PipeOf(f)'
        BY <2>1, <2>2, PipeIs
    <2>4. dropped \subseteq dropped' /\ seq <= seq' /\ (Filtering(producer) <=> Filtering(producer'))
          /\ (Filtering(producer) => producer'["perception"] = producer["perception"])
        BY <1>1, <1>3
    <2> QED BY <1>0, <1>1, <2>1, <2>3, <2>4, SoundKept
<1>6. BrowsersSound'
    BY <1>5 DEF BrowsersSound
<1> QED BY <1>2, <1>6 DEF Level1Safe

\* What publishing a line does to a client that stays.
LEMMA PublishClient ==
    ASSUME StreamSafe, NEW it \in Items, publish_json_line(it), NEW f \in Fds
    PROVE  \/ conn'[f] = Away
           \/ /\ conn'[f].st = conn[f].st /\ conn'[f].since = conn[f].since /\ conn'[f].clean = conn[f].clean
              /\ \/ conn'[f].owed = conn[f].owed /\ (it.seq \in dropped' \/ conn[f].st # "open")
                 \/ conn'[f].owed = Append(conn[f].owed, it)
<1>0. conn[f] \in Conns
    BY DEF StreamSafe, ClientShape
<1>1. CASE dropped' = dropped \cup {it.seq} /\ conn' = conn
    BY <1>1
<1>2. CASE ~(dropped' = dropped \cup {it.seq} /\ conn' = conn)
    <2>1. PICK taken \in [Open -> 0..(2 * PendingDepth + 2)] :
              conn' = [g \in Fds |-> IF g \in Open THEN Send(conn[g], it, taken[g]) ELSE conn[g]]
        BY <1>2 DEF publish_json_line
    <2>2. CASE f \notin Open
        BY <2>1, <2>2 DEF Open
    <2>3. CASE f \in Open
        <3> DEFINE c == conn[f]
                   n == taken[f]
                   all == Append(c.pend, Whole(it))
                   left == Unsent(all, n)
                   pre == SubSeq(FlattenSeq(all), 1, n)
                   d == [c EXCEPT !.got = @ \o pre, !.pend = left, !.owed = Append(@, it)]
        <3>1. conn'[f] = Send(c, it, n) /\ c \in Conns
            BY <1>0, <2>1, <2>3
        <3>2. Send(c, it, n) = Away \/ Send(c, it, n) = d
            BY DEF Send
        <3> HIDE DEF c, n, pre, left, all
        <3>3. d.st = c.st /\ d.since = c.since /\ d.clean = c.clean /\ d.owed = Append(c.owed, it)
            BY <3>1 DEF Conns
        <3> HIDE DEF d
        <3> QED BY <3>1, <3>2, <3>3 DEF c
    <2> QED BY <2>2, <2>3
<1> QED BY <1>1, <1>2

\* Publishing the item.
LEMMA PublishSound ==
    ASSUME StreamSafe, StreamSafe', Level1Safe, writer_publish \/ writer_first_chunk \/ writer_last_chunk
    PROVE  Level1Safe'
<1>0. NotStarted /\ ChunksAreEsdf /\ FilterIsPart /\ SinceIsPast /\ BrowsersSound
    BY DEF Level1Safe
<1>1. /\ seq' = seq /\ l1' = l1 /\ watermark' = watermark /\ stopper' = stopper /\ sendq' = sendq
      /\ producer' = producer /\ Busy
    BY DEF writer_publish, writer_first_chunk, writer_last_chunk, sourceVars, serverVars, queueVars, Busy
<1>2. NotStarted' /\ ChunksAreEsdf'
    BY <1>0 DEF NotStarted, ChunksAreEsdf, writer_publish, writer_first_chunk, writer_last_chunk,
                serverVars
<1>3. FilterIsPart'
    BY <1>0, <1>1 DEF FilterIsPart
<1>4. item \in Items /\ seq \in Nat
    BY <1>1, EventStreamAssumption DEF StreamSafe, QueueShape, ProducerShape
<1>5. PICK it \in Items : /\ it.kind = item.kind /\ publish_json_line(it)
                          /\ \/ it = item /\ ~Busy'
                             \/ item.kind = "esdf" /\ Busy' /\ item' = item
    <2>1. CASE writer_publish
        <3>1. publish_json_line(item) /\ ~Busy'
            BY <2>1 DEF writer_publish, Busy
        <3> QED BY <1>4, <3>1
    <2>2. CASE writer_first_chunk
        <3>1. publish_json_line(item) /\ item.kind = "esdf" /\ Busy' /\ item' = item
            BY <1>0, <2>2 DEF writer_first_chunk, Busy, ChunksAreEsdf
        <3> QED BY <1>4, <3>1
    <2>3. CASE writer_last_chunk
        <3> DEFINE b == [item EXCEPT !.full = FALSE]
        <3>1. publish_json_line(b) /\ item.kind = "esdf" /\ Busy' /\ item' = item
            BY <1>0, <2>3 DEF writer_last_chunk, Busy, ChunksAreEsdf
        <3>2. b \in Items /\ b.kind = item.kind
            BY <1>4 DEF Items
        <3> HIDE DEF b
        <3> QED BY <3>1, <3>2
    <2> QED BY <2>1, <2>2, <2>3
<1>6. Away.since = 0 /\ Away.st = "away"
    BY DEF Away
<1>7. SinceIsPast'
    <2> SUFFICES ASSUME NEW f \in Fds PROVE conn'[f].since <= seq
        BY <1>1 DEF SinceIsPast
    <2>1. conn'[f].since = 0 \/ conn'[f].since = conn[f].since
        BY <1>5, <1>6, PublishClient
    <2>2. conn[f].since <= seq /\ 0 <= seq
        BY <1>0, <1>4 DEF SinceIsPast
    <2> QED BY <2>1, <2>2
<1>8. ASSUME NEW f \in Fds, Watched(conn'[f]) PROVE SoundFor(f)'
    <2> DEFINE o == conn[f].owed
               o2 == conn'[f].owed
    <2>1. /\ Watched(conn[f]) /\ conn'[f].since = conn[f].since
          /\ (o2 = o /\ it.seq \in dropped') \/ o2 = Append(o, it)
        <3>1. conn'[f] # Away
            BY <1>6, <1>8 DEF Watched
        <3> QED BY <1>5, <1>8, <3>1, PublishClient DEF Watched
    <2>2. ASSUME NEW x, x.kind = "trav"
          PROVE  /\ (\E i \in DOMAIN o2 : x = o2[i]) \/ (Busy' /\ x = item')
                       => (\E i \in DOMAIN o : x = o[i]) \/ x = item
                 /\ (\E i \in DOMAIN o : x = o[i]) \/ x = item
                       => (\E i \in DOMAIN o2 : x = o2[i]) \/ x.seq \in dropped'
        <3>1. CASE o2 = o /\ it.seq \in dropped'
            <4>1. x = item => x = it
                BY <1>5, <2>2
            <4>2. Busy' /\ x = item' => x = item
                BY <1>5
            <4> HIDE DEF o, o2
            <4> QED BY <3>1, <4>1, <4>2
        <3>2. CASE o2 = Append(o, it)
            <4>1. o \in Seq(Items)
                BY PipeTypes
            <4> HIDE DEF o, o2
            <4>2. Len(o) \in Nat /\ DOMAIN o = 1..Len(o) /\ DOMAIN o2 = 1..(Len(o) + 1)
                  /\ o2[Len(o) + 1] = it /\ \A i \in 1..Len(o) : o2[i] = o[i]
                BY <1>5, <3>2, <4>1, AppendProperties
            <4>3. /\ \A i \in DOMAIN o2 : i \in DOMAIN o \/ i = Len(o) + 1
                  /\ \A i \in DOMAIN o : i \in DOMAIN o2 /\ o2[i] = o[i]
                  /\ Len(o) + 1 \in DOMAIN o2
                BY <4>2
            <4>4. (\E i \in DOMAIN o2 : x = o2[i]) <=> (\E i \in DOMAIN o : x = o[i]) \/ x = it
                BY <4>2, <4>3
            <4> QED BY <1>5, <2>2, <4>4
        <3> QED BY <2>1, <3>1, <3>2
    <2>3. ASSUME NEW x, x.kind = "trav"
          PROVE  /\ OnTheWay(x, conn'[f].owed, sendq', Busy', item', producer')
                       => OnTheWay(x, conn[f].owed, sendq, Busy, item, producer)
                 /\ OnTheWay(x, conn[f].owed, sendq, Busy, item, producer)
                       => OnTheWay(x, conn'[f].owed, sendq', Busy', item', producer') \/ x.seq \in dropped'
        BY <1>1, <2>2, <2>3 DEF OnTheWay
    <2>4. ASSUME NEW x
          PROVE  /\ x \in PipeOf(f)' => x \in PipeOf(f)
                 /\ x \in PipeOf(f) => x \in PipeOf(f)' \/ x.seq \in dropped'
        <3>1. IsLevel1(x, conn[f].since) => x.kind = "trav"
            BY DEF IsLevel1
        <3> QED BY <2>1, <2>3, <3>1, PipeIs
    <2>5. dropped \subseteq dropped' /\ seq <= seq' /\ (Filtering(producer) <=> Filtering(producer'))
          /\ (Filtering(producer) => producer'["perception"] = producer["perception"])
        <3>1. dropped \subseteq dropped'
            BY <1>5 DEF publish_json_line
        <3> QED BY <1>1, <1>4, <3>1
    <2> QED BY <1>0, <1>1, <2>1, <2>4, <2>5, SoundKept
<1>9. BrowsersSound'
    BY <1>8 DEF BrowsersSound
<1> QED BY <1>2, <1>3, <1>7, <1>9 DEF Level1Safe

\* The invariant is inductive.
LEMMA Level1SafeInductive ==
    /\ Init => Level1Safe
    /\ StreamSafe /\ Level1Safe /\ [Next]_vars => Level1Safe'
<1>1. ASSUME Init PROVE Level1Safe
    <2>1. /\ writer = "off" /\ seq = 0 /\ conn = [f \in Fds |-> Away]
          /\ producer["perception"] = Idle
        BY <1>1 DEF Init, Threads
    <2>2. \A f \in Fds : conn[f].since = 0 /\ ~Watched(conn[f])
        BY <2>1 DEF Away, Watched
    <2>3. ~Filtering(producer)
        BY <2>1 DEF Filtering, Idle
    <2> QED BY <2>1, <2>2, <2>3 DEF Level1Safe, NotStarted, ChunksAreEsdf, FilterIsPart, SinceIsPast,
                                    BrowsersSound
<1>2. ASSUME StreamSafe, Level1Safe, Next PROVE Level1Safe'
    <2>1. StreamSafe'
        BY <1>2, StreamSafeInductive
    <2>2. CASE Serving
        BY <1>2, <2>1, <2>2, ServingSound
    <2>3. CASE Numbering
        BY <1>2, <2>1, <2>3, NumberingSound
    <2>4. ASSUME NEW t \in Threads, enqueue_item(t) PROVE Level1Safe'
        BY <1>2, <2>1, <2>4, EnqueueSound
    <2>5. CASE writer_wait
        BY <1>2, <2>1, <2>5, WaitSound
    <2>6. CASE writer_publish \/ writer_first_chunk \/ writer_last_chunk
        BY <1>2, <2>1, <2>6, PublishSound
    <2> QED BY <1>2, <2>2, <2>3, <2>4, <2>5, <2>6 DEF Next, Producing, Writing, Serving, Numbering
<1>3. ASSUME Level1Safe, UNCHANGED vars PROVE Level1Safe'
    <2>1. UNCHANGED <<running, stopper, httpd, writer, item, sendq, dropped, seq, producer, l1,
                      l2_published, watermark, cache, conn>>
        BY <1>3 DEF vars, serverVars, writerVars, queueVars, sourceVars
    <2>2. Busy' = Busy
        BY <2>1 DEF Busy
    <2>3. \A f \in Fds : SoundFor(f)' <=> SoundFor(f)
        BY <2>1, <2>2 DEF SoundFor, PipeOf
    <2>4. BrowsersSound'
        BY <1>3, <2>1, <2>3 DEF Level1Safe, BrowsersSound
    <2>5. NotStarted' /\ ChunksAreEsdf' /\ FilterIsPart' /\ SinceIsPast'
        BY <1>3, <2>1 DEF Level1Safe, NotStarted, ChunksAreEsdf, FilterIsPart, SinceIsPast
    <2> QED BY <2>4, <2>5 DEF Level1Safe
<1> QED BY <1>1, <1>2, <1>3

-----------------------------------------------------------------------------
(* What a viewer shows. *)

ViewerStates == [cells : Map, slot : Seq(Items)]

\* g is the viewer after each of the items o, with frames drawn after those at dr.
ViewerOf(g, o, dr) ==
    g = [i \in 0..Len(o) |-> IF i = 0 THEN NewViewer ELSE Receive(g[i - 1], o[i], i \in dr)]

\* The handlers keep a viewer a viewer.
LEMMA ReceiveTypes ==
    ASSUME NEW v \in ViewerStates, NEW it \in Items, NEW frame
    PROVE  Receive(v, it, frame) \in ViewerStates
<1>1. ASSUME NEW u \in Map, NEW x \in Items PROVE Apply(u, x) \in Map
    <2>1. x.cells \in Map
        BY ItemTypes
    <2> QED BY <2>1 DEF Apply, Map
<1>2. /\ v = [cells |-> v.cells, slot |-> v.slot] /\ v.cells \in Map /\ v.slot \in Seq(Items)
      /\ v.slot # <<>> => v.slot[1] \in Items
      /\ <<it>> \in Seq(Items) /\ <<>> \in Seq(Items)
    BY DEF ViewerStates
<1>3. on_trav(v, it) \in ViewerStates
    <2>1. [v EXCEPT !.slot = <<it>>] \in ViewerStates
        BY <1>2 DEF ViewerStates
    <2>2. v.slot # <<>> => [cells |-> Apply(v.cells, v.slot[1]), slot |-> <<it>>] \in ViewerStates
        BY <1>1, <1>2 DEF ViewerStates
    <2> QED BY <2>1, <2>2 DEF on_trav
<1>4. ASSUME NEW w \in ViewerStates PROVE draw_trav(w) \in ViewerStates
    <2>1. /\ w.cells \in Map /\ w.slot \in Seq(Items)
          /\ w.slot # <<>> => w.slot[1] \in Items
        BY DEF ViewerStates
    <2> QED BY <1>1, <1>2, <2>1 DEF draw_trav, ViewerStates
<1> QED BY <1>3, <1>4 DEF Receive

LEMMA ViewerIs ==
    ASSUME NEW o \in Seq(Items), NEW dr
    PROVE  \E g : /\ ViewerOf(g, o, dr) /\ Viewer(o, dr) = g[Len(o)]
                  /\ \A i \in 0..Len(o) : g[i] \in ViewerStates
<1> DEFINE L == Len(o)
           h == [z \in ViewerStates \X (1..L) |-> Receive(z[1], o[z[2]], z[2] \in dr)]
<1>0. L \in Nat /\ DOMAIN o = 1..L /\ \A i \in 1..L : o[i] \in Items
    OBVIOUS
<1>b. NewViewer \in ViewerStates
    <2>1. EmptyMap \in Map /\ <<>> \in Seq(Items)
        BY EventStreamAssumption DEF EmptyMap, Map, MaxTime
    <2> QED BY <2>1 DEF NewViewer, ViewerStates
<1>1. PICK g : StepsOf(g, L, NewViewer, h)
    BY <1>0, StepsExist
<1>2. ASSUME NEW v \in ViewerStates, NEW i \in 1..L
      PROVE  /\ h[<<v, i>>] = Receive(v, o[i], i \in dr)
             /\ h[<<v, i>>] \in ViewerStates
    <2>1. <<v, i>> \in ViewerStates \X (1..L)
        OBVIOUS
    <2>2. h[<<v, i>>] = Receive(v, o[i], i \in dr)
        BY <2>1
    <2>3. o[i] \in Items
        BY <1>0
    <2> HIDE DEF h
    <2> QED BY <2>2, <2>3, ReceiveTypes
<1> HIDE DEF h, L
<1>3. /\ DOMAIN g = 0..L /\ g[0] = NewViewer
      /\ \A i \in 1..L : i - 1 \in 0..L /\ g[i] = h[<<g[i - 1], i>>]
    BY <1>0, <1>1 DEF StepsOf
<1>4. \A k \in Nat : k \in {n \in Nat : n <= L => g[n] \in ViewerStates}
    <2> DEFINE S == {n \in Nat : n <= L => g[n] \in ViewerStates}
    <2>1. 0 \in S
        BY <1>0, <1>3, <1>b
    <2>2. ASSUME NEW m \in Nat, m \in S PROVE m + 1 \in S
        <3> SUFFICES ASSUME m + 1 <= L PROVE g[m + 1] \in ViewerStates
            OBVIOUS
        <3>1. m + 1 \in 1..L /\ m <= L /\ (m + 1) - 1 = m
            BY <1>0
        <3>2. g[m] \in ViewerStates
            BY <2>2, <3>1
        <3>3. g[m + 1] = h[<<g[m], m + 1>>]
            BY <1>3, <3>1
        <3> QED BY <1>2, <3>1, <3>2, <3>3
    <2> HIDE DEF S
    <2>3. \A k \in Nat : k \in S
        BY <2>1, <2>2, AllNats
    <2> QED BY <2>3 DEF S
<1>t. \A i \in 0..L : g[i] \in ViewerStates
    <2> TAKE i \in 0..L
    <2>1. i \in Nat /\ i <= L
        BY <1>0
    <2> QED BY <1>4, <2>1
<1>5. ViewerOf(g, o, dr)
    <2>1. ASSUME NEW i \in 1..L PROVE g[i] = Receive(g[i - 1], o[i], i \in dr)
        <3>1. i - 1 \in 0..L
            BY <1>3
        <3>2. g[i - 1] \in ViewerStates
            BY <1>t, <3>1
        <3> QED BY <1>2, <1>3, <3>2
    <2>2. ASSUME NEW i \in 0..L
          PROVE  g[i] = IF i = 0 THEN NewViewer ELSE Receive(g[i - 1], o[i], i \in dr)
        <3>1. CASE i = 0
            BY <1>3, <3>1
        <3>2. CASE i # 0
            <4>1. i \in 1..L
                BY <1>0, <3>2
            <4> QED BY <2>1, <3>2, <4>1
        <3> QED BY <3>1, <3>2
    <2>3. g = [i \in 0..L |-> g[i]]
        BY <1>1 DEF StepsOf
    <2> QED BY <2>2, <2>3 DEF ViewerOf, L
<1> DEFINE view == CHOOSE u : ViewerOf(u, o, dr)
<1>6. Viewer(o, dr) = view[Len(o)]
    BY DEF Viewer, ViewerOf
<1>7. ViewerOf(view, o, dr)
    BY <1>5
<1>8. view = g
    <2> DEFINE S == {n \in Nat : n <= L => view[n] = g[n]}
    <2>1. /\ DOMAIN view = 0..L /\ view[0] = NewViewer
          /\ \A i \in 1..L : view[i] = Receive(view[i - 1], o[i], i \in dr)
        <3>1. view = [i \in 0..L |-> IF i = 0 THEN NewViewer ELSE Receive(view[i - 1], o[i], i \in dr)]
            BY <1>7 DEF ViewerOf, L
        <3> HIDE DEF view
        <3> QED BY <1>0, <3>1
    <2>2. \A i \in 1..L : g[i] = Receive(g[i - 1], o[i], i \in dr)
        BY <1>0, <1>5 DEF ViewerOf, L
    <2> HIDE DEF view
    <2>3. 0 \in S
        BY <1>3, <2>1
    <2>4. ASSUME NEW m \in Nat, m \in S PROVE m + 1 \in S
        <3> SUFFICES ASSUME m + 1 <= L PROVE view[m + 1] = g[m + 1]
            OBVIOUS
        <3>1. m + 1 \in 1..L /\ m <= L /\ (m + 1) - 1 = m
            BY <1>0
        <3> QED BY <2>1, <2>2, <2>4, <3>1
    <2> HIDE DEF S
    <2>5. \A k \in Nat : k \in S
        BY <2>3, <2>4, AllNats
    <2>6. \A i \in 0..L : view[i] = g[i]
        <3> TAKE i \in 0..L
        <3>1. i \in Nat /\ i <= L
            BY <1>0
        <3> QED BY <2>5, <3>1 DEF S
    <2>7. g = [i \in 0..L |-> g[i]]
        BY <1>1 DEF StepsOf
    <2>8. view = [i \in 0..L |-> view[i]]
        BY <1>7 DEF ViewerOf, L
    <2> QED BY <2>6, <2>7, <2>8
<1> HIDE DEF view
<1> QED BY <1>5, <1>6, <1>8, <1>t DEF L

\* The last of some places up to k.
LEMMA LastBefore ==
    ASSUME NEW k \in Nat, NEW S \in SUBSET Nat, NEW j \in S, j <= k
    PROVE  \E i \in S : i <= k /\ \A l \in S : l <= k => l <= i
<1> DEFINE T == {d \in Nat : d <= k /\ k - d \in S}
<1>1. T \in SUBSET Nat /\ k - j \in T
    OBVIOUS
<1>2. PICK d \in T : \A e \in T : d <= e
    BY <1>1, LeastNat
<1>3. k - d \in S /\ k - d <= k /\ d \in Nat /\ d <= k
    BY <1>2
<1>4. ASSUME NEW l \in S, l <= k PROVE l <= k - d
    <2>1. k - l \in T
        BY <1>4
    <2>2. d <= k - l
        BY <1>2, <2>1
    <2>3. l \in Int
        OBVIOUS
    <2> QED BY <1>3, <2>2, <2>3
<1> QED BY <1>3, <1>4

\* The places of the Level 1 items numbered after s.  They show one map growing,
\* and each is the whole of it, or a delta with all that is newer than another.
Level1Places(o, s) == {i \in DOMAIN o : IsLevel1(o[i], s)}
Chained(o, U) ==
    /\ \A i \in U : o[i].by = "perception" /\ PartOf(o[i].cells, o[i].map)
    /\ \A i, j \in U : o[i].seq <= o[j].seq => Continues(o[i].map, o[j].map)
    /\ \A i \in U : \/ FullItem(o[i])
                    \/ /\ ~o[i].full
                       /\ \E j \in U : o[j].seq < o[i].seq /\ Covers(o[j].map, o[i].cells, o[i].map)

\* A viewer will show the map m: with a, the last item it got, in its slot, or with
\* its slot drawn.
Shows(v, a) ==
    /\ draw_trav(v).cells = a.map
    /\ v.slot = <<>> \/ v.slot = <<a>>

\* A full map, or a delta that is new to a viewer that shows the map before it.
LEMMA ReceiveShows ==
    ASSUME NEW v \in ViewerStates, NEW b \in Items, b.kind = "trav", NEW frame \in BOOLEAN,
           \/ FullItem(b)
           \/ /\ ~b.full
              /\ \E a \in Items : /\ Shows(v, a) /\ Apply(a.map, b) = b.map
                                  /\ v.slot # <<>> => ~a.full
    PROVE  /\ Shows(Receive(v, b, frame), b)
           /\ frame => Receive(v, b, frame).slot = <<>>
<1> DEFINE w == on_trav(v, b)
<1>0. v = [cells |-> v.cells, slot |-> v.slot]
    BY DEF ViewerStates
<1>s. <<b>> # <<>> /\ <<b>>[1] = b
    OBVIOUS
<1>1. w.slot = <<b>> /\ Apply(w.cells, b) = b.map
    <2>1. CASE FullItem(b)
        <3>1. w.slot = <<b>>
            BY <1>0, <2>1 DEF on_trav, FullItem
        <3> QED BY <2>1, <3>1 DEF FullItem, Apply
    <2>2. CASE ~b.full /\ \E a \in Items : /\ Shows(v, a) /\ Apply(a.map, b) = b.map
                                           /\ v.slot # <<>> => ~a.full
        <3>1. PICK a \in Items : /\ Shows(v, a) /\ Apply(a.map, b) = b.map
                                 /\ v.slot # <<>> => ~a.full
            BY <2>2
        <3>2. CASE v.slot = <<>>
            <4>1. v.cells = a.map
                BY <3>1, <3>2 DEF Shows, draw_trav
            <4>2. w = [cells |-> v.cells, slot |-> <<b>>]
                BY <1>0, <3>2 DEF on_trav
            <4> QED BY <3>1, <4>1, <4>2
        <3>3. CASE v.slot # <<>>
            <4>1. v.slot = <<a>> /\ v.slot[1] = a /\ ~a.full
                BY <3>1, <3>3 DEF Shows
            <4>2. Apply(v.cells, a) = a.map
                BY <3>1, <3>3, <4>1 DEF Shows, draw_trav
            <4>3. w = [cells |-> Apply(v.cells, a), slot |-> <<b>>]
                BY <2>2, <3>3, <4>1 DEF on_trav
            <4> QED BY <3>1, <4>2, <4>3
        <3> QED BY <3>2, <3>3
    <2> QED BY <2>1, <2>2
<1> HIDE DEF w
<1>2. draw_trav(w) = [cells |-> b.map, slot |-> <<>>]
    BY <1>1, <1>s DEF draw_trav
<1>3. Receive(v, b, frame) = IF frame THEN draw_trav(w) ELSE w
    BY DEF Receive, w
<1>4. CASE frame
    <2>1. Receive(v, b, frame) = [cells |-> b.map, slot |-> <<>>]
        BY <1>2, <1>3, <1>4
    <2>2. draw_trav([cells |-> b.map, slot |-> <<>>]) = [cells |-> b.map, slot |-> <<>>]
        BY DEF draw_trav
    <2> QED BY <2>1, <2>2 DEF Shows
<1>5. CASE ~frame
    BY <1>1, <1>2, <1>3, <1>5 DEF Shows
<1> QED BY <1>4, <1>5

\* Another item changes nothing, and neither does drawing twice.
LEMMA OtherShows ==
    ASSUME NEW v \in ViewerStates, NEW a \in Items, Shows(v, a), NEW b \in Items, b.kind # "trav",
           NEW frame \in BOOLEAN
    PROVE  /\ Shows(Receive(v, b, frame), a)
           /\ Receive(v, b, frame).slot = <<>> \/ (~frame /\ Receive(v, b, frame) = v)
<1>1. Receive(v, b, frame) = IF frame THEN draw_trav(v) ELSE v
    BY DEF Receive
<1>2. draw_trav(v).slot = <<>> /\ draw_trav(v).cells = a.map
    BY DEF draw_trav, Shows
<1> DEFINE d == draw_trav(v)
<1>3. CASE frame
    <2>1. Receive(v, b, frame) = d /\ d.slot = <<>> /\ d.cells = a.map
        BY <1>1, <1>2, <1>3
    <2> HIDE DEF d
    <2>2. draw_trav(d) = d
        BY <2>1 DEF draw_trav
    <2> QED BY <2>1, <2>2 DEF Shows
<1>4. CASE ~frame
    BY <1>1, <1>4
<1> QED BY <1>3, <1>4

\* After each item the viewer will show the map of the last Level 1 item.
LEMMA ViewShows ==
    ASSUME NEW o \in Seq(Items), InOrder(o), NEW s \in Int, Chained(o, Level1Places(o, s)),
           NEW dr, DrawnInTime(o, dr), NEW g, ViewerOf(g, o, dr),
           \A n \in 0..Len(o) : g[n] \in ViewerStates,
           NEW i \in Level1Places(o, s), \A j \in Level1Places(o, s) : j <= i
    PROVE  draw_trav(g[Len(o)]).cells = o[i].map
<1> DEFINE U == Level1Places(o, s)
           L == Len(o)
           LastUpTo(k, l) == l <= k /\ \A j \in U : j <= k => j <= l
           Kept(k, l) == Shows(g[k], o[l]) /\ (g[k].slot # <<>> => dr \cap (l..k) = {})
           S == {k \in Nat : k <= L => \A l \in U : LastUpTo(k, l) => Kept(k, l)}
<1>0. L \in Nat /\ DOMAIN o = 1..L /\ \A l \in 1..L : o[l] \in Items
    OBVIOUS
<1>1. \A l \in U : /\ l \in 1..L /\ l \in Nat /\ o[l] \in Items /\ o[l].seq \in Int
                   /\ o[l].map \in Map /\ o[l].by = "perception" /\ PartOf(o[l].cells, o[l].map)
                   /\ o[l].kind = "trav" /\ s < o[l].seq
    <2> TAKE l \in U
    <2>1. l \in 1..L /\ l \in Nat /\ o[l] \in Items /\ IsLevel1(o[l], s)
        BY <1>0 DEF Level1Places
    <2>2. o[l].seq \in Int /\ o[l].map \in Map /\ o[l].by = "perception" /\ PartOf(o[l].cells, o[l].map)
        BY <2>1, ItemTypes DEF Chained
    <2> QED BY <2>1, <2>2 DEF IsLevel1
<1>2. \A k \in 1..L : k - 1 \in 0..L /\ g[k] = Receive(g[k - 1], o[k], k \in dr)
    BY <1>0 DEF ViewerOf
<1>u. ASSUME NEW k \in 1..L, o[k].kind = "trav", NEW l \in U, l < k PROVE k \in U
    <2>1. o[k] \in Items /\ o[k].by = "perception" /\ o[k].seq \in Int
        BY <1>0, <1>u, ItemTypes DEF Items
    <2>2. NotAfter(o[l], o[k])
        BY <1>0, <1>1, <1>u DEF InOrder
    <2>3. o[l].seq <= o[k].seq /\ s < o[l].seq /\ o[l].seq \in Int
        BY <1>1, <2>1, <2>2 DEF NotAfter
    <2>4. IsLevel1(o[k], s)
        BY <1>u, <2>1, <2>3 DEF IsLevel1
    <2> QED BY <1>0, <2>4 DEF Level1Places
<1>v. \A k \in 1..L : k \in U => o[k].kind = "trav"
    BY <1>1
<1>c. U \in SUBSET Nat /\ Chained(o, U) /\ i \in U /\ \A j \in U : j <= i
    BY <1>1
<1> HIDE DEF U
<1>3. 0 \in S
    BY <1>1
<1>4. ASSUME NEW a \in U, NEW b \in U, a <= b PROVE Continues(o[a].map, o[b].map)
    <2>1. o[a].seq <= o[b].seq
        <3>1. CASE a = b
            BY <1>1, <3>1
        <3>2. CASE a # b
            <4>1. a < b /\ a \in DOMAIN o /\ b \in DOMAIN o
                BY <1>0, <1>1, <1>4, <3>2
            <4>2. NotAfter(o[a], o[b])
                BY <4>1 DEF InOrder
            <4> QED BY <1>1, <4>2 DEF NotAfter
        <3> QED BY <3>1, <3>2
    <2> QED BY <1>c, <2>1 DEF Chained
<1>5. ASSUME NEW k \in Nat, k \in S PROVE k + 1 \in S
    <2> SUFFICES ASSUME k + 1 <= L, NEW l \in U, LastUpTo(k + 1, l) PROVE Kept(k + 1, l)
        OBVIOUS
    <2> DEFINE b == o[k + 1]
               v == g[k]
               frame == (k + 1) \in dr
    <2>1. k + 1 \in 1..L /\ k <= L /\ (k + 1) - 1 = k /\ k \in 0..L
        BY <1>0
    <2>2. /\ b \in Items /\ v \in ViewerStates /\ frame \in BOOLEAN
          /\ g[k + 1] = Receive(v, b, frame)
        BY <1>0, <1>2, <2>1
    <2>3. CASE k + 1 \notin U
        <3>2. l <= k
            BY <1>1, <2>3
        <3>3. LastUpTo(k, l)
            <4>1. ASSUME NEW j \in U, j <= k PROVE j <= l
                <5>1. j <= k + 1
                    BY <1>1, <4>1
                <5> QED BY <5>1
            <4> QED BY <3>2, <4>1
        <3>4. Kept(k, l)
            BY <1>5, <2>1, <3>3
        <3>5. b.kind # "trav"
            <4>1. l < k + 1
                BY <1>1, <3>2
            <4> QED BY <1>u, <2>1, <2>3, <4>1
        <3>6. o[l] \in Items /\ l \in Nat
            BY <1>1
        <3> HIDE DEF b, v, frame
        <3>7. Shows(v, o[l])
            BY <3>4 DEF v
        <3>8. Shows(g[k + 1], o[l]) /\ (g[k + 1].slot = <<>> \/ (~frame /\ g[k + 1] = v))
            BY <2>2, <3>5, <3>6, <3>7, OtherShows
        <3>9. ASSUME g[k + 1].slot # <<>> PROVE dr \cap (l..(k + 1)) = {}
            <4>1. ~frame /\ v.slot # <<>>
                BY <3>8, <3>9
            <4>2. dr \cap (l..k) = {} /\ (k + 1) \notin dr
                BY <3>4, <4>1 DEF v, frame
            <4>3. \A x \in l..(k + 1) : x \in l..k \/ x = k + 1
                BY <3>6
            <4> QED BY <4>2, <4>3
        <3> QED BY <3>8, <3>9
    <2>4. CASE k + 1 \in U
        <3>1. l = k + 1
            <4>1. k + 1 <= l /\ l <= k + 1 /\ l \in Nat
                BY <1>1, <2>4
            <4> QED BY <4>1
        <3>0. b.kind = "trav" /\ b = o[l]
            BY <1>v, <2>1, <2>4, <3>1
        <3>2. ASSUME ~b.full, \E j \in U : o[j].seq < b.seq /\ Covers(o[j].map, b.cells, b.map)
              PROVE  \E a \in Items : /\ Shows(v, a) /\ Apply(a.map, b) = b.map
                                      /\ v.slot # <<>> => ~a.full
            <4>1. PICK j \in U : o[j].seq < b.seq /\ Covers(o[j].map, b.cells, b.map)
                BY <3>2
            <4>2. j <= k
                <5>1. SUFFICES ASSUME ~(j <= k) PROVE FALSE
                    OBVIOUS
                <5>2. j = l \/ l < j
                    BY <1>1, <3>1, <5>1
                <5>3. b.seq <= o[j].seq
                    <6>1. CASE j = l
                        BY <1>1, <3>0, <6>1
                    <6>2. CASE l < j
                        <7>1. NotAfter(b, o[j])
                            BY <1>0, <1>1, <3>0, <6>2 DEF InOrder
                        <7> QED BY <1>1, <3>0, <7>1 DEF NotAfter
                    <6> QED BY <5>2, <6>1, <6>2
                <5>4. o[j].seq \in Int /\ b.seq \in Int
                    BY <1>1, <3>0
                <5> QED BY <4>1, <5>3, <5>4
            <4>3. PICK a \in U : a <= k /\ \A e \in U : e <= k => e <= a
                BY <1>c, <4>2, LastBefore
            <4>4. Kept(k, a)
                <5>1. LastUpTo(k, a)
                    BY <4>3
                <5> HIDE DEF LastUpTo, Kept
                <5> QED BY <1>5, <2>1, <5>1
            <4>5. Continues(o[j].map, o[a].map) /\ Continues(o[a].map, b.map)
                <5>1. j <= a
                    BY <4>2, <4>3
                <5>2. a <= l
                    BY <1>1, <3>1, <4>3
                <5> QED BY <1>4, <3>0, <5>1, <5>2
            <4>6. b \in Items /\ b.map \in Map /\ o[a].map \in Map /\ o[j].map \in Map /\ o[a] \in Items
                BY <1>1, <3>0
            <4>7. PartOf(b.cells, b.map)
                BY <1>1, <3>0
            <4>a. v.slot # <<>> => ~o[a].full
                <5> SUFFICES ASSUME v.slot # <<>>, o[a].full PROVE FALSE
                    OBVIOUS
                <5>1. dr \cap (a..k) = {}
                    BY <4>4
                <5>2. a \in DOMAIN o /\ k + 1 \in DOMAIN o /\ a < k + 1 /\ o[a].kind = "trav"
                    BY <1>0, <1>1, <2>1, <4>3
                <5>3. dr \cap (a..((k + 1) - 1)) # {}
                    BY <3>0, <3>2, <5>2 DEF DrawnInTime
                <5> QED BY <2>1, <5>1, <5>3
            <4> DEFINE ma == o[a].map
                       mj == o[j].map
            <4>8. Covers(mj, b.cells, b.map) /\ Continues(mj, ma) /\ Continues(ma, b.map) /\ ma \in Map
                  /\ mj \in Map /\ ~b.full
                BY <3>2, <4>1, <4>5, <4>6
            <4>b. Shows(v, o[a])
                BY <4>4
            <4> HIDE DEF b, ma, mj, v
            <4>9. Covers(ma, b.cells, b.map)
                BY <4>6, <4>8, CoversLater
            <4>10. Apply(ma, b) = b.map
                BY <4>6, <4>7, <4>8, <4>9, MergedIsMap
            <4> QED BY <4>6, <4>10, <4>a, <4>b DEF ma
        <3>3. FullItem(b) \/ (~b.full /\ \E j \in U : o[j].seq < b.seq /\ Covers(o[j].map, b.cells, b.map))
            BY <1>c, <2>4 DEF Chained
        <3> HIDE DEF b, v, frame
        <3>4. /\ Shows(g[k + 1], b)
              /\ frame => g[k + 1].slot = <<>>
            BY <2>2, <3>0, <3>2, <3>3, ReceiveShows
        <3>5. ASSUME g[k + 1].slot # <<>> PROVE dr \cap (l..(k + 1)) = {}
            <4>1. (k + 1) \notin dr
                BY <3>4, <3>5 DEF frame
            <4>2. \A x \in l..(k + 1) : x = k + 1
                BY <3>1
            <4> QED BY <4>1, <4>2
        <3> QED BY <3>0, <3>4, <3>5
    <2> QED BY <2>3, <2>4
<1> HIDE DEF S
<1>6. \A k \in Nat : k \in S
    BY <1>3, <1>5, AllNats
<1>7. L \in S /\ L <= L
    BY <1>0, <1>6
<1>8. LastUpTo(L, i)
    BY <1>0, <1>1, <1>c
<1>9. \A l \in U : LastUpTo(L, l) => Kept(L, l)
    BY <1>7 DEF S
<1> QED BY <1>c, <1>8, <1>9 DEF Shows

\* The invariant says what a browser shows.
LEMMA Level1IsShown ==
    ASSUME StreamSafe, Level1Safe, NEW f \in Fds, NEW i \in Level1Of(f),
           Watched(conn[f]), Complete(f, i), \A j \in Level1Of(f) : j <= i,
           NEW drawn, DrawnInTime(conn[f].owed, drawn)
    PROVE  draw_trav(Viewer(conn[f].owed, drawn)).cells = conn[f].owed[i].map
<1> DEFINE o == conn[f].owed
           s == conn[f].since
           P == PipeOf(f)
           U == Level1Of(f)
<1>1. o \in Seq(Items) /\ s \in Int /\ P \in SUBSET Items /\ seq \in Int /\ dropped \in SUBSET Int
    BY PipeTypes
<1>2. InOrder(o)
    BY DEF StreamSafe, ClientShape, Client
<1>3. Level1Sound(P, s, dropped, seq, l1, watermark, producer["perception"])
    BY DEF Level1Safe, BrowsersSound, SoundFor
<1>4. Growing(P, s, seq, l1) /\ Based(P, s, dropped)
    BY <1>3 DEF Level1Sound
<1>5. U = {j \in DOMAIN o : IsLevel1(o[j], s)} /\ U = Level1Places(o, s)
    BY DEF Level1Of, Level1Places
<1>6. U \in SUBSET Nat /\ \A j \in U : j \in DOMAIN o /\ o[j] \in Items
    BY <1>1, <1>5
<1>7. \A j \in U : o[j] \in P
    <2> TAKE j \in U
    <2>1. OnTheWay(o[j], o, sendq, Busy, item, producer)
        BY <1>6 DEF OnTheWay
    <2> QED BY <1>5, <1>6, <2>1, PipeIs
<1>8. \A j \in U : o[j].seq \in Int /\ o[j].by = "perception"
    BY <1>4, <1>6, <1>7, ItemTypes DEF Growing
<1>9. \A j \in U : Undropped(dropped, s, o[j].seq)
    <2> TAKE j \in U
    <2>1. o[j].seq <= o[i].seq
        <3>1. j <= i /\ j \in Nat /\ i \in Nat
            BY <1>6
        <3>2. CASE j = i
            BY <1>8, <3>2
        <3>3. CASE j < i
            <4>1. NotAfter(o[j], o[i])
                BY <1>2, <1>6, <3>3 DEF InOrder
            <4> QED BY <1>8, <4>1 DEF NotAfter
        <3> QED BY <3>1, <3>2, <3>3
    <2>2. SUFFICES ASSUME NEW d \in dropped, s < d, d <= o[j].seq PROVE FALSE
        BY DEF Undropped
    <2>3. d \in Int /\ o[j].seq \in Int /\ o[i].seq \in Int
        BY <1>1, <1>8
    <2>4. d \in (s + 1)..o[i].seq
        BY <1>1, <2>1, <2>2, <2>3
    <2> QED BY <2>4 DEF Complete
<1>10. ASSUME NEW b \in U, NEW a \in P, a.seq < o[b].seq PROVE \E j \in U : o[j] = a
    <2>1. /\ a \in Items /\ IsLevel1(a, s) /\ OnTheWay(a, o, sendq, Busy, item, producer)
        BY <1>10, PipeIs
    <2>2. a.seq \in Int /\ o[b].seq \in Int /\ a.by = o[b].by
        BY <1>4, <1>8, <2>1, ItemTypes DEF Growing
    <2>3. Behind(o[b], sendq, seq, producer) /\ (Busy => NotAfter(o[b], item))
        BY <1>6, OwedIs
    <2>4. ~Earlier(o[b], a) /\ ~NotAfter(o[b], a)
        BY <1>10, <2>2 DEF Earlier, NotAfter
    <2>5. \E j \in DOMAIN o : a = o[j]
        BY <2>1, <2>3, <2>4 DEF OnTheWay, Behind
    <2> QED BY <1>5, <2>1, <2>5
<1>11. Chained(o, U)
    <2> SUFFICES ASSUME NEW b \in U
                 PROVE  \/ FullItem(o[b])
                        \/ /\ ~o[b].full
                           /\ \E j \in U : o[j].seq < o[b].seq /\ Covers(o[j].map, o[b].cells, o[b].map)
        <3>1. \A j \in U : o[j].by = "perception" /\ PartOf(o[j].cells, o[j].map)
            BY <1>4, <1>7 DEF Growing
        <3>2. \A j, k \in U : o[j].seq <= o[k].seq => Continues(o[j].map, o[k].map)
            BY <1>4, <1>7 DEF Growing
        <3> HIDE DEF o, U
        <3> QED BY <3>1, <3>2 DEF Chained
    <2>1. FullItem(o[b]) \/ Rests(P, o[b])
        BY <1>4, <1>7, <1>9 DEF Based
    <2>2. ASSUME Rests(P, o[b])
          PROVE  \E j \in U : o[j].seq < o[b].seq /\ Covers(o[j].map, o[b].cells, o[b].map)
        <3>1. PICK a \in P : a.seq < o[b].seq /\ Covers(a.map, o[b].cells, o[b].map)
            BY <2>2 DEF Rests
        <3>2. PICK j \in U : o[j] = a
            BY <1>10, <3>1
        <3> QED BY <3>1, <3>2
    <2> QED BY <2>1, <2>2 DEF Rests
<1>12. /\ i \in Level1Places(o, s) /\ \A j \in Level1Places(o, s) : j <= i
       /\ Chained(o, Level1Places(o, s)) /\ DrawnInTime(o, drawn)
    BY <1>5, <1>11
<1> HIDE DEF o, s, P, U
<1>13. PICK g : /\ ViewerOf(g, o, drawn) /\ Viewer(o, drawn) = g[Len(o)]
                /\ \A n \in 0..Len(o) : g[n] \in ViewerStates
    BY <1>1, ViewerIs
<1>14. draw_trav(g[Len(o)]).cells = o[i].map
    BY <1>1, <1>2, <1>12, <1>13, ViewShows
<1> QED BY <1>13, <1>14 DEF o, s

\* RuntimeEventStreamServer and mission_unified_viewer.py: a browser that registered
\* while no Level 1 publication was under way, before whose last publication no event
\* was dropped, and that draws a full map before the next delta overwrites it, shows
\* the observations of the Level 1 map as it was then, though the server sends it the
\* whole map only once and cells newer than the watermark from then on, whichever
\* browsers come and reset the watermark meanwhile.
THEOREM BrowsersShowLevel1 == Spec => []BrowserShowsLevel1
<1>1. StreamSafe /\ Level1Safe => BrowserShowsLevel1
    BY Level1IsShown DEF BrowserShowsLevel1, Watched
<1> QED BY <1>1, StreamSafeInductive, Level1SafeInductive, PTL DEF Spec

-----------------------------------------------------------------------------
(* The distance transform: a lower envelope of parabolas. *)

\* The parabola of source p, at x.
Par(f, s, p, x) == (x - p) * (x - p) * s * s + f[p]

\* The place at, a fraction, is before x.
Under(at, x) == at[1] < x * at[2]

\* Two parabolas cross once, where Meet says.
LEMMA MeetSplits ==
    ASSUME NEW f, NEW s \in Int, NEW p \in Int, NEW q \in Int, NEW x \in Int, f[p] \in Int, f[q] \in Int
    PROVE  Under(Meet(f, s, p, q), x) <=> Par(f, s, q, x) < Par(f, s, p, x)
<1> DEFINE a == f[p]
           b == f[q]
           S == s * s
<1>1. a \in Int /\ b \in Int /\ S \in Int
    OBVIOUS
<1>2. Meet(f, s, p, q) = <<S * (q * q - p * p) + b - a, 2 * s * s * (q - p)>>
    BY DEF Meet
<1>3. 2 * s * s * (q - p) = 2 * S * (q - p)
    OBVIOUS
<1>4. (x - p) * (x - p) * s * s = (x - p) * (x - p) * S /\ (x - q) * (x - q) * s * s = (x - q) * (x - q) * S
    OBVIOUS
<1>5. Par(f, s, p, x) = (x - p) * (x - p) * S + a /\ Par(f, s, q, x) = (x - q) * (x - q) * S + b
    BY <1>4 DEF Par
<1> HIDE DEF a, b, S
<1>6. ((x - p) * (x - p) * S + a) - ((x - q) * (x - q) * S + b)
         = x * (2 * S * (q - p)) - (S * (q * q - p * p) + b - a)
    BY <1>1
<1>7. Under(Meet(f, s, p, q), x) <=> S * (q * q - p * p) + b - a < x * (2 * S * (q - p))
    BY <1>2, <1>3 DEF Under
<1>8. /\ (x - p) * (x - p) * S + a \in Int /\ (x - q) * (x - q) * S + b \in Int
      /\ x * (2 * S * (q - p)) \in Int /\ S * (q * q - p * p) + b - a \in Int
    BY <1>1
<1> QED BY <1>5, <1>6, <1>7, <1>8

LEMMA Cancel ==
    ASSUME NEW a \in Int, NEW b \in Int, NEW c \in Int, c > 0, a * c < b * c
    PROVE  a < b
<1> SUFFICES ASSUME ~(a < b) PROVE FALSE
    OBVIOUS
<1>1. a - b \in Nat /\ c \in Nat
    OBVIOUS
<1>2. (a - b) * c \in Nat
    BY <1>1
<1>3. (a - b) * c = a * c - b * c
    OBVIOUS
<1>4. a * c \in Int /\ b * c \in Int
    OBVIOUS
<1> QED BY <1>2, <1>3, <1>4

LEMMA Scale ==
    ASSUME NEW a \in Int, NEW b \in Int, NEW c \in Int, c > 0, a < b
    PROVE  a * c < b * c
<1>1. b - a - 1 \in Nat /\ c \in Nat
    OBVIOUS
<1>2. (b - a - 1) * c \in Nat
    BY <1>1
<1>3. (b - a - 1) * c = b * c - a * c - c
    OBVIOUS
<1>4. a * c \in Int /\ b * c \in Int
    OBVIOUS
<1> QED BY <1>2, <1>3, <1>4

\* A fraction not beyond one that is before x is before x, too.
LEMMA UnderDown ==
    ASSUME NEW u, NEW v, u[1] \in Int, u[2] \in Int, u[2] > 0, v[1] \in Int, v[2] \in Int, v[2] > 0,
           NEW x \in Int, Under(v, x), ~Beyond(u, v)
    PROVE  Under(u, x)
<1> DEFINE a == u[1]
           b == u[2]
           c == v[1]
           d == v[2]
<1>1. a \in Int /\ b \in Int /\ b > 0 /\ c \in Int /\ d \in Int /\ d > 0 /\ c < x * d /\ a * d <= c * b
    BY DEF Under, Beyond
<1> HIDE DEF a, b, c, d
<1>2. c * b < (x * d) * b
    BY <1>1, Scale
<1>3. (x * d) * b = (x * b) * d /\ x * b \in Int /\ a * d \in Int /\ c * b \in Int
    BY <1>1
<1>4. a * d < (x * b) * d
    BY <1>1, <1>2, <1>3
<1>5. a < x * b
    BY <1>1, <1>3, <1>4, Cancel
<1> QED BY <1>5 DEF Under, a, b

\* The parabola j of e is the one x lies under.
IsUnder(e, x, j) ==
    /\ j \in 1..Len(e)
    /\ \A h \in 2..j : Under(e[h].from, x)
    /\ j < Len(e) => ~Under(e[j + 1].from, x)

\* There is one ...
LEMMA OneIsUnder ==
    ASSUME NEW T, NEW e \in Seq(T), e # <<>>, NEW x
    PROVE  \E j : IsUnder(e, x, j)
<1> DEFINE n == Len(e)
           S == {h \in 2..n : ~Under(e[h].from, x)}
<1>1. n \in Nat \ {0}
    BY EmptySeq
<1>2. CASE S = {}
    <2>1. n \in 1..n /\ ~(n < n) /\ \A h \in 2..n : Under(e[h].from, x)
        BY <1>1, <1>2
    <2> QED BY <2>1 DEF IsUnder
<1>3. CASE S # {}
    <2>1. S \in SUBSET Nat
        OBVIOUS
    <2>2. PICK l \in S : \A h \in S : l <= h
        BY <1>3, <2>1, LeastNat
    <2>3. l \in 2..n /\ ~Under(e[l].from, x)
        BY <2>2
    <2>4. l - 1 \in 1..n /\ (l - 1) + 1 = l
        BY <1>1, <2>3
    <2>5. ASSUME NEW h \in 2..(l - 1) PROVE Under(e[h].from, x)
        <3>1. h \in 2..n /\ ~(l <= h)
            BY <1>1, <2>3
        <3> QED BY <2>2, <3>1
    <2>6. IsUnder(e, x, l - 1)
        BY <2>3, <2>4, <2>5 DEF IsUnder
    <2> QED BY <2>6
<1> QED BY <1>2, <1>3

\* ... and it is the one that Lowest() picks.
LEMMA PickIsUnder ==
    ASSUME NEW T, NEW e \in Seq(T), NEW x, NEW j, IsUnder(e, x, j)
    PROVE  Max({1} \cup {i \in DOMAIN e : \A h \in 2..i : Under(e[h].from, x)}) = j
<1> DEFINE S == {1} \cup {i \in DOMAIN e : \A h \in 2..i : Under(e[h].from, x)}
           n == Len(e)
<1>1. /\ n \in Nat /\ DOMAIN e = 1..n /\ j \in 1..n /\ \A h \in 2..j : Under(e[h].from, x)
      /\ j < n => ~Under(e[j + 1].from, x)
    BY DEF IsUnder
<1>2. j \in S /\ S \subseteq Int
    BY <1>1
<1>3. ASSUME NEW i \in S PROVE j >= i
    <2> SUFFICES ASSUME ~(j >= i) PROVE FALSE
        OBVIOUS
    <2>1. i \in 1..n /\ i # 1 /\ \A h \in 2..i : Under(e[h].from, x)
        BY <1>1
    <2>2. j + 1 \in 2..i /\ j < n
        BY <1>1, <2>1
    <2> QED BY <1>1, <2>1, <2>2
<1> HIDE DEF S
<1>4. \A i \in S : (\A h \in S : i >= h) => i = j
    BY <1>2, <1>3
<1>5. (CHOOSE i \in S : \A h \in S : i >= h) = j
    BY <1>2, <1>3, <1>4
<1> QED BY <1>5 DEF Max, S

\* Entries of an envelope of the sources up to m.
Arcs(f, m) == [at : {p \in 0..m : f[p] < InfSq}, from : Int \X (Nat \ {0})]

\* The envelope of the sources up to m: at every place of the column the parabola it
\* lies under is the lowest of all.
IsEnvelope(e, f, s, n, m) ==
    /\ e \in Seq(Arcs(f, m))
    /\ e = <<>> => \A p \in 0..m : f[p] >= InfSq
    /\ e # <<>> => e[1].from = <<-InfSq, 1>>
    /\ \A i \in 2..Len(e) : \A h \in 2..i : \A x \in Int : Under(e[i].from, x) => Under(e[h].from, x)
    /\ \A x \in 0..n, j \in 1..Len(e) : IsUnder(e, x, j) =>
          \A p \in 0..m : f[p] < InfSq => Par(f, s, e[j].at, x) <= Par(f, s, p, x)

\* The envelope with the parabola of q, as Envelope() goes from one source to the next.
WithSource(f, s, e, q) ==
    LET k == Max({0} \cup {i \in DOMAIN e : Beyond(Meet(f, s, e[i].at, q), e[i].from)})
    IN  IF f[q] >= InfSq THEN e
        ELSE Append(SubSeq(e, 1, k),
                    [at |-> q, from |-> IF k = 0 THEN <<-InfSq, 1>> ELSE Meet(f, s, e[k].at, q)])

\* The last parabola that stays when q comes, 0 if none does.
IsKept(e, f, s, q, k) ==
    /\ k \in 0..Len(e)
    /\ k # 0 => Beyond(Meet(f, s, e[k].at, q), e[k].from)
    /\ \A i \in (k + 1)..Len(e) : ~Beyond(Meet(f, s, e[i].at, q), e[i].from)

\* A bounded set of naturals has a greatest element.
LEMMA GreatestNat ==
    ASSUME NEW n \in Nat, NEW S \in SUBSET (0..n), S # {}
    PROVE  Max(S) \in S /\ \A i \in S : i <= Max(S)
<1> DEFINE U == {m \in 0..n : n - m \in S}
<1>1. U \in SUBSET Nat /\ U # {}
    <2>1. PICK i \in S : TRUE
        OBVIOUS
    <2>2. i \in 0..n /\ n - i \in 0..n /\ n - (n - i) = i
        OBVIOUS
    <2>3. n - (n - i) \in S
        BY <2>2
    <2>4. n - i \in U
        BY <2>2, <2>3
    <2>5. U \in SUBSET Nat
        OBVIOUS
    <2> HIDE DEF U
    <2> QED BY <2>4, <2>5
<1>2. PICK m \in U : \A l \in U : m <= l
    BY <1>1, LeastNat
<1>3. m \in 0..n /\ n - m \in S
    BY <1>2
<1>4. ASSUME NEW i \in S PROVE n - m >= i
    <2>1. i \in 0..n /\ n - i \in 0..n /\ n - (n - i) = i
        OBVIOUS
    <2>2. m <= n - i
        BY <1>2, <2>1
    <2> QED BY <1>3, <2>1, <2>2
<1>5. \E g \in S : \A i \in S : g >= i
    BY <1>3, <1>4
<1>6. Max(S) \in S /\ \A i \in S : Max(S) >= i
    BY <1>5 DEF Max
<1> QED BY <1>6

LEMMA OneIsKept ==
    ASSUME NEW T, NEW e \in Seq(T), NEW f, NEW s, NEW q
    PROVE  IsKept(e, f, s, q, Max({0} \cup {i \in DOMAIN e : Beyond(Meet(f, s, e[i].at, q), e[i].from)}))
<1> DEFINE B(i) == Beyond(Meet(f, s, e[i].at, q), e[i].from)
           n == Len(e)
           S == {0} \cup {i \in DOMAIN e : B(i)}
           k == Max(S)
<1>1. n \in Nat /\ DOMAIN e = 1..n
    OBVIOUS
<1> HIDE DEF B
<1>2. S \in SUBSET (0..n) /\ S # {}
    BY <1>1
<1>3. \A i \in S : i = 0 \/ B(i)
    OBVIOUS
<1>4. \A i \in 1..n : B(i) => i \in S
    BY <1>1
<1> HIDE DEF S
<1>5. k \in S /\ \A i \in S : i <= k
    BY <1>1, <1>2, GreatestNat
<1> HIDE DEF k, n
<1>6. k \in 0..n /\ (k # 0 => B(k))
    BY <1>2, <1>3, <1>5
<1>7. ASSUME NEW i \in (k + 1)..n PROVE ~B(i)
    <2>1. i \in 1..n /\ ~(i <= k)
        BY <1>1, <1>6
    <2> QED BY <1>4, <1>5, <2>1
<1> QED BY <1>6, <1>7 DEF IsKept, B, k, n, S

LEMMA InfSqLimit == InfSq \in Nat /\ -InfSq \in Int /\ \A x \in Nat : -InfSq < x
BY SMT DEF InfSq

LEMMA PositiveTimes == \A a, b \in Nat \ {0} : a * b \in Nat \ {0}
OBVIOUS

LEMMA PairIsPlace == \A a \in Int, b \in Nat \ {0} : <<a, b>> \in Int \X (Nat \ {0})
OBVIOUS

LEMMA StartIsPlace == <<-InfSq, 1>> \in Int \X (Nat \ {0})
<1>1. -InfSq \in Int /\ 1 \in Nat \ {0}
    BY InfSqLimit
<1> QED BY <1>1, PairIsPlace, Zenon

LEMMA ParIsInt ==
    ASSUME NEW f, NEW s \in Int, NEW p \in Int, NEW x \in Int, f[p] \in Int
    PROVE  Par(f, s, p, x) \in Int
<1>1. (x - p) * (x - p) * s * s \in Int
    OBVIOUS
<1> QED BY <1>1 DEF Par

\* A fraction with a denominator that is not 0.
IsPlace(u) == u[1] \in Int /\ u[2] \in Int /\ u[2] > 0

LEMMA BeyondNotBack ==
    ASSUME NEW u, NEW v, IsPlace(u), IsPlace(v), Beyond(u, v)
    PROVE  ~Beyond(v, u)
<1> DEFINE a == u[1] * v[2]
           b == v[1] * u[2]
<1>1. a \in Int /\ b \in Int
    BY DEF IsPlace
<1>2. a > b
    BY DEF Beyond
<1> HIDE DEF a, b
<1>3. ~(b > a)
    BY <1>1, <1>2
<1> QED BY <1>3 DEF Beyond, a, b

LEMMA PlacesDown ==
    ASSUME NEW u, NEW v, IsPlace(u), IsPlace(v), NEW x \in Int, Under(v, x), ~Beyond(u, v)
    PROVE  Under(u, x)
BY UnderDown DEF IsPlace

\* The arc of q, when k is the last that stays, and the envelope with it.
NewArc(f, s, e, q, k) ==
    [at |-> q, from |-> IF k = 0 THEN <<-InfSq, 1>> ELSE Meet(f, s, e[k].at, q)]
Grown(f, s, e, q, k) == Append(SubSeq(e, 1, k), NewArc(f, s, e, q, k))

GrownIs(g, f, s, e, q, k) ==
    /\ g \in Seq(Arcs(f, q)) /\ Len(g) = k + 1 /\ g[k + 1] = NewArc(f, s, e, q, k)
    /\ \A i \in 1..k : g[i] = e[i]

LEMMA MeetIsPlace ==
    ASSUME NEW f, NEW s \in Nat \ {0}, NEW q \in Nat, NEW p \in 0..(q - 1), f[p] \in Int, f[q] \in Int
    PROVE  Meet(f, s, p, q) \in Int \X (Nat \ {0}) /\ IsPlace(Meet(f, s, p, q))
<1>1. s * s * (q * q - p * p) + f[q] - f[p] \in Int
    OBVIOUS
<1>2. q - p \in Nat \ {0} /\ 2 * s \in Nat \ {0}
    OBVIOUS
<1>3. (2 * s) * s \in Nat \ {0}
    BY <1>2, PositiveTimes
<1>4. 2 * s * s * (q - p) \in Nat \ {0}
    BY <1>2, <1>3, PositiveTimes
<1> DEFINE a == s * s * (q * q - p * p) + f[q] - f[p]
           b == 2 * s * s * (q - p)
<1>5. Meet(f, s, p, q) = <<a, b>> /\ a \in Int /\ b \in Nat \ {0}
    BY <1>1, <1>4 DEF Meet
<1> HIDE DEF a, b
<1> QED BY <1>5, PairIsPlace DEF IsPlace

\* The arcs that stay, and the new one.
LEMMA NextArcs ==
    ASSUME NEW f, NEW s \in Nat \ {0}, NEW n \in Nat, f \in [0..n -> Int], NEW q \in 0..n, f[q] < InfSq,
           NEW e \in Seq(Arcs(f, q - 1)), NEW k \in 0..Len(e)
    PROVE  GrownIs(Grown(f, s, e, q, k), f, s, e, q, k)
<1> DEFINE r == NewArc(f, s, e, q, k)
           g == Grown(f, s, e, q, k)
<1>1. k \in 0..Len(e) /\ Len(e) \in Nat
    OBVIOUS
<1>2. \A i \in 1..Len(e) : /\ e[i] \in Arcs(f, q - 1) /\ e[i] \in Arcs(f, q)
                           /\ e[i].at \in 0..(q - 1) /\ f[e[i].at] < InfSq /\ f[e[i].at] \in Int
    <2> TAKE i \in 1..Len(e)
    <2>1. e[i] \in Arcs(f, q - 1)
        OBVIOUS
    <2>2. Arcs(f, q - 1) \subseteq Arcs(f, q)
        <3>1. 0..(q - 1) \subseteq 0..q
            OBVIOUS
        <3>2. {p \in 0..(q - 1) : f[p] < InfSq} \subseteq {p \in 0..q : f[p] < InfSq}
            BY <3>1
        <3> QED BY <3>2 DEF Arcs
    <2>3. e[i].at \in 0..(q - 1) /\ f[e[i].at] < InfSq
        BY <2>1 DEF Arcs
    <2>4. e[i].at \in 0..n
        BY <2>3
    <2> QED BY <2>1, <2>2, <2>3, <2>4
<1>3. r \in Arcs(f, q)
    <2>1. q \in {p \in 0..q : f[p] < InfSq}
        OBVIOUS
    <2>2. CASE k = 0
        BY <2>1, <2>2, StartIsPlace DEF Arcs, NewArc
    <2>3. CASE k # 0
        <3> DEFINE p == e[k].at
        <3>1. k \in 1..Len(e)
            BY <1>1, <2>3
        <3>2. p \in 0..(q - 1) /\ f[p] \in Int /\ f[q] \in Int
            BY <1>2, <3>1
        <3> HIDE DEF p
        <3>3. q \in Nat
            OBVIOUS
        <3>5. Meet(f, s, p, q) \in Int \X (Nat \ {0})
            BY <3>2, <3>3, MeetIsPlace
        <3> QED BY <2>1, <2>3, <3>5 DEF Arcs, p, NewArc
    <2> QED BY <2>2, <2>3
<1> DEFINE a == SubSeq(e, 1, k)
<1>4. a \in Seq(Arcs(f, q)) /\ Len(a) = k /\ \A i \in 1..k : a[i] = e[i]
    <2>1. a = [i \in 1..k |-> e[i]]
        BY <1>1
    <2>2. \A i \in 1..k : e[i] \in Arcs(f, q)
        BY <1>1, <1>2
    <2>3. a \in [1..k -> Arcs(f, q)]
        <3> HIDE DEF a
        <3> QED BY <2>1, <2>2
    <2> HIDE DEF a
    <2> QED BY <1>1, <2>1, <2>3
<1>5. g = Append(a, r)
    BY DEF Grown
<1> HIDE DEF a, r, g
<1>6. g \in Seq(Arcs(f, q)) /\ Len(g) = k + 1 /\ g[k + 1] = r /\ \A i \in 1..k : g[i] = e[i]
    <2>1. /\ g \in Seq(Arcs(f, q)) /\ Len(g) = Len(a) + 1 /\ g[Len(a) + 1] = r
          /\ \A i \in 1..Len(a) : g[i] = a[i]
        BY <1>3, <1>4, <1>5, AppendProperties
    <2> QED BY <1>4, <2>1
<1> QED BY <1>6 DEF r, g, GrownIs

\* A source that is not one leaves the envelope as it is.
LEMMA EnvelopeSkips ==
    ASSUME NEW f, NEW s, NEW n \in Nat, NEW q \in 0..n, f[q] >= InfSq, f[q] \in Int,
           NEW e, IsEnvelope(e, f, s, n, q - 1)
    PROVE  IsEnvelope(e, f, s, n, q)
<1>1. \A p \in 0..q : p \in 0..(q - 1) \/ p = q
    OBVIOUS
<1>2. ~(f[q] < InfSq)
    BY InfSqLimit
<1>3. Arcs(f, q) = Arcs(f, q - 1)
    <2>1. {p \in 0..q : f[p] < InfSq} = {p \in 0..(q - 1) : f[p] < InfSq}
        BY <1>1, <1>2
    <2> QED BY <2>1 DEF Arcs
<1>4. /\ e \in Seq(Arcs(f, q - 1))
      /\ e = <<>> => \A p \in 0..(q - 1) : f[p] >= InfSq
      /\ e # <<>> => e[1].from = <<-InfSq, 1>>
      /\ \A i \in 2..Len(e) : \A h \in 2..i : \A x \in Int : Under(e[i].from, x) => Under(e[h].from, x)
    BY DEF IsEnvelope
<1>5. ASSUME NEW x \in 0..n, NEW j \in 1..Len(e), IsUnder(e, x, j), NEW p \in 0..q, f[p] < InfSq
      PROVE  Par(f, s, e[j].at, x) <= Par(f, s, p, x)
    <2>1. p \in 0..(q - 1)
        BY <1>1, <1>2, <1>5
    <2> QED BY <1>5, <2>1 DEF IsEnvelope
<1>6. e = <<>> => \A p \in 0..q : f[p] >= InfSq
    BY <1>1, <1>4
<1> QED BY <1>3, <1>4, <1>5, <1>6 DEF IsEnvelope

\* A new parabola: those it hides go, and the envelope is one again.
LEMMA EnvelopeGrows ==
    ASSUME NEW f, NEW s \in Nat \ {0}, NEW n \in Nat, f \in [0..n -> Int], NEW q \in 0..n, f[q] < InfSq,
           NEW e, IsEnvelope(e, f, s, n, q - 1), NEW k, IsKept(e, f, s, q, k)
    PROVE  IsEnvelope(Grown(f, s, e, q, k), f, s, n, q)
<1> DEFINE g == Grown(f, s, e, q, k)
           r == NewArc(f, s, e, q, k)
           M(i) == Meet(f, s, e[i].at, q)
           At(i, x) == Par(f, s, e[i].at, x)
           Q(x) == Par(f, s, q, x)
<1>1. /\ e \in Seq(Arcs(f, q - 1)) /\ Len(e) \in Nat
      /\ e = <<>> => \A p \in 0..(q - 1) : f[p] >= InfSq
      /\ e # <<>> => e[1].from = <<-InfSq, 1>>
      /\ \A i \in 2..Len(e) : \A h \in 2..i : \A x \in Int : Under(e[i].from, x) => Under(e[h].from, x)
    BY DEF IsEnvelope
<1>2. /\ k \in 0..Len(e) /\ (k # 0 => Beyond(M(k), e[k].from))
      /\ \A i \in (k + 1)..Len(e) : ~Beyond(M(i), e[i].from)
    BY DEF IsKept
<1>3. /\ g \in Seq(Arcs(f, q)) /\ Len(g) = k + 1 /\ g[k + 1] = r
      /\ \A i \in 1..k : g[i] = e[i]
    <2>1. e \in Seq(Arcs(f, q - 1)) /\ k \in 0..Len(e) /\ f \in [0..n -> Int] /\ f[q] < InfSq
        BY <1>1, <1>2
    <2>2. GrownIs(Grown(f, s, e, q, k), f, s, e, q, k)
        BY <2>1, NextArcs
    <2> QED BY <2>2 DEF GrownIs
<1>4. r.at = q /\ (k = 0 => r.from = <<-InfSq, 1>>) /\ (k # 0 => r.from = M(k))
    BY DEF NewArc
<1>5. \A i \in 1..Len(e) : /\ e[i].at \in 0..(q - 1) /\ f[e[i].at] \in Int /\ f[e[i].at] < InfSq
                           /\ IsPlace(e[i].from)
    <2> TAKE i \in 1..Len(e)
    <2>1. e[i] \in Arcs(f, q - 1)
        BY <1>1
    <2>2. e[i].at \in 0..(q - 1) /\ f[e[i].at] < InfSq /\ e[i].from \in Int \X (Nat \ {0})
        BY <2>1 DEF Arcs
    <2>3. e[i].at \in 0..n
        BY <2>2
    <2>4. \A v \in Int \X (Nat \ {0}) : IsPlace(v)
        BY DEF IsPlace
    <2> QED BY <2>2, <2>3, <2>4
<1>6. f[q] \in Int /\ s \in Int /\ q \in Int /\ q \in Nat
    OBVIOUS
<1>7. \A i \in 1..Len(e) : IsPlace(M(i))
    BY <1>5, <1>6, MeetIsPlace
<1>8. \A i \in 1..Len(e), x \in Int : /\ At(i, x) \in Int /\ Q(x) \in Int
                                      /\ Under(M(i), x) <=> Q(x) < At(i, x)
    <2> TAKE i \in 1..Len(e), x \in Int
    <2>1. e[i].at \in Int /\ f[e[i].at] \in Int
        BY <1>5
    <2>2. Under(M(i), x) <=> Q(x) < At(i, x)
        BY <1>6, <2>1, MeetSplits
    <2>3. At(i, x) \in Int /\ Q(x) \in Int
        BY <1>6, <2>1, ParIsInt
    <2> QED BY <2>2, <2>3
<1> HIDE DEF M, At, Q, g, r
<1>9. ASSUME k # 0, NEW x \in Int, Under(r.from, x), NEW h \in 2..k PROVE Under(e[h].from, x)
    <2>1. k \in 1..Len(e) /\ k \in 2..Len(e)
        BY <1>1, <1>2, <1>9
    <2>2. Beyond(M(k), e[k].from) /\ r.from = M(k) /\ IsPlace(M(k)) /\ IsPlace(e[k].from)
        BY <1>2, <1>4, <1>5, <1>7, <1>9, <2>1
    <2>3. ~Beyond(e[k].from, M(k)) /\ Under(M(k), x)
        BY <1>9, <2>2, BeyondNotBack
    <2>4. Under(e[k].from, x)
        BY <2>2, <2>3, PlacesDown
    <2> QED BY <1>1, <2>1, <2>4
<1>10. ASSUME NEW x \in Nat, NEW j \in 1..Len(e), IsUnder(e, x, j), j > k PROVE Q(x) < At(j, x)
    <2>1. Under(e[j].from, x)
        <3>1. CASE j = 1
            <4>1. e # <<>>
                BY <1>10
            <4>2. e[1].from[1] = -InfSq /\ e[1].from[2] = 1
                BY <1>1, <4>1
            <4>3. -InfSq < x /\ x * 1 = x
                BY InfSqLimit
            <4> QED BY <3>1, <4>2, <4>3 DEF Under
        <3>2. CASE j # 1
            <4>1. j \in 2..j
                BY <3>2
            <4> QED BY <1>10, <4>1 DEF IsUnder
        <3> QED BY <3>1, <3>2
    <2>2. ~Beyond(M(j), e[j].from) /\ IsPlace(M(j)) /\ IsPlace(e[j].from)
        BY <1>1, <1>2, <1>5, <1>7, <1>10
    <2>3. x \in Int /\ Under(M(j), x)
        BY <2>1, <2>2, PlacesDown
    <2> QED BY <1>8, <2>3
<1>k. k \in Nat /\ Len(e) \in Nat /\ k <= Len(e)
    BY <1>1, <1>2
\* The parabola x lies under now is the new one, below the old, or the old one, below
\* the new.
<1>11. ASSUME NEW x \in Nat, x <= n, NEW j, IsUnder(g, x, j), NEW i, IsUnder(e, x, i)
       PROVE  \/ j = k + 1 /\ Q(x) < At(i, x)
              \/ j = i /\ g[j] = e[i] /\ At(i, x) <= Q(x)
    <2>u. /\ j \in 1..(k + 1) /\ \A h \in 2..j : Under(g[h].from, x)
          /\ j < k + 1 => ~Under(g[j + 1].from, x)
        BY <1>3, <1>11 DEF IsUnder
    <2>v. /\ i \in 1..Len(e) /\ \A h \in 2..i : Under(e[h].from, x)
          /\ i < Len(e) => ~Under(e[i + 1].from, x)
        BY <1>11 DEF IsUnder
    <2>x. x \in Int /\ x \in 0..n /\ i \in Nat /\ i >= 1 /\ i <= Len(e) /\ j \in Nat /\ j >= 1 /\ j <= k + 1
        BY <1>k, <1>11, <2>u, <2>v
    <2>1. CASE j = k + 1
        <3>1. CASE i > k
            BY <1>10, <1>11, <2>1, <2>v, <3>1
        <3>2. CASE i = k
            <4>1. k # 0 /\ j \in 2..j /\ k \in 1..Len(e)
                BY <1>k, <2>1, <2>x, <3>2
            <4>2. Under(M(k), x)
                BY <1>3, <1>4, <2>1, <2>u, <4>1
            <4> QED BY <1>8, <2>1, <2>x, <3>2, <4>1, <4>2
        <3>3. CASE i < k
            <4>1. k # 0 /\ j \in 2..j
                BY <1>k, <2>1, <2>x, <3>3
            <4>2. i + 1 \in 2..k /\ i < Len(e)
                BY <1>k, <2>x, <3>3
            <4>3. Under(r.from, x)
                BY <1>3, <2>1, <2>u, <4>1
            <4>4. Under(e[i + 1].from, x)
                BY <1>9, <2>x, <4>1, <4>2, <4>3
            <4> QED BY <2>v, <4>2, <4>4
        <3> QED BY <1>k, <2>x, <3>1, <3>2, <3>3
    <2>2. CASE j # k + 1
        <3>1. j \in 1..k /\ j < k + 1 /\ k # 0
            BY <1>k, <2>2, <2>x
        <3>2. k \in 1..Len(e) /\ j \in 1..Len(e)
            BY <1>k, <2>x, <3>1
        <3>3. g[j] = e[j] /\ ~Under(g[j + 1].from, x)
            BY <1>3, <2>u, <3>1
        <3>4. \A h \in 2..j : Under(e[h].from, x)
            <4> TAKE h \in 2..j
            <4>1. h \in 1..k
                BY <1>k, <3>1
            <4>2. g[h] = e[h]
                BY <1>3, <4>1
            <4>3. Under(g[h].from, x)
                BY <2>u
            <4> QED BY <4>2, <4>3
        <3>5. ~(i < j)
            <4> SUFFICES ASSUME i < j PROVE FALSE
                OBVIOUS
            <4>1. i + 1 \in 2..j /\ i < Len(e)
                BY <1>k, <2>x, <3>1
            <4> QED BY <2>v, <3>4, <4>1
        <3>6. Under(g[k + 1].from, x) => FALSE
            <4> SUFFICES ASSUME Under(r.from, x) PROVE FALSE
                BY <1>3
            <4>1. CASE j < k
                <5>1. j + 1 \in 2..k /\ j + 1 \in 1..k
                    BY <1>k, <2>x, <4>1
                <5>2. Under(e[j + 1].from, x)
                    BY <1>9, <2>x, <3>1, <5>1
                <5> QED BY <1>3, <3>3, <5>1, <5>2
            <4>2. CASE j = k
                BY <1>3, <3>3, <4>2
            <4> QED BY <1>k, <2>x, <3>1, <4>1, <4>2
        <3>7. At(k, x) <= Q(x) /\ At(k, x) \in Int /\ Q(x) \in Int /\ At(i, x) \in Int
            <4>1. ~Under(M(k), x)
                BY <1>3, <1>4, <3>1, <3>6
            <4>2. At(k, x) \in Int /\ Q(x) \in Int /\ ~(Q(x) < At(k, x))
                BY <1>8, <2>x, <3>2, <4>1
            <4>3. At(i, x) \in Int
                BY <1>8, <2>v, <2>x
            <4> QED BY <4>2, <4>3
        <3>8. At(i, x) <= At(k, x)
            <4>1. e[k].at \in 0..(q - 1) /\ f[e[k].at] < InfSq
                BY <1>5, <3>2
            <4> QED BY <1>11, <2>v, <2>x, <4>1 DEF IsEnvelope, At
        <3>9. At(i, x) <= Q(x)
            BY <3>7, <3>8
        <3>10. i = j
            <4> SUFFICES ASSUME j < i PROVE FALSE
                BY <2>x, <3>5
            <4>1. CASE j < k
                <5>1. j + 1 \in 1..k /\ j + 1 \in 2..i
                    BY <1>k, <2>x, <4>1
                <5>2. ~Under(e[j + 1].from, x)
                    BY <1>3, <3>3, <5>1
                <5> QED BY <2>v, <5>1, <5>2
            <4>2. CASE j = k
                <5>1. Q(x) < At(i, x)
                    BY <1>10, <1>11, <2>v, <4>2
                <5> QED BY <3>7, <3>9, <5>1
            <4> QED BY <1>k, <2>x, <3>1, <4>1, <4>2
        <3> QED BY <3>3, <3>9, <3>10
    <2> QED BY <2>1, <2>2
<1>12. ASSUME NEW x \in 0..n, NEW j \in 1..Len(g), IsUnder(g, x, j), NEW p \in 0..q, f[p] < InfSq
       PROVE  Par(f, s, g[j].at, x) <= Par(f, s, p, x)
    <2>1. x \in Nat /\ x \in Int /\ x <= n /\ Q(x) \in Int /\ p \in Int
        BY <1>6, ParIsInt DEF Q
    <2>2. f[p] \in Int /\ Par(f, s, p, x) \in Int
        <3>1. p \in 0..n /\ p \in Int
            OBVIOUS
        <3>2. f[p] \in Int
            BY <3>1
        <3> QED BY <1>6, <2>1, <3>1, <3>2, ParIsInt
    <2>3. j = k + 1 => Par(f, s, g[j].at, x) = Q(x)
        BY <1>3, <1>4 DEF Q
    <2>4. p # q => p \in 0..(q - 1)
        OBVIOUS
    <2>5. CASE e = <<>>
        <3>1. p = q
            BY <1>1, <1>12, <2>2, <2>4, <2>5, InfSqLimit
        <3>2. j = k + 1
            <4>1. k = 0 /\ Len(g) = 1
                BY <1>2, <1>3, <2>5
            <4> QED BY <4>1
        <3> QED BY <2>1, <2>3, <3>1, <3>2 DEF Q
    <2>6. CASE e # <<>>
        <3>1. PICK i : IsUnder(e, x, i)
            BY <1>1, <2>6, OneIsUnder
        <3>2. \/ j = k + 1 /\ Q(x) < At(i, x)
              \/ j = i /\ g[j] = e[i] /\ At(i, x) <= Q(x)
            BY <1>11, <1>12, <2>1, <3>1
        <3>3. At(i, x) \in Int
            BY <1>8, <2>1, <3>1 DEF IsUnder
        <3>4. Par(f, s, g[j].at, x) <= At(i, x) /\ Par(f, s, g[j].at, x) <= Q(x) /\ Par(f, s, g[j].at, x) \in Int
            <4>1. CASE j = k + 1 /\ Q(x) < At(i, x)
                BY <2>1, <2>3, <3>3, <4>1
            <4>2. CASE j = i /\ g[j] = e[i] /\ At(i, x) <= Q(x)
                <5>1. Par(f, s, g[j].at, x) = At(i, x)
                    BY <4>2 DEF At
                <5> QED BY <2>1, <3>3, <4>2, <5>1
            <4> QED BY <3>2, <4>1, <4>2
        <3>5. CASE p = q
            BY <3>4, <3>5 DEF Q
        <3>6. CASE p # q
            <4>1. At(i, x) <= Par(f, s, p, x)
                BY <1>12, <2>4, <3>1, <3>6 DEF IsEnvelope, IsUnder, At
            <4> QED BY <2>2, <3>3, <3>4, <4>1
        <3> QED BY <3>5, <3>6
    <2> QED BY <2>5, <2>6
<1>13. \A i \in 2..Len(g) : \A h \in 2..i : \A x \in Int : Under(g[i].from, x) => Under(g[h].from, x)
    <2> SUFFICES ASSUME NEW i \in 2..Len(g), NEW h \in 2..i, NEW x \in Int, Under(g[i].from, x)
                 PROVE  Under(g[h].from, x)
        OBVIOUS
    <2>1. CASE i = k + 1
        <3>1. CASE h = i
            BY <3>1
        <3>2. CASE h # i
            <4>1. h \in 2..k /\ h \in 1..k /\ k # 0
                BY <1>k, <2>1, <3>2
            <4>2. Under(e[h].from, x)
                BY <1>3, <1>9, <2>1, <4>1
            <4> QED BY <1>3, <4>1, <4>2
        <3> QED BY <3>1, <3>2
    <2>2. CASE i # k + 1
        <3>1. i \in 2..Len(e) /\ i \in 1..k /\ h \in 1..k
            <4>1. k \in Nat /\ Len(e) \in Nat /\ k <= Len(e)
                BY <1>k
            <4>2. i \in Nat /\ i >= 2 /\ i <= k /\ h \in Nat /\ h >= 2 /\ h <= i
                BY <1>3, <2>2, <4>1
            <4> QED BY <4>1, <4>2
        <3>2. g[i] = e[i] /\ g[h] = e[h]
            BY <1>3, <3>1
        <3> QED BY <1>1, <3>1, <3>2
    <2> QED BY <2>1, <2>2
<1>14. g # <<>> /\ g[1].from = <<-InfSq, 1>>
    <2>1. g # <<>>
        BY <1>3, <1>k
    <2>2. CASE k = 0
        <3>1. k + 1 = 1 /\ r.from = <<-InfSq, 1>>
            BY <1>4, <2>2
        <3>2. g[1] = r
            BY <1>3, <3>1
        <3> QED BY <2>1, <3>1, <3>2
    <2>3. CASE k # 0
        <3>1. 1 \in 1..k /\ e # <<>>
            BY <1>k, <2>3
        <3> QED BY <1>1, <1>3, <2>1, <3>1
    <2> QED BY <2>1, <2>2, <2>3
<1>15. IsEnvelope(g, f, s, n, q)
    BY <1>3, <1>12, <1>13, <1>14 DEF IsEnvelope
<1> QED BY <1>15 DEF g

\* One source more.
LEMMA EnvelopeStep ==
    ASSUME NEW f, NEW s \in Nat \ {0}, NEW n \in Nat, f \in [0..n -> Int], NEW q \in 0..n,
           NEW e, IsEnvelope(e, f, s, n, q - 1)
    PROVE  IsEnvelope(WithSource(f, s, e, q), f, s, n, q)
<1> DEFINE k == Max({0} \cup {i \in DOMAIN e : Beyond(Meet(f, s, e[i].at, q), e[i].from)})
<1>1. f[q] \in Int
    OBVIOUS
<1>2. CASE f[q] >= InfSq
    <2>1. WithSource(f, s, e, q) = e
        BY <1>2 DEF WithSource
    <2> QED BY <1>1, <1>2, <2>1, EnvelopeSkips
<1>3. CASE ~(f[q] >= InfSq)
    <2>1. f[q] < InfSq
        BY <1>1, <1>3, InfSqLimit
    <2>2. WithSource(f, s, e, q) = Grown(f, s, e, q, k)
        BY <1>3 DEF WithSource, Grown, NewArc
    <2>3. e \in Seq(Arcs(f, q - 1))
        BY DEF IsEnvelope
    <2>4. IsKept(e, f, s, q, k)
        BY <2>3, OneIsKept
    <2> HIDE DEF k
    <2>5. IsEnvelope(Grown(f, s, e, q, k), f, s, n, q)
        BY <2>1, <2>4, EnvelopeGrows
    <2> QED BY <2>2, <2>5
<1> QED BY <1>2, <1>3

\* g has the envelopes of all sources up to m.
EnvelopesTo(g, m, f, s) ==
    g = [q \in {-1} \cup 0..m |-> IF q = -1 THEN <<>> ELSE WithSource(f, s, g[q - 1], q)]

LEMMA EnvelopesExist ==
    ASSUME NEW f, NEW s
    PROVE  \A m \in Nat : \E g : EnvelopesTo(g, m, f, s)
<1> DEFINE W(e, q) == WithSource(f, s, e, q)
           S == {m \in Nat : \E g : EnvelopesTo(g, m, f, s)}
<1> HIDE DEF W
<1>1. \A g, m : EnvelopesTo(g, m, f, s) <=> g = [q \in {-1} \cup 0..m |-> IF q = -1 THEN <<>> ELSE W(g[q - 1], q)]
    BY DEF EnvelopesTo, W
<1>2. 0 \in S
    <2> DEFINE g == [q \in {-1} \cup 0..0 |-> IF q = -1 THEN <<>> ELSE W(<<>>, 0)]
    <2>1. g[-1] = <<>> /\ g[0] = W(<<>>, 0)
        OBVIOUS
    <2>2. \A q \in {-1} \cup 0..0 : q = -1 \/ (q = 0 /\ q - 1 = -1)
        OBVIOUS
    <2>3. g = [q \in {-1} \cup 0..0 |-> g[q]]
        OBVIOUS
    <2> HIDE DEF g
    <2>4. \A q \in {-1} \cup 0..0 : g[q] = IF q = -1 THEN <<>> ELSE W(g[q - 1], q)
        BY <2>1, <2>2
    <2>5. EnvelopesTo(g, 0, f, s)
        BY <1>1, <2>3, <2>4
    <2> QED BY <2>5
<1>3. ASSUME NEW m \in Nat, m \in S PROVE m + 1 \in S
    <2>1. PICK g : EnvelopesTo(g, m, f, s)
        BY <1>3
    <2> DEFINE D == {-1} \cup 0..m
               D2 == {-1} \cup 0..(m + 1)
               h == [q \in D2 |-> IF q \in D THEN g[q] ELSE W(g[m], m + 1)]
    <2>2. \A q \in D : g[q] = IF q = -1 THEN <<>> ELSE W(g[q - 1], q)
        BY <1>1, <2>1
    <2>3. /\ D \subseteq D2 /\ m + 1 \in D2 /\ m + 1 \notin D /\ m \in D /\ (m + 1) - 1 = m /\ m + 1 # -1
          /\ \A q \in D2 : q \in D \/ q = m + 1
          /\ \A q \in D : q = -1 \/ q - 1 \in D
        OBVIOUS
    <2> HIDE DEF D, D2
    <2>4. (\A q \in D : h[q] = g[q]) /\ h[m + 1] = W(g[m], m + 1)
        BY <2>3
    <2>5. h = [q \in D2 |-> h[q]]
        OBVIOUS
    <2> HIDE DEF h
    <2>6. ASSUME NEW q \in D2 PROVE h[q] = IF q = -1 THEN <<>> ELSE W(h[q - 1], q)
        <3>1. CASE q \in D
            BY <2>2, <2>3, <2>4, <3>1
        <3>2. CASE q = m + 1
            BY <2>3, <2>4, <3>2
        <3> QED BY <2>3, <3>1, <3>2
    <2>7. h = [q \in D2 |-> IF q = -1 THEN <<>> ELSE W(h[q - 1], q)]
        BY <2>5, <2>6
    <2>8. EnvelopesTo(h, m + 1, f, s)
        BY <1>1, <2>7 DEF D2
    <2> QED BY <2>8
<1> HIDE DEF S
<1>4. \A m \in Nat : m \in S
    BY <1>2, <1>3, AllNats
<1> QED BY <1>4 DEF S

LEMMA EnvelopesAreSo ==
    ASSUME NEW f, NEW s \in Nat \ {0}, NEW n \in Nat, f \in [0..n -> Int],
           NEW g, EnvelopesTo(g, n, f, s)
    PROVE  IsEnvelope(g[n], f, s, n, n)
<1> DEFINE S == {m \in Nat : m <= n + 1 => IsEnvelope(g[m - 1], f, s, n, m - 1)}
<1>1. \A q \in 0..n : g[q] = WithSource(f, s, g[q - 1], q)
    BY DEF EnvelopesTo
<1>2. 0 \in S
    <2>1. g[0 - 1] = <<>>
        <3>1. g[-1] = <<>>
            BY DEF EnvelopesTo
        <3> QED BY <3>1
    <2>2. 0..(0 - 1) = {} /\ Len(<<>>) = 0 /\ 1..0 = {} /\ 2..0 = {}
        OBVIOUS
    <2>3. IsEnvelope(<<>>, f, s, n, 0 - 1)
        BY <2>2 DEF IsEnvelope
    <2> QED BY <2>1, <2>3
<1>3. ASSUME NEW m \in Nat, m \in S PROVE m + 1 \in S
    <2> SUFFICES ASSUME m + 1 <= n + 1 PROVE IsEnvelope(g[(m + 1) - 1], f, s, n, (m + 1) - 1)
        OBVIOUS
    <2>1. m \in 0..n /\ (m + 1) - 1 = m /\ m <= n + 1
        OBVIOUS
    <2>2. IsEnvelope(g[m - 1], f, s, n, m - 1)
        BY <1>3, <2>1
    <2>3. IsEnvelope(WithSource(f, s, g[m - 1], m), f, s, n, m)
        BY <2>1, <2>2, EnvelopeStep
    <2> QED BY <1>1, <2>1, <2>3
<1> HIDE DEF S
<1>4. n + 1 \in S
    BY <1>2, <1>3, AllNats
<1>5. (n + 1) - 1 = n /\ n + 1 <= n + 1
    OBVIOUS
<1> QED BY <1>4, <1>5 DEF S

LEMMA EnvelopeIsSo ==
    ASSUME NEW f, NEW s \in Nat \ {0}, NEW n \in Nat, f \in [0..n -> Int]
    PROVE  IsEnvelope(Envelope(f, s, Beyond), f, s, n, n)
<1> DEFINE Upto == CHOOSE g : EnvelopesTo(g, n, f, s)
<1>1. EnvelopesTo(Upto, n, f, s)
    BY EnvelopesExist
<1>2. DOMAIN f = 0..n /\ Max(DOMAIN f) = n
    <2>1. DOMAIN f = 0..n
        OBVIOUS
    <2>2. n \in 0..n /\ \A i \in 0..n : n >= i /\ (i >= n => i = n)
        OBVIOUS
    <2>3. Max(0..n) = n
        <3> DEFINE S == 0..n
        <3>1. n \in S /\ \A i \in S : n >= i /\ (i >= n => i = n)
            BY <2>2
        <3> HIDE DEF S
        <3>2. (CHOOSE x \in S : \A y \in S : x >= y) = n
            BY <3>1
        <3> QED BY <3>2 DEF Max, S
    <2> QED BY <2>1, <2>3
<1>3. Envelope(f, s, Beyond) = Upto[n]
    BY <1>2 DEF Envelope, EnvelopesTo, WithSource
<1> HIDE DEF Upto
<1> QED BY <1>1, <1>3, EnvelopesAreSo

\* d is the least of S, or InfSq if S is empty.
IsLeast(d, S) == IF S = {} THEN d = InfSq ELSE d \in S /\ \A y \in S : d <= y

\* What the sources of a column give at x.
Offers(f, s, n, x) == {Par(f, s, p, x) : p \in {i \in 0..n : f[i] < InfSq}}

\* What is read off an envelope is the least.
LEMMA LowestIsLeast ==
    ASSUME NEW f, NEW s \in Nat \ {0}, NEW n \in Nat, f \in [0..n -> Int], NEW e, IsEnvelope(e, f, s, n, n),
           NEW x \in 0..n
    PROVE  IsLeast(Lowest(f, s, e)[x], Offers(f, s, n, x))
<1> DEFINE P == {i \in 0..n : f[i] < InfSq}
           Pick == Max({1} \cup {i \in DOMAIN e : \A h \in 2..i : e[h].from[1] < x * e[h].from[2]})
<1>1. /\ e \in Seq(Arcs(f, n))
      /\ e = <<>> => \A p \in 0..n : f[p] >= InfSq
    BY DEF IsEnvelope
<1>2. Lowest(f, s, e)[x] = IF e = <<>> THEN InfSq ELSE Par(f, s, e[Pick].at, x)
    BY DEF Lowest, Par
<1>3. CASE e = <<>>
    <2>1. P = {}
        <3>1. \A p \in 0..n : f[p] \in Int /\ f[p] >= InfSq
            BY <1>1, <1>3
        <3> QED BY <3>1, InfSqLimit
    <2>2. Offers(f, s, n, x) = {}
        BY <2>1 DEF Offers
    <2> QED BY <1>2, <1>3, <2>2 DEF IsLeast
<1>4. CASE e # <<>>
    <2>1. PICK j : IsUnder(e, x, j)
        BY <1>1, <1>4, OneIsUnder
    <2>2. Pick = j
        BY <1>1, <2>1, PickIsUnder DEF Under
    <2> HIDE DEF Pick
    <2>3. j \in 1..Len(e)
        BY <2>1 DEF IsUnder
    <2>4. e[j].at \in P
        <3>1. e[j] \in Arcs(f, n)
            BY <1>1, <2>3
        <3> QED BY <3>1 DEF Arcs
    <2>5. \A p \in P : Par(f, s, e[j].at, x) <= Par(f, s, p, x)
        BY <2>1, <2>3 DEF IsEnvelope
    <2>6. Offers(f, s, n, x) = {Par(f, s, p, x) : p \in P}
        BY DEF Offers
    <2> HIDE DEF P
    <2>7. Par(f, s, e[j].at, x) \in Offers(f, s, n, x) /\ \A y \in Offers(f, s, n, x) : Par(f, s, e[j].at, x) <= y
        BY <2>4, <2>5, <2>6
    <2>8. Offers(f, s, n, x) # {}
        BY <2>7
    <2> QED BY <1>2, <1>4, <2>2, <2>7, <2>8 DEF IsLeast
<1> QED BY <1>3, <1>4

\* compute_esdf(): dt1d() finds, for a column of any length and height of the voxels
\* and whatever the phases before left there, at every place the nearest source: the
\* least of (q - p)^2 s^2 + f[p], or kInfSq if the column has no source.
THEOREM NearestSourceIsFound ==
    ASSUME NEW n \in Nat, NEW s \in Nat \ {0}, NEW f \in [0..n -> Int], NEW x \in 0..n
    PROVE  IsLeast(dt1d(f, s)[x], Offers(f, s, n, x))
BY EnvelopeIsSo, LowestIsLeast DEF dt1d

-----------------------------------------------------------------------------
(* The three phases of compute_esdf(). *)

Sq(d, s) == d * d * s * s

\* What the places of a column, each with the least of its set, offer at x.
Sums(T, s, n, x) == {Sq(x - p[1], s) + p[2] : p \in {u \in (0..n) \X Int : u[2] \in T[u[1]]}}

\* f has the least of each set of T, and those are ints below InfSq.
HoldsLeast(f, T, n) ==
    \A i \in 0..n : IsLeast(f[i], T[i]) /\ \A y \in T[i] : y \in Int /\ y < InfSq

\* A phase takes the least of every place to the least over the whole column.
LEMMA PhaseIsLeast ==
    ASSUME NEW n \in Nat, NEW s \in Nat \ {0}, NEW f \in [0..n -> Int], NEW x \in 0..n,
           NEW T, HoldsLeast(f, T, n)
    PROVE  IsLeast(dt1d(f, s)[x], Sums(T, s, n, x))
<1> DEFINE d == dt1d(f, s)[x]
           O == Offers(f, s, n, x)
           X == Sums(T, s, n, x)
           U == {u \in (0..n) \X Int : u[2] \in T[u[1]]}
<1>1. IsLeast(d, O)
    BY NearestSourceIsFound
<1>2. \A i \in 0..n : /\ IsLeast(f[i], T[i]) /\ \A y \in T[i] : y \in Int /\ y < InfSq
                      /\ f[i] \in Int
    BY DEF HoldsLeast
<1>3. \A i \in 0..n : f[i] < InfSq => f[i] \in T[i]
    BY <1>2, InfSqLimit DEF IsLeast
<1>4. \A i \in 0..n : \A y \in T[i] : f[i] < InfSq /\ f[i] <= y /\ y \in Int
    BY <1>2, InfSqLimit DEF IsLeast
<1>5. \A p \in Int : Par(f, s, p, x) = Sq(x - p, s) + f[p]
    BY DEF Par, Sq
<1>6. \A p \in Int : Sq(x - p, s) \in Int
    BY DEF Sq
<1>7. ASSUME NEW i \in 0..n, f[i] < InfSq PROVE Par(f, s, i, x) \in X
    <2> DEFINE u == <<i, f[i]>>
    <2>1. u \in U /\ u[1] = i /\ u[2] = f[i]
        BY <1>2, <1>3, <1>7
    <2> HIDE DEF u, U
    <2>2. Sq(x - u[1], s) + u[2] \in X
        BY <2>1 DEF Sums, U
    <2> QED BY <1>5, <2>1, <2>2
<1>8. ASSUME NEW y \in X
      PROVE  \E i \in 0..n : f[i] < InfSq /\ Par(f, s, i, x) <= y
    <2>1. PICK u \in U : y = Sq(x - u[1], s) + u[2]
        BY DEF Sums
    <2>2. u[1] \in 0..n /\ u[2] \in T[u[1]] /\ u[1] \in Int
        OBVIOUS
    <2>3. f[u[1]] < InfSq /\ f[u[1]] <= u[2] /\ u[2] \in Int /\ f[u[1]] \in Int
        BY <1>2, <1>4, <2>2
    <2>4. Par(f, s, u[1], x) = Sq(x - u[1], s) + f[u[1]] /\ Sq(x - u[1], s) \in Int
        BY <1>5, <1>6, <2>2
    <2>5. Par(f, s, u[1], x) <= y
        BY <2>1, <2>3, <2>4
    <2> QED BY <2>2, <2>3, <2>5
<1>9. \A v : v \in O <=> \E i \in 0..n : f[i] < InfSq /\ v = Par(f, s, i, x)
    BY DEF Offers
<1>10. \A i \in 0..n : Par(f, s, i, x) \in Int
    BY <1>2, ParIsInt
<1>11. \A y \in X : y \in Int
    <2> TAKE y \in X
    <2>1. PICK u \in U : y = Sq(x - u[1], s) + u[2]
        BY DEF Sums
    <2>2. u[2] \in Int /\ u[1] \in Int
        OBVIOUS
    <2> QED BY <1>6, <2>1, <2>2
<1> HIDE DEF d, O, X
<1>12. CASE X = {}
    <2>1. O = {}
        BY <1>7, <1>9, <1>12
    <2> QED BY <1>1, <1>12, <2>1 DEF IsLeast, d, X
<1>13. CASE X # {}
    <2>1. O # {}
        BY <1>8, <1>9, <1>13
    <2>2. d \in O /\ \A v \in O : d <= v
        BY <1>1, <2>1 DEF IsLeast
    <2>3. d \in X /\ d \in Int
        BY <1>7, <1>9, <1>10, <2>2
    <2>4. ASSUME NEW y \in X PROVE d <= y
        <3>1. PICK i \in 0..n : f[i] < InfSq /\ Par(f, s, i, x) <= y
            BY <1>8
        <3>2. d <= Par(f, s, i, x) /\ Par(f, s, i, x) \in Int /\ y \in Int
            BY <1>9, <1>10, <1>11, <2>2, <3>1
        <3> QED BY <2>3, <3>1, <3>2
    <2> QED BY <1>13, <2>3, <2>4 DEF IsLeast, d, X
<1> QED BY <1>12, <1>13

\* How far the obstacles K are whose place along a column is b and whose distance from
\* it is w, from x and from place i itself.
Apart(K, w, b, s, x) == {Sq(x - b[o], s) + w[o] : o \in K}
Beside(K, w, b, i) == {w[o] : o \in {p \in K : b[p] = i}}

Sides(T, n, K, w, b) ==
    /\ w \in [K -> Int] /\ b \in [K -> 0..n]
    /\ \A i \in 0..n : T[i] = Beside(K, w, b, i)

\* A column with what is beside each of its places offers what is apart.
LEMMA SumsAre ==
    ASSUME NEW T, NEW n, NEW K, NEW w, NEW b, Sides(T, n, K, w, b), NEW s, NEW x
    PROVE  Sums(T, s, n, x) = Apart(K, w, b, s, x)
<1>0. /\ w \in [K -> Int] /\ b \in [K -> 0..n]
      /\ \A i \in 0..n : T[i] = Beside(K, w, b, i)
    BY DEF Sides
<1> DEFINE U == {u \in (0..n) \X Int : u[2] \in T[u[1]]}
           R == Apart(K, w, b, s, x)
<1>1. ASSUME NEW u \in U PROVE \E o \in K : u[1] = b[o] /\ u[2] = w[o]
    <2>1. u[1] \in 0..n /\ u[2] \in Beside(K, w, b, u[1])
        BY <1>0
    <2> QED BY <2>1 DEF Beside
<1>2. ASSUME NEW o \in K PROVE \E u \in U : u[1] = b[o] /\ u[2] = w[o]
    <2> DEFINE u == <<b[o], w[o]>>
    <2>1. u \in (0..n) \X Int /\ u[1] = b[o] /\ u[2] = w[o]
        BY <1>0
    <2>2. w[o] \in T[b[o]]
        BY <1>0 DEF Beside
    <2> HIDE DEF u
    <2>3. u \in U
        BY <2>1, <2>2
    <2> QED BY <2>1, <2>3
<1>3. Sums(T, s, n, x) = {Sq(x - u[1], s) + u[2] : u \in U}
    BY DEF Sums
<1> HIDE DEF U
<1>4. \A y : y \in Sums(T, s, n, x) <=> \E u \in U : y = Sq(x - u[1], s) + u[2]
    BY <1>3
<1>5. \A y : y \in R <=> \E o \in K : y = Sq(x - b[o], s) + w[o]
    BY DEF Apart
<1> HIDE DEF R
<1>6. \A y : y \in Sums(T, s, n, x) <=> y \in R
    BY <1>1, <1>2, <1>4, <1>5
<1>7. Sums(T, s, n, x) = R
    BY <1>6
<1> QED BY <1>7 DEF R

LEMMA ColumnIsLeast ==
    ASSUME NEW n \in Nat, NEW s \in Nat \ {0}, NEW f \in [0..n -> Int], NEW x \in 0..n,
           NEW K, NEW w \in [K -> Int], NEW b \in [K -> 0..n],
           \A o \in K : w[o] < InfSq,
           \A i \in 0..n : IsLeast(f[i], Beside(K, w, b, i))
    PROVE  IsLeast(dt1d(f, s)[x], Apart(K, w, b, s, x))
<1> DEFINE T == [i \in 0..n |-> Beside(K, w, b, i)]
<1>1. \A i \in 0..n : T[i] = Beside(K, w, b, i)
    OBVIOUS
<1>2. \A i \in 0..n : \A y \in T[i] : y \in Int /\ y < InfSq
    BY DEF Beside
<1> HIDE DEF T
<1>3. Sums(T, s, n, x) = Apart(K, w, b, s, x)
    <2>1. Sides(T, n, K, w, b)
        BY <1>1 DEF Sides
    <2> QED BY <2>1, SumsAre
<1>4. HoldsLeast(f, T, n)
    BY <1>1, <1>2 DEF HoldsLeast
<1>5. IsLeast(dt1d(f, s)[x], Sums(T, s, n, x))
    BY <1>4, PhaseIsLeast
<1> QED BY <1>3, <1>5

-----------------------------------------------------------------------------
(* The grid: after each phase a voxel has the nearest obstacle among those in reach. *)

GridOf(n) == (0..n[1] - 1) \X (0..n[2] - 1) \X (0..n[3] - 1)

\* Along() of compute_esdf().
Phase(g, n, size, axis) ==
    [c \in GridOf(n) |->
        dt1d([i \in 0..n[axis] - 1 |-> g[[c EXCEPT ![axis] = i]]], size[axis])[c[axis]]]

\* The square of the distance of two voxels, along the first axes.
Far0(c, o, size) == 0
Far1(c, o, size) == Sq(c[1] - o[1], size[1]) + Far0(c, o, size)
Far2(c, o, size) == Sq(c[2] - o[2], size[2]) + Far1(c, o, size)
Far3(c, o, size) == Sq(c[3] - o[3], size[3]) + Far2(c, o, size)

\* The obstacles in reach of c after each phase.
Reach0(c, occ) == {o \in occ : o[1] = c[1] /\ o[2] = c[2] /\ o[3] = c[3]}
Reach1(c, occ) == {o \in occ : o[2] = c[2] /\ o[3] = c[3]}
Reach2(c, occ) == {o \in occ : o[3] = c[3]}
Reach3(c, occ) == {o \in occ : TRUE}
All0(c, occ, size) == {Far0(c, o, size) : o \in Reach0(c, occ)}
All1(c, occ, size) == {Far1(c, o, size) : o \in Reach1(c, occ)}
All2(c, occ, size) == {Far2(c, o, size) : o \in Reach2(c, occ)}
All3(c, occ, size) == {Far3(c, o, size) : o \in Reach3(c, occ)}

\* A grid whose squared distances are all below kInfSq.
IsGrid(n, size, occ) ==
    /\ n \in (Nat \ {0}) \X (Nat \ {0}) \X (Nat \ {0})
    /\ size \in (Nat \ {0}) \X (Nat \ {0}) \X (Nat \ {0})
    /\ occ \subseteq GridOf(n)
    /\ \A c \in GridOf(n), o \in occ : Far3(c, o, size) < InfSq

LEMMA SqIsNat == ASSUME NEW d \in Int, NEW s \in Nat PROVE Sq(d, s) \in Nat
<1>1. d * d \in Nat
    <2>1. CASE d >= 0
        BY <2>1
    <2>2. CASE ~(d >= 0)
        <3>1. -d \in Nat
            BY <2>2
        <3>2. (-d) * (-d) \in Nat
            BY <3>1
        <3>3. (-d) * (-d) = d * d
            OBVIOUS
        <3> QED BY <3>2, <3>3
    <2> QED BY <2>1, <2>2
<1> DEFINE e == d * d
<1>2. e * s * s \in Nat
    <2> HIDE DEF e
    <2>1. e \in Nat
        BY <1>1 DEF e
    <2>2. e * s \in Nat
        BY <2>1
    <2> QED BY <2>2
<1> QED BY <1>2 DEF Sq

LEMMA FarIsNat ==
    ASSUME NEW n, NEW size, NEW occ, IsGrid(n, size, occ), NEW c \in GridOf(n), NEW o \in occ
    PROVE  /\ Far0(c, o, size) \in Nat /\ Far0(c, o, size) < InfSq
           /\ Far1(c, o, size) \in Nat /\ Far1(c, o, size) < InfSq
           /\ Far2(c, o, size) \in Nat /\ Far2(c, o, size) < InfSq
           /\ Far3(c, o, size) \in Nat /\ Far3(c, o, size) < InfSq
<1>1. /\ c[1] - o[1] \in Int /\ c[2] - o[2] \in Int /\ c[3] - o[3] \in Int
      /\ size[1] \in Nat /\ size[2] \in Nat /\ size[3] \in Nat /\ Far3(c, o, size) < InfSq
    <2>1. o \in GridOf(n) /\ n[1] \in Nat /\ n[2] \in Nat /\ n[3] \in Nat
        BY DEF IsGrid
    <2>2. c[1] \in Int /\ c[2] \in Int /\ c[3] \in Int /\ o[1] \in Int /\ o[2] \in Int /\ o[3] \in Int
        BY <2>1 DEF GridOf
    <2> QED BY <2>2 DEF IsGrid
<1> DEFINE a == Sq(c[1] - o[1], size[1])
           b == Sq(c[2] - o[2], size[2])
           d == Sq(c[3] - o[3], size[3])
<1>2. a \in Nat /\ b \in Nat /\ d \in Nat
    BY <1>1, SqIsNat
<1>3. /\ Far0(c, o, size) = 0 /\ Far1(c, o, size) = a + 0 /\ Far2(c, o, size) = b + (a + 0)
      /\ Far3(c, o, size) = d + (b + (a + 0))
    BY DEF Far0, Far1, Far2, Far3
<1> HIDE DEF a, b, d
<1> QED BY <1>1, <1>2, <1>3, InfSqLimit

\* g has for each voxel the least of what is in reach.
Found0(g, n, size, occ) == g \in [GridOf(n) -> Int] /\ \A c \in GridOf(n) : IsLeast(g[c], All0(c, occ, size))
Found1(g, n, size, occ) == g \in [GridOf(n) -> Int] /\ \A c \in GridOf(n) : IsLeast(g[c], All1(c, occ, size))
Found2(g, n, size, occ) == g \in [GridOf(n) -> Int] /\ \A c \in GridOf(n) : IsLeast(g[c], All2(c, occ, size))
Found3(g, n, size, occ) == g \in [GridOf(n) -> Int] /\ \A c \in GridOf(n) : IsLeast(g[c], All3(c, occ, size))

LEMMA Phase1Finds ==
    ASSUME NEW n, NEW size, NEW occ, IsGrid(n, size, occ), NEW g, Found0(g, n, size, occ)
    PROVE  Found1(Phase(g, n, size, 1), n, size, occ)
<1> DEFINE h == Phase(g, n, size, 1)
           m == n[1] - 1
           s == size[1]
<1>1. /\ n[1] \in Nat \ {0} /\ n[2] \in Nat \ {0} /\ n[3] \in Nat \ {0} /\ s \in Nat \ {0} /\ m \in Nat
      /\ occ \subseteq GridOf(n) /\ n[1] - 1 = m
    BY DEF IsGrid
<1>2. ASSUME NEW c \in GridOf(n) PROVE IsLeast(h[c], All1(c, occ, size)) /\ h[c] \in Int
    <2> DEFINE at(i) == [c EXCEPT ![1] = i]
               f == [i \in 0..m |-> g[at(i)]]
               K == Reach1(c, occ)
               w == [o \in K |-> Far0(c, o, size)]
               b == [o \in K |-> o[1]]
               x == c[1]
    <2>1. c = <<c[1], c[2], c[3]>> /\ x \in 0..m
        BY <1>1 DEF GridOf
    <2>2. ASSUME NEW i \in 0..m
          PROVE  at(i) = <<i, c[2], c[3]>> /\ at(i) \in GridOf(n)
        BY <1>1, <2>1 DEF GridOf
    <2>3. f \in [0..m -> Int]
        BY <2>2 DEF Found0
    <2>4. K \subseteq occ
        BY DEF Reach1
    <2>5. w \in [K -> Int] /\ \A o \in K : w[o] < InfSq
        BY <2>4, FarIsNat
    <2>6. b \in [K -> 0..m]
        BY <1>1, <2>4 DEF GridOf
    <2>7. ASSUME NEW i \in 0..m PROVE IsLeast(f[i], Beside(K, w, b, i))
        <3> DEFINE e == at(i)
        <3>1. e \in GridOf(n) /\ e = <<i, c[2], c[3]>>
            BY <2>2
        <3>2. e[1] = i /\ e[2] = c[2] /\ e[3] = c[3]
            BY <3>1
        <3>3. f[i] = g[e]
            OBVIOUS
        <3> HIDE DEF e
        <3>4. IsLeast(g[e], All0(e, occ, size))
            BY <3>1 DEF Found0
        <3>5. \A o \in K : Far0(e, o, size) = Far0(c, o, size)
            BY <3>2 DEF Far0
        <3>6. Reach0(e, occ) = {p \in K : p[1] = i}
            BY <3>2 DEF Reach0, Reach1
        <3>7. \A y : y \in All0(e, occ, size) <=> \E o \in K : o[1] = i /\ y = Far0(e, o, size)
            BY <3>6 DEF All0
        <3>8. \A o \in K : b[o] = o[1] /\ w[o] = Far0(c, o, size)
            OBVIOUS
        <3> HIDE DEF K, w, b, f
        <3>9. \A y : y \in Beside(K, w, b, i) <=> \E o \in K : o[1] = i /\ y = Far0(c, o, size)
            BY <3>8 DEF Beside
        <3>10. Beside(K, w, b, i) = All0(e, occ, size)
            BY <3>5, <3>7, <3>9
        <3> QED BY <3>3, <3>4, <3>10
    <2>8. \A o \in K : b[o] = o[1] /\ w[o] = Far0(c, o, size)
        OBVIOUS
    <2>9. \A y : y \in All1(c, occ, size) <=> \E o \in K : y = Sq(x - o[1], s) + Far0(c, o, size)
        BY DEF All1, Far1
    <2>10. h[c] = dt1d(f, s)[x]
        BY DEF Phase
    <2>11. \A y \in All1(c, occ, size) : y \in Int
        BY <2>4, FarIsNat DEF All1
    <2> HIDE DEF K, w, b, f, x, h, s, m
    <2>12. \A y : y \in Apart(K, w, b, s, x) <=> \E o \in K : y = Sq(x - o[1], s) + Far0(c, o, size)
        BY <2>8 DEF Apart
    <2>13. Apart(K, w, b, s, x) = All1(c, occ, size)
        BY <2>9, <2>12
    <2>14. IsLeast(dt1d(f, s)[x], Apart(K, w, b, s, x))
        BY <1>1, <2>1, <2>3, <2>5, <2>6, <2>7, ColumnIsLeast
    <2>15. IsLeast(h[c], All1(c, occ, size))
        BY <2>10, <2>13, <2>14
    <2> QED BY <2>11, <2>15, InfSqLimit DEF IsLeast
<1>3. h = [c \in GridOf(n) |-> h[c]]
    BY DEF Phase
<1> HIDE DEF h
<1>4. h \in [GridOf(n) -> Int]
    BY <1>2, <1>3
<1>5. Found1(h, n, size, occ)
    BY <1>2, <1>4 DEF Found1
<1> QED BY <1>5 DEF h

LEMMA Phase2Finds ==
    ASSUME NEW n, NEW size, NEW occ, IsGrid(n, size, occ), NEW g, Found1(g, n, size, occ)
    PROVE  Found2(Phase(g, n, size, 2), n, size, occ)
<1> DEFINE h == Phase(g, n, size, 2)
           m == n[2] - 1
           s == size[2]
<1>1. /\ n[1] \in Nat \ {0} /\ n[2] \in Nat \ {0} /\ n[3] \in Nat \ {0} /\ s \in Nat \ {0} /\ m \in Nat
      /\ occ \subseteq GridOf(n) /\ n[2] - 1 = m
    BY DEF IsGrid
<1>2. ASSUME NEW c \in GridOf(n) PROVE IsLeast(h[c], All2(c, occ, size)) /\ h[c] \in Int
    <2> DEFINE at(i) == [c EXCEPT ![2] = i]
               f == [i \in 0..m |-> g[at(i)]]
               K == Reach2(c, occ)
               w == [o \in K |-> Far1(c, o, size)]
               b == [o \in K |-> o[2]]
               x == c[2]
    <2>1. c = <<c[1], c[2], c[3]>> /\ x \in 0..m
        BY <1>1 DEF GridOf
    <2>2. ASSUME NEW i \in 0..m
          PROVE  at(i) = <<c[1], i, c[3]>> /\ at(i) \in GridOf(n)
        BY <1>1, <2>1 DEF GridOf
    <2>3. f \in [0..m -> Int]
        BY <2>2 DEF Found1
    <2>4. K \subseteq occ
        BY DEF Reach2
    <2>5. w \in [K -> Int] /\ \A o \in K : w[o] < InfSq
        BY <2>4, FarIsNat
    <2>6. b \in [K -> 0..m]
        BY <1>1, <2>4 DEF GridOf
    <2>7. ASSUME NEW i \in 0..m PROVE IsLeast(f[i], Beside(K, w, b, i))
        <3> DEFINE e == at(i)
        <3>1. e \in GridOf(n) /\ e = <<c[1], i, c[3]>>
            BY <2>2
        <3>2. e[1] = c[1] /\ e[2] = i /\ e[3] = c[3]
            BY <3>1
        <3>3. f[i] = g[e]
            OBVIOUS
        <3> HIDE DEF e
        <3>4. IsLeast(g[e], All1(e, occ, size))
            BY <3>1 DEF Found1
        <3>5. \A o \in K : Far1(e, o, size) = Far1(c, o, size)
            BY <3>2 DEF Far0, Far1
        <3>6. Reach1(e, occ) = {p \in K : p[2] = i}
            BY <3>2 DEF Reach1, Reach2
        <3>7. \A y : y \in All1(e, occ, size) <=> \E o \in K : o[2] = i /\ y = Far1(e, o, size)
            BY <3>6 DEF All1
        <3>8. \A o \in K : b[o] = o[2] /\ w[o] = Far1(c, o, size)
            OBVIOUS
        <3> HIDE DEF K, w, b, f
        <3>9. \A y : y \in Beside(K, w, b, i) <=> \E o \in K : o[2] = i /\ y = Far1(c, o, size)
            BY <3>8 DEF Beside
        <3>10. Beside(K, w, b, i) = All1(e, occ, size)
            BY <3>5, <3>7, <3>9
        <3> QED BY <3>3, <3>4, <3>10
    <2>8. \A o \in K : b[o] = o[2] /\ w[o] = Far1(c, o, size)
        OBVIOUS
    <2>9. \A y : y \in All2(c, occ, size) <=> \E o \in K : y = Sq(x - o[2], s) + Far1(c, o, size)
        BY DEF All2, Far2
    <2>10. h[c] = dt1d(f, s)[x]
        BY DEF Phase
    <2>11. \A y \in All2(c, occ, size) : y \in Int
        BY <2>4, FarIsNat DEF All2
    <2> HIDE DEF K, w, b, f, x, h, s, m
    <2>12. \A y : y \in Apart(K, w, b, s, x) <=> \E o \in K : y = Sq(x - o[2], s) + Far1(c, o, size)
        BY <2>8 DEF Apart
    <2>13. Apart(K, w, b, s, x) = All2(c, occ, size)
        BY <2>9, <2>12
    <2>14. IsLeast(dt1d(f, s)[x], Apart(K, w, b, s, x))
        BY <1>1, <2>1, <2>3, <2>5, <2>6, <2>7, ColumnIsLeast
    <2>15. IsLeast(h[c], All2(c, occ, size))
        BY <2>10, <2>13, <2>14
    <2> QED BY <2>11, <2>15, InfSqLimit DEF IsLeast
<1>3. h = [c \in GridOf(n) |-> h[c]]
    BY DEF Phase
<1> HIDE DEF h
<1>4. h \in [GridOf(n) -> Int]
    BY <1>2, <1>3
<1>5. Found2(h, n, size, occ)
    BY <1>2, <1>4 DEF Found2
<1> QED BY <1>5 DEF h

LEMMA Phase3Finds ==
    ASSUME NEW n, NEW size, NEW occ, IsGrid(n, size, occ), NEW g, Found2(g, n, size, occ)
    PROVE  Found3(Phase(g, n, size, 3), n, size, occ)
<1> DEFINE h == Phase(g, n, size, 3)
           m == n[3] - 1
           s == size[3]
<1>1. /\ n[1] \in Nat \ {0} /\ n[2] \in Nat \ {0} /\ n[3] \in Nat \ {0} /\ s \in Nat \ {0} /\ m \in Nat
      /\ occ \subseteq GridOf(n) /\ n[3] - 1 = m
    BY DEF IsGrid
<1>2. ASSUME NEW c \in GridOf(n) PROVE IsLeast(h[c], All3(c, occ, size)) /\ h[c] \in Int
    <2> DEFINE at(i) == [c EXCEPT ![3] = i]
               f == [i \in 0..m |-> g[at(i)]]
               K == Reach3(c, occ)
               w == [o \in K |-> Far2(c, o, size)]
               b == [o \in K |-> o[3]]
               x == c[3]
    <2>1. c = <<c[1], c[2], c[3]>> /\ x \in 0..m
        BY <1>1 DEF GridOf
    <2>2. ASSUME NEW i \in 0..m
          PROVE  at(i) = <<c[1], c[2], i>> /\ at(i) \in GridOf(n)
        BY <1>1, <2>1 DEF GridOf
    <2>3. f \in [0..m -> Int]
        BY <2>2 DEF Found2
    <2>4. K \subseteq occ
        BY DEF Reach3
    <2>5. w \in [K -> Int] /\ \A o \in K : w[o] < InfSq
        BY <2>4, FarIsNat
    <2>6. b \in [K -> 0..m]
        BY <1>1, <2>4 DEF GridOf
    <2>7. ASSUME NEW i \in 0..m PROVE IsLeast(f[i], Beside(K, w, b, i))
        <3> DEFINE e == at(i)
        <3>1. e \in GridOf(n) /\ e = <<c[1], c[2], i>>
            BY <2>2
        <3>2. e[1] = c[1] /\ e[2] = c[2] /\ e[3] = i
            BY <3>1
        <3>3. f[i] = g[e]
            OBVIOUS
        <3> HIDE DEF e
        <3>4. IsLeast(g[e], All2(e, occ, size))
            BY <3>1 DEF Found2
        <3>5. \A o \in K : Far2(e, o, size) = Far2(c, o, size)
            BY <3>2 DEF Far0, Far1, Far2
        <3>6. Reach2(e, occ) = {p \in K : p[3] = i}
            BY <3>2 DEF Reach2, Reach3
        <3>7. \A y : y \in All2(e, occ, size) <=> \E o \in K : o[3] = i /\ y = Far2(e, o, size)
            BY <3>6 DEF All2
        <3>8. \A o \in K : b[o] = o[3] /\ w[o] = Far2(c, o, size)
            OBVIOUS
        <3> HIDE DEF K, w, b, f
        <3>9. \A y : y \in Beside(K, w, b, i) <=> \E o \in K : o[3] = i /\ y = Far2(c, o, size)
            BY <3>8 DEF Beside
        <3>10. Beside(K, w, b, i) = All2(e, occ, size)
            BY <3>5, <3>7, <3>9
        <3> QED BY <3>3, <3>4, <3>10
    <2>8. \A o \in K : b[o] = o[3] /\ w[o] = Far2(c, o, size)
        OBVIOUS
    <2>9. \A y : y \in All3(c, occ, size) <=> \E o \in K : y = Sq(x - o[3], s) + Far2(c, o, size)
        BY DEF All3, Far3
    <2>10. h[c] = dt1d(f, s)[x]
        BY DEF Phase
    <2>11. \A y \in All3(c, occ, size) : y \in Int
        BY <2>4, FarIsNat DEF All3
    <2> HIDE DEF K, w, b, f, x, h, s, m
    <2>12. \A y : y \in Apart(K, w, b, s, x) <=> \E o \in K : y = Sq(x - o[3], s) + Far2(c, o, size)
        BY <2>8 DEF Apart
    <2>13. Apart(K, w, b, s, x) = All3(c, occ, size)
        BY <2>9, <2>12
    <2>14. IsLeast(dt1d(f, s)[x], Apart(K, w, b, s, x))
        BY <1>1, <2>1, <2>3, <2>5, <2>6, <2>7, ColumnIsLeast
    <2>15. IsLeast(h[c], All3(c, occ, size))
        BY <2>10, <2>13, <2>14
    <2> QED BY <2>11, <2>15, InfSqLimit DEF IsLeast
<1>3. h = [c \in GridOf(n) |-> h[c]]
    BY DEF Phase
<1> HIDE DEF h
<1>4. h \in [GridOf(n) -> Int]
    BY <1>2, <1>3
<1>5. Found3(h, n, size, occ)
    BY <1>2, <1>4 DEF Found3
<1> QED BY <1>5 DEF h

\* compute_esdf(): on a grid of any size whose squared distances are all below
\* kInfSq, with voxels of any sizes and any obstacles, every voxel gets the squared
\* distance of its nearest obstacle, or kInfSq if there is none.
THEOREM NearestObstacleIsFound ==
    ASSUME NEW n, NEW size, NEW occ, IsGrid(n, size, occ), NEW c \in GridOf(n)
    PROVE  IsLeast(compute_esdf(occ, n, size)[c], {Far3(c, o, size) : o \in occ})
<1> DEFINE g == [v \in GridOf(n) |-> IF v \in occ THEN 0 ELSE InfSq]
<1>1. Found0(g, n, size, occ)
    <2>1. g \in [GridOf(n) -> Int]
        BY InfSqLimit
    <2>2. ASSUME NEW v \in GridOf(n) PROVE IsLeast(g[v], All0(v, occ, size))
        <3>1. occ \subseteq GridOf(n)
            BY DEF IsGrid
        <3>2. v = <<v[1], v[2], v[3]>> /\ \A o \in occ : o = <<o[1], o[2], o[3]>>
            BY <3>1 DEF GridOf
        <3>3. Reach0(v, occ) = {o \in occ : o = v}
            BY <3>2 DEF Reach0
        <3>4. CASE v \in occ
            <4>1. All0(v, occ, size) = {0}
                BY <3>3, <3>4 DEF All0, Far0
            <4>2. g[v] = 0
                BY <3>4
            <4> QED BY <4>1, <4>2 DEF IsLeast
        <3>5. CASE v \notin occ
            <4>1. All0(v, occ, size) = {}
                BY <3>3, <3>5 DEF All0
            <4>2. g[v] = InfSq
                BY <3>5
            <4> QED BY <4>1, <4>2 DEF IsLeast
        <3> QED BY <3>4, <3>5
    <2> HIDE DEF g
    <2> QED BY <2>1, <2>2 DEF Found0
<1>2. compute_esdf(occ, n, size) = Phase(Phase(Phase(g, n, size, 1), n, size, 2), n, size, 3)
    BY DEF compute_esdf, Phase, GridOf
<1> HIDE DEF g
<1>3. Found1(Phase(g, n, size, 1), n, size, occ)
    BY <1>1, Phase1Finds
<1>4. Found2(Phase(Phase(g, n, size, 1), n, size, 2), n, size, occ)
    BY <1>3, Phase2Finds
<1>5. Found3(compute_esdf(occ, n, size), n, size, occ)
    BY <1>2, <1>4, Phase3Finds
<1>6. All3(c, occ, size) = {Far3(c, o, size) : o \in occ}
    BY DEF All3, Reach3
<1> QED BY <1>5, <1>6 DEF Found3

-----------------------------------------------------------------------------
(* The small grids. *)

\* The least of S, or InfSq, is what Min finds.
LEMMA LeastIsMin ==
    ASSUME NEW d, NEW S, IsLeast(d, S), \A y \in S : y \in Int /\ y < InfSq
    PROVE  d = Min({InfSq} \cup S)
<1> DEFINE Q == {InfSq} \cup S
<1>1. d \in Q /\ \A y \in Q : d <= y /\ y \in Int
    BY InfSqLimit DEF IsLeast
<1>2. Min(Q) = CHOOSE y \in Q : \A z \in Q : y <= z
    BY DEF Min
<1> HIDE DEF Q
<1>3. \A y \in Q : (\A z \in Q : y <= z) => y = d
    BY <1>1
<1>4. (CHOOSE y \in Q : \A z \in Q : y <= z) = d
    BY <1>1, <1>3
<1> QED BY <1>2, <1>4 DEF Q

LEMMA SmallSquares ==
    ASSUME NEW d \in -4..4, NEW s \in 1..2
    PROVE  Sq(d, s) \in 0..64 /\ s * s * d * d = Sq(d, s)
<1>1. /\ d = -4 \/ d = -3 \/ d = -2 \/ d = -1 \/ d = 0 \/ d = 1 \/ d = 2 \/ d = 3 \/ d = 4
      /\ s = 1 \/ s = 2
    OBVIOUS
<1> QED BY <1>1 DEF Sq

LEMMA SmallLimit == 100 < InfSq
BY SMT DEF InfSq

\* Each column of five.
LEMMA SmallColumns ==
    ASSUME NEW f \in [0..4 -> {0, 1, 4, InfSq}], NEW s \in 1..2
    PROVE  dt1d(f, s) = [q \in 0..4 |-> Min({InfSq} \cup
                            {s * s * (q - p) * (q - p) + f[p] : p \in {i \in 0..4 : f[i] < InfSq}})]
<1> DEFINE L(q) == {s * s * (q - p) * (q - p) + f[p] : p \in {i \in 0..4 : f[i] < InfSq}}
<1>1. f \in [0..4 -> Int] /\ s \in Nat \ {0} /\ 4 \in Nat
    BY InfSqLimit
<1>2. dt1d(f, s) = [q \in 0..4 |-> dt1d(f, s)[q]]
    BY DEF dt1d, Lowest
<1>3. ASSUME NEW q \in 0..4 PROVE dt1d(f, s)[q] = Min({InfSq} \cup L(q))
    <2>1. IsLeast(dt1d(f, s)[q], Offers(f, s, 4, q))
        BY <1>1, NearestSourceIsFound
    <2>2. ASSUME NEW p \in 0..4
          PROVE  /\ s * s * (q - p) * (q - p) + f[p] = Par(f, s, p, q)
                 /\ f[p] < InfSq => Par(f, s, p, q) \in 0..100
        <3>1. q - p \in -4..4
            OBVIOUS
        <3>2. Sq(q - p, s) \in 0..64 /\ s * s * (q - p) * (q - p) = Sq(q - p, s)
            BY <3>1, SmallSquares
        <3>3. Par(f, s, p, q) = Sq(q - p, s) + f[p]
            BY DEF Par, Sq
        <3>4. f[p] < InfSq => f[p] \in 0..4
            BY InfSqLimit
        <3> QED BY <3>2, <3>3, <3>4
    <2>3. \A y : y \in Offers(f, s, 4, q) <=> \E p \in 0..4 : f[p] < InfSq /\ y = Par(f, s, p, q)
        BY DEF Offers
    <2>4. \A y : y \in L(q) <=> \E p \in 0..4 : f[p] < InfSq /\ y = s * s * (q - p) * (q - p) + f[p]
        OBVIOUS
    <2>5. Offers(f, s, 4, q) = L(q)
        <3> DEFINE N(p) == s * s * (q - p) * (q - p) + f[p]
        <3>1. \A p \in 0..4 : N(p) = Par(f, s, p, q)
            BY <2>2
        <3>2. \A y : y \in L(q) <=> \E p \in 0..4 : f[p] < InfSq /\ y = N(p)
            BY <2>4
        <3> HIDE DEF N, L
        <3> QED BY <2>3, <3>1, <3>2
    <2> HIDE DEF L
    <2>6. \A y \in L(q) : y \in 0..100
        BY <2>2, <2>3, <2>5
    <2>7. \A y \in L(q) : y \in Int /\ y < InfSq
        BY <2>6, InfSqLimit, SmallLimit
    <2> QED BY <2>1, <2>5, <2>7, LeastIsMin
<1> QED BY <1>2, <1>3

\* Each set of obstacles of a grid of eight voxels.
LEMMA SmallGrids ==
    ASSUME NEW occ \in SUBSET ((0..1) \X (0..1) \X (0..1))
    PROVE  compute_esdf(occ, <<2, 2, 2>>, <<1, 1, 2>>) =
            [c \in (0..1) \X (0..1) \X (0..1) |-> Min({InfSq} \cup
                {(c[1] - o[1]) * (c[1] - o[1]) + (c[2] - o[2]) * (c[2] - o[2])
                    + 4 * (c[3] - o[3]) * (c[3] - o[3]) : o \in occ})]
<1> DEFINE n == <<2, 2, 2>>
           size == <<1, 1, 2>>
           G == (0..1) \X (0..1) \X (0..1)
           Near(c, o) == (c[1] - o[1]) * (c[1] - o[1]) + (c[2] - o[2]) * (c[2] - o[2])
                            + 4 * (c[3] - o[3]) * (c[3] - o[3])
           E == compute_esdf(occ, n, size)
<1>1. GridOf(n) = G
    <2>1. n[1] - 1 = 1 /\ n[2] - 1 = 1 /\ n[3] - 1 = 1
        OBVIOUS
    <2> QED BY <2>1 DEF GridOf
<1>2. ASSUME NEW c \in G, NEW o \in G PROVE Far3(c, o, size) = Near(c, o) /\ Near(c, o) \in 0..100
    <2>1. /\ c[1] - o[1] \in -1..1 /\ c[2] - o[2] \in -1..1 /\ c[3] - o[3] \in -1..1
          /\ size[1] = 1 /\ size[2] = 1 /\ size[3] = 2
        OBVIOUS
    <2>2. ASSUME NEW d \in -1..1
          PROVE  /\ Sq(d, 1) = d * d /\ Sq(d, 2) = 4 * d * d /\ d * d \in 0..1 /\ 4 * d * d \in 0..4
        <3>1. d = -1 \/ d = 0 \/ d = 1
            OBVIOUS
        <3> QED BY <3>1 DEF Sq
    <2>3. /\ Sq(c[1] - o[1], size[1]) = (c[1] - o[1]) * (c[1] - o[1])
          /\ Sq(c[2] - o[2], size[2]) = (c[2] - o[2]) * (c[2] - o[2])
          /\ Sq(c[3] - o[3], size[3]) = 4 * (c[3] - o[3]) * (c[3] - o[3])
          /\ (c[1] - o[1]) * (c[1] - o[1]) \in 0..1
          /\ (c[2] - o[2]) * (c[2] - o[2]) \in 0..1
          /\ 4 * (c[3] - o[3]) * (c[3] - o[3]) \in 0..4
        BY <2>1, <2>2
    <2>4. Far3(c, o, size)
            = Sq(c[3] - o[3], size[3]) + (Sq(c[2] - o[2], size[2]) + (Sq(c[1] - o[1], size[1]) + 0))
        BY DEF Far0, Far1, Far2, Far3
    <2> QED BY <2>3, <2>4
<1>3. occ \subseteq G
    OBVIOUS
<1>4. /\ n \in (Nat \ {0}) \X (Nat \ {0}) \X (Nat \ {0})
      /\ size \in (Nat \ {0}) \X (Nat \ {0}) \X (Nat \ {0})
    OBVIOUS
<1>5. E = [c \in G |-> E[c]]
    <2>1. E = [c \in GridOf(n) |-> E[c]]
        BY DEF compute_esdf, GridOf
    <2> HIDE DEF E, G
    <2> QED BY <1>1, <2>1
<1> HIDE DEF n, size, G, Near
<1>6. \A c \in G, o \in occ : Far3(c, o, size) = Near(c, o) /\ Near(c, o) \in Int /\ Near(c, o) < InfSq
    BY <1>2, <1>3, InfSqLimit, SmallLimit
<1>7. IsGrid(n, size, occ)
    BY <1>1, <1>3, <1>4, <1>6 DEF IsGrid
<1>8. ASSUME NEW c \in G PROVE E[c] = Min({InfSq} \cup {Near(c, o) : o \in occ})
    <2>1. IsLeast(E[c], {Far3(c, o, size) : o \in occ})
        BY <1>1, <1>7, NearestObstacleIsFound
    <2>2. {Far3(c, o, size) : o \in occ} = {Near(c, o) : o \in occ}
        BY <1>6
    <2>3. \A y \in {Near(c, o) : o \in occ} : y \in Int /\ y < InfSq
        BY <1>6
    <2> QED BY <2>1, <2>2, <2>3, LeastIsMin
<1> HIDE DEF E
<1>9. E = [c \in G |-> Min({InfSq} \cup {Near(c, o) : o \in occ})]
    BY <1>5, <1>8
<1> QED BY <1>9 DEF E, G, Near, n, size

\* A field that is stored holds exact distances (an invariant of the runs).
THEOREM DistancesAreExact == CatchupSpec => []EdtIsExact
<1>1. EdtIsExact
    BY SmallColumns, SmallGrids DEF EdtIsExact, EdtExactOnSmallGrids
<1> QED BY <1>1, PTL
=============================================================================
