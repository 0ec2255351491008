-------------------------- MODULE PersistenceProofs --------------------------
(***************************************************************************)
(* What a mission leaves behind survives, for every set of cells and       *)
(* positions, all limits and every interleaving: the planning map between  *)
(* memory and SQLite, the artifact files, and the profile.                 *)
(***************************************************************************)
EXTENDS PlanningMap, ArtifactWriters, PipelineProfile, FiniteSetTheorems, SequenceTheorems,
        TLAPS

-----------------------------------------------------------------------------
(* The planning map. *)

\* A flusher holds a batch only while it writes, the thread is gone before the
\* destructor writes, and so at most one of them does.
OneFlusherWrites ==
    /\ thread # "write" => batch["thread"] = NoBatch /\ todo["thread"] = NothingToDo
    /\ pc # "write" => batch["main"] = NoBatch /\ todo["main"] = NothingToDo
    /\ pc \in {"close", "write", "closed", "crashed"} => thread = "exited"

\* Nothing is queued any more once close_db() has taken its batch, and its
\* transaction is over when it returns.
ClosingIsLast ==
    /\ pc \in {"write", "closed"} => dirty_cells = Empty /\ evicted_keys = {}
    /\ pc = "closed" => rows = durable

\* The changes of one update_from_traversability() are its own: a cleared cell is
\* an evicted one, an evicted one that is not cleared has been seen again, and the
\* value noted last is the value of the cell.
LocalChanges ==
    /\ pc # "update" => local_dirty = Empty /\ local_evicted = {}
    /\ cleared \subseteq local_evicted
    /\ \A k \in local_evicted : local_dirty[k] = None => k \in cleared
    /\ \A k \in Keys \ cleared : local_dirty[k] # None => local_dirty[k] = cells[k]

\* What an open transaction has done: rows outside its batch are the committed
\* ones, and an upsert that was executed and is not followed by a delete stands.
TransactionsAreOfBatches ==
    /\ \A f \in Flushers : /\ todo[f].up \subseteq Present(batch[f].up)
                           /\ todo[f].del \subseteq batch[f].del
    /\ \A k \in Keys :
          (\A f \in Flushers : batch[f].up[k] = None /\ k \notin batch[f].del)
              => rows[k] = durable[k]
    /\ \A f \in Flushers : \A k \in Present(batch[f].up) \ todo[f].up :
          k \notin batch[f].del => rows[k] = batch[f].up[k]

\* The cells the update in progress has not touched, apart from exposed ones.
Settled ==
    {k \in Keys : /\ cells[k] # None /\ k \notin exposed
                  /\ local_dirty[k] = None /\ k \notin local_evicted}

\* No delete is on its way to the row of k, unless a newer upsert follows it, ...
Unthreatened(k) ==
    /\ k \notin evicted_keys
    /\ dirty_cells[k] = None => \A f \in Flushers : k \notin batch[f].del

\* ... and the table has or will get its value.
Arrives(k) == IF k \in reloaded THEN OnItsWay(k) # None ELSE OnItsWay(k) = cells[k]

\* NothingUpdatedIsLost, in the middle of an update, too.
SettledArrives == \A k \in Settled : Unthreatened(k) /\ Arrives(k)

\* The inductive invariant.
PlanningSafe ==
    /\ PlanningTypeOK /\ OneFlusherWrites /\ ClosingIsLast /\ LocalChanges
    /\ TransactionsAreOfBatches /\ SettledArrives

\* Log odds are numbers, so they differ from the absence of a cell, and the
\* clamped sums and differences of an update are log odds again.
LEMMA OddsFacts ==
    /\ None \notin Odds /\ Odds \subseteq Int /\ 0 \in Odds
    /\ \A o \in Odds, inc \in OccupiedSteps :
          (IF o + inc < MaxOdds THEN o + inc ELSE MaxOdds) \in Odds
    /\ \A o \in Odds, dec \in FreeSteps :
          (IF o - dec > -MaxOdds THEN o - dec ELSE -MaxOdds) \in Odds
BY PlanningMapAssumption DEF Odds

\* The tables the code starts from and reads are tables.
LEMMA TableFacts ==
    /\ Empty \in Tables /\ Present(Empty) = {}
    /\ \A t \in Tables : Readable(t) \in Tables /\ Present(t) \subseteq Keys
    /\ \A t \in Tables, k \in Keys : t[k] # None => t[k] \in Odds
    /\ NoBatch \in [up : Tables, del : SUBSET Keys]
    /\ NothingToDo \in [up : SUBSET Keys, del : SUBSET Keys]
<1>1. Empty \in Tables
    BY DEF Empty, Tables
<1>2. ASSUME NEW t \in Tables PROVE Readable(t) \in Tables
    BY <1>2 DEF Tables, Readable
<1>3. ASSUME NEW t \in Tables, NEW k \in Keys, t[k] # None PROVE t[k] \in Odds
    BY <1>3 DEF Tables
<1> QED BY <1>1, <1>2, <1>3 DEF Present, NoBatch, NothingToDo, Empty

\* One action at a time keeps the types.
LEMMA PlanningTypeStep ==
    ASSUME PlanningTypeOK, PlanningNext PROVE PlanningTypeOK'
<1> USE DEF PlanningTypeOK, mapVars, queueVars, dbVars, windowVars, historyVars
<1>1. ASSUME Forget, cells' \in Tables, pc' \in {"slide", "crashed"},
             thread' \in {"sleep", "exited"}
      PROVE  PlanningTypeOK'
    BY <1>1, TableFacts DEF Forget
<1>2. CASE StayInWindow
    BY <1>2 DEF StayInWindow
<1>3. CASE LoadWindowFromDb
    <2>1. cells' \in Tables
        BY <1>3, OddsFacts DEF LoadWindowFromDb, Tables
    <2>2. Loadable \subseteq Keys
        BY DEF Loadable
    <2> QED BY <1>3, <2>1, <2>2, TableFacts DEF LoadWindowFromDb
<1>4. CASE FinishUpdate
    <2>1. cells' \in Tables
        BY <1>4 DEF FinishUpdate, Tables
    <2>2. dirty_cells' \in Tables
        BY <1>4 DEF FinishUpdate, Tables, HandOver
    <2> QED BY <1>4, <2>1, <2>2, TableFacts DEF FinishUpdate
<1>5. ASSUME NEW p \in Positions, SlideWindow(p) PROVE PlanningTypeOK'
    <2>1. cells' \in Tables
        BY <1>5 DEF SlideWindow, EvictFarCells, Tables
    <2> QED BY <1>5, <2>1, TableFacts DEF SlideWindow
<1>6. ASSUME NEW k \in Keys, MergeOccupied(k) PROVE PlanningTypeOK'
    <2>1. PICK o \in Odds : /\ cells' = [cells EXCEPT ![k] = o]
                            /\ local_dirty' = [local_dirty EXCEPT ![k] = o]
        <3>1. (IF cells[k] = None THEN 0 ELSE cells[k]) \in Odds
            BY OddsFacts, TableFacts
        <3> QED BY <1>6, <3>1, OddsFacts DEF MergeOccupied
    <2> QED BY <1>6, <2>1 DEF MergeOccupied, Tables
<1>7. ASSUME NEW k \in Keys, MergeFree(k) PROVE PlanningTypeOK'
    <2>1. PICK o \in Odds : /\ cells' = [cells EXCEPT ![k] = o]
                            /\ \/ /\ cleared' = cleared \cup {k}
                                  /\ local_evicted' = local_evicted \cup {k}
                                  /\ UNCHANGED local_dirty
                               \/ /\ cleared' = cleared \ {k}
                                  /\ local_dirty' = [local_dirty EXCEPT ![k] = o]
                                  /\ UNCHANGED local_evicted
        <3>1. cells[k] \in Odds
            BY <1>7, TableFacts DEF MergeFree
        <3> QED BY <1>7, <3>1, OddsFacts DEF MergeFree
    <2> QED BY <1>7, <2>1 DEF MergeFree, Tables
<1>8. ASSUME NEW f \in Flushers, Statement(f) PROVE PlanningTypeOK'
    <2>1. PICK k \in Keys : Upsert(f, k) \/ Delete(f, k)
        BY <1>8 DEF Statement
    <2>2. rows' \in Tables
        <3>1. PICK v \in Odds \cup {None} : rows' = [rows EXCEPT ![k] = v]
            <4>1. CASE Upsert(f, k)
                <5>1. batch[f].up \in Tables
                    OBVIOUS
                <5>2. batch[f].up[k] \in Odds \cup {None}
                    BY <5>1 DEF Tables
                <5> QED BY <4>1, <5>2 DEF Upsert
            <4>2. CASE Delete(f, k)
                BY <4>2 DEF Delete
            <4> QED BY <2>1, <4>1, <4>2
        <3>2. rows \in Tables
            OBVIOUS
        <3> QED BY <3>1, <3>2 DEF Tables
    <2>3. todo' \in [Flushers -> [up : SUBSET Keys, del : SUBSET Keys]]
        BY <2>1 DEF Upsert, Delete
    <2> QED BY <1>8, <2>2, <2>3 DEF Statement
<1>9. ASSUME NEW f \in Flushers, TakeBatch(f)
      PROVE  /\ batch' \in [Flushers -> [up : Tables, del : SUBSET Keys]]
             /\ todo' \in [Flushers -> [up : SUBSET Keys, del : SUBSET Keys]]
             /\ dirty_cells' \in Tables /\ evicted_keys' \subseteq Keys
    <2>1. [up |-> dirty_cells, del |-> evicted_keys] \in [up : Tables, del : SUBSET Keys]
        OBVIOUS
    <2>2. [up |-> Present(dirty_cells), del |-> evicted_keys]
              \in [up : SUBSET Keys, del : SUBSET Keys]
        BY TableFacts
    <2> QED BY <1>9, <2>1, <2>2, TableFacts DEF TakeBatch
<1>10. ASSUME NEW f \in Flushers, Commit(f)
       PROVE  /\ batch' \in [Flushers -> [up : Tables, del : SUBSET Keys]]
              /\ durable' \in Tables
    BY <1>10, TableFacts DEF Commit
<1>11. CASE FlushThread
    BY <1>11, <1>8, <1>9, <1>10
       DEF FlushThread, ThreadWakes, ThreadTakes, ThreadCommits, Flushers
<1>12. CASE BeginShutdown
    BY <1>12 DEF BeginShutdown
<1>13. CASE Shutdown
    BY <1>13, <1>8, <1>9, <1>10
       DEF Shutdown, JoinThread, CloseTakes, CloseCommits, Flushers
<1>14. CASE Crash
    BY <1>14, <1>1, TableFacts DEF Crash
<1>15. CASE Open
    BY <1>15, <1>1, TableFacts DEF Open
<1> QED BY <1>2, <1>3, <1>4, <1>5, <1>6, <1>7, <1>11, <1>12, <1>13, <1>14, <1>15
        DEF PlanningNext, Frame

\* The mutual exclusion of the flushers rests on the join of the destructor alone:
\* the thread leaves its loop only between two flushes.
LEMMA FlusherStep ==
    ASSUME PlanningTypeOK, OneFlusherWrites, ClosingIsLast, PlanningNext
    PROVE  OneFlusherWrites' /\ ClosingIsLast'
<1> USE DEF OneFlusherWrites, ClosingIsLast, mapVars, queueVars, dbVars, windowVars,
            historyVars
<1>1. ASSUME Forget, \/ pc' = "slide" /\ thread' = "sleep"
                     \/ pc' = "crashed" /\ thread' = "exited"
      PROVE  OneFlusherWrites' /\ ClosingIsLast'
    BY <1>1 DEF Forget, Flushers
<1>2. CASE StayInWindow
    BY <1>2 DEF StayInWindow
<1>3. CASE LoadWindowFromDb
    BY <1>3 DEF LoadWindowFromDb
<1>4. CASE FinishUpdate
    BY <1>4 DEF FinishUpdate
<1>5. ASSUME NEW p \in Positions, SlideWindow(p)
      PROVE  OneFlusherWrites' /\ ClosingIsLast'
    BY <1>5 DEF SlideWindow
<1>6. ASSUME NEW k \in Keys, MergeOccupied(k) \/ MergeFree(k)
      PROVE  OneFlusherWrites' /\ ClosingIsLast'
    BY <1>6 DEF MergeOccupied, MergeFree
<1>7. ASSUME NEW f \in Flushers, Statement(f),
             f = "thread" => thread = "write", f = "main" => pc = "write"
      PROVE  OneFlusherWrites' /\ ClosingIsLast'
    <2>1. \A g \in Flushers \ {f} : todo'[g] = todo[g]
        BY <1>7 DEF Statement, Upsert, Delete, PlanningTypeOK
    <2> QED BY <1>7, <2>1 DEF Statement, Flushers
<1>8. CASE FlushThread
    <2>1. CASE ThreadWakes
        BY <2>1 DEF ThreadWakes
    <2>2. CASE ThreadTakes
        BY <2>2 DEF ThreadTakes, TakeBatch, PlanningTypeOK, Flushers
    <2>3. CASE ThreadCommits
        BY <2>3 DEF ThreadCommits, Commit, PlanningTypeOK, Flushers
    <2> QED BY <1>7, <1>8, <2>1, <2>2, <2>3 DEF FlushThread, Flushers
<1>9. CASE BeginShutdown
    BY <1>9 DEF BeginShutdown
<1>10. CASE Shutdown
    <2>1. CASE JoinThread
        BY <2>1 DEF JoinThread
    <2>2. CASE CloseTakes
        BY <2>2 DEF CloseTakes, TakeBatch, PlanningTypeOK, Flushers
    <2>3. CASE CloseCommits
        BY <2>3 DEF CloseCommits, Commit, PlanningTypeOK, Flushers
    <2> QED BY <1>7, <1>10, <2>1, <2>2, <2>3 DEF Shutdown, Flushers
<1>11. CASE Crash
    BY <1>1, <1>11 DEF Crash
<1>12. CASE Open
    BY <1>1, <1>12 DEF Open
<1> QED BY <1>2, <1>3, <1>4, <1>5, <1>6, <1>8, <1>9, <1>10, <1>11, <1>12
        DEF PlanningNext, Frame

\* Only the merges write the changes of an update, and its end clears them.
LEMMA LocalStep ==
    ASSUME PlanningTypeOK, LocalChanges, PlanningNext
    PROVE  LocalChanges'
<1> USE DEF LocalChanges, mapVars, queueVars, dbVars, windowVars, historyVars
<1>1. CASE Forget /\ pc' # "update"
    BY <1>1 DEF Forget, Empty
<1>2. CASE LoadWindowFromDb
    <2>1. local_dirty = Empty
        BY <1>2 DEF LoadWindowFromDb
    <2> QED BY <1>2, <2>1 DEF LoadWindowFromDb, Empty
<1>3. CASE FinishUpdate
    BY <1>3 DEF FinishUpdate, Empty
<1>4. ASSUME NEW p \in Positions, SlideWindow(p) PROVE LocalChanges'
    BY <1>4 DEF SlideWindow, Empty
<1>5. ASSUME NEW k \in Keys, MergeOccupied(k) PROVE LocalChanges'
    <2>1. PICK o \in Odds : /\ cells' = [cells EXCEPT ![k] = o]
                            /\ local_dirty' = [local_dirty EXCEPT ![k] = o]
        <3>1. (IF cells[k] = None THEN 0 ELSE cells[k]) \in Odds
            BY OddsFacts, TableFacts DEF PlanningTypeOK
        <3> QED BY <1>5, <3>1, OddsFacts DEF MergeOccupied
    <2>2. o # None
        BY OddsFacts
    <2> QED BY <1>5, <2>1, <2>2 DEF MergeOccupied, PlanningTypeOK, Tables
<1>6. ASSUME NEW k \in Keys, MergeFree(k) PROVE LocalChanges'
    <2>1. PICK o \in Odds : /\ cells' = [cells EXCEPT ![k] = o]
                            /\ \/ /\ cleared' = cleared \cup {k}
                                  /\ local_evicted' = local_evicted \cup {k}
                                  /\ UNCHANGED local_dirty
                               \/ /\ cleared' = cleared \ {k}
                                  /\ local_dirty' = [local_dirty EXCEPT ![k] = o]
                                  /\ UNCHANGED local_evicted
        <3>1. cells[k] \in Odds
            BY <1>6, TableFacts DEF MergeFree, PlanningTypeOK
        <3> QED BY <1>6, <3>1, OddsFacts DEF MergeFree
    <2>2. o # None
        BY OddsFacts
    <2> QED BY <1>6, <2>1, <2>2 DEF MergeFree, PlanningTypeOK, Tables
<1>7. CASE UNCHANGED mapVars /\ (pc # "update" \/ UNCHANGED pc)
    BY <1>7
<1>8. CASE StayInWindow \/ FlushThread \/ BeginShutdown \/ Shutdown
    BY <1>7, <1>8
       DEF StayInWindow, FlushThread, ThreadWakes, ThreadTakes, ThreadCommits,
           Statement, BeginShutdown, Shutdown, JoinThread, CloseTakes, CloseCommits
<1>9. CASE Crash \/ Open
    BY <1>1, <1>9 DEF Crash, Open
<1> QED BY <1>2, <1>3, <1>4, <1>5, <1>6, <1>8, <1>9 DEF PlanningNext, Frame

\* f is between its snapshot of the dirty map and its commit.
Writes(f) == IF f = "thread" THEN thread = "write" ELSE pc = "write"

\* Flushes of the thread and of the destructor do not overlap.
LEMMA OtherFlusherIsIdle ==
    ASSUME PlanningTypeOK, OneFlusherWrites, NEW f \in Flushers, Writes(f),
           NEW g \in Flushers, g # f
    PROVE  batch[g] = NoBatch /\ todo[g] = NothingToDo
BY DEF OneFlusherWrites, Writes, Flushers

\* A transaction changes only the rows of its batch, and a commit makes them all
\* durable at once.
LEMMA TransactionStep ==
    ASSUME PlanningTypeOK, OneFlusherWrites, TransactionsAreOfBatches, PlanningNext
    PROVE  TransactionsAreOfBatches'
<1> USE DEF mapVars, queueVars, dbVars, windowVars, historyVars
<1>1. CASE Forget
    <2>1. /\ batch' = [f \in Flushers |-> NoBatch] /\ todo' = [f \in Flushers |-> NothingToDo]
          /\ rows' = durable'
        BY <1>1 DEF Forget
    <2>2. Present(NoBatch.up) = {}
        BY TableFacts DEF NoBatch
    <2> QED BY <2>1, <2>2 DEF TransactionsAreOfBatches, NothingToDo
<1>2. CASE UNCHANGED dbVars
    BY <1>2 DEF TransactionsAreOfBatches
<1>3. ASSUME NEW f \in Flushers, TakeBatch(f), batch[f] = NoBatch, UNCHANGED <<rows, durable>>
      PROVE  TransactionsAreOfBatches'
    <2>1. \A g \in Flushers \ {f} : batch'[g] = batch[g] /\ todo'[g] = todo[g]
        BY <1>3 DEF TakeBatch, PlanningTypeOK
    <2>2. /\ batch'[f] = [up |-> dirty_cells, del |-> evicted_keys]
          /\ todo'[f] = [up |-> Present(dirty_cells), del |-> evicted_keys]
        BY <1>3 DEF TakeBatch, PlanningTypeOK
    <2>3. \A k \in Keys : batch[f].up[k] = None /\ k \notin batch[f].del
        BY <1>3 DEF NoBatch, Empty
    <2>4. ASSUME NEW g \in Flushers
          PROVE  todo'[g].up \subseteq Present(batch'[g].up) /\ todo'[g].del \subseteq batch'[g].del
        BY <2>1, <2>2 DEF TransactionsAreOfBatches
    <2>5. ASSUME NEW k \in Keys,
                 \A g \in Flushers : batch'[g].up[k] = None /\ k \notin batch'[g].del
          PROVE  rows'[k] = durable'[k]
        BY <1>3, <2>1, <2>3, <2>5 DEF TransactionsAreOfBatches
    <2>6. ASSUME NEW g \in Flushers, NEW k \in Present(batch'[g].up) \ todo'[g].up,
                 k \notin batch'[g].del
          PROVE  rows'[k] = batch'[g].up[k]
        BY <1>3, <2>1, <2>2, <2>6 DEF TransactionsAreOfBatches
    <2> QED BY <2>4, <2>5, <2>6 DEF TransactionsAreOfBatches
<1>4. ASSUME NEW f \in Flushers, Writes(f), Statement(f) PROVE TransactionsAreOfBatches'
    <2>1. PICK k \in Keys : Upsert(f, k) \/ Delete(f, k)
        BY <1>4 DEF Statement
    <2>2. batch' = batch /\ durable' = durable
        BY <1>4 DEF Statement
    <2>3. \A g \in Flushers \ {f} : batch[g] = NoBatch /\ todo'[g] = NothingToDo
        BY <1>4, <2>1, OtherFlusherIsIdle DEF Upsert, Delete, PlanningTypeOK
    <2>4. Present(NoBatch.up) = {}
        BY TableFacts DEF NoBatch
    <2>5. todo'[f].up \subseteq todo[f].up /\ todo'[f].del \subseteq todo[f].del
        BY <2>1 DEF Upsert, Delete, PlanningTypeOK
    <2>6. /\ \A j \in Keys \ {k} : rows'[j] = rows[j]
          /\ \/ /\ k \in todo[f].up /\ rows'[k] = batch[f].up[k]
                /\ todo'[f].up = todo[f].up \ {k}
             \/ k \in todo[f].del /\ todo'[f].up = todo[f].up
        BY <2>1 DEF Upsert, Delete, PlanningTypeOK, Tables
    <2>7. k \in Present(batch[f].up) \cup batch[f].del
        BY <2>6 DEF TransactionsAreOfBatches
    <2>8. ASSUME NEW g \in Flushers
          PROVE  todo'[g].up \subseteq Present(batch'[g].up) /\ todo'[g].del \subseteq batch'[g].del
        BY <2>2, <2>3, <2>4, <2>5 DEF TransactionsAreOfBatches, NothingToDo
    <2>9. ASSUME NEW j \in Keys,
                 \A g \in Flushers : batch'[g].up[j] = None /\ j \notin batch'[g].del
          PROVE  rows'[j] = durable'[j]
        <3>1. j # k
            BY <2>2, <2>7, <2>9 DEF Present
        <3> QED BY <2>2, <2>6, <2>9, <3>1 DEF TransactionsAreOfBatches
    <2>10. ASSUME NEW g \in Flushers, NEW j \in Present(batch'[g].up) \ todo'[g].up,
                  j \notin batch'[g].del
           PROVE  rows'[j] = batch'[g].up[j]
        <3>1. g = f
            BY <2>2, <2>3, <2>4
        <3>2. j \in Keys
            BY DEF Present
        <3>3. CASE j # k
            BY <2>2, <2>6, <2>10, <3>1, <3>2, <3>3 DEF TransactionsAreOfBatches
        <3>4. CASE j = k
            BY <2>2, <2>6, <2>10, <3>1, <3>4 DEF TransactionsAreOfBatches
        <3> QED BY <3>3, <3>4
    <2> QED BY <2>8, <2>9, <2>10 DEF TransactionsAreOfBatches
<1>5. ASSUME NEW f \in Flushers, Writes(f), Commit(f), UNCHANGED <<todo, rows>>
      PROVE  TransactionsAreOfBatches'
    <2>1. \A g \in Flushers : batch'[g] = NoBatch /\ todo'[g] = NothingToDo
        BY <1>5, OtherFlusherIsIdle DEF Commit, PlanningTypeOK
    <2>2. Present(NoBatch.up) = {}
        BY TableFacts DEF NoBatch
    <2>3. rows' = durable'
        BY <1>5 DEF Commit
    <2> QED BY <2>1, <2>2, <2>3 DEF TransactionsAreOfBatches, NothingToDo
<1>6. CASE FlushThread
    BY <1>2, <1>3, <1>4, <1>5, <1>6
       DEF FlushThread, ThreadWakes, ThreadTakes, ThreadCommits, Writes, Flushers,
           OneFlusherWrites
<1>7. CASE Shutdown
    BY <1>2, <1>3, <1>4, <1>5, <1>7
       DEF Shutdown, JoinThread, CloseTakes, CloseCommits, Writes, Flushers,
           OneFlusherWrites
<1>8. CASE Frame \/ BeginShutdown
    BY <1>2, <1>8
       DEF Frame, StayInWindow, LoadWindowFromDb, FinishUpdate, SlideWindow,
           MergeOccupied, MergeFree, BeginShutdown
<1>9. CASE Crash \/ Open
    BY <1>1, <1>9 DEF Crash, Open
<1> QED BY <1>6, <1>7, <1>8, <1>9 DEF PlanningNext

\* Every value on its way stays on its way: the update hands it over under the lock,
\* the flusher takes all or nothing, a commit puts it in the table, and the window
\* reads only rows that no queued delete takes away.
LEMMA ArrivalStep ==
    ASSUME PlanningSafe, PlanningNext
    PROVE  SettledArrives'
<1> USE DEF PlanningSafe, mapVars, queueVars, dbVars, windowVars, historyVars
<1>0. \A k \in Keys : NoBatch.up[k] = None /\ k \notin NoBatch.del
    BY DEF NoBatch, Empty
<1>1. ASSUME UNCHANGED <<dirty_cells, evicted_keys, batch, durable>>,
             \A k \in Settled' : /\ k \in Settled /\ cells'[k] = cells[k]
                                 /\ k \in reloaded' <=> k \in reloaded
      PROVE  SettledArrives'
    BY <1>1 DEF SettledArrives, Unthreatened, Arrives, OnItsWay
<1>2. CASE UNCHANGED <<mapVars, historyVars, queueVars, batch, durable>>
    BY <1>1, <1>2 DEF Settled
<1>3. ASSUME NEW f \in Flushers, TakeBatch(f), \A g \in Flushers : batch[g] = NoBatch,
             UNCHANGED <<mapVars, historyVars, rows, durable>>
      PROVE  SettledArrives'
    <2>1. \A g \in Flushers \ {f} : batch'[g] = NoBatch
        BY <1>3 DEF TakeBatch, PlanningTypeOK
    <2>2. batch'[f] = [up |-> dirty_cells, del |-> evicted_keys]
        BY <1>3 DEF TakeBatch, PlanningTypeOK
    <2>3. ASSUME NEW k \in Settled' PROVE Unthreatened(k)' /\ Arrives(k)'
        <3>1. k \in Settled /\ k \in Keys
            BY <1>3, <2>3 DEF Settled
        <3>2. dirty_cells'[k] = None /\ k \notin evicted_keys'
            BY <1>3, <3>1 DEF TakeBatch, Empty
        <3>3. Unthreatened(k)'
            BY <1>0, <2>1, <2>2, <3>1, <3>2 DEF SettledArrives, Unthreatened
        <3>4. OnItsWay(k)' = OnItsWay(k)
            BY <1>0, <1>3, <2>1, <2>2, <3>1, <3>2 DEF OnItsWay, Flushers
        <3> QED BY <1>3, <3>1, <3>3, <3>4 DEF SettledArrives, Arrives
    <2> QED BY <2>3 DEF SettledArrives
<1>4. ASSUME NEW f \in Flushers, Writes(f), Commit(f),
             UNCHANGED <<mapVars, historyVars, queueVars>>
      PROVE  SettledArrives'
    <2>1. /\ todo[f] = NothingToDo /\ durable' = rows
          /\ \A g \in Flushers : batch'[g] = NoBatch
          /\ \A g \in Flushers \ {f} : batch[g] = NoBatch
        BY <1>4, OtherFlusherIsIdle DEF Commit, PlanningTypeOK
    <2>2. ASSUME NEW k \in Settled' PROVE Unthreatened(k)' /\ Arrives(k)'
        <3>1. k \in Settled /\ k \in Keys /\ Unthreatened(k)
            BY <1>4, <2>2 DEF Settled, SettledArrives
        <3>2. Unthreatened(k)'
            BY <1>0, <1>4, <2>1, <3>1 DEF Unthreatened
        <3>3. CASE dirty_cells[k] # None
            BY <1>4, <3>1, <3>2, <3>3 DEF SettledArrives, Arrives, OnItsWay
        <3>4. CASE dirty_cells[k] = None /\ batch[f].up[k] # None
            <4>1. rows[k] = batch[f].up[k]
                BY <2>1, <3>1, <3>4
                   DEF TransactionsAreOfBatches, Unthreatened, NothingToDo, Present
            <4>2. OnItsWay(k)' = OnItsWay(k)
                BY <1>0, <1>4, <2>1, <3>1, <3>4, <4>1 DEF OnItsWay, Flushers
            <4> QED BY <1>4, <3>1, <3>2, <4>2 DEF SettledArrives, Arrives
        <3>5. CASE dirty_cells[k] = None /\ batch[f].up[k] = None
            <4>1. rows[k] = durable[k]
                BY <1>0, <2>1, <3>1, <3>5 DEF TransactionsAreOfBatches, Unthreatened
            <4>2. OnItsWay(k)' = OnItsWay(k)
                BY <1>0, <1>4, <2>1, <3>1, <3>5, <4>1 DEF OnItsWay, Flushers
            <4> QED BY <1>4, <3>1, <3>2, <4>2 DEF SettledArrives, Arrives
        <3> QED BY <3>3, <3>4, <3>5
    <2> QED BY <2>2 DEF SettledArrives
<1>5. CASE LoadWindowFromDb
    <2>1. UNCHANGED <<local_dirty, local_evicted, dirty_cells, evicted_keys, batch, durable, rows>>
        BY <1>5 DEF LoadWindowFromDb
    <2>2. ASSUME NEW k \in Settled', k \notin Loadable PROVE Unthreatened(k)' /\ Arrives(k)'
        <3>1. k \in Settled /\ cells'[k] = cells[k] /\ (k \in reloaded' <=> k \in reloaded)
            BY <1>5, <2>1, <2>2 DEF LoadWindowFromDb, Settled
        <3> QED BY <2>1, <3>1 DEF SettledArrives, Unthreatened, Arrives, OnItsWay
    <2>3. ASSUME NEW k \in Settled', k \in Loadable PROVE Unthreatened(k)' /\ Arrives(k)'
        <3>1. k \in Keys /\ k \in reloaded' /\ k \notin QueuedDeletes /\ rows[k] # None
            BY <1>5, <2>3 DEF LoadWindowFromDb, Settled, Loadable, Readable
        <3>2. k \notin evicted_keys /\ \A f \in Flushers : k \notin batch[f].del
            BY <3>1 DEF QueuedDeletes
        <3>3. OnItsWay(k) # None
            BY <3>1, <3>2 DEF OnItsWay, TransactionsAreOfBatches, Flushers
        <3> QED BY <2>1, <3>1, <3>2, <3>3 DEF Unthreatened, Arrives, OnItsWay
    <2> QED BY <2>2, <2>3 DEF SettledArrives
<1>6. CASE FinishUpdate
    <2>1. UNCHANGED <<batch, durable>>
        BY <1>6 DEF FinishUpdate
    <2>2. ASSUME NEW k \in Settled', local_dirty[k] # None PROVE Unthreatened(k)' /\ Arrives(k)'
        <3>1. k \in Keys /\ cells'[k] # None /\ k \notin exposed'
            BY <2>2 DEF Settled
        <3>2. k \notin evicted_keys' /\ k \notin local_evicted /\ k \notin reloaded'
            BY <1>6, <2>2, <3>1 DEF FinishUpdate, Present
        <3>3. dirty_cells'[k] = local_dirty[k]
            BY <1>6, <2>2, <3>1, <3>2 DEF FinishUpdate, HandOver
        <3>4. cells'[k] = local_dirty[k]
            BY <1>6, <2>2, <3>1, <3>2 DEF FinishUpdate, LocalChanges
        <3> QED BY <2>2, <3>2, <3>3, <3>4 DEF Unthreatened, Arrives, OnItsWay
    <2>3. ASSUME NEW k \in Settled', local_dirty[k] = None PROVE Unthreatened(k)' /\ Arrives(k)'
        <3>1. k \in Keys /\ cells'[k] # None /\ k \notin exposed'
            BY <2>3 DEF Settled
        <3>2. k \notin local_evicted
            BY <1>6, <2>3, <3>1 DEF FinishUpdate, LocalChanges
        <3>3. k \in Settled /\ cells'[k] = cells[k] /\ (k \in reloaded' <=> k \in reloaded)
            BY <1>6, <2>3, <3>1, <3>2 DEF FinishUpdate, Settled, Present
        <3>4. dirty_cells'[k] = dirty_cells[k] /\ (k \in evicted_keys' <=> k \in evicted_keys)
            BY <1>6, <2>3, <3>1, <3>2 DEF FinishUpdate, HandOver
        <3> QED BY <2>1, <3>3, <3>4 DEF SettledArrives, Unthreatened, Arrives, OnItsWay
    <2> QED BY <2>2, <2>3 DEF SettledArrives
<1>7. ASSUME NEW p \in Positions, SlideWindow(p) PROVE SettledArrives'
    <2>1. ASSUME NEW k \in Settled'
          PROVE  k \in Settled /\ cells'[k] = cells[k] /\ (k \in reloaded' <=> k \in reloaded)
        BY <1>7, <2>1 DEF SlideWindow, EvictFarCells, Settled, Present
    <2> QED BY <1>1, <1>7, <2>1 DEF SlideWindow
<1>8. ASSUME NEW k \in Keys, MergeOccupied(k) \/ MergeFree(k) PROVE SettledArrives'
    <2>1. PICK o \in Odds : /\ cells' = [cells EXCEPT ![k] = o]
                            /\ \/ /\ local_evicted' = local_evicted \cup {k}
                                  /\ UNCHANGED local_dirty
                               \/ /\ local_dirty' = [local_dirty EXCEPT ![k] = o]
                                  /\ UNCHANGED local_evicted
        <3>1. (IF cells[k] = None THEN 0 ELSE cells[k]) \in Odds
            BY OddsFacts, TableFacts DEF PlanningTypeOK
        <3>2. CASE MergeOccupied(k)
            BY <3>1, <3>2, OddsFacts DEF MergeOccupied
        <3>3. CASE MergeFree(k)
            BY <3>1, <3>3, OddsFacts DEF MergeFree
        <3> QED BY <1>8, <3>2, <3>3
    <2>2. o # None
        BY OddsFacts
    <2>3. ASSUME NEW j \in Settled' PROVE j \in Settled /\ cells'[j] = cells[j]
        BY <1>8, <2>1, <2>2, <2>3
           DEF Settled, MergeOccupied, MergeFree, PlanningTypeOK, Tables
    <2> QED BY <1>1, <1>8, <2>3 DEF MergeOccupied, MergeFree
<1>9. CASE FlushThread
    <2>1. thread = "flush" => \A g \in Flushers : batch[g] = NoBatch
        BY DEF OneFlusherWrites, Flushers
    <2> QED BY <1>2, <1>3, <1>4, <1>9, <2>1
            DEF FlushThread, ThreadWakes, ThreadTakes, ThreadCommits, Statement, Writes,
                Flushers
<1>10. CASE Shutdown
    <2>1. pc = "close" => \A g \in Flushers : batch[g] = NoBatch
        BY DEF OneFlusherWrites, Flushers
    <2> QED BY <1>2, <1>3, <1>4, <1>10, <2>1
            DEF Shutdown, JoinThread, CloseTakes, CloseCommits, Statement, Writes, Flushers
<1>11. CASE StayInWindow \/ BeginShutdown
    BY <1>2, <1>11 DEF StayInWindow, BeginShutdown
<1>12. CASE Crash
    BY <1>12 DEF Crash, Settled, SettledArrives, Empty
<1>13. CASE Open
    <2>1. ASSUME NEW k \in Settled' PROVE Unthreatened(k)' /\ Arrives(k)'
        BY <1>0, <1>13, <2>1
           DEF Open, Forget, Settled, Unthreatened, Arrives, OnItsWay, Readable, Empty, Flushers
    <2> QED BY <2>1 DEF SettledArrives
<1> QED BY <1>5, <1>6, <1>7, <1>8, <1>9, <1>10, <1>11, <1>12, <1>13
        DEF PlanningNext, Frame

\* The program starts with an empty map and an empty table.
LEMMA PlanningSafeInit == PlanningInit => PlanningSafe
<1> SUFFICES ASSUME PlanningInit PROVE PlanningSafe
    OBVIOUS
<1> USE DEF PlanningInit
<1>1. PlanningTypeOK
    BY TableFacts DEF PlanningTypeOK
<1>2. OneFlusherWrites /\ ClosingIsLast
    BY DEF OneFlusherWrites, ClosingIsLast, Flushers
<1>3. LocalChanges
    BY DEF LocalChanges, Empty
<1>4. TransactionsAreOfBatches
    <2>1. Present(NoBatch.up) = {}
        BY TableFacts DEF NoBatch
    <2> QED BY <2>1 DEF TransactionsAreOfBatches, NothingToDo
<1>5. SettledArrives
    BY DEF SettledArrives, Settled, Empty
<1> QED BY <1>1, <1>2, <1>3, <1>4, <1>5 DEF PlanningSafe

\* The invariant is inductive.
LEMMA PlanningSafeStep == PlanningSafe /\ [PlanningNext]_vars => PlanningSafe'
<1>1. ASSUME PlanningSafe, PlanningNext PROVE PlanningSafe'
    BY <1>1, PlanningTypeStep, FlusherStep, LocalStep, TransactionStep, ArrivalStep
       DEF PlanningSafe
<1>2. ASSUME PlanningSafe, UNCHANGED vars PROVE PlanningSafe'
    BY <1>2
       DEF vars, mapVars, queueVars, dbVars, windowVars, historyVars, PlanningSafe,
           PlanningTypeOK, OneFlusherWrites, ClosingIsLast, LocalChanges,
           TransactionsAreOfBatches, SettledArrives, Settled, Unthreatened, Arrives,
           OnItsWay
<1> QED BY <1>1, <1>2

\* The planning map and its table hold log odds within their limits, whatever the
\* flush thread, the main thread, a crash and a restart do.
THEOREM PlanningTypeCorrect == PlanningSpec => []PlanningTypeOK
<1>1. PlanningSafe => PlanningTypeOK
    BY DEF PlanningSafe
<1> QED BY <1>1, PlanningSafeInit, PlanningSafeStep, PTL DEF PlanningSpec

\* update_from_traversability(), flush_dirty_to_db() and load_window_from_db() lose no
\* update between memory and the table, for every set of cells, every window and all
\* increments.
THEOREM NoUpdateIsLost == PlanningSpec => []NothingUpdatedIsLost
<1>1. PlanningSafe => NothingUpdatedIsLost
    BY DEF PlanningSafe, NothingUpdatedIsLost, SettledArrives, Settled, Arrives, LocalChanges,
           Present, Empty
<1> QED BY <1>1, PlanningSafeInit, PlanningSafeStep, PTL DEF PlanningSpec

\* When close_db() returns, nothing waits in memory and no transaction is open.
THEOREM CloseFlushes == PlanningSpec => []CloseFlushesEverything
<1>1. PlanningSafe => CloseFlushesEverything
    BY TableFacts
       DEF PlanningSafe, PlanningTypeOK, CloseFlushesEverything, OneFlusherWrites,
           ClosingIsLast, Flushers
<1> QED BY <1>1, PlanningSafeInit, PlanningSafeStep, PTL DEF PlanningSpec

-----------------------------------------------------------------------------
(* The artifact files. *)

Texts == [run : Nat, count : Nat, first : Nat, seen : Seq(Nat), capped : BOOLEAN,
          whole : BOOLEAN]

MapShape == [count : Nat, clock : Nat, seen : Seq(Nat)]

\* The types, with the shapes that ArtifactTypeOK leaves open.
ArtifactShapes ==
    /\ mission \in {"flying", "failed", "closing", "ended", "crashed"}
    /\ run \in 1..MaxRuns /\ map_updates \in 0..MaxMapUpdates /\ enabled \subseteq Writers
    /\ full \in BOOLEAN /\ db_closed \in BOOLEAN
    /\ map \in MapShape
    /\ progress \in [Writers -> [last : Nat, first : Nat \cup {Unset}]]
    /\ job \in [writer : Writers, file : Files, step : Steps \cup {"none"}, text : Texts]
    /\ disk \in [Writers -> [Files -> [target : Texts, tmp : Texts]]]
    /\ written \in [Writers -> Nat]

\* Cells carry times up to the clock, and none before the start the writer noted.
TimesAreOrdered ==
    /\ map.clock <= map.count /\ map.count <= map_updates
    /\ \A i \in DOMAIN map.seen : map.seen[i] <= map.clock
    /\ \A w \in Writers :
          /\ progress[w].last <= map.count /\ written[w] <= map.count
          /\ progress[w].first <= map.clock
          /\ \A i \in DOMAIN map.seen : map.seen[i] # 0 => progress[w].first <= map.seen[i]

\* A text is of one of the runs 1..r with u updates in all; one of run r is not ahead
\* of its map, whose count is c.
Fits(text, r, u, c) ==
    /\ text.run <= r
    /\ text.run > 0 => text.count \in 1..u
    /\ text.run = r => text.count <= c
    /\ \A i \in DOMAIN text.seen : text.seen[i] # 0 => text.first <= text.seen[i]

DiskIsOfMaps ==
    \A w \in Writers, f \in Files :
        /\ Fits(disk[w][f].target, run, map_updates, map.count)
        /\ Fits(disk[w][f].tmp, run, map_updates, map.count)

SameText(a, b) == /\ a.run = b.run /\ a.count = b.count
                  /\ a.first = b.first /\ a.seen = b.seen

\* The write in progress is of the map as it is, its text is in the temporary file
\* once it was written, and its map is in place before its meta file.
JobIsOfMap ==
    /\ job.step = "none" => job = NoJob
    /\ job.step # "none" =>
          /\ job.text.run = run /\ job.text.count = map.count /\ map.count > 0
          /\ job.text.whole /\ Fits(job.text, run, map_updates, map.count)
          /\ mission = IF job.writer = "obstacle" THEN "flying" ELSE "closing"
          /\ job.step \in {"remove", "rename"} =>
                /\ SameText(disk[job.writer][job.file].tmp, job.text)
                /\ full \/ disk[job.writer][job.file].tmp.whole
          /\ job.file = "meta" =>
                /\ disk[job.writer]["map"].target.run = run
                /\ disk[job.writer]["map"].target.count = map.count

\* The traversability map is written once, at the end.
FinalIsLast ==
    mission \in {"flying", "failed"} =>
        /\ progress["traversability"] = [last |-> 0, first |-> Unset]
        /\ written["traversability"] = 0

\* Between two writes both files are those the obstacle map's writer noted.
NotedIsOnDisk ==
    (mission = "flying" /\ job = NoJob /\ progress["obstacle"].last > 0) =>
        \A f \in Files : LET text == disk["obstacle"][f].target IN
            text.run = run /\ text.count = progress["obstacle"].last

HoldsWritten(w, text) == text.run = run /\ text.count >= written[w] /\ text.whole

\* The map written last is in place, unless the process was interrupted between the
\* removal and the rename, or is there now; then it is in the temporary file, and no
\* other write of the run reopens that one.
WrittenMapHasPlace ==
    full \/ \A w \in Writers : written[w] > 0 =>
        \/ HoldsWritten(w, disk[w]["map"].target)
        \/ /\ HoldsWritten(w, disk[w]["map"].tmp)
           /\ IF job.step # "none" /\ job.writer = w /\ job.file = "map"
              THEN job.step = "rename" ELSE mission # "flying"

\* The inductive invariant.
ArtifactSafe ==
    /\ ArtifactShapes /\ TimesAreOrdered /\ DiskIsOfMaps /\ JobIsOfMap
    /\ FinalIsLast /\ NotedIsOnDisk /\ WrittenMapHasPlace
    /\ ArtifactsAreWhole /\ MetaFollowsMap /\ ArtifactLagIsBounded

\* The times of S before x.
Before(S, x) == {y \in S : y < x}

\* A non-empty set of times has a least one, by well-foundedness of strict inclusion
\* on its lower parts, so Earliest is what its name says.
LEMMA EarliestIsLeast ==
    ASSUME NEW S \in SUBSET Nat, S # {}
    PROVE  Earliest(S) \in S /\ \A u \in S : Earliest(S) <= u
<1>1. PICK top \in S : TRUE
    OBVIOUS
<1> DEFINE B == {y \in S : y <= top}
           T == {Before(B, x) : x \in B}
<1>2. IsFiniteSet(B) /\ B \in SUBSET S /\ top \in B
    <2>1. B \in SUBSET Nat /\ top \in Nat /\ \A y \in B : y <= top
        OBVIOUS
    <2>2. B \in SUBSET S /\ top \in B
        BY <2>1
    <2> HIDE DEF B
    <2>3. IsFiniteSet(B)
        BY <2>1, FS_BoundedSetOfNaturals
    <2> QED BY <2>2, <2>3
<1>3. T \subseteq FiniteSubsetsOf(B) /\ T # {}
    <2>1. ASSUME NEW x \in B PROVE Before(B, x) \in FiniteSubsetsOf(B)
        <3>1. Before(B, x) \in SUBSET B
            BY DEF Before
        <3> QED BY <1>2, <3>1, FS_Subset DEF FiniteSubsetsOf
    <2> QED BY <1>2, <2>1
<1>4. PICK b \in T : \A c \in T : ~(<<c, b>> \in StrictSubsetOrdering(B))
    BY <1>2, <1>3, FS_StrictSubsetOrderingWellFounded, WFMin
<1>5. PICK x \in B : b = Before(B, x)
    BY <1>4
<1>6. ASSUME NEW y \in B, y < x PROVE FALSE
    <2>1. Before(B, y) \in T /\ Before(B, y) \in SUBSET B /\ b \in SUBSET B
        BY <1>5 DEF Before
    <2>2. x \in Nat /\ y \in Nat /\ \A z \in B : z \in Nat
        BY <1>2
    <2>3. ASSUME NEW z \in Before(B, y) PROVE z \in Before(B, x)
        <3>1. z \in B /\ z < y
            BY <2>3 DEF Before
        <3>2. z < x
            BY <1>6, <2>2, <3>1
        <3> QED BY <3>1, <3>2 DEF Before
    <2>4. y \in b /\ y \notin Before(B, y)
        BY <1>5, <1>6, <2>2 DEF Before
    <2>5. <<Before(B, y), b>> \in StrictSubsetOrdering(B)
        BY <1>5, <2>1, <2>3, <2>4 DEF StrictSubsetOrdering
    <2> QED BY <1>4, <2>1, <2>5
<1>7. ASSUME NEW u \in S PROVE x <= u
    <2>1. u \in Nat /\ x \in Nat /\ top \in Nat /\ x <= top
        BY <1>2
    <2>2. u \in B => ~(u < x)
        BY <1>6
    <2>3. u > top => x <= u
        BY <2>1
    <2>4. u \notin B => u > top
        BY <2>1
    <2> QED BY <2>1, <2>2, <2>3, <2>4
<1> QED BY <1>2, <1>7 DEF Earliest

\* No cell of m was seen before first, and none after the clock of m.
Covers(first, m) ==
    /\ first <= m.clock
    /\ \A i \in DOMAIN m.seen : /\ m.seen[i] <= m.clock
                                /\ m.seen[i] # 0 => first <= m.seen[i]

\* first_update_timestamp_ns() is a time before all cells of the map.
LEMMA FirstCovers ==
    ASSUME NEW m \in MapShape, NEW w \in Writers,
           \A i \in DOMAIN m.seen : m.seen[i] <= m.clock
    PROVE  first_of(w, m) \in Nat /\ Covers(first_of(w, m), m)
<1> DEFINE times == {m.seen[i] : i \in DOMAIN m.seen} \ {0}
<1>1. m.seen \in Seq(Nat) /\ m.clock \in Nat
    BY DEF MapShape
<1>2. \A i \in DOMAIN m.seen : m.seen[i] \in Nat
    BY <1>1
<1>3. times \in SUBSET Nat /\ (times \cup {m.clock}) \in SUBSET Nat
    BY <1>1, <1>2
<1>4. CASE w = "obstacle" \/ m.clock # 0
    <2>1. first_of(w, m) = Earliest(times \cup {m.clock})
        BY <1>4 DEF first_of
    <2>2. /\ Earliest(times \cup {m.clock}) \in times \cup {m.clock}
          /\ \A u \in times \cup {m.clock} : Earliest(times \cup {m.clock}) <= u
        BY <1>3, EarliestIsLeast
    <2> QED BY <1>2, <1>3, <2>1, <2>2 DEF Covers
<1>5. CASE ~(w = "obstacle" \/ m.clock # 0)
    <2>1. \A i \in DOMAIN m.seen : m.seen[i] = 0
        BY <1>2, <1>5
    <2>2. times = {}
        BY <2>1
    <2>3. first_of(w, m) = 0
        BY <1>5, <2>2 DEF first_of
    <2> QED BY <1>1, <2>1, <2>3 DEF Covers
<1> QED BY <1>4, <1>5

\* The text a writer renders for m.
Render(w, m, first) ==
    IF w = "obstacle" THEN render_obstacle(m, first) ELSE render_traversability(m, first)

\* Rendering keeps the count and the times, aligned or capped, so a start that covers
\* the cells of the map covers those of the text.
LEMMA RenderFacts ==
    ASSUME NEW m \in MapShape, NEW w \in Writers, NEW first \in Nat, Covers(first, m),
           run \in Nat
    PROVE  LET text == Render(w, m, first) IN
           /\ text \in Texts /\ text.run = run /\ text.count = m.count /\ text.whole
           /\ \A i \in DOMAIN text.seen : text.seen[i] # 0 => text.first <= text.seen[i]
<1>1. m.seen \in Seq(Nat) /\ m.clock \in Nat /\ m.count \in Nat
    BY DEF MapShape
<1>2. CASE w = "obstacle"
    <2> DEFINE seen == [i \in DOMAIN m.seen |-> aligned(m.seen[i], m.clock)]
    <2>1. \A i \in DOMAIN m.seen : m.seen[i] \in Nat
        BY <1>1
    <2>2. \A i \in DOMAIN m.seen : aligned(m.seen[i], m.clock) \in Nat
                                   /\ first <= aligned(m.seen[i], m.clock)
        BY <1>1, <2>1 DEF aligned, Least, Covers
    <2>3. seen \in Seq(Nat)
        <3>1. DOMAIN m.seen = 1..Len(m.seen) /\ Len(m.seen) \in Nat
            BY <1>1
        <3>2. seen \in [1..Len(m.seen) -> Nat]
            BY <2>2, <3>1
        <3> QED BY <3>1, <3>2
    <2> QED BY <1>1, <1>2, <2>2, <2>3 DEF Render, render_obstacle, Texts
<1>3. CASE w # "obstacle"
    <2>1. CASE MaxCells # 0 /\ Len(m.seen) > MaxCells
        <3>1. MaxCells \in Nat /\ Len(m.seen) \in Nat
            BY <1>1, ArtifactAssumption
        <3>2. /\ SubSeq(m.seen, 1, MaxCells) \in Seq(Nat)
              /\ DOMAIN SubSeq(m.seen, 1, MaxCells) = 1..MaxCells
              /\ \A i \in 1..MaxCells : i \in DOMAIN m.seen
                                        /\ SubSeq(m.seen, 1, MaxCells)[i] = m.seen[i]
            BY <1>1, <2>1, <3>1
        <3> QED BY <1>1, <1>3, <2>1, <3>2 DEF Render, render_traversability, Texts, Covers
    <2>2. CASE ~(MaxCells # 0 /\ Len(m.seen) > MaxCells)
        BY <1>1, <1>3, <2>2 DEF Render, render_traversability, Texts, Covers
    <2> QED BY <2>1, <2>2
<1> QED BY <1>2, <1>3

\* The invariant contains what ArtifactsAreSound says.
LEMMA ArtifactSafeIsSound == ArtifactSafe => ArtifactsAreSound
<1> SUFFICES ASSUME ArtifactSafe PROVE ArtifactsAreSound
    OBVIOUS
<1>1. ASSUME NEW text \in Texts, Fits(text, run, map_updates, map.count) PROVE IsText(text)
    BY <1>1 DEF Fits, IsText, Texts, ArtifactSafe, ArtifactShapes
<1>2. ArtifactTypeOK
    <2>1. map.count \in 0..map_updates /\ map.clock \in 0..map.count
        BY DEF ArtifactSafe, ArtifactShapes, MapShape, TimesAreOrdered
    <2>2. ASSUME NEW w \in Writers
          PROVE  /\ progress[w].last \in 0..map.count
                 /\ progress[w].first \in {Unset} \cup 0..map.clock
                 /\ written[w] \in 0..map.count
        BY <2>1 DEF ArtifactSafe, ArtifactShapes, MapShape, TimesAreOrdered
    <2>3. ASSUME NEW w \in Writers, NEW f \in Files
          PROVE  IsText(disk[w][f].target) /\ IsText(disk[w][f].tmp)
        BY <1>1 DEF ArtifactSafe, ArtifactShapes, DiskIsOfMaps
    <2> QED BY <2>1, <2>2, <2>3 DEF ArtifactSafe, ArtifactShapes, ArtifactTypeOK
<1>3. WrittenMapSurvives
    BY DEF ArtifactSafe, WrittenMapHasPlace, HoldsWritten, WrittenMapSurvives
<1>4. StartCoversCells
    BY DEF ArtifactSafe, DiskIsOfMaps, Fits, StartCoversCells, Files
<1> QED BY <1>2, <1>3, <1>4 DEF ArtifactSafe, ArtifactsAreSound

\* A text that fits still fits after another update, ...
LEMMA FitsLater ==
    ASSUME NEW text \in Texts, NEW r \in Nat, NEW u \in Nat, NEW c \in Nat,
           NEW u2 \in Nat, NEW c2 \in Nat, u <= u2, c <= c2, Fits(text, r, u, c)
    PROVE  Fits(text, r, u2, c2)
BY DEF Fits, Texts

\* ... and in the next run, where it is an old one.
LEMMA FitsNextRun ==
    ASSUME NEW text \in Texts, NEW r \in Nat, NEW u \in Nat, NEW c \in Nat,
           Fits(text, r, u, c)
    PROVE  Fits(text, r + 1, u, 0)
BY DEF Fits, Texts

\* No file at all is a text that fits.
LEMMA NothingFits ==
    /\ Nothing \in Texts /\ Nothing.whole /\ Nothing.run = 0
    /\ \A r \in Nat \ {0}, u \in Nat, c \in Nat : Fits(Nothing, r, u, c)
    /\ NoJob \in [writer : Writers, file : Files, step : Steps \cup {"none"}, text : Texts]
    /\ NoJob.step = "none" /\ NoJob.writer = "obstacle"
<1>1. Nothing \in Texts
    <2>1. <<>> \in Seq(Nat)
        OBVIOUS
    <2> QED BY <2>1 DEF Nothing, Texts
<1>2. DOMAIN Nothing.seen = {}
    BY DEF Nothing
<1> QED BY <1>1, <1>2 DEF Nothing, Fits, NoJob, Writers, Files

\* write_snapshot() starts with the map, of the current count, and a start time that
\* covers its cells.
LEMMA WriteBegins ==
    ASSUME ArtifactShapes, NEW m \in MapShape, NEW w \in Writers, write_snapshot(w, m),
           m.count > 0, Covers(progress[w].first, m)
    PROVE  \E first \in Nat, text \in Texts :
              /\ progress' = [progress EXCEPT ![w].first = first]
              /\ Covers(first, m)
              /\ job' = [writer |-> w, file |-> "map", step |-> "open", text |-> text]
              /\ text.run = run /\ text.count = m.count /\ text.whole
              /\ \A u \in Nat : m.count <= u => Fits(text, run, u, m.count)
<1> DEFINE first == IF progress[w].first # Unset THEN progress[w].first ELSE first_of(w, m)
           text == Render(w, m, first)
<1>1. first \in Nat /\ Covers(first, m)
    <2>1. CASE progress[w].first # Unset
        BY <2>1 DEF ArtifactShapes
    <2>2. CASE progress[w].first = Unset
        BY <2>2, FirstCovers DEF Covers
    <2> QED BY <2>1, <2>2
<1>2. run \in Nat
    BY DEF ArtifactShapes
<1>3. /\ text \in Texts /\ text.run = run /\ text.count = m.count /\ text.whole
      /\ \A i \in DOMAIN text.seen : text.seen[i] # 0 => text.first <= text.seen[i]
    BY <1>1, <1>2, RenderFacts
<1>4. \A u \in Nat : m.count <= u => Fits(text, run, u, m.count)
    BY <1>2, <1>3 DEF Fits, MapShape
<1>5. /\ progress' = [progress EXCEPT ![w].first = first]
      /\ job' = [writer |-> w, file |-> "map", step |-> "open", text |-> text]
    BY DEF write_snapshot, Render, starts_with
<1> QED BY <1>1, <1>3, <1>4, <1>5

\* One system call changes one of the two names of one file.
LEMMA PutFacts ==
    ASSUME ArtifactShapes, NEW place \in {"target", "tmp"}, NEW content \in Texts,
           Put(place, content)
    PROVE  /\ disk' \in [Writers -> [Files -> [target : Texts, tmp : Texts]]]
           /\ \A w \in Writers, f \in Files :
                 (w # job.writer \/ f # job.file) => disk'[w][f] = disk[w][f]
           /\ LET old == disk[job.writer][job.file]  new == disk'[job.writer][job.file] IN
              /\ new.tmp = IF place = "tmp" THEN content ELSE old.tmp
              /\ new.target = IF place = "tmp" THEN old.target ELSE content
<1> DEFINE w == job.writer
           f == job.file
           new == IF place = "tmp" THEN [target |-> disk[w][f].target, tmp |-> content]
                  ELSE [target |-> content, tmp |-> disk[w][f].tmp]
<1>1. w \in Writers /\ f \in Files
    BY DEF ArtifactShapes
<1>2. disk[w][f] \in [target : Texts, tmp : Texts]
    BY <1>1 DEF ArtifactShapes
<1>3. [disk[w][f] EXCEPT ![place] = content] = new
    BY <1>2
<1>4. new \in [target : Texts, tmp : Texts]
    BY <1>2
<1>5. disk' = [disk EXCEPT ![w] = [disk[w] EXCEPT ![f] = new]]
    BY <1>3 DEF Put
<1> HIDE DEF new, w, f
<1>6. /\ disk' \in [Writers -> [Files -> [target : Texts, tmp : Texts]]]
      /\ \A v \in Writers, g \in Files : (v # w \/ g # f) => disk'[v][g] = disk[v][g]
      /\ disk'[w][f] = new
    BY <1>1, <1>4, <1>5 DEF ArtifactShapes
<1> QED BY <1>6 DEF new, w, f

\* The parts of the invariant that name only what a step leaves alone.
artifactFrame == <<run, enabled, written>>

\* What is on disk stays of the maps there were when the map grows.
LEMMA DiskFitsLater ==
    ASSUME ArtifactSafe, UNCHANGED <<run, disk>>, map' \in MapShape, map'.count >= map.count,
           map_updates' >= map_updates, map_updates' \in 0..MaxMapUpdates
    PROVE  DiskIsOfMaps'
<1> USE DEF ArtifactSafe
<1>1. run \in Nat /\ map_updates \in Nat /\ map_updates' \in Nat
      /\ map.count \in Nat /\ map'.count \in Nat
    BY DEF ArtifactShapes, MapShape
<1>2. ASSUME NEW v \in Writers, NEW f \in Files
      PROVE  /\ Fits(disk[v][f].target, run, map_updates', map'.count)
             /\ Fits(disk[v][f].tmp, run, map_updates', map'.count)
    <2>1. disk[v][f].target \in Texts /\ disk[v][f].tmp \in Texts
        BY DEF ArtifactShapes
    <2>2. /\ Fits(disk[v][f].target, run, map_updates, map.count)
          /\ Fits(disk[v][f].tmp, run, map_updates, map.count)
        BY DEF DiskIsOfMaps
    <2>3. map_updates <= map_updates' /\ map.count <= map'.count
        BY <1>1
    <2> QED BY <1>1, <2>1, <2>2, <2>3, FitsLater
<1> QED BY <1>2 DEF DiskIsOfMaps

\* A write begins safely: of a map that only grew, by the writer whose turn it is.
LEMMA BeginsSafely ==
    ASSUME ArtifactSafe, NEW w \in Writers, write_snapshot(w, map'), job = NoJob,
           map' \in MapShape, map'.count >= map.count, map'.count > 0,
           map'.clock <= map'.count, map'.count <= map_updates', map_updates' >= map_updates,
           \A v \in Writers : Covers(progress[v].first, map'),
           IF w = "obstacle" THEN mission = "flying" ELSE mission \in {"flying", "failed"},
           mission' = IF w = "obstacle" THEN "flying" ELSE "closing",
           map_updates' \in 0..MaxMapUpdates, UNCHANGED <<artifactFrame, disk, full, db_closed>>
    PROVE  ArtifactSafe'
<1> USE DEF ArtifactSafe, artifactFrame
<1>1. PICK first \in Nat, text \in Texts :
         /\ progress' = [progress EXCEPT ![w].first = first]
         /\ Covers(first, map')
         /\ job' = [writer |-> w, file |-> "map", step |-> "open", text |-> text]
         /\ text.run = run /\ text.count = map'.count /\ text.whole
         /\ \A u \in Nat : map'.count <= u => Fits(text, run, u, map'.count)
    BY WriteBegins
<1>2. job' # NoJob /\ job'.step = "open" /\ job'.writer = w /\ job'.file = "map"
      /\ job'.text = text
    BY <1>1, NothingFits
<1>3. ArtifactShapes'
    BY <1>1 DEF ArtifactShapes, Files, Steps
<1>4. TimesAreOrdered'
    <2>1. ASSUME NEW v \in Writers
          PROVE  /\ progress'[v].last = progress[v].last
                 /\ Covers(progress'[v].first, map')
        BY <1>1 DEF ArtifactShapes
    <2>2. ASSUME NEW v \in Writers
          PROVE  progress'[v].last <= map'.count /\ written'[v] <= map'.count
        <3>1. progress[v].last \in Nat /\ written[v] \in Nat /\ map.count \in Nat
            BY DEF ArtifactShapes, MapShape
        <3>2. progress[v].last <= map.count /\ written[v] <= map.count
            BY DEF TimesAreOrdered
        <3>3. /\ map'.count \in Nat /\ map'.count >= map.count
              /\ written'[v] = written[v] /\ progress'[v].last = progress[v].last
            BY <2>1 DEF MapShape
        <3> HIDE DEF ArtifactSafe, artifactFrame
        <3> QED BY <3>1, <3>2, <3>3
    <2> QED BY <2>1, <2>2 DEF TimesAreOrdered, Covers, Writers
<1>5. DiskIsOfMaps'
    BY DiskFitsLater
<1>6. JobIsOfMap'
    <2>1. Fits(text, run, map_updates', map'.count)
        BY <1>1 DEF ArtifactShapes
    <2> QED BY <1>1, <1>2, <2>1 DEF JobIsOfMap
<1>7. FinalIsLast' /\ NotedIsOnDisk'
    BY <1>1, <1>2 DEF FinalIsLast, NotedIsOnDisk, ArtifactShapes, Writers
<1>8. WrittenMapHasPlace'
    <2>1. ASSUME ~full, NEW v \in Writers, written[v] > 0
          PROVE  \/ HoldsWritten(v, disk[v]["map"].target)
                 \/ HoldsWritten(v, disk[v]["map"].tmp) /\ v # w /\ mission' # "flying"
        BY <2>1, NothingFits DEF WrittenMapHasPlace, FinalIsLast, Writers
    <2> QED BY <1>2, <2>1 DEF WrittenMapHasPlace, HoldsWritten
<1>9. ArtifactsAreWhole'
    BY DEF ArtifactsAreWhole
<1>10. MetaFollowsMap' /\ ArtifactLagIsBounded'
    BY <1>2 DEF MetaFollowsMap, ArtifactLagIsBounded
<1> QED BY <1>3, <1>4, <1>5, <1>6, <1>7, <1>8, <1>9, <1>10

\* update_map() appends a cell seen now or nothing, so the start still covers the map.
LEMMA GrownMapFits ==
    ASSUME ArtifactSafe, NEW clock \in {map.clock, map.clock + 1},
           NEW cells_seen \in {<<>>, <<clock>>}, NEW m,
           m = [count |-> map.count + 1, clock |-> clock, seen |-> map.seen \o cells_seen]
    PROVE  /\ m \in MapShape /\ m.clock <= m.count
           /\ \A w \in Writers : Covers(progress[w].first, m)
<1> USE DEF ArtifactSafe
<1>1. map.seen \in Seq(Nat) /\ map.clock \in Nat /\ map.count \in Nat /\ clock \in Nat
    BY DEF ArtifactShapes, MapShape
<1>2. cells_seen \in Seq(Nat)
    <2>1. <<>> \in Seq(Nat) /\ <<clock>> \in Seq(Nat)
        BY <1>1
    <2> QED BY <2>1
<1>3. m \in MapShape /\ m.clock <= m.count
    <2>1. map.seen \o cells_seen \in Seq(Nat)
        BY <1>1, <1>2
    <2>2. map.clock <= map.count
        BY DEF TimesAreOrdered
    <2> QED BY <1>1, <2>1, <2>2 DEF MapShape
<1>4. ASSUME NEW i \in DOMAIN m.seen
      PROVE  (i \in DOMAIN map.seen /\ m.seen[i] = map.seen[i]) \/ m.seen[i] = clock
    <2>1. CASE cells_seen = <<>>
        BY <1>1, <1>4, <2>1
    <2>2. CASE cells_seen = <<clock>>
        <3> DEFINE seen == map.seen
                   grown == m.seen
        <3>1. seen \in Seq(Nat) /\ i \in DOMAIN grown /\ grown = seen \o <<clock>>
            BY <1>1, <1>4, <2>2
        <3> HIDE DEF seen, grown
        <3>2. grown = Append(seen, clock)
            BY <1>1, <3>1
        <3>3. DOMAIN grown = 1..(Len(seen) + 1) /\ DOMAIN seen = 1..Len(seen)
            BY <1>1, <3>1, <3>2
        <3>4. (i \in DOMAIN seen /\ grown[i] = seen[i]) \/ grown[i] = clock
            BY <1>1, <3>1, <3>2, <3>3
        <3> QED BY <3>4 DEF seen, grown
    <2> QED BY <2>1, <2>2
<1>5. ASSUME NEW w \in Writers PROVE Covers(progress[w].first, m)
    <2>1. progress[w].first \in Int /\ progress[w].first <= clock
        <3>1. progress[w].first \in Nat \cup {Unset}
            BY DEF ArtifactShapes
        <3>2. progress[w].first <= map.clock
            BY DEF TimesAreOrdered
        <3> QED BY <1>1, <3>1, <3>2 DEF Unset
    <2>2. \A i \in DOMAIN map.seen : map.seen[i] \in Nat
        BY <1>1
    <2>3. \A i \in DOMAIN map.seen : /\ map.seen[i] <= clock
                                     /\ map.seen[i] # 0 => progress[w].first <= map.seen[i]
        <3>1. \A i \in DOMAIN map.seen : /\ map.seen[i] <= map.clock
                                         /\ map.seen[i] # 0 => progress[w].first <= map.seen[i]
            BY DEF TimesAreOrdered
        <3>2. map.clock <= clock
            BY <1>1
        <3>3. ASSUME NEW i \in DOMAIN map.seen PROVE map.seen[i] <= clock
            <4>1. map.seen[i] <= map.clock /\ map.seen[i] \in Nat
                BY <2>2, <3>1
            <4> QED BY <1>1, <3>2, <4>1
        <3> QED BY <3>1, <3>3
    <2>4. m.clock = clock
        OBVIOUS
    <2>5. ASSUME NEW i \in DOMAIN m.seen
          PROVE  m.seen[i] <= clock /\ (m.seen[i] # 0 => progress[w].first <= m.seen[i])
        <3>1. CASE i \in DOMAIN map.seen /\ m.seen[i] = map.seen[i]
            BY <2>3, <3>1
        <3>2. CASE m.seen[i] = clock
            <4>1. clock <= clock /\ progress[w].first <= clock
                BY <1>1, <2>1
            <4> QED BY <3>2, <4>1, Zenon
        <3> QED BY <1>4, <3>1, <3>2
    <2> QED BY <2>1, <2>4, <2>5 DEF Covers
<1> QED BY <1>3, <1>5

\* run_once(): the map grows, and a write begins or the files lag by less than allowed.
LEMMA UpdateMapSafe ==
    ASSUME ArtifactSafe, NEW clock \in {map.clock, map.clock + 1},
           NEW cells_seen \in {<<>>, <<clock>>}, update_map(clock, cells_seen)
    PROVE  ArtifactSafe'
<1> USE DEF ArtifactSafe
<1>1. /\ mission = "flying" /\ job = NoJob /\ map_updates < MaxMapUpdates
      /\ map' = [count |-> map.count + 1, clock |-> clock, seen |-> map.seen \o cells_seen]
      /\ map_updates' = map_updates + 1
      /\ UNCHANGED <<mission, enabled, run, disk, written, full, db_closed>>
    BY DEF update_map
<1>2. IF due("obstacle", map', FALSE) THEN write_snapshot("obstacle", map')
      ELSE UNCHANGED <<progress, job>>
    BY <1>1 DEF update_map
<1>3. /\ map' \in MapShape /\ map'.clock <= map'.count
      /\ \A w \in Writers : Covers(progress[w].first, map')
    BY <1>1, GrownMapFits
<1>4. /\ map.count \in Nat /\ map'.count = map.count + 1 /\ map_updates \in Nat
      /\ map_updates' \in 0..MaxMapUpdates /\ map'.count <= map_updates'
      /\ MaxMapUpdates \in Nat
    BY <1>1, ArtifactAssumption DEF ArtifactShapes, MapShape, TimesAreOrdered
<1>5. CASE due("obstacle", map', FALSE)
    BY <1>1, <1>2, <1>3, <1>4, <1>5, BeginsSafely DEF Writers, artifactFrame
<1>6. CASE ~due("obstacle", map', FALSE)
    <2>1. UNCHANGED <<progress, job>> /\ job.step = "none"
        BY <1>1, <1>2, <1>6, NothingFits
    <2>2. ArtifactShapes'
        BY <1>1, <1>3, <1>4, <2>1 DEF ArtifactShapes
    <2>3. TimesAreOrdered'
        <3>1. ASSUME NEW w \in Writers
              PROVE  progress[w].last <= map'.count /\ written[w] <= map'.count
            BY <1>4 DEF TimesAreOrdered, ArtifactShapes
        <3> QED BY <1>1, <1>3, <1>4, <2>1, <3>1 DEF TimesAreOrdered, Covers, Writers
    <2>4. DiskIsOfMaps'
        BY <1>1, <1>3, <1>4, DiskFitsLater
    <2>5. JobIsOfMap' /\ FinalIsLast' /\ NotedIsOnDisk' /\ WrittenMapHasPlace'
        BY <1>1, <2>1
           DEF JobIsOfMap, FinalIsLast, NotedIsOnDisk, WrittenMapHasPlace, HoldsWritten
    <2>6. ArtifactsAreWhole' /\ MetaFollowsMap'
        BY <1>1, <2>1 DEF ArtifactsAreWhole, MetaFollowsMap
    <2>7. ArtifactLagIsBounded'
        <3>1. "obstacle" \in enabled =>
                 progress["obstacle"].last # 0 /\ map'.count - progress["obstacle"].last < ArtifactEvery
            BY <1>4, <1>6, ArtifactAssumption DEF due, ArtifactShapes, Writers
        <3>2. progress["obstacle"].last \in Nat
            BY DEF ArtifactShapes, Writers
        <3>3. progress["obstacle"].last # 0 =>
                 /\ disk["obstacle"]["map"].target.run = run
                 /\ disk["obstacle"]["map"].target.count = progress["obstacle"].last
            BY <1>1, <3>2 DEF NotedIsOnDisk, Files
        <3> QED BY <1>1, <2>1, <3>1, <3>3 DEF ArtifactLagIsBounded
    <2> QED BY <2>2, <2>3, <2>4, <2>5, <2>6, <2>7
<1> QED BY <1>5, <1>6

\* finalize_mission_map_after_landing(): the last write begins, or the run is over.
LEMMA FinalizeSafe ==
    ASSUME ArtifactSafe, NEW drained \in {0, map.count}, finalize(drained)
    PROVE  ArtifactSafe'
<1> USE DEF ArtifactSafe
<1>1. /\ mission \in {"flying", "failed"} /\ job = NoJob
      /\ UNCHANGED <<mapFields, disk, written, full>>
    BY DEF finalize
<1> DEFINE m == [map EXCEPT !.count = drained]
<1>2. CASE due("traversability", m, TRUE)
    <2>1. drained = map.count /\ map.count \in Nat \ {0} /\ m = map
        BY <1>2 DEF due, ArtifactShapes, MapShape
    <2>2. write_snapshot("traversability", map')
        BY <1>1, <1>2, <2>1 DEF finalize, mapFields
    <2>3. mission' = "closing" /\ UNCHANGED db_closed
        BY <1>2 DEF finalize
    <2>4. \A w \in Writers : Covers(progress[w].first, map')
        BY <1>1 DEF TimesAreOrdered, Covers, mapFields
    <2>5. /\ map' = map /\ map \in MapShape /\ map_updates' = map_updates
          /\ map_updates \in 0..MaxMapUpdates /\ map_updates >= map_updates
          /\ map.count >= map.count /\ map.count > 0
          /\ map.clock <= map.count /\ map.count <= map_updates
        BY <1>1, <2>1 DEF ArtifactShapes, MapShape, TimesAreOrdered, mapFields
    <2> QED BY <1>1, <2>2, <2>3, <2>4, <2>5, BeginsSafely DEF Writers, artifactFrame, mapFields
<1>3. CASE ~due("traversability", m, TRUE)
    <2>1. mission' = "ended" /\ db_closed' = TRUE /\ UNCHANGED <<progress, job>>
        BY <1>3 DEF finalize
    <2>2. job.step = "none"
        BY <1>1, NothingFits
    <2> QED BY <1>1, <2>1, <2>2
            DEF mapFields, ArtifactShapes, TimesAreOrdered, DiskIsOfMaps, JobIsOfMap, FinalIsLast,
                NotedIsOnDisk, WrittenMapHasPlace, HoldsWritten, ArtifactsAreWhole,
                MetaFollowsMap, ArtifactLagIsBounded
<1> QED BY <1>2, <1>3

\* The system calls of atomic_write_text() before the rename: the text goes to the
\* temporary file, and the old file is touched only when the new text is there.
LEMMA CallSafe ==
    ASSUME ArtifactSafe, job.step \in {"open", "write", "remove"}, NEW s \in Steps \ {"open"},
           job' = [job EXCEPT !.step = s], UNCHANGED <<mapFields, mission, progress, written>>,
           db_closed' = db_closed, full' \in BOOLEAN, full => full',
           disk' \in [Writers -> [Files -> [target : Texts, tmp : Texts]]],
           \A w \in Writers, f \in Files :
              (w # job.writer \/ f # job.file) => disk'[w][f] = disk[w][f],
           LET old == disk[job.writer][job.file]  new == disk'[job.writer][job.file] IN
           /\ new.target \in {old.target, Nothing} /\ (s # "rename" => new.target = old.target)
           /\ new.tmp = old.tmp \/ Fits(new.tmp, run, map_updates, map.count)
           /\ s \in {"remove", "rename"} =>
                 SameText(new.tmp, job.text) /\ (full' \/ new.tmp.whole)
    PROVE  ArtifactSafe'
<1> USE DEF ArtifactSafe
<1> DEFINE old == disk[job.writer][job.file]
           new == disk'[job.writer][job.file]
<1>1. /\ job.writer \in Writers /\ job.file \in Files
      /\ run \in Nat \ {0} /\ map_updates \in Nat /\ map.count \in Nat
    BY DEF ArtifactShapes, MapShape
<1>2. /\ job'.writer = job.writer /\ job'.file = job.file /\ job'.text = job.text /\ job'.step = s
      /\ s \in {"write", "remove", "rename"}
    BY DEF ArtifactShapes, Steps
<1>3. job # NoJob /\ job' # NoJob /\ job.step # "none" /\ job'.step # "none"
    BY <1>2, NothingFits
<1>4. ArtifactShapes'
    <2>1. job' \in [writer : Writers, file : Files, step : Steps \cup {"none"}, text : Texts]
        BY DEF ArtifactShapes
    <2> QED BY <2>1 DEF ArtifactShapes, mapFields
<1>5. TimesAreOrdered' /\ FinalIsLast' /\ NotedIsOnDisk' /\ ArtifactLagIsBounded'
    BY <1>3 DEF TimesAreOrdered, FinalIsLast, NotedIsOnDisk, ArtifactLagIsBounded, mapFields
<1>6. DiskIsOfMaps'
    <2>1. /\ Fits(new.target, run, map_updates, map.count)
          /\ Fits(new.tmp, run, map_updates, map.count)
        BY <1>1, NothingFits DEF DiskIsOfMaps
    <2>2. ASSUME NEW w \in Writers, NEW f \in Files
          PROVE  /\ Fits(disk'[w][f].target, run, map_updates, map.count)
                 /\ Fits(disk'[w][f].tmp, run, map_updates, map.count)
        BY <2>1 DEF DiskIsOfMaps
    <2> QED BY <2>2 DEF DiskIsOfMaps, mapFields
<1>7. JobIsOfMap'
    <2>1. job.file = "meta" => disk'[job.writer]["map"] = disk[job.writer]["map"]
        BY <1>1 DEF Files
    <2> QED BY <1>2, <1>3, <2>1 DEF JobIsOfMap, mapFields
<1>8. WrittenMapHasPlace'
    <2>1. ASSUME ~full', NEW w \in Writers, written[w] > 0, w # job.writer \/ job.file # "map"
          PROVE  \/ HoldsWritten(w, disk[w]["map"].target)
                 \/ HoldsWritten(w, disk[w]["map"].tmp) /\ mission # "flying"
        BY <2>1 DEF WrittenMapHasPlace
    <2>2. ASSUME ~full', NEW w \in Writers, w # job.writer \/ job.file # "map"
          PROVE  disk'[w]["map"] = disk[w]["map"]
        BY <2>2 DEF Files
    <2>3. ASSUME ~full', written[job.writer] > 0, job.file = "map"
          PROVE  \/ HoldsWritten(job.writer, new.target)
                 \/ s = "rename" /\ HoldsWritten(job.writer, new.tmp)
        <3>1. HoldsWritten(job.writer, old.target)
            BY <1>1, <1>3, <2>3 DEF WrittenMapHasPlace
        <3>2. CASE s # "rename"
            BY <3>1, <3>2
        <3>3. CASE s = "rename"
            <4>1. new.tmp.run = run /\ new.tmp.count = map.count /\ new.tmp.whole
                BY <1>3, <2>3, <3>3 DEF JobIsOfMap, SameText
            <4>2. written[job.writer] <= map.count
                BY <1>1 DEF TimesAreOrdered
            <4> QED BY <1>1, <3>3, <4>1, <4>2 DEF HoldsWritten, ArtifactShapes
        <3> QED BY <3>2, <3>3
    <2>4. ASSUME NEW text, NEW w \in Writers, HoldsWritten(w, text)
          PROVE  text.run = run' /\ text.count >= written'[w] /\ text.whole
        BY <2>4 DEF HoldsWritten, mapFields
    <2>5. ASSUME ~full', NEW w \in Writers, written'[w] > 0
          PROVE  \/ HoldsWritten(w, disk[w]["map"].target)'
                 \/ /\ HoldsWritten(w, disk[w]["map"].tmp)'
                    /\ IF w = job.writer /\ job.file = "map" THEN s = "rename" ELSE mission # "flying"
        <3>1. CASE w # job.writer \/ job.file # "map"
            BY <2>1, <2>2, <2>4, <2>5, <3>1 DEF HoldsWritten
        <3>2. CASE w = job.writer /\ job.file = "map"
            BY <2>3, <2>4, <2>5, <3>2 DEF HoldsWritten
        <3> QED BY <3>1, <3>2
    <2> QED BY <1>2, <1>3, <2>5 DEF WrittenMapHasPlace
<1>9. ArtifactsAreWhole'
    BY NothingFits DEF ArtifactsAreWhole
<1>10. MetaFollowsMap'
    <2>1. ASSUME NEW w \in Writers, NEW f \in Files
          PROVE  disk'[w][f].target \in {disk[w][f].target, Nothing}
        BY <1>1
    <2>2. \A w \in Writers : LET text == disk'[w]["map"].target  meta == disk'[w]["meta"].target IN
             (OnDisk(text) /\ OnDisk(meta)) => Older(meta, text)
        BY <2>1, NothingFits DEF MetaFollowsMap, OnDisk, Files
    <2> QED BY <1>3, <2>2 DEF MetaFollowsMap
<1> QED BY <1>4, <1>5, <1>6, <1>7, <1>8, <1>9, <1>10

\* open_temp, write_temp and remove_target are such calls.
LEMMA CallsAreSafe ==
    ASSUME ArtifactSafe, NEW ok \in BOOLEAN, open_temp \/ write_temp(ok) \/ remove_target(ok)
    PROVE  ArtifactSafe'
<1> USE DEF ArtifactSafe
<1>1. job.text \in Texts /\ job.step # "none" => Fits(job.text, run, map_updates, map.count)
    BY DEF JobIsOfMap
<1>2. job.text \in Texts /\ job.writer \in Writers /\ job.file \in Files
    BY DEF ArtifactShapes
<1>3. ASSUME NEW b \in BOOLEAN
      PROVE  LET c == [job.text EXCEPT !.whole = b] IN
             /\ c \in Texts /\ SameText(c, job.text) /\ c.whole = b
             /\ job.step # "none" => Fits(c, run, map_updates, map.count)
    BY <1>1, <1>2 DEF Texts, SameText, Fits
<1>4. CASE open_temp
    <2>1. /\ job.step = "open" /\ job' = [job EXCEPT !.step = "write"]
          /\ Put("tmp", [job.text EXCEPT !.whole = FALSE])
          /\ UNCHANGED <<mapFields, mission, progress, written, full, db_closed>>
        BY <1>4 DEF open_temp, Advance, After
    <2>2. [job.text EXCEPT !.whole = FALSE] \in Texts
        BY <1>3
    <2>3. /\ disk' \in [Writers -> [Files -> [target : Texts, tmp : Texts]]]
          /\ \A w \in Writers, f \in Files :
                (w # job.writer \/ f # job.file) => disk'[w][f] = disk[w][f]
          /\ disk'[job.writer][job.file].tmp = [job.text EXCEPT !.whole = FALSE]
          /\ disk'[job.writer][job.file].target = disk[job.writer][job.file].target
        BY <2>1, <2>2, PutFacts
    <2>4. "write" \in Steps \ {"open"} /\ full \in BOOLEAN
        BY DEF ArtifactShapes, Steps
    <2>5. Fits(disk'[job.writer][job.file].tmp, run, map_updates, map.count)
        BY <1>3, <2>1, <2>3
    <2> QED BY <2>1, <2>3, <2>4, <2>5, CallSafe
<1>5. CASE write_temp(ok)
    <2>1. /\ job.step = "write" /\ job' = [job EXCEPT !.step = "remove"]
          /\ Put("tmp", [job.text EXCEPT !.whole = ok]) /\ full' = (full \/ ~ok)
          /\ UNCHANGED <<mapFields, mission, progress, written, db_closed>>
        BY <1>5 DEF write_temp, Advance, After
    <2>2. [job.text EXCEPT !.whole = ok] \in Texts
        BY <1>3
    <2>3. /\ disk' \in [Writers -> [Files -> [target : Texts, tmp : Texts]]]
          /\ \A w \in Writers, f \in Files :
                (w # job.writer \/ f # job.file) => disk'[w][f] = disk[w][f]
          /\ disk'[job.writer][job.file].tmp = [job.text EXCEPT !.whole = ok]
          /\ disk'[job.writer][job.file].target = disk[job.writer][job.file].target
        BY <2>1, <2>2, PutFacts
    <2>4. "remove" \in Steps \ {"open"} /\ full' \in BOOLEAN /\ (full => full')
        BY <2>1 DEF ArtifactShapes, Steps
    <2>5. /\ Fits(disk'[job.writer][job.file].tmp, run, map_updates, map.count)
          /\ SameText(disk'[job.writer][job.file].tmp, job.text)
          /\ full' \/ disk'[job.writer][job.file].tmp.whole
        BY <1>3, <2>1, <2>3
    <2> QED BY <2>1, <2>3, <2>4, <2>5, CallSafe
<1>6. CASE remove_target(ok)
    <2>1. /\ job.step = "remove" /\ job' = [job EXCEPT !.step = "rename"]
          /\ IF ok THEN Put("target", Nothing) ELSE UNCHANGED disk
          /\ UNCHANGED <<mapFields, mission, progress, written, full, db_closed>>
        BY <1>6 DEF remove_target, Advance, After
    <2>2. /\ SameText(disk[job.writer][job.file].tmp, job.text)
          /\ full \/ disk[job.writer][job.file].tmp.whole
        BY <2>1 DEF JobIsOfMap
    <2>3. /\ disk' \in [Writers -> [Files -> [target : Texts, tmp : Texts]]]
          /\ \A w \in Writers, f \in Files :
                (w # job.writer \/ f # job.file) => disk'[w][f] = disk[w][f]
          /\ disk'[job.writer][job.file].tmp = disk[job.writer][job.file].tmp
          /\ disk'[job.writer][job.file].target \in {disk[job.writer][job.file].target, Nothing}
        <3>1. CASE ok
            BY <2>1, <3>1, NothingFits, PutFacts
        <3>2. CASE ~ok
            BY <2>1, <3>2 DEF ArtifactShapes
        <3> QED BY <3>1, <3>2
    <2>4. "rename" \in Steps \ {"open"} /\ full \in BOOLEAN
        BY DEF ArtifactShapes, Steps
    <2> QED BY <2>1, <2>2, <2>3, <2>4, CallSafe
<1> QED BY <1>4, <1>5, <1>6

\* The rename puts the text of the write in place.
LEMMA RenameFacts ==
    ASSUME ArtifactSafe, rename_temp
    PROVE  LET w == job.writer  f == job.file  new == disk'[job.writer][job.file] IN
           /\ w \in Writers /\ f \in Files /\ job.step = "rename"
           /\ disk' \in [Writers -> [Files -> [target : Texts, tmp : Texts]]]
           /\ \A v \in Writers, g \in Files : (v # w \/ g # f) => disk'[v][g] = disk[v][g]
           /\ new.target = disk[w][f].tmp /\ new.tmp = Nothing
           /\ new.target.run = run /\ new.target.count = map.count
           /\ full \/ new.target.whole
           /\ UNCHANGED <<mapFields, full>>
           /\ DiskIsOfMaps'
<1> USE DEF ArtifactSafe
<1> DEFINE w == job.writer
           f == job.file
           file == [target |-> disk[w][f].tmp, tmp |-> Nothing]
<1>1. /\ w \in Writers /\ f \in Files /\ job.step = "rename"
      /\ run \in Nat \ {0} /\ map_updates \in Nat /\ map.count \in Nat
    BY DEF rename_temp, ArtifactShapes, MapShape
<1>2. disk[w][f].tmp \in Texts
    BY <1>1 DEF ArtifactShapes
<1>3. file \in [target : Texts, tmp : Texts]
    BY <1>2, NothingFits
<1>4. disk' = [disk EXCEPT ![w] = [disk[w] EXCEPT ![f] = file]]
    BY DEF rename_temp
<1>5. disk[w][f].tmp.run = run /\ disk[w][f].tmp.count = map.count /\ (full \/ disk[w][f].tmp.whole)
    BY <1>1 DEF JobIsOfMap, SameText
<1>6. UNCHANGED <<mapFields, full>>
    BY DEF rename_temp
<1>7. file.target = disk[w][f].tmp /\ file.tmp = Nothing
    OBVIOUS
<1>8. /\ Fits(file.target, run, map_updates, map.count)
      /\ Fits(file.tmp, run, map_updates, map.count)
    BY <1>1, NothingFits DEF DiskIsOfMaps
<1> HIDE DEF file, w, f
<1>9. /\ disk' \in [Writers -> [Files -> [target : Texts, tmp : Texts]]]
      /\ \A v \in Writers, g \in Files : (v # w \/ g # f) => disk'[v][g] = disk[v][g]
      /\ disk'[w][f] = file
    BY <1>1, <1>3, <1>4 DEF ArtifactShapes
<1>10. ASSUME NEW v \in Writers, NEW g \in Files
       PROVE  /\ Fits(disk'[v][g].target, run, map_updates, map.count)
              /\ Fits(disk'[v][g].tmp, run, map_updates, map.count)
    BY <1>8, <1>9 DEF DiskIsOfMaps
<1>11. DiskIsOfMaps'
    BY <1>6, <1>10 DEF DiskIsOfMaps, mapFields
<1> QED BY <1>1, <1>5, <1>6, <1>7, <1>9, <1>11 DEF w, f

\* After the map its meta file is written, ...
LEMMA RenameMapSafe ==
    ASSUME ArtifactSafe, rename_temp, job.file = "map"
    PROVE  ArtifactSafe'
<1> USE DEF ArtifactSafe
<1> DEFINE w == job.writer
           new == disk'[w]["map"]
<1>1. /\ w \in Writers /\ job.step = "rename"
      /\ disk' \in [Writers -> [Files -> [target : Texts, tmp : Texts]]]
      /\ \A v \in Writers, g \in Files : (v # w \/ g # "map") => disk'[v][g] = disk[v][g]
      /\ new.target = disk[w]["map"].tmp /\ new.tmp = Nothing
      /\ new.target.run = run /\ new.target.count = map.count
      /\ full \/ new.target.whole
      /\ UNCHANGED <<mapFields, full>> /\ DiskIsOfMaps'
    BY RenameFacts
<1>2. (CHOOSE f \in Files : f # "map") = "meta"
    BY DEF Files
<1>3. /\ job' = [job EXCEPT !.file = "meta", !.step = "open"]
      /\ written' = [written EXCEPT ![w] = job.text.count]
      /\ UNCHANGED <<progress, mission, db_closed>>
    BY <1>2 DEF rename_temp, starts_with
<1>4. /\ job'.writer = w /\ job'.file = "meta" /\ job'.step = "open" /\ job'.text = job.text
      /\ job' \in [writer : Writers, file : Files, step : Steps \cup {"none"}, text : Texts]
    BY <1>3 DEF ArtifactShapes, Files, Steps
<1>5. job.step # "none" /\ job # NoJob /\ job' # NoJob /\ job.text.count = map.count
    BY <1>1, <1>4, NothingFits DEF JobIsOfMap
<1>6. map.count \in Nat /\ written' \in [Writers -> Nat] /\ written'[w] = map.count
      /\ \A v \in Writers \ {w} : written'[v] = written[v]
    BY <1>1, <1>3, <1>5 DEF ArtifactShapes, MapShape
<1>7. ArtifactShapes'
    BY <1>1, <1>3, <1>4, <1>6 DEF ArtifactShapes, mapFields
<1>8. TimesAreOrdered'
    <2>1. \A v \in Writers : written'[v] <= map.count
        BY <1>6 DEF TimesAreOrdered
    <2> QED BY <1>1, <1>3, <2>1 DEF TimesAreOrdered, mapFields
<1>9. JobIsOfMap'
    BY <1>1, <1>3, <1>4, <1>5 DEF JobIsOfMap, mapFields
<1>10. FinalIsLast'
    BY <1>3, <1>5, <1>6 DEF FinalIsLast, JobIsOfMap, Writers
<1>11. NotedIsOnDisk' /\ ArtifactLagIsBounded'
    BY <1>5 DEF NotedIsOnDisk, ArtifactLagIsBounded
<1>12. WrittenMapHasPlace'
    <2>1. ASSUME ~full, NEW v \in Writers, written'[v] > 0
          PROVE  \/ HoldsWritten(v, disk[v]["map"].target)'
                 \/ HoldsWritten(v, disk[v]["map"].tmp)' /\ mission' # "flying"
        <3>1. CASE v = w
            BY <1>1, <1>6, <2>1, <3>1 DEF HoldsWritten, mapFields
        <3>2. CASE v # w
            BY <1>1, <1>3, <1>6, <2>1, <3>2 DEF WrittenMapHasPlace, HoldsWritten, mapFields, Files
        <3> QED BY <3>1, <3>2
    <2> QED BY <1>1, <1>4, <2>1 DEF WrittenMapHasPlace
<1>13. ArtifactsAreWhole'
    BY <1>1 DEF ArtifactsAreWhole
<1>14. MetaFollowsMap'
    <2>1. ASSUME NEW v \in Writers
          PROVE  LET text == disk'[v]["map"].target  meta == disk'[v]["meta"].target IN
                 (OnDisk(text) /\ OnDisk(meta)) => Older(meta, text)
        <3>1. CASE v = w
            <4>1. disk'[w]["meta"] = disk[w]["meta"]
                BY <1>1 DEF Files
            <4>2. Fits(disk[w]["meta"].target, run, map_updates, map.count)
                BY <1>1 DEF DiskIsOfMaps, Files
            <4>3. disk[w]["meta"].target \in Texts /\ run \in Nat
                BY <1>1 DEF ArtifactShapes, Files
            <4>4. disk[w]["meta"].target.run \in Nat /\ disk[w]["meta"].target.count \in Nat
                BY <4>3 DEF Texts
            <4>5. /\ disk[w]["meta"].target.run <= run
                  /\ disk[w]["meta"].target.run = run => disk[w]["meta"].target.count <= map.count
                BY <4>2 DEF Fits
            <4>6. disk'[w]["map"].target.run = run /\ disk'[w]["map"].target.count = map.count
                BY <1>1
            <4>7. Older(disk[w]["meta"].target, disk'[w]["map"].target)
                BY <1>6, <4>3, <4>4, <4>5, <4>6 DEF Older
            <4> QED BY <3>1, <4>1, <4>7
        <3>2. CASE v # w
            BY <1>1, <3>2 DEF MetaFollowsMap, Files
        <3> QED BY <3>1, <3>2
    <2> QED BY <1>5, <2>1 DEF MetaFollowsMap
<1> QED BY <1>1, <1>7, <1>8, <1>9, <1>10, <1>11, <1>12, <1>13, <1>14

\* ... and after the meta file the writer notes what it wrote.
LEMMA RenameMetaSafe ==
    ASSUME ArtifactSafe, rename_temp, job.file = "meta"
    PROVE  ArtifactSafe'
<1> USE DEF ArtifactSafe
<1> DEFINE w == job.writer
           new == disk'[w]["meta"]
<1>1. /\ w \in Writers /\ job.step = "rename"
      /\ disk' \in [Writers -> [Files -> [target : Texts, tmp : Texts]]]
      /\ \A v \in Writers, g \in Files : (v # w \/ g # "meta") => disk'[v][g] = disk[v][g]
      /\ new.target = disk[w]["meta"].tmp /\ new.tmp = Nothing
      /\ new.target.run = run /\ new.target.count = map.count
      /\ full \/ new.target.whole
      /\ UNCHANGED <<mapFields, full>> /\ DiskIsOfMaps'
    BY RenameFacts
<1>2. \A v \in Writers : disk'[v]["map"] = disk[v]["map"]
    BY <1>1 DEF Files
<1>3. job' = NoJob /\ written' = written
      /\ progress' = [progress EXCEPT ![w].last = job.text.count]
      /\ IF w = "traversability" THEN mission' = "ended" /\ db_closed' = TRUE
         ELSE UNCHANGED <<mission, db_closed>>
    BY DEF rename_temp, starts_with, noted
<1>4. /\ job.text.count = map.count /\ map.count \in Nat \ {0}
      /\ disk[w]["map"].target.run = run /\ disk[w]["map"].target.count = map.count
      /\ mission = IF w = "obstacle" THEN "flying" ELSE "closing"
    BY <1>1 DEF JobIsOfMap, ArtifactShapes, MapShape
<1>5. /\ progress' \in [Writers -> [last : Nat, first : Nat \cup {Unset}]]
      /\ progress'[w].last = map.count
      /\ \A v \in Writers : progress'[v].first = progress[v].first
      /\ \A v \in Writers \ {w} : progress'[v] = progress[v]
    BY <1>1, <1>3, <1>4 DEF ArtifactShapes
<1>6. mission' = "flying" => w = "obstacle" /\ mission = "flying"
    BY <1>1, <1>3, <1>4 DEF Writers
<1>7. job'.step = "none"
    BY <1>3, NothingFits
<1>8. ArtifactShapes'
    BY <1>1, <1>3, <1>5, NothingFits DEF ArtifactShapes, mapFields
<1>9. TimesAreOrdered'
    <2>1. \A v \in Writers : progress'[v].last <= map.count
        BY <1>4, <1>5 DEF TimesAreOrdered
    <2> QED BY <1>1, <1>3, <1>5, <2>1 DEF TimesAreOrdered, mapFields
<1>10. JobIsOfMap'
    BY <1>3, <1>7 DEF JobIsOfMap
<1>11. FinalIsLast'
    BY <1>3, <1>4, <1>5, <1>6 DEF FinalIsLast, Writers
<1>12. NotedIsOnDisk' /\ ArtifactLagIsBounded'
    BY <1>1, <1>2, <1>4, <1>5, <1>6, ArtifactAssumption
       DEF NotedIsOnDisk, ArtifactLagIsBounded, mapFields, Files
<1>13. WrittenMapHasPlace'
    BY <1>1, <1>2, <1>3, <1>4, <1>7
       DEF WrittenMapHasPlace, HoldsWritten, mapFields
<1>14. ArtifactsAreWhole'
    BY <1>1 DEF ArtifactsAreWhole
<1>15. MetaFollowsMap'
    <2>1. ASSUME NEW v \in Writers
          PROVE  LET text == disk'[v]["map"].target  meta == disk'[v]["meta"].target IN
                 (OnDisk(text) /\ OnDisk(meta)) => Older(meta, text)
        <3>1. CASE v = w
            BY <1>1, <1>2, <1>4, <3>1 DEF Older
        <3>2. CASE v # w
            BY <1>1, <1>2, <3>2 DEF MetaFollowsMap, Files
        <3> QED BY <3>1, <3>2
    <2>2. ASSUME NEW v \in Writers, mission' = "flying", progress'[v].last > 0
          PROVE  disk'[v]["meta"].target.run = run'
                 /\ disk'[v]["meta"].target.count = disk'[v]["map"].target.count
        <3>1. v = w
            BY <1>4, <1>5, <1>6, <2>2 DEF FinalIsLast, Writers
        <3> QED BY <1>1, <1>2, <1>4, <3>1 DEF mapFields
    <2> QED BY <2>1, <2>2 DEF MetaFollowsMap
<1> QED BY <1>1, <1>8, <1>9, <1>10, <1>11, <1>12, <1>13, <1>14, <1>15

\* An exception or a kill leaves the files as they are.
LEMMA InterruptionSafe ==
    ASSUME ArtifactSafe, write_throws \/ crash
    PROVE  ArtifactSafe'
<1> USE DEF ArtifactSafe
<1>1. /\ job' = NoJob /\ UNCHANGED <<mapFields, progress, disk, written, full, db_closed>>
      /\ mission' \in {"failed", "ended", "crashed"}
    BY DEF write_throws, crash
<1>2. mission' = "failed" => mission = "flying"
    BY DEF write_throws, crash
<1>3. job'.step = "none" /\ mission' # "flying"
    BY <1>1, NothingFits
<1>4. ArtifactShapes'
    BY <1>1, NothingFits DEF ArtifactShapes, mapFields
<1>5. TimesAreOrdered' /\ DiskIsOfMaps' /\ JobIsOfMap'
    BY <1>1, <1>3 DEF TimesAreOrdered, DiskIsOfMaps, JobIsOfMap, mapFields
<1>6. FinalIsLast'
    BY <1>1, <1>2 DEF FinalIsLast
<1>7. NotedIsOnDisk' /\ ArtifactsAreWhole' /\ MetaFollowsMap' /\ ArtifactLagIsBounded'
    BY <1>1, <1>3
       DEF NotedIsOnDisk, ArtifactsAreWhole, MetaFollowsMap, ArtifactLagIsBounded
<1>8. WrittenMapHasPlace'
    BY <1>1, <1>3 DEF WrittenMapHasPlace, HoldsWritten, mapFields
<1> QED BY <1>4, <1>5, <1>6, <1>7, <1>8

\* The next run finds texts of earlier runs only.
LEMMA RestartSafe ==
    ASSUME ArtifactSafe, restart
    PROVE  ArtifactSafe'
<1> USE DEF ArtifactSafe
<1>1. /\ mission \in {"ended", "crashed"} /\ run < MaxRuns
      /\ mission' = "flying" /\ run' = run + 1
      /\ map' = [count |-> 0, clock |-> 0, seen |-> <<>>]
      /\ progress' = [w \in Writers |-> [last |-> 0, first |-> Unset]]
      /\ written' = [w \in Writers |-> 0] /\ db_closed' = FALSE
      /\ UNCHANGED <<enabled, map_updates, job, disk, full>>
    BY DEF restart
<1>2. job.step = "none" /\ job = NoJob
    BY <1>1 DEF JobIsOfMap
<1>3. /\ run \in Nat /\ map_updates \in Nat /\ map.count \in Nat /\ run + 1 \in 1..MaxRuns
    BY <1>1, ArtifactAssumption DEF ArtifactShapes, MapShape
<1>4. map' \in MapShape /\ DOMAIN map'.seen = {} /\ map'.count = 0 /\ map'.clock = 0
    <2>1. <<>> \in Seq(Nat) /\ DOMAIN <<>> = {}
        OBVIOUS
    <2> QED BY <1>1, <2>1 DEF MapShape
<1>5. ArtifactShapes'
    BY <1>1, <1>3, <1>4 DEF ArtifactShapes
<1>6. TimesAreOrdered'
    BY <1>1, <1>3, <1>4 DEF TimesAreOrdered, Unset
<1>7. DiskIsOfMaps'
    <2>1. ASSUME NEW w \in Writers, NEW f \in Files
          PROVE  /\ Fits(disk[w][f].target, run + 1, map_updates, 0)
                 /\ Fits(disk[w][f].tmp, run + 1, map_updates, 0)
        <3>1. disk[w][f].target \in Texts /\ disk[w][f].tmp \in Texts
            BY DEF ArtifactShapes
        <3>2. /\ Fits(disk[w][f].target, run, map_updates, map.count)
              /\ Fits(disk[w][f].tmp, run, map_updates, map.count)
            BY DEF DiskIsOfMaps
        <3> QED BY <1>3, <3>1, <3>2, FitsNextRun
    <2> QED BY <1>1, <1>4, <2>1 DEF DiskIsOfMaps
<1>8. JobIsOfMap' /\ FinalIsLast'
    BY <1>1, <1>2 DEF JobIsOfMap, FinalIsLast, Writers
<1>9. NotedIsOnDisk' /\ ArtifactLagIsBounded' /\ WrittenMapHasPlace' /\ ArtifactsAreWhole'
    BY <1>1, <1>4
       DEF NotedIsOnDisk, ArtifactLagIsBounded, WrittenMapHasPlace, ArtifactsAreWhole, Writers
<1>10. MetaFollowsMap'
    BY <1>1 DEF MetaFollowsMap
<1> QED BY <1>5, <1>6, <1>7, <1>8, <1>9, <1>10

\* No files and nothing written: the first run starts safely.
LEMMA ArtifactSafeInit == ArtifactInit => ArtifactSafe
<1> SUFFICES ASSUME ArtifactInit PROVE ArtifactSafe
    OBVIOUS
<1> USE DEF ArtifactInit
<1>1. map \in MapShape /\ DOMAIN map.seen = {} /\ map.count = 0 /\ map.clock = 0
    <2>1. <<>> \in Seq(Nat) /\ DOMAIN <<>> = {}
        OBVIOUS
    <2> QED BY <2>1 DEF MapShape
<1>2. ArtifactShapes
    <2>1. enabled \subseteq Writers
        BY DEF from_environment, Writers
    <2>2. run \in 1..MaxRuns /\ map_updates \in 0..MaxMapUpdates
        BY ArtifactAssumption
    <2>3. progress \in [Writers -> [last : Nat, first : Nat \cup {Unset}]]
        OBVIOUS
    <2>4. disk \in [Writers -> [Files -> [target : Texts, tmp : Texts]]]
        BY NothingFits
    <2> QED BY <1>1, <2>1, <2>2, <2>3, <2>4, NothingFits DEF ArtifactShapes
<1>3. TimesAreOrdered
    BY <1>1 DEF TimesAreOrdered, Unset
<1>4. DiskIsOfMaps
    BY <1>1, NothingFits DEF DiskIsOfMaps
<1>5. JobIsOfMap /\ FinalIsLast /\ NotedIsOnDisk /\ WrittenMapHasPlace
    BY NothingFits DEF JobIsOfMap, FinalIsLast, NotedIsOnDisk, WrittenMapHasPlace, Writers
<1>6. ArtifactsAreWhole /\ MetaFollowsMap /\ ArtifactLagIsBounded
    BY <1>1, NothingFits
       DEF ArtifactsAreWhole, MetaFollowsMap, ArtifactLagIsBounded, OnDisk, Files, Writers
<1> QED BY <1>2, <1>3, <1>4, <1>5, <1>6 DEF ArtifactSafe

\* However often the process dies between two system calls of atomic_write_text(), in
\* however many runs: artifacts are whole, the last map survives, meta files fit, the
\* lag is bounded and the start covers the cells.
THEOREM ArtifactsStaySound == ArtifactSpec => []ArtifactsAreSound
<1>1. ArtifactSafe /\ [ArtifactNext \/ ArtifactDone]_artifactVars => ArtifactSafe'
    <2>1. ASSUME ArtifactSafe, ArtifactNext PROVE ArtifactSafe'
        <3>1. CASE rename_temp
            <4>1. job.file \in {"map", "meta"}
                BY <2>1 DEF ArtifactSafe, ArtifactShapes, Files
            <4> QED BY <2>1, <3>1, <4>1, RenameMapSafe, RenameMetaSafe
        <3>2. CASE \E clock \in {map.clock, map.clock + 1} : \E cells_seen \in {<<>>, <<clock>>} :
                      update_map(clock, cells_seen)
            BY <2>1, <3>2, UpdateMapSafe
        <3>3. CASE \E drained \in {0, map.count} : finalize(drained)
            BY <2>1, <3>3, FinalizeSafe
        <3>4. CASE open_temp \/ \E ok \in BOOLEAN : write_temp(ok) \/ remove_target(ok)
            BY <2>1, <3>4, CallsAreSafe
        <3> QED BY <2>1, <3>1, <3>2, <3>3, <3>4, InterruptionSafe, RestartSafe DEF ArtifactNext
    <2>2. ASSUME ArtifactSafe, UNCHANGED artifactVars PROVE ArtifactSafe'
        <3> USE DEF ArtifactSafe
        <3>1. UNCHANGED <<enabled, run, map_updates, map, mission, progress, job, disk, written,
                          full, db_closed>>
            BY <2>2 DEF artifactVars, mapFields
        <3>2. ArtifactShapes' /\ TimesAreOrdered'
            BY <2>2, <3>1 DEF ArtifactShapes, TimesAreOrdered
        <3>3. DiskIsOfMaps' /\ JobIsOfMap'
            BY <2>2, <3>1 DEF DiskIsOfMaps, JobIsOfMap
        <3>4. FinalIsLast' /\ NotedIsOnDisk'
            BY <2>2, <3>1 DEF FinalIsLast, NotedIsOnDisk
        <3>5. WrittenMapHasPlace'
            BY <2>2, <3>1 DEF WrittenMapHasPlace, HoldsWritten
        <3>6. ArtifactsAreWhole' /\ MetaFollowsMap' /\ ArtifactLagIsBounded'
            BY <2>2, <3>1 DEF ArtifactsAreWhole, MetaFollowsMap, ArtifactLagIsBounded
        <3> QED BY <3>2, <3>3, <3>4, <3>5, <3>6
    <2> QED BY <2>1, <2>2 DEF ArtifactDone
<1> QED BY <1>1, ArtifactSafeInit, ArtifactSafeIsSound, PTL DEF ArtifactSpec

-----------------------------------------------------------------------------
(* The profile. *)

\* s is a sequence, of whatever values: what the stages add up to is left open.
IsSeq(s) == s \in Seq({s[i] : i \in DOMAIN s})

\* A stream that works has a whole line for every frame but the open one; when it fails
\* the program is leaving its loop and the frame stays open.
LinesFollowFrames ==
    /\ app \in {"run", "unwinding", "ended"} /\ begun \in Nat
    /\ frameOpen \in BOOLEAN /\ failed \in BOOLEAN /\ IsSeq(lines)
    /\ app = "run" => ~failed
    /\ failed => begun - Len(lines) \in {0, 1}
    /\ ~failed => /\ Len(lines) = (IF frameOpen THEN begun - 1 ELSE begun)
                  /\ \A i \in DOMAIN lines : lines[i].whole
    /\ app = "ended" /\ ~failed => ~frameOpen
    /\ \A i \in DOMAIN lines : lines[i].id = i /\ (~lines[i].whole => i = Len(lines))

\* The inductive invariant.
ProfileSafe == /\ LinesFollowFrames /\ StatsAreOfLastFrames
               /\ count \in Nat /\ IsSeq(ring) /\ IsSeq(totals)

\* The empty sequence is one, and appending works as it should.
LEMMA SequenceFacts ==
    /\ IsSeq(<<>>) /\ Len(<<>>) = 0
    /\ \A s : IsSeq(s) => Len(s) \in Nat /\ DOMAIN s = 1..Len(s)
    /\ \A s, x : IsSeq(s) =>
          /\ IsSeq(Append(s, x)) /\ Len(Append(s, x)) = Len(s) + 1
          /\ Append(s, x)[Len(s) + 1] = x
          /\ \A i \in 1..Len(s) : Append(s, x)[i] = s[i]
<1>1. IsSeq(<<>>) /\ Len(<<>>) = 0
    BY DEF IsSeq
<1>2. ASSUME NEW s, IsSeq(s) PROVE Len(s) \in Nat /\ DOMAIN s = 1..Len(s)
    BY <1>2 DEF IsSeq
<1>3. ASSUME NEW s, NEW x, IsSeq(s)
      PROVE  /\ IsSeq(Append(s, x)) /\ Len(Append(s, x)) = Len(s) + 1
             /\ Append(s, x)[Len(s) + 1] = x
             /\ \A i \in 1..Len(s) : Append(s, x)[i] = s[i]
    <2> DEFINE S == {s[i] : i \in DOMAIN s} \cup {x}
               t == Append(s, x)
    <2>1. s \in Seq(S) /\ x \in S
        <3>1. s \in Seq({s[i] : i \in DOMAIN s})
            BY <1>3 DEF IsSeq
        <3> QED BY <3>1
    <2> HIDE DEF S
    <2>2. /\ t \in Seq(S) /\ Len(t) = Len(s) + 1 /\ t[Len(s) + 1] = x
          /\ \A i \in 1..Len(s) : t[i] = s[i]
        BY <2>1
    <2>3. IsSeq(t)
        <3>1. Len(t) \in Nat /\ DOMAIN t = 1..Len(t) /\ t = [i \in 1..Len(t) |-> t[i]]
            BY <2>2, LenProperties
        <3> DEFINE R == {t[i] : i \in DOMAIN t}
        <3>2. t \in [1..Len(t) -> R]
            BY <3>1
        <3> HIDE DEF R, t
        <3>3. t \in Seq(R)
            BY <3>1, <3>2, SeqDef
        <3> QED BY <3>3 DEF IsSeq, R
    <2> QED BY <2>2, <2>3
<1> QED BY <1>1, <1>2, <1>3

\* Indices less than a window apart have different places in the ring.
LEMMA RingPlaces ==
    ASSUME NEW W \in Nat \ {0}, NEW a \in Nat
    PROVE  /\ a % W \in 0..(W - 1)
           /\ a < W => a % W = a
           /\ \A b \in Nat : a < b /\ b - a < W => a % W # b % W
<1>1. a % W \in 0..(W - 1) /\ (a < W => a % W = a)
    OBVIOUS
<1>2. ASSUME NEW b \in Nat, a < b, b - a < W, a % W = b % W PROVE FALSE
    <2>1. a = W * (a \div W) + (a % W) /\ (a \div W) \in Nat
        OBVIOUS
    <2>2. b = W * (b \div W) + (b % W) /\ (b \div W) \in Nat
        OBVIOUS
    <2> DEFINE p == b \div W
               q == a \div W
    <2>3. W * p - W * q = b - a /\ p \in Int /\ q \in Int
        BY <1>2, <2>1, <2>2
    <2> HIDE DEF p, q
    <2>4. W * p - W * q < W /\ W * p - W * q > 0
        BY <1>2, <2>3
    <2> QED BY <2>3, <2>4
<1> QED BY <1>1, <1>2

\* Roll() keeps the totals of the last frames, each in its place.
LEMMA RollKeepsLast ==
    ASSUME ProfileSafe, NEW total, Roll(total), totals' = Append(totals, total)
    PROVE  StatsAreOfLastFrames' /\ count' \in Nat /\ IsSeq(ring)' /\ IsSeq(totals)'
<1> DEFINE W == StatsWindow
<1>1. W \in Nat \ {0} /\ count \in Nat /\ count' = count + 1 /\ count = Len(totals)
    BY ProfileAssumption DEF Roll, ProfileSafe, StatsAreOfLastFrames
<1>2. /\ IsSeq(totals') /\ Len(totals') = count + 1 /\ totals'[count + 1] = total
      /\ \A i \in 1..count : totals'[i] = totals[i]
      /\ DOMAIN totals' = 1..(count + 1) /\ DOMAIN totals = 1..count
    BY <1>1, SequenceFacts DEF ProfileSafe
<1>3. /\ IsSeq(ring) /\ Len(ring) = (IF count < W THEN count ELSE W) /\ DOMAIN ring = 1..Len(ring)
      /\ \A i \in 1..count : i > count - W => ring[((i - 1) % W) + 1] = totals[i]
    BY <1>2, SequenceFacts DEF ProfileSafe, StatsAreOfLastFrames
<1>4. ring' = IF Len(ring) < W THEN Append(ring, total)
              ELSE [ring EXCEPT ![(count % W) + 1] = total]
    BY DEF Roll
<1> HIDE DEF W
<1>5. SUFFICES /\ IsSeq(ring') /\ Len(ring') = (IF count + 1 < W THEN count + 1 ELSE W)
               /\ \A i \in 1..(count + 1) :
                     i > count + 1 - W => ring'[((i - 1) % W) + 1] = totals'[i]
    BY <1>1, <1>2 DEF StatsAreOfLastFrames, W
<1>6. CASE count < W
    <2>1. /\ IsSeq(ring') /\ Len(ring') = count + 1 /\ ring'[count + 1] = total
          /\ \A i \in 1..count : ring'[i] = ring[i]
        BY <1>1, <1>3, <1>4, <1>6, SequenceFacts
    <2>2. ASSUME NEW i \in 1..(count + 1) PROVE ring'[((i - 1) % W) + 1] = totals'[i]
        <3>1. i - 1 \in Nat /\ i - 1 < W /\ i \in Nat
            BY <1>1, <1>6
        <3>2. (i - 1) % W = i - 1
            BY <1>1, <3>1, RingPlaces
        <3>3. ((i - 1) % W) + 1 = i
            BY <3>1, <3>2
        <3>4. CASE i = count + 1
            BY <1>2, <2>1, <3>3, <3>4
        <3>5. CASE i \in 1..count
            <4>1. i > count - W
                BY <1>1, <1>6, <3>5
            <4> QED BY <1>2, <1>3, <2>1, <3>3, <3>5, <4>1
        <3> QED BY <1>1, <3>4, <3>5
    <2>3. Len(ring') = (IF count + 1 < W THEN count + 1 ELSE W)
        BY <1>1, <1>6, <2>1
    <2> QED BY <2>1, <2>2, <2>3
<1>7. CASE count >= W
    <2> DEFINE at == (count % W) + 1
    <2>1. count % W \in 0..(W - 1)
        BY <1>1, RingPlaces
    <2>2. at \in 1..W /\ Len(ring) = W /\ ring' = [ring EXCEPT ![at] = total]
        BY <1>1, <1>3, <1>4, <1>7, <2>1
    <2>3. /\ ring = [j \in 1..W |-> ring[j]] /\ DOMAIN ring = 1..W
        BY <1>3, <2>2, LenProperties DEF IsSeq
    <2> HIDE DEF at
    <2>4. /\ ring'[at] = total /\ DOMAIN ring' = 1..W
          /\ \A j \in 1..W : j # at => ring'[j] = ring[j]
          /\ ring' = [j \in 1..W |-> ring'[j]]
        BY <2>2, <2>3
    <2>5. IsSeq(ring') /\ Len(ring') = W
        <3>1. ring' \in [1..W -> {ring'[i] : i \in DOMAIN ring'}]
            BY <2>4
        <3>2. ring' \in Seq({ring'[i] : i \in DOMAIN ring'})
            BY <1>1, <3>1, SeqDef
        <3> QED BY <1>1, <2>4, <3>2, LenProperties DEF IsSeq
    <2>6. ASSUME NEW i \in 1..(count + 1), i > count + 1 - W
          PROVE  ring'[((i - 1) % W) + 1] = totals'[i]
        <3>1. CASE i = count + 1
            <4>1. i - 1 = count
                BY <1>1, <3>1
            <4> QED BY <1>2, <2>4, <3>1, <4>1 DEF at
        <3>2. CASE i # count + 1
            <4>1. /\ i \in 1..count /\ i - 1 \in Nat /\ i - 1 < count /\ count - (i - 1) < W
                  /\ i > count - W
                BY <1>1, <2>6, <3>2
            <4>2. (i - 1) % W \in 0..(W - 1) /\ (i - 1) % W # count % W
                BY <1>1, <4>1, RingPlaces
            <4>3. ((i - 1) % W) + 1 \in 1..W /\ ((i - 1) % W) + 1 # at
                BY <1>1, <2>1, <4>2 DEF at
            <4> QED BY <1>2, <1>3, <2>4, <4>1, <4>3
        <3> QED BY <3>1, <3>2
    <2>7. Len(ring') = (IF count + 1 < W THEN count + 1 ELSE W)
        BY <1>1, <1>7, <2>5
    <2> QED BY <2>5, <2>6, <2>7
<1> QED BY <1>1, <1>6, <1>7

\* The same for the line of frame n.
LEMMA AppendAt ==
    ASSUME NEW s, IsSeq(s), NEW x, NEW n \in Nat, Len(s) = n - 1
    PROVE  LET t == Append(s, x) IN
           /\ IsSeq(t) /\ Len(t) = n /\ DOMAIN t = 1..n /\ t[n] = x
           /\ DOMAIN s = 1..(n - 1) /\ \A i \in 1..(n - 1) : t[i] = s[i]
<1>1. Len(s) \in Nat /\ DOMAIN s = 1..Len(s) /\ Len(s) + 1 = n
    BY SequenceFacts
<1>2. IsSeq(Append(s, x)) /\ Len(Append(s, x)) = n /\ Append(s, x)[n] = x
    BY <1>1, SequenceFacts
<1>3. DOMAIN Append(s, x) = 1..n
    BY <1>2, SequenceFacts
<1> QED BY <1>1, <1>2, <1>3, SequenceFacts

\* end_frame() that works adds the line of the open frame, ...
LEMMA WrittenLine ==
    ASSUME ProfileSafe, Written, frameOpen, app' \in {"run", "unwinding", "ended"}
    PROVE  ProfileSafe'
<1>1. /\ ~failed /\ failed' = failed /\ frameOpen' = FALSE /\ begun' = begun
      /\ lines' = Append(lines, LineOf(TRUE))
    BY DEF Written
<1>2. /\ begun \in Nat /\ IsSeq(lines) /\ Len(lines) = begun - 1
      /\ \A i \in DOMAIN lines : lines[i].whole /\ lines[i].id = i
    BY <1>1 DEF ProfileSafe, LinesFollowFrames
<1> DEFINE line == LineOf(TRUE)
<1>3. line.id = begun /\ line.whole
    BY DEF LineOf
<1> HIDE DEF line
<1>4. /\ IsSeq(lines') /\ Len(lines') = begun /\ DOMAIN lines' = 1..begun
      /\ DOMAIN lines = 1..(begun - 1)
      /\ lines'[begun] = line /\ \A i \in 1..(begun - 1) : lines'[i] = lines[i]
    <2>1. lines' = Append(lines, line)
        BY <1>1 DEF line
    <2>2. LET t == Append(lines, line) IN
          /\ IsSeq(t) /\ Len(t) = begun /\ DOMAIN t = 1..begun /\ t[begun] = line
          /\ DOMAIN lines = 1..(begun - 1) /\ \A i \in 1..(begun - 1) : t[i] = lines[i]
        BY <1>2, AppendAt
    <2> QED BY <2>1, <2>2
<1>5. ASSUME NEW i \in DOMAIN lines' PROVE lines'[i].whole /\ lines'[i].id = i
    <2>1. i = begun \/ i \in 1..(begun - 1)
        BY <1>2, <1>4, <1>5
    <2> QED BY <1>2, <1>3, <1>4, <2>1
<1>6. LinesFollowFrames'
    <2>1. Len(lines') = (IF frameOpen' THEN begun' - 1 ELSE begun')
        <3>1. Len(lines') = begun /\ begun' = begun /\ ~frameOpen'
            BY <1>1, <1>4
        <3> QED BY <3>1
    <2>2. begun' \in Nat /\ frameOpen' \in BOOLEAN /\ failed' \in BOOLEAN /\ ~failed' /\ ~frameOpen'
        BY <1>1, <1>2 DEF ProfileSafe, LinesFollowFrames
    <2> QED BY <1>4, <1>5, <2>1, <2>2 DEF LinesFollowFrames
<1>7. Roll(Total) /\ totals' = Append(totals, Total)
    BY DEF Written
<1>8. StatsAreOfLastFrames' /\ count' \in Nat /\ IsSeq(ring)' /\ IsSeq(totals)'
    BY <1>7, RollKeepsLast
<1> QED BY <1>6, <1>8 DEF ProfileSafe

\* ... and one that fails may leave a torn line, which stays the last one.
LEMMA TornLine ==
    ASSUME ProfileSafe, WriteFails, frameOpen, app' \in {"unwinding", "ended"}
    PROVE  ProfileSafe'
<1>1. failed' = TRUE /\ UNCHANGED <<begun, frameOpen, current, ring, count, totals>>
    BY DEF WriteFails
<1>2. StatsAreOfLastFrames' /\ count' \in Nat /\ IsSeq(ring)' /\ IsSeq(totals)'
    BY <1>1 DEF ProfileSafe, StatsAreOfLastFrames, IsSeq
<1>3. /\ begun \in Nat /\ IsSeq(lines) /\ frameOpen \in BOOLEAN
      /\ Len(lines) \in Nat /\ DOMAIN lines = 1..Len(lines)
    BY SequenceFacts DEF ProfileSafe, LinesFollowFrames
<1>4. CASE UNCHANGED lines
    <2>1. begun - Len(lines) \in {0, 1}
        BY <1>3 DEF ProfileSafe, LinesFollowFrames
    <2> QED BY <1>1, <1>2, <1>4, <2>1 DEF ProfileSafe, LinesFollowFrames
<1>5. CASE ~failed /\ lines' = Append(lines, LineOf(FALSE))
    <2>1. /\ Len(lines) = begun - 1
          /\ \A i \in DOMAIN lines : lines[i].whole /\ lines[i].id = i
        BY <1>5 DEF ProfileSafe, LinesFollowFrames
    <2> DEFINE line == LineOf(FALSE)
    <2>2. line.id = begun /\ ~line.whole
        BY DEF LineOf
    <2> HIDE DEF line
    <2>4. /\ IsSeq(lines') /\ Len(lines') = begun /\ DOMAIN lines' = 1..begun
          /\ DOMAIN lines = 1..(begun - 1)
          /\ lines'[begun] = line /\ \A i \in 1..(begun - 1) : lines'[i] = lines[i]
        <3>1. lines' = Append(lines, line)
            BY <1>5 DEF line
        <3>2. LET t == Append(lines, line) IN
              /\ IsSeq(t) /\ Len(t) = begun /\ DOMAIN t = 1..begun /\ t[begun] = line
              /\ DOMAIN lines = 1..(begun - 1) /\ \A i \in 1..(begun - 1) : t[i] = lines[i]
            BY <1>3, <2>1, AppendAt
        <3> QED BY <3>1, <3>2
    <2>5. ASSUME NEW i \in DOMAIN lines'
          PROVE  lines'[i].id = i /\ (~lines'[i].whole => i = Len(lines'))
        <3>1. i = begun \/ i \in 1..(begun - 1)
            BY <1>3, <2>4, <2>5
        <3> QED BY <2>1, <2>2, <2>4, <3>1
    <2>6. begun' - Len(lines') \in {0, 1}
        BY <1>1, <1>3, <2>4
    <2> QED BY <1>1, <1>2, <1>3, <2>4, <2>5, <2>6 DEF ProfileSafe, LinesFollowFrames
<1> QED BY <1>4, <1>5 DEF WriteFails

\* Every other step leaves the file and the ring alone.
LEMMA ProfileStep ==
    ASSUME ProfileSafe, [ProfileNext \/ ProfileDone]_profileVars
    PROVE  ProfileSafe'
<1>1. ASSUME UNCHANGED <<begun, frameOpen, lines, failed, ring, count, totals>>,
             app' = app \/ (app = "run" /\ app' = "unwinding")
                 \/ (app = "unwinding" /\ app' = "ended" /\ ~frameOpen)
      PROVE  ProfileSafe'
    BY <1>1 DEF ProfileSafe, LinesFollowFrames, StatsAreOfLastFrames, IsSeq
<1>2. CASE begin_frame
    BY <1>2 DEF begin_frame, ProfileSafe, LinesFollowFrames, StatsAreOfLastFrames, IsSeq
<1>3. CASE end_frame
    BY <1>3, WrittenLine DEF end_frame
<1>4. CASE end_frame_throws
    BY <1>4, TornLine DEF end_frame_throws
<1>5. CASE leave_loop
    BY <1>1, <1>5 DEF leave_loop
<1>6. CASE destroy
    <2>1. CASE frameOpen
        BY <1>6, <2>1, WrittenLine, TornLine DEF destroy
    <2>2. CASE ~frameOpen
        BY <1>1, <1>6, <2>2 DEF destroy
    <2> QED BY <2>1, <2>2
<1>7. ASSUME NEW kind, NEW v, record_stage(kind, v) \/ set_measured_total(v)
      PROVE  ProfileSafe'
    BY <1>1, <1>7 DEF record_stage, set_measured_total
<1>8. CASE UNCHANGED profileVars
    BY <1>1, <1>8 DEF profileVars
<1> QED BY <1>2, <1>3, <1>4, <1>5, <1>6, <1>7, <1>8 DEF ProfileNext, ProfileDone

\* However run_once() is left and wherever a write fails: one line per frame, in order,
\* at most the last one torn or missing, and percentiles of the last StatsWindow frames.
THEOREM ProfileStaysComplete == ProfileSpec => []ProfileIsComplete
<1>1. ProfileInit => ProfileSafe
    <2> SUFFICES ASSUME ProfileInit PROVE ProfileSafe
        OBVIOUS
    <2>1. IsSeq(<<>>) /\ Len(<<>>) = 0 /\ DOMAIN <<>> = {}
        BY SequenceFacts
    <2>2. LinesFollowFrames
        <3>1. Len(lines) = (IF frameOpen THEN begun - 1 ELSE begun) /\ begun \in Nat
            BY <2>1 DEF ProfileInit
        <3>2. DOMAIN lines = {} /\ IsSeq(lines)
            BY <2>1 DEF ProfileInit
        <3> QED BY <3>1, <3>2 DEF ProfileInit, LinesFollowFrames
    <2>3. StatsAreOfLastFrames
        BY <2>1, ProfileAssumption DEF ProfileInit, StatsAreOfLastFrames
    <2> QED BY <2>1, <2>2, <2>3 DEF ProfileInit, ProfileSafe
<1>2. ProfileSafe => ProfileIsComplete
    <2> SUFFICES ASSUME ProfileSafe PROVE OneLinePerFrame
        BY DEF ProfileSafe, ProfileIsComplete
    <2>1. begun - Len(lines) <= 1 /\ (app = "ended" /\ ~failed => Len(lines) = begun)
        BY DEF ProfileSafe, LinesFollowFrames
    <2> QED BY <2>1 DEF ProfileSafe, LinesFollowFrames, OneLinePerFrame
<1> QED BY <1>1, <1>2, ProfileStep, PTL DEF ProfileSpec
=============================================================================
