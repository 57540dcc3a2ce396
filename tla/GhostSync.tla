----------------------------- MODULE GhostSync -----------------------------
(***************************************************************************)
(* How gh-ost keeps the ghost table in step with the original table: the   *)
(* row copy (Migrator.iterateChunks, Applier.ReadMigrationRangeValues,     *)
(* CalculateNextIterationRangeEndValues, ApplyIterationInsertQuery) running *)
(* against the application's writes, which reach the ghost table a second  *)
(* time through the binary log (EventsStreamer, onApplyEventStruct,        *)
(* ApplyDMLEventQueries).  A process that ends before the swap may be      *)
(* followed by one with --resume, which goes on from the last checkpoint   *)
(* (Migrator.Checkpoint) with the ghost table as it is.                    *)
(*                                                                         *)
(* Abstractions.                                                           *)
(*  - A row is a migration-key value and one opaque value.  Keys are the   *)
(*    integers 1..MaxKey, so that ranges mean what they mean in SQL.       *)
(*  - A binlog entry is one row event.  A transaction of several rows is   *)
(*    several entries that become visible one after another, which allows  *)
(*    more than MySQL does.                                                *)
(*  - The path from the binlog to the applier (reader, dispatcher, queue)  *)
(*    is the interval between the cursor applied and the end of binlog.    *)
(*  - MySQL's two-phase commit is kept: an entry is in the binlog, and may *)
(*    be read by gh-ost, before its row is visible to other sessions.      *)
(*  - The minimum of a checkpoint's range, which is overwritten before it  *)
(*    is read, is left out.  A process that resumes is taken to read no    *)
(*    row event before it listens (EventPipelineResume is the run in which *)
(*    it does).                                                            *)
(***************************************************************************)
EXTENDS Integers, Sequences, FiniteSets

CONSTANTS
    MaxKey,            \* the largest value of the migration's unique key
    Vals,              \* what a row may hold besides its key
    None,              \* no row
    ChunkSize,         \* --chunk-size
    DMLBatchSize,      \* --dml-batch-size
    MaxRetries,        \* --default-retries
    KeyUpdates,        \* the application updates migration-key columns
    SecondaryUnique,   \* both tables have a unique index on the row's value
    PanicOnWarnings,   \* --panic-on-warnings
    FreshReaderFails,  \* a binlog reader may fail before it completes a transaction
    Checkpoints,       \* --checkpoint
    MaxEvents,         \* bound: row events the application writes
    MaxReconnects      \* bound: reconnects of the binlog streamer and restarts

ASSUME BoundsAssumption ==
    /\ MaxKey \in Nat
    /\ ChunkSize \in Nat \ {0}
    /\ DMLBatchSize \in Nat \ {0}
    /\ MaxRetries \in Nat \ {0}
    /\ MaxEvents \in Nat
    /\ MaxReconnects \in Nat

ASSUME ModeAssumption ==
    /\ KeyUpdates \in BOOLEAN
    /\ SecondaryUnique \in BOOLEAN
    /\ PanicOnWarnings \in BOOLEAN
    /\ FreshReaderFails \in BOOLEAN
    /\ Checkpoints \in BOOLEAN

ASSUME NoneAssumption == None \notin Vals

Keys == 1..MaxKey
NoKey == 0

Rows == Vals \cup {None}
Tables == [Keys -> Rows]

\* BinlogDMLEvent: the key of the WHERE image, the key of the NEW image (NoKey
\* when the event has no such image) and the value of the NEW image.
Events == [where : Keys \cup {NoKey}, new : Keys \cup {NoKey}, val : Rows]

VARIABLES
    orig,        \* the original table after every binlogged transaction
    binlog,      \* the row events of the original table
    visible,     \* how many of them are committed in the storage engine
    ghost,       \* the ghost table, as committed
    phase,       \* how far Migrate() has come
    start,       \* the length of binlog when the DML listener was registered
    applied,     \* the events the applier has behind it
    reconnects,  \* reconnects and restarts so far
    rangeMin, rangeMax,  \* MigrationRangeMinValues, MigrationRangeMaxValues
    iterMin, iterMax,    \* MigrationIterationRange{Min,Max}Values
    iteration,   \* MigrationContext.Iteration, which is only compared with 0: 0 or 1
    lastMax,     \* LastIterationRangeMaxValues: where the last copied chunk ends
    chkMax,      \* the last checkpoint: its IterationRangeMax, NoKey if there is none
    chkCoords, chkIteration,  \*   its LastTrxCoords and its Iteration
    writer,      \* what executeWriteFuncs is doing
    failures,    \* failed attempts of the operation in retryOperation
    batchEnd,    \* the last event of the batch being applied
    cursor,      \* the last event of the batch already executed
    work,        \* the ghost table as the batch's transaction sees it
    dmlType      \* DML fields of the batch's events: as read, or overwritten

appVars == <<orig, binlog, visible>>
rangeVars == <<rangeMin, rangeMax, iterMin, iterMax, iteration, lastMax>>
chkVars == <<chkMax, chkCoords, chkIteration>>
copyVars == <<rangeVars, chkVars>>
batchVars == <<batchEnd, cursor, work, dmlType>>
vars == <<orig, binlog, visible, ghost, phase, start, applied, reconnects,
          rangeMin, rangeMax, iterMin, iterMax, iteration, lastMax,
          chkMax, chkCoords, chkIteration, writer, failures, batchEnd, cursor, work, dmlType>>

-----------------------------------------------------------------------------
(* Row events and the statements gh-ost makes of them.                     *)

Touches(e, k) == e.where = k \/ e.new = k
Inserts(e, k) == e.new = k /\ e.where # k
Deletes(e, k) == e.where = k /\ e.new # k
Updates(e, k) == e.where = k /\ e.new = k

\* A unique index other than the migration key rejects value v for key k.
Conflict(table, k, v) ==
    SecondaryUnique /\ \E j \in Keys \ {k} : table[j] = v

DMLDelete(table, k) == [table EXCEPT ![k] = None]

\* INSERT IGNORE: a duplicate on any unique key drops the row.
DMLInsert(table, k, v) ==
    IF table[k] = None /\ ~Conflict(table, k, v)
      THEN [table EXCEPT ![k] = v]
      ELSE table

\* UPDATE ... WHERE key: no such row, no effect.
DMLUpdate(table, k, v) ==
    IF table[k] # None THEN [table EXCEPT ![k] = v] ELSE table

\* The table the INSERT of event e meets: for an UPDATE that changes the key, the
\* one with the old key's row deleted.  buildDMLEventQuery gets the two statements
\* by overwriting dmlEvent.DML with DeleteDML and then InsertDML, and leaves it
\* there: building the same event a second time builds the INSERT only.
InsertTarget(table, e, dml) ==
    IF e.where = NoKey \/ dml = "overwritten"
      THEN table ELSE DMLDelete(table, e.where)

BuildDMLEventQuery(table, e, dml) ==
    CASE e.where = NoKey -> DMLInsert(table, e.new, e.val)
      [] e.new = NoKey -> DMLDelete(table, e.where)
      [] e.where = e.new -> DMLUpdate(table, e.new, e.val)
      [] OTHER -> DMLInsert(InsertTarget(table, e, dml), e.new, e.val)

\* The statement fails: a duplicate in a plain UPDATE is an error, and under
\* --panic-on-warnings so is a duplicate that INSERT IGNORE let pass, unless it
\* is on the migration key.
StatementError(table, e) ==
    e.where = e.new /\ table[e.new] # None /\ Conflict(table, e.new, e.val)

StatementWarning(table, e, dml) ==
    /\ e.new # NoKey /\ e.where # e.new
    /\ LET target == InsertTarget(table, e, dml)
       IN  target[e.new] = None /\ Conflict(target, e.new, e.val)

-----------------------------------------------------------------------------
EmptyTable == [k \in Keys |-> None]

Init ==
    /\ orig \in Tables
    /\ \A k, j \in Keys : k # j /\ orig[k] # None => ~Conflict(orig, k, orig[k])
    /\ binlog = << >>
    /\ visible = 0
    /\ ghost = EmptyTable
    /\ phase = "streaming"
    /\ start = 0
    /\ applied = 0
    /\ reconnects = 0
    /\ rangeMin = NoKey /\ rangeMax = NoKey
    /\ iterMin = NoKey /\ iterMax = NoKey
    /\ iteration = 0
    /\ lastMax = NoKey
    /\ chkMax = NoKey /\ chkCoords = 0 /\ chkIteration = 0
    /\ writer = "idle"
    /\ failures = 0
    /\ batchEnd = 0 /\ cursor = 0 /\ work = EmptyTable /\ dmlType = "read"

-----------------------------------------------------------------------------
(* The application and the server.                                         *)

InFlight == (visible + 1)..Len(binlog)

\* The row locks of a transaction that is not committed in the engine yet.
Locked(k) == \E i \in InFlight : Touches(binlog[i], k)

\* A read without locks sees the row with key k.
RowVisible(k) ==
    IF Locked(k)
      THEN \A i \in InFlight : ~Inserts(binlog[i], k)
      ELSE orig[k] # None

AppWrites(e, table) ==
    /\ phase \notin {"locked", "synced", "done", "aborted"}
    /\ Len(binlog) < MaxEvents
    /\ \A k \in Keys : Touches(e, k) => ~Locked(k)
    /\ e.new # NoKey => ~Conflict(table, e.new, e.val)
    /\ orig' = table
    /\ binlog' = Append(binlog, e)
    /\ UNCHANGED <<visible, ghost, phase, start, applied, reconnects,
                   copyVars, writer, failures, batchVars>>

AppInsert ==
    \E k \in Keys, v \in Vals :
        /\ orig[k] = None
        /\ AppWrites([where |-> NoKey, new |-> k, val |-> v],
                     [orig EXCEPT ![k] = v])

AppUpdate ==
    \E k \in Keys, v \in Vals :
        /\ orig[k] # None
        /\ AppWrites([where |-> k, new |-> k, val |-> v],
                     [orig EXCEPT ![k] = v])

AppDelete ==
    \E k \in Keys :
        /\ orig[k] # None
        /\ AppWrites([where |-> k, new |-> NoKey, val |-> None],
                     [orig EXCEPT ![k] = None])

AppUpdateKey ==
    \E k, j \in Keys, v \in Vals :
        /\ KeyUpdates
        /\ orig[k] # None /\ orig[j] = None
        /\ AppWrites([where |-> k, new |-> j, val |-> v],
                     [orig EXCEPT ![k] = None, ![j] = v])

\* Group commit makes binlogged transactions visible in binlog order.
EngineCommit ==
    /\ visible < Len(binlog)
    /\ visible' = visible + 1
    /\ UNCHANGED <<orig, binlog, ghost, phase, start, applied, reconnects,
                   copyVars, writer, failures, batchVars>>

-----------------------------------------------------------------------------
(* Migrate(), up to the row copy.                                          *)

\* A row event on a table nobody listens for is not even decoded.
StreamerSkips ==
    /\ phase = "streaming"
    /\ chkMax = NoKey
    /\ applied < Len(binlog)
    /\ applied' = applied + 1
    /\ UNCHANGED <<appVars, ghost, phase, start, reconnects, copyVars, writer,
                   failures, batchVars>>

AddDMLEventsListener ==
    /\ phase = "streaming"
    /\ phase' = "listening"
    /\ start' = Len(binlog)
    /\ UNCHANGED <<appVars, ghost, applied, reconnects, copyVars, writer,
                   failures, batchVars>>

\* Mutant: the range is read without flushing the group commit first.
WriteRangeStateNoFlush ==
    /\ phase = "listening"
    /\ phase' = "flushed"
    /\ UNCHANGED <<appVars, ghost, start, applied, reconnects, copyVars,
                   writer, failures, batchVars>>

\* ReadMigrationRangeValues first writes to the changelog table: commits are
\* ordered, so the write returns only when every transaction binlogged before
\* it, hence before the listener was registered, is visible.
WriteRangeState ==
    /\ phase = "listening"
    /\ start <= visible
    /\ phase' = "flushed"
    /\ UNCHANGED <<appVars, ghost, start, applied, reconnects, copyVars,
                   writer, failures, batchVars>>

VisibleKeys == {k \in Keys : RowVisible(k)}

\* The minimum and the maximum of the key, read in one transaction; an empty
\* table leaves them nil and iterateChunks terminates at once.
ReadMigrationRangeValues ==
    /\ phase = "flushed"
    /\ IF VisibleKeys = {}
         THEN /\ phase' = "copied"
              /\ UNCHANGED <<rangeMin, rangeMax>>
         ELSE /\ phase' = "copying"
              /\ \E lo, hi \in VisibleKeys :
                    /\ \A k \in VisibleKeys : lo <= k /\ k <= hi
                    /\ rangeMin' = lo
                    /\ rangeMax' = hi
    /\ UNCHANGED <<appVars, ghost, start, applied, reconnects, iterMin, iterMax,
                   iteration, lastMax, chkVars, writer, failures, batchVars>>

-----------------------------------------------------------------------------
(* The row copy, executed by executeWriteFuncs between batches of events.  *)

\* The rows of the original table the next chunk is taken from: past the last
\* chunk, or from the minimum on when there was none yet.
Remaining ==
    {k \in VisibleKeys : /\ IF iteration = 0 THEN iterMin <= k ELSE iterMin < k
                         /\ k <= rangeMax}

\* k is the last of the next ChunkSize rows, or of those that are left.
IsChunkEnd(k) ==
    LET upTo == {j \in Remaining : j <= k}
    IN  \/ Cardinality(upTo) = ChunkSize
        \/ upTo = Remaining /\ Cardinality(upTo) < ChunkSize

\* Mutant: every chunk starts at the minimum of the range.
NextChunkStuck ==
    /\ phase = "copying"
    /\ writer = "idle"
    /\ writer' = "range"
    /\ iterMin' = rangeMin
    /\ UNCHANGED <<appVars, ghost, phase, start, applied, reconnects, rangeMin,
                   rangeMax, iterMax, iteration, lastMax, chkVars, failures, batchVars>>

\* A copy task starts: SetNextIterationRangeMinValues.
NextChunk ==
    /\ phase = "copying"
    /\ writer = "idle"
    /\ writer' = "range"
    /\ iterMin' = IF iterMax = NoKey THEN rangeMin ELSE iterMax
    /\ UNCHANGED <<appVars, ghost, phase, start, applied, reconnects, rangeMin,
                   rangeMax, iterMax, iteration, lastMax, chkVars, failures, batchVars>>

\* The end of the chunk's range is read without locks; when no row is left the
\* row copy is complete, and the last range is recorded once more.
CalculateNextIterationRangeEndValues ==
    /\ phase = "copying"
    /\ writer = "range"
    /\ IF Remaining = {}
         THEN /\ phase' = "copied"
              /\ writer' = "idle"
              /\ failures' = 0
              /\ lastMax' = IF iterMax = NoKey THEN lastMax ELSE iterMax
              /\ UNCHANGED iterMax
         ELSE /\ \E k \in Remaining : IsChunkEnd(k) /\ iterMax' = k
              /\ writer' = "chunk"
              /\ UNCHANGED <<phase, failures, lastMax>>
    /\ UNCHANGED <<appVars, ghost, start, applied, reconnects, rangeMin,
                   rangeMax, iterMin, iteration, chkVars, batchVars>>

InChunk(k) ==
    /\ IF iteration = 0 THEN iterMin <= k ELSE iterMin < k
    /\ k <= iterMax

\* The unique index, not the migration key, keeps row k out of the ghost table.
CopyConflict(k) ==
    ghost[k] = None /\ orig[k] # None /\ Conflict(ghost, k, orig[k])

\* INSERT IGNORE INTO ghost SELECT ... FROM orig LOCK IN SHARE MODE: a row is
\* read once no other transaction holds it.
CopyChunk ==
    /\ \A k \in Keys : InChunk(k) => ~Locked(k)
    /\ ghost' = [k \in Keys |->
                    IF InChunk(k) /\ ghost[k] = None /\ ~CopyConflict(k)
                      THEN orig[k] ELSE ghost[k]]

\* Under --panic-on-warnings a row dropped for the sake of another key ends the
\* migration, after the chunk is committed.
ApplyIterationInsertQuery ==
    /\ phase = "copying"
    /\ writer = "chunk"
    /\ CopyChunk
    /\ writer' = "idle"
    /\ failures' = 0
    /\ IF PanicOnWarnings /\ \E k \in Keys : InChunk(k) /\ CopyConflict(k)
         THEN phase' = "aborted" /\ UNCHANGED <<iteration, lastMax>>
         ELSE iteration' = 1 /\ lastMax' = iterMax /\ UNCHANGED phase
    /\ UNCHANGED <<appVars, start, applied, reconnects, rangeMin, rangeMax,
                   iterMin, iterMax, chkVars, batchVars>>

\* One more failed attempt of retryOperation; the last one aborts.
AttemptFails ==
    IF failures + 1 < MaxRetries
      THEN failures' = failures + 1 /\ UNCHANGED phase
      ELSE failures' = 0 /\ phase' = "aborted"

\* An attempt fails (a lock wait, NOWAIT on a locked row, a lost connection) and
\* the next one computes the end of the range anew.  When the connection is lost
\* at the commit, the chunk may have been copied all the same.
CopyFails ==
    /\ phase = "copying"
    /\ \/ writer \in {"range", "chunk"} /\ UNCHANGED ghost
       \/ writer = "chunk" /\ CopyChunk
    /\ AttemptFails
    /\ writer' = "range"
    /\ UNCHANGED <<appVars, start, applied, reconnects, copyVars, batchVars>>

-----------------------------------------------------------------------------
(* The events backlog, applied in batches of one transaction each.         *)

\* executeWriteFuncs runs once the migration range is known.
Writing == phase \in {"copying", "copied", "locked", "synced"}

\* onApplyEventStruct takes an event and up to DMLBatchSize - 1 more.
BeginBatch ==
    /\ Writing
    /\ writer = "idle"
    /\ \E n \in 1..DMLBatchSize :
          /\ applied + n <= Len(binlog)
          /\ batchEnd' = applied + n
    /\ writer' = "batch"
    /\ cursor' = applied
    /\ work' = ghost
    /\ dmlType' = "read"
    /\ UNCHANGED <<appVars, ghost, phase, start, applied, reconnects,
                   copyVars, failures>>

\* The next statement of ApplyDMLEventQueries' transaction.
ExecuteStatement ==
    /\ Writing
    /\ writer = "batch"
    /\ cursor < batchEnd
    /\ LET e == binlog[cursor + 1]
       IN  /\ ~StatementError(work, e)
           /\ ~(PanicOnWarnings /\ StatementWarning(work, e, dmlType))
           /\ work' = BuildDMLEventQuery(work, e, dmlType)
    /\ cursor' = cursor + 1
    /\ UNCHANGED <<appVars, ghost, phase, start, applied, reconnects,
                   copyVars, writer, failures, batchEnd, dmlType>>

\* Mutant: the batch counts one event too many.
CommitBatchOffByOne ==
    /\ Writing
    /\ writer = "batch"
    /\ cursor = batchEnd
    /\ ghost' = work
    /\ applied' = batchEnd + 1
    /\ writer' = "idle"
    /\ failures' = 0
    /\ batchEnd' = 0 /\ cursor' = 0 /\ work' = EmptyTable /\ dmlType' = "read"
    /\ UNCHANGED <<appVars, phase, start, reconnects, copyVars>>

CommitBatch ==
    /\ Writing
    /\ writer = "batch"
    /\ cursor = batchEnd
    /\ ghost' = work
    /\ applied' = batchEnd
    /\ writer' = "idle"
    /\ failures' = 0
    /\ batchEnd' = 0 /\ cursor' = 0 /\ work' = EmptyTable /\ dmlType' = "read"
    /\ UNCHANGED <<appVars, phase, start, reconnects, copyVars>>

\* An attempt fails and is rolled back, before the events were built, at a
\* statement, or at the commit; in the last case the transaction may have been
\* committed.  The retry builds the same event structs again.
BatchFails ==
    /\ Writing
    /\ writer = "batch"
    /\ \/ ghost' = ghost
       \/ cursor = batchEnd /\ ghost' = work
    /\ \/ dmlType' = "overwritten"
       \/ cursor = applied /\ UNCHANGED dmlType
    /\ AttemptFails
    /\ work' = ghost'
    /\ cursor' = applied
    /\ UNCHANGED <<appVars, start, applied, reconnects, copyVars, writer,
                   batchEnd>>

\* --panic-on-warnings: "warnings detected" is rolled back and never retried.
BatchWarning ==
    /\ Writing
    /\ writer = "batch"
    /\ PanicOnWarnings
    /\ cursor < batchEnd
    /\ StatementWarning(work, binlog[cursor + 1], dmlType)
    /\ phase' = "aborted"
    /\ UNCHANGED <<appVars, ghost, start, applied, reconnects, copyVars,
                   writer, failures, batchVars>>

\* The streamer reconnects and reads again from an earlier position: of the last
\* transaction its reader completed, or its initial one when the reader
\* completed none.  The events in between are queued, and applied, once more.
\* A reader that delivered the sentinel, or what a checkpoint acknowledges, has
\* completed every transaction before.
Reconnect ==
    /\ phase \notin {"done", "aborted"}
    /\ phase = "synced" => FreshReaderFails
    /\ writer # "batch"
    /\ reconnects < MaxReconnects
    /\ reconnects' = reconnects + 1
    /\ applied' \in 0..applied
    /\ chkCoords <= applied' \/ FreshReaderFails
    /\ UNCHANGED <<appVars, ghost, phase, start, copyVars, writer, failures,
                   batchVars>>

-----------------------------------------------------------------------------
(* Checkpoints, and the next process.                                      *)

\* Mutant: the checkpoint has the range of the chunk that is being copied.
CheckpointOfCurrentRange ==
    /\ Checkpoints
    /\ Writing
    /\ lastMax # NoKey
    /\ chkMax' = iterMax
    /\ chkCoords' \in chkCoords..applied
    /\ chkIteration' = iteration
    /\ UNCHANGED <<appVars, ghost, phase, start, applied, reconnects, rangeVars,
                   writer, failures, batchVars>>

\* The coordinates are those of a completed transaction, which is applied.  The
\* range was read before the wait for them: it may be that of an earlier chunk.
Checkpoint ==
    /\ Checkpoints
    /\ Writing
    /\ lastMax # NoKey
    /\ \E m \in Keys : chkMax <= m /\ m <= lastMax /\ chkMax' = m
    /\ chkCoords' \in 0..applied
    /\ chkCoords <= chkCoords' \/ FreshReaderFails
    /\ chkIteration' = iteration
    /\ UNCHANGED <<appVars, ghost, phase, start, applied, reconnects, rangeVars,
                   writer, failures, batchVars>>

\* The process ends, wherever it is, and Migrate() runs with --resume: the streamer
\* starts at the checkpoint's coordinates, the copy after the checkpoint's range.
Resume ==
    /\ phase # "done"
    /\ chkMax # NoKey
    /\ reconnects < MaxReconnects
    /\ reconnects' = reconnects + 1
    /\ phase' = "streaming"
    /\ applied' = chkCoords
    /\ rangeMin' = NoKey /\ rangeMax' = NoKey
    /\ iterMin' = NoKey /\ iterMax' = chkMax
    /\ iteration' = chkIteration
    /\ lastMax' = NoKey
    /\ writer' = "idle"
    /\ failures' = 0
    /\ batchEnd' = 0 /\ cursor' = 0 /\ work' = EmptyTable /\ dmlType' = "read"
    /\ UNCHANGED <<appVars, ghost, start, chkVars>>

-----------------------------------------------------------------------------
(* The cut-over, as far as the data goes: LOCK TABLES waits for the        *)
(* transactions under way, and the tables are swapped once the sentinel    *)
(* written under the lock, hence every event before it, went through the   *)
(* writer.                                                                 *)

LockOriginal ==
    /\ phase = "copied"
    /\ visible = Len(binlog)
    /\ phase' = "locked"
    /\ UNCHANGED <<appVars, ghost, start, applied, reconnects, copyVars,
                   writer, failures, batchVars>>

AllEventsUpToLockProcessed ==
    /\ phase = "locked"
    /\ writer = "idle"
    /\ applied = Len(binlog)
    /\ phase' = "synced"
    /\ UNCHANGED <<appVars, ghost, start, applied, reconnects, copyVars,
                   writer, failures, batchVars>>

Swap ==
    /\ phase = "synced"
    /\ phase' = "done"
    /\ UNCHANGED <<appVars, ghost, start, applied, reconnects, copyVars,
                   writer, failures, batchVars>>

\* The attempt times out, the lock is released and the application goes on.
CutOverFails ==
    /\ phase \in {"locked", "synced"}
    /\ phase' = "copied"
    /\ UNCHANGED <<appVars, ghost, start, applied, reconnects, copyVars,
                   writer, failures, batchVars>>

Terminated ==
    /\ phase \in {"done", "aborted"}
    /\ UNCHANGED vars

Application == AppInsert \/ AppUpdate \/ AppDelete \/ AppUpdateKey

MigrateSteps ==
    AddDMLEventsListener \/ WriteRangeState \/ ReadMigrationRangeValues
       \/ LockOriginal \/ AllEventsUpToLockProcessed \/ Swap \/ CutOverFails

WriterSteps ==
    NextChunk \/ CalculateNextIterationRangeEndValues
       \/ ApplyIterationInsertQuery \/ CopyFails
       \/ BeginBatch \/ ExecuteStatement \/ CommitBatch \/ BatchFails
       \/ BatchWarning

Next ==
    \/ Application
    \/ EngineCommit
    \/ StreamerSkips
    \/ MigrateSteps
    \/ WriterSteps
    \/ Reconnect
    \/ Checkpoint
    \/ Resume
    \/ Terminated

Spec == Init /\ [][Next]_vars

-----------------------------------------------------------------------------
Phases == {"streaming", "listening", "flushed", "copying", "copied", "locked",
           "synced", "done", "aborted"}

\* The types of the variables, and the order of the cursors into the binlog.
TypeOK ==
    /\ orig \in Tables
    /\ binlog \in Seq(Events)
    /\ visible \in 0..Len(binlog)
    /\ ghost \in Tables
    /\ phase \in Phases
    /\ start \in 0..Len(binlog)
    /\ applied \in 0..Len(binlog)
    /\ reconnects \in 0..MaxReconnects
    /\ rangeMin \in Keys \cup {NoKey} /\ rangeMax \in Keys \cup {NoKey}
    /\ iterMin \in Keys \cup {NoKey} /\ iterMax \in Keys \cup {NoKey}
    /\ iteration \in {0, 1}
    /\ lastMax \in Keys \cup {NoKey}
    /\ chkMax \in Keys \cup {NoKey} /\ chkCoords \in 0..Len(binlog)
    /\ chkIteration \in {0, 1}
    /\ writer \in {"idle", "range", "chunk", "batch"}
    /\ failures \in 0..(MaxRetries - 1)
    /\ batchEnd \in Nat
    /\ cursor \in Nat
    /\ work \in Tables
    /\ dmlType \in {"read", "overwritten"}

\* The row copy is past key k: it lies outside the migration range, or in a
\* chunk that was copied, by this process or the one it resumes, or the copy is
\* complete.
CopiedTo == IF writer \in {"range", "chunk"} THEN iterMin ELSE iterMax

Covered(k) ==
    \/ phase \in {"copied", "locked", "synced", "done"}
    \/ phase = "copying" /\ (k < rangeMin \/ k > rangeMax)
    \/ /\ phase \in {"streaming", "listening", "flushed", "copying"}
       /\ iteration > 0 /\ k <= CopiedTo

Pending(from, k) == {i \in (from + 1)..Len(binlog) : Touches(binlog[i], k)}

\* Row k of the ghost table is the original's row as soon as the copy is past k
\* and no event on k is waiting, however the copy, the events, their retries and
\* replays were interleaved (iterateChunks against onApplyEventStruct).
CopiedRowsConverge ==
    phase # "aborted" =>
        \A k \in Keys : Covered(k) /\ Pending(applied, k) = {}
                            => ghost[k] = orig[k]

\* When the row copy is complete and the backlog is empty, the ghost table is
\* the original table; and the table the cut-over swaps in is the original.
GhostConsistent ==
    /\ phase \in {"copied", "locked", "synced"} /\ applied = Len(binlog)
          => ghost = orig
    /\ phase = "done" => ghost = orig

\* What the continuous tests of the tool check (doc/triggerless-design.md:124), and
\* what the comment on reconnecting (streamer.go:286) and doc/resume.md:43 promise
\* of replayed and retried events: the tables have the same rows at the swap.
SwappedInOriginal == phase = "done" => ghost = orig

\* A chunk that is copied ends past the one before it and within the migration
\* range, whatever rows come and go meanwhile and however often the chunk was tried:
\* the row copy cannot go round in circles (SetNextIterationRangeMinValues).
CopyAdvances ==
    [][writer = "chunk" /\ writer' = "idle" /\ phase' = "copying"
          => lastMax < lastMax' /\ lastMax' <= rangeMax']_vars

=============================================================================
