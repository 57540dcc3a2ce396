---------------------------- MODULE GhostSyncInv ----------------------------
(***************************************************************************)
(* The inductive invariant of GhostSync, and the proofs that every step    *)
(* preserves the types, the history of the keys and where the copy and the *)
(* batch stand; then how far each step takes the row copy, and the         *)
(* theorems that hold whatever the flags and faults.                       *)
(***************************************************************************)
EXTENDS GhostSync, TLAPS

-----------------------------------------------------------------------------
(* The inductive invariant behind GhostConsistent.                         *)

\* The events of the binlog are what the application can write.
EventOK(e) ==
    /\ e.where # NoKey \/ e.new # NoKey
    /\ e.new # NoKey <=> e.val # None
    /\ KeyUpdates \/ e.where = NoKey \/ e.new = NoKey \/ e.where = e.new

EventsInv == \A i \in 1..Len(binlog) : EventOK(binlog[i])

\* The history of key k: its last event left it as it is now, and inserts and
\* deletes alternate.
LastEvent(k) ==
    \A i \in 1..Len(binlog) :
        /\ Touches(binlog[i], k)
        /\ \A j \in (i + 1)..Len(binlog) : ~Touches(binlog[j], k)
        => orig[k] = IF binlog[i].new = k THEN binlog[i].val ELSE None

InsertAfterDelete(k) ==
    \A i, j \in 1..Len(binlog) :
        /\ i < j
        /\ Touches(binlog[i], k) /\ ~Deletes(binlog[i], k)
        /\ Inserts(binlog[j], k)
        => \E m \in (i + 1)..(j - 1) : Deletes(binlog[m], k)

UpdateAfterInsert(k) ==
    \A i, j \in 1..Len(binlog) :
        /\ i < j
        /\ Deletes(binlog[i], k)
        /\ Updates(binlog[j], k)
        => \E m \in (i + 1)..(j - 1) : Inserts(binlog[m], k)

GoneUnlessInserted(k) ==
    \A i \in 1..Len(binlog) :
        /\ Deletes(binlog[i], k)
        /\ \A j \in (i + 1)..Len(binlog) : ~Inserts(binlog[j], k)
        => orig[k] = None

ThereUnlessDeleted(k) ==
    \A i \in 1..Len(binlog) :
        /\ Touches(binlog[i], k) /\ ~Deletes(binlog[i], k)
        /\ \A j \in (i + 1)..Len(binlog) : ~Deletes(binlog[j], k)
        => orig[k] # None

HistoryInv ==
    \A k \in Keys : /\ LastEvent(k)
                    /\ InsertAfterDelete(k)
                    /\ UpdateAfterInsert(k)
                    /\ GoneUnlessInserted(k)
                    /\ ThereUnlessDeleted(k)

\* A row under way is locked: no event on it follows.
FlightInv ==
    \A k \in Keys : \A i \in InFlight, j \in 1..Len(binlog) :
        Touches(binlog[i], k) /\ Touches(binlog[j], k) => j <= i

\* Where the copy, the batch and the checkpoint stand.  A process that resumes has
\* the checkpoint's range; Iteration is still 0 in one that copied no chunk.
ProgressInv ==
    /\ writer = "batch" =>
          applied <= cursor /\ cursor <= batchEnd /\ batchEnd <= Len(binlog)
    /\ phase \in {"streaming", "listening", "flushed"} =>
          /\ writer = "idle" /\ lastMax = NoKey /\ iterMax = chkMax
          /\ iteration > 0 => chkMax # NoKey
          /\ chkMax = NoKey => ghost = EmptyTable
    /\ writer \in {"range", "chunk"} => phase \in {"copying", "aborted"}
    /\ phase \in {"flushed", "copying", "copied", "locked", "synced"} => start <= visible
    /\ phase = "copying" =>
          /\ rangeMin \in Keys /\ rangeMax \in Keys
          /\ iteration > 0 \/ writer = "chunk" => iterMax \in Keys
          /\ writer \in {"idle", "batch"} /\ iteration = 0 => iterMax <= chkMax
          /\ writer \in {"range", "chunk"} /\ iteration = 0 =>
                iterMin = rangeMin \/ iterMin <= chkMax
          /\ writer = "chunk" =>
                iterMax <= rangeMax /\ (iteration > 0 => iterMin < iterMax)
          /\ lastMax # NoKey => iteration > 0 /\ lastMax <= CopiedTo
    /\ chkMax # NoKey => Checkpoints
    /\ Checkpoints /\ ~FreshReaderFails => chkCoords <= applied
    /\ phase \in {"synced", "done"} /\ ~FreshReaderFails =>
          applied = Len(binlog) /\ writer = "idle"
    /\ phase # "aborted" /\ dmlType = "overwritten" => MaxRetries > 1

\* Table t holds key k's row as of event n: applying the events after n, in
\* order and possibly after going back further, leads to the original's row or,
\* before the copy reached it, to no row.
NonePending(n, k) == \A i \in (n + 1)..Len(binlog) : ~Touches(binlog[i], k)

Settled(t, n, k) == NonePending(n, k) => t[k] \in {None, orig[k]}

\* A single INSERT IGNORE is waiting: it must not meet another row.
InsertFits(t, n, k) ==
    \A i \in (n + 1)..Len(binlog) :
        /\ Inserts(binlog[i], k)
        /\ \A j \in (n + 1)..Len(binlog) : j # i => ~Touches(binlog[j], k)
        => t[k] \in {None, orig[k]}

\* An event may be applied before its row is visible to the row copy.
AheadOfEngine(t, n, k) ==
    phase # "streaming" =>
        \A i \in InFlight : i > start /\ i <= n /\ Inserts(binlog[i], k)
                              => t[k] = orig[k]

Tracks(t, n, k) ==
    Settled(t, n, k) /\ InsertFits(t, n, k) /\ AheadOfEngine(t, n, k)

\* Once the copy is past k there is a row whenever the original has one: UPDATEs
\* that wait for the row find it.
Arrived(t, n, k) ==
    /\ NonePending(n, k) => t[k] = orig[k]
    /\ /\ ~NonePending(n, k)
       /\ \A i \in (n + 1)..Len(binlog) :
             Touches(binlog[i], k) => Updates(binlog[i], k)
       => t[k] # None

\* The copy is past k, or a process that resumes from the checkpoint will be.
Kept(k) == Covered(k) \/ k <= chkMax

KeyInv(t, n, k) == Tracks(t, n, k) /\ (Kept(k) => Arrived(t, n, k))

\* The ghost table tracks key k, and so does what an open batch makes of it.
KeySynced(k) ==
    KeyInv(ghost, applied, k) /\ (writer = "batch" => KeyInv(work, cursor, k))

SyncInv == \A k \in Keys : KeySynced(k)

\* What holds whatever the flags and faults.
FrameInv == TypeOK /\ EventsInv /\ HistoryInv /\ FlightInv /\ ProgressInv

IndInv ==
    TypeOK /\ EventsInv /\ HistoryInv /\ FlightInv /\ ProgressInv /\ SyncInv

-----------------------------------------------------------------------------
\* The code is right under conditions which the theorems assume: no batch with a
\* key-changing UPDATE is retried, a duplicate on a secondary unique key does not
\* go unnoticed, and the streamer does not go back to its initial coordinates
\* between the sentinel and the swap or, when the process may be resumed, from
\* beyond a checkpoint.
RetrySafe == ~KeyUpdates \/ MaxRetries = 1
UniqueSafe == ~SecondaryUnique \/ PanicOnWarnings
ReconnectSafe == ~FreshReaderFails
ResumeSafe == ~FreshReaderFails \/ ~Checkpoints

\* Keys are numbers, and NoKey is none of them.
LEMMA KeyFacts == NoKey \notin Keys /\ Keys \subseteq Int
BY BoundsAssumption DEF Keys, NoKey

\* The statements of the applier map tables to tables.
LEMMA StatementType ==
    ASSUME NEW t \in Tables, NEW e \in Events, NEW dml,
           EventOK(e)
    PROVE  BuildDMLEventQuery(t, e, dml) \in Tables
BY KeyFacts
DEF EventOK, BuildDMLEventQuery, InsertTarget, DMLInsert, DMLDelete, DMLUpdate,
    Tables, Events, Rows

\* A copied chunk leaves a table.
LEMMA CopyType ==
    ASSUME TypeOK, CopyChunk
    PROVE  ghost' \in Tables
BY DEF TypeOK, CopyChunk, Tables, Rows

\* Every step preserves the types.
LEMMA TypeStep ==
    ASSUME TypeOK, EventsInv, ProgressInv, [Next]_vars
    PROVE  TypeOK'
<1> USE BoundsAssumption, KeyFacts
<1>1. CASE Application
  <2>1. PICK e \in Events, t \in Tables : AppWrites(e, t)
    BY <1>1, ZenonT(60) DEF Application, AppInsert, AppUpdate, AppDelete, AppUpdateKey,
                Events, Tables, Rows, TypeOK
  <2>2. Append(binlog, e) \in Seq(Events) /\ Len(Append(binlog, e)) = Len(binlog) + 1
    BY DEF TypeOK
  <2> QED  BY <2>1, <2>2, SMTT(30) DEF AppWrites, TypeOK, copyVars, rangeVars,
                                       chkVars, batchVars
<1>2. CASE EngineCommit
  BY <1>2 DEF EngineCommit, TypeOK, copyVars, rangeVars, chkVars, batchVars
<1>3. CASE StreamerSkips
  BY <1>3 DEF StreamerSkips, TypeOK, appVars, copyVars, rangeVars, chkVars, batchVars
<1>4. CASE MigrateSteps
  <2>1. CASE AddDMLEventsListener
    BY <2>1 DEF AddDMLEventsListener, TypeOK, Phases, appVars, copyVars, rangeVars,
                chkVars, batchVars
  <2>2. CASE WriteRangeState
    BY <2>2 DEF WriteRangeState, TypeOK, Phases, appVars, copyVars, rangeVars,
                chkVars, batchVars
  <2>3. CASE ReadMigrationRangeValues
    BY <2>3 DEF ReadMigrationRangeValues, VisibleKeys, TypeOK, Phases, appVars,
                copyVars, rangeVars, chkVars, batchVars
  <2>4. CASE LockOriginal \/ AllEventsUpToLockProcessed \/ Swap \/ CutOverFails
    BY <2>4, ZenonT(60) DEF LockOriginal, AllEventsUpToLockProcessed,
       Swap, CutOverFails, TypeOK, Phases, appVars,
                copyVars, rangeVars, chkVars, batchVars
  <2> QED  BY <1>4, <2>1, <2>2, <2>3, <2>4 DEF MigrateSteps
<1>5. CASE WriterSteps
  <2>1. CASE NextChunk
    BY <2>1 DEF NextChunk, TypeOK, appVars, chkVars, batchVars
  <2>2. CASE CalculateNextIterationRangeEndValues
    BY <2>2 DEF CalculateNextIterationRangeEndValues, Remaining, VisibleKeys,
                TypeOK, Phases, appVars, chkVars, batchVars
  <2>3. CASE ApplyIterationInsertQuery
    BY <2>3, CopyType DEF ApplyIterationInsertQuery, TypeOK, Phases, appVars,
                          chkVars, batchVars
  <2>4. CASE CopyFails
    BY <2>4, CopyType DEF CopyFails, AttemptFails, TypeOK, Phases, appVars,
                          copyVars, rangeVars, chkVars, batchVars
  <2>5. CASE BeginBatch
    BY <2>5 DEF BeginBatch, TypeOK, appVars, copyVars, rangeVars, chkVars
  <2>6. CASE ExecuteStatement
    <3>1. binlog[cursor + 1] \in Events /\ cursor + 1 \in 1..Len(binlog)
      BY <2>6 DEF ExecuteStatement, TypeOK, ProgressInv
    <3>2. BuildDMLEventQuery(work, binlog[cursor + 1], dmlType) \in Tables
      BY <3>1, StatementType DEF EventsInv, TypeOK
    <3> QED  BY <2>6, <3>2 DEF ExecuteStatement, TypeOK, appVars, copyVars,
                               rangeVars, chkVars
  <2>7. CASE CommitBatch
    BY <2>7 DEF CommitBatch, EmptyTable, Tables, Rows, ProgressInv, TypeOK, appVars,
                copyVars, rangeVars, chkVars
  <2>8. CASE BatchFails
    BY <2>8, SMTT(30) DEF BatchFails, AttemptFails, TypeOK, Phases, appVars,
                          copyVars, rangeVars, chkVars
  <2>9. CASE BatchWarning
    BY <2>9 DEF BatchWarning, TypeOK, Phases, appVars, copyVars, rangeVars, chkVars,
                batchVars
  <2> QED  BY <1>5, <2>1, <2>2, <2>3, <2>4, <2>5, <2>6, <2>7, <2>8, <2>9 DEF WriterSteps
<1>6. CASE Reconnect
  BY <1>6 DEF Reconnect, TypeOK, appVars, copyVars, rangeVars, chkVars, batchVars
<1>7. CASE Checkpoint
  BY <1>7 DEF Checkpoint, TypeOK, appVars, rangeVars, batchVars
<1>8. CASE Resume
  BY <1>8 DEF Resume, EmptyTable, Tables, Rows, TypeOK, Phases, appVars, chkVars
<1>9. CASE UNCHANGED vars
  BY <1>9 DEF vars, TypeOK
<1> QED
  BY <1>1, <1>2, <1>3, <1>4, <1>5, <1>6, <1>7, <1>8, <1>9 DEF Next, Terminated

-----------------------------------------------------------------------------
(* What a write of the application does to the binlog and to the table.    *)

\* Table t is the original table after event e.
Effect(e, t) ==
    \A k \in Keys :
        /\ Inserts(e, k) => orig[k] = None /\ t[k] = e.val /\ e.val # None
        /\ Updates(e, k) => orig[k] # None /\ t[k] = e.val /\ e.val # None
        /\ Deletes(e, k) => orig[k] # None /\ t[k] = None
        /\ ~Touches(e, k) => t[k] = orig[k]

\* Every write of the application has the effect of its event.
LEMMA AppEffect ==
    ASSUME TypeOK, Application
    PROVE  \E e \in Events, t \in Tables : AppWrites(e, t) /\ EventOK(e) /\ Effect(e, t)
<1> USE KeyFacts, NoneAssumption
    DEF TypeOK, Tables, Events, Rows, EventOK, Effect, Inserts, Updates, Deletes, Touches
<1>1. CASE AppInsert
  <2>1. PICK k \in Keys, v \in Vals :
          /\ orig[k] = None
          /\ AppWrites([where |-> NoKey, new |-> k, val |-> v], [orig EXCEPT ![k] = v])
    BY <1>1, ZenonT(60) DEF AppInsert
  <2> DEFINE e == [where |-> NoKey, new |-> k, val |-> v]
             t == [orig EXCEPT ![k] = v]
  <2>2. e \in Events
    OBVIOUS
  <2>3. t \in Tables
    OBVIOUS
  <2>4. AppWrites(e, t) /\ EventOK(e) /\ Effect(e, t)
    BY <2>1
  <2> HIDE DEF e, t, Events, Tables, EventOK, Effect
  <2> QED  BY <2>2, <2>3, <2>4, Zenon
<1>2. CASE AppUpdate
  <2>1. PICK k \in Keys, v \in Vals :
          /\ orig[k] # None
          /\ AppWrites([where |-> k, new |-> k, val |-> v], [orig EXCEPT ![k] = v])
    BY <1>2, ZenonT(60) DEF AppUpdate
  <2> DEFINE e == [where |-> k, new |-> k, val |-> v]
             t == [orig EXCEPT ![k] = v]
  <2>2. e \in Events
    OBVIOUS
  <2>3. t \in Tables
    OBVIOUS
  <2>4. AppWrites(e, t) /\ EventOK(e) /\ Effect(e, t)
    BY <2>1
  <2> HIDE DEF e, t, Events, Tables, EventOK, Effect
  <2> QED  BY <2>2, <2>3, <2>4, Zenon
<1>3. CASE AppDelete
  <2>1. PICK k \in Keys :
          /\ orig[k] # None
          /\ AppWrites([where |-> k, new |-> NoKey, val |-> None], [orig EXCEPT ![k] = None])
    BY <1>3, ZenonT(60) DEF AppDelete
  <2> DEFINE e == [where |-> k, new |-> NoKey, val |-> None]
             t == [orig EXCEPT ![k] = None]
  <2>2. e \in Events
    OBVIOUS
  <2>3. t \in Tables
    OBVIOUS
  <2>4. AppWrites(e, t) /\ EventOK(e) /\ Effect(e, t)
    BY <2>1, SMTT(30)
  <2> HIDE DEF e, t, Events, Tables, EventOK, Effect
  <2> QED  BY <2>2, <2>3, <2>4, Zenon
<1>4. CASE AppUpdateKey
  <2>1. PICK k \in Keys, j \in Keys, v \in Vals :
          /\ KeyUpdates
          /\ orig[k] # None /\ orig[j] = None
          /\ AppWrites([where |-> k, new |-> j, val |-> v],
                       [orig EXCEPT ![k] = None, ![j] = v])
    BY <1>4 DEF AppUpdateKey
  <2> DEFINE e == [where |-> k, new |-> j, val |-> v]
             t == [orig EXCEPT ![k] = None, ![j] = v]
  <2>2. e \in Events
    OBVIOUS
  <2>3. t \in Tables
    BY SMTT(30)
  <2>4. AppWrites(e, t) /\ EventOK(e) /\ Effect(e, t)
    BY <2>1
  <2> HIDE DEF e, t, Events, Tables, EventOK, Effect
  <2> QED  BY <2>2, <2>3, <2>4, Zenon
<1> QED  BY <1>1, <1>2, <1>3, <1>4, ZenonT(60) DEF Application

\* The binlog after a write: one more event, the others as they were.
Appended(e) ==
    /\ Len(binlog') = Len(binlog) + 1
    /\ \A i \in 1..Len(binlog) : binlog'[i] = binlog[i]
    /\ binlog'[Len(binlog) + 1] = e

\* A write of the application is logged at the end of the binlog.
LEMMA AppAppends ==
    ASSUME TypeOK, NEW e \in Events, NEW t, AppWrites(e, t)
    PROVE  Appended(e)
BY DEF TypeOK, AppWrites, Appended

\* An event that touches a key inserts, deletes or updates it, and only one.
LEMMA Kinds ==
    \A e, k : /\ Touches(e, k) <=> Inserts(e, k) \/ Deletes(e, k) \/ Updates(e, k)
              /\ ~(Inserts(e, k) /\ Deletes(e, k))
              /\ ~(Inserts(e, k) /\ Updates(e, k))
              /\ ~(Deletes(e, k) /\ Updates(e, k))
              /\ Inserts(e, k) => e.new = k
              /\ Updates(e, k) => e.new = k
              /\ Deletes(e, k) => e.new # k
BY DEF Touches, Inserts, Deletes, Updates

\* A write of the application continues the history of its keys.
LEMMA AppHistory ==
    ASSUME TypeOK, EventsInv, HistoryInv, FlightInv,
           NEW e \in Events, NEW t \in Tables,
           AppWrites(e, t), EventOK(e), Effect(e, t)
    PROVE  EventsInv' /\ HistoryInv' /\ FlightInv'
<1>1. Appended(e) /\ Len(binlog) \in Nat /\ visible' = visible
  BY AppAppends DEF TypeOK, AppWrites
<1>2. EventsInv'
  BY <1>1 DEF EventsInv, Appended
<1>3. ASSUME NEW k \in Keys
      PROVE  /\ LastEvent(k)' /\ InsertAfterDelete(k)' /\ UpdateAfterInsert(k)'
             /\ GoneUnlessInserted(k)' /\ ThereUnlessDeleted(k)'
  <2>1. /\ LastEvent(k) /\ InsertAfterDelete(k) /\ UpdateAfterInsert(k)
        /\ GoneUnlessInserted(k) /\ ThereUnlessDeleted(k)
    BY DEF HistoryInv
  <2>2. orig' = t
    BY DEF AppWrites
  <2>3. /\ Inserts(e, k) => orig[k] = None /\ t[k] = e.val /\ e.val # None
        /\ Updates(e, k) => orig[k] # None /\ t[k] = e.val /\ e.val # None
        /\ Deletes(e, k) => orig[k] # None /\ t[k] = None
        /\ ~Touches(e, k) => t[k] = orig[k]
    BY DEF Effect
  <2>4. LastEvent(k)'
    <3> SUFFICES ASSUME NEW i \in 1..Len(binlog'), Touches(binlog'[i], k),
                        \A j \in (i + 1)..Len(binlog') : ~Touches(binlog'[j], k)
                 PROVE  orig'[k] = IF binlog'[i].new = k THEN binlog'[i].val ELSE None
      BY DEF LastEvent
    <3>1. CASE i = Len(binlog) + 1
      BY <3>1, <1>1, <2>2, <2>3, Kinds, SMTT(30) DEF Appended
    <3>2. CASE i \in 1..Len(binlog)
      <4>1. binlog'[i] = binlog[i] /\ ~Touches(e, k)
        BY <3>2, <1>1 DEF Appended
      <4>2. \A j \in (i + 1)..Len(binlog) : ~Touches(binlog[j], k)
        BY <3>2, <1>1 DEF Appended
      <4> QED  BY <3>2, <4>1, <4>2, <2>1, <2>2, <2>3, SMTT(30) DEF LastEvent
    <3> QED  BY <3>1, <3>2, <1>1 DEF Appended
  <2>5. InsertAfterDelete(k)'
    <3> SUFFICES ASSUME NEW i \in 1..Len(binlog'), NEW j \in 1..Len(binlog'), i < j,
                        Touches(binlog'[i], k), ~Deletes(binlog'[i], k),
                        Inserts(binlog'[j], k)
                 PROVE  \E m \in (i + 1)..(j - 1) : Deletes(binlog'[m], k)
      BY DEF InsertAfterDelete
    <3>1. i \in 1..Len(binlog) /\ binlog'[i] = binlog[i]
      BY <1>1 DEF Appended
    <3>2. CASE j \in 1..Len(binlog)
      <4>1. PICK m \in (i + 1)..(j - 1) : Deletes(binlog[m], k)
        BY <3>1, <3>2, <1>1, <2>1 DEF InsertAfterDelete, Appended
      <4> QED  BY <3>1, <3>2, <4>1, <1>1 DEF Appended
    <3>3. CASE j = Len(binlog) + 1
      <4>1. PICK m \in (i + 1)..Len(binlog) : Deletes(binlog[m], k)
        BY <3>1, <3>3, <1>1, <2>1, <2>3 DEF ThereUnlessDeleted, Appended
      <4> QED  BY <3>1, <3>3, <4>1, <1>1 DEF Appended
    <3> QED  BY <3>2, <3>3, <1>1 DEF Appended
  <2>6. UpdateAfterInsert(k)'
    <3> SUFFICES ASSUME NEW i \in 1..Len(binlog'), NEW j \in 1..Len(binlog'), i < j,
                        Deletes(binlog'[i], k),
                        Updates(binlog'[j], k)
                 PROVE  \E m \in (i + 1)..(j - 1) : Inserts(binlog'[m], k)
      BY DEF UpdateAfterInsert
    <3>1. i \in 1..Len(binlog) /\ binlog'[i] = binlog[i]
      BY <1>1 DEF Appended
    <3>2. CASE j \in 1..Len(binlog)
      <4>1. PICK m \in (i + 1)..(j - 1) : Inserts(binlog[m], k)
        BY <3>1, <3>2, <1>1, <2>1 DEF UpdateAfterInsert, Appended
      <4> QED  BY <3>1, <3>2, <4>1, <1>1 DEF Appended
    <3>3. CASE j = Len(binlog) + 1
      <4>1. PICK m \in (i + 1)..Len(binlog) : Inserts(binlog[m], k)
        BY <3>1, <3>3, <1>1, <2>1, <2>3, SMTT(30) DEF GoneUnlessInserted, Appended
      <4> QED  BY <3>1, <3>3, <4>1, <1>1 DEF Appended
    <3> QED  BY <3>2, <3>3, <1>1 DEF Appended
  <2>7. GoneUnlessInserted(k)'
    BY <1>1, <2>1, <2>2, <2>3, Kinds, SMTT(30) DEF GoneUnlessInserted, Appended
  <2>8. ThereUnlessDeleted(k)'
    BY <1>1, <2>1, <2>2, <2>3, Kinds DEF ThereUnlessDeleted, Appended
  <2> QED  BY <2>4, <2>5, <2>6, <2>7, <2>8
<1>4. FlightInv'
  <2> SUFFICES ASSUME NEW k \in Keys, NEW i \in InFlight', NEW j \in 1..Len(binlog'),
                      Touches(binlog'[i], k), Touches(binlog'[j], k)
               PROVE  j <= i
    BY DEF FlightInv
  <2>1. Touches(e, k) => \A m \in InFlight : ~Touches(binlog[m], k)
    BY DEF AppWrites, Locked
  <2>2. visible \in Nat /\ i \in Nat /\ visible < i /\ i <= Len(binlog) + 1
        /\ j \in Nat /\ 1 <= j /\ j <= Len(binlog) + 1
    BY <1>1 DEF InFlight, Appended, TypeOK
  <2>3. CASE i <= Len(binlog) /\ j <= Len(binlog)
    BY <1>1, <2>2, <2>3 DEF FlightInv, InFlight, Appended
  <2>4. CASE i <= Len(binlog) /\ j = Len(binlog) + 1
    <3>1. i \in InFlight /\ binlog'[i] = binlog[i] /\ binlog'[j] = e
      BY <1>1, <2>2, <2>4 DEF InFlight, Appended
    <3> QED  BY <2>1, <3>1
  <2> QED  BY <1>1, <2>2, <2>3, <2>4
<1> QED  BY <1>2, <1>3, <1>4 DEF HistoryInv

\* What comes after b comes after an earlier a.
LEMMA IntervalShrinks ==
    ASSUME NEW a \in Int, NEW b \in Int, NEW c \in Int, a <= b
    PROVE  (b + 1)..c \subseteq (a + 1)..c
<1> SUFFICES ASSUME NEW i \in (b + 1)..c PROVE i \in (a + 1)..c
  OBVIOUS
<1> QED
  OBVIOUS

-----------------------------------------------------------------------------
(* Every step preserves where the copy and the batch stand.                *)

LEMMA ProgressStep ==
    ASSUME TypeOK, ProgressInv, [Next]_vars
    PROVE  ProgressInv'
<1> USE BoundsAssumption, KeyFacts DEF TypeOK, ProgressInv, CopiedTo, NoKey
<1>1. CASE Application
  <2>1. PICK e \in Events, t \in Tables : AppWrites(e, t)
    BY <1>1, AppEffect
  <2>2. Len(binlog') = Len(binlog) + 1
    BY <2>1, AppAppends DEF Appended
  <2> QED  BY <2>1, <2>2 DEF AppWrites, copyVars, rangeVars, chkVars, batchVars
<1>2. CASE EngineCommit
  BY <1>2 DEF EngineCommit, copyVars, rangeVars, chkVars, batchVars
<1>3. CASE StreamerSkips
  BY <1>3 DEF StreamerSkips, appVars, copyVars, rangeVars, chkVars, batchVars
<1>4. CASE MigrateSteps
  <2>1. CASE AddDMLEventsListener
    BY <2>1 DEF AddDMLEventsListener, appVars, copyVars, rangeVars, chkVars, batchVars
  <2>2. CASE WriteRangeState
    BY <2>2 DEF WriteRangeState, appVars, copyVars, rangeVars, chkVars, batchVars
  <2>3. CASE ReadMigrationRangeValues
    BY <2>3 DEF ReadMigrationRangeValues, VisibleKeys, appVars, chkVars, batchVars
  <2>4. CASE LockOriginal \/ AllEventsUpToLockProcessed \/ Swap \/ CutOverFails
    BY <2>4, ZenonT(60) DEF LockOriginal, AllEventsUpToLockProcessed,
       Swap, CutOverFails, appVars, copyVars, rangeVars, chkVars, batchVars
  <2> HIDE DEF TypeOK, ProgressInv
  <2> QED  BY <1>4, <2>1, <2>2, <2>3, <2>4, ZenonT(60) DEF MigrateSteps
<1>5. CASE WriterSteps
  <2>1. CASE NextChunk
    BY <2>1 DEF NextChunk, appVars, chkVars, batchVars
  <2>2. CASE CalculateNextIterationRangeEndValues
    BY <2>2 DEF CalculateNextIterationRangeEndValues, Remaining, VisibleKeys,
                appVars, chkVars, batchVars
  <2>3. CASE ApplyIterationInsertQuery
    BY <2>3 DEF ApplyIterationInsertQuery, appVars, chkVars, batchVars
  <2>4. CASE CopyFails
    BY <2>4 DEF CopyFails, AttemptFails, appVars, copyVars, rangeVars, chkVars, batchVars
  <2>5. CASE BeginBatch
    BY <2>5 DEF BeginBatch, Writing, appVars, copyVars, rangeVars, chkVars
  <2>6. CASE ExecuteStatement
    BY <2>6 DEF ExecuteStatement, Writing, appVars, copyVars, rangeVars, chkVars
  <2>7. CASE CommitBatch
    BY <2>7 DEF CommitBatch, Writing, appVars, copyVars, rangeVars, chkVars
  <2>8. CASE BatchFails
    BY <2>8 DEF BatchFails, AttemptFails, Writing, appVars, copyVars, rangeVars, chkVars
  <2>9. CASE BatchWarning
    BY <2>9 DEF BatchWarning, Writing, appVars, copyVars, rangeVars, chkVars, batchVars
  <2> HIDE DEF TypeOK, ProgressInv
  <2> QED
    BY <1>5, <2>1, <2>2, <2>3, <2>4, <2>5, <2>6, <2>7, <2>8, <2>9,
        ZenonT(60) DEF WriterSteps
<1>6. CASE Reconnect
  BY <1>6 DEF Reconnect, appVars, copyVars, rangeVars, chkVars, batchVars
<1>7. CASE Checkpoint
  BY <1>7 DEF Checkpoint, Writing, appVars, rangeVars, batchVars
<1>8. CASE Resume
  BY <1>8 DEF Resume, appVars, chkVars
<1>9. CASE UNCHANGED vars
  BY <1>9 DEF vars
<1> HIDE DEF TypeOK, ProgressInv
<1> QED
  BY <1>1, <1>2, <1>3, <1>4, <1>5, <1>6, <1>7, <1>8, <1>9, ZenonT(60) DEF Next, Terminated

\* The history of the keys is a matter of the original table and its binlog.
LEMMA HistoryKept ==
    ASSUME HistoryInv, orig' = orig, binlog' = binlog
    PROVE  HistoryInv'
<1> SUFFICES ASSUME NEW k \in Keys
             PROVE  /\ LastEvent(k)'
                    /\ InsertAfterDelete(k)'
                    /\ UpdateAfterInsert(k)'
                    /\ GoneUnlessInserted(k)'
                    /\ ThereUnlessDeleted(k)'
  BY DEF HistoryInv
<1>1. LastEvent(k)'
  <2>1. LastEvent(k)
    BY DEF HistoryInv
  <2> QED  BY <2>1 DEF LastEvent
<1>2. InsertAfterDelete(k)'
  <2>1. InsertAfterDelete(k)
    BY DEF HistoryInv
  <2> QED  BY <2>1 DEF InsertAfterDelete
<1>3. UpdateAfterInsert(k)'
  <2>1. UpdateAfterInsert(k)
    BY DEF HistoryInv
  <2> QED  BY <2>1 DEF UpdateAfterInsert
<1>4. GoneUnlessInserted(k)'
  <2>1. GoneUnlessInserted(k)
    BY DEF HistoryInv
  <2> QED  BY <2>1 DEF GoneUnlessInserted
<1>5. ThereUnlessDeleted(k)'
  <2>1. ThereUnlessDeleted(k)
    BY DEF HistoryInv
  <2> QED  BY <2>1 DEF ThereUnlessDeleted
<1> QED  BY <1>1, <1>2, <1>3, <1>4, <1>5

-----------------------------------------------------------------------------
(* Every step preserves the history of the keys.                           *)

LEMMA HistoryStep ==
    ASSUME TypeOK, TypeOK', EventsInv, HistoryInv, FlightInv, [Next]_vars
    PROVE  EventsInv' /\ HistoryInv' /\ FlightInv'
<1>1. CASE Application
  <2>1. PICK e \in Events, t \in Tables : AppWrites(e, t) /\ EventOK(e) /\ Effect(e, t)
    BY <1>1, AppEffect
  <2> QED  BY <2>1, AppHistory
<1>2. CASE ~Application
  <2>1. orig' = orig /\ binlog' = binlog /\ visible <= visible'
    <3>1. visible \in Int
      BY DEF TypeOK
    <3>2. CASE EngineCommit
      BY <3>1, <3>2 DEF EngineCommit
    <3>3. CASE MigrateSteps
      BY <3>1, <3>3 DEF appVars, MigrateSteps, AddDMLEventsListener, WriteRangeState,
         ReadMigrationRangeValues, LockOriginal, AllEventsUpToLockProcessed,
       Swap, CutOverFails
    <3>4. CASE WriterSteps
      <4>1. UNCHANGED appVars
        BY <3>4 DEF WriterSteps, NextChunk, CalculateNextIterationRangeEndValues,
           ApplyIterationInsertQuery, CopyFails, BeginBatch, ExecuteStatement,
           CommitBatch, BatchFails, BatchWarning
      <4> QED  BY <3>1, <4>1 DEF appVars
    <3>5. CASE StreamerSkips \/ Reconnect \/ Checkpoint \/ Resume \/ UNCHANGED vars
      BY <3>1, <3>5 DEF vars, appVars, StreamerSkips, Reconnect, Checkpoint, Resume
    <3> QED  BY <1>2, <3>2, <3>3, <3>4, <3>5 DEF Next, Terminated
  <2>2. EventsInv'
    BY <2>1, SMTT(30) DEF EventsInv
  <2>3. HistoryInv'
    BY <2>1, HistoryKept
  <2>4. FlightInv'
    <3>1. InFlight' \subseteq InFlight
      <4>1. visible \in Int /\ visible' \in Int /\ Len(binlog) \in Int
        BY DEF TypeOK
      <4> QED  BY <2>1, <4>1, IntervalShrinks DEF InFlight
    <3> QED  BY <2>1, <3>1 DEF FlightInv
  <2> QED  BY <2>2, <2>3, <2>4
<1> QED  BY <1>1, <1>2

-----------------------------------------------------------------------------
(* The keys that the row copy is past.                                     *)

\* Where the streamer, the writer and the copy stand are numbers.
LEMMA Cursors ==
    ASSUME TypeOK
    PROVE  /\ binlog \in Seq(Events) /\ Len(binlog) \in Nat /\ visible \in Int
           /\ applied \in 0..Len(binlog) /\ applied \in Nat
           /\ cursor \in Nat /\ batchEnd \in Nat /\ work \in Tables
           /\ iteration \in Nat
BY SMTT(30) DEF TypeOK

\* The ends of ranges are numbers.
LEMMA RangeInts ==
    ASSUME TypeOK
    PROVE  /\ rangeMin \in Int /\ rangeMax \in Int /\ iterMin \in Int /\ iterMax \in Int
           /\ lastMax \in Int /\ chkMax \in Int
BY KeyFacts, SMTT(30) DEF TypeOK, NoKey

\* The statements executed so far lie between what was applied and the batch's end.
LEMMA BatchBounds ==
    ASSUME TypeOK, ProgressInv, writer = "batch"
    PROVE  /\ applied <= cursor /\ cursor \in 0..Len(binlog)
           /\ batchEnd <= Len(binlog)
BY Cursors DEF ProgressInv

\* No statement of a batch that moves keys is built a second time.
LEMMA BuiltOnce ==
    ASSUME ProgressInv, RetrySafe, Writing
    PROVE  KeyUpdates => dmlType # "overwritten"
BY DEF ProgressInv, RetrySafe, Writing

\* Only the row copy's own steps extend what it is past.
LEMMA KeptFrame ==
    ASSUME NEW CONSTANT k, UNCHANGED copyVars, phase' \in {phase, "aborted"},
           writer' \in {"range", "chunk"} <=> writer \in {"range", "chunk"}
    PROVE  Kept(k)' => Kept(k)
<1>1. UNCHANGED <<rangeMin, rangeMax, iterMin, iterMax, iteration, chkMax>>
  BY DEF copyVars, rangeVars, chkVars
<1>2. CopiedTo' = CopiedTo
  BY <1>1 DEF CopiedTo
<1> QED  BY <1>1, <1>2, SMTT(30) DEF Kept, Covered

\* No row was copied when the streamer skips an event.
LEMMA KeptSkips ==
    ASSUME TypeOK, ProgressInv, NEW CONSTANT k \in Keys, StreamerSkips
    PROVE  ghost = EmptyTable /\ writer' = "idle" /\ phase' = "streaming" /\ ~Kept(k)'
<1>1. /\ phase = "streaming" /\ phase' = phase /\ writer' = writer
      /\ chkMax = NoKey /\ chkMax' = chkMax /\ iteration' = iteration
  BY DEF StreamerSkips, copyVars, rangeVars, chkVars
<1>2. writer = "idle" /\ ghost = EmptyTable /\ ~(iteration > 0)
  BY <1>1 DEF ProgressInv
<1>3. ~(k <= NoKey)
  BY BoundsAssumption DEF Keys, NoKey
<1> QED  BY <1>1, <1>2, <1>3 DEF Kept, Covered

\* A chunk takes the copy to its end.
LEMMA KeptChunk ==
    ASSUME TypeOK, ProgressInv, NEW CONSTANT k \in Keys,
           phase = "copying", phase' = phase, writer = "chunk", writer' = "idle",
           UNCHANGED <<rangeMin, rangeMax, iterMin, iterMax, chkMax>>
    PROVE  Kept(k)' => Kept(k) \/ InChunk(k)
<1>1. k \in Int
  BY KeyFacts
<1> QED  BY <1>1, Cursors, RangeInts, SMTT(30)
         DEF Kept, Covered, CopiedTo, InChunk, ProgressInv

\* Turning to the next chunk takes the copy no further.
LEMMA KeptNextChunk ==
    ASSUME TypeOK, ProgressInv, NEW CONSTANT k \in Keys, NextChunk
    PROVE  Kept(k)' => Kept(k)
<1>1. k \in Int
  BY KeyFacts
<1> QED  BY <1>1, Cursors, RangeInts, KeyFacts, SMTT(30)
         DEF NextChunk, chkVars, Kept, Covered, CopiedTo, ProgressInv

\* No row is visible past the last chunk.
LEMMA KeptLast ==
    ASSUME TypeOK, ProgressInv, NEW CONSTANT k \in Keys,
           phase = "copying", writer = "range", Remaining = {}
    PROVE  ~Kept(k) => ~RowVisible(k)
<1>1. k \in Int
  BY KeyFacts
<1> QED  BY <1>1, Cursors, RangeInts, SMTT(30)
         DEF Kept, Covered, CopiedTo, Remaining, VisibleKeys, ProgressInv

\* A checkpoint holds the end of a range that was copied.
LEMMA KeptCheckpoint ==
    ASSUME TypeOK, ProgressInv, NEW CONSTANT k \in Keys, Checkpoint
    PROVE  Kept(k)' => Kept(k)
<1>1. PICK m \in Keys : m <= lastMax /\ chkMax' = m
  BY DEF Checkpoint
<1>2. /\ Writing /\ lastMax # NoKey
      /\ UNCHANGED <<phase, writer, rangeMin, rangeMax, iterMin, iterMax, iteration>>
  BY DEF Checkpoint, rangeVars
<1>3. CopiedTo \in Int /\ lastMax \in Int /\ m \in Int /\ k \in Int
  BY RangeInts, KeyFacts DEF CopiedTo
<1>4. phase = "copying" => iteration > 0 /\ lastMax <= CopiedTo
  BY <1>2 DEF ProgressInv
<1>5. k <= lastMax => Covered(k)
  BY <1>2, <1>3, <1>4 DEF Covered, Writing
<1>6. Covered(k)' <=> Covered(k)
  BY <1>2 DEF Covered, CopiedTo
<1> QED  BY <1>1, <1>3, <1>5, <1>6 DEF Kept

\* The next process starts from the checkpoint, which is behind the streamer.
LEMMA KeptResume ==
    ASSUME TypeOK, ProgressInv, ResumeSafe, NEW CONSTANT k \in Keys, Resume
    PROVE  chkCoords \in 0..applied /\ (Kept(k)' => Kept(k))
<1>1. chkCoords \in Nat
  BY Cursors, SMTT(30) DEF TypeOK
<1>2. chkCoords <= applied
  BY DEF Resume, ProgressInv, ResumeSafe
<1>3. Kept(k)' => Kept(k)
  BY SMTT(30) DEF Resume, chkVars, Kept, Covered, CopiedTo
<1> QED  BY <1>1, <1>2, <1>3, Cursors

-----------------------------------------------------------------------------
(* What holds whatever the flags and faults.                               *)

\* Migrate() starts with an empty ghost table and nothing read.
LEMMA InitFrame ==
    ASSUME Init
    PROVE  FrameInv
<1> USE BoundsAssumption, KeyFacts DEF Init
<1>1. EmptyTable \in Tables
  BY DEF EmptyTable, Tables, Rows
<1>2. TypeOK
  BY <1>1, SMTT(30) DEF TypeOK, Phases
<1>3. Len(binlog) = 0
  OBVIOUS
<1>4. \A i \in 1..Len(binlog) : FALSE
  BY <1>3
<1>5. /\ phase = "streaming" /\ writer = "idle" /\ dmlType = "read"
      /\ lastMax = NoKey /\ iterMax = NoKey /\ chkMax = NoKey
      /\ iteration = 0 /\ chkCoords = 0 /\ applied = 0
      /\ ghost = EmptyTable
  OBVIOUS
<1> HIDE DEF Init
<1>6. EventsInv
  BY <1>4, ZenonT(60) DEF EventsInv
<1>7. HistoryInv
  BY <1>4, ZenonT(60) DEF HistoryInv, LastEvent, InsertAfterDelete, UpdateAfterInsert,
                          GoneUnlessInserted, ThereUnlessDeleted
<1>8. FlightInv
  BY <1>4, ZenonT(60) DEF FlightInv
<1>9. ProgressInv
  BY <1>5 DEF ProgressInv
<1> QED
  BY <1>2, <1>6, <1>7, <1>8, <1>9 DEF FrameInv

\* Every step keeps types, histories and cursors as they should be.
LEMMA FrameStep ==
    ASSUME FrameInv, [Next]_vars
    PROVE  FrameInv'
<1>1. TypeOK'
  BY TypeStep DEF FrameInv
<1>2. EventsInv' /\ HistoryInv' /\ FlightInv'
  BY <1>1, HistoryStep DEF FrameInv
<1>3. ProgressInv'
  BY ProgressStep DEF FrameInv
<1> QED  BY <1>1, <1>2, <1>3 DEF FrameInv

\* Every variable keeps its type and the cursors stay inside the binlog, whatever
\* the flags and the retries.
THEOREM TypeCorrect == Spec => []TypeOK
<1>1. FrameInv => TypeOK
  BY DEF FrameInv
<1> QED  BY <1>1, InitFrame, FrameStep, PTL DEF Spec

\* Every chunk ends past the one before and within the migration range, whatever the
\* flags and faults: a row copy has at most as many chunks as its range has keys.
THEOREM Advances == Spec => CopyAdvances
<1>1. ASSUME FrameInv, [Next]_vars
      PROVE  [writer = "chunk" /\ writer' = "idle" /\ phase' = "copying"
                 => lastMax < lastMax' /\ lastMax' <= rangeMax']_vars
  <2> SUFFICES ASSUME writer = "chunk", writer' = "idle", phase' = "copying"
               PROVE  lastMax < lastMax' /\ lastMax' <= rangeMax'
    OBVIOUS
  <2>1. ApplyIterationInsertQuery
    <3>1. ~Application
      BY ZenonT(60) DEF Application, AppInsert, AppUpdate, AppDelete, AppUpdateKey,
                        AppWrites
    <3>2. ~MigrateSteps
      BY <1>1, SMTT(30) DEF FrameInv, MigrateSteps, AddDMLEventsListener, WriteRangeState,
         ReadMigrationRangeValues, LockOriginal, AllEventsUpToLockProcessed, Swap,
         CutOverFails, ProgressInv
    <3>3. WriterSteps => ApplyIterationInsertQuery
      BY SMTT(30) DEF WriterSteps, NextChunk, CalculateNextIterationRangeEndValues,
                      CopyFails,
         BeginBatch, ExecuteStatement, CommitBatch, BatchFails, BatchWarning
    <3>4. ~(EngineCommit \/ StreamerSkips \/ Reconnect \/ Checkpoint \/ Resume
              \/ UNCHANGED vars)
      BY DEF EngineCommit, StreamerSkips, Reconnect, Checkpoint, Resume, vars
    <3> QED  BY <1>1, <3>1, <3>2, <3>3, <3>4, ZenonT(60) DEF Next, Terminated
  <2>2. phase = "copying" /\ lastMax' = iterMax /\ rangeMax' = rangeMax
    BY <2>1 DEF ApplyIterationInsertQuery
  <2>3. lastMax \in Int /\ iterMin \in Int /\ iterMax \in Int /\ iteration \in {0, 1}
    BY <1>1, KeyFacts DEF FrameInv, TypeOK, NoKey
  <2> QED
    BY <1>1, <2>2, <2>3, KeyFacts, BoundsAssumption
    DEF FrameInv, ProgressInv, CopiedTo, Keys, NoKey
<1> QED  BY <1>1, InitFrame, FrameStep, PTL DEF Spec, CopyAdvances

=============================================================================
