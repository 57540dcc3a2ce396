--------------------------- MODULE EventPipeline ---------------------------
(***************************************************************************)
(* The way of a row event from the server's binary log to the ghost table, *)
(* and the checkpoints taken of it: the reader (GoMySQLReader.StreamEvents) *)
(* hands entries over a channel to the dispatcher (notifyListeners), which *)
(* fills applyEventsQueue; the writer (onApplyEventStruct) applies batches *)
(* of them, acknowledges completed transactions, and reports the sentinel  *)
(* the cut-over waits for.  A checkpoint (Migrator.Checkpoint) persists an *)
(* acknowledged transaction; --resume and --revert start again from it.    *)
(*                                                                         *)
(* An entry of the binlog is a GTID event, a row event of the original     *)
(* table (its key), a row of the changelog table (a heartbeat or the       *)
(* sentinel), or the XID event that ends the transaction.  Coordinates are *)
(* positions in this log.  The entries that travel are such positions too: *)
(* that of an XID event stands for the marker of a completed transaction.  *)
(*                                                                         *)
(* A row of the ghost table is known by the last event applied to it.  The *)
(* rows are taken to be copied already: the row copy is GhostSync's part.  *)
(***************************************************************************)
EXTENDS Integers, Sequences, FiniteSetsExt

CONSTANTS
    Keys,             \* keys of the original table
    Transactions,     \* what the application's transactions write: sequences of keys
    QueueSize,        \* MaxEventsBatchSize, the capacity of applyEventsQueue
    DMLBatchSize,     \* --dml-batch-size
    UseGTIDs,         \* --gtid
    MaxTransactions,  \* bound: transactions in the binlog
    MaxReconnects,    \* bound: reconnects of the reader
    MaxCrashes,       \* bound: ends of the process before its work is done
    Faults            \* see FaultKinds

\* "window": rows are written, or were since the checkpoint, while a resuming or
\* reverting process streams already and its DML listener is not registered yet.
\* "fresh": a reader fails again before it completes a transaction.
FaultKinds == {"window", "fresh"}

ASSUME PipelineAssumption ==
    /\ Transactions \subseteq Seq(Keys)
    /\ Keys \cap {"gtid", "xid", "heartbeat", "sentinel"} = {}
    /\ QueueSize \in Nat \ {0} /\ DMLBatchSize \in Nat \ {0}
    /\ UseGTIDs \in BOOLEAN
    /\ MaxTransactions \in Nat /\ MaxReconnects \in Nat /\ MaxCrashes \in Nat
    /\ Faults \subseteq FaultKinds

VARIABLES
    binlog,       \* the binary log
    ghost,        \* the last event applied to each row of the ghost table (for
                  \* Revert(), the old table), or 0
    owed,         \* where the DML listener was first registered: what was written
                  \* before is read by the row copy
    table,        \* the table behind the original's name
    checkpoint,   \* the last row of the checkpoint table: coordinates, IsCutover
    process,      \* "streaming", "writing" (the listener is registered) or "down"
    main,         \* where the cut-over stands
    challenge,    \* the sentinel it waits for
    lockProcessed,     \* the channel allEventsUpToLockProcessed: a sentinel, or 0
    initial,      \* initialBinlogCoordinates
    connectedAt,  \* where the present reader was connected
    readPos,      \* the last event it has read
    lastTrx,      \* its LastTrxCoords, or 0
    trxRows,      \* transactionHasRows: "none" or "some"
    undecoded,    \* rows up to here were parsed before the listener was registered
    inHand,       \* the entry the reader is about to send
    events,       \* eventsChannel, and the entry in the dispatcher's hand
    enqueuing,    \* sentinels on their way into the queue
    queue,        \* applyEventsQueue
    batch,        \* what onApplyEventStruct took from the queue
    writer,       \* "idle", "batch" or "committed"
    appliedTrx,   \* AppliedTransactionCoordinates, or 0
    sampled,      \* the coordinates a Checkpoint under way waits for
    reconnects, crashes

tableVars == <<binlog, ghost, owed, table, checkpoint>>
mainVars == <<main, challenge>>
readerVars == <<initial, connectedAt, readPos, lastTrx, trxRows, undecoded, inHand>>
writerVars == <<batch, writer, appliedTrx>>
vars == <<tableVars, process, mainVars, lockProcessed, readerVars, events,
          enqueuing, queue, writerVars, sampled, reconnects, crashes>>

-----------------------------------------------------------------------------
Positions == 1..Len(binlog)
LastEvent(k) == Max({0} \cup {i \in Positions : binlog[i] = k})

IsRow(p) == binlog[p] \in Keys
IsMarker(p) == binlog[p] = "xid"
IsFunc(p) == binlog[p] \in {"heartbeat", "sentinel"}

\* The reader's coordinates at event p.  A GTID set has the whole transaction in it
\* as soon as its GTID event is read; a file position is that of the event.  (A
\* compressed transaction, one payload event, is ahead in the same way.)
CoordsAt(p) ==
    IF UseGTIDs /\ p > 0
      THEN Min({i \in Positions : i >= p /\ IsMarker(i)})
      ELSE p

NoCheckpoint == [coords |-> 0, cutover |-> FALSE]

Init ==
    /\ binlog = << >>
    /\ ghost = [k \in Keys |-> 0]
    /\ owed = 0
    /\ table = "original"
    /\ checkpoint = NoCheckpoint
    /\ process = "streaming"
    /\ main = "running"
    /\ challenge = 0
    /\ lockProcessed = 0
    /\ initial = 0 /\ connectedAt = 0
    /\ readPos = 0 /\ lastTrx = 0 /\ trxRows = "none" /\ undecoded = 0
    /\ inHand = << >> /\ events = << >> /\ enqueuing = {} /\ queue = << >>
    /\ batch = << >> /\ writer = "idle"
    /\ appliedTrx = 0
    /\ sampled = {}
    /\ reconnects = 0 /\ crashes = 0

-----------------------------------------------------------------------------
(* The server's binary log.                                                *)

Log(rows) ==
    /\ Cardinality({i \in Positions : IsMarker(i)}) < MaxTransactions
    /\ binlog' = binlog \o <<"gtid">> \o rows \o <<"xid">>

Transact ==
    /\ main \notin {"waiting", "synced"}  \* LOCK TABLES
    /\ \E rows \in Transactions : Log(rows)
    /\ UNCHANGED <<ghost, owed, table, checkpoint, process, mainVars,
                   lockProcessed, readerVars, events, enqueuing, queue,
                   writerVars, sampled, reconnects, crashes>>

\* InitiateHeartbeat
InjectHeartbeat ==
    /\ process # "down"
    /\ Log(<<"heartbeat">>)
    /\ UNCHANGED <<ghost, owed, table, checkpoint, process, mainVars,
                   lockProcessed, readerVars, events, enqueuing, queue,
                   writerVars, sampled, reconnects, crashes>>

-----------------------------------------------------------------------------
(* The reader: GoMySQLReader.StreamEvents.                                 *)

\* A row of a table nobody listens for when it is parsed is not decoded.
Undecoded(p) == IsRow(p) /\ (process = "streaming" \/ p <= undecoded)

\* An event is read; if it is one to send, the reader goes on when it is sent.
ReadEvent ==
    /\ process # "down"
    /\ inHand = << >>
    /\ readPos < Len(binlog)
    /\ LET p == readPos + 1
           sends == \/ IsRow(p) /\ ~Undecoded(p)
                    \/ IsFunc(p)
                    \/ IsMarker(p) /\ trxRows = "some"
       IN  /\ Undecoded(p) /\ initial > 0 => "window" \in Faults
           /\ readPos' = p
           /\ inHand' = IF sends THEN <<p>> ELSE << >>
           /\ lastTrx' = IF IsMarker(p) /\ ~sends THEN p ELSE lastTrx
    /\ UNCHANGED <<tableVars, process, mainVars, lockProcessed, initial,
                   connectedAt, trxRows, undecoded, events, enqueuing, queue,
                   writerVars, sampled, reconnects, crashes>>

\* The channel and the dispatcher behind it hold an entry each.  A transaction
\* counts as read when its marker is sent.
SendEntry ==
    /\ process # "down"
    /\ inHand # << >>
    /\ Len(events) < 2
    /\ events' = events \o inHand
    /\ inHand' = << >>
    /\ IF IsMarker(inHand[1])
         THEN trxRows' = "none" /\ lastTrx' = inHand[1]
         ELSE trxRows' = "some" /\ UNCHANGED lastTrx
    /\ UNCHANGED <<tableVars, process, mainVars, lockProcessed, initial,
                   connectedAt, readPos, undecoded, enqueuing, queue,
                   writerVars, sampled, reconnects, crashes>>

\* Mutant: the new reader is connected at the coordinates of the old one.
ReconnectAtCurrent ==
    /\ process # "down"
    /\ inHand = << >>
    /\ reconnects < MaxReconnects
    /\ readPos' = CoordsAt(readPos)
    /\ connectedAt' = readPos'
    /\ lastTrx' = 0
    /\ trxRows' = "none"
    /\ undecoded' = 0
    /\ reconnects' = reconnects + 1
    /\ UNCHANGED <<tableVars, process, mainVars, lockProcessed, initial,
                   inHand, events, enqueuing, queue, writerVars, sampled,
                   crashes>>

\* EventsStreamer.StreamEvents: the connection failed, a new reader is connected
\* where the old one completed a transaction, or else at the initial coordinates.
Reconnect ==
    /\ process # "down"
    /\ inHand = << >>
    /\ reconnects < MaxReconnects
    /\ lastTrx = 0 /\ connectedAt # initial => "fresh" \in Faults
    /\ readPos' = IF lastTrx # 0 THEN lastTrx ELSE initial
    /\ connectedAt' = readPos'
    /\ lastTrx' = 0
    /\ trxRows' = "none"
    /\ undecoded' = 0
    /\ reconnects' = reconnects + 1
    /\ UNCHANGED <<tableVars, process, mainVars, lockProcessed, initial,
                   inHand, events, enqueuing, queue, writerVars, sampled,
                   crashes>>

-----------------------------------------------------------------------------
(* The dispatcher: notifyListeners.                                        *)

Enqueue(p) == Len(queue) < QueueSize /\ queue' = Append(queue, p)

\* Mutant: the listener for markers is registered from the start.
DispatchMarkers ==
    /\ process # "down"
    /\ events # << >>
    /\ LET p == Head(events)
       IN  IF binlog[p] = "sentinel"
             THEN enqueuing' = enqueuing \cup {p} /\ UNCHANGED queue
             ELSE Enqueue(p) /\ UNCHANGED enqueuing
    /\ events' = Tail(events)
    /\ UNCHANGED <<tableVars, process, mainVars, lockProcessed, readerVars,
                   writerVars, sampled, reconnects, crashes>>

\* Rows, markers and heartbeats are enqueued by the dispatcher, which waits for
\* room; the sentinel by a goroutine of its own.
Dispatch ==
    /\ process # "down"
    /\ events # << >>
    /\ LET p == Head(events)
       IN  CASE binlog[p] = "sentinel" ->
                  enqueuing' = enqueuing \cup {p} /\ UNCHANGED queue
             [] IsMarker(p) /\ process = "streaming" ->
                  UNCHANGED <<enqueuing, queue>>
             [] OTHER -> Enqueue(p) /\ UNCHANGED enqueuing
    /\ events' = Tail(events)
    /\ UNCHANGED <<tableVars, process, mainVars, lockProcessed, readerVars,
                   writerVars, sampled, reconnects, crashes>>

EnqueueSentinel(p) ==
    /\ process # "down"
    /\ p \in enqueuing
    /\ Enqueue(p)
    /\ enqueuing' = enqueuing \ {p}
    /\ UNCHANGED <<tableVars, process, mainVars, lockProcessed, readerVars,
                   events, writerVars, sampled, reconnects, crashes>>

\* The dispatcher holds listenersMutex while it waits for room in the queue.  (An
\* entry that is alone may not have been received by the dispatcher yet.)
MutexFree ==
    Len(events) = 2 => Len(queue) < QueueSize \/ binlog[Head(events)] # "heartbeat"

\* The parser runs ahead of the reader: some of the rows in the log may have been
\* parsed, and left undecoded, when the listener is registered.
AddDMLEventsListener ==
    /\ process = "streaming"
    /\ MutexFree
    /\ process' = "writing"
    /\ undecoded' \in readPos..Len(binlog)
    /\ IF initial = 0
         THEN owed' = Len(binlog)
         ELSE UNCHANGED owed /\ ("window" \in Faults \/ undecoded' = readPos)
    /\ UNCHANGED <<binlog, ghost, table, checkpoint, mainVars, lockProcessed,
                   initial, connectedAt, readPos, lastTrx, trxRows, inHand,
                   events, enqueuing, queue, writerVars, sampled, reconnects,
                   crashes>>

-----------------------------------------------------------------------------
(* The writer: onApplyEventStruct.                                         *)

\* The channel has room for one sentinel, and the last one stays.
Reported(funcs) ==
    IF \E p \in funcs : binlog[p] = "sentinel"
      THEN CHOOSE p \in funcs : binlog[p] = "sentinel" ELSE lockProcessed

\* A marker or a function at the head of the queue.
HandleNonDML ==
    /\ process = "writing" /\ writer = "idle"
    /\ queue # << >>
    /\ LET p == Head(queue)
       IN  /\ ~IsRow(p)
           /\ appliedTrx' = IF IsMarker(p) THEN p ELSE appliedTrx
           /\ lockProcessed' = Reported({p})
    /\ queue' = Tail(queue)
    /\ UNCHANGED <<tableVars, process, mainVars, readerVars, events, enqueuing,
                   batch, writer, sampled, reconnects, crashes>>

\* The batch ends when the queue is empty, full with rows, or after a function.
BatchEnds(n) ==
    \/ n = Len(queue)
    \/ Cardinality({i \in 1..n : IsRow(queue[i])}) = DMLBatchSize
    \/ IsFunc(queue[n])

\* Mutant: markers are acknowledged while rows are merely collected.
CollectBatchAcknowledges ==
    /\ process = "writing" /\ writer = "idle"
    /\ queue # << >> /\ IsRow(Head(queue))
    /\ \E n \in 1..Len(queue) :
          /\ BatchEnds(n) /\ \A m \in 1..(n - 1) : ~BatchEnds(m)
          /\ batch' = SubSeq(queue, 1, n)
          /\ queue' = SubSeq(queue, n + 1, Len(queue))
          /\ appliedTrx' = IF IsMarker(queue[n]) THEN queue[n] ELSE appliedTrx
    /\ writer' = "batch"
    /\ UNCHANGED <<tableVars, process, mainVars, lockProcessed, readerVars,
                   events, enqueuing, sampled, reconnects, crashes>>

CollectBatch ==
    /\ process = "writing" /\ writer = "idle"
    /\ queue # << >> /\ IsRow(Head(queue))
    /\ \E n \in 1..Len(queue) :
          /\ BatchEnds(n) /\ \A m \in 1..(n - 1) : ~BatchEnds(m)
          /\ batch' = SubSeq(queue, 1, n)
          /\ queue' = SubSeq(queue, n + 1, Len(queue))
    /\ writer' = "batch"
    /\ UNCHANGED <<tableVars, process, mainVars, lockProcessed, readerVars,
                   events, enqueuing, appliedTrx, sampled, reconnects, crashes>>

\* ApplyDMLEventQueries; attempts that fail are repeated.  Once the tables are
\* swapped there is no ghost table.
ApplyBatch ==
    /\ process = "writing" /\ writer = "batch"
    /\ main \notin {"swapped", "done"}
    /\ ghost' = [k \in Keys |->
                    LET onK == {i \in DOMAIN batch : binlog[batch[i]] = k}
                    IN  IF onK = {} THEN ghost[k] ELSE batch[Max(onK)]]
    /\ writer' = "committed"
    /\ UNCHANGED <<binlog, owed, table, checkpoint, process, mainVars,
                   lockProcessed, readerVars, events, enqueuing, queue, batch,
                   appliedTrx, sampled, reconnects, crashes>>

\* The last marker of the batch is acknowledged, the function at its end called.
AcknowledgeBatch ==
    /\ process = "writing" /\ writer = "committed"
    /\ LET markers == {i \in DOMAIN batch : IsMarker(batch[i])}
       IN  appliedTrx' = IF markers = {} THEN appliedTrx ELSE batch[Max(markers)]
    /\ lockProcessed' = Reported({batch[Len(batch)]})
    /\ batch' = << >>
    /\ writer' = "idle"
    /\ UNCHANGED <<tableVars, process, mainVars, readerVars, events, enqueuing,
                   queue, sampled, reconnects, crashes>>

-----------------------------------------------------------------------------
(* Checkpoints: checkpointLoop and Migrator.Checkpoint.                    *)

\* No checkpoint is begun in the critical section or after the cut-over.
BeginCheckpoint ==
    /\ process = "writing"
    /\ main = "running" /\ table = "original"
    /\ sampled = {}
    /\ sampled' = {CoordsAt(readPos)}
    /\ UNCHANGED <<tableVars, process, mainVars, lockProcessed, readerVars,
                   events, enqueuing, queue, writerVars, reconnects, crashes>>

WriteCheckpoint ==
    /\ process = "writing"
    /\ appliedTrx # 0
    /\ \E coords \in sampled : coords <= appliedTrx
    /\ checkpoint' = [coords |-> appliedTrx, cutover |-> FALSE]
    /\ sampled' = {}
    /\ UNCHANGED <<binlog, ghost, owed, table, process, mainVars, lockProcessed,
                   readerVars, events, enqueuing, queue, writerVars, reconnects,
                   crashes>>

\* checkpointTimeout, or a failing INSERT.
CheckpointFails ==
    /\ process = "writing"
    /\ sampled # {}
    /\ sampled' = {}
    /\ UNCHANGED <<tableVars, process, mainVars, lockProcessed, readerVars,
                   events, enqueuing, queue, writerVars, reconnects, crashes>>

-----------------------------------------------------------------------------
(* The cut-over, as far as it goes by the events: waitForEventsUpToLock,   *)
(* the swap, and CheckpointAfterCutOver.                                   *)

\* The original table is locked and the sentinel written.
InjectSentinel ==
    /\ process = "writing"
    /\ main = "running"
    /\ Log(<<"sentinel">>)
    /\ challenge' = Len(binlog) + 2
    /\ main' = "waiting"
    /\ UNCHANGED <<ghost, owed, table, checkpoint, process, lockProcessed,
                   readerVars, events, enqueuing, queue, writerVars, sampled,
                   reconnects, crashes>>

\* Mutant: any sentinel will do.
ReceiveLockProcessedAny ==
    /\ main = "waiting"
    /\ lockProcessed # 0
    /\ main' = "synced"
    /\ lockProcessed' = 0
    /\ UNCHANGED <<tableVars, process, challenge, readerVars, events, enqueuing,
                   queue, writerVars, sampled, reconnects, crashes>>

\* The sentinels of earlier attempts are skipped.
ReceiveLockProcessed ==
    /\ main = "waiting"
    /\ lockProcessed # 0
    /\ main' = IF lockProcessed = challenge THEN "synced" ELSE "waiting"
    /\ lockProcessed' = 0
    /\ UNCHANGED <<tableVars, process, challenge, readerVars, events, enqueuing,
                   queue, writerVars, sampled, reconnects, crashes>>

\* The wait times out, or a later step of the attempt fails.
CutOverFails ==
    /\ main \in {"waiting", "synced"}
    /\ main' = "running"
    /\ UNCHANGED <<tableVars, process, challenge, lockProcessed, readerVars,
                   events, enqueuing, queue, writerVars, sampled, reconnects,
                   crashes>>

\* The table that is not in use is now the old one, which has every event so far.
Swap ==
    /\ main = "synced"
    /\ main' = "swapped"
    /\ table' = IF table = "original" THEN "ghost" ELSE "original again"
    /\ ghost' = [k \in Keys |-> LastEvent(k)]
    /\ owed' = Len(binlog)
    /\ UNCHANGED <<binlog, checkpoint, process, challenge, lockProcessed,
                   readerVars, events, enqueuing, queue, writerVars, sampled,
                   reconnects, crashes>>

\* The coordinates of the sentinel's row event.  A failure is a warning only, and
\* leaves "swapped"; Revert() takes no checkpoint.
CheckpointAfterCutOver ==
    /\ process = "writing" /\ main = "swapped" /\ table = "ghost"
    /\ checkpoint' = [coords |-> CoordsAt(challenge), cutover |-> TRUE]
    /\ main' = "done"
    /\ UNCHANGED <<binlog, ghost, owed, table, process, challenge,
                   lockProcessed, readerVars, events, enqueuing, queue,
                   writerVars, sampled, reconnects, crashes>>

-----------------------------------------------------------------------------
(* The end of a process, and the next one.                                 *)

Forgotten ==
    /\ lockProcessed' = 0
    /\ lastTrx' = 0 /\ trxRows' = "none" /\ undecoded' = 0
    /\ inHand' = << >> /\ events' = << >> /\ enqueuing' = {} /\ queue' = << >>
    /\ batch' = << >> /\ writer' = "idle"
    /\ appliedTrx' = 0
    /\ sampled' = {}

\* A crash, an abort or, after the cut-over, the normal end.
ProcessEnds ==
    /\ process # "down"
    /\ main \in {"swapped", "done"} \/ crashes < MaxCrashes
    /\ crashes' = IF main \in {"swapped", "done"} THEN crashes ELSE crashes + 1
    /\ process' = "down"
    /\ Forgotten
    /\ main' = IF main \in {"swapped", "done"} THEN main ELSE "running"
    /\ UNCHANGED <<tableVars, challenge, initial, connectedAt, readPos, reconnects>>

StartStreaming(coords) ==
    /\ process' = "streaming"
    /\ initial' = coords
    /\ connectedAt' = coords
    /\ readPos' = coords
    /\ UNCHANGED <<lockProcessed, lastTrx, trxRows, undecoded, inHand, events,
                   enqueuing, queue, writerVars, sampled, reconnects, crashes>>

\* Mutant: the checkpoint's coordinates are not given to the streamer.
ResumeAtCurrent ==
    /\ process = "down"
    /\ table = "original"
    /\ checkpoint # NoCheckpoint
    /\ StartStreaming(Len(binlog))
    /\ UNCHANGED <<tableVars, mainVars>>

\* Migrate() with --resume.
Resume ==
    /\ process = "down"
    /\ table = "original"
    /\ checkpoint # NoCheckpoint
    /\ StartStreaming(checkpoint.coords)
    /\ UNCHANGED <<tableVars, mainVars>>

\* Revert() brings the old table up to date.
Revert ==
    /\ process = "down"
    /\ table = "ghost"
    /\ checkpoint.cutover
    /\ StartStreaming(checkpoint.coords)
    /\ main' = "running"
    /\ UNCHANGED <<tableVars, challenge>>

Drained ==
    /\ process = "writing" /\ readPos = Len(binlog)
    /\ inHand = << >> /\ events = << >> /\ enqueuing = {}
    /\ queue = << >> /\ writer = "idle"

\* Heartbeats filled the queue before there was anyone to read it, and the listener
\* without which there is no one waits for the dispatcher.
Jammed == process = "streaming" /\ ~MutexFree

\* The process waits for more events, is not started again, or is jammed.
Terminated ==
    /\ process = "down" \/ Drained \/ Jammed
    /\ UNCHANGED vars

Reader == ReadEvent \/ SendEntry
Dispatcher == Dispatch \/ \E p \in enqueuing : EnqueueSentinel(p)
Writer == HandleNonDML \/ CollectBatch \/ ApplyBatch \/ AcknowledgeBatch
Checkpointer == BeginCheckpoint \/ WriteCheckpoint \/ CheckpointFails
CutOver == InjectSentinel \/ ReceiveLockProcessed \/ CutOverFails \/ Swap
              \/ CheckpointAfterCutOver

Next ==
    \/ Transact \/ InjectHeartbeat
    \/ Reader \/ Reconnect \/ Dispatcher \/ AddDMLEventsListener
    \/ Writer \/ Checkpointer \/ CutOver
    \/ ProcessEnds \/ Resume \/ Revert \/ Terminated

Spec == Init /\ [][Next]_vars

\* The goroutines of the pipeline go on, and Migrate() gets to registering the
\* listener, however long that takes, when nothing keeps it from doing so.
FairSpec ==
    /\ Spec
    /\ WF_vars(Reader)
    /\ WF_vars(Dispatch)
    /\ WF_vars(\E p \in enqueuing : EnqueueSentinel(p))
    /\ WF_vars(AddDMLEventsListener)
    /\ WF_vars(Writer)
    /\ WF_vars(ReceiveLockProcessed)

-----------------------------------------------------------------------------
\* The types of the variables; every queue is within its capacity.
TypeOK ==
    /\ binlog \in Seq(Keys \cup {"gtid", "xid", "heartbeat", "sentinel"})
    /\ ghost \in [Keys -> 0..Len(binlog)]
    /\ owed \in 0..Len(binlog)
    /\ table \in {"original", "ghost", "original again"}
    /\ checkpoint \in [coords : 0..Len(binlog), cutover : BOOLEAN]
    /\ process \in {"streaming", "writing", "down"}
    /\ main \in {"running", "waiting", "synced", "swapped", "done"}
    /\ {challenge, lockProcessed, initial, connectedAt, readPos, lastTrx,
        undecoded, appliedTrx} \subseteq 0..Len(binlog)
    /\ trxRows \in {"none", "some"}
    /\ inHand \in Seq(Positions) /\ Len(inHand) <= 1
    /\ events \in Seq(Positions) /\ Len(events) <= 2
    /\ enqueuing \subseteq Positions
    /\ queue \in Seq(Positions) /\ Len(queue) <= QueueSize
    /\ batch \in Seq(Positions)
    /\ writer \in {"idle", "batch", "committed"}
    /\ sampled \subseteq 0..Len(binlog)
    /\ reconnects \in 0..MaxReconnects /\ crashes \in 0..MaxCrashes

\* Row k of the ghost table is up to date, or the row copy is to see to that.
UpToDate(k) == LastEvent(k) > owed => ghost[k] = LastEvent(k)

\* Once everything in the binlog went through the pipeline, no event is missing
\* from the ghost table, whatever reconnects, crashes and resumes there were
\* (doc/resume.md: "The data integrity of the ghost table is preserved"), and the old
\* table is brought "up to date" (doc/revert.md) by a revert.
DrainedMeansApplied == Drained => \A k \in Keys : UpToDate(k)

\* The sentinel is reported only after every event before it, all there is under
\* the lock, is applied: the asynchronous enqueuing of the sentinel "doesn't really
\* matter" (onChangelogStateEvent), nor do sentinels of earlier attempts.
SyncedMeansApplied ==
    main = "synced" => \A k \in Keys : UpToDate(k)

\* Should the process end now, the checkpoint is a safe place to resume at: a row
\* with no event after the checkpoint has the last one before it (Checkpoint: "Row
\* or batch progress alone is not a safe resume point").
CheckpointIsSafe ==
    checkpoint # NoCheckpoint /\ table = "original" =>
        \A k \in Keys : LastEvent(k) <= checkpoint.coords => UpToDate(k)

\* Every event is applied at last while a process with a registered listener lives: no
\* reader, dispatcher and writer that wait for one another.
EventsAreApplied ==
    \A k \in Keys : <>[](process = "writing" /\ main = "running" => UpToDate(k))

\* The time there is to register the listener is as long as the queue: as long as the
\* log has no more changelog events for this process than the queue holds,
\* addDMLEventsListener does not wait for the dispatcher.  (A reader that is connected
\* again reads them again.)  With more of them it waits for good, which the count of rows
\* that comes first without --concurrent-rowcount is long enough for.
ListenerHasRoom ==
    process = "streaming" =>
        \/ MutexFree
        \/ Cardinality({i \in Positions : i > initial /\ IsFunc(i)}) * (reconnects + 1)
               > QueueSize

=============================================================================
