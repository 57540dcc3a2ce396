----------------------------- MODULE Migration -----------------------------
(***************************************************************************)
(* Migrator.Migrate(), from its start to its return, with the goroutines   *)
(* it starts: the streamer, the writer (executeWriteFuncs), the one that   *)
(* hands it chunks (iterateChunks), and listenOnPanicAbort, which turns    *)
(* the first error sent to PanicAbort into an abort: the error is stored,  *)
(* then the context cancelled.  Everyone else finds out by checkAbort or   *)
(* in a send (SendWithContext), or not at all.                             *)
(*                                                                         *)
(* A statement that is retried succeeds or has failed for good.  What is   *)
(* in the tables is GhostSync's part, how they are swapped AtomicCutOver's, *)
(* when to throttle Throttler's.                                           *)
(***************************************************************************)
EXTENDS Integers

CONSTANTS
    MaxChunks,     \* bound: chunks of rows to copy
    CommandLines,  \* bound: the command lines, sets of options
    Faults         \* see FaultKinds

\* "early": an error is sent to PanicAbort before the ghost table is known to be
\* migrated.
\* "late": row events of the table that was swapped in are read before the
\* streamer is told to stop.
FaultKinds == {"early", "late"}

Options == {"initially-drop-ghost-table", "initially-drop-old-table",
            "ok-to-drop-table", "attempt-instant-ddl", "checkpoint", "noop"}

ASSUME MigrationAssumption ==
    /\ MaxChunks \in Nat
    /\ CommandLines \subseteq SUBSET Options
    /\ Faults \subseteq FaultKinds

Helpers == {"ghost", "old", "changelog", "checkpoint"}

VARIABLES
    options,    \* the command line
    found,      \* helper tables that earlier migrations have left behind
    tables,     \* helper tables that exist
    swapped,    \* "yes" once the ghost table is the original one, "instant" when
                \* the original one was altered in place
    main,       \* where Migrate() is
    result,     \* what it returned
    hooks,      \* which of gh-ost-on-success and gh-ost-on-failure were executed
    announced,  \* the changelog state GhostTableMigrated: "no", "written", "sending"
                \* by the dispatcher, "received", or "lost"
    complete,   \* CutOverCompleteFlag
    copied,     \* rowCopyCompleteFlag
    chunks,     \* chunks left to copy
    noFurther,  \* hasNoFurtherRangeFlag
    queue,      \* row events in applyEventsQueue, 0 or 1
    throttled,  \* "yes" while writes are held up
    streamer, writer, chunker, listener,
    alarm,      \* the throttler, the server, the heartbeat or the migration lock
    abortError, \* "set" once the abort's error is stored
    ctx         \* "cancelled" once the context is

mainVars == <<main, result, hooks>>
tableVars == <<tables, swapped>>
copyVars == <<copied, chunks, noFurther>>
abortVars == <<listener, abortError, ctx>>
vars == <<options, found, tableVars, mainVars, announced, complete, copyVars, queue,
          throttled, streamer, writer, chunker, alarm, abortVars>>

Init ==
    /\ options \in CommandLines
    /\ found \in SUBSET {"ghost", "old", "changelog"}
    /\ tables = found
    /\ swapped = "no"
    /\ main = "inspect" /\ result = "none" /\ hooks = {}
    /\ announced = "no" /\ complete = "no"
    /\ copied = "no" /\ noFurther = "no"
    /\ chunks \in 0..MaxChunks
    /\ queue = 0
    /\ throttled = "no"
    /\ streamer = "off" /\ writer = "off" /\ chunker = "off"
    /\ alarm = "quiet"
    /\ listener = "listening" /\ abortError = "none" /\ ctx = "live"

-----------------------------------------------------------------------------
(* The abort.                                                              *)

\* checkAbort
Aborted == abortError = "set" \/ ctx = "cancelled"

\* Mutant: a bare send.
PanicAbortSentBare == listener = "listening" /\ listener' = "received"

\* SendWithContext on PanicAbort: someone listens, or it is too late.
PanicAbortSent ==
    \/ listener = "listening" /\ listener' = "received"
    \/ ctx = "cancelled" /\ UNCHANGED listener

ListenOnPanicAbort ==
    /\ \/ /\ listener = "received"
          /\ listener' = "stored"
          /\ abortError' = "set"
          /\ UNCHANGED ctx
       \/ /\ listener = "stored"
          /\ listener' = "exited"
          /\ ctx' = "cancelled"
          /\ UNCHANGED abortError
    /\ UNCHANGED <<options, found, tableVars, mainVars, announced, complete, copyVars,
                   queue, throttled, streamer, writer, chunker, alarm>>

\* Migrate() stops waiting when the ghost table is announced.
Early == main \in {"inspect", "stream", "validate", "create", "announce"}

\* The others that may end the migration run once there is an applier.
RaiseAlarm ==
    /\ alarm = "quiet" /\ main \notin {"inspect", "stream", "returned"}
    /\ Early => "early" \in Faults
    /\ alarm' = "sending"
    /\ UNCHANGED <<options, found, tableVars, mainVars, announced, complete, copyVars,
                   queue, throttled, streamer, writer, chunker, abortVars>>

SendAlarm ==
    /\ alarm = "sending"
    /\ PanicAbortSent
    /\ alarm' = "done"
    /\ UNCHANGED <<options, found, tableVars, mainVars, announced, complete, copyVars,
                   queue, throttled, streamer, writer, chunker, abortError, ctx>>

Throttle ==
    /\ main # "returned"
    /\ throttled' = IF throttled = "no" THEN "yes" ELSE "no"
    /\ UNCHANGED <<options, found, tableVars, mainVars, announced, complete, copyVars,
                   queue, streamer, writer, chunker, alarm, abortVars>>

-----------------------------------------------------------------------------
(* Migrate() up to the row copy.                                           *)

\* The deferred calls cancel the context; main() runs the hook of a failure.
Return(r) ==
    /\ main' = "returned"
    /\ result' = r
    /\ hooks' = hooks \cup (IF r = "err" THEN {"failure"} ELSE {})
    /\ ctx' = "cancelled"
    /\ UNCHANGED <<listener, abortError>>

GoOn(next) == main' = next /\ UNCHANGED <<result, hooks, abortVars>>

\* initiateInspector, and after it a look for an abort.
InitiateInspector ==
    /\ main = "inspect"
    /\ Return("err") \/ (~Aborted /\ GoOn("stream"))
    /\ UNCHANGED <<options, found, tableVars, announced, complete, copyVars, queue,
                   throttled, streamer, writer, chunker, alarm>>

InitiateStreaming ==
    /\ main = "stream"
    /\ \/ Return("err") /\ UNCHANGED streamer
       \/ ~Aborted /\ GoOn("validate") /\ streamer' = "reading"
    /\ UNCHANGED <<options, found, tableVars, announced, complete, copyVars, queue,
                   throttled, writer, chunker, alarm>>

WithoutGhost == IF "initially-drop-ghost-table" \in options THEN tables \ {"ghost"} ELSE tables

\* Mutant: the old table is dropped whenever it is in the way.
WithoutOldAlways == WithoutGhost \ {"old"}

WithoutOld ==
    IF "initially-drop-old-table" \in options THEN WithoutGhost \ {"old"} ELSE WithoutGhost

\* initiateApplier, up to here: it may also fail to connect, to get the migration
\* lock or to drop a table.
ValidateOrDropExistingTables ==
    /\ main = "validate"
    /\ \/ Return("err") /\ tables' \in {tables, WithoutGhost}
       \/ /\ "ghost" \notin WithoutGhost
          /\ tables' = WithoutOld
          /\ Return("err") \/ ("old" \notin WithoutOld /\ GoOn("create"))
    /\ UNCHANGED <<options, found, swapped, announced, complete, copyVars, queue,
                   throttled, streamer, writer, chunker, alarm>>

\* The rest of initiateApplier and createFlagFiles: the changelog table is dropped
\* and created, the ghost table created and altered, and the news written to the
\* changelog table.
CreateTables ==
    /\ main = "create"
    /\ \/ /\ tables' = tables \cup {"changelog", "ghost"}
          /\ announced' = "written"
          /\ Return("err") \/ (~Aborted /\ GoOn("announce"))
       \/ /\ tables' \in {tables, tables \ {"changelog"}, tables \cup {"changelog"},
                          tables \cup {"changelog", "ghost"}}
          /\ UNCHANGED announced
          /\ Return("err")
    /\ UNCHANGED <<options, found, swapped, complete, copyVars, queue, throttled,
                   streamer, writer, chunker, alarm>>

\* A successful AttemptInstantDDL leaves the rest to finalCleanup.
InstantDDL ==
    /\ main = "announce"
    /\ "attempt-instant-ddl" \in options /\ "noop" \notin options
    /\ swapped' = "instant"
    /\ GoOn("cleanup")
    /\ UNCHANGED <<options, found, tables, announced, complete, copyVars, queue,
                   throttled, streamer, writer, chunker, alarm>>

\* onChangelogStateEvent: the dispatcher comes to the news and sends.
Announce ==
    /\ \/ announced = "written" /\ streamer = "reading" /\ ~Aborted /\ announced' = "sending"
       \/ announced = "sending" /\ ctx = "cancelled" /\ announced' = "lost"
    /\ UNCHANGED <<options, found, tableVars, mainVars, complete, copyVars, queue,
                   throttled, streamer, writer, chunker, alarm, abortVars>>

\* <-ghostTableMigrated
GhostTableMigrated ==
    /\ main = "announce" /\ announced = "sending"
    /\ announced' = "received"
    /\ GoOn("prepare")
    /\ UNCHANGED <<options, found, tableVars, complete, copyVars, queue, throttled,
                   streamer, writer, chunker, alarm>>

\* From inspectOriginalAndGhostTables to the listener, the range of the row copy,
\* the throttler and the last hook.  A failing CreateCheckpointTable is ignored.
Prepare ==
    /\ main = "prepare"
    /\ \/ /\ GoOn("copying")
          /\ tables' \in {tables} \cup
                (IF "checkpoint" \in options THEN {tables \cup {"checkpoint"}} ELSE {})
          /\ writer' = IF "noop" \in options THEN "done" ELSE "loop"
          /\ chunker' = IF "noop" \in options \/ chunks = 0 THEN "finishing" ELSE "loop"
       \/ Return("err") /\ UNCHANGED <<tables, writer, chunker>>
    /\ UNCHANGED <<options, found, swapped, announced, complete, copyVars, queue,
                   throttled, streamer, alarm>>

-----------------------------------------------------------------------------
(* The streamer and the queue of row events.                               *)

Listening == main \in {"copying", "copied", "cutOver", "panics", "complete",
                       "cleanup", "drop", "final"}

\* The new table has the original's name and is listened for as well, until the
\* reader stops.
RowEvent ==
    /\ streamer = "reading" /\ Listening /\ ~Aborted
    /\ swapped = "yes" => "late" \in Faults
    /\ queue = 0
    /\ queue' = 1
    /\ UNCHANGED <<options, found, tableVars, mainVars, announced, complete, copyVars,
                   throttled, streamer, writer, chunker, alarm, abortVars>>

\* StreamEvents returns: told to stop, aborted, or after too many failures.
StreamEventsReturns ==
    /\ streamer = "reading"
    /\ \/ complete = "yes" /\ streamer' = "done"
       \/ Aborted /\ streamer' = "sending"
       \/ /\ Early => "early" \in Faults
          /\ complete = "no" /\ main # "returned"
          /\ streamer' = "sending"
    /\ UNCHANGED <<options, found, tableVars, mainVars, announced, complete, copyVars,
                   queue, throttled, writer, chunker, alarm, abortVars>>

StreamerPanics ==
    /\ streamer = "sending"
    /\ PanicAbortSent
    /\ streamer' = "done"
    /\ UNCHANGED <<options, found, tableVars, mainVars, announced, complete, copyVars,
                   queue, throttled, writer, chunker, alarm, abortError, ctx>>

-----------------------------------------------------------------------------
(* The writer: executeWriteFuncs, and the copyRowsFunc it executes.        *)

\* An event has precedence; the chunker's send is received otherwise.
WriterLoop ==
    /\ writer = "loop"
    /\ \/ Aborted /\ writer' = "sending" /\ UNCHANGED <<queue, chunker>>
       \/ main = "returned" /\ writer' = "done" /\ UNCHANGED <<queue, chunker>>
       \/ /\ throttled = "no" \/ ctx = "cancelled"
          /\ IF queue = 1
               THEN queue' = 0 /\ writer' = "event" /\ UNCHANGED chunker
               ELSE /\ chunker = "offering"
                    /\ chunker' = "loop"
                    /\ writer' = "chunk"
                    /\ UNCHANGED queue
    /\ UNCHANGED <<options, found, tableVars, mainVars, announced, complete, copyVars,
                   throttled, streamer, alarm, abortVars>>

\* onApplyEventStruct.  There is no ghost table to write to after the swap.
WriteEvent ==
    /\ writer = "event"
    /\ \/ swapped = "no" /\ ~Aborted /\ writer' = "loop"
       \/ Aborted /\ writer' = "sending"
       \/ ~Aborted /\ writer' = "eventPanics"
    /\ UNCHANGED <<options, found, tableVars, mainVars, announced, complete, copyVars,
                   queue, throttled, streamer, chunker, alarm, abortVars>>

\* Mutant: the copy ends although an operation failed.
CopyChunkEndsEarly ==
    /\ writer = "chunk"
    /\ \/ Aborted /\ writer' = "copyFailed" /\ UNCHANGED <<chunks, noFurther>>
       \/ /\ ~Aborted /\ copied = "no" /\ noFurther = "no" /\ chunks > 0
          /\ writer' = "loop"
          /\ chunks' = chunks - 1
          /\ UNCHANGED noFurther
       \/ noFurther' = "yes" /\ writer' = "completing" /\ UNCHANGED chunks
    /\ UNCHANGED <<options, found, tableVars, mainVars, announced, complete, copied, queue,
                   throttled, streamer, chunker, alarm, abortVars>>

\* Mutant: the end of the row copy is noted, and not reported.
CopyChunkForgets ==
    /\ writer = "chunk"
    /\ IF chunks > 0
         THEN chunks' = chunks - 1 /\ UNCHANGED noFurther
         ELSE noFurther' = "yes" /\ UNCHANGED chunks
    /\ writer' = "loop"
    /\ UNCHANGED <<options, found, tableVars, mainVars, announced, complete, copied, queue,
                   throttled, streamer, chunker, alarm, abortVars>>

\* copyRowsFunc: nothing is left to do, the end of the range was found, a chunk is
\* copied, the attempts failed, or an abort was found before one of them.  With
\* --panic-on-warnings a warning ends the row copy as well.
CopyChunk ==
    /\ writer = "chunk"
    /\ \/ Aborted /\ writer' = "copyFailed" /\ UNCHANGED <<chunks, noFurther>>
       \/ /\ ~Aborted /\ copied = "no" /\ noFurther = "no"
          /\ writer' \in {"copyFailed", "copyPanics"}
          /\ UNCHANGED <<chunks, noFurther>>
       \/ /\ ~Aborted
          /\ copied = "yes" \/ noFurther = "yes"
          /\ writer' = "loop"
          /\ UNCHANGED <<chunks, noFurther>>
       \/ /\ ~Aborted /\ copied = "no" /\ noFurther = "no"
          /\ IF chunks > 0
               THEN writer' = "loop" /\ chunks' = chunks - 1 /\ UNCHANGED noFurther
               ELSE writer' = "completing" /\ noFurther' = "yes" /\ UNCHANGED chunks
    /\ UNCHANGED <<options, found, tableVars, mainVars, announced, complete, copied, queue,
                   throttled, streamer, chunker, alarm, abortVars>>

\* retryOperation sends the error, and the goroutine sends it once more when
\* executeWriteFuncs returns it.
WriterPanics ==
    /\ writer \in {"eventPanics", "copyPanics", "sending"}
    /\ PanicAbortSent
    /\ writer' = CASE writer = "eventPanics" -> "sending"
                   [] writer = "copyPanics" -> "copyFailed"
                   [] OTHER -> "done"
    /\ UNCHANGED <<options, found, tableVars, mainVars, announced, complete, copyVars,
                   queue, throttled, streamer, chunker, alarm, abortError, ctx>>

\* A send on rowCopyComplete of "ok" or "err": Migrate() receives it in
\* consumeRowCopyComplete, the goroutine that drains the channel does, or nobody.
RowCopyComplete(outcome) ==
    \/ /\ main = "copying" \/ copied = "yes"
       /\ main' = IF main = "copying" THEN "copied" ELSE main
       /\ IF outcome = "ok"
            THEN copied' = "yes" /\ UNCHANGED <<abortError, ctx>>
            ELSE abortError' = "set" /\ ctx' = "cancelled" /\ UNCHANGED copied
    \/ ctx = "cancelled" /\ UNCHANGED <<main, copied, abortError, ctx>>

WriterCompletes ==
    /\ writer \in {"completing", "copyFailed"}
    /\ RowCopyComplete(IF writer = "completing" THEN "ok" ELSE "err")
    /\ writer' = IF writer = "completing" THEN "loop" ELSE "sending"
    /\ UNCHANGED <<options, found, tableVars, result, hooks, announced, complete, chunks,
                   noFurther, queue, throttled, streamer, chunker, alarm, listener>>

\* iterateChunks
IterateChunks ==
    /\ \/ /\ chunker = "loop"
          /\ chunker' = IF Aborted THEN "terminating"
                        ELSE IF copied = "yes" \/ noFurther = "yes" THEN "done"
                        ELSE "offering"
          /\ UNCHANGED <<main, copied, abortError, ctx>>
       \/ /\ chunker = "offering" /\ ctx = "cancelled"
          /\ chunker' = "terminating"
          /\ UNCHANGED <<main, copied, abortError, ctx>>
       \/ /\ chunker \in {"terminating", "finishing"}
          /\ RowCopyComplete(IF chunker = "finishing" THEN "ok" ELSE "err")
          /\ chunker' = "done"
    /\ UNCHANGED <<options, found, tableVars, result, hooks, announced, complete, chunks,
                   noFurther, queue, throttled, streamer, writer, alarm, listener>>

-----------------------------------------------------------------------------
(* Migrate() from the row copy on.                                         *)

\* Mutant: only the row copy ends the wait for it.
RowCopyCancelledNever == FALSE

RowCopyCancelled == main = "copying" /\ ctx = "cancelled"

ConsumeRowCopyComplete ==
    /\ RowCopyCancelled
    /\ GoOn("copied")
    /\ UNCHANGED <<options, found, tableVars, announced, complete, copyVars, queue,
                   throttled, streamer, writer, chunker, alarm>>

\* Mutant: the error of the abort is dropped, as that of finalCleanup is.
BeforeCutOverNil ==
    /\ main = "copied"
    /\ IF Aborted THEN Return("ok") ELSE GoOn("cutOver")
    /\ UNCHANGED <<options, found, tableVars, announced, complete, copyVars, queue,
                   throttled, streamer, writer, chunker, alarm>>

\* The look for an abort, and the hooks before the cut-over.
BeforeCutOver ==
    /\ main = "copied"
    /\ Return("err") \/ (~Aborted /\ GoOn("cutOver"))
    /\ UNCHANGED <<options, found, tableVars, announced, complete, copyVars, queue,
                   throttled, streamer, writer, chunker, alarm>>

\* An attempt succeeds when the writer has emptied the queue and answers.
CutOver ==
    /\ main = "cutOver"
    /\ \/ Aborted /\ Return("err") /\ UNCHANGED tableVars
       \/ "noop" \in options /\ GoOn("complete") /\ UNCHANGED tableVars
       \/ /\ "noop" \notin options
          /\ throttled = "no"
          /\ queue = 0 /\ writer = "loop" /\ ~Aborted
          /\ swapped' = "yes"
          /\ tables' = (tables \ {"ghost"}) \cup {"old"}
          /\ GoOn("complete")
       \/ "noop" \notin options /\ throttled = "no" /\ GoOn("panics") /\ UNCHANGED tableVars
    /\ UNCHANGED <<options, found, announced, complete, copyVars, queue, throttled,
                   streamer, writer, chunker, alarm>>

\* All attempts at the cut-over failed.
CutOverPanics ==
    /\ main = "panics"
    /\ PanicAbortSent
    /\ main' = "returned" /\ result' = "err" /\ hooks' = hooks \cup {"failure"}
    /\ ctx' = "cancelled"
    /\ UNCHANGED <<options, found, tableVars, announced, complete, copyVars, queue,
                   throttled, streamer, writer, chunker, alarm, abortError>>

\* CutOverCompleteFlag is set; CheckpointAfterCutOver fails with a warning only.
CutOverComplete ==
    /\ main = "complete"
    /\ complete' = "yes"
    /\ GoOn("cleanup")
    /\ UNCHANGED <<options, found, tableVars, announced, copyVars, queue,
                   throttled, streamer, writer, chunker, alarm>>

\* finalCleanup, of which Migrate() returns nil when it fails.
DropChangelog ==
    /\ main = "cleanup"
    /\ \/ ~Aborted /\ tables' = tables \ {"changelog"} /\ GoOn("drop")
       \/ Return("ok") /\ UNCHANGED tables
    /\ UNCHANGED <<options, found, swapped, announced, complete, copyVars, queue,
                   throttled, streamer, writer, chunker, alarm>>

DropTables ==
    /\ main = "drop"
    /\ LET dropped == (IF "ok-to-drop-table" \in options THEN {"old", "checkpoint"} ELSE {})
                         \cup (IF "noop" \in options THEN {"ghost"} ELSE {})
       IN  \/ /\ Aborted => dropped = {}
              /\ tables' = tables \ dropped
              /\ GoOn("final")
           \/ /\ dropped # {}
              /\ tables' \in {tables, tables \ {"old"}, tables \ (dropped \ {"ghost"})}
              /\ "ok-to-drop-table" \notin options => UNCHANGED tables
              /\ Return("ok")
    /\ UNCHANGED <<options, found, swapped, announced, complete, copyVars, queue,
                   throttled, streamer, writer, chunker, alarm>>

\* OnSuccess, and the last look for an abort unless the DDL was instant.
Success ==
    /\ main = "final"
    /\ \/ /\ main' = "returned"
          /\ result' = IF Aborted /\ swapped # "instant" THEN "err" ELSE "ok"
          /\ hooks' = {"success"} \cup (IF result' = "err" THEN {"failure"} ELSE {})
       \/ main' = "returned" /\ result' = "err" /\ hooks' = {"success", "failure"}
    /\ ctx' = "cancelled"
    /\ UNCHANGED <<options, found, tableVars, announced, complete, copyVars, queue,
                   throttled, streamer, writer, chunker, alarm, listener, abortError>>

Terminated == main = "returned" /\ UNCHANGED vars

Main ==
    \/ InitiateInspector \/ InitiateStreaming \/ ValidateOrDropExistingTables
    \/ CreateTables \/ InstantDDL \/ GhostTableMigrated \/ Prepare
    \/ ConsumeRowCopyComplete \/ BeforeCutOver \/ CutOver \/ CutOverPanics
    \/ CutOverComplete \/ DropChangelog \/ DropTables \/ Success
Writer == WriterLoop \/ WriteEvent \/ CopyChunk \/ WriterPanics \/ WriterCompletes
Streamer == StreamEventsReturns \/ StreamerPanics \/ Announce

Next ==
    \/ Main \/ Writer \/ Streamer \/ IterateChunks \/ ListenOnPanicAbort
    \/ RowEvent \/ RaiseAlarm \/ SendAlarm \/ Throttle
    \/ Terminated

Spec == Init /\ [][Next]_vars

\* Every goroutine goes on; errors, row events and throttling come as they like.
FairSpec ==
    /\ Spec
    /\ WF_vars(Main) /\ WF_vars(Writer) /\ WF_vars(IterateChunks)
    /\ WF_vars(ListenOnPanicAbort) /\ WF_vars(SendAlarm)
    /\ WF_vars(StreamerPanics) /\ WF_vars(Announce)
    /\ WF_vars(StreamEventsReturns /\ (Aborted \/ complete = "yes"))

-----------------------------------------------------------------------------
\* The types of the variables.
TypeOK ==
    /\ options \subseteq Options
    /\ found \subseteq Helpers /\ tables \subseteq Helpers
    /\ swapped \in {"no", "yes", "instant"}
    /\ main \in {"inspect", "stream", "validate", "create", "announce", "prepare",
                 "copying", "copied", "cutOver", "panics", "complete", "cleanup",
                 "drop", "final", "returned"}
    /\ result \in {"none", "ok", "err"}
    /\ hooks \subseteq {"success", "failure"}
    /\ announced \in {"no", "written", "sending", "received", "lost"}
    /\ complete \in {"no", "yes"}
    /\ copied \in {"no", "yes"} /\ noFurther \in {"no", "yes"}
    /\ chunks \in 0..MaxChunks
    /\ queue \in 0..1
    /\ throttled \in {"no", "yes"}
    /\ streamer \in {"off", "reading", "sending", "done"}
    /\ writer \in {"off", "loop", "event", "chunk", "eventPanics", "copyPanics",
                   "copyFailed", "completing", "sending", "done"}
    /\ chunker \in {"off", "loop", "offering", "terminating", "finishing", "done"}
    /\ listener \in {"listening", "received", "stored", "exited"}
    /\ alarm \in {"quiet", "sending", "done"}
    /\ abortError \in {"none", "set"} /\ ctx \in {"live", "cancelled"}

\* The tables are swapped only when every chunk was copied: no failure of the row
\* copy, in whatever order its error, the abort and the end of the copy are
\* noticed, lets Migrate() go on to the cut-over.
SwapMeansCopied == swapped = "yes" => chunks = 0

\* A migration that returns no error has swapped the tables, or altered the original
\* one in place, unless it is a noop: checkAbort finds every abort that came before.
SuccessMeansSwapped ==
    main = "returned" /\ result = "ok" => swapped # "no" \/ "noop" \in options

\* "We let the user explicitly approve such operations" (doc/command-line-flags.md):
\* a ghost or old table that was there before is never dropped without its option,
\* neither at the start nor by finalCleanup.
LeftoversAreKept ==
    \A t \in found \cap {"ghost", "old"} :
        \/ t \in tables
        \/ t = "ghost" /\ "initially-drop-ghost-table" \in options
        \/ t = "old" /\ "initially-drop-old-table" \in options

\* An abort ends Migrate(), throttled or not: listenOnPanicAbort "listens for fatal
\* errors and initiates graceful shutdown".  Migrate() may be anywhere but at the wait
\* for the announcement of the ghost table, which does not look for an abort (the
\* fault "early").
AbortReturns == ctx = "cancelled" ~> main = "returned"

\* No goroutine is left in a send after Migrate() has returned, though nobody
\* receives any more.
NobodyIsLeft ==
    main = "returned" ~>
        /\ writer \in {"off", "done"} /\ chunker \in {"off", "done"}
        /\ streamer \in {"off", "done"} /\ alarm # "sending"

\* Unless it is throttled for good, and once the table is left alone for long
\* enough (row events have precedence over the row copy), the migration comes to an
\* end: the writer, the chunker and Migrate() never wait for one another.
MigrateReturns == <>[](throttled = "no" /\ queue = 0) => <>(main = "returned")

=============================================================================
