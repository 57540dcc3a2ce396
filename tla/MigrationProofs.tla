-------------------------- MODULE MigrationProofs --------------------------
(***************************************************************************)
(* The life cycle of Migrate(), for any number of chunks, every set of     *)
(* command lines and all faults: the tables are swapped only when every    *)
(* chunk was copied, no error is returned only of a migration that changed *)
(* the table, and leftovers of earlier ones are kept.                      *)
(*                                                                         *)
(* At the end the inspection that Migrate() begins with, for any servers,  *)
(* options, tables and ALTERs: what the validations accept has its rows in *)
(* the binary log that gh-ost reads.                                       *)
(***************************************************************************)
EXTENDS Migration, Inspector, TLAPS

\* Nothing is left to copy.  (A noop migration does not copy.)
NothingLeft == chunks = 0 \/ "noop" \in options

\* Who reports the end of the row copy has reached it, and Migrate() goes on past the
\* copy with such a report or with an abort that it is still to find.
CopyInv ==
    /\ noFurther = "yes" \/ copied = "yes" => NothingLeft
    /\ writer = "completing" \/ chunker = "finishing" => NothingLeft
    /\ main \in {"copied", "cutOver"} => copied = "yes" \/ Aborted
    /\ swapped = "yes" => chunks = 0

\* Past the cut-over, or an instant DDL, the table is changed.
Changed == swapped # "no" \/ "noop" \in options
ResultInv ==
    /\ main \in {"complete", "cleanup", "drop", "final"} => Changed
    /\ main = "returned" /\ result = "ok" => Changed

\* No helper table is touched before validateOrDropExistingTables, and Migrate() gets
\* past it when none of the two is in the way.
MayDrop(t) ==
    \/ t = "ghost" /\ "initially-drop-ghost-table" \in options
    \/ t = "old" /\ "initially-drop-old-table" \in options
LeftoverInv ==
    /\ main \in {"inspect", "stream", "validate"} => tables = found
    /\ \A t \in found \cap {"ghost", "old"} :
          /\ main \in {"inspect", "stream", "validate", "returned"} =>
                t \in tables \/ MayDrop(t)
          /\ main \notin {"inspect", "stream", "validate", "returned"} => MayDrop(t)

-----------------------------------------------------------------------------
\* A return, or a step ahead, of Migrate() leaves its own variables typed.
MainTyped ==
    /\ main \in {"inspect", "stream", "validate", "create", "announce", "prepare",
                 "copying", "copied", "cutOver", "panics", "complete", "cleanup",
                 "drop", "final", "returned"}
    /\ result \in {"none", "ok", "err"}
    /\ hooks \subseteq {"success", "failure"}
    /\ listener \in {"listening", "received", "stored", "exited"}
    /\ abortError \in {"none", "set"} /\ ctx \in {"live", "cancelled"}

\* Every return and every step ahead that Migrate() takes is such a one.
LEMMA MainTypes ==
    ASSUME TypeOK
    PROVE  /\ MainTyped
           /\ \A r \in {"ok", "err"} : Return(r) => MainTyped'
           /\ \A next \in {"stream", "validate", "create", "announce", "prepare",
                            "copying", "copied", "cutOver", "panics", "complete",
                            "cleanup", "drop", "final"} : GoOn(next) => MainTyped'
<1>1. MainTyped
  BY Zenon DEF TypeOK, MainTyped
<1>2. ASSUME NEW r \in {"ok", "err"}, Return(r) PROVE MainTyped'
  BY <1>1, <1>2 DEF MainTyped, Return
<1>3. ASSUME NEW next \in {"stream", "validate", "create", "announce", "prepare",
                          "copying", "copied", "cutOver", "panics", "complete",
                          "cleanup", "drop", "final"},
             GoOn(next)
      PROVE  MainTyped'
  BY <1>1, <1>3 DEF MainTyped, GoOn, abortVars
<1> QED
  BY <1>1, <1>2, <1>3

\* Every variable keeps its type in every step.
LEMMA TypeStep == TypeOK /\ [Next]_vars => TypeOK'
<1> SUFFICES ASSUME TypeOK, [Next]_vars PROVE TypeOK'
  OBVIOUS
<1>0. MainTyped
  BY MainTypes
<1> USE DEF mainVars, tableVars, copyVars
<1>1. CASE InitiateInspector
  <2>1. MainTyped'
    BY <1>1, MainTypes DEF InitiateInspector
  <2> QED
    BY <1>1, <2>1 DEF InitiateInspector, TypeOK, MainTyped
<1>2. CASE InitiateStreaming
  <2>1. MainTyped'
    BY <1>2, MainTypes DEF InitiateStreaming
  <2>2. streamer' \in {"off", "reading", "sending", "done"}
    BY <1>2 DEF InitiateStreaming, TypeOK
  <2> QED
    BY <1>2, <2>1, <2>2 DEF InitiateStreaming, TypeOK, MainTyped
<1>3. CASE ValidateOrDropExistingTables
  <2>1. MainTyped'
    BY <1>3, MainTypes DEF ValidateOrDropExistingTables
  <2>2. tables' \subseteq Helpers
    BY <1>3 DEF ValidateOrDropExistingTables, WithoutGhost, WithoutOld, TypeOK
  <2> QED
    BY <1>3, <2>1, <2>2 DEF ValidateOrDropExistingTables, TypeOK, MainTyped
<1>4. CASE CreateTables
  <2>1. MainTyped'
    BY <1>4, MainTypes DEF CreateTables
  <2>2. tables' \subseteq Helpers
    BY <1>4, Zenon DEF CreateTables, Helpers, TypeOK
  <2>3. announced' \in {"no", "written", "sending", "received", "lost"}
    BY <1>4 DEF CreateTables, TypeOK
  <2> QED
    BY <1>4, <2>1, <2>2, <2>3 DEF CreateTables, TypeOK, MainTyped
<1>5. CASE InstantDDL \/ GhostTableMigrated \/ Announce
  BY <1>5, Zenon DEF InstantDDL, GhostTableMigrated, Announce, GoOn, TypeOK, abortVars
<1>6. CASE Prepare
  <2>1. MainTyped'
    BY <1>6, MainTypes DEF Prepare
  <2>2. tables' \subseteq Helpers
    BY <1>6, Zenon DEF Prepare, Helpers, TypeOK
  <2>3. /\ writer' \in {writer, "done", "loop"}
        /\ chunker' \in {chunker, "finishing", "loop"}
    BY <1>6 DEF Prepare
  <2> QED
    BY <1>6, <2>1, <2>2, <2>3 DEF Prepare, TypeOK, MainTyped
<1>7. CASE ConsumeRowCopyComplete \/ BeforeCutOver
  <2>1. MainTyped'
    BY <1>7, MainTypes DEF ConsumeRowCopyComplete, BeforeCutOver
  <2> QED
    BY <1>7, <2>1 DEF ConsumeRowCopyComplete, BeforeCutOver, TypeOK, MainTyped
<1>8. CASE CutOver
  <2>1. MainTyped'
    BY <1>8, MainTypes DEF CutOver
  <2>2. tables' \subseteq Helpers /\ swapped' \in {"no", "yes", "instant"}
    BY <1>8, Zenon DEF CutOver, Helpers, TypeOK
  <2> QED
    BY <1>8, <2>1, <2>2 DEF CutOver, TypeOK, MainTyped
<1>9. CASE CutOverPanics \/ StreamerPanics \/ SendAlarm \/ WriterPanics
  BY <1>9 DEF CutOverPanics, StreamerPanics, SendAlarm, WriterPanics, PanicAbortSent,
     TypeOK
<1>10. CASE CutOverComplete
  BY <1>10 DEF CutOverComplete, GoOn, TypeOK, abortVars
<1>11. CASE DropChangelog \/ DropTables
  <2>1. MainTyped'
    BY <1>11, MainTypes DEF DropChangelog, DropTables
  <2>2. tables' \subseteq Helpers
    BY <1>11 DEF DropChangelog, DropTables, TypeOK
  <2> QED
    BY <1>11, <2>1, <2>2 DEF DropChangelog, DropTables, TypeOK, MainTyped
<1>12. CASE Success
  BY <1>12 DEF Success, TypeOK
<1>13. CASE WriterLoop
  BY <1>13 DEF WriterLoop, TypeOK, abortVars
<1>14. CASE WriteEvent
  BY <1>14 DEF WriteEvent, TypeOK, abortVars
<1>15. CASE CopyChunk
  BY <1>15, MigrationAssumption DEF CopyChunk, TypeOK, abortVars
<1>16. CASE WriterCompletes
  BY <1>16 DEF WriterCompletes, RowCopyComplete, TypeOK
<1>17. CASE IterateChunks
  BY <1>17 DEF IterateChunks, RowCopyComplete, TypeOK
<1>18. CASE StreamEventsReturns
  BY <1>18 DEF StreamEventsReturns, TypeOK, abortVars
<1>19. CASE RowEvent
  BY <1>19 DEF RowEvent, TypeOK, abortVars
<1>20. CASE RaiseAlarm \/ Throttle
  BY <1>20, Zenon DEF RaiseAlarm, Throttle, TypeOK, abortVars
<1>21. CASE ListenOnPanicAbort
  BY <1>21 DEF ListenOnPanicAbort, TypeOK
<1>22. CASE UNCHANGED vars
  BY <1>22 DEF vars, TypeOK, abortVars
<1> QED
  BY <1>1, <1>2, <1>3, <1>4, <1>5, <1>6, <1>7, <1>8, <1>9, <1>10, <1>11, <1>12, <1>13,
     <1>14, <1>15, <1>16, <1>17, <1>18, <1>19, <1>20, <1>21, <1>22
     DEF Next, Main, Writer, Streamer, Terminated

\* An abort is for good.
LEMMA AbortStays == Aborted /\ [Next]_vars => Aborted'
<1> SUFFICES ASSUME Aborted, [Next]_vars PROVE Aborted'
  BY Zenon
<1> USE DEF Aborted, abortVars
<1>1. CASE Main
  BY <1>1 DEF Main, InitiateInspector, InitiateStreaming, ValidateOrDropExistingTables,
     CreateTables, InstantDDL, GhostTableMigrated, Prepare, ConsumeRowCopyComplete,
     BeforeCutOver, CutOver, CutOverPanics, CutOverComplete, DropChangelog, DropTables,
     Success, Return, GoOn
<1>2. CASE Writer
  BY <1>2 DEF Writer, WriterLoop, WriteEvent, CopyChunk, WriterPanics, WriterCompletes,
     RowCopyComplete
<1>3. CASE Streamer \/ IterateChunks \/ ListenOnPanicAbort
  BY <1>3 DEF Streamer, StreamEventsReturns, StreamerPanics, Announce, IterateChunks,
     RowCopyComplete, ListenOnPanicAbort
<1>4. CASE RowEvent \/ RaiseAlarm \/ SendAlarm \/ Throttle \/ UNCHANGED vars
  BY <1>4 DEF RowEvent, RaiseAlarm, SendAlarm, Throttle, vars
<1> QED
  BY <1>1, <1>2, <1>3, <1>4 DEF Next, Terminated

\* The row copy: only CopyChunk and the two ends of the copy change what is left or what
\* is said of it.
LEMMA CopyStep == TypeOK /\ CopyInv /\ [Next]_vars => CopyInv'
<1> SUFFICES ASSUME TypeOK, CopyInv, [Next]_vars PROVE CopyInv'
  OBVIOUS
<1>0. Aborted => Aborted'
  BY AbortStays
<1> USE DEF CopyInv, NothingLeft, mainVars, tableVars, copyVars
<1>1. CASE /\ UNCHANGED <<options, copyVars, swapped, writer, chunker>>
           /\ UNCHANGED main \/ main' \notin {"copied", "cutOver"}
  BY <1>1, <1>0
<1>2. CASE InitiateInspector \/ InitiateStreaming
  BY <1>2, <1>1 DEF InitiateInspector, InitiateStreaming, Return, GoOn
<1>3. CASE ValidateOrDropExistingTables \/ CreateTables
  BY <1>3, <1>1 DEF ValidateOrDropExistingTables, CreateTables, Return, GoOn
<1>4. CASE InstantDDL
  BY <1>4 DEF InstantDDL, GoOn
<1>5. CASE GhostTableMigrated \/ CutOverPanics \/ CutOverComplete
  BY <1>5, <1>1 DEF GhostTableMigrated, CutOverPanics, CutOverComplete, GoOn
<1>6. CASE Prepare
  BY <1>6 DEF Prepare, Return, GoOn
<1>7. CASE ConsumeRowCopyComplete
  BY <1>7, <1>0 DEF ConsumeRowCopyComplete, RowCopyCancelled, GoOn, Aborted
<1>8. CASE BeforeCutOver
  BY <1>8 DEF BeforeCutOver, Return, GoOn
<1>9. CASE CutOver
  BY <1>9 DEF CutOver, Return, GoOn
<1>10. CASE DropChangelog \/ DropTables \/ Success
  BY <1>10, <1>1 DEF DropChangelog, DropTables, Success, Return, GoOn
<1>11. CASE WriterLoop \/ WriteEvent \/ WriterPanics
  BY <1>11, <1>0 DEF WriterLoop, WriteEvent, WriterPanics
<1>12. CASE CopyChunk
  BY <1>12, <1>0, MigrationAssumption DEF CopyChunk, TypeOK
<1>13. CASE WriterCompletes
  BY <1>13, <1>0 DEF WriterCompletes, RowCopyComplete, Aborted
<1>14. CASE IterateChunks
  BY <1>14, <1>0 DEF IterateChunks, RowCopyComplete, Aborted
<1>15. CASE Streamer \/ ListenOnPanicAbort
  BY <1>15, <1>1 DEF Streamer, StreamEventsReturns, StreamerPanics, Announce,
     ListenOnPanicAbort
<1>16. CASE RowEvent \/ RaiseAlarm \/ SendAlarm \/ Throttle \/ UNCHANGED vars
  BY <1>16, <1>1 DEF RowEvent, RaiseAlarm, SendAlarm, Throttle, vars
<1> QED
  BY <1>2, <1>3, <1>4, <1>5, <1>6, <1>7, <1>8, <1>9, <1>10, <1>11, <1>12, <1>13, <1>14,
     <1>15, <1>16 DEF Next, Main, Writer, Terminated

\* Steps that are not Migrate()'s own leave its place, past the row copy, and its result.
LEMMA OthersStep ==
    ASSUME Writer \/ Streamer \/ IterateChunks \/ ListenOnPanicAbort \/ RowEvent
              \/ RaiseAlarm \/ SendAlarm \/ Throttle \/ UNCHANGED vars
    PROVE  /\ UNCHANGED <<options, found, tables, swapped, result>>
           /\ UNCHANGED main \/ (main = "copying" /\ main' = "copied")
<1> USE DEF mainVars, tableVars
<1>1. CASE Writer
  BY <1>1 DEF Writer, WriterLoop, WriteEvent, CopyChunk, WriterPanics, WriterCompletes,
     RowCopyComplete
<1>2. CASE Streamer \/ IterateChunks \/ ListenOnPanicAbort
  BY <1>2 DEF Streamer, StreamEventsReturns, StreamerPanics, Announce, IterateChunks,
     RowCopyComplete, ListenOnPanicAbort
<1>3. CASE RowEvent \/ RaiseAlarm \/ SendAlarm \/ Throttle \/ UNCHANGED vars
  BY <1>3 DEF RowEvent, RaiseAlarm, SendAlarm, Throttle, vars
<1> QED
  BY <1>1, <1>2, <1>3

\* The result: only a swap, an instant DDL or a noop leads on from the cut-over.
LEMMA ResultStep == ResultInv /\ [Next]_vars => ResultInv'
<1> SUFFICES ASSUME ResultInv, [Next]_vars PROVE ResultInv'
  OBVIOUS
<1> USE DEF ResultInv, Changed, tableVars, Return, GoOn
<1>1. CASE InitiateInspector \/ InitiateStreaming
  BY <1>1 DEF InitiateInspector, InitiateStreaming
<1>2. CASE ValidateOrDropExistingTables \/ CreateTables
  BY <1>2 DEF ValidateOrDropExistingTables, CreateTables
<1>3. CASE InstantDDL \/ GhostTableMigrated \/ Prepare
  BY <1>3 DEF InstantDDL, GhostTableMigrated, Prepare
<1>4. CASE ConsumeRowCopyComplete \/ BeforeCutOver
  BY <1>4 DEF ConsumeRowCopyComplete, BeforeCutOver
<1>5. CASE CutOver \/ CutOverPanics \/ CutOverComplete
  BY <1>5 DEF CutOver, CutOverPanics, CutOverComplete
<1>6. CASE DropChangelog \/ DropTables \/ Success
  BY <1>6 DEF DropChangelog, DropTables, Success
<1>7. CASE ~Main
  BY <1>7, OthersStep DEF Next, Terminated
<1> QED
  BY <1>1, <1>2, <1>3, <1>4, <1>5, <1>6, <1>7 DEF Main

\* The leftovers: what finalCleanup and the cut-over drop or replace is the migration's
\* own.
LEMMA LeftoverStep == LeftoverInv /\ [Next]_vars => LeftoverInv'
<1> SUFFICES ASSUME LeftoverInv, [Next]_vars PROVE LeftoverInv'
  OBVIOUS
<1> USE DEF LeftoverInv, MayDrop, tableVars, Return, GoOn
<1>1. CASE InitiateInspector \/ InitiateStreaming
  BY <1>1 DEF InitiateInspector, InitiateStreaming
<1>2. CASE ValidateOrDropExistingTables
  BY <1>2 DEF ValidateOrDropExistingTables, WithoutGhost, WithoutOld
<1>3. CASE CreateTables
  BY <1>3 DEF CreateTables
<1>4. CASE InstantDDL \/ GhostTableMigrated \/ Prepare
  BY <1>4 DEF InstantDDL, GhostTableMigrated, Prepare
<1>5. CASE ConsumeRowCopyComplete \/ BeforeCutOver
  BY <1>5 DEF ConsumeRowCopyComplete, RowCopyCancelled, BeforeCutOver
<1>6. CASE CutOver \/ CutOverPanics \/ CutOverComplete
  BY <1>6 DEF CutOver, CutOverPanics, CutOverComplete
<1>7. CASE DropChangelog \/ DropTables \/ Success
  BY <1>7 DEF DropChangelog, DropTables, Success
<1>8. CASE ~Main
  BY <1>8, OthersStep DEF Next, Terminated
<1> QED
  BY <1>1, <1>2, <1>3, <1>4, <1>5, <1>6, <1>7, <1>8 DEF Main

-----------------------------------------------------------------------------
\* Type correctness, with any fault.
THEOREM TypeCorrect == Spec => []TypeOK
<1>1. Init => TypeOK
  BY MigrationAssumption DEF Init, TypeOK, Helpers
<1> QED
  BY <1>1, TypeStep, PTL DEF Spec

\* Whatever fails, and in whatever order the error, the abort and the end of the row
\* copy are noticed: the tables are swapped only when every chunk was copied.
THEOREM SwapIsOfCopied == Spec => []SwapMeansCopied
<1>1. Init => TypeOK /\ CopyInv
  BY MigrationAssumption DEF Init, TypeOK, Helpers, CopyInv
<1>2. TypeOK /\ CopyInv /\ [Next]_vars => TypeOK' /\ CopyInv'
  BY TypeStep, CopyStep
<1>3. CopyInv => SwapMeansCopied
  BY DEF CopyInv, SwapMeansCopied
<1> QED
  BY <1>1, <1>2, <1>3, PTL DEF Spec

\* A Migrate() that returns nil has changed the table, or was a noop, whatever fails.
THEOREM SuccessIsChange == Spec => []SuccessMeansSwapped
<1>1. Init => ResultInv
  BY DEF Init, ResultInv
<1>2. ResultInv => SuccessMeansSwapped
  BY DEF ResultInv, Changed, SuccessMeansSwapped
<1> QED
  BY <1>1, <1>2, ResultStep, PTL DEF Spec

\* A ghost or old table that was there before is dropped only with its option, whatever
\* fails.
THEOREM LeftoversKept == Spec => []LeftoversAreKept
<1>1. Init => LeftoverInv
  BY DEF Init, LeftoverInv
<1>2. LeftoverInv => LeftoversAreKept
  BY DEF LeftoverInv, MayDrop, LeftoversAreKept
<1> QED
  BY <1>1, <1>2, LeftoverStep, PTL DEF Spec

-----------------------------------------------------------------------------
(* The inspection that Migrate() begins with.                              *)

\* What the theorem asks of a scenario: of the replication thread of its server it says
\* whether it runs.
ThreadsRunOrNot == \A s \in Scenarios : "running" \in DOMAIN s.server.thread

\* The steps of initiateInspector, and of what follows it, in their order.
PastInspection == {"accepted", "filled", "range", "chunk", "copied"}
PastTopology == {"inspect"} \cup PastInspection
PastMaster == {"topology"} \cup PastTopology
PastReplication == {"table", "columns", "master"} \cup PastMaster
PastFormat == {"restart", "restarting"} \cup PastReplication
PastBinlogs == {"gtid", "format"} \cup PastFormat

\* What the validations have to establish.
LogsRows == server.logBin /\ server.image = "FULL"
ThreadLogsRows == thread.format = "ROW" /\ thread.image = "FULL"
ReplicaLogsRows == IsReplica /\ "assume-rbr" \notin opts => ThreadLogsRows
AppliesToMaster ==
    {"assume-master-host", "allow-master-master"} \cap opts = {} =>
        MasterOf(applier) \in NoMaster
LogsWhatItReplicates ==
    (OnReplica \/ ~InspectorIsAlsoApplier) /\ "tungsten" \notin opts
        => server.logReplicaUpdates

\* What each validation has established for the steps past it.
InspectionInv ==
    /\ "running" \in DOMAIN thread
    /\ m # << >> => step \in PastInspection
    /\ step \in PastBinlogs => LogsRows
    /\ step \in PastFormat => format = "ROW"
    /\ step = "restarting" /\ thread.running => ThreadLogsRows
    /\ step \in PastReplication => ReplicaLogsRows
    /\ step \in PastMaster => (step # "topology" /\ OnReplica) \/ AppliesToMaster
    /\ step \in PastTopology => LogsWhatItReplicates

\* A step that changes nothing on the server.
LEMMA SameServer ==
    ASSUME UNCHANGED <<scenario, thread>>
    PROVE  /\ LogsRows' <=> LogsRows
           /\ ThreadLogsRows' <=> ThreadLogsRows
           /\ ReplicaLogsRows' <=> ReplicaLogsRows
           /\ OnReplica' <=> OnReplica
BY ZenonT(60) DEF LogsRows, ThreadLogsRows, ReplicaLogsRows, OnReplica,
                  IsReplica, opts, server

\* One that does not change the applier either.
LEMMA SameApplier ==
    ASSUME UNCHANGED <<scenario, thread, applier>>
    PROVE  /\ AppliesToMaster' <=> AppliesToMaster
           /\ LogsWhatItReplicates' <=> LogsWhatItReplicates
BY ZenonT(60) DEF AppliesToMaster, LogsWhatItReplicates, OnReplica,
                  InspectorIsAlsoApplier, MasterOf, IsReplica,
                  opts, server

\* Such a step to one that needs no more, or for which the rest is shown.
LEMMA InspectionGoesOn ==
    ASSUME InspectionInv, UNCHANGED <<scenario, thread, applier>>,
           m' # << >> => step' \in PastInspection,
           step' \in PastBinlogs => step \in PastBinlogs \/ LogsRows,
           step' \in PastFormat =>
              format' = "ROW" \/ (format' = format /\ step \in PastFormat),
           step' = "restarting" => step = "restarting",
           step' \in PastReplication => step \in PastReplication \/ ReplicaLogsRows,
           step' \in PastMaster =>
              \/ step' = step
              \/ step \in PastTopology /\ step' # "topology"
              \/ AppliesToMaster,
           step' \in PastTopology => step \in PastTopology
    PROVE  InspectionInv'
<1>1. /\ m' # << >> => step' \in PastInspection
      /\ step' \in PastFormat => format' = "ROW"
      /\ "running" \in DOMAIN thread'
  BY DEF InspectionInv
<1>2. step' \in PastBinlogs => LogsRows'
  BY SameServer, SameApplier DEF InspectionInv
<1>3. step' = "restarting" /\ thread'.running => ThreadLogsRows'
  BY SameServer, SameApplier DEF InspectionInv
<1>4. step' \in PastReplication => ReplicaLogsRows'
  BY SameServer, SameApplier DEF InspectionInv
<1>5. step' \in PastMaster => (step' # "topology" /\ OnReplica') \/ AppliesToMaster'
  BY SameServer, SameApplier DEF InspectionInv, PastMaster, PastTopology, PastInspection
<1>6. step' \in PastTopology => LogsWhatItReplicates'
  BY SameServer, SameApplier DEF InspectionInv
<1> QED
  BY <1>1, <1>2, <1>3, <1>4, <1>5, <1>6, ZenonT(60) DEF InspectionInv

\* Every step keeps what the validations have established.
LEMMA InspectionStep ==
    ASSUME InspectionInv, [InspectionNext]_inspectionVars
    PROVE  InspectionInv'
<1> USE DEF PastBinlogs, PastFormat, PastReplication, PastMaster, PastTopology,
        PastInspection, serverVars, Goto, Reject
<1>0. m # << >> => step \in PastInspection
  BY DEF InspectionInv
<1>1. CASE ValidateAlterStatement \/ ValidateGrants
  <2>1. /\ UNCHANGED <<scenario, thread, format, applier, m>>
        /\ step \in {"alter", "grants"} /\ step' \in {"grants", "binlogs", "rejected"}
    BY <1>1, ZenonT(60) DEF ValidateAlterStatement, ValidateGrants
  <2> QED
    BY <1>0, <2>1, InspectionGoesOn
<1>2. CASE ValidateBinlogs
  <2>1. /\ UNCHANGED <<scenario, thread, format, applier, m>>
        /\ step = "binlogs" /\ step' \in {"gtid", "format", "rejected"}
        /\ step' # "rejected" => LogsRows
    BY <1>2 DEF ValidateBinlogs, LogsRows
  <2> QED
    BY <1>0, <2>1, InspectionGoesOn
<1>3. CASE ValidateGTIDConfig
  <2>1. /\ UNCHANGED <<scenario, thread, format, applier, m>>
        /\ step = "gtid" /\ step' \in {"format", "rejected"}
    BY <1>3 DEF ValidateGTIDConfig
  <2> QED
    BY <1>0, <2>1, InspectionGoesOn
<1>4. CASE ReplicationRestarted
  <2>1. /\ UNCHANGED <<scenario, thread, format, applier, m>>
        /\ step = "restarting" /\ step' \in {"table", "rejected"}
        /\ step' = "table" => thread.running
    BY <1>4 DEF ReplicationRestarted
  <2>2. step' = "table" => ReplicaLogsRows
    BY <2>1 DEF InspectionInv, ReplicaLogsRows
  <2> QED
    BY <1>0, <2>1, <2>2, InspectionGoesOn
<1>5. CASE ValidateOriginalTable
  <2>1. /\ UNCHANGED <<scenario, thread, format, applier, m>>
        /\ step = "table" /\ step' \in {"columns", "rejected"}
    BY <1>5 DEF ValidateOriginalTable
  <2> QED
    BY <1>0, <2>1, InspectionGoesOn
<1>6. CASE InspectOriginalAndGhostTables
  <2>1. /\ UNCHANGED <<scenario, thread, format, applier>>
        /\ step = "inspect"
        /\ step' = "accepted" \/ (step' = "rejected" /\ m' = m)
    BY <1>6, ZenonT(60) DEF InspectOriginalAndGhostTables
  <2> QED
    BY <1>0, <2>1, InspectionGoesOn
<1>7. CASE QueryFails
  <2>1. /\ UNCHANGED <<scenario, thread, format, applier, m>>
        /\ step \notin PastInspection /\ step' = "rejected"
    BY <1>7 DEF QueryFails
  <2> QED
    BY <1>0, <2>1, InspectionGoesOn
<1>8. CASE Copy
  <2>1. /\ UNCHANGED <<scenario, thread, format, applier, m>>
        /\ step \in PastInspection /\ step' \in PastInspection
    BY <1>8, ZenonT(60) DEF Copy, FillOriginalTable,
                            ReadMigrationRangeValues,
                            CalculateNextIterationRangeEndValues,
                            ApplyIterationInsertQuery
  <2> QED
    BY <1>0, <2>1, InspectionGoesOn
<1>9. CASE AppInsert \/ AppDelete \/ AppUpdate \/ InspectionOver
           \/ UNCHANGED inspectionVars
  <2>1. UNCHANGED <<scenario, thread, format, applier, m, step>>
    BY <1>9, ZenonT(60) DEF AppInsert, AppDelete, AppUpdate,
                            Applies, InspectionOver, inspectionVars
  <2> QED
    BY <1>0, <2>1, InspectionGoesOn
<1>10. CASE ApplyBinlogFormat
  <2>1. /\ UNCHANGED <<scenario, thread, applier, m>> /\ format' = "ROW"
        /\ step = "format" /\ step' \in {"restart", "table"}
        /\ step' = "table" => ReplicaLogsRows
    BY <1>10 DEF ApplyBinlogFormat, ReplicaLogsRows
  <2> QED
    BY <1>0, <2>1, InspectionGoesOn
<1>11. CASE RestartReplication
  <2>1. CASE /\ UNCHANGED thread
             /\ (step' = "rejected" \/ (step' = "table" /\ ~IsReplica))
    <3>1. /\ UNCHANGED <<scenario, thread, format, applier, m>> /\ step = "restart"
          /\ step' = "table" => ReplicaLogsRows
      BY <1>11, <2>1 DEF RestartReplication, ReplicaLogsRows
    <3> QED
      BY <1>0, <2>1, <3>1, InspectionGoesOn
  <2>2. CASE /\ thread' = [thread EXCEPT !.running = FALSE]
             /\ step' \in {"restarting", "rejected"}
    <3>1. /\ UNCHANGED <<scenario, format, m>> /\ m = << >> /\ LogsRows /\ format = "ROW"
          /\ "running" \in DOMAIN thread
      BY <1>0, <1>11 DEF RestartReplication, InspectionInv
    <3>2. "running" \in DOMAIN thread' /\ ~thread'.running
      BY <2>2, <3>1
    <3>3. LogsRows'
      BY <3>1 DEF LogsRows, server
    <3> QED
      BY <2>2, <3>1, <3>2, <3>3 DEF InspectionInv
  <2> QED
    BY <1>11, <2>1, <2>2 DEF RestartReplication
<1>12. CASE ThreadStarts
  <2>1. /\ UNCHANGED <<scenario, step, format, m>> /\ m = << >> /\ step = "restarting"
        /\ LogsRows /\ format = "ROW"
        /\ thread' = [running |-> TRUE, format |-> format, image |-> server.image]
    BY <1>0, <1>12 DEF ThreadStarts, InspectionInv
  <2>2. LogsRows'
    BY <2>1 DEF LogsRows, server
  <2>3. ThreadLogsRows' /\ "running" \in DOMAIN thread'
    BY <2>1 DEF ThreadLogsRows, LogsRows
  <2> QED
    BY <2>1, <2>2, <2>3 DEF InspectionInv
<1>13. CASE InspectOriginalTable
  <2>1. /\ UNCHANGED <<scenario, thread, format, m>> /\ m = << >> /\ step = "columns"
        /\ step' \in {"rejected", "topology", "master"}
        /\ step' = "topology" => "assume-master-host" \in opts
    BY <1>0, <1>13 DEF InspectOriginalTable
  <2>2. step' = "topology" => AppliesToMaster'
    BY <2>1 DEF AppliesToMaster, opts
  <2>3. LogsRows' /\ ReplicaLogsRows' /\ format = "ROW" /\ "running" \in DOMAIN thread
    BY <2>1, SameServer DEF InspectionInv
  <2> QED
    BY <2>1, <2>2, <2>3 DEF InspectionInv
<1>14. CASE GetMasterConnectionConfigSafe
  <2>1. UNCHANGED <<scenario, thread, format, m>> /\ m = << >> /\ step = "master"
    BY <1>0, <1>14 DEF GetMasterConnectionConfigSafe
  <2>2. CASE UNCHANGED applier /\ step' = "rejected"
    BY <2>1, <2>2, InspectionGoesOn
  <2>3. CASE UNCHANGED applier /\ step' = "topology" /\ AppliesToMaster
    BY <2>1, <2>3, InspectionGoesOn, SameServer DEF InspectionInv
  <2>4. CASE step' = step
    <3>1. LogsRows' /\ ReplicaLogsRows' /\ format = "ROW" /\ "running" \in DOMAIN thread
      BY <2>1, SameServer DEF InspectionInv
    <3> QED
      BY <2>1, <2>4, <3>1 DEF InspectionInv
  <2> QED
    BY <1>14, <2>2, <2>3, <2>4 DEF GetMasterConnectionConfigSafe, AppliesToMaster, NoMaster
<1>15. CASE ValidateTopology
  <2>1. /\ UNCHANGED <<scenario, thread, format, m>> /\ m = << >> /\ step = "topology"
        /\ step' \in {"rejected", "inspect"}
        /\ applier' = IF OnReplica THEN "inspected" ELSE applier
        /\ step' = "inspect" => \/ server.logReplicaUpdates
                                \/ "tungsten" \in opts
                                \/ ~OnReplica /\ InspectorIsAlsoApplier
    BY <1>0, <1>15 DEF ValidateTopology
  <2>2. LogsRows' /\ ReplicaLogsRows' /\ format = "ROW" /\ "running" \in DOMAIN thread
    BY <2>1, SameServer DEF InspectionInv
  <2>3. step' = "inspect" => LogsWhatItReplicates'
    BY <2>1 DEF LogsWhatItReplicates, OnReplica, InspectorIsAlsoApplier,
                opts, server
  <2>4. OnReplica' \/ AppliesToMaster'
    BY <2>1, SameServer, SameApplier DEF InspectionInv
  <2> QED
    BY <2>1, <2>2, <2>3, <2>4 DEF InspectionInv
<1> QED
  BY <1>1, <1>2, <1>3, <1>4, <1>5, <1>6, <1>7, <1>8, <1>9, <1>10, <1>11, <1>12,
     <1>13, <1>14, <1>15, ZenonT(60) DEF InspectionNext, Validate

\* Whatever servers, options, tables and ALTERs there are: what the inspection accepts
\* has every change of the original table in the binary log that gh-ost reads, as whole
\* rows, and is written where the application writes.
THEOREM Trusted ==
    ASSUME ThreadsRunOrNot
    PROVE  InspectionSpec => []EventsArrive
<1>1. InspectionInit => InspectionInv
  BY DEF InspectionInit, InspectionInv, ThreadsRunOrNot, server, PastBinlogs,
         PastFormat, PastReplication, PastMaster, PastTopology, PastInspection
<1>2. InspectionInv => EventsArrive
  BY DEF InspectionInv, EventsArrive, Accepted, LogsRows, ReplicaLogsRows,
         ThreadLogsRows, AppliesToMaster, LogsWhatItReplicates, PastBinlogs, PastFormat,
         PastReplication, PastMaster, PastTopology, PastInspection
<1> QED
  BY <1>1, <1>2, InspectionStep, PTL DEF InspectionSpec

=============================================================================
