------------------------------ MODULE Inspector ------------------------------
(***************************************************************************)
(* What happens before gh-ost trusts a server, a table and an ALTER, and   *)
(* what it then does with them: the validations of the Inspector and of    *)
(* initiateInspector, the switch to row based replication, the search for  *)
(* the master, the choice of the migration's key and columns, and the copy *)
(* of a table and the events on it by the statements of SQLBuilder.        *)
(*                                                                         *)
(* The table is copied undisturbed and the events are applied one by one:  *)
(* how the two run into each other is GhostSync's part, where keys and rows *)
(* are opaque.  Here it is what the statements do to columns.              *)
(***************************************************************************)
EXTENDS SQLBuilder

CONSTANT Scenarios  \* the servers, the options, the ALTER and the original table, the
                    \* chunk size, and the bounds maxRows on the rows the copy finds
                    \* and maxEvents on the row events after it

VARIABLES
    scenario,    \* one of Scenarios
    step,        \* how far initiateInspector and what follows it has come
    format,      \* @@global.binlog_format of the inspected server
    thread,      \* its replication thread: running or not, and the settings it has
    visited,     \* visitedKeys of the search for the master
    applier,     \* ApplierConnectionConfig: the server found so far
    keys,        \* OriginalTableUniqueKeys
    m,           \* what inspectOriginalAndGhostTables found out
    orig, ghost, \* the rows of the two tables
    range,       \* MigrationRange{Min,Max}Values
    iterMin, iterMax, \* MigrationIterationRange{Min,Max}Values, or << >>
    iteration,   \* MigrationContext.Iteration
    events       \* row events applied

serverVars == <<format, thread, visited, applier>>
rowVars == <<orig, ghost, range, iterMin, iterMax, iteration, events>>
inspectionVars == <<scenario, step, serverVars, keys, m, rowVars>>

opts == scenario.options     \* the command-line flags given
server == scenario.server    \* the inspected server

-----------------------------------------------------------------------------
(* The original table's rows.                                              *)

Values(type) ==
    CASE IsEnum(type) -> {1, 2, 3}
      [] type \in {"unsigned", "json"} \/ (HasCharset(type) /\ ~IsEnum(type)) -> {0, 1, 3}
      [] type = "binary" -> {4, 5, 7}
      [] type = "varbinary" -> {0, 5, 6}
      [] OTHER -> {0, 1, 2}

\* A column that is in no unique key has the one value or the other.
ValuesOf(table, name) ==
    LET type == TypeOf(table, name)
    IN  IF \E k \in Range(table.keys) : name \in Range(k.columns)
          THEN Values(type) ELSE Values(type) \ {1}

RowsOf(table) ==
    {r \in [NameSet(table) -> UNION {ValuesOf(table, n) : n \in NameSet(table)}] :
        \A n \in NameSet(table) :
            IF TypeOf(table, n) = "virtual" THEN r[n] = Generated(r)
                                            ELSE r[n] \in ValuesOf(table, n)}

\* What the server's own ALTER TABLE would make of a row, in a session with the
\* applier's time zone.
Altered(r) ==
    LET ghostTable == AlterTable(scenario.original, scenario.alter)
        renames == ColumnRenames(scenario.alter)
        New(n) == IF n \in DOMAIN renames THEN renames[n] ELSE n
        kept == NameSet(scenario.original) \ DroppedColumns(scenario.alter)
        Image(n) == {Copied(TypeOf(scenario.original, c), TypeOf(ghostTable, n), r[c]) :
                         c \in {d \in kept : New(d) = n}}
    IN  [n \in NameSet(ghostTable) |->
            CASE TypeOf(ghostTable, n) = "virtual" -> Generated(r)
              [] TypeOf(ghostTable, n) # "virtual" /\ Image(n) = {} -> 0
              [] OTHER -> CHOOSE v \in Image(n) : TRUE]

\* The application's rows are unique under the keys of the original table and under
\* those that the ALTER adds.
Compatible(rows) ==
    \A x, y \in rows : x # y =>
        /\ ~Duplicate(scenario.original, x, y)
        /\ ~Duplicate(m.ghost, Altered(x), Altered(y))

InspectionInit ==
    /\ scenario \in Scenarios
    /\ step = "alter"
    /\ format = server.format
    /\ thread = server.thread
    /\ visited = {}
    /\ applier = "inspected"
    /\ keys = << >> /\ m = << >>
    /\ orig = {} /\ ghost = {}
    /\ range = << >> /\ iterMin = << >> /\ iterMax = << >>
    /\ iteration = 0
    /\ events = 0

Goto(next) == step' = next
Reject == Goto("rejected")

-----------------------------------------------------------------------------
(* Migrate() and Inspector.InitDBConnections.                              *)

\* validateAlterStatement: a rename has to be approved, or skipped.
Renames == IF "skip-renamed-columns" \in opts
             THEN NoRenames ELSE GetNonTrivialRenames(scenario.alter)

ValidateAlterStatement ==
    /\ step = "alter"
    /\ IF \/ IsRenameTable(scenario.alter)
          \/ DOMAIN Renames # {} /\ "approve-renamed-columns" \notin opts
         THEN Reject ELSE Goto("grants")
    /\ UNCHANGED <<scenario, serverVars, keys, m, rowVars>>

\* validateGrants
ValidateGrants ==
    /\ step = "grants"
    /\ IF \/ "ALL" \in server.grants
          \/ /\ {"SUPER", "REPLICATION CLIENT"} \cap server.grants # {}
             /\ {"REPLICATION SLAVE", "ALL on database"} \subseteq server.grants
         THEN Goto("binlogs") ELSE Reject
    /\ UNCHANGED <<scenario, serverVars, keys, m, rowVars>>

RequiresBinlogFormatChange == server.format # "ROW"

\* validateBinlogs
ValidateBinlogs ==
    /\ step = "binlogs"
    /\ IF /\ server.logBin
          /\ RequiresBinlogFormatChange => /\ "switch-to-rbr" \in opts
                                           /\ ~server.hasReplicas
          /\ server.image = "FULL"
         THEN Goto(IF "gtid" \in opts THEN "gtid" ELSE "format") ELSE Reject
    /\ UNCHANGED <<scenario, serverVars, keys, m, rowVars>>

\* validateGTIDConfig
ValidateGTIDConfig ==
    /\ step = "gtid"
    /\ IF server.mariaDB \/ server.gtid THEN Goto("format") ELSE Reject
    /\ UNCHANGED <<scenario, serverVars, keys, m, rowVars>>

IsReplica == server.master # "none"

\* applyBinlogFormat: set global binlog_format='ROW' when it is something else.
ApplyBinlogFormat ==
    /\ step = "format"
    /\ format' = "ROW"
    /\ Goto(IF RequiresBinlogFormatChange \/ "assume-rbr" \notin opts
              THEN "restart" ELSE "table")
    /\ UNCHANGED <<scenario, thread, visited, applier, keys, m, rowVars>>

\* Mutant: an error of STOP REPLICA goes unnoticed, START having had none.
RestartReplicationUnstopped ==
    /\ step = "restart"
    /\ CASE ~IsReplica -> Goto("table") /\ UNCHANGED thread
         [] IsReplica /\ ~thread.running -> Reject /\ UNCHANGED thread
         [] OTHER -> \/ /\ thread' = [thread EXCEPT !.running = FALSE]
                        /\ step' \in {"restarting", "rejected"}
                     \/ Goto("restarting") /\ UNCHANGED thread
    /\ UNCHANGED <<scenario, format, visited, applier, keys, m, rowVars>>

\* restartReplication: a server that replicates from nobody is left alone, one whose
\* replication is broken is refused.  STOP and START are both issued before either's
\* error is looked at.
RestartReplication ==
    /\ step = "restart"
    /\ CASE ~IsReplica -> Goto("table") /\ UNCHANGED thread
         [] IsReplica /\ ~thread.running -> Reject /\ UNCHANGED thread
         [] OTHER -> \/ /\ thread' = [thread EXCEPT !.running = FALSE]
                        /\ step' \in {"restarting", "rejected"}
                     \/ Reject /\ UNCHANGED thread
    /\ UNCHANGED <<scenario, format, visited, applier, keys, m, rowVars>>

\* The replication thread starts, with the settings of that moment.  (It may take a
\* while after START REPLICA, and may fail to.)
ThreadStarts ==
    /\ step = "restarting"
    /\ ~thread.running
    /\ thread' = [running |-> TRUE, format |-> format, image |-> server.image]
    /\ UNCHANGED <<scenario, step, format, visited, applier, keys, m, rowVars>>

\* The loop of restartReplication: both threads run, or startReplicationMaxWait is over.
ReplicationRestarted ==
    /\ step = "restarting"
    /\ IF thread.running THEN Goto("table") ELSE Reject
    /\ UNCHANGED <<scenario, serverVars, keys, m, rowVars>>

-----------------------------------------------------------------------------
(* The original table, and the master.                                     *)

\* A view is no table; a foreign key on either side, and triggers, need a flag.
ValidateTable(t) == t.kind = "table"

ValidateTableForeignKeys(t) ==
    \/ "skip-foreign-key-checks" \in opts
    \/ /\ "parent" \notin t.foreignKeys
       /\ "child" \in t.foreignKeys => "discard-foreign-keys" \in opts

\* ghostTriggers: one of the ghost table's triggers exists already, or would have too
\* long a name.
ValidateTableTriggers(t) ==
    t.triggers => "include-triggers" \in opts /\ ~t.ghostTriggers

ValidateOriginalTable ==
    /\ step = "table"
    /\ IF /\ ValidateTable(scenario.table)
          /\ ValidateTableForeignKeys(scenario.table)
          /\ ValidateTableTriggers(scenario.table)
         THEN Goto("columns") ELSE Reject
    /\ UNCHANGED <<scenario, serverVars, keys, m, rowVars>>

\* InspectOriginalTable: its candidate keys, in an order the server returns.
InspectOriginalTable ==
    /\ step = "columns"
    /\ keys' \in GetCandidateUniqueKeys(scenario.original)
    /\ IF keys' = << >> THEN Reject
         ELSE Goto(IF "assume-master-host" \in opts THEN "topology" ELSE "master")
    /\ applier' = IF "assume-master-host" \in opts THEN server.assumedMaster ELSE applier
    /\ UNCHANGED <<scenario, format, thread, visited, m, rowVars>>

\* getMasterKeyFromSlaveStatus: the master of each server, "none" of one that does
\* not replicate, "invalid" when that is no valid host and port, and "broken" when its
\* replication does not run.
MasterOf(s) ==
    CASE s # "inspected" -> server.upstream[s]
      [] s = "inspected" /\ IsReplica /\ ~thread.running -> "broken"
      [] OTHER -> server.master

NoMaster == {"none", "invalid"}

\* GetMasterConnectionConfigSafe, one call of its recursion.
GetMasterConnectionConfigSafe ==
    /\ step = "master"
    /\ LET master == MasterOf(applier)
       IN  CASE master \in NoMaster ->
                  Goto("topology") /\ UNCHANGED <<applier, visited>>
             [] master = "broken" ->
                  Reject /\ UNCHANGED <<applier, visited>>
             [] master \in visited ->
                  /\ Goto(IF "allow-master-master" \in opts THEN "topology" ELSE "rejected")
                  /\ UNCHANGED <<applier, visited>>
             [] OTHER ->
                  /\ applier' = master
                  /\ visited' = visited \cup {master}
                  /\ UNCHANGED step
    /\ UNCHANGED <<scenario, format, thread, keys, m, rowVars>>

OnReplica == {"test-on-replica", "migrate-on-replica"} \cap opts # {}
InspectorIsAlsoApplier == applier = "inspected"

\* The rest of initiateInspector, with validateLogSlaveUpdates at its end.
ValidateTopology ==
    /\ step = "topology"
    /\ IF /\ IF OnReplica THEN ~InspectorIsAlsoApplier
               ELSE InspectorIsAlsoApplier => "allow-on-master" \in opts
          /\ \/ server.logReplicaUpdates
             \/ "tungsten" \in opts
             \/ ~OnReplica /\ InspectorIsAlsoApplier
         THEN Goto("inspect") ELSE Reject
    /\ applier' = IF OnReplica THEN "inspected" ELSE applier
    /\ UNCHANGED <<scenario, format, thread, visited, keys, m, rowVars>>

-----------------------------------------------------------------------------
(* The ghost table: inspectOriginalAndGhostTables, and the builders of     *)
(* prepareQueries.                                                         *)

\* The first key column that is not shared (and not generated in both tables) makes
\* the inspection panic, or NewDMLUpdateQueryBuilder return an error.
Writable(key, shared, mapped, ghostTable) ==
    \A n \in Range(key.columns) :
        \/ n \in VirtualColumns(scenario.original) \cap VirtualColumns(ghostTable)
        \/ n \in Range(shared) \cap Range(mapped)

TimezoneConversionInKey(key, shared, mapped, ghostTable) ==
    \E i \in DOMAIN shared :
        /\ shared[i] = mapped[i] /\ shared[i] \in Range(key.columns)
        /\ TypeOf(scenario.original, shared[i]) = "datetime"
        /\ TypeOf(ghostTable, mapped[i]) = "timestamp"

InspectOriginalAndGhostTables ==
    /\ step = "inspect"
    /\ LET ghostTable == AlterTable(scenario.original, scenario.alter)
           chosen == ChosenKeys(scenario.original,
                                GetSharedUniqueKeys(keys, ghostTable.keys))
           shared == GetSharedColumns(scenario.original, ghostTable,
                                      DroppedColumns(scenario.alter), Renames)
           mapped == MapSharedColumns(shared, Renames)
       IN  IF /\ scenario.table.sameOnApplier
              /\ ghostTable.keys # << >>
              /\ chosen # << >>
              /\ HasNullable(scenario.original, chosen[1])
                   => "allow-nullable-unique-key" \in opts
              /\ ~TimezoneConversionInKey(chosen[1], shared, mapped, ghostTable)
              /\ Writable(chosen[1], shared, mapped, ghostTable)
             THEN /\ m' = [original |-> scenario.original, ghost |-> ghostTable,
                           key |-> chosen[1], shared |-> shared, mapped |-> mapped]
                  /\ Goto("accepted")
             ELSE Reject /\ UNCHANGED m
    /\ UNCHANGED <<scenario, serverVars, keys, rowVars>>

\* The inspection of the tables goes by their definitions: what is in the table
\* matters from here on.
FillOriginalTable ==
    /\ step = "accepted"
    /\ orig' \in UNION {kSubset(n, RowsOf(scenario.original)) : n \in 0..scenario.maxRows}
    /\ Compatible(orig')
    /\ Goto("filled")
    /\ UNCHANGED <<scenario, serverVars, keys, m, ghost, range, iterMin, iterMax,
                   iteration, events>>

-----------------------------------------------------------------------------
(* The row copy.                                                           *)

KeyTypes == [i \in DOMAIN m.key.columns |-> TypeOf(m.original, m.key.columns[i])]
OrigKeys == {KeyOf(r, m.key.columns) : r \in orig}

ReadMigrationRangeValues ==
    /\ step = "filled"
    /\ IF orig = {}
         THEN Goto("copied") /\ UNCHANGED range
         ELSE /\ \E min \in MinValues(KeyTypes, OrigKeys), max \in MaxValues(KeyTypes, OrigKeys) :
                    range' = [min |-> min, max |-> max]
              /\ Goto("range")
    /\ UNCHANGED <<scenario, serverVars, keys, m, orig, ghost, iterMin, iterMax,
                   iteration, events>>

\* SetNextIterationRangeMinValues and CalculateNextIterationRangeEndValues: the query
\* with the offset, and when it finds nothing the one with the temporary table.
CalculateNextIterationRangeEndValues ==
    /\ step = "range"
    /\ LET start == IF iterMax = << >> THEN range.min ELSE iterMax
           first == iteration = 0
           size == scenario.chunkSize
           offset == RangeEndViaOffset(KeyTypes, OrigKeys, start, range.max, size, first)
           temptable == RangeEndViaTemptable(KeyTypes, OrigKeys, start, range.max, size, first)
       IN  /\ iterMin' = start
           /\ IF offset \cup temptable = {}
                THEN Goto("copied") /\ UNCHANGED iterMax
                ELSE /\ iterMax' \in IF offset # {} THEN offset ELSE temptable
                     /\ Goto("chunk")
    /\ UNCHANGED <<scenario, serverVars, keys, m, orig, ghost, range, iteration, events>>

Chunk == {r \in orig : InRange(KeyTypes, KeyOf(r, m.key.columns), iterMin, iterMax,
                               iteration = 0)}

ApplyIterationInsertQuery ==
    /\ step = "chunk"
    /\ ghost' = FoldSet(LAMBDA r, rows : InsertIgnore(m, rows, CopiedRow(m, r)), ghost, Chunk)
    /\ iteration' = iteration + 1
    /\ Goto("range")
    /\ UNCHANGED <<scenario, serverVars, keys, m, orig, range, iterMin, iterMax, events>>

-----------------------------------------------------------------------------
(* Row events.                                                             *)

Applies(rows) ==
    /\ step = "copied"
    /\ events < scenario.maxEvents
    /\ events' = events + 1
    /\ orig' = rows
    /\ Compatible(rows)
    /\ UNCHANGED <<scenario, step, serverVars, keys, m, range, iterMin, iterMax, iteration>>

AppInsert ==
    \E r \in RowsOf(scenario.original) \ orig :
        /\ Applies(orig \cup {r})
        /\ ghost' = DMLInsert(m, ghost, RowImage(m.original, r))

AppDelete ==
    \E r \in orig :
        /\ Applies(orig \ {r})
        /\ ghost' = DMLDelete(m, ghost, RowImage(m.original, r))

\* buildDMLEventQuery: an UPDATE of the key's columns is a DELETE and an INSERT.
AppUpdate ==
    \E r \in orig, s \in RowsOf(scenario.original) :
        LET where == RowImage(m.original, r)
            new == RowImage(m.original, s)
        IN  /\ Applies((orig \ {r}) \cup {s})
            /\ ghost' = IF ModifiesUniqueKey(m, where, new)
                          THEN DMLInsert(m, DMLDelete(m, ghost, where), new)
                          ELSE DMLUpdate(m, ghost, where, new)

\* A query fails: "return err".
QueryFails ==
    /\ step \in {"grants", "binlogs", "gtid", "format", "restart", "restarting",
                 "table", "columns", "master", "topology", "inspect"}
    /\ Reject
    /\ UNCHANGED <<scenario, serverVars, keys, m, rowVars>>

InspectionOver ==
    /\ step \in {"rejected", "copied"}
    /\ UNCHANGED inspectionVars

Validate ==
    ValidateAlterStatement \/ ValidateGrants \/ ValidateBinlogs \/ ValidateGTIDConfig
       \/ ApplyBinlogFormat \/ RestartReplication \/ ThreadStarts \/ ReplicationRestarted
       \/ ValidateOriginalTable \/ InspectOriginalTable \/ GetMasterConnectionConfigSafe
       \/ ValidateTopology \/ InspectOriginalAndGhostTables \/ QueryFails

Copy == FillOriginalTable \/ ReadMigrationRangeValues
           \/ CalculateNextIterationRangeEndValues \/ ApplyIterationInsertQuery

InspectionNext == Validate \/ Copy \/ AppInsert \/ AppDelete \/ AppUpdate \/ InspectionOver

InspectionSpec == InspectionInit /\ [][InspectionNext]_inspectionVars

-----------------------------------------------------------------------------
Accepted == m # << >>

\* What is written where the application writes comes to the binary log that gh-ost
\* reads, and as rows with all their columns ("so that we are _certain_ the binlog
\* format and row image settings have actually been applied to the replication
\* thread", restartReplication), and the ghost table is written on the master
\* (getMasterConnectionConfig).  --assume-rbr, --tungsten, --assume-master-host and
\* --allow-master-master vouch for what they are about.  It is about the server's
\* settings and the replication thread: sessions that were open on a master before
\* --switch-to-rbr keep their format.  A server with an invalid master passes for the
\* master.
EventsArrive ==
    Accepted =>
        /\ server.logBin /\ format = "ROW" /\ server.image = "FULL"
        /\ IsReplica /\ "assume-rbr" \notin opts =>
              thread.format = "ROW" /\ thread.image = "FULL"
        /\ (OnReplica \/ ~InspectorIsAlsoApplier) /\ "tungsten" \notin opts =>
              server.logReplicaUpdates
        /\ ~OnReplica /\ {"assume-master-host", "allow-master-master"} \cap opts = {} =>
              MasterOf(applier) \in NoMaster

\* The chunks cut the table, in the order of the migration's key, into pieces of at
\* most chunk-size rows: what is copied is what is not past the last chunk's end, and
\* in the end everything (CalculateNextIterationRangeEndValues returns "false" when
\* "we're past the last chunk").
CopiedPart ==
    IF step = "copied" THEN orig
      ELSE {r \in orig : iteration > 0 /\ ~OrderedBefore(KeyTypes,
                IF step = "chunk" THEN iterMin ELSE iterMax, KeyOf(r, m.key.columns))}

ChunksPartition ==
    step \in {"range", "chunk", "copied"} /\ events = 0 =>
        /\ ghost = {CopiedRow(m, r) : r \in CopiedPart}
        /\ step = "chunk" => Cardinality(Chunk) \in 1..scenario.chunkSize

\* Where the statements do keep the two tables alike.  Not so: a column that is renamed
\* and changes its type at once, or is renamed behind gh-ost's back; a TIMESTAMP that
\* becomes a DATETIME; TEXT in UTF-8 that becomes latin1; a column of the key that is
\* renamed, changes its character set, is an ENUM and becomes something else, or is
\* VARBINARY and becomes BINARY.
Convertible ==
    /\ "skip-renamed-columns" \notin opts
    /\ \A i \in DOMAIN m.shared :
          LET from == TypeOf(m.original, m.shared[i])
              to == TypeOf(m.ghost, m.mapped[i])
          IN  /\ m.shared[i] = m.mapped[i] \/ from = to
              /\ ~(from = "timestamp" /\ to = "datetime")
              /\ ~(from = "long text" /\ to = "latin1")
              /\ m.shared[i] \in Range(m.key.columns) =>
                    /\ m.shared[i] = m.mapped[i]
                    /\ Charset(from) = Charset(to)
                    /\ IsEnum(from) \/ from = "varbinary" => from = to

\* A row gets to the ghost table copied or as an event, and later events change it
\* there: either way it is what ALTER TABLE makes of the original's row, the column
\* that is dropped and added anew included (BuildRangeInsertQuery, the DML query
\* builders, getSharedColumns).
GhostIsImage ==
    step = "copied" /\ Convertible => ghost = {Altered(r) : r \in orig}

=============================================================================
