# gh-ost in TLA+

gh-ost changes the schema of a MySQL table without triggers. It creates a *ghost* table
with the new schema, copies the rows of the *original* table to it in chunks, applies the
changes that the application makes meanwhile, which it reads from the binary log, and in
the end swaps the two tables (the *cut-over*). What has to be right about this is
concurrent: a chunk copied while its rows change, a swap between two writes of an
application that never stops, an abort in the middle of anything, a restart from a
checkpoint. This directory has TLA+ modules of those parts, TLC configurations that check
them on small instances, and TLAPS proofs for all instances.

Source paths below are relative to `src/go/`.

## The system and its parts

One process runs these goroutines, over one `MigrationContext`:

| part | where | state | interacts with |
|---|---|---|---|
| `Migrate()` | `logic/migrator.go` | its place in the sequence inspect, stream, create tables, copy, cut over, clean up | everyone |
| binlog reader | `binlog/gomysql_reader.go` | position, last completed transaction | MySQL, streamer |
| streamer, dispatcher | `logic/streamer.go` | listeners, `eventsChannel`, reconnects | reader, apply queue |
| chunk producer | `iterateChunks` | range of the next chunk | writer |
| writer | `executeWriteFuncs`, `logic/applier.go` | batch under way, retries | both queues, MySQL |
| checkpoints | `checkpointLoop` | coordinates sampled, checkpoint table | writer, `--resume`, `--revert` |
| cut-over | `atomicCutOver`, `cutOverTwoStep` | locks, sentry table, channels | writer (sentinel), MySQL |
| postponement | `cutOver`, `logic/server.go` | flag file, `UserCommandedUnpostponeFlag` | server, cut-over |
| throttler | `logic/throttler.go` | metrics, verdict, hibernation | writer, heartbeat, server |
| heartbeat | `InitiateHeartbeat` | changelog table | streamer, throttler |
| abort | `listenOnPanicAbort`, `base/context.go` | abort error, context | everyone |
| migration lock | `AcquireMigrationLock` | a user-level lock of the server | other gh-ost processes |
| inspector | `logic/inspect.go`, `mysql/utils.go` | what it found out of servers, tables and the `ALTER` | `Migrate()`, MySQL |
| statements, `ALTER` parser | `sql/` | column lists | inspector, writer |
| server, hooks, status, metrics, CLI | `logic/`, `metrics/`, `cmd/` | options | `Migrate()` |

The behaviours that make this hard, each listed with its line in `PROJECT.json`
("hazards"): interleavings of row copy, events and application transactions; MySQL's
two-phase commit, in which an event is in the binlog before its row is visible; retries of
statements and of whole batches; a reader that reconnects and reads events again; crashes
between a batch and its checkpoint; a `RENAME` left behind in the server by a failed
attempt; sends to goroutines that are gone; metrics that are stale when used; commands
that take effect one attempt too late; a replication thread that never took the new
settings; a column that keeps its name and not its meaning.

## Modules

| module | models | lines of control it stands for |
|---|---|---|
| `GhostSync` | row copy against event application: what is in the tables | `iterateChunks`, `onApplyEventStruct`, `ApplyIterationInsertQuery`, `ApplyDMLEventQueries`, `sql/builder.go` |
| `GhostSyncInv`, `GhostSyncProofs` | its inductive invariant with the theorems about types and progress; what a step does to one key and the theorems about the tables | |
| `EventPipeline` | reader, dispatcher, queue, writer, sentinel, checkpoint, resume and revert | `gomysql_reader.go`, `streamer.go`, `Checkpoint`, `waitForEventsUpToLock` |
| `EventPipelineInv`, `EventPipelineOrder`, `EventPipelineProofs` | its inductive invariant and the parts about log, reader and types; the order of entries in the pipeline; rows and checkpoints, and the theorems | |
| `TableSwap` | abstract: what a cut-over promises | |
| `AtomicCutOver`, `AtomicCutOverProofs` | the atomic cut-over with its locker and renamer, and its theorems | `atomicCutOver`, `AtomicCutOverMagicLock`, `AtomicCutoverRename` |
| `TwoStepCutOver` | the two-step cut-over, test on replica | `cutOverTwoStep`, `handleCutOverResult` |
| `Migration`, `MigrationProofs` | life cycle, abort, helper tables, and their theorems; the theorem of `Inspector` | `Migrate`, `executeWriteFuncs`, `consumeRowCopyComplete`, `finalCleanup` |
| `Throttler` | collectors, checks, hibernation, heartbeat | `throttler.go`, `InitiateHeartbeat` |
| `CutOverGate` | the postponed cut-over | `cutOver`, `applyServerCommand` |
| `MigrationLock` | the lock against a second gh-ost | `AcquireMigrationLock` … `Teardown` |
| `ComponentProofs` | the theorems of `TwoStepCutOver`, `Throttler`, `CutOverGate` and `MigrationLock` | |
| `TableShape` | what gh-ost makes of an `ALTER` and of two tables: keys and columns | `sql/parser.go`, `sql/types.go`, `getSharedUniqueKeys`, `getSharedColumns` |
| `SQLBuilder` | what the built statements do to rows with columns | `sql/builder.go`, `convertArg` |
| `Inspector` | validations, row based replication, search for the master, and the copy of a table column by column | `logic/inspect.go`, `GetMasterConnectionConfigSafe`, `initiateInspector` |
| `MCGhostSync`, `MCEventPipeline`, `MCInspector` | symmetry, views, sets of transactions and scenarios for TLC | |

`PROJECT.json` maps every definition to the lines it models. Definitions that only serve to
show that a property can fail are marked "Mutant" and are used by no specification.

Behaviour that the code meets only when something unlikely happens is switched on by a
constant `Faults` (or a Boolean such as `FreshReaderFails`), or is part of a scenario chosen
in the initial state (`TwoStepCutOver`, `Inspector`). This keeps two questions apart: what
the code guarantees, and what it takes to break that.

### GhostSync

A row is a key and an opaque value; keys are integers so that ranges mean what they mean
in SQL. `orig` is the original table after every transaction in `binlog`; `visible` is how
far the storage engine has committed them. The writer reads a chunk's end (a read without
locks), copies the chunk with `INSERT IGNORE ... SELECT ... LOCK IN SHARE MODE` (which
waits for rows that are locked by a transaction under way), or applies a batch of events
one statement after another and commits it; any of it may fail and be retried up to
`MaxRetries`. `buildDMLEventQuery` is modelled with its effect on the event it is given:
the second attempt at a key-changing `UPDATE` finds an `INSERT`. A reconnect moves `applied`
back. The cut-over is reduced to lock, wait for the sentinel, swap.

With `--checkpoint`, the end of the last copied chunk is recorded by the writer after its
`INSERT` (`LastIterationRangeMaxValues`) and saved later with the coordinates. A process may
end at any point before the swap; the next one takes range, iteration and coordinates from
the checkpoint and the ghost table as it finds it.

A replay after a reconnect never shares a batch with events before it. That the reader
decides whether to decode an event when it hands it over, not when it parses it, is a
simplification here; the parser running ahead is in `EventPipeline` (`undecoded`).

### EventPipeline

The binlog is a sequence of GTID, row, changelog and XID events; everything that travels
is a position in it. The reader holds one entry in its hand, `events` is `eventsChannel`
(capacity 1) and the entry in the dispatcher's hand, `queue` is `applyEventsQueue`. A row of
the ghost table is known by the last event applied to it. A process may end at any point
(`ProcessEnds`, which is also what an abort looks like from here) and be started with
`--resume`, or with `--revert` after the cut-over. Rows are taken as copied. Failed attempts
at a batch change nothing and are stuttering steps. Compressed payloads behave like GTID
coordinates (one position per transaction).

The streamer runs before the DML listener is registered and before the queue has a reader. Heartbeats that come first go into the queue, whose last free place is also
the last moment to register: with one more, the dispatcher waits for room and holds the mutex that
`addDMLEventsListener` needs, and `Migrate()`, which would start the queue's reader afterwards, waits
for the mutex (`Jammed`). Only the end of the process helps. `ListenerHasRoom` says that this takes
more changelog events than the queue holds, and that nothing else does it; with the queue of 1000 and
a heartbeat every 100 ms that is a row count or a hook of 100 seconds.

### TableSwap, AtomicCutOver, TwoStepCutOver

`TableSwap` has three actions: the application writes to its table, the write is applied to
the ghost table, and the tables are swapped in one step when every write was applied. The
property `SwapIsExact` of both cut-overs is its specification, by `INSTANCE`; for the
two-step cut-over `current` is a refinement mapping in which the moment without a table
counts as before the swap.

`AtomicCutOver` has one process for the attempt and, per attempt, a locker and a renamer,
talking over the channels of the code (their capacities are checked, since a full channel
would block the goroutine that has to unlock). Of the server it has `LOCK TABLES`, the
metadata-lock queue of `RENAME` (the old table's name first, the original's last), the user
level lock, and `lock_wait_timeout`. The loop that looks a hundred times for the metadata
lock outlasts the `RENAME`'s lock wait. The locker's session id channel never blocks anyone
and is left out.

`SwapIsExact` for the sets of faults that were tried (TLC, two attempts; the run keeps the
largest set that holds):

*dies*: a locker's connection, or the process, is lost. *busy*: another session uses the ghost
table. *begin*: a renamer gets no connection. *query*: `PROCESSLIST` or `IS_USED_LOCK` cannot
be read.
*lingers*: a locker is still unlocking when the next attempt begins. *slow*: a renamer
issues its `RENAME` after its attempt stopped looking for it.

| faults | result |
|---|---|
| none, dies, busy, begin, query, lingers, lingers+query, dies+query, dies+query+begin | holds |
| dies+busy, dies+lingers, busy+query, anything with slow | fails |

With *begin* the attempt waits for good for the session id of a renamer that got no
connection; the table is unlocked all the same (`LockIsReleased`), and `AttemptEnds` is stated
with this exception.

With `MetadataLockCheck = FALSE` (`performance_schema.metadata_locks` cannot be read, so that the
locker is not made to wait for the `RENAME`'s lock on the original table) *busy* alone fails too; the
other results are the same.

`TwoStepCutOver` runs on one pooled connection. Its first state chooses a `mode`, migration or
test on a replica, and the `faults` that may happen: the connection is lost (*dies*), the ghost
table cannot be renamed (*rename*), replication cannot be stopped or started (*replication*), the
rollback's `RENAME` of both tables fails or seems to (*together*), one of its two single `RENAME`s fails
although it is possible (*undo*). `handleCutOverResult` drops the rollback's error. After a rollback's `RENAME` that waits behind the lock of its own process nothing happens any
more; whether a lock follows a renamed table is left open.

### Migration

The sequence of `Migrate()`, where every step can fail, with the streamer, the writer,
`iterateChunks`, `listenOnPanicAbort` and one more goroutine (`alarm`) for all others that
send to `PanicAbort`. An abort is two steps (error stored, context cancelled). Statements
that are retried succeed or have failed for good, and a look for an abort is one step with
the operation it guards. A postponed cut-over counts as a throttled one.
`CommandLines` is the set of option sets a process may be started with; leftovers of an
earlier migration are any subset of the helper tables. `--resume`, `--revert`
and `--test-on-replica` are not in this module.

### Throttler, CutOverGate, MigrationLock

Metrics are what the thresholds make of them. Each collector stores its metric in a step of
its own; a check reads them in one step and stores its verdict in another. A hibernation is
taken to outlast one throttle check, as its unit is seconds and the check's tenths of them
(`noticed`). Of control replicas the collector keeps one result (`Worse`): the answers replace each
other in the order they come, an error replaces any, and a lag an error (whose lag counts as 0) or a smaller lag. During a test or
migration on a replica nobody looks at them once the sentinel is injected (`injected`, in the scenarios in
which a critical load aborts). `MaxMoves` bounds how often the surroundings (user, servers, HTTP service,
cut-over) change. The gate polls in two steps, flag and file, and the server handles a command in two
steps; `told` counts the commands accepted less the gates that one of them opened.
`MigrationLock` has any number of processes, whose connections may be lost, and the server's
rule that a lost connection frees its locks.

### TableShape, SQLBuilder, Inspector

These have the columns that `GhostSync` leaves out. A table is its columns, with types, and its
unique keys; an `ALTER` is a sequence of clauses; a row is a function from columns to small
integers whose meaning depends on the type: two bits of an unsigned integer that a row image
has as signed, the members of an `ENUM` in the one order or the other, times in UTC or in the
applier's zone, texts with a collation that ignores the case, texts with a character that is not ASCII,
in UTF-8 or latin1, two bytes of a `BINARY` whose row image lacks the trailing zeros, JSON. An argument of
a statement is a number, bytes or a text: `ConvertArg` makes them of row images as `convertArg` does
(unsigned integers, zeros for `BINARY`, latin1 decoded where the column's character set changes, otherwise
bytes), and the value tokens convert them further (`Written`: time zone, `ENUM`, JSON). Arguments of a
`WHERE` are of key columns, for which no character set conversion is set. `SQLBuilder` has what each
statement means (ranges of any number of columns, the three parts of a two-column range, both
queries for the end of a chunk, the statements made of an event), `TableShape` which key and
columns it is about. `Altered`, what the server's own `ALTER TABLE` would make of a row, is the
reference definition they are checked against.

`Inspector` puts them behind the validations of `initiateInspector`, each of which may refuse the
migration: grants, connection and binlog settings, the switch to row based replication with its
`STOP` and `START REPLICA`, the search for the master along chains and cycles of replication (which
ends, too, at a server whose master is no valid address), the
original table with its foreign keys and triggers, candidate and shared keys, shared and mapped
columns. Then the table is copied, chunk by chunk, and events are applied. A scenario is a server
with its topology and options or a table with its `ALTER`; `MCInspector` has many of either.
Copy and events do not run into each other here: that is `GhostSync`'s part.

## Runs

Ten runs pass and two find a violation. Bounds are in the `.cfg` files.

| run | checks | instance |
|---|---|---|
| `GhostSync` | `TypeOK`, `CopiedRowsConverge`, `GhostConsistent`, `CopyAdvances` | 2 keys, 3 values, 3 writes, key-changing updates, a second unique key with `--panic-on-warnings`, chunks of 1, batches of 2, checkpoints, 1 reconnect or restart |
| `GhostSyncRetry` | `SwappedInOriginal` (violated) | key-changing updates and 2 attempts |
| `EventPipeline` | `DrainedMeansApplied`, `SyncedMeansApplied`, `CheckpointIsSafe`, `ListenerHasRoom` | 3 transactions of 2 rows, queue of 2, GTIDs, 1 reconnect, 1 crash |
| `EventPipelineLive` | `EventsAreApplied` | 2 transactions of one row or of other tables, queue of 1, file coordinates, 1 reconnect, 1 crash |
| `EventPipelineResume` | `DrainedMeansApplied` (violated) | 3 transactions of one row, 1 crash, row events read before a resumed process listens |
| `AtomicCutOver` | `SwapIsExact`, `OldTableKept`, `ChannelsHaveRoom`, `SuccessMeansSwapped`, `LockIsReleased`, `AttemptEnds` | 2 attempts, 2 writes, dying sessions, failing queries and connections |
| `TwoStepCutOver` | `SwapIsExact`, `LockIsReleased`, `TestRestoresTables`, `TestIsIsolated` | migration and test on a replica, every set of faults, 3 attempts per operation, 3 writes |
| `Migration` | `SwapMeansCopied`, `SuccessMeansSwapped`, `LeftoversAreKept`, `AbortReturns`, `NobodyIsLeft`, `MigrateReturns` | 1 chunk, 4 command lines that use every option, all sets of leftover tables, late row events |
| `Throttler` | `WakesThrottled`, `UserThrottles`, `Resumes`, `ReplicaLagThrottles`, `CutOverProceeds`, `CriticalLoadHeeded` | 3 control replicas, 2 changes of the surroundings |
| `CutOverGate` | `PostponementIsAnnounced`, `GateHolds`, `UnpostponeIsHeeded` | 3 attempts |
| `MigrationLock` | `OneMigrates`, `LostLockEndsMigration`, `TeardownEnds` | 3 processes |
| `Inspector` | `EventsArrive`, `ChunksPartition`, `GhostIsImage` | servers: 6 topologies, all binlog settings of server and replication thread, 13 sets of options, all sets of grants; tables: every type and conversion under "TableShape", keys of 1 to 3 columns, up to 5 rows in chunks of 1 to 3, up to 2 events, renamed, dropped and re-added columns |

Why these bounds: two keys are the least with a copied and an uncopied one, and with a key that
changes; three events are an insert, its deletion and another one, or a batch and its successor; two
attempts show what the first leaves behind for the second; a queue of one or two is full after as
many events, as one of 1000 is after 1000; two changes of the throttler's surroundings are a reason
that comes and goes, or two at a time; three control replicas are a lag, an error and a small lag in
any order; five rows of a two-column key in chunks of up to three have chunks that
begin and end inside and between groups of the first column. The view of `MCGhostSync` leaves out
what no later step and no property reads: a checkpoint that nobody will resume from, the range of a
copy that is complete. The guards stop the application at its bound, not gh-ost, and every run
checks for deadlock.

### Where the guarantees end

Two runs contradict what the documentation says. `GhostSyncRetry`, against "We expect the checksums
to be identical" (`doc/triggerless-design.md`): `buildDMLEventQuery` changes the event it is given, so
when a batch with a key-changing update is retried, the old key's row stays in the ghost table.
`EventPipelineResume`, against "The data integrity of the ghost table is preserved"
(`doc/resume.md`): a resumed process streams from the checkpoint's coordinates before it registers its
listener, and row events read in between are neither decoded nor read again.

Other behaviours of the code go beyond what its guarantees cover. The first group is switched on by
a constant, and TLC then shows the named property violated:

| module and setting | property | what happens |
|---|---|---|
| `GhostSync`, `PanicOnWarnings = FALSE` | `GhostConsistent` | a second unique key makes `INSERT IGNORE` drop a row |
| `GhostSync`, `FreshReaderFails = TRUE`, 2 reconnects | `GhostConsistent` | a reader that fails before it completes a transaction goes back to the initial coordinates, and the tables are swapped during the replay |
| `GhostSync`, the same with `Checkpoints = TRUE` | `CopiedRowsConverge` | the process ends during such a replay and resumes from a checkpoint ahead of it |
| `EventPipeline`, "fresh", 2 reconnects | `CheckpointIsSafe` | the last checkpoint is ahead of such a replay |
| `AtomicCutOver`, "slow" | `SwapIsExact` | a `RENAME` issued after its attempt gave up swaps an incomplete table in |
| `AtomicCutOver`, "lingers" | `OldTableKept` | the old table is dropped as a sentry |
| `Migration`, "early" | `AbortReturns` | an abort before the ghost table is announced does not end `Migrate()` |

The second group is part of the models as they are. Some of it is excepted in a property: the pool
replaces a connection that dies, and with it the lock of the two-step cut-over, which then swaps an
incomplete table in (`Promised`); a single rename of a test's rollback fails unnoticed, the tables stay as
they are, and replication is started on them (`TestRestoresTables`, `TestIsIsolated`); of the control
replicas' answers a lag, an error and a small lag, in this order, come out as the small lag, although "any
controlled replica lagging more than this value will cause throttling" (`doc/throttle.md`;
`ReplicaLagThrottles` is stated while all of them can be read); heartbeats fill the queue before the
listener is registered (`ListenerHasRoom`). Against the rest no property speaks: when the second rename of the two-step cut-over fails, each retry fails at the first
one, and a migration ends with no table behind the name; an attempt of
the atomic cut-over fails and its `RENAME`, left in the server, swaps the tables; a late periodic
checkpoint hides that of the cut-over from `--revert`; the two-step cut-over holds its lock over
retries of the wait, its failure leaves a replica under test stopped, and its rollback may wait for
its own process; a changelog table that is found is dropped without an option; a row event of the
new table aborts the completed migration; a throttle URL that is taken away leaves its last answer
behind; a collector of control replicas started during a hibernation returns for good, and a running
one reads them during a hibernation; an unpostpone command accepted late opens the gate of the next
attempt; two processes migrate between a lost connection and the ping that notices.

`GhostIsImage` is about changes that gh-ost converts (`Convertible`). It does not hold of a column
renamed and retyped at once, of a `TIMESTAMP` made a `DATETIME`, of `TEXT` in UTF-8 made latin1 (its
bytes are sent as they are; a `VARCHAR` is sent as text), of an `ENUM` key column whose
members change, of a key column whose character set changes (the `WHERE` has the old bytes), of a
`VARBINARY` key column made `BINARY` (the `WHERE` lacks the zeros), nor of key columns that swap names;
TLC finds each when it is let in. With `--skip-renamed-columns` values are lost on
purpose. A key column that is dropped and added again, or that is virtual in the original only, ends
the process by a nil pointer, which counts as a refusal here. A first column of a two-column key
whose collation ignores the case makes the parts of a range overlap, and is not in the scenarios;
nor are `NULL`s in keys, numbers out of range, numbers made members of an `ENUM`, JSON made text, and
character sets other than UTF-8 and latin1 (GBK is decoded like latin1, any other is sent as if it were
UTF-8).

### Fairness

Liveness is checked with weak fairness of goroutines that only wait for channels, tickers
or statements that end: the writer, the dispatcher, `Migrate()`, `listenOnPanicAbort`, the
collectors, lockers and renamers; and of the server where it finishes by itself what it
began (the commit of a binlogged transaction, `lock_wait_timeout`). Nothing is assumed of
the application, of users, of other servers or of failures. Row events have precedence over
the row copy, so an application that never pauses can keep it from ending: `MigrateReturns` is
stated for a queue that stays empty from some time on. That the copy itself makes progress needs no
fairness: `CopyAdvances` says that every chunk ends past the one before it.

## Proofs

TLAPS proves, for all values of the constants that the `ASSUME`s allow:

* `GhostSyncInv!TypeCorrect`: `Spec => []TypeOK`.
* `GhostSyncInv!Advances`: `Spec => CopyAdvances`, with any fault.
* `GhostSyncProofs!Converges`: `Spec => []CopiedRowsConverge`, if key-changing updates are not
  retried (`RetrySafe`), a second unique key comes with `--panic-on-warnings` (`UniqueSafe`), and
  there are no checkpoints or no reader fails before it completes a transaction (`ResumeSafe`).
* `GhostSyncProofs!Consistent`: `Spec => []GhostConsistent`, under the first two of these and if
  no reader fails before it completes a transaction (`ReconnectSafe`).
* `EventPipelineProofs!NothingLost`, `LockIsDrained` and `CheckpointsAreSafe`:
  `Spec => []DrainedMeansApplied`, `[]SyncedMeansApplied` and `[]CheckpointIsSafe`, for any number of
  keys, transactions, reconnects, crashes and resumes, any queue and batch size, and both kinds of
  coordinates, if no row is written while a resumed process does not listen yet and a reader
  completes a transaction before it fails again (`Steady`).
* `ComponentProofs!Restores` and `Isolated`: `Spec => []TestRestoresTables` and
  `Spec => []TestIsIsolated`, for any number of writes, retries and attempts and whatever fails in a
  `TwoStepCutOver`, except a single rename of the rollback that is possible, which both properties
  except (the fault *undo*).
* `ComponentProofs!Exact`: `Spec => SwapIsExact`, that is, the two-step cut-over implements
  `TableSwap`; the refinement mapping is that of a migration whose pooled connection lives
  (`Promised`), and stands still for the others.
* `ComponentProofs!Exclusion`: `LockSpec => []OneMigrates`.
* `ComponentProofs!Announced` and `Holds`: `GateSpec => []PostponementIsAnnounced` and
  `GateSpec => GateHolds`.
* `ComponentProofs!Wakes`: `ThrottlerSpec => []WakesThrottled`, for any set of control replicas.
* `AtomicCutOverProofs!Exact`: `Spec => SwapIsExact`, that is, the atomic cut-over implements
  `TableSwap`, for any number of attempts, if no other session uses the ghost table, no renamer is
  slow and no locker lingers (`Prompt`). Connections may be lost, queries may fail.
* `AtomicCutOverProofs!Kept`: `Spec => OldTableKept`, if no locker lingers.
* `AtomicCutOverProofs!SuccessIsSwap` and `Room`: `Spec => []SuccessMeansSwapped` and
  `Spec => []ChannelsHaveRoom`, with any fault.
* `MigrationProofs!SwapIsOfCopied`, `SuccessIsChange` and `LeftoversKept`:
  `Spec => []SwapMeansCopied`, `[]SuccessMeansSwapped` and `[]LeftoversAreKept`, with any fault, for
  all command lines and numbers of chunks.
* `MigrationProofs!Trusted`: `InspectionSpec => []EventsArrive`, for any servers, topologies, options,
  tables and `ALTER`s.
* `TypeCorrect` of `EventPipeline` (under `Steady`), `TwoStepCutOver`, `AtomicCutOver` and
  `Migration`, `LockTypeCorrect` and `GateTypeCorrect`: the types of the variables.

`Trusted` has a hypothesis, `ThreadsRunOrNot`: the record of a scenario's replication thread has the
field `running`. A record without it is nothing a server can report, and every scenario of the run has
it. The components of `ComponentProofs`, and `Migration` and `Inspector`, share no variable; their
specifications have names of their own (`LockSpec`, `GateSpec`, `ThrottlerSpec`, `InspectionSpec`), so
that one module can extend them together.

The conditions on `GhostSync` are necessary: `GhostSyncRetry` drops the first, and the first three
settings under "Where the guarantees end" the others. So are both parts of `Steady`, for each of the
three theorems: TLC finds each property violated when either fault is allowed, with three transactions
and, for "fresh", two reconnects. So is that of `Kept`. `Prompt` is more than
`SwapIsExact` needs of two attempts, as the table of faults shows (*lingers* alone does no harm, nor
*busy* alone where metadata locks can be read), but each of its three breaks it, alone or together
with a lost connection.

`CopiedRowsConverge` is not inductive. It says that a row is right when no event on it is
pending; what carries it through a step is what is known of a row with events pending. The
invariant `IndInv` adds the history of a key (`HistoryInv`: its last event left it as it is,
inserts and deletes alternate, an update follows an insert), that a row under way is locked
(`FlightInv`), where the copy and the batch stand (`ProgressInv`), and for every key that the
table at a cursor *tracks* the original (`SyncInv`): whatever the ghost table holds, the
events after the cursor lead to the original's row, even if they were applied before. The
last part is what makes replays harmless, and it holds twice, of the committed table at
`applied` and of the batch's view at `cursor`. The step lemmas go by what can happen to a key:
the application writes it (`AppKey`), the streamer goes back (`RewindKey`), an event is applied
(`ApplyKey`), a chunk copies it (`CopyKey`) or leaves it behind unseen (`UnseenKey`), nothing
happens (`FrameKey`).

The types, the history and the place of copy and batch need nothing of the rest and no condition:
`FrameInv` is inductive by itself (`FrameStep`), and `CopyAdvances` follows from it, since a chunk's
end is read from keys past the last one's (`BatchBounds`) and a resumed copy goes on at a
checkpoint's.

`DrainedMeansApplied` says that nothing is missing when the pipeline is empty. What carries it is
that an event which was read *arrives* (`FlowInv`): what the ghost table has of a row once the
batch, the queue and the channel have gone through the writer is the row's last event that was read.
A reconnect reads events again and lets old ones arrive after newer ones. `FlowInv` survives because
it speaks of what was read up to the reader's position, which has gone back too, and because what
the reader skips undecoded is left to the row copy or was read before (`ReaderInv`). The sentinel
and the completion markers are *barriers*. A barrier at `p` is clear when neither in the pipeline
nor in what a reconnect would read again is a row before `p` (`Clear`); a position that is
acknowledged, reported to the cut-over or saved in a checkpoint is clear (`BarrierInv`). For this no
row may overtake a marker or a function that precedes it, although the sentinel is put into the
queue by a goroutine of its own, anywhere among later entries (`ChainInv`). Once clear a position
stays so, whatever happens (`ClearStays` in `EventPipelineOrder`), and where it is clear and
everything before it arrived, everything before it is applied. `SafeInv` is `CheckpointIsSafe` for
every checkpoint, the empty one included; `CutOverInv` says where the sentinel is and that no row
follows it under the lock; `LogInv` that transactions are whole and sentinels are of their own;
`IdleInv` that a process that ended holds nothing.

`OneMigrates` says that of two processes that migrate one has lost its connection. It rests on the
invariant that a process that migrates and whose connection is up is the holder of the lock.

`GateHolds` says that the gate opens only when the poll found no flag file or for a command, one gate
for one command. What keeps this through the two-step poll and the two-step command is an account
(`Accounted`, in `GateInv`): the commands accepted and not used up are at least those in the flag and
with the server, or else at least the gates that are left.

`WakesThrottled` rests on `HibernationInv`: from the beginning of a hibernation to the next look at the
load, a check that noticed the hibernation decides to throttle, every later one does too, and the
hibernation does not end before there is another reason to.

`TestRestoresTables` follows from `PlaceInv`: wherever a test's cut-over stops, the tables are as before,
between or after the renames, and the rollback, together or one by one, leads from each of these to the
first. `TestIsIsolated` needs, besides, that the tables are untouched until replication was stopped.

The swap of the two-step cut-over is two renames. The proof of `Exact` follows where the two tables
are (`PlaceInv`: before, between and after the renames) and that the lock is held until the first
rename, the sentinel follows every write, and every write is applied once the wait for it is over
(`LockInv`). It is the second rename that
maps to `Swap`; every other step writes, applies or stutters.

The swap of the atomic cut-over is one `RENAME` of the server, which may come long after its attempt.
What has to be shown is that it is granted only when every write was applied. The invariant comes in
two parts. `ChannelInv` is about the goroutines' messages: attempts to come have not begun
(`FreshInv`), a channel holds no more than its senders can have sent by now (`UnlockInv`,
`LockerChannelInv`, `RenamerChannelInv`), and success is only reported of a swap (`RenamedInv`). It
needs no assumption; the bounds on the channels and `SuccessMeansSwapped` follow from it. `IndInv` adds
where the tables and locks are: one locker at a time (`Alone`), the sentry table behind the old table's
name as long as a locker needs it (`SentryInv`), a locker that says it has the lock and waits while
the events are awaited (`LockInv`, `HoldingInv`), a renamer that has yet to issue its `RENAME` only
with such a locker and with no write missing (`RenamerInv`). The one that matters is `PendingInv`: a
`RENAME` that waits in the server is blocked by the sentry table, or no write is missing.

`SwapMeansCopied` rests on `CopyInv`: whoever reports the end of the row copy without an error reached
it, and `Migrate()` gets past the copy only with such a report or with an abort, which it still finds
before the cut-over because an abort is for good (`AbortStays`). `ResultInv` and `LeftoverInv` follow
the changes made and the tables dropped from place to place of `Migrate()`.

`EventsArrive` collects what the validations have established, each at its own step and on values
that may have changed since. `InspectionInv` says for every step which of it holds by then: the
settings of the log past `validateBinlogs`, the format past its switch, the thread's own settings
past the restart of replication (a thread that runs again took them), the master past the search for
it.

TLC has checked the inductive invariants of `EventPipeline` (two transactions) and of `Inspector` (the
scenarios of the run) as well; they are no part of the runs, since the theorems cover them.

Only model-checked:

* All liveness, and the weak fairness it takes: out of the prover's reach.
* `ListenerHasRoom` of `EventPipeline`: it counts events of the log.
* `ChunksPartition` and `GhostIsImage` of `Inspector`. They are about what folds over columns and
  rows, choices of the least row and numbers of rows return for a given table, which takes induction
  over data.

## Not modelled

* Hooks, status, metrics, connections with TLS, and the validation of flags are sequential or pure
  output. What others see of them is that they fail.
* Binlog coordinates are positions in one log. File names, the 4-byte positions of large logs, and
  the parsing and comparison of GTID sets are left out: the latter is a library's.
* SQL text, quoting and the regular expressions of the `ALTER` parser: the modules have what
  statements mean and what is found in an `ALTER`. (The parser finds renames by `CHANGE` only, not by
  `RENAME COLUMN`; the model's clauses are those it finds.)
* `--include-triggers` in the cut-overs, `--nice-ratio`, the dynamic size of chunks, row counts and
  their estimates.
* The life cycles of `--resume`, `--revert` and `--test-on-replica` in `Migration`; what they do to
  events, ranges and tables is in `EventPipeline`, `GhostSync` and `TwoStepCutOver`.
* The server's commands that only set a number or a list.

## Plan

1. Algorithms still without a module: binlog coordinates (`mysql/binlog_file.go`,
   `mysql/binlog_gtid.go`), clamps of options (`base/context.go`), back-off, the estimate of progress.
2. Compositions: `Migration` with `CutOverGate`; an abstract specification of the pipeline (every
   event of a key in order, none lost) refined by `EventPipeline`.
3. Theorems: the row copy of `Inspector` for tables of any size, with a prover that does induction over
   data.
