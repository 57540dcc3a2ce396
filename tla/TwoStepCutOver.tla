--------------------------- MODULE TwoStepCutOver ---------------------------
(***************************************************************************)
(* The cut-over with --cut-over=two-step (Migrator.cutOverTwoStep): the    *)
(* original table is locked on the applier's one-connection pool, the      *)
(* events up to the lock are applied, and the tables are renamed one after *)
(* the other; with --test-on-replica, under stopped replication and with   *)
(* the renames undone at the end (handleCutOverResult).                    *)
(*                                                                         *)
(* Every operation is retried by retryOperation, and the last failure of   *)
(* one aborts the migration: the error goes to listenOnPanicAbort, another *)
(* goroutine, while cutOver returns.  The retrier around cutOver pauses    *)
(* and finds the abort, so there is no second attempt at the whole.        *)
(***************************************************************************)
EXTENDS Naturals

CONSTANTS
    MaxRetries,     \* --default-retries
    MaxWrites       \* bound: writes of the application

\* "dies": the connection that holds the lock is lost; the pool opens a new one for
\* the next statement.
\* "rename": the ghost table cannot be renamed (a lost connection, a lock wait).
\* "replication": the replica's threads cannot be stopped, or started.
\* "together": the statement that undoes both renames fails, executed or not.
\* "undo": a statement that undoes one of them fails.
FaultKinds == {"dies", "rename", "replication", "together", "undo"}

ASSUME TwoStepAssumption ==
    MaxRetries \in Nat \ {0} /\ MaxWrites \in Nat

VARIABLES
    mode,         \* "test" with --test-on-replica, else "migrate"
    faults,       \* what goes wrong besides failing statements and timeouts
    at,           \* the table behind each of the three names, or "none"
    locked,       \* "held" while the pool's connection has the original locked
    written,      \* writes to the original table
    applied,      \* those of them applied to the ghost table
    sentinel,     \* the writes before the sentinel event
    main,         \* where the cut-over stands
    failures,     \* failed attempts at the present operation
    result,       \* what cutOverTwoStep returned
    abort,        \* the error, on its way to SetAbortError: "none", "sent", "set"
    replication   \* of the replica under test

vars == <<mode, faults, at, locked, written, applied, sentinel, main, failures, result,
          abort, replication>>
scenario == <<mode, faults>>
serverVars == <<at, locked, written, applied, replication>>

TestOnReplica == mode = "test"

Names == {"original", "ghost", "old"}
Unswapped == [original |-> "original", ghost |-> "ghost", old |-> "none"]

Init ==
    /\ mode \in {"migrate", "test"}
    /\ faults \in SUBSET FaultKinds
    /\ at = Unswapped
    /\ locked = "free"
    /\ written = 0 /\ applied = 0 /\ sentinel = 0
    /\ main = IF TestOnReplica THEN "stop" ELSE "lock"
    /\ failures = 0
    /\ result = "none"
    /\ abort = "none"
    /\ replication = "running"

-----------------------------------------------------------------------------
(* The server, the application (on a replica, replication) and the writer. *)

\* ALTER TABLE from RENAME to.
CanRename(from, to) == at[from] # "none" /\ at[to] = "none"
Renamed(from, to) == [at EXCEPT ![to] = at[from], ![from] = "none"]

Write ==
    /\ at["original"] = "original"
    /\ locked = "free"
    /\ TestOnReplica => replication = "running"
    /\ written < MaxWrites
    /\ written' = written + 1
    /\ UNCHANGED <<at, locked, applied, sentinel, main, failures, result, abort,
                   replication>>

Apply ==
    /\ main # "exited"
    /\ at["ghost"] = "ghost"
    /\ applied < written
    /\ applied' = applied + 1
    /\ UNCHANGED <<at, locked, written, sentinel, main, failures, result, abort,
                   replication>>

ConnectionDies ==
    /\ "dies" \in faults
    /\ locked = "held"
    /\ locked' = "free"
    /\ UNCHANGED <<at, written, applied, sentinel, main, failures, result, abort,
                   replication>>

-----------------------------------------------------------------------------
(* retryOperation and the abort.                                           *)

Succeeds(next) ==
    /\ main' = next
    /\ failures' = 0
    /\ UNCHANGED <<result, abort>>

\* The operation is tried again; after MaxRetries attempts the error is handed to
\* listenOnPanicAbort, and returned.
AttemptFails(again) ==
    IF failures + 1 < MaxRetries
      THEN /\ failures' = failures + 1
           /\ main' = again
           /\ UNCHANGED <<result, abort>>
      ELSE /\ failures' = 0
           /\ main' = "rollback"
           /\ result' = "err"
           /\ abort' = "sent"

ListenOnPanicAbort ==
    /\ abort = "sent"
    /\ abort' = "set"
    /\ UNCHANGED <<serverVars, sentinel, main, failures, result>>

-----------------------------------------------------------------------------
(* cutOver, cutOverTwoStep.                                                *)

\* Mutant: the cut-over goes on when replication could not be stopped.
StopReplicationOrNot ==
    /\ main = "stop"
    /\ \/ replication' = "stopped" /\ Succeeds("lock")
       \/ /\ "replication" \in faults
          /\ replication' \in {replication, "partly", "stopped"}
          /\ Succeeds("lock")
    /\ UNCHANGED <<at, locked, written, applied, sentinel>>

\* The I/O thread is stopped, then the SQL thread.  When all attempts fail, cutOver
\* returns at once.
StopReplication ==
    /\ main = "stop"
    /\ \/ replication' = "stopped" /\ Succeeds("lock")
       \/ /\ "replication" \in faults
          /\ replication' \in {replication, "partly", "stopped"}
          /\ IF failures + 1 < MaxRetries
               THEN AttemptFails("stop")
               ELSE main' = "failed" /\ failures' = 0 /\ result' = "err" /\ abort' = "sent"
    /\ UNCHANGED <<at, locked, written, applied, sentinel>>

LockOriginalTable ==
    /\ main = "lock"
    /\ \/ at["original"] # "none" /\ locked' = "held" /\ Succeeds("inject")
       \/ AttemptFails("lock") /\ UNCHANGED locked
    /\ UNCHANGED <<at, written, applied, sentinel, replication>>

\* waitForEventsUpToLock writes a sentinel ...
InjectSentinel ==
    /\ main = "inject"
    /\ \/ sentinel' = written /\ main' = "wait" /\ UNCHANGED <<failures, result, abort>>
       \/ AttemptFails("inject") /\ UNCHANGED sentinel
    /\ UNCHANGED serverVars

\* Mutant: the events are not waited for.
EventsUpToLockUnseen ==
    /\ main = "wait"
    /\ Succeeds("renameOriginal") \/ AttemptFails("inject")
    /\ UNCHANGED <<serverVars, sentinel>>

\* ... and gets it from the writer, or times out and starts again with another one.
EventsUpToLock ==
    /\ main = "wait"
    /\ \/ applied >= sentinel /\ Succeeds("renameOriginal")
       \/ AttemptFails("inject")
    /\ UNCHANGED <<serverVars, sentinel>>

\* SwapTablesQuickAndBumpy: two statements, the second on another connection, and a
\* retry begins with the first.  Whether LOCK TABLES still holds the table under its
\* new name depends on the server's version.
RenameOriginal ==
    /\ main = "renameOriginal"
    /\ \/ /\ CanRename("original", "old")
          /\ at' = Renamed("original", "old")
          /\ locked' \in {locked, "free"}
          /\ main' = "renameGhost"
          /\ UNCHANGED <<failures, result, abort>>
       \/ AttemptFails("renameOriginal") /\ UNCHANGED <<at, locked>>
    /\ UNCHANGED <<written, applied, sentinel, replication>>

RenameGhost ==
    /\ main = "renameGhost"
    /\ \/ /\ CanRename("ghost", "original")
          /\ at' = Renamed("ghost", "original")
          /\ Succeeds("unlock")
       \/ /\ ~CanRename("ghost", "original") \/ "rename" \in faults
          /\ AttemptFails("renameOriginal")
          /\ UNCHANGED at
    /\ UNCHANGED <<locked, written, applied, sentinel, replication>>

UnlockTables ==
    /\ main = "unlock"
    /\ \/ /\ locked' = "free"
          /\ main' = "rollback" /\ result' = "ok" /\ failures' = 0
          /\ UNCHANGED abort
       \/ AttemptFails("unlock") /\ UNCHANGED locked
    /\ UNCHANGED <<at, written, applied, sentinel, replication>>

-----------------------------------------------------------------------------
(* handleCutOverResult, and the end of the process.                        *)

AfterRollback ==
    CASE result = "ok" -> "succeeded"
      [] result = "err" /\ TestOnReplica -> "start"
      [] OTHER -> "failed"

\* RENAME TABLE original TO ghost, old TO original.
CanUndo == at["original"] # "none" /\ at["ghost"] = "none" /\ at["old"] # "none"
Undone == [original |-> at["old"], ghost |-> at["original"], old |-> "none"]

\* Mutant: the renames are undone together or not at all.
RolledBackTogether ==
    /\ main = "rollback"
    /\ TestOnReplica => locked = "free"
    /\ at' = IF TestOnReplica /\ CanUndo THEN Undone ELSE at
    /\ main' = AfterRollback
    /\ UNCHANGED <<locked, written, applied, sentinel, failures, result, abort,
                   replication>>

\* A replica under test gets its tables back by RenameTablesRollback, whose error is
\* dropped.  Its connection is not the one of LOCK TABLES, and waits for it.
HandleCutOverResult ==
    /\ main = "rollback"
    /\ \/ ~TestOnReplica /\ main' = AfterRollback /\ UNCHANGED at
       \/ /\ TestOnReplica /\ locked = "free"
          /\ CanUndo
          /\ at' = Undone
          /\ main' = AfterRollback \/ ("together" \in faults /\ main' = "undoGhost")
       \/ /\ TestOnReplica /\ locked = "free"
          /\ ~CanUndo \/ "together" \in faults
          /\ main' = "undoGhost"
          /\ UNCHANGED at
    /\ UNCHANGED <<locked, written, applied, sentinel, failures, result, abort,
                   replication>>

\* "If for some reason the above was impossible to do, we rename one by one."
UndoOne(from, to) ==
    /\ \/ CanRename(from, to) /\ at' = Renamed(from, to)
       \/ (~CanRename(from, to) \/ "undo" \in faults) /\ UNCHANGED at
    /\ UNCHANGED <<locked, written, applied, sentinel, failures, result, abort,
                   replication>>

UndoGhost == main = "undoGhost" /\ main' = "undoOriginal" /\ UndoOne("original", "ghost")
UndoOriginal == main = "undoOriginal" /\ main' = AfterRollback /\ UndoOne("old", "original")

\* retryOperation looks for an abort before it calls StartReplication.
StartReplication ==
    /\ main = "start"
    /\ IF abort = "set"
         THEN main' = "failed" /\ UNCHANGED <<failures, replication>>
         ELSE \/ main' = "failed" /\ failures' = 0 /\ replication' = "running"
              \/ /\ "replication" \in faults
                 /\ replication' \in {replication, "partly"}
                 /\ IF failures + 1 < MaxRetries
                      THEN failures' = failures + 1 /\ UNCHANGED main
                      ELSE failures' = 0 /\ main' = "failed"
    /\ UNCHANGED <<at, locked, written, applied, sentinel, result, abort>>

\* Mutant: the connections are left open.
TeardownLeavesConnection ==
    /\ main \in {"succeeded", "failed"}
    /\ main' = "exited"
    /\ UNCHANGED <<serverVars, sentinel, failures, result, abort>>

Teardown ==
    /\ main \in {"succeeded", "failed"}
    /\ main' = "exited"
    /\ locked' = "free"
    /\ UNCHANGED <<at, written, applied, sentinel, failures, result, abort,
                   replication>>

\* A rollback that waits for the lock of its own process waits for good.
Terminated ==
    /\ main = "exited" \/ (main = "rollback" /\ TestOnReplica /\ locked = "held")
    /\ UNCHANGED vars

CutOver ==
    \/ StopReplication \/ LockOriginalTable \/ InjectSentinel \/ EventsUpToLock
    \/ RenameOriginal \/ RenameGhost \/ UnlockTables
    \/ HandleCutOverResult \/ UndoGhost \/ UndoOriginal \/ StartReplication \/ Teardown

Next ==
    /\ \/ Write \/ Apply \/ ConnectionDies
       \/ CutOver \/ ListenOnPanicAbort
       \/ Terminated
    /\ UNCHANGED scenario

Spec == Init /\ [][Next]_vars

\* Neither the cut-over nor the writer stops by itself.
FairSpec ==
    /\ Spec
    /\ WF_vars(CutOver /\ UNCHANGED scenario)
    /\ WF_vars(Apply /\ UNCHANGED scenario)
    /\ WF_vars(ListenOnPanicAbort /\ UNCHANGED scenario)

-----------------------------------------------------------------------------
\* The types of the variables.
TypeOK ==
    /\ mode \in {"migrate", "test"}
    /\ faults \subseteq FaultKinds
    /\ at \in [Names -> {"original", "ghost", "none"}]
    /\ locked \in {"free", "held"}
    /\ written \in 0..MaxWrites
    /\ applied \in 0..written
    /\ sentinel \in 0..written
    /\ main \in {"stop", "lock", "inject", "wait", "renameOriginal", "renameGhost",
                 "unlock", "rollback", "undoGhost", "undoOriginal", "start", "succeeded", "failed", "exited"}
    /\ failures \in 0..(MaxRetries - 1)
    /\ result \in {"none", "ok", "err"}
    /\ abort \in {"none", "sent", "set"}
    /\ replication \in {"running", "partly", "stopped"}

\* The migration of a table while the connection that holds the lock lives.  A test
\* puts the tables back, and a pool that replaces the connection has lost the lock.
Promised == mode = "migrate" /\ "dies" \notin faults

\* The application's table is exchanged for the ghost table once, and never before
\* every write to it was applied (the moment in between, when there is no table
\* behind the name, counts as before).  Of cutOverTwoStep the code says that it
\* "will lock down the original table, execute what's left of last DML entries".
SwapSpec == INSTANCE TableSwap
                WITH current <- IF Promised /\ at["original"] = "ghost"
                                  THEN "ghost" ELSE "original",
                     written <- IF Promised THEN written ELSE 0,
                     applied <- IF Promised THEN applied ELSE 0
SwapIsExact == SwapSpec!Spec

\* --test-on-replica leaves the two tables as they were, wherever the cut-over failed
\* and when they cannot be renamed together, unless a rename of a single one fails:
\* RenameTablesRollback undoes as many renames as there were, from wherever they stand.
TestRestoresTables ==
    TestOnReplica /\ "undo" \notin faults
        => (main \in {"start", "succeeded", "failed", "exited"} => at = Unswapped)

\* A replica under test replicates only into its own tables: replication is stopped as
\* long as one of them has another name.  cutOver gives up when it cannot stop
\* replication, and handleCutOverResult starts it after the renames are undone.
\* A single rename that fails there is not noticed, and replication starts all the same.
\* (Without --test-on-replica-skip-replica-stop, which leaves the stop to the user.)
TestIsIsolated ==
    TestOnReplica /\ "undo" \notin faults /\ at # Unswapped => replication = "stopped"

\* LOCK TABLES does not outlive the cut-over, whichever step failed: cutOverTwoStep
\* returns without UNLOCK TABLES, and only the teardown frees the table.
LockIsReleased == (mode = "migrate" /\ locked = "held") ~> locked = "free"

=============================================================================
