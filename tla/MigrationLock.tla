--------------------------- MODULE MigrationLock ---------------------------
(***************************************************************************)
(* The user-level lock that keeps a second gh-ost from migrating the same  *)
(* table: taken with GET_LOCK on a connection of its own, watched by a     *)
(* goroutine that pings the connection, released by Teardown.  MySQL       *)
(* releases it by itself when the connection is gone.                      *)
(***************************************************************************)
CONSTANTS
    Procs,      \* gh-ost processes that migrate the same table
    NoProc      \* the holder of a free lock

ASSUME MigrationLockAssumption == NoProc \notin Procs

VARIABLES
    holder,     \* the server's lock: its owner, or NoProc
    conn,       \* migrationLockConn: "none", "up", "lost", "closed"
    migrate,    \* Migrate(): "start", "migrating", "teardown", "released", "returned"
    keeper,     \* keepMigrationLockAlive: "off", "ticking", "sending", "done"
    writer,     \* executeWriteFuncs: "off", "idle", "writing", "done"
    stop,       \* "yes" once migrationLockStop is closed
    ctx         \* "cancelled" once the context is

lockVars == <<holder, conn, migrate, keeper, writer, stop, ctx>>

LockInit ==
    /\ holder = NoProc
    /\ conn = [p \in Procs |-> "none"]
    /\ migrate = [p \in Procs |-> "start"]
    /\ keeper = [p \in Procs |-> "off"]
    /\ writer = [p \in Procs |-> "off"]
    /\ stop = [p \in Procs |-> "no"]
    /\ ctx = [p \in Procs |-> "live"]

\* Mutant: whatever get_lock answers will do.
LockIsGrantedAlways == TRUE

\* get_lock(?, 0)
LockIsGranted == holder = NoProc

\* AcquireMigrationLock, after which the migration goes on.
AcquireMigrationLock(p) ==
    /\ migrate[p] = "start"
    /\ LockIsGranted
    /\ holder' = p
    /\ conn' = [conn EXCEPT ![p] = "up"]
    /\ keeper' = [keeper EXCEPT ![p] = "ticking"]
    /\ migrate' = [migrate EXCEPT ![p] = "migrating"]
    /\ writer' = [writer EXCEPT ![p] = "idle"]
    /\ UNCHANGED <<stop, ctx>>

\* The lock is taken, or there was an error: Migrate() returns it.
LockIsRefused(p) ==
    /\ migrate[p] = "start"
    /\ migrate' = [migrate EXCEPT ![p] = "returned"]
    /\ ctx' = [ctx EXCEPT ![p] = "cancelled"]
    /\ UNCHANGED <<holder, conn, keeper, writer, stop>>

\* The connection is lost: MySQL frees its lock.
ConnectionIsLost(p) ==
    /\ conn[p] = "up"
    /\ conn' = [conn EXCEPT ![p] = "lost"]
    /\ holder' = IF holder = p THEN NoProc ELSE holder
    /\ UNCHANGED <<migrate, keeper, writer, stop, ctx>>

\* Mutant: the keeper does not look whether it is told to stop.
KeepMigrationLockAliveOnly(p) ==
    /\ keeper[p] = "ticking" /\ conn[p] = "lost"
    /\ keeper' = [keeper EXCEPT ![p] = "sending"]
    /\ UNCHANGED <<holder, conn, migrate, writer, stop, ctx>>

\* The keeper stops, or a ping fails.
KeepMigrationLockAlive(p) ==
    /\ keeper[p] = "ticking"
    /\ \/ /\ stop[p] = "yes" \/ ctx[p] = "cancelled"
          /\ keeper' = [keeper EXCEPT ![p] = "done"]
       \/ /\ conn[p] = "lost" /\ stop[p] = "no" /\ ctx[p] = "live"
          /\ keeper' = [keeper EXCEPT ![p] = "sending"]
    /\ UNCHANGED <<holder, conn, migrate, writer, stop, ctx>>

\* Mutant: a lost lock is logged, and that is all.
LostLockAbortsNot(p) ==
    /\ keeper[p] = "sending"
    /\ keeper' = [keeper EXCEPT ![p] = "done"]
    /\ UNCHANGED <<holder, conn, migrate, writer, stop, ctx>>

\* Its error is received and the context cancelled, or that has happened before.
LostLockAborts(p) ==
    /\ keeper[p] = "sending"
    /\ keeper' = [keeper EXCEPT ![p] = "done"]
    /\ ctx' = [ctx EXCEPT ![p] = "cancelled"]
    /\ UNCHANGED <<holder, conn, migrate, writer, stop>>

\* The writer looks for an abort, and for the end, before it writes again.
ExecuteWriteFuncs(p) ==
    /\ \/ /\ writer[p] = "idle" /\ ctx[p] = "live" /\ migrate[p] = "migrating"
          /\ writer' = [writer EXCEPT ![p] = "writing"]
       \/ /\ writer[p] = "writing"
          /\ writer' = [writer EXCEPT ![p] = "idle"]
       \/ /\ writer[p] = "idle"
          /\ ctx[p] = "cancelled" \/ migrate[p] # "migrating"
          /\ writer' = [writer EXCEPT ![p] = "done"]
    /\ UNCHANGED <<holder, conn, migrate, keeper, stop, ctx>>

\* Migrate() is done, for whatever reason, and tears down: finishedMigrating is set
\* and migrationLockStop closed.
BeginTeardown(p) ==
    /\ migrate[p] = "migrating"
    /\ migrate' = [migrate EXCEPT ![p] = "teardown"]
    /\ stop' = [stop EXCEPT ![p] = "yes"]
    /\ UNCHANGED <<holder, conn, keeper, writer, ctx>>

\* releaseMigrationLock, once the keeper has stopped.
ReleaseMigrationLock(p) ==
    /\ migrate[p] = "teardown" /\ keeper[p] = "done"
    /\ migrate' = [migrate EXCEPT ![p] = "released"]
    /\ conn' = [conn EXCEPT ![p] = "closed"]
    /\ holder' = IF holder = p THEN NoProc ELSE holder
    /\ UNCHANGED <<keeper, writer, stop, ctx>>

\* db.Close() waits for what the writer has under way; then the context is
\* cancelled.
Return(p) ==
    /\ migrate[p] = "released" /\ writer[p] # "writing"
    /\ migrate' = [migrate EXCEPT ![p] = "returned"]
    /\ ctx' = [ctx EXCEPT ![p] = "cancelled"]
    /\ UNCHANGED <<holder, conn, keeper, writer, stop>>

AllReturned == (\A p \in Procs : migrate[p] = "returned") /\ UNCHANGED lockVars

Proc(p) ==
    \/ AcquireMigrationLock(p) \/ LockIsRefused(p) \/ ConnectionIsLost(p)
    \/ KeepMigrationLockAlive(p) \/ LostLockAborts(p) \/ ExecuteWriteFuncs(p)
    \/ BeginTeardown(p) \/ ReleaseMigrationLock(p) \/ Return(p)

LockNext == (\E p \in Procs : Proc(p)) \/ AllReturned

LockSpec == LockInit /\ [][LockNext]_lockVars

\* Pings are sent, an abort ends Migrate(), and teardown goes on.
LockFairSpec ==
    /\ LockSpec
    /\ \A p \in Procs :
        /\ WF_lockVars(KeepMigrationLockAlive(p)) /\ WF_lockVars(LostLockAborts(p))
        /\ WF_lockVars(BeginTeardown(p) /\ ctx[p] = "cancelled")
        /\ WF_lockVars(ReleaseMigrationLock(p)) /\ WF_lockVars(Return(p))
        /\ WF_lockVars(ExecuteWriteFuncs(p))

-----------------------------------------------------------------------------
\* The types of the variables.
LockTypeOK ==
    /\ holder \in Procs \cup {NoProc}
    /\ conn \in [Procs -> {"none", "up", "lost", "closed"}]
    /\ migrate \in [Procs -> {"start", "migrating", "teardown", "released", "returned"}]
    /\ keeper \in [Procs -> {"off", "ticking", "sending", "done"}]
    /\ writer \in [Procs -> {"off", "idle", "writing", "done"}]
    /\ stop \in [Procs -> {"no", "yes"}]
    /\ ctx \in [Procs -> {"live", "cancelled"}]

\* AcquireMigrationLock: "preventing two gh-ost processes from migrating the same
\* table concurrently on the same MySQL server".  Two migrate only from the loss of
\* a lock's connection to the ping that finds it lost, never when both hold theirs.
OneMigrates ==
    \A p, q \in Procs :
        migrate[p] = "migrating" /\ migrate[q] = "migrating" =>
            p = q \/ conn[p] = "lost" \/ conn[q] = "lost"

\* A process whose lock is lost does not go on: "the lock is considered lost and the
\* migration is aborted".  That an aborted Migrate() returns is taken from Migration
\* (AbortReturns, with the exception there).
LostLockEndsMigration == \A p \in Procs : conn[p] = "lost" ~> migrate[p] # "migrating"

\* Teardown waits for the keeper, and the keeper never waits for teardown.
TeardownEnds == \A p \in Procs : migrate[p] = "teardown" ~> migrate[p] = "returned"

=============================================================================
