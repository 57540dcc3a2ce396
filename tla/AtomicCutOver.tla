--------------------------- MODULE AtomicCutOver ---------------------------
(***************************************************************************)
(* The atomic cut-over (Migrator.atomicCutOver): one session locks the     *)
(* original table and a sentry table in the old table's place, a second    *)
(* one issues a RENAME that the lock and then the sentry block, and the    *)
(* RENAME is let through when the events up to the lock were applied.      *)
(* Three goroutines talk over channels: the cut-over itself, and for every *)
(* attempt a locker (AtomicCutOverMagicLock) and a renamer                 *)
(* (AtomicCutoverRename).  A failed attempt is retried while its           *)
(* goroutines may still be running.                                        *)
(*                                                                         *)
(* The server is modelled as far as the code relies on it.  RENAME takes   *)
(* the old table's metadata lock first and the original's last; writes     *)
(* wait behind a RENAME only when that queues for the original table.      *)
(* Channels are sequences of "ok" and "err"; their capacities (2, and 4    *)
(* for okToUnlockTable) are invariants, since no send tests for room.      *)
(***************************************************************************)
EXTENDS Naturals, Sequences, FiniteSets

CONSTANTS
    MaxAttempts,  \* --default-retries: attempts at the cut-over
    MaxWrites,    \* bound: writes of the application
    MetadataLockCheck,  \* performance_schema.metadata_locks is enabled
    Faults        \* what may go wrong besides timeouts and failing statements

ASSUME AttemptsAssumption == MaxAttempts \in Nat \ {0} /\ MaxWrites \in Nat

\* "dies": a locker loses its connection, or the process dies.
\* "busy": another session uses the ghost table and holds the RENAME up.
\* "slow": the renamer needs longer than the attempts at finding its RENAME.
\* "begin": the renamer gets no connection.
\* "query": PROCESSLIST or IS_USED_LOCK cannot be read.
\* "lingers": a locker outlasts the pause before the next attempt.
FaultKinds == {"dies", "busy", "slow", "begin", "query", "lingers"}
ASSUME FaultsAssumption == Faults \subseteq FaultKinds

Attempts == 1..MaxAttempts

VARIABLES
    current,   \* the table behind the original's name: "original" or "ghost"
    old,       \* behind the old table's name: "none", "sentry" or "original"
    holder,    \* the attempt whose locker holds LOCK TABLES, or 0
    written,   \* writes of the application to the original table
    applied,   \* those of them applied to the ghost table
    main,      \* where the cut-over stands
    attempt,   \* its attempt
    sentinel,  \* the writes before the sentinel event
    locker,    \* where the locker of each attempt stands
    renamer,   \* where the renamer of each attempt stands
    dead,      \* the attempts whose locker lost its connection
    tableLocked, okToUnlockTable, tableUnlocked,  \* channels of each attempt
    renameSessionId, tablesRenamed,
    tableRenameKnownToHaveFailed,  \* the attempts whose RENAME failed
    renameLockSessionId            \* the attempts that passed the RENAME's session on

tableVars == <<current, old, holder, written, applied>>
mainVars == <<main, attempt, sentinel, renameLockSessionId>>
lockerVars == <<locker, dead, tableLocked, tableUnlocked>>
renamerVars == <<renamer, renameSessionId, tablesRenamed,
                 tableRenameKnownToHaveFailed>>
vars == <<tableVars, mainVars, lockerVars, renamerVars, okToUnlockTable>>

Init ==
    /\ current = "original"
    /\ old = "none"
    /\ holder = 0
    /\ written = 0
    /\ applied = 0
    /\ main = "start"
    /\ attempt = 1
    /\ sentinel = 0
    /\ locker = [a \in Attempts |-> "idle"]
    /\ renamer = [a \in Attempts |-> "idle"]
    /\ dead = {}
    /\ tableLocked = [a \in Attempts |-> << >>]
    /\ okToUnlockTable = [a \in Attempts |-> 0]
    /\ tableUnlocked = [a \in Attempts |-> << >>]
    /\ renameSessionId = [a \in Attempts |-> << >>]
    /\ tablesRenamed = [a \in Attempts |-> << >>]
    /\ tableRenameKnownToHaveFailed = {}
    /\ renameLockSessionId = {}

-----------------------------------------------------------------------------
(* The server and the application.                                         *)

\* The attempts whose RENAME waits for a metadata lock.
Renaming == {a \in Attempts : renamer[a] \in {"onOld", "onOriginal"}}

\* The RENAME stands in the original table's queue, which it reaches at once when
\* the old table is gone and nobody uses the ghost table.
Queued(a) ==
    \/ renamer[a] = "onOriginal"
    \/ renamer[a] = "onOld" /\ old = "none" /\ "busy" \notin Faults

\* LOCK TABLES keeps writers out, and so does a RENAME queued for the table.
Write ==
    /\ current = "original"
    /\ holder = 0
    /\ \A a \in Attempts : ~Queued(a)
    /\ written < MaxWrites
    /\ written' = written + 1
    /\ UNCHANGED <<current, old, holder, applied, mainVars, lockerVars,
                   renamerVars, okToUnlockTable>>

\* The binlog applier, which works on all the time.
Apply ==
    /\ main # "exited"
    /\ applied < written
    /\ applied' = applied + 1
    /\ UNCHANGED <<current, old, holder, written, mainVars, lockerVars,
                   renamerVars, okToUnlockTable>>

\* The connection of a locker is lost or killed: the server releases its locks.
LockSessionDies(a) ==
    /\ "dies" \in Faults
    /\ locker[a] \in {"holding", "dropping", "unlocking"}
    /\ a \notin dead
    /\ dead' = dead \cup {a}
    /\ holder' = IF holder = a THEN 0 ELSE holder
    /\ UNCHANGED <<current, old, written, applied, mainVars, locker,
                   tableLocked, tableUnlocked, renamerVars, okToUnlockTable>>

-----------------------------------------------------------------------------
(* The locker: AtomicCutOverMagicLock.                                     *)

Send(channel, a, msg) == [channel EXCEPT ![a] = Append(@, msg)]
GoTo(pc, a, place) == [pc EXCEPT ![a] = place]

\* The deferred function fills the channels, then looks for a sentry to drop.
LockerReturns(a, sent, unlocked) ==
    /\ tableLocked' = [tableLocked EXCEPT ![a] = @ \o sent \o <<"err">>]
    /\ tableUnlocked' = [tableUnlocked EXCEPT ![a] = @ \o unlocked \o <<"err">>]
    /\ locker' = GoTo(locker, a, "cleanCheck")

\* No connection: the function returns before the deferred function is set up.
LockerBeginFails(a) ==
    /\ locker[a] = "begin"
    /\ tableLocked' = Send(tableLocked, a, "err")
    /\ locker' = GoTo(locker, a, "done")
    /\ UNCHANGED <<tableVars, mainVars, dead, tableUnlocked, renamerVars,
                   okToUnlockTable>>

LockerBegins(a) ==
    /\ locker[a] = "begin"
    /\ locker' = GoTo(locker, a, "check")
    /\ UNCHANGED <<tableVars, mainVars, dead, tableLocked, tableUnlocked,
                   renamerVars, okToUnlockTable>>

\* The voluntary lock, a timeout setting, a statement on the sentry or LOCK
\* TABLES itself fails.
LockerFails(a) ==
    /\ locker[a] \in {"check", "drop", "create", "lock"}
    /\ LockerReturns(a, <<"err">>, << >>)
    /\ UNCHANGED <<tableVars, mainVars, dead, renamerVars, okToUnlockTable>>

\* DropAtomicCutOverSentryTableIfExists looks at the table's comment, and drops
\* the table in a statement of its own.
CheckSentry(a) ==
    /\ locker[a] = "check"
    /\ old # "original"
    /\ locker' = GoTo(locker, a, IF old = "sentry" THEN "drop" ELSE "create")
    /\ UNCHANGED <<tableVars, mainVars, dead, tableLocked, tableUnlocked,
                   renamerVars, okToUnlockTable>>

\* DROP TABLE waits for a lock and for a RENAME on the table.
Droppable == holder = 0 /\ Renaming = {}

DropSentry(a) ==
    /\ locker[a] = "drop"
    /\ Droppable
    /\ old' = "none"
    /\ locker' = GoTo(locker, a, "create")
    /\ UNCHANGED <<current, holder, written, applied, mainVars, dead,
                   tableLocked, tableUnlocked, renamerVars, okToUnlockTable>>

CreateSentry(a) ==
    /\ locker[a] = "create"
    /\ old = "none"
    /\ old' = "sentry"
    /\ locker' = GoTo(locker, a, "lock")
    /\ UNCHANGED <<current, holder, written, applied, mainVars, dead,
                   tableLocked, tableUnlocked, renamerVars, okToUnlockTable>>

LockTables(a) ==
    /\ locker[a] = "lock"
    /\ holder = 0 /\ Renaming = {}
    /\ old # "none"
    /\ holder' = a
    /\ tableLocked' = Send(tableLocked, a, "ok")
    /\ locker' = GoTo(locker, a, "holding")
    /\ UNCHANGED <<current, old, written, applied, mainVars, dead,
                   tableUnlocked, renamerVars, okToUnlockTable>>

ToldToUnlock(a) ==
    /\ locker[a] = "holding"
    /\ okToUnlockTable[a] > 0
    /\ okToUnlockTable' = [okToUnlockTable EXCEPT ![a] = @ - 1]
    /\ locker' = GoTo(locker, a, "dropping")
    /\ UNCHANGED <<tableVars, mainVars, dead, tableLocked, tableUnlocked,
                   renamerVars>>

\* An error in dropping the sentry is logged and no more.
DropOwnSentry(a) ==
    /\ locker[a] = "dropping"
    /\ \/ a \notin dead /\ old' = "none"
       \/ UNCHANGED old
    /\ locker' = GoTo(locker, a, "unlocking")
    /\ UNCHANGED <<current, holder, written, applied, mainVars, dead,
                   tableLocked, tableUnlocked, renamerVars, okToUnlockTable>>

\* The lock is kept until the RENAME queues for the original table.  The loop
\* ends after 100 looks, which take longer than the RENAME's lock_wait_timeout.
UnlockTables(a) ==
    /\ locker[a] = "unlocking"
    /\ a \notin dead
    /\ MetadataLockCheck /\ a \in renameLockSessionId => renamer[a] # "onOld"
    /\ holder' = 0
    /\ LockerReturns(a, << >>, <<"ok">>)
    /\ UNCHANGED <<current, old, written, applied, mainVars, dead, renamerVars,
                   okToUnlockTable>>

UnlockFails(a) ==
    /\ locker[a] = "unlocking"
    /\ a \in dead
    /\ LockerReturns(a, << >>, <<"err">>)
    /\ UNCHANGED <<tableVars, mainVars, dead, renamerVars, okToUnlockTable>>

\* Mutant: the table's comment is not looked at.
CleanCheckAnyTable(a) ==
    /\ locker[a] = "cleanCheck"
    /\ locker' = GoTo(locker, a, IF old # "none" THEN "cleanDrop" ELSE "done")
    /\ UNCHANGED <<tableVars, mainVars, dead, tableLocked, tableUnlocked,
                   renamerVars, okToUnlockTable>>

CleanCheck(a) ==
    /\ locker[a] = "cleanCheck"
    /\ locker' = GoTo(locker, a, IF old = "sentry" THEN "cleanDrop" ELSE "done")
    /\ UNCHANGED <<tableVars, mainVars, dead, tableLocked, tableUnlocked,
                   renamerVars, okToUnlockTable>>

CleanDrop(a) ==
    /\ locker[a] = "cleanDrop"
    /\ Droppable
    /\ old' = "none"
    /\ locker' = GoTo(locker, a, "done")
    /\ UNCHANGED <<current, holder, written, applied, mainVars, dead,
                   tableLocked, tableUnlocked, renamerVars, okToUnlockTable>>

Locker(a) ==
    \/ LockerBeginFails(a) \/ LockerBegins(a) \/ LockerFails(a)
    \/ CheckSentry(a) \/ DropSentry(a) \/ CreateSentry(a) \/ LockTables(a)
    \/ ToldToUnlock(a) \/ DropOwnSentry(a) \/ UnlockTables(a) \/ UnlockFails(a)
    \/ CleanCheck(a) \/ CleanDrop(a)

-----------------------------------------------------------------------------
(* The renamer: AtomicCutoverRename.                                       *)

\* Mutant: the error is sent by the failing statement and once more on return.
RenamerReturnsTwice(a, renamed, place) ==
    /\ renameSessionId' = [renameSessionId EXCEPT ![a] = @ \o <<"err", "err">>]
    /\ tablesRenamed' = [tablesRenamed EXCEPT ![a] = @ \o renamed \o <<"err">>]
    /\ renamer' = GoTo(renamer, a, place)

\* Mutant: nobody is told that no session will come.
RenamerReturnsSilently(a, renamed, place) ==
    /\ tablesRenamed' = [tablesRenamed EXCEPT ![a] = @ \o renamed \o <<"err">>]
    /\ renamer' = GoTo(renamer, a, place)
    /\ UNCHANGED renameSessionId

\* The deferred function releases whoever reads the channels.
RenamerReturns(a, renamed, place) ==
    /\ renameSessionId' = Send(renameSessionId, a, "err")
    /\ tablesRenamed' = [tablesRenamed EXCEPT ![a] = @ \o renamed \o <<"err">>]
    /\ renamer' = GoTo(renamer, a, place)

\* No connection: the function returns before the deferred function is set up.
RenamerBeginFails(a) ==
    /\ "begin" \in Faults
    /\ renamer[a] = "begin"
    /\ renamer' = GoTo(renamer, a, "unconnected")
    /\ UNCHANGED <<tableVars, mainVars, lockerVars, renameSessionId,
                   tablesRenamed, tableRenameKnownToHaveFailed, okToUnlockTable>>

RenamerBegins(a) ==
    /\ renamer[a] = "begin"
    /\ renameSessionId' = Send(renameSessionId, a, "ok")
    /\ renamer' = GoTo(renamer, a, "set")
    /\ UNCHANGED <<tableVars, mainVars, lockerVars, tablesRenamed,
                   tableRenameKnownToHaveFailed, okToUnlockTable>>

\* A statement before the RENAME fails.
RenamerFails(a) ==
    /\ renamer[a] \in {"begin", "set"}
    /\ RenamerReturns(a, << >>, "failed")
    /\ UNCHANGED <<tableVars, mainVars, lockerVars,
                   tableRenameKnownToHaveFailed, okToUnlockTable>>

IssueRename(a) ==
    /\ renamer[a] = "set"
    /\ renamer' = GoTo(renamer, a, "onOld")
    /\ UNCHANGED <<tableVars, mainVars, lockerVars, renameSessionId,
                   tablesRenamed, tableRenameKnownToHaveFailed, okToUnlockTable>>

\* The old table's lock is free, or the table gone.
RenameAdvances(a) ==
    /\ renamer[a] = "onOld"
    /\ holder = 0 \/ old = "none"
    /\ renamer' = GoTo(renamer, a, "onOriginal")
    /\ UNCHANGED <<tableVars, mainVars, lockerVars, renameSessionId,
                   tablesRenamed, tableRenameKnownToHaveFailed, okToUnlockTable>>

RenameSucceeds(a) ==
    /\ renamer[a] = "onOriginal"
    /\ holder = 0
    /\ old = "none"
    /\ current = "original"
    /\ current' = "ghost"
    /\ old' = "original"
    /\ RenamerReturns(a, <<"ok">>, "done")
    /\ UNCHANGED <<holder, written, applied, mainVars, lockerVars,
                   tableRenameKnownToHaveFailed, okToUnlockTable>>

\* lock_wait_timeout, a lost connection, or a table in the way.
RenameFails(a) ==
    /\ a \in Renaming
    /\ RenamerReturns(a, <<"err">>, "failed")
    /\ UNCHANGED <<tableVars, mainVars, lockerVars,
                   tableRenameKnownToHaveFailed, okToUnlockTable>>

\* The goroutine in atomicCutOver: release the lock.
RenameKnownToHaveFailed(a) ==
    /\ renamer[a] \in {"failed", "unconnected"}
    /\ tableRenameKnownToHaveFailed' = tableRenameKnownToHaveFailed \cup {a}
    /\ okToUnlockTable' = [okToUnlockTable EXCEPT ![a] = @ + 1]
    /\ renamer' = GoTo(renamer, a, IF renamer[a] = "failed" THEN "done" ELSE "silent")
    /\ UNCHANGED <<tableVars, mainVars, lockerVars, renameSessionId,
                   tablesRenamed>>

Renamer(a) ==
    \/ RenamerBeginFails(a) \/ RenamerBegins(a) \/ RenamerFails(a)
    \/ IssueRename(a) \/ RenameKnownToHaveFailed(a)

\* The RENAME in the server, which outlives the process that issued it.
Rename(a) == RenameAdvances(a) \/ RenameSucceeds(a) \/ RenameFails(a)

-----------------------------------------------------------------------------
(* The cut-over: atomicCutOver, retried by retryOperation.                 *)

\* Mutant: the return does not send on okToUnlockTable.
ReturnSilently(result, n) ==
    /\ okToUnlockTable' = [okToUnlockTable EXCEPT ![attempt] = @ + n]
    /\ IF result = "ok" THEN main' = "succeeded" /\ UNCHANGED attempt
       ELSE IF attempt < MaxAttempts THEN main' = "start" /\ attempt' = attempt + 1
       ELSE main' = "failed" /\ UNCHANGED attempt

\* Every return sends on okToUnlockTable; n sends of its own come before.
Return(result, n) ==
    /\ okToUnlockTable' = [okToUnlockTable EXCEPT ![attempt] = @ + n + 1]
    /\ IF result = "ok" THEN main' = "succeeded" /\ UNCHANGED attempt
       ELSE IF attempt < MaxAttempts THEN main' = "start" /\ attempt' = attempt + 1
       ELSE main' = "failed" /\ UNCHANGED attempt

StartAttempt ==
    /\ main = "start"
    /\ "lingers" \in Faults \/ \A a \in Attempts : locker[a] \in {"idle", "done"}
    /\ locker' = GoTo(locker, attempt, "begin")
    /\ main' = "locking"
    /\ UNCHANGED <<tableVars, attempt, sentinel, renameLockSessionId, dead,
                   tableLocked, tableUnlocked, renamerVars, okToUnlockTable>>

ReceiveTableLocked ==
    /\ main = "locking"
    /\ tableLocked[attempt] # << >>
    /\ tableLocked' = [tableLocked EXCEPT ![attempt] = Tail(@)]
    /\ IF Head(tableLocked[attempt]) = "ok"
         THEN main' = "inject" /\ UNCHANGED <<attempt, okToUnlockTable>>
         ELSE Return("err", 0)
    /\ UNCHANGED <<tableVars, sentinel, renameLockSessionId, locker, dead,
                   tableUnlocked, renamerVars>>

\* waitForEventsUpToLock writes the sentinel to the changelog table ...
InjectSentinel ==
    /\ main = "inject"
    /\ sentinel' = written
    /\ main' = "events"
    /\ UNCHANGED <<tableVars, attempt, renameLockSessionId, lockerVars,
                   renamerVars, okToUnlockTable>>

\* Mutant: the RENAME is issued without waiting for the events.
EventsUpToLockUnseen ==
    /\ main = "events"
    /\ renamer' = GoTo(renamer, attempt, "begin")
    /\ main' = "session"
    /\ UNCHANGED <<tableVars, attempt, sentinel, renameLockSessionId,
                   lockerVars, renameSessionId, tablesRenamed,
                   tableRenameKnownToHaveFailed, okToUnlockTable>>

\* ... and sees it when the writer has applied every event before it.
EventsUpToLock ==
    /\ main = "events"
    /\ applied >= sentinel
    /\ renamer' = GoTo(renamer, attempt, "begin")
    /\ main' = "session"
    /\ UNCHANGED <<tableVars, attempt, sentinel, renameLockSessionId,
                   lockerVars, renameSessionId, tablesRenamed,
                   tableRenameKnownToHaveFailed, okToUnlockTable>>

\* The sentinel is not written, is late, or a trigger cannot be created.
EventsUpToLockFails ==
    /\ main \in {"inject", "events"}
    /\ Return("err", 0)
    /\ UNCHANGED <<tableVars, sentinel, renameLockSessionId, lockerVars,
                   renamerVars>>

ReceiveRenameSessionId ==
    /\ main = "session"
    /\ renameSessionId[attempt] # << >>
    /\ renameSessionId' = [renameSessionId EXCEPT ![attempt] = Tail(@)]
    /\ main' = "expect"
    /\ UNCHANGED <<tableVars, attempt, sentinel, renameLockSessionId,
                   lockerVars, renamer, tablesRenamed,
                   tableRenameKnownToHaveFailed, okToUnlockTable>>

\* ExpectProcess finds the RENAME waiting for a metadata lock, or it failed.
RenameFound ==
    /\ main = "expect"
    /\ attempt \in Renaming \cup tableRenameKnownToHaveFailed
    /\ main' = "used"
    /\ UNCHANGED <<tableVars, attempt, sentinel, renameLockSessionId,
                   lockerVars, renamerVars, okToUnlockTable>>

\* It is not found, or PROCESSLIST cannot be read, in any of the retries.
RenameNotFound ==
    /\ main = "expect"
    /\ attempt \notin tableRenameKnownToHaveFailed
    /\ attempt \in Renaming => "query" \in Faults
    /\ renamer[attempt] = "set" => "slow" \in Faults
    /\ Return("err", 1)
    /\ UNCHANGED <<tableVars, sentinel, renameLockSessionId, lockerVars,
                   renamerVars>>

\* The voluntary lock lives as long as the locker's session.
ExpectUsedLock ==
    /\ main = "used"
    /\ attempt \notin dead
    /\ renameLockSessionId' = renameLockSessionId \cup {attempt}
    /\ okToUnlockTable' = [okToUnlockTable EXCEPT ![attempt] = @ + 1]
    /\ main' = "unlocking"
    /\ UNCHANGED <<tableVars, attempt, sentinel, lockerVars, renamerVars>>

\* The session is gone, or IS_USED_LOCK cannot be read.
LockNotUsed ==
    /\ main = "used"
    /\ attempt \in dead \/ "query" \in Faults
    /\ Return("err", 0)
    /\ UNCHANGED <<tableVars, sentinel, renameLockSessionId, lockerVars,
                   renamerVars>>

ReceiveTableUnlocked ==
    /\ main = "unlocking"
    /\ tableUnlocked[attempt] # << >>
    /\ tableUnlocked' = [tableUnlocked EXCEPT ![attempt] = Tail(@)]
    /\ IF Head(tableUnlocked[attempt]) = "ok"
         THEN main' = "renamed" /\ UNCHANGED <<attempt, okToUnlockTable>>
         ELSE Return("err", 0)
    /\ UNCHANGED <<tableVars, sentinel, renameLockSessionId, locker, dead,
                   tableLocked, renamerVars>>

\* Mutant: the RENAME's outcome is received and not looked at.
ReceiveTablesRenamedUnchecked ==
    /\ main = "renamed"
    /\ tablesRenamed[attempt] # << >>
    /\ tablesRenamed' = [tablesRenamed EXCEPT ![attempt] = Tail(@)]
    /\ Return("ok", 0)
    /\ UNCHANGED <<tableVars, sentinel, renameLockSessionId, lockerVars,
                   renamer, renameSessionId, tableRenameKnownToHaveFailed>>

ReceiveTablesRenamed ==
    /\ main = "renamed"
    /\ tablesRenamed[attempt] # << >>
    /\ tablesRenamed' = [tablesRenamed EXCEPT ![attempt] = Tail(@)]
    /\ Return(Head(tablesRenamed[attempt]), 0)
    /\ UNCHANGED <<tableVars, sentinel, renameLockSessionId, lockerVars,
                   renamer, renameSessionId, tableRenameKnownToHaveFailed>>

Main ==
    \/ StartAttempt \/ ReceiveTableLocked \/ InjectSentinel \/ EventsUpToLock
    \/ EventsUpToLockFails \/ ReceiveRenameSessionId \/ RenameFound
    \/ RenameNotFound \/ ExpectUsedLock \/ LockNotUsed \/ ReceiveTableUnlocked
    \/ ReceiveTablesRenamed

\* The process ends, after the last attempt or by a crash: its connections are
\* closed, but a RENAME that waits in the server goes on waiting.
ProcessExits ==
    /\ main \in {"succeeded", "failed"} \/ ("dies" \in Faults /\ main # "exited")
    /\ main' = "exited"
    /\ holder' = 0
    /\ UNCHANGED <<current, old, written, applied, attempt, sentinel,
                   renameLockSessionId, lockerVars, renamerVars,
                   okToUnlockTable>>

Terminated == main = "exited" /\ UNCHANGED vars

Next ==
    \/ Write
    \/ Apply
    \/ main # "exited" /\ Main
    \/ \E a \in Attempts : \/ main # "exited" /\ Locker(a)
                           \/ main # "exited" /\ Renamer(a)
                           \/ Rename(a)
                           \/ main # "exited" /\ LockSessionDies(a)
    \/ ProcessExits
    \/ Terminated

Spec == Init /\ [][Next]_vars

\* No goroutine stops by itself, the applier goes on applying, and the server
\* ends the wait of a RENAME (lock_wait_timeout).
FairSpec ==
    /\ Spec
    /\ WF_vars(Apply)
    /\ WF_vars(main # "exited" /\ Main)
    /\ \A a \in Attempts : /\ WF_vars(main # "exited" /\ Locker(a))
                           /\ WF_vars(main # "exited" /\ Renamer(a))
                           /\ WF_vars(Rename(a))

-----------------------------------------------------------------------------
MainPlaces == {"start", "locking", "inject", "events", "session", "expect",
               "used", "unlocking", "renamed", "succeeded", "failed", "exited"}
LockerPlaces == {"idle", "begin", "check", "drop", "create", "lock", "holding",
                 "dropping", "unlocking", "cleanCheck", "cleanDrop", "done"}
RenamerPlaces == {"idle", "begin", "unconnected", "set", "onOld", "onOriginal",
                  "failed", "done", "silent"}
Messages == {"ok", "err"}

TypeOK ==
    /\ current \in {"original", "ghost"}
    /\ old \in {"none", "sentry", "original"}
    /\ holder \in Attempts \cup {0}
    /\ written \in 0..MaxWrites
    /\ applied \in 0..written
    /\ main \in MainPlaces
    /\ attempt \in Attempts
    /\ sentinel \in 0..written
    /\ locker \in [Attempts -> LockerPlaces]
    /\ renamer \in [Attempts -> RenamerPlaces]
    /\ dead \subseteq Attempts
    /\ tableLocked \in [Attempts -> Seq(Messages)]
    /\ okToUnlockTable \in [Attempts -> Nat]
    /\ tableUnlocked \in [Attempts -> Seq(Messages)]
    /\ renameSessionId \in [Attempts -> Seq(Messages)]
    /\ tablesRenamed \in [Attempts -> Seq(Messages)]
    /\ tableRenameKnownToHaveFailed \subseteq Attempts
    /\ renameLockSessionId \subseteq Attempts

\* No send on a channel ever finds it full (make(chan ..., 2) and 4 in
\* atomicCutOver): a full channel would block the goroutine that must unlock.
ChannelsHaveRoom ==
    \A a \in Attempts : /\ Len(tableLocked[a]) <= 2
                        /\ Len(tableUnlocked[a]) <= 2
                        /\ Len(renameSessionId[a]) <= 2
                        /\ Len(tablesRenamed[a]) <= 2
                        /\ okToUnlockTable[a] <= 4

\* The cut-over implements TableSwap: the tables are exchanged once, atomically,
\* and never before every write to the original table is in the ghost table,
\* whatever attempts failed before and whichever session or process died.
SwapSpec == INSTANCE TableSwap
            WITH current <- current, written <- written, applied <- applied
SwapIsExact == SwapSpec!Spec

\* The cut-over that reports success has exchanged the tables.
SuccessMeansSwapped == main = "succeeded" => current = "ghost"

\* The original table, once renamed to the old table's name, is not dropped in the
\* belief that it is a sentry (DropAtomicCutOverSentryTableIfExists checks the
\* table's comment in one statement and drops the table in another).
OldTableKept == [][old = "original" => old' = "original"]_vars

\* The application is not locked out for good: LOCK TABLES is always followed by
\* an unlock, on every error path of atomicCutOver.
LockIsReleased == holder # 0 ~> holder = 0

\* Every attempt ends: the deferred functions "release blocking channel reads"
\* (AtomicCutOverMagicLock, AtomicCutoverRename).  They are set up after the
\* connection, so that an attempt whose renamer got none waits for a session id.
AttemptEnds ==
    main = "locking" ~> \/ main \in {"start", "succeeded", "failed", "exited"}
                        \/ main = "session" /\ renamer[attempt] = "silent"

=============================================================================
