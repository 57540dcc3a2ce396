-------------------------- MODULE ComponentProofs ---------------------------
(***************************************************************************)
(* The theorems of four smaller components:                                *)
(*                                                                         *)
(*   - TwoStepCutOver: for any number of attempts and writes it implements *)
(*     TableSwap, and on a replica under test it leaves the tables as they *)
(*     were, and replication stopped as long as they are not;              *)
(*   - MigrationLock: mutual exclusion for any number of processes,        *)
(*     whatever connections are lost;                                      *)
(*   - CutOverGate: the gate, for any number of attempts and commands;     *)
(*   - Throttler: after a hibernation nothing is written before the load   *)
(*     was looked at again, whatever is collected, checked and changed     *)
(*     meanwhile.                                                          *)
(*                                                                         *)
(* The components share no variable and do not meet here: a theorem is     *)
(* about the specification that it names.                                  *)
(***************************************************************************)
EXTENDS TwoStepCutOver, MigrationLock, CutOverGate, Throttler, TLAPS

-----------------------------------------------------------------------------
(* The two-step cut-over.                                                  *)

\* What is behind the three names: before, between and after the two renames.
Before == at["original"] = "original" /\ at["ghost"] = "ghost" /\ at["old"] = "none"
Between == at["original"] = "none" /\ at["ghost"] = "ghost" /\ at["old"] = "original"
After == at["original"] = "ghost" /\ at["ghost"] = "none" /\ at["old"] = "original"

\* Where the cut-over stands tells how many renames there were, and, while there may
\* be some, that the replica under test does not replicate.
PlaceInv ==
    /\ Before \/ Between \/ After
    /\ main \in {"stop", "lock", "inject", "wait"} => Before
    /\ main = "renameOriginal" => Before \/ Between
    /\ main = "renameGhost" => Between
    /\ main = "unlock" => After
    /\ main \in {"undoGhost", "undoOriginal"} => TestOnReplica
    /\ main = "undoOriginal" /\ "undo" \notin faults => Before \/ Between
    /\ TestOnReplica /\ "undo" \notin faults
          => (main \in {"start", "succeeded", "failed", "exited"} => Before)
    /\ TestOnReplica => main = "stop" \/ replication = "stopped"
                         \/ main \in {"start", "succeeded", "failed", "exited"}

\* While the lock is held no write is missed: those before the sentinel are all.
\* That is so as long as the connection that holds it lives.
LockInv ==
  Promised =>
    /\ main \in {"inject", "wait"} \/ (main = "renameOriginal" /\ Before)
          => locked = "held"
    /\ main = "wait" => sentinel = written
    /\ main = "renameOriginal" /\ Before => applied = written
    /\ Between => applied = written

-----------------------------------------------------------------------------
\* The initial state.
LEMMA InitInv == Init => TypeOK /\ PlaceInv /\ LockInv
BY TwoStepAssumption
   DEF Init, Unswapped, Names, TypeOK, PlaceInv, LockInv, Before, Between, After,
       TestOnReplica

\* No step changes what kind of cut-over it is.
LEMMA ScenarioStep == ASSUME [Next]_vars PROVE mode' = mode /\ faults' = faults
BY DEF Next, vars, scenario

\* Every step keeps the variables in their types.
LEMMA TypeStep == ASSUME TypeOK, PlaceInv, [Next]_vars PROVE TypeOK'
<1>0. mode' = mode /\ faults' = faults
  BY ScenarioStep
<1> USE <1>0, TwoStepAssumption DEF TypeOK, serverVars
<1>1. CASE Write
  BY <1>1 DEF Write
<1>2. CASE Apply
  BY <1>2 DEF Apply
<1>3. CASE ConnectionDies
  BY <1>3 DEF ConnectionDies
<1>4. CASE ListenOnPanicAbort
  BY <1>4 DEF ListenOnPanicAbort
<1>5. CASE StopReplication
  BY <1>5 DEF StopReplication, AttemptFails, Succeeds
<1>6. CASE LockOriginalTable
  BY <1>6 DEF LockOriginalTable, AttemptFails, Succeeds
<1>7. CASE InjectSentinel
  BY <1>7 DEF InjectSentinel, AttemptFails, Succeeds
<1>8. CASE EventsUpToLock
  BY <1>8 DEF EventsUpToLock, AttemptFails, Succeeds
<1>9. CASE RenameOriginal
  BY <1>9 DEF RenameOriginal, AttemptFails, Renamed, Names
<1>10. CASE RenameGhost
  BY <1>10 DEF RenameGhost, AttemptFails, Succeeds, Renamed, Names
<1>11. CASE UnlockTables
  BY <1>11 DEF UnlockTables, AttemptFails, Succeeds
<1>12. CASE HandleCutOverResult
  BY <1>12 DEF HandleCutOverResult, AfterRollback, CanUndo, Undone, Names
<1>13. CASE StartReplication
  BY <1>13 DEF StartReplication
<1>14. CASE Teardown
  BY <1>14 DEF Teardown
<1>15. CASE UndoGhost
  BY <1>15 DEF UndoGhost, UndoOne, CanRename, Renamed, Names
<1>16. CASE UndoOriginal
  BY <1>16 DEF UndoOriginal, UndoOne, AfterRollback, CanRename, Renamed, Names
<1>17. CASE UNCHANGED vars
  BY <1>17, ZenonT(60) DEF vars
<1> QED
  BY <1>1, <1>2, <1>3, <1>4, <1>5, <1>6, <1>7, <1>8, <1>9, <1>10, <1>11, <1>12,
     <1>13, <1>14, <1>15, <1>16, <1>17, ZenonT(60)
     DEF Next, CutOver, Terminated

\* Every step keeps the tables where the place of the cut-over says.
LEMMA PlaceStep == ASSUME TypeOK, PlaceInv, [Next]_vars PROVE PlaceInv'
<1>0. mode' = mode /\ faults' = faults
  BY ScenarioStep
<1> USE <1>0 DEF PlaceInv, Before, Between, After, serverVars, TestOnReplica
<1>1. CASE Write
  BY <1>1 DEF Write
<1>2. CASE Apply
  BY <1>2 DEF Apply
<1>3. CASE ConnectionDies
  BY <1>3 DEF ConnectionDies
<1>4. CASE ListenOnPanicAbort
  BY <1>4 DEF ListenOnPanicAbort
<1>5. CASE StopReplication
  BY <1>5 DEF StopReplication, AttemptFails, Succeeds
<1>6. CASE LockOriginalTable
  BY <1>6 DEF LockOriginalTable, AttemptFails, Succeeds
<1>7. CASE InjectSentinel
  BY <1>7 DEF InjectSentinel, AttemptFails, Succeeds
<1>8. CASE EventsUpToLock
  BY <1>8 DEF EventsUpToLock, AttemptFails, Succeeds
<1>9. CASE RenameOriginal
  BY <1>9 DEF RenameOriginal, AttemptFails, CanRename, Renamed, TypeOK, Names
<1>10. CASE RenameGhost
  BY <1>10 DEF RenameGhost, AttemptFails, Succeeds, CanRename, Renamed, TypeOK, Names
<1>11. CASE UnlockTables
  BY <1>11 DEF UnlockTables, AttemptFails, Succeeds
<1>12. CASE HandleCutOverResult
  BY <1>12 DEF HandleCutOverResult, AfterRollback, CanUndo, Undone, Names
<1>13. CASE StartReplication
  BY <1>13 DEF StartReplication
<1>14. CASE Teardown
  BY <1>14 DEF Teardown
<1>15. CASE UndoGhost
  BY <1>15 DEF UndoGhost, UndoOne, CanRename, Renamed, TypeOK, Names
<1>16. CASE UndoOriginal
  BY <1>16 DEF UndoOriginal, UndoOne, AfterRollback, CanRename, Renamed, TypeOK, Names
<1>17. CASE UNCHANGED vars
  BY <1>17, ZenonT(60) DEF vars
<1> QED
  BY <1>1, <1>2, <1>3, <1>4, <1>5, <1>6, <1>7, <1>8, <1>9, <1>10, <1>11, <1>12,
     <1>13, <1>14, <1>15, <1>16, <1>17, ZenonT(60)
     DEF Next, CutOver, Terminated

\* While the connection lives, every step keeps the writes that the sentinel vouches
\* for all there are.
LEMMA LockStep ==
    ASSUME TypeOK, PlaceInv, LockInv, [Next]_vars
    PROVE  LockInv'
<1>0. mode' = mode /\ faults' = faults
  BY ScenarioStep
<1> SUFFICES ASSUME Promised, Promised' PROVE LockInv'
  BY <1>0 DEF LockInv, Promised
<1>. ~TestOnReplica /\ "dies" \notin faults
  BY DEF Promised, TestOnReplica
<1> USE DEF LockInv, PlaceInv, Before, Between, After, serverVars, TypeOK
<1>1. CASE Write
  BY <1>1 DEF Write
<1>2. CASE Apply
  BY <1>2 DEF Apply
<1>3. CASE ConnectionDies
  BY <1>3 DEF ConnectionDies
<1>4. CASE ListenOnPanicAbort
  BY <1>4 DEF ListenOnPanicAbort
<1>5. CASE StopReplication
  BY <1>5 DEF StopReplication, AttemptFails, Succeeds
<1>6. CASE LockOriginalTable
  BY <1>6 DEF LockOriginalTable, AttemptFails, Succeeds
<1>7. CASE InjectSentinel
  BY <1>7 DEF InjectSentinel, AttemptFails, Succeeds
<1>8. CASE EventsUpToLock
  BY <1>8 DEF EventsUpToLock, AttemptFails, Succeeds
<1>9. CASE RenameOriginal
  BY <1>9 DEF RenameOriginal, AttemptFails, CanRename, Renamed, Names
<1>10. CASE RenameGhost
  BY <1>10 DEF RenameGhost, AttemptFails, Succeeds, CanRename, Renamed, Names
<1>11. CASE UnlockTables
  BY <1>11 DEF UnlockTables, AttemptFails, Succeeds
<1>12. CASE HandleCutOverResult
  BY <1>12 DEF HandleCutOverResult, AfterRollback
<1>13. CASE StartReplication
  BY <1>13 DEF StartReplication
<1>14. CASE Teardown
  BY <1>14 DEF Teardown
<1>15. CASE UndoGhost
  BY <1>15 DEF UndoGhost, UndoOne, CanRename, Renamed, TypeOK, Names
<1>16. CASE UndoOriginal
  BY <1>16 DEF UndoOriginal, UndoOne, AfterRollback, CanRename, Renamed, TypeOK, Names
<1>17. CASE UNCHANGED vars
  BY <1>17, ZenonT(60) DEF vars
<1> QED
  BY <1>1, <1>2, <1>3, <1>4, <1>5, <1>6, <1>7, <1>8, <1>9, <1>10, <1>11, <1>12,
     <1>13, <1>14, <1>15, <1>16, <1>17, ZenonT(60)
     DEF Next, CutOver, Terminated

\* Every step of the cut-over is a step of TableSwap, or none: the second rename
\* makes the ghost table the application's when every write was applied.
LEMMA SwapStep ==
    ASSUME TypeOK, PlaceInv, LockInv, [Next]_vars
    PROVE  [SwapSpec!Next]_(SwapSpec!vars)
<1>0. Promised' = Promised
  BY ScenarioStep DEF Promised
<1>a. CASE ~Promised
  BY <1>0, <1>a DEF SwapSpec!vars
<1> SUFFICES ASSUME Promised, Promised' PROVE [SwapSpec!Next]_(SwapSpec!vars)
  BY <1>0, <1>a
<1>. ~TestOnReplica
  BY DEF Promised, TestOnReplica
<1> USE DEF PlaceInv, Before, Between, After, serverVars, TypeOK, SwapSpec!Next,
            SwapSpec!vars
<1>1. CASE Write
  BY <1>1 DEF Write, SwapSpec!Write
<1>2. CASE Apply
  BY <1>2 DEF Apply, SwapSpec!Apply
<1>3. CASE RenameOriginal
  BY <1>3 DEF RenameOriginal, CanRename, Renamed, Names
<1>4. CASE RenameGhost
  BY <1>4 DEF RenameGhost, CanRename, Renamed, Names, LockInv, SwapSpec!Swap
<1>5. CASE UNCHANGED <<at, written, applied>>
  BY <1>5, Zenon
<1>6. \/ Write \/ Apply \/ RenameOriginal \/ RenameGhost
      \/ UNCHANGED <<at, written, applied>>
  BY DEF Next, CutOver, ConnectionDies, ListenOnPanicAbort, StopReplication,
         LockOriginalTable, InjectSentinel, EventsUpToLock, UnlockTables,
         HandleCutOverResult, UndoGhost, UndoOriginal, StartReplication, Teardown,
         Terminated, vars
<1> QED
  BY <1>1, <1>2, <1>3, <1>4, <1>5, <1>6

\* Before the renames the three names are as at the start.
LEMMA BeforeIsUnswapped == ASSUME TypeOK, Before PROVE at = Unswapped
BY DEF TypeOK, Before, Unswapped, Names

-----------------------------------------------------------------------------
\* Type correctness, with any fault.
THEOREM TypeCorrect == Spec => []TypeOK
<1>1. TypeOK /\ PlaceInv /\ [Next]_vars => TypeOK' /\ PlaceInv'
  BY TypeStep, PlaceStep
<1> QED
  BY <1>1, InitInv, PTL DEF Spec

\* RenameTablesRollback puts the tables of a replica under test back, whichever
\* statements of the cut-over failed, whatever connection was lost and however often it
\* was tried, also when they cannot be renamed together; a failing rename of a single
\* table is excepted.
THEOREM Restores == Spec => []TestRestoresTables
<1>1. TypeOK /\ PlaceInv /\ [Next]_vars => TypeOK' /\ PlaceInv'
  BY TypeStep, PlaceStep
<1>2. TypeOK /\ PlaceInv => TestRestoresTables
  BY BeforeIsUnswapped DEF PlaceInv, TestRestoresTables
<1> QED
  BY <1>1, <1>2, InitInv, PTL DEF Spec

\* A replica under test does not replicate while its tables are swapped, or one of them
\* is missing, whatever fails but the rename of a single table at the end.
THEOREM Isolated == Spec => []TestIsIsolated
<1>1. TypeOK /\ PlaceInv /\ [Next]_vars => TypeOK' /\ PlaceInv'
  BY TypeStep, PlaceStep
<1>2. TypeOK /\ PlaceInv => TestIsIsolated
  BY BeforeIsUnswapped DEF PlaceInv, TestIsIsolated
<1> QED
  BY <1>1, <1>2, InitInv, PTL DEF Spec

\* The two-step cut-over implements TableSwap while the connection that holds the
\* lock lives: no write of the application is missing from the table it gets.
THEOREM Exact == Spec => SwapIsExact
<1> DEFINE Inv == TypeOK /\ PlaceInv /\ LockInv
<1>1. Inv /\ [Next]_vars => Inv'
  BY TypeStep, PlaceStep, LockStep
<1>2. Inv /\ [Next]_vars => [SwapSpec!Next]_(SwapSpec!vars)
  BY SwapStep
<1>3. Init => SwapSpec!Init
  BY DEF Init, Unswapped, SwapSpec!Init
<1>4. Init => Inv
  BY InitInv
<1> HIDE DEF Inv
<1> QED
  BY <1>1, <1>2, <1>3, <1>4, PTL DEF Spec, SwapIsExact, SwapSpec!Spec

-----------------------------------------------------------------------------
(* The migration lock.                                                     *)

\* A process that migrates, or has not released the lock yet, holds it unless its
\* connection is lost.
HoldsLock ==
    \A p \in Procs :
        /\ migrate[p] \in {"migrating", "teardown"} => conn[p] \in {"up", "lost"}
        /\ migrate[p] \in {"migrating", "teardown"} /\ conn[p] = "up" => holder = p

\* Every step keeps the variables in their types.
LEMMA LockTypeStep == LockTypeOK /\ [LockNext]_lockVars => LockTypeOK'
<1> SUFFICES ASSUME LockTypeOK, [LockNext]_lockVars PROVE LockTypeOK'
  BY Zenon
<1> USE DEF LockTypeOK
<1>1. ASSUME NEW p \in Procs, Proc(p) PROVE LockTypeOK'
  <2>1. CASE AcquireMigrationLock(p)
    BY <2>1 DEF AcquireMigrationLock
  <2>2. CASE LockIsRefused(p)
    BY <2>2 DEF LockIsRefused
  <2>3. CASE ConnectionIsLost(p)
    BY <2>3 DEF ConnectionIsLost
  <2>4. CASE KeepMigrationLockAlive(p)
    BY <2>4 DEF KeepMigrationLockAlive
  <2>5. CASE LostLockAborts(p)
    BY <2>5 DEF LostLockAborts
  <2>6. CASE ExecuteWriteFuncs(p)
    BY <2>6 DEF ExecuteWriteFuncs
  <2>7. CASE BeginTeardown(p)
    BY <2>7 DEF BeginTeardown
  <2>8. CASE ReleaseMigrationLock(p)
    BY <2>8 DEF ReleaseMigrationLock
  <2>9. CASE Return(p)
    BY <2>9 DEF Return
  <2> QED
    BY <1>1, <2>1, <2>2, <2>3, <2>4, <2>5, <2>6, <2>7, <2>8, <2>9 DEF Proc
<1>2. CASE UNCHANGED lockVars
  BY <1>2 DEF lockVars
<1> QED
  BY <1>1, <1>2, ZenonT(60) DEF LockNext, AllReturned

\* Every variable keeps its type, whatever connections are lost.
THEOREM LockTypeCorrect == LockSpec => []LockTypeOK
<1>1. LockInit => LockTypeOK
  BY DEF LockInit, LockTypeOK
<1> QED
  BY <1>1, LockTypeStep, PTL DEF LockSpec

\* Every step keeps the lock with the process that took it, or leaves that process
\* without its connection.
LEMMA HoldsLockStep ==
    ASSUME LockTypeOK, HoldsLock, [LockNext]_lockVars
    PROVE  HoldsLock'
<1> USE MigrationLockAssumption DEF LockTypeOK, HoldsLock
<1>1. ASSUME NEW p \in Procs, Proc(p) PROVE HoldsLock'
  <2>1. CASE AcquireMigrationLock(p)
    BY <2>1 DEF AcquireMigrationLock, LockIsGranted
  <2>2. CASE LockIsRefused(p)
    BY <2>2 DEF LockIsRefused
  <2>3. CASE ConnectionIsLost(p)
    BY <2>3 DEF ConnectionIsLost
  <2>4. CASE KeepMigrationLockAlive(p)
    BY <2>4 DEF KeepMigrationLockAlive
  <2>5. CASE LostLockAborts(p)
    BY <2>5 DEF LostLockAborts
  <2>6. CASE ExecuteWriteFuncs(p)
    BY <2>6 DEF ExecuteWriteFuncs
  <2>7. CASE BeginTeardown(p)
    BY <2>7 DEF BeginTeardown
  <2>8. CASE ReleaseMigrationLock(p)
    BY <2>8 DEF ReleaseMigrationLock
  <2>9. CASE Return(p)
    BY <2>9 DEF Return
  <2> QED
    BY <1>1, <2>1, <2>2, <2>3, <2>4, <2>5, <2>6, <2>7, <2>8, <2>9 DEF Proc
<1>2. CASE UNCHANGED lockVars
  BY <1>2 DEF lockVars
<1> QED
  BY <1>1, <1>2, ZenonT(60) DEF LockNext, AllReturned

\* The lock's promise, "preventing two gh-ost processes from migrating the same table
\* concurrently", holds for any number of processes, except for one whose lock
\* connection is lost and that has not found out yet.
THEOREM Exclusion == LockSpec => []OneMigrates
<1>1. LockInit => LockTypeOK /\ HoldsLock
  BY DEF LockInit, LockTypeOK, HoldsLock
<1>2. LockTypeOK /\ HoldsLock /\ [LockNext]_lockVars => LockTypeOK' /\ HoldsLock'
  BY LockTypeStep, HoldsLockStep
<1>3. LockTypeOK /\ HoldsLock => OneMigrates
  BY DEF LockTypeOK, HoldsLock, OneMigrates
<1> QED
  BY <1>1, <1>2, <1>3, PTL DEF LockSpec

-----------------------------------------------------------------------------
(* The gate of the cut-over.                                               *)

\* Commands that may open a gate yet: in UserCommandedUnpostponeFlag, and with the
\* server.
Outstanding ==
    (IF unpostpone = "yes" THEN 1 ELSE 0) + (IF server = "accepted" THEN 1 ELSE 0)

\* Gates that may be opened yet.
GatesLeft == MaxAttempts - attempt + (IF gate \in {"poll", "file"} THEN 1 ELSE 0)

\* A command that opens a gate was accepted and has opened none before: two commands
\* that share the one flag count as one, and so do those that come after the last
\* gate.
Accounted == told >= Outstanding \/ told >= GatesLeft

\* The inductive invariant.
GateInv ==
    /\ GateTypeOK
    /\ PostponementIsAnnounced
    /\ gate = "cutOver" => postponing = "no"
    /\ Accounted

\* The first poll of the first attempt.
LEMMA GateStart == GateInit => GateInv
BY CutOverGateAssumption
   DEF GateInit, GateInv, GateTypeOK, PostponementIsAnnounced, Accounted,
       Outstanding, GatesLeft

\* Every step of the user, the server and cutOver() keeps the invariant.
LEMMA GateStep ==
    ASSUME GateInv, [GateNext]_gateVars
    PROVE  GateInv'
<1> USE CutOverGateAssumption
    DEF GateInv, GateTypeOK, PostponementIsAnnounced, Accounted, Outstanding, GatesLeft,
        files, flags
<1>1. CASE UserFile
  BY <1>1 DEF UserFile
<1>2. CASE LagChanges
  BY <1>2 DEF LagChanges
<1>3. CASE ServerAccepts
  BY <1>3 DEF ServerAccepts
<1>4. CASE ServerUnpostpones
  BY <1>4 DEF ServerUnpostpones
<1>5. CASE Poll
  BY <1>5 DEF Poll, PassGate
<1>6. CASE PollFile
  <2>1. CASE exists = "no" /\ PassGate /\ UNCHANGED <<attempt, notified>>
    BY <1>6, <2>1 DEF PollFile, PassGate
  <2>2. CASE exists = "yes" /\ gate' = "poll" /\ UNCHANGED attempt
    BY <1>6, <2>2 DEF PollFile, PassGate, NextAttempt
  <2>3. CASE postponing = "no" /\ NextAttempt /\ UNCHANGED postponing
    BY <1>6, <2>3 DEF PollFile, NextAttempt
  <2> QED
    BY <1>6, <2>1, <2>2, <2>3 DEF PollFile
<1>7. CASE AttemptCutOver
  BY <1>7 DEF AttemptCutOver, NextAttempt
<1>8. CASE UNCHANGED gateVars
  BY <1>8 DEF gateVars
<1> QED
  BY <1>1, <1>2, <1>3, <1>4, <1>5, <1>6, <1>7, <1>8 DEF GateNext, GateEnded

\* The gate of any attempt opens only for want of the file or for a command that has
\* opened no gate before.
LEMMA GateOpens ==
    ASSUME GateInv, GateNext
    PROVE  gate # "cutOver" /\ gate' = "cutOver" =>
              exists = "no" \/ flagFile = "none" \/ (told > 0 /\ told' = told - 1)
<1> SUFFICES ASSUME gate # "cutOver", gate' = "cutOver"
             PROVE  exists = "no" \/ flagFile = "none" \/ (told > 0 /\ told' = told - 1)
  OBVIOUS
<1>1. CASE Poll
  BY <1>1, CutOverGateAssumption
     DEF Poll, PassGate, GateInv, GateTypeOK, Accounted, Outstanding, GatesLeft
<1>2. CASE PollFile
  BY <1>2 DEF PollFile, PassGate, NextAttempt
<1>3. Poll \/ PollFile
  BY DEF GateNext, UserFile, LagChanges, ServerAccepts,
         ServerUnpostpones, AttemptCutOver,
         NextAttempt, GateEnded, gateVars
<1> QED
  BY <1>1, <1>2, <1>3

\* Type correctness: a command that opens a gate is there to be counted, and a hook is
\* run once per attempt.
THEOREM GateTypeCorrect == GateSpec => []GateTypeOK
<1>1. GateInv => GateTypeOK
  BY DEF GateInv
<1> QED
  BY <1>1, GateStart, GateStep, PTL DEF GateSpec

\* The cut-over counts as postponed, and unpostpone is accepted, exactly from when the
\* users of this attempt were notified.
THEOREM Announced == GateSpec => []PostponementIsAnnounced
<1>1. GateInv => PostponementIsAnnounced
  BY DEF GateInv
<1> QED
  BY <1>1, GateStart, GateStep, PTL DEF GateSpec

\* No attempt takes the cut-over step over an existing flag file but for an unpostpone
\* command, and no command serves two attempts.
THEOREM Holds == GateSpec => GateHolds
<1>1. GateInv /\ [GateNext]_gateVars =>
        [gate # "cutOver" /\ gate' = "cutOver" =>
           exists = "no" \/ flagFile = "none"
               \/ (told > 0 /\ told' = told - 1)]_gateVars
  BY GateOpens
<1> QED
  BY <1>1, GateStart, GateStep, PTL DEF GateSpec, GateHolds

-----------------------------------------------------------------------------
(* The throttler.                                                          *)

\* From the beginning of a hibernation to the next look at the load (renewed = "no"): a
\* check that noticed the hibernation decides to throttle, so does every later one, and
\* the hibernation is not over before there is another reason to.
HibernationInv ==
    /\ hibernating \in {"no", "yes"}
    /\ sleeper \in {"none", "asleep", "leaving"}
    /\ noticed \in {"no", "set", "yes"}
    /\ hibernating = "yes" => renewed = "no"
    /\ renewed = "no" =>
          /\ noticed = "set" => check = "set" /\ verdict[1] = "yes"
          /\ noticed = "yes" => throttled = "yes" /\ (check = "set" => verdict[1] = "yes")
          /\ hibernating = "no" \/ sleeper = "leaving"
                => noticed = "yes" /\ general = "leaving"

\* The world, the writer and the other collectors leave alone what the invariant reads.
LEMMA OthersKeep ==
    ASSUME HibernationInv,
           UNCHANGED <<hibernating, sleeper, renewed, noticed, check, verdict, throttled,
                       general>>
    PROVE  HibernationInv'
BY DEF HibernationInv

\* Every step preserves the invariant.
LEMMA HibernationStep == HibernationInv /\ [ThrottlerNext]_throttlerVars => HibernationInv'
<1> SUFFICES ASSUME HibernationInv, [ThrottlerNext]_throttlerVars PROVE HibernationInv'
  OBVIOUS
<1> USE DEF hibernation, decision, world, metrics
<1>1. CASE UserCommands \/ LoadChanges \/ HTTPChanges
           \/ ReplicationChanges \/ CutOverCriticalSection \/ WaitForEventsUpToLock
  BY <1>1, OthersKeep
     DEF UserCommands, LoadChanges, HTTPChanges,
         ReplicationChanges, CutOverCriticalSection, WaitForEventsUpToLock
<1>2. CASE InjectHeartbeat \/ HeartbeatAges \/ ThrottledWrite
  BY <1>2, OthersKeep DEF InjectHeartbeat, HeartbeatAges, ThrottledWrite
<1>3. CASE CollectReplicationLag \/ CollectControlReplicasLag
           \/ CollectThrottleHTTPStatus
  BY <1>3, OthersKeep
     DEF CollectReplicationLag, CollectControlReplicasLag,
         CollectThrottleHTTPStatus
<1>4. CASE CollectGeneral
  BY <1>4 DEF CollectGeneral, HibernationInv
<1>5. CASE RecheckCriticalLoad
  BY <1>5, OthersKeep DEF RecheckCriticalLoad
<1>6. CASE LeaveHibernation
  BY <1>6 DEF LeaveHibernation, HibernationInv
<1>7. CASE InitiateThrottlerChecks
  BY <1>7 DEF InitiateThrottlerChecks, HibernationInv
<1>8. CASE CheckThrottle
  BY <1>8 DEF CheckThrottle, ShouldThrottle, HibernationInv
<1>9. CASE SetThrottled
  BY <1>9 DEF SetThrottled, HibernationInv
<1>10. CASE Aborted \/ UNCHANGED throttlerVars
  BY <1>10, OthersKeep DEF Aborted, throttlerVars
<1> QED
  BY <1>1, <1>2, <1>3, <1>4, <1>5, <1>6, <1>7, <1>8, <1>9, <1>10 DEF ThrottlerNext

\* What was stored before the critical load is never acted upon: gh-ost wakes up
\* throttled (WakesThrottled), for any set of control replicas.
THEOREM Wakes == ThrottlerSpec => []WakesThrottled
<1>1. ThrottlerInit => HibernationInv
  BY DEF ThrottlerInit, HibernationInv
<1>2. HibernationInv => WakesThrottled
  BY DEF HibernationInv, WakesThrottled
<1> QED
  BY <1>1, <1>2, HibernationStep, PTL DEF ThrottlerSpec

=============================================================================
