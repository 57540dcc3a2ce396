------------------------ MODULE AtomicCutOverProofs ------------------------
(***************************************************************************)
(* The atomic cut-over, for any number of attempts and writes: it          *)
(* implements TableSwap, reports success only of a swap, keeps the old     *)
(* table, and no send blocks.  Sessions and the process may die, queries   *)
(* fail and connections be refused; a renamer is not slower than the       *)
(* retries that look for it, a locker not than the pause between attempts, *)
(* and nobody else holds the ghost table.                                  *)
(***************************************************************************)
EXTENDS AtomicCutOver, TLAPS

Prompt == Faults \cap {"busy", "slow", "lingers"} = {}

-----------------------------------------------------------------------------
\* One locker at a time is at work, and what it last saw of the sentry is so.
Active(a) == locker[a] \notin {"idle", "done"}
Alone == \A a, b \in Attempts : Active(a) /\ Active(b) => a = b

SentryInv ==
    \A a \in Attempts :
        locker[a] \in {"drop", "lock", "holding", "dropping", "cleanDrop"}
            => old = "sentry"

\* A locker that says it has the lock has it, unless its session or the process died.
LockInv ==
    \A a \in Attempts :
        /\ locker[a] \in {"holding", "dropping", "unlocking"}
        /\ a \notin dead /\ main # "exited"
        => holder = a

\* Attempts to come have not begun.
FreshInv ==
    /\ \A a \in Attempts : a > attempt => locker[a] = "idle" /\ renamer[a] = "idle"
    /\ main = "start" => locker[attempt] = "idle"
    /\ main \in {"start", "locking", "inject", "events"} => renamer[attempt] = "idle"

\* The locker waits while the cut-over waits for the events, and has sent errors only
\* when it does not wait.
HoldingInv ==
    /\ main = "locking" /\ locker[attempt] # "holding"
          => tableLocked[attempt] \in Seq({"err"})
    /\ main = "locking" => locker[attempt] \notin {"dropping", "unlocking"}
    /\ main \in {"inject", "events"} => locker[attempt] = "holding"
    /\ main = "events" /\ holder # 0 => sentinel = written

\* A renamer that has yet to issue its RENAME has a locker that waits for it, and
\* under the lock no write is missing.
RenamerInv ==
    \A a \in Attempts :
        /\ renamer[a] \in {"begin", "set"} =>
              /\ a = attempt
              /\ main \in {"session", "expect", "exited"}
              /\ locker[a] = "holding"
              /\ holder # 0 => applied = written
        /\ renamer[a] = "begin" => main # "expect"
        /\ a \in tableRenameKnownToHaveFailed => renamer[a] \in {"done", "silent"}

\* A RENAME that waits is blocked by the sentry, or no write is missing.
PendingInv ==
    \A a \in Attempts :
        renamer[a] \in {"onOld", "onOriginal"} /\ (holder # 0 \/ old = "none")
            => applied = written

\* Success is only reported of a swap.
RenamedInv ==
    /\ current = "original" => tablesRenamed \in [Attempts -> Seq({"err"})]
    /\ main = "succeeded" => current = "ghost"

\* How often the cut-over and the renamer of attempt a have sent on okToUnlockTable.
MainSends(a) ==
    IF a > attempt THEN 0
    ELSE IF a < attempt \/ main \in {"succeeded", "failed", "exited"} THEN 2
    ELSE IF main \in {"unlocking", "renamed"} THEN 1 ELSE 0
RenamerSends(a) == IF renamer[a] \in {"done", "silent"} THEN 1 ELSE 0

UnlockInv == \A a \in Attempts : okToUnlockTable[a] <= MainSends(a) + RenamerSends(a)

\* The other channels have what their sender can have sent by now.
LockerRoom(place, locked, unlocked) ==
    /\ place \in {"idle", "begin", "check", "drop", "create", "lock"} => locked = 0
    /\ place \in {"holding", "dropping", "unlocking"} => locked <= 1
    /\ place \notin {"cleanCheck", "cleanDrop", "done"} => unlocked = 0
    /\ locked <= 2 /\ unlocked <= 2
LockerChannelInv ==
    \A a \in Attempts :
        LockerRoom(locker[a], Len(tableLocked[a]), Len(tableUnlocked[a]))

RenamerRoom(place, session, renamed) ==
    /\ place \in {"idle", "begin"} => session = 0
    /\ place \in {"set", "onOld", "onOriginal"} => session <= 1
    /\ place \in {"idle", "begin", "set", "onOld", "onOriginal"} => renamed = 0
    /\ session <= 2 /\ renamed <= 2
RenamerChannelInv ==
    \A a \in Attempts :
        RenamerRoom(renamer[a], Len(renameSessionId[a]), Len(tablesRenamed[a]))

IndInv ==
    /\ TypeOK /\ Alone /\ SentryInv /\ LockInv /\ FreshInv /\ HoldingInv
    /\ RenamerInv /\ PendingInv /\ RenamedInv
    /\ UnlockInv /\ LockerChannelInv /\ RenamerChannelInv

-----------------------------------------------------------------------------
\* Channels are sequences of messages, longer by n after n sends and shorter by one
\* after a receive.
Channels == [Attempts -> Seq(Messages)]

Longer(d, c, a, n) ==
    /\ d \in Channels
    /\ Len(d[a]) = Len(c[a]) + n
    /\ \A b \in Attempts \ {a} : d[b] = c[b]

\* A send (c <- m) adds one message to the channel of its attempt, and to no other.
LEMMA Sending ==
    ASSUME NEW c \in Channels, NEW a \in Attempts, NEW m \in Messages
    PROVE  Longer(Send(c, a, m), c, a, 1)
  BY DEF Longer, Channels, Send, Messages

Received(c, a) == [c EXCEPT ![a] = Tail(@)]

\* A receive (<-c) takes one message off.
LEMMA Receiving ==
    ASSUME NEW c \in Channels, NEW a \in Attempts, c[a] # << >>
    PROVE  /\ Received(c, a) \in Channels
           /\ \A b \in Attempts : Len(Received(c, a)[b]) <= Len(c[b])
           /\ Head(c[a]) \in Messages
  BY DEF Channels, Received, Messages

Deferred(c, a, s) == [c EXCEPT ![a] = @ \o s \o <<"err">>]

\* What a goroutine sends as it returns: the result, if any, and the error that its
\* deferred function sends.
LEMMA Deferring ==
    ASSUME NEW c \in Channels, NEW a \in Attempts
    PROVE  /\ Longer(Deferred(c, a, << >>), c, a, 1)
           /\ Longer(Deferred(c, a, <<"ok">>), c, a, 2)
           /\ Longer(Deferred(c, a, <<"err">>), c, a, 2)
<1>1. ASSUME NEW s \in Seq(Messages)
      PROVE  Longer(Deferred(c, a, s), c, a, Len(s) + 1)
  BY DEF Longer, Channels, Deferred, Messages
<1>2. /\ << >> \in Seq(Messages) /\ <<"ok">> \in Seq(Messages)
      /\ <<"err">> \in Seq(Messages)
      /\ Len(<< >>) = 0 /\ Len(<<"ok">>) = 1 /\ Len(<<"err">>) = 1
  BY DEF Messages
<1>3. /\ Longer(Deferred(c, a, << >>), c, a, 0 + 1)
      /\ Longer(Deferred(c, a, <<"ok">>), c, a, 1 + 1)
      /\ Longer(Deferred(c, a, <<"err">>), c, a, 1 + 1)
  BY <1>1, <1>2, Zenon
<1> QED
  BY <1>3

\* A channel of errors stays one when an error is sent, or anything received.
LEMMA Errors ==
    ASSUME NEW c \in [Attempts -> Seq({"err"})], NEW a \in Attempts
    PROVE  /\ Deferred(c, a, << >>) \in [Attempts -> Seq({"err"})]
           /\ Deferred(c, a, <<"err">>) \in [Attempts -> Seq({"err"})]
           /\ c[a] # << >> => Received(c, a) \in [Attempts -> Seq({"err"})]
           /\ c[a] # << >> => Head(c[a]) # "ok"
  BY DEF Deferred, Received

-----------------------------------------------------------------------------
(* What the steps of a locker do, each lemma with a case for every step.       *)

\* To the locker's place, and okToUnlockTable: it waits until it is told to unlock.
LockerGoes(a) ==
    /\ UNCHANGED <<current, written, applied, mainVars, dead, renamerVars>>
    /\ old' \in {"none", "sentry", "original"} /\ holder' \in Attempts \cup {0}
    /\ locker' \in [Attempts -> LockerPlaces]
    /\ \A b \in Attempts \ {a} : locker'[b] = locker[b]
    /\ Active(a) /\ locker'[a] # "idle"
    /\ okToUnlockTable' \in [Attempts -> Nat]
    /\ \A b \in Attempts : okToUnlockTable'[b] <= okToUnlockTable[b]
    /\ locker[a] = "holding" => okToUnlockTable[a] > 0
    /\ locker'[a] \in {"dropping", "unlocking"} => locker[a] \in {"holding", "dropping"}

\* Every step of AtomicCutOverMagicLock goes so.
LEMMA LockerPlace ==
    ASSUME TypeOK, NEW a \in Attempts, Locker(a)
    PROVE  LockerGoes(a)
<1>0. /\ locker \in [Attempts -> LockerPlaces]
      /\ okToUnlockTable \in [Attempts -> Nat]
      /\ old \in {"none", "sentry", "original"} /\ holder \in Attempts \cup {0}
  BY Zenon DEF TypeOK
<1> USE DEF LockerGoes, Active, LockerPlaces, tableVars
<1>1. CASE LockerBeginFails(a)
  BY <1>1, <1>0 DEF LockerBeginFails, GoTo
<1>2. CASE LockerBegins(a)
  BY <1>2, <1>0 DEF LockerBegins, GoTo
<1>3. CASE LockerFails(a)
  BY <1>3, <1>0 DEF LockerFails, LockerReturns, GoTo
<1>4. CASE CheckSentry(a)
  BY <1>4, <1>0 DEF CheckSentry, GoTo
<1>5. CASE DropSentry(a)
  BY <1>5, <1>0 DEF DropSentry, GoTo
<1>6. CASE CreateSentry(a)
  BY <1>6, <1>0 DEF CreateSentry, GoTo
<1>7. CASE LockTables(a)
  BY <1>7, <1>0 DEF LockTables, GoTo
<1>8. CASE ToldToUnlock(a)
  BY <1>8, <1>0 DEF ToldToUnlock, GoTo
<1>9. CASE DropOwnSentry(a)
  BY <1>9, <1>0 DEF DropOwnSentry, GoTo
<1>10. CASE UnlockTables(a)
  BY <1>10, <1>0 DEF UnlockTables, LockerReturns, GoTo
<1>11. CASE UnlockFails(a)
  BY <1>11, <1>0 DEF UnlockFails, LockerReturns, GoTo
<1>12. CASE CleanCheck(a)
  BY <1>12, <1>0 DEF CleanCheck, GoTo
<1>13. CASE CleanDrop(a)
  BY <1>13, <1>0 DEF CleanDrop, GoTo
<1> QED
  BY <1>1, <1>2, <1>3, <1>4, <1>5, <1>6, <1>7, <1>8, <1>9, <1>10, <1>11, <1>12, <1>13
     DEF Locker

\* To its channels: an error goes first, unless it got the lock.
LockerSends(a) ==
    /\ tableLocked' \in Channels /\ tableUnlocked' \in Channels
    /\ \A b \in Attempts \ {a} : tableLocked'[b] = tableLocked[b]
    /\ \A b \in Attempts \ {a} : tableUnlocked'[b] = tableUnlocked[b]
    /\ LockerRoom(locker'[a], Len(tableLocked'[a]), Len(tableUnlocked'[a]))

\* Every step of AtomicCutOverMagicLock leaves its channels so.
LEMMA LockerChannels ==
    ASSUME TypeOK, LockerChannelInv, NEW a \in Attempts, Locker(a)
    PROVE  LockerSends(a)
<1>0. /\ locker \in [Attempts -> LockerPlaces]
      /\ tableLocked \in Channels /\ tableUnlocked \in Channels
      /\ "ok" \in Messages /\ "err" \in Messages
  BY Zenon DEF TypeOK, Channels, Messages
<1>a. Len(tableLocked[a]) \in Nat /\ Len(tableUnlocked[a]) \in Nat
  BY <1>0 DEF Channels
<1>b. LockerRoom(locker[a], Len(tableLocked[a]), Len(tableUnlocked[a]))
  BY DEF LockerChannelInv
<1> USE DEF LockerSends, LockerRoom, Longer
<1>1. CASE LockerBeginFails(a)
  BY <1>1, <1>0, <1>a, <1>b, Sending, SMTT(30) DEF LockerBeginFails, GoTo
<1>2. CASE LockerBegins(a)
  BY <1>2, <1>0, <1>a, <1>b DEF LockerBegins, GoTo
<1>3. CASE LockerFails(a)
  <2>1. /\ tableLocked' = Deferred(tableLocked, a, <<"err">>)
        /\ tableUnlocked' = Deferred(tableUnlocked, a, << >>)
        /\ locker[a] \in {"check", "drop", "create", "lock"}
    BY <1>3 DEF LockerFails, LockerReturns, Deferred
  <2>2. locker'[a] = "cleanCheck"
    BY <1>3, <1>0 DEF LockerFails, LockerReturns, GoTo
  <2>3. /\ Longer(tableLocked', tableLocked, a, 2)
        /\ Longer(tableUnlocked', tableUnlocked, a, 1)
    BY <2>1, <1>0, Deferring, Zenon
  <2> QED
    BY <2>1, <2>2, <2>3, <1>a, <1>b
<1>4. CASE CheckSentry(a)
  BY <1>4, <1>0, <1>a, <1>b DEF CheckSentry, GoTo
<1>5. CASE DropSentry(a)
  BY <1>5, <1>0, <1>a, <1>b DEF DropSentry, GoTo
<1>6. CASE CreateSentry(a)
  BY <1>6, <1>0, <1>a, <1>b DEF CreateSentry, GoTo
<1>7. CASE LockTables(a)
  BY <1>7, <1>0, <1>a, <1>b, Sending, SMTT(30) DEF LockTables, GoTo
<1>8. CASE ToldToUnlock(a)
  BY <1>8, <1>0, <1>a, <1>b DEF ToldToUnlock, GoTo
<1>9. CASE DropOwnSentry(a)
  BY <1>9, <1>0, <1>a, <1>b DEF DropOwnSentry, GoTo
<1>10. CASE UnlockTables(a)
  <2>1. /\ tableLocked' = Deferred(tableLocked, a, << >>)
        /\ tableUnlocked' = Deferred(tableUnlocked, a, <<"ok">>)
        /\ locker[a] = "unlocking"
    BY <1>10 DEF UnlockTables, LockerReturns, Deferred
  <2>2. locker'[a] = "cleanCheck"
    BY <1>10, <1>0 DEF UnlockTables, LockerReturns, GoTo
  <2>3. /\ Longer(tableLocked', tableLocked, a, 1)
        /\ Longer(tableUnlocked', tableUnlocked, a, 2)
    BY <2>1, <1>0, Deferring, Zenon
  <2> QED
    BY <2>1, <2>2, <2>3, <1>a, <1>b
<1>11. CASE UnlockFails(a)
  <2>1. /\ tableLocked' = Deferred(tableLocked, a, << >>)
        /\ tableUnlocked' = Deferred(tableUnlocked, a, <<"err">>)
        /\ locker[a] = "unlocking"
    BY <1>11 DEF UnlockFails, LockerReturns, Deferred
  <2>2. locker'[a] = "cleanCheck"
    BY <1>11, <1>0 DEF UnlockFails, LockerReturns, GoTo
  <2>3. /\ Longer(tableLocked', tableLocked, a, 1)
        /\ Longer(tableUnlocked', tableUnlocked, a, 2)
    BY <2>1, <1>0, Deferring, Zenon
  <2> QED
    BY <2>1, <2>2, <2>3, <1>a, <1>b
<1>12. CASE CleanCheck(a)
  BY <1>12, <1>0, <1>a, <1>b DEF CleanCheck, GoTo
<1>13. CASE CleanDrop(a)
  BY <1>13, <1>0, <1>a, <1>b DEF CleanDrop, GoTo
<1> QED
  BY <1>1, <1>2, <1>3, <1>4, <1>5, <1>6, <1>7, <1>8, <1>9, <1>10, <1>11, <1>12, <1>13
     DEF Locker

\* A locker that does not get the lock sends nothing but errors on tableLocked.
LEMMA LockerErrors ==
    ASSUME TypeOK, NEW a \in Attempts, Locker(a), tableLocked[a] \in Seq({"err"}),
           locker'[a] # "holding"
    PROVE  tableLocked'[a] \in Seq({"err"})
<1>0. locker \in [Attempts -> LockerPlaces] /\ tableLocked \in [Attempts -> Seq(Messages)]
  BY Zenon DEF TypeOK
<1>a. tableLocked'[a] \in {tableLocked[a], Append(tableLocked[a], "err"),
                           tableLocked[a] \o << >> \o <<"err">>,
                           tableLocked[a] \o <<"err">> \o <<"err">>}
  BY <1>0, Zenon
     DEF Locker, LockerBeginFails, LockerBegins, LockerFails, CheckSentry, DropSentry,
     CreateSentry, LockTables, ToldToUnlock, DropOwnSentry, UnlockTables, UnlockFails,
     CleanCheck, CleanDrop, LockerReturns, Send, GoTo
<1>b. ASSUME NEW s \in Seq({"err"})
      PROVE  /\ Append(s, "err") \in Seq({"err"})
             /\ s \o << >> \o <<"err">> \in Seq({"err"})
             /\ s \o <<"err">> \o <<"err">> \in Seq({"err"})
  OBVIOUS
<1> QED
  BY <1>a, <1>b, Zenon

\* To the tables: nobody else changes the sentry or the lock while it is at work.
SentryPlaces == {"drop", "lock", "holding", "dropping", "cleanDrop"}
LockerLocks(a) ==
    /\ locker'[a] \in SentryPlaces => old' = "sentry"
    /\ old = "original" => old' = "original"
    /\ old' # old => \/ Renaming = {} \/ old = "none"
                     \/ locker[a] = "dropping" /\ a \notin dead
    /\ holder' # holder => \/ holder' = a /\ locker[a] = "lock" /\ Renaming = {}
                           \/ holder' = 0 /\ locker[a] = "unlocking"
    /\ locker'[a] = "holding" => holder' = a
    /\ locker'[a] \in {"dropping", "unlocking"} => holder' = holder

\* Every step of AtomicCutOverMagicLock finds and leaves the tables so.
LEMMA LockerTables ==
    ASSUME TypeOK, SentryInv, NEW a \in Attempts, Locker(a)
    PROVE  LockerLocks(a)
<1>0. /\ locker \in [Attempts -> LockerPlaces] /\ holder \in Attempts \cup {0}
      /\ old \in {"none", "sentry", "original"}
      /\ locker[a] \in SentryPlaces => old = "sentry"
  BY Zenon DEF TypeOK, SentryInv, SentryPlaces
<1> USE DEF LockerLocks, SentryPlaces, tableVars
<1>1. CASE LockerBeginFails(a)
  BY <1>1, <1>0 DEF LockerBeginFails, GoTo
<1>2. CASE LockerBegins(a)
  BY <1>2, <1>0 DEF LockerBegins, GoTo
<1>3. CASE LockerFails(a)
  BY <1>3, <1>0 DEF LockerFails, LockerReturns, GoTo
<1>4. CASE CheckSentry(a)
  BY <1>4, <1>0 DEF CheckSentry, GoTo
<1>5. CASE DropSentry(a)
  BY <1>5, <1>0 DEF DropSentry, GoTo, Droppable
<1>6. CASE CreateSentry(a)
  BY <1>6, <1>0 DEF CreateSentry, GoTo
<1>7. CASE LockTables(a)
  BY <1>7, <1>0 DEF LockTables, GoTo
<1>8. CASE ToldToUnlock(a)
  BY <1>8, <1>0 DEF ToldToUnlock, GoTo
<1>9. CASE DropOwnSentry(a)
  BY <1>9, <1>0 DEF DropOwnSentry, GoTo
<1>10. CASE UnlockTables(a)
  BY <1>10, <1>0 DEF UnlockTables, LockerReturns, GoTo
<1>11. CASE UnlockFails(a)
  BY <1>11, <1>0 DEF UnlockFails, LockerReturns, GoTo
<1>12. CASE CleanCheck(a)
  BY <1>12, <1>0 DEF CleanCheck, GoTo
<1>13. CASE CleanDrop(a)
  BY <1>13, <1>0, SMTT(30) DEF CleanDrop, GoTo, Droppable
<1> QED
  BY <1>1, <1>2, <1>3, <1>4, <1>5, <1>6, <1>7, <1>8, <1>9, <1>10, <1>11, <1>12, <1>13
     DEF Locker

-----------------------------------------------------------------------------
(* What the steps of a renamer, and of its RENAME in the server, do.           *)

\* To its place, okToUnlockTable and the tables.
RenamerGoes(a) ==
    /\ UNCHANGED <<holder, written, applied, mainVars, lockerVars>>
    /\ renamer' \in [Attempts -> RenamerPlaces]
    /\ \A b \in Attempts \ {a} : renamer'[b] = renamer[b]
    /\ renamer[a] \notin {"idle", "done", "silent"}
    /\ renamer'[a] \notin {"idle", "begin"}
    /\ renamer'[a] = "set" => renamer[a] = "begin"
    /\ renamer'[a] \in {"onOld", "onOriginal"} => renamer[a] \in {"set", "onOld"}
    /\ okToUnlockTable' \in [Attempts -> Nat]
    /\ \A b \in Attempts \ {a} : okToUnlockTable'[b] = okToUnlockTable[b]
    /\ \/ okToUnlockTable'[a] = okToUnlockTable[a]
       \/ /\ okToUnlockTable'[a] = okToUnlockTable[a] + 1
          /\ renamer'[a] \in {"done", "silent"}
    /\ tableRenameKnownToHaveFailed' \subseteq Attempts
    /\ \A b \in tableRenameKnownToHaveFailed' :
          \/ b \in tableRenameKnownToHaveFailed
          \/ b = a /\ renamer'[a] \in {"done", "silent"}
    /\ UNCHANGED <<current, old>> \/ RenameSucceeds(a)

\* Every step of AtomicCutoverRename, and of its RENAME, goes so.
LEMMA RenamerPlace ==
    ASSUME TypeOK, NEW a \in Attempts, Renamer(a) \/ Rename(a)
    PROVE  RenamerGoes(a)
<1>0. /\ renamer \in [Attempts -> RenamerPlaces]
      /\ okToUnlockTable \in [Attempts -> Nat]
      /\ tableRenameKnownToHaveFailed \subseteq Attempts
  BY Zenon DEF TypeOK
<1> USE DEF RenamerGoes, RenamerPlaces, tableVars
<1>1. CASE RenamerBeginFails(a)
  BY <1>1, <1>0 DEF RenamerBeginFails, GoTo
<1>2. CASE RenamerBegins(a)
  BY <1>2, <1>0 DEF RenamerBegins, GoTo
<1>3. CASE RenamerFails(a)
  BY <1>3, <1>0 DEF RenamerFails, RenamerReturns, GoTo
<1>4. CASE IssueRename(a)
  BY <1>4, <1>0 DEF IssueRename, GoTo
<1>5. CASE RenameKnownToHaveFailed(a)
  <2>1. /\ okToUnlockTable' \in [Attempts -> Nat]
        /\ okToUnlockTable'[a] = okToUnlockTable[a] + 1
        /\ \A b \in Attempts \ {a} : okToUnlockTable'[b] = okToUnlockTable[b]
    BY <1>5, <1>0 DEF RenameKnownToHaveFailed
  <2>2. /\ renamer' \in [Attempts -> RenamerPlaces]
        /\ \A b \in Attempts \ {a} : renamer'[b] = renamer[b]
        /\ renamer[a] \in {"failed", "unconnected"}
        /\ renamer'[a] \in {"done", "silent"}
    BY <1>5, <1>0 DEF RenameKnownToHaveFailed, GoTo
  <2> QED
    BY <1>5, <1>0, <2>1, <2>2 DEF RenameKnownToHaveFailed
<1>6. CASE RenameAdvances(a)
  BY <1>6, <1>0 DEF RenameAdvances, GoTo
<1>7. CASE RenameSucceeds(a)
  BY <1>7, <1>0 DEF RenameSucceeds, RenamerReturns, GoTo
<1>8. CASE RenameFails(a)
  BY <1>8, <1>0 DEF RenameFails, Renaming, RenamerReturns, GoTo
<1> QED
  BY <1>1, <1>2, <1>3, <1>4, <1>5, <1>6, <1>7, <1>8, Zenon DEF Renamer, Rename

\* To its channels.
RenamerTells(a) ==
    /\ renameSessionId' \in Channels /\ tablesRenamed' \in Channels
    /\ \A b \in Attempts \ {a} : renameSessionId'[b] = renameSessionId[b]
    /\ \A b \in Attempts \ {a} : tablesRenamed'[b] = tablesRenamed[b]
    /\ RenamerRoom(renamer'[a], Len(renameSessionId'[a]), Len(tablesRenamed'[a]))

\* Every step of AtomicCutoverRename leaves its channels so.
LEMMA RenamerChannels ==
    ASSUME TypeOK, RenamerChannelInv, NEW a \in Attempts, Renamer(a) \/ Rename(a)
    PROVE  RenamerTells(a)
<1>0. /\ renamer \in [Attempts -> RenamerPlaces]
      /\ renameSessionId \in Channels /\ tablesRenamed \in Channels
      /\ "ok" \in Messages /\ "err" \in Messages
  BY Zenon DEF TypeOK, Channels, Messages
<1>a. Len(renameSessionId[a]) \in Nat /\ Len(tablesRenamed[a]) \in Nat
  BY <1>0 DEF Channels
<1>b. RenamerRoom(renamer[a], Len(renameSessionId[a]), Len(tablesRenamed[a]))
  BY DEF RenamerChannelInv
<1> USE DEF RenamerTells, RenamerRoom, Longer
<1>1. CASE RenamerBeginFails(a)
  BY <1>1, <1>0, <1>a, <1>b DEF RenamerBeginFails, GoTo
<1>2. CASE RenamerBegins(a)
  BY <1>2, <1>0, <1>a, <1>b, Sending DEF RenamerBegins, GoTo
<1>3. CASE RenamerFails(a)
  <2>1. /\ renameSessionId' = Send(renameSessionId, a, "err")
        /\ tablesRenamed' = Deferred(tablesRenamed, a, << >>)
        /\ renamer[a] \in {"begin", "set"}
    BY <1>3 DEF RenamerFails, RenamerReturns, Deferred
  <2>2. renamer'[a] \in {"failed", "done"}
    BY <1>3, <1>0 DEF RenamerFails, RenamerReturns, GoTo
  <2>3. Longer(renameSessionId', renameSessionId, a, 1)
    BY <2>1, <1>0, Sending, Zenon
  <2>4. Longer(tablesRenamed', tablesRenamed, a, 1)
    BY <2>1, <1>0, Deferring, Zenon
  <2> QED
    BY <2>1, <2>2, <2>3, <2>4, <1>a, <1>b
<1>4. CASE IssueRename(a)
  BY <1>4, <1>0, <1>a, <1>b DEF IssueRename, GoTo
<1>5. CASE RenameKnownToHaveFailed(a)
  BY <1>5, <1>0, <1>a, <1>b DEF RenameKnownToHaveFailed, GoTo
<1>6. CASE RenameAdvances(a)
  BY <1>6, <1>0, <1>a, <1>b DEF RenameAdvances, GoTo
<1>7. CASE RenameSucceeds(a)
  <2>1. /\ renameSessionId' = Send(renameSessionId, a, "err")
        /\ tablesRenamed' = Deferred(tablesRenamed, a, <<"ok">>)
        /\ renamer[a] = "onOriginal"
    BY <1>7 DEF RenameSucceeds, RenamerReturns, Deferred
  <2>2. renamer'[a] \in {"failed", "done"}
    BY <1>7, <1>0 DEF RenameSucceeds, RenamerReturns, GoTo
  <2>3. Longer(renameSessionId', renameSessionId, a, 1)
    BY <2>1, <1>0, Sending, Zenon
  <2>4. Longer(tablesRenamed', tablesRenamed, a, 2)
    BY <2>1, <1>0, Deferring, Zenon
  <2> QED
    BY <2>1, <2>2, <2>3, <2>4, <1>a, <1>b
<1>8. CASE RenameFails(a)
  <2>1. /\ renameSessionId' = Send(renameSessionId, a, "err")
        /\ tablesRenamed' = Deferred(tablesRenamed, a, <<"err">>)
        /\ renamer[a] \in {"onOld", "onOriginal"}
    BY <1>8 DEF RenameFails, Renaming, RenamerReturns, Deferred
  <2>2. renamer'[a] \in {"failed", "done"}
    BY <1>8, <1>0 DEF RenameFails, RenamerReturns, GoTo
  <2>3. Longer(renameSessionId', renameSessionId, a, 1)
    BY <2>1, <1>0, Sending, Zenon
  <2>4. Longer(tablesRenamed', tablesRenamed, a, 2)
    BY <2>1, <1>0, Deferring, Zenon
  <2> QED
    BY <2>1, <2>2, <2>3, <2>4, <1>a, <1>b
<1> QED
  BY <1>1, <1>2, <1>3, <1>4, <1>5, <1>6, <1>7, <1>8 DEF Renamer, Rename

\* A renamer sends "ok" on tablesRenamed for a RENAME that went through only.
LEMMA RenamerErrors ==
    ASSUME NEW a \in Attempts, Renamer(a) \/ Rename(a), ~RenameSucceeds(a),
           tablesRenamed \in [Attempts -> Seq({"err"})]
    PROVE  tablesRenamed' \in [Attempts -> Seq({"err"})]
<1>1. tablesRenamed' \in {tablesRenamed, Deferred(tablesRenamed, a, << >>),
                          Deferred(tablesRenamed, a, <<"err">>)}
  BY DEF Renamer, Rename, RenamerBeginFails, RenamerBegins, RenamerFails, IssueRename,
     RenameKnownToHaveFailed, RenameAdvances, RenameFails, RenamerReturns, Deferred
<1> QED
  BY <1>1, Errors

-----------------------------------------------------------------------------
(* What the steps of the cut-over itself do: it goes one place ahead, or an     *)
(* attempt ends.                                                               *)

\* How an attempt ends: with success, with another attempt, or as the last one.
LEMMA Returned ==
    ASSUME attempt \in Attempts, NEW r, NEW n \in {0, 1}, Return(r, n)
    PROVE  \/ r = "ok" /\ main' = "succeeded" /\ attempt' = attempt
           \/ main' = "start" /\ attempt' = attempt + 1 /\ attempt' \in Attempts
           \/ main' = "failed" /\ attempt' = attempt
<1>1. CASE r = "ok"
  BY <1>1 DEF Return
<1>2. CASE r # "ok" /\ attempt < MaxAttempts
  <2>1. main' = "start" /\ attempt' = attempt + 1
    BY <1>2 DEF Return
  <2> QED
    BY <1>2, <2>1, AttemptsAssumption DEF Attempts
<1>3. CASE r # "ok" /\ ~(attempt < MaxAttempts)
  BY <1>3 DEF Return
<1> QED
  BY <1>1, <1>2, <1>3

\* okToUnlockTable after a return: the two sends of the attempt are made.
LEMMA UnlockReturn ==
    ASSUME TypeOK, UnlockInv, NEW r, NEW n \in {0, 1}, Return(r, n), UNCHANGED renamer,
           MainSends(attempt) + n + 1 <= 2
    PROVE  UnlockInv'
<1>0. attempt \in Attempts /\ okToUnlockTable \in [Attempts -> Nat]
  BY Zenon DEF TypeOK
<1>1. /\ attempt \in Attempts /\ okToUnlockTable \in [Attempts -> Nat]
      /\ attempt \in Nat /\ \A b \in Attempts : b \in Nat
  BY <1>0, AttemptsAssumption DEF Attempts
<1>2. /\ okToUnlockTable'[attempt] = okToUnlockTable[attempt] + n + 1
      /\ \A b \in Attempts \ {attempt} : okToUnlockTable'[b] = okToUnlockTable[b]
  BY <1>1 DEF Return
<1>3. \A b \in Attempts : RenamerSends(b)' = RenamerSends(b) /\ RenamerSends(b) \in Nat
  BY DEF RenamerSends
<1>4. MainSends(attempt) \in Nat
  BY <1>1 DEF MainSends
<1>5. ASSUME NEW b \in Attempts
      PROVE  okToUnlockTable'[b] <= MainSends(b)' + RenamerSends(b)'
  <2>1. okToUnlockTable[b] <= MainSends(b) + RenamerSends(b)
    BY DEF UnlockInv
  <2>2. CASE b = attempt
    <3>1. MainSends(b)' = 2
      BY <1>1, <2>2, Returned DEF MainSends
    <3> QED
      BY <1>1, <1>2, <1>3, <1>4, <2>1, <2>2, <3>1
  <2>3. CASE b # attempt
    <3>1. MainSends(b)' >= MainSends(b) /\ MainSends(b)' \in Nat /\ MainSends(b) \in Nat
      BY <1>1, <2>3, Returned DEF MainSends
    <3> QED
      BY <1>1, <1>2, <1>3, <2>1, <2>3, <3>1
  <2> QED
    BY <2>2, <2>3
<1> QED
  BY <1>5 DEF UnlockInv

\* One place ahead, or back out of the attempt.
Ahead ==
    /\ \/ main = "start" /\ main' = "locking"
       \/ main = "locking" /\ main' = "inject"
       \/ main = "inject" /\ main' = "events"
       \/ main = "events" /\ main' = "session"
       \/ main = "session" /\ main' = "expect"
       \/ main = "expect" /\ main' = "used"
       \/ main = "used" /\ main' = "unlocking"
       \/ main = "unlocking" /\ main' = "renamed"
    /\ attempt' = attempt
    /\ okToUnlockTable' = IF main = "used"
                             THEN [okToUnlockTable EXCEPT ![attempt] = @ + 1]
                             ELSE okToUnlockTable
Back ==
    /\ main \in {"locking", "inject", "events", "expect", "used", "unlocking", "renamed"}
    /\ \E r \in Messages, n \in {0, 1} : Return(r, n) /\ (n = 1 => main = "expect")
MainGoes ==
    /\ UNCHANGED <<tableVars, dead, tableRenameKnownToHaveFailed>>
    /\ locker' = IF main = "start" THEN GoTo(locker, attempt, "begin") ELSE locker
    /\ renamer' = IF main' = "session" THEN GoTo(renamer, attempt, "begin") ELSE renamer
    /\ sentinel' = IF main' = "events" THEN written ELSE sentinel
    /\ renameLockSessionId' \subseteq Attempts
    /\ Ahead \/ Back

\* Every step of atomicCutOver is one of the two.
LEMMA MainPlace ==
    ASSUME TypeOK, Main
    PROVE  MainGoes
<1>0. /\ attempt \in Attempts /\ renameLockSessionId \subseteq Attempts
      /\ tablesRenamed \in Channels /\ "err" \in Messages
  BY DEF TypeOK, Channels, Messages
<1>a. \A r \in Messages, n \in {0, 1} :
          Return(r, n) => main' \in {"succeeded", "start", "failed"}
  BY <1>0, Returned
<1> USE DEF MainGoes, Ahead, Back, tableVars, mainVars, lockerVars, renamerVars
<1>1. CASE StartAttempt
  BY <1>1, <1>0, <1>a DEF StartAttempt
<1>2. CASE ReceiveTableLocked
  BY <1>2, <1>0, <1>a DEF ReceiveTableLocked
<1>3. CASE InjectSentinel
  BY <1>3, <1>0, <1>a DEF InjectSentinel
<1>4. CASE EventsUpToLock
  BY <1>4, <1>0, <1>a DEF EventsUpToLock
<1>5. CASE EventsUpToLockFails
  BY <1>5, <1>0, <1>a DEF EventsUpToLockFails
<1>6. CASE ReceiveRenameSessionId
  BY <1>6, <1>0, <1>a DEF ReceiveRenameSessionId
<1>7. CASE RenameFound
  BY <1>7, <1>0, <1>a DEF RenameFound
<1>8. CASE RenameNotFound
  BY <1>8, <1>0, <1>a DEF RenameNotFound
<1>9. CASE ExpectUsedLock
  BY <1>9, <1>0, <1>a DEF ExpectUsedLock
<1>10. CASE LockNotUsed
  BY <1>10, <1>0, <1>a DEF LockNotUsed
<1>11. CASE ReceiveTableUnlocked
  BY <1>11, <1>0, <1>a DEF ReceiveTableUnlocked
<1>12. CASE ReceiveTablesRenamed
  BY <1>12, <1>0, <1>a, Receiving DEF ReceiveTablesRenamed
<1> QED
  BY <1>1, <1>2, <1>3, <1>4, <1>5, <1>6, <1>7, <1>8, <1>9, <1>10, <1>11, <1>12, Zenon
     DEF Main

\* What it relies on when it goes there.
MainKnows ==
    /\ main = "start" =>
          "lingers" \in Faults \/ \A a \in Attempts : locker[a] \in {"idle", "done"}
    /\ main' = "inject" => /\ tableLocked[attempt] # << >>
                           /\ Head(tableLocked[attempt]) = "ok"
    /\ main' = "session" => applied >= sentinel
    /\ main' = "expect" => renameSessionId[attempt] # << >>
    /\ main = "expect" => \/ renamer[attempt] # "set" \/ "slow" \in Faults
                          \/ attempt \in tableRenameKnownToHaveFailed
    /\ main' = "succeeded" => /\ tablesRenamed[attempt] # << >>
                              /\ Head(tablesRenamed[attempt]) = "ok"

\* No step of atomicCutOver goes on without it.
LEMMA MainGuards ==
    ASSUME TypeOK, Main
    PROVE  MainKnows
<1>0. attempt \in Attempts /\ "err" # "ok"
  BY DEF TypeOK
<1>a. \A r, n : Return(r, n) => \/ r = "ok" /\ main' = "succeeded"
                                \/ r # "ok" /\ main' \in {"start", "failed"}
  BY DEF Return
<1> USE DEF MainKnows
<1>1. CASE StartAttempt
  BY <1>1, <1>0, <1>a DEF StartAttempt
<1>2. CASE ReceiveTableLocked
  BY <1>2, <1>0, <1>a DEF ReceiveTableLocked
<1>3. CASE InjectSentinel
  BY <1>3, <1>0, <1>a DEF InjectSentinel
<1>4. CASE EventsUpToLock
  BY <1>4, <1>0, <1>a DEF EventsUpToLock
<1>5. CASE EventsUpToLockFails
  BY <1>5, <1>0, <1>a DEF EventsUpToLockFails
<1>6. CASE ReceiveRenameSessionId
  BY <1>6, <1>0, <1>a DEF ReceiveRenameSessionId
<1>7. CASE RenameFound
  BY <1>7, <1>0, <1>a DEF RenameFound, Renaming
<1>8. CASE RenameNotFound
  BY <1>8, <1>0, <1>a DEF RenameNotFound, Renaming
<1>9. CASE ExpectUsedLock
  BY <1>9, <1>0, <1>a DEF ExpectUsedLock
<1>10. CASE LockNotUsed
  BY <1>10, <1>0, <1>a DEF LockNotUsed
<1>11. CASE ReceiveTableUnlocked
  BY <1>11, <1>0, <1>a DEF ReceiveTableUnlocked
<1>12. CASE ReceiveTablesRenamed
  BY <1>12, <1>0, <1>a DEF ReceiveTablesRenamed
<1> QED
  BY <1>1, <1>2, <1>3, <1>4, <1>5, <1>6, <1>7, <1>8, <1>9, <1>10, <1>11, <1>12 DEF Main

\* It takes messages from the channels, and sends none on these four.
\* It only receives from the channels of its goroutines.
MainReceives ==
    /\ tableLocked' \in Channels /\ tableUnlocked' \in Channels
    /\ renameSessionId' \in Channels /\ tablesRenamed' \in Channels
    /\ \A a \in Attempts : /\ Len(tableLocked'[a]) <= Len(tableLocked[a])
                           /\ Len(tableUnlocked'[a]) <= Len(tableUnlocked[a])
                           /\ Len(renameSessionId'[a]) <= Len(renameSessionId[a])
                           /\ Len(tablesRenamed'[a]) <= Len(tablesRenamed[a])
    /\ main # "locking" => tableLocked' = tableLocked
    /\ tablesRenamed \in [Attempts -> Seq({"err"})] =>
          tablesRenamed' \in [Attempts -> Seq({"err"})]

\* Every step of atomicCutOver leaves the channels so.
LEMMA MainChannels ==
    ASSUME TypeOK, Main
    PROVE  MainReceives
<1>0. /\ tableLocked \in Channels /\ tableUnlocked \in Channels
      /\ renameSessionId \in Channels /\ tablesRenamed \in Channels
      /\ attempt \in Attempts
  BY DEF TypeOK, Channels
<1>a. \A a \in Attempts : /\ Len(tableLocked[a]) \in Nat /\ Len(tableUnlocked[a]) \in Nat
                          /\ Len(renameSessionId[a]) \in Nat
                          /\ Len(tablesRenamed[a]) \in Nat
  BY <1>0 DEF Channels
<1> USE DEF MainReceives, lockerVars, renamerVars
<1>1. CASE StartAttempt
  BY <1>1, <1>0, <1>a DEF StartAttempt
<1>2. CASE ReceiveTableLocked
  <2>1. /\ tableLocked[attempt] # << >> /\ tableLocked' = Received(tableLocked, attempt)
        /\ UNCHANGED <<tableUnlocked, renameSessionId, tablesRenamed>>
    BY <1>2 DEF ReceiveTableLocked, Received
  <2>2. /\ tableLocked' \in Channels
        /\ \A a \in Attempts : Len(tableLocked'[a]) <= Len(tableLocked[a])
    BY <2>1, <1>0, Receiving
  <2> QED
    BY <1>2, <2>1, <2>2, <1>0, <1>a DEF ReceiveTableLocked
<1>3. CASE InjectSentinel
  BY <1>3, <1>0, <1>a DEF InjectSentinel
<1>4. CASE EventsUpToLock
  BY <1>4, <1>0, <1>a DEF EventsUpToLock
<1>5. CASE EventsUpToLockFails
  BY <1>5, <1>0, <1>a DEF EventsUpToLockFails
<1>6. CASE ReceiveRenameSessionId
  <2>1. /\ renameSessionId[attempt] # << >>
        /\ renameSessionId' = Received(renameSessionId, attempt)
        /\ UNCHANGED <<tableLocked, tableUnlocked, tablesRenamed>>
    BY <1>6 DEF ReceiveRenameSessionId, Received
  <2>2. /\ renameSessionId' \in Channels
        /\ \A a \in Attempts : Len(renameSessionId'[a]) <= Len(renameSessionId[a])
    BY <2>1, <1>0, Receiving
  <2> QED
    BY <1>6, <2>1, <2>2, <1>0, <1>a DEF ReceiveRenameSessionId
<1>7. CASE RenameFound
  BY <1>7, <1>0, <1>a DEF RenameFound
<1>8. CASE RenameNotFound
  BY <1>8, <1>0, <1>a DEF RenameNotFound
<1>9. CASE ExpectUsedLock
  BY <1>9, <1>0, <1>a DEF ExpectUsedLock
<1>10. CASE LockNotUsed
  BY <1>10, <1>0, <1>a DEF LockNotUsed
<1>11. CASE ReceiveTableUnlocked
  <2>1. /\ tableUnlocked[attempt] # << >>
        /\ tableUnlocked' = Received(tableUnlocked, attempt)
        /\ UNCHANGED <<tableLocked, renameSessionId, tablesRenamed>>
    BY <1>11 DEF ReceiveTableUnlocked, Received
  <2>2. /\ tableUnlocked' \in Channels
        /\ \A a \in Attempts : Len(tableUnlocked'[a]) <= Len(tableUnlocked[a])
    BY <2>1, <1>0, Receiving
  <2> QED
    BY <1>11, <2>1, <2>2, <1>0, <1>a DEF ReceiveTableUnlocked
<1>12. CASE ReceiveTablesRenamed
  <2>1. /\ tablesRenamed[attempt] # << >>
        /\ tablesRenamed' = Received(tablesRenamed, attempt)
        /\ UNCHANGED <<tableLocked, tableUnlocked, renameSessionId>>
    BY <1>12 DEF ReceiveTablesRenamed, Received
  <2>2. /\ tablesRenamed' \in Channels
        /\ \A a \in Attempts : Len(tablesRenamed'[a]) <= Len(tablesRenamed[a])
    BY <2>1, <1>0, Receiving
  <2>3. tablesRenamed \in [Attempts -> Seq({"err"})] =>
           tablesRenamed' \in [Attempts -> Seq({"err"})]
    BY <2>1, <1>0, Errors
  <2> QED
    BY <2>1, <2>2, <2>3, <1>0, <1>a
<1> QED
  BY <1>1, <1>2, <1>3, <1>4, <1>5, <1>6, <1>7, <1>8, <1>9, <1>10, <1>11, <1>12 DEF Main

-----------------------------------------------------------------------------
(* Each invariant is kept by every step.                                       *)

\* Type correctness.
LEMMA TypeStep ==
    ASSUME TypeOK, LockerChannelInv, RenamerChannelInv, [Next]_vars
    PROVE  TypeOK'
<1> USE DEF tableVars, mainVars, lockerVars, renamerVars
<1>0. /\ attempt \in Attempts /\ okToUnlockTable \in [Attempts -> Nat]
      /\ locker \in [Attempts -> LockerPlaces]
      /\ renamer \in [Attempts -> RenamerPlaces]
      /\ written \in Nat /\ sentinel \in 0..written
  BY AttemptsAssumption DEF TypeOK
<1>1. CASE Write
  BY <1>1, AttemptsAssumption, SMTT(30) DEF Write, TypeOK
<1>2. CASE Apply
  BY <1>2, SMTT(30) DEF Apply, TypeOK
<1>3. CASE main # "exited" /\ Main
  <2>1. MainGoes /\ MainReceives
    BY <1>3, MainPlace, MainChannels
  <2>2. /\ main' \in MainPlaces /\ attempt' \in Attempts
        /\ okToUnlockTable' \in [Attempts -> Nat]
    <3>1. CASE Ahead
      BY <3>1, <1>0 DEF Ahead, MainPlaces
    <3>2. CASE Back
      <4>1. PICK r \in Messages, n \in {0, 1} : Return(r, n)
        BY <3>2 DEF Back
      <4>2. okToUnlockTable' = [okToUnlockTable EXCEPT ![attempt] = @ + n + 1]
        BY <4>1 DEF Return
      <4> QED
        BY <1>0, <4>1, <4>2, Returned DEF MainPlaces
    <3> QED
      BY <2>1, <3>1, <3>2 DEF MainGoes
  <2>3. /\ locker' \in [Attempts -> LockerPlaces]
        /\ renamer' \in [Attempts -> RenamerPlaces]
        /\ sentinel' \in 0..written
    BY <1>0, <2>1 DEF MainGoes, GoTo, LockerPlaces, RenamerPlaces
  <2> QED
    BY <2>1, <2>2, <2>3, Zenon DEF MainGoes, MainReceives, TypeOK, Channels
<1>4. ASSUME NEW a \in Attempts, main # "exited", Locker(a) PROVE TypeOK'
  <2>1. LockerGoes(a) /\ LockerSends(a)
    BY <1>4, LockerPlace, LockerChannels
  <2> QED
    BY <2>1, Zenon DEF LockerGoes, LockerSends, TypeOK, Channels
<1>5. ASSUME NEW a \in Attempts, Renamer(a) \/ Rename(a) PROVE TypeOK'
  <2>1. RenamerGoes(a) /\ RenamerTells(a)
    BY <1>5, RenamerPlace, RenamerChannels
  <2>2. current' \in {"original", "ghost"} /\ old' \in {"none", "sentry", "original"}
    BY <2>1, Zenon DEF RenamerGoes, RenameSucceeds, TypeOK
  <2> QED
    BY <2>1, <2>2, Zenon DEF RenamerGoes, RenamerTells, TypeOK, Channels
<1>6. ASSUME NEW a \in Attempts, main # "exited", LockSessionDies(a) PROVE TypeOK'
  BY <1>6 DEF LockSessionDies, TypeOK
<1>7. CASE ProcessExits
  BY <1>7 DEF ProcessExits, TypeOK, MainPlaces
<1>8. CASE UNCHANGED vars
  BY <1>8, SMTT(30) DEF vars, TypeOK
<1> QED
  BY <1>1, <1>2, <1>3, <1>4, <1>5, <1>6, <1>7, <1>8 DEF Next, Terminated

\* An attempt starts when the lockers before it have returned.
LEMMA AloneStep ==
    ASSUME "lingers" \notin Faults, TypeOK, Alone, [Next]_vars
    PROVE  Alone'
<1> USE DEF tableVars, mainVars, lockerVars, renamerVars
<1>0. attempt \in Attempts /\ attempt \in Nat /\ \A b \in Attempts : b \in Nat
  BY AttemptsAssumption DEF TypeOK, Attempts
<1>a. locker \in [Attempts -> LockerPlaces]
  BY DEF TypeOK
<1>1. CASE Write
  BY <1>1 DEF Write, Alone, Active
<1>2. CASE Apply
  BY <1>2 DEF Apply, Alone, Active
<1>3. CASE main # "exited" /\ Main
  <2>1. MainGoes /\ MainKnows
    BY <1>3, MainPlace, MainGuards
  <2>2. CASE main = "start"
    BY <1>0, <1>a, <2>1, <2>2 DEF MainGoes, MainKnows, GoTo, Alone, Active
  <2>3. CASE main # "start"
    BY <2>1, <2>3 DEF MainGoes, Alone, Active
  <2> QED
    BY <2>2, <2>3
<1>4. ASSUME NEW a \in Attempts, main # "exited", Locker(a) PROVE Alone'
  BY <1>4, LockerPlace DEF LockerGoes, Alone, Active
<1>5. ASSUME NEW a \in Attempts, Renamer(a) \/ Rename(a) PROVE Alone'
  BY <1>5, RenamerPlace DEF RenamerGoes, Alone, Active
<1>6. ASSUME NEW a \in Attempts, main # "exited", LockSessionDies(a) PROVE Alone'
  BY <1>6 DEF LockSessionDies, Alone, Active
<1>7. CASE ProcessExits
  BY <1>7 DEF ProcessExits, Alone, Active
<1>8. CASE UNCHANGED vars
  BY <1>8 DEF vars, Alone, Active
<1> QED
  BY <1>1, <1>2, <1>3, <1>4, <1>5, <1>6, <1>7, <1>8 DEF Next, Terminated

\* Only the locker at work drops or makes the sentry, and a RENAME finds none in its
\* way.
LEMMA SentryStep ==
    ASSUME TypeOK, Alone, SentryInv, [Next]_vars
    PROVE  SentryInv'
<1> USE DEF tableVars, mainVars, lockerVars, renamerVars
<1>0. attempt \in Attempts /\ attempt \in Nat /\ \A b \in Attempts : b \in Nat
  BY AttemptsAssumption DEF TypeOK, Attempts
<1>1. CASE Write
  BY <1>1 DEF Write, SentryInv
<1>2. CASE Apply
  BY <1>2 DEF Apply, SentryInv
<1>3. CASE main # "exited" /\ Main
  <2>1. MainGoes
    BY <1>3, MainPlace
  <2> QED
    BY <1>0, <2>1 DEF MainGoes, GoTo, SentryInv, TypeOK
<1>4. ASSUME NEW a \in Attempts, main # "exited", Locker(a) PROVE SentryInv'
  <2>1. LockerGoes(a) /\ LockerLocks(a)
    BY <1>4, LockerPlace, LockerTables
  <2>2. \A b \in Attempts \ {a} : ~Active(b)
    BY <2>1 DEF LockerGoes, Alone
  <2> QED
    BY <2>1, <2>2 DEF LockerGoes, LockerLocks, SentryPlaces, SentryInv, Active
<1>5. ASSUME NEW a \in Attempts, Renamer(a) \/ Rename(a) PROVE SentryInv'
  <2>1. RenamerGoes(a)
    BY <1>5, RenamerPlace
  <2> QED
    BY <2>1 DEF RenamerGoes, RenameSucceeds, SentryInv
<1>6. ASSUME NEW a \in Attempts, main # "exited", LockSessionDies(a) PROVE SentryInv'
  BY <1>6 DEF LockSessionDies, SentryInv
<1>7. CASE ProcessExits
  BY <1>7 DEF ProcessExits, SentryInv
<1>8. CASE UNCHANGED vars
  BY <1>8 DEF vars, SentryInv
<1> QED
  BY <1>1, <1>2, <1>3, <1>4, <1>5, <1>6, <1>7, <1>8 DEF Next, Terminated

\* The lock is released by the locker that has it, or with its session.
LEMMA LockStep ==
    ASSUME TypeOK, Alone, SentryInv, LockInv, [Next]_vars
    PROVE  LockInv'
<1> USE DEF tableVars, mainVars, lockerVars, renamerVars
<1>0. attempt \in Attempts /\ attempt \in Nat /\ \A b \in Attempts : b \in Nat
  BY AttemptsAssumption DEF TypeOK, Attempts
<1>1. CASE Write
  BY <1>1 DEF Write, LockInv
<1>2. CASE Apply
  BY <1>2 DEF Apply, LockInv
<1>3. CASE main # "exited" /\ Main
  <2>1. MainGoes
    BY <1>3, MainPlace
  <2> QED
    BY <1>3, <1>0, <2>1 DEF MainGoes, GoTo, LockInv, TypeOK
<1>4. ASSUME NEW a \in Attempts, main # "exited", Locker(a) PROVE LockInv'
  <2>1. LockerGoes(a) /\ LockerLocks(a)
    BY <1>4, LockerPlace, LockerTables
  <2>2. \A b \in Attempts \ {a} : ~Active(b)
    BY <2>1, SMTT(30) DEF LockerGoes, Alone
  <2> QED
    BY <1>4, <2>1, <2>2 DEF LockerGoes, LockerLocks, LockInv, Active
<1>5. ASSUME NEW a \in Attempts, Renamer(a) \/ Rename(a) PROVE LockInv'
  BY <1>5, RenamerPlace DEF RenamerGoes, LockInv
<1>6. ASSUME NEW a \in Attempts, main # "exited", LockSessionDies(a) PROVE LockInv'
  BY <1>6 DEF LockSessionDies, LockInv, Alone, Active
<1>7. CASE ProcessExits
  BY <1>7 DEF ProcessExits, LockInv
<1>8. CASE UNCHANGED vars
  BY <1>8 DEF vars, LockInv
<1> QED
  BY <1>1, <1>2, <1>3, <1>4, <1>5, <1>6, <1>7, <1>8 DEF Next, Terminated

\* The goroutines of an attempt are started by that attempt.
LEMMA FreshStep ==
    ASSUME TypeOK, FreshInv, [Next]_vars
    PROVE  FreshInv'
<1> USE DEF tableVars, mainVars, lockerVars, renamerVars
<1>0. attempt \in Attempts /\ attempt \in Nat /\ \A b \in Attempts : b \in Nat
  BY AttemptsAssumption DEF TypeOK, Attempts
<1>a. locker \in [Attempts -> LockerPlaces] /\ renamer \in [Attempts -> RenamerPlaces]
  BY DEF TypeOK
<1>1. CASE Write
  BY <1>1 DEF Write, FreshInv, Active
<1>2. CASE Apply
  BY <1>2 DEF Apply, FreshInv, Active
<1>3. CASE main # "exited" /\ Main
  <2>1. MainGoes
    BY <1>3, MainPlace
  <2>2. CASE Ahead
    BY <1>0, <1>a, <2>1, <2>2 DEF MainGoes, Ahead, GoTo, FreshInv
  <2>3. CASE Back
    <3>1.
          \/ main' \in {"succeeded", "failed"} /\ attempt' = attempt
          \/ main' = "start" /\ attempt' = attempt + 1 /\ attempt' \in Attempts
      BY <1>0, <2>3, Returned DEF Back
    <3>2. UNCHANGED <<locker, renamer>>
      BY <2>1, <2>3, <3>1 DEF MainGoes, Back
    <3> QED
      BY <1>0, <3>1, <3>2 DEF FreshInv
  <2> QED
    BY <2>1, <2>2, <2>3 DEF MainGoes
<1>4. ASSUME NEW a \in Attempts, main # "exited", Locker(a) PROVE FreshInv'
  <2>1. LockerGoes(a)
    BY <1>4, LockerPlace
  <2> QED
    BY <1>0, <2>1 DEF LockerGoes, FreshInv, Active
<1>5. ASSUME NEW a \in Attempts, Renamer(a) \/ Rename(a) PROVE FreshInv'
  <2>1. RenamerGoes(a)
    BY <1>5, RenamerPlace
  <2> QED
    BY <1>0, <2>1 DEF RenamerGoes, FreshInv
<1>6. ASSUME NEW a \in Attempts, main # "exited", LockSessionDies(a) PROVE FreshInv'
  BY <1>6 DEF LockSessionDies, FreshInv, Active
<1>7. CASE ProcessExits
  BY <1>7 DEF ProcessExits, FreshInv, Active
<1>8. CASE UNCHANGED vars
  BY <1>8 DEF vars, FreshInv, Active
<1> QED
  BY <1>1, <1>2, <1>3, <1>4, <1>5, <1>6, <1>7, <1>8 DEF Next, Terminated

\* A locker sends on each of its channels twice at most.
LEMMA LockerChannelStep ==
    ASSUME TypeOK, FreshInv, LockerChannelInv, [Next]_vars
    PROVE  LockerChannelInv'
<1> USE DEF tableVars, mainVars, lockerVars, renamerVars
<1>0. attempt \in Attempts /\ attempt \in Nat /\ \A b \in Attempts : b \in Nat
  BY AttemptsAssumption DEF TypeOK, Attempts
<1>a. /\ locker \in [Attempts -> LockerPlaces]
      /\ tableLocked \in Channels /\ tableUnlocked \in Channels
  BY DEF TypeOK, Channels
<1>1. CASE Write
  BY <1>1 DEF Write, LockerChannelInv
<1>2. CASE Apply
  BY <1>2 DEF Apply, LockerChannelInv
<1>3. CASE main # "exited" /\ Main
  <2>1. MainGoes /\ MainReceives
    BY <1>3, MainPlace, MainChannels
  <2> SUFFICES ASSUME NEW b \in Attempts
               PROVE  LockerRoom(locker[b], Len(tableLocked[b]), Len(tableUnlocked[b]))'
    BY DEF LockerChannelInv
  <2>2. locker'[b] = locker[b] \/ (locker[b] = "idle" /\ locker'[b] = "begin")
    BY <1>0, <1>a, <2>1 DEF MainGoes, GoTo, FreshInv
  <2>3. /\ Len(tableLocked[b]) \in Nat /\ Len(tableUnlocked[b]) \in Nat
        /\ Len(tableLocked'[b]) \in Nat /\ Len(tableUnlocked'[b]) \in Nat
        /\ Len(tableLocked'[b]) <= Len(tableLocked[b])
        /\ Len(tableUnlocked'[b]) <= Len(tableUnlocked[b])
    BY <1>a, <2>1, SMTT(30) DEF MainReceives, Channels
  <2> QED
    BY <2>2, <2>3 DEF LockerChannelInv, LockerRoom
<1>4. ASSUME NEW a \in Attempts, main # "exited", Locker(a) PROVE LockerChannelInv'
  <2>1. LockerGoes(a) /\ LockerSends(a)
    BY <1>4, LockerPlace, LockerChannels
  <2> QED
    BY <2>1, SMTT(30) DEF LockerGoes, LockerSends, LockerChannelInv
<1>5. ASSUME NEW a \in Attempts, Renamer(a) \/ Rename(a) PROVE LockerChannelInv'
  BY <1>5, RenamerPlace, Zenon DEF RenamerGoes, LockerChannelInv
<1>6. ASSUME NEW a \in Attempts, main # "exited", LockSessionDies(a)
      PROVE  LockerChannelInv'
  BY <1>6 DEF LockSessionDies, LockerChannelInv
<1>7. CASE ProcessExits
  BY <1>7 DEF ProcessExits, LockerChannelInv
<1>8. CASE UNCHANGED vars
  BY <1>8 DEF vars, LockerChannelInv
<1> QED
  BY <1>1, <1>2, <1>3, <1>4, <1>5, <1>6, <1>7, <1>8 DEF Next, Terminated

\* A renamer sends on each of its channels twice at most.
LEMMA RenamerChannelStep ==
    ASSUME TypeOK, FreshInv, RenamerChannelInv, [Next]_vars
    PROVE  RenamerChannelInv'
<1> USE DEF tableVars, mainVars, lockerVars, renamerVars
<1>0. attempt \in Attempts /\ attempt \in Nat /\ \A b \in Attempts : b \in Nat
  BY AttemptsAssumption DEF TypeOK, Attempts
<1>a. /\ renamer \in [Attempts -> RenamerPlaces]
      /\ renameSessionId \in Channels /\ tablesRenamed \in Channels
  BY DEF TypeOK, Channels
<1>1. CASE Write
  BY <1>1 DEF Write, RenamerChannelInv
<1>2. CASE Apply
  BY <1>2 DEF Apply, RenamerChannelInv
<1>3. CASE main # "exited" /\ Main
  <2>1. MainGoes /\ MainReceives
    BY <1>3, MainPlace, MainChannels
  <2> SUFFICES ASSUME NEW b \in Attempts
               PROVE  RenamerRoom(renamer[b], Len(renameSessionId[b]), Len(tablesRenamed[b]))'
    BY DEF RenamerChannelInv
  <2>2. renamer'[b] = renamer[b] \/ (renamer[b] = "idle" /\ renamer'[b] = "begin")
    <3>1. main' = "session" => main = "events"
      BY <1>0, <2>1, Returned DEF MainGoes, Ahead, Back
    <3> QED
      BY <1>0, <1>a, <2>1, <3>1 DEF MainGoes, GoTo, FreshInv
  <2>3. /\ Len(renameSessionId[b]) \in Nat /\ Len(tablesRenamed[b]) \in Nat
        /\ Len(renameSessionId'[b]) \in Nat /\ Len(tablesRenamed'[b]) \in Nat
        /\ Len(renameSessionId'[b]) <= Len(renameSessionId[b])
        /\ Len(tablesRenamed'[b]) <= Len(tablesRenamed[b])
    BY <1>a, <2>1 DEF MainReceives, Channels
  <2> QED
    BY <2>2, <2>3 DEF RenamerChannelInv, RenamerRoom
<1>4. ASSUME NEW a \in Attempts, main # "exited", Locker(a) PROVE RenamerChannelInv'
  BY <1>4, LockerPlace, Zenon DEF LockerGoes, RenamerChannelInv
<1>5. ASSUME NEW a \in Attempts, Renamer(a) \/ Rename(a) PROVE RenamerChannelInv'
  <2>1. RenamerGoes(a) /\ RenamerTells(a)
    BY <1>5, RenamerPlace, RenamerChannels
  <2> QED
    BY <2>1, Zenon DEF RenamerGoes, RenamerTells, RenamerChannelInv
<1>6. ASSUME NEW a \in Attempts, main # "exited", LockSessionDies(a)
      PROVE  RenamerChannelInv'
  BY <1>6 DEF LockSessionDies, RenamerChannelInv
<1>7. CASE ProcessExits
  BY <1>7 DEF ProcessExits, RenamerChannelInv
<1>8. CASE UNCHANGED vars
  BY <1>8 DEF vars, RenamerChannelInv
<1> QED
  BY <1>1, <1>2, <1>3, <1>4, <1>5, <1>6, <1>7, <1>8 DEF Next, Terminated

\* The cut-over sends on okToUnlockTable twice an attempt, and the renamer once.
LEMMA UnlockStep ==
    ASSUME TypeOK, FreshInv, UnlockInv, [Next]_vars
    PROVE  UnlockInv'
<1> USE DEF tableVars, mainVars, lockerVars, renamerVars
<1>0. attempt \in Attempts /\ attempt \in Nat /\ \A b \in Attempts : b \in Nat
  BY AttemptsAssumption DEF TypeOK, Attempts
<1>a. okToUnlockTable \in [Attempts -> Nat] /\ renamer \in [Attempts -> RenamerPlaces]
  BY DEF TypeOK
<1>1. CASE Write
  BY <1>1 DEF Write, UnlockInv, MainSends, RenamerSends
<1>2. CASE Apply
  BY <1>2 DEF Apply, UnlockInv, MainSends, RenamerSends
<1>3. CASE main # "exited" /\ Main
  <2>1. MainGoes
    BY <1>3, MainPlace
  <2>2. CASE Ahead
    <3>1. \A b \in Attempts : RenamerSends(b)' = RenamerSends(b)
      BY <1>0, <1>a, <2>1, <2>2 DEF MainGoes, Ahead, RenamerSends, GoTo, FreshInv
    <3> QED
      BY <1>0, <1>a, <2>2, <3>1 DEF Ahead, UnlockInv, MainSends, RenamerSends
  <2>3. CASE Back
    <3>1. PICK r \in Messages, n \in {0, 1} : Return(r, n) /\ (n = 1 => main = "expect")
      BY <2>3 DEF Back
    <3>2. MainSends(attempt) + n + 1 <= 2
      BY <1>0, <2>3, <3>1 DEF Back, MainSends
    <3>3. UNCHANGED renamer
      BY <1>0, <2>1, <3>1, Returned DEF MainGoes
    <3> QED
      BY <3>1, <3>2, <3>3, UnlockReturn
  <2> QED
    BY <2>1, <2>2, <2>3 DEF MainGoes
<1>4. ASSUME NEW a \in Attempts, main # "exited", Locker(a) PROVE UnlockInv'
  <2>1. LockerGoes(a)
    BY <1>4, LockerPlace
  <2>2. \A b \in Attempts :
            MainSends(b)' = MainSends(b) /\ RenamerSends(b)' = RenamerSends(b)
    BY <2>1 DEF LockerGoes, MainSends, RenamerSends
  <2>3. \A b \in Attempts : MainSends(b) + RenamerSends(b) \in Nat
    BY DEF MainSends, RenamerSends
  <2> QED
    BY <1>a, <2>1, <2>2, <2>3 DEF LockerGoes, UnlockInv
<1>5. ASSUME NEW a \in Attempts, Renamer(a) \/ Rename(a) PROVE UnlockInv'
  <2>1. RenamerGoes(a)
    BY <1>5, RenamerPlace
  <2>2. \A b \in Attempts : MainSends(b)' = MainSends(b) /\ MainSends(b) \in Nat
    BY <2>1 DEF RenamerGoes, MainSends
  <2>3. /\ RenamerSends(a) = 0 /\ RenamerSends(a)' \in Nat
        /\ \A b \in Attempts \ {a} : RenamerSends(b)' = RenamerSends(b)
        /\ renamer'[a] \in {"done", "silent"} => RenamerSends(a)' = 1
    BY <2>1 DEF RenamerGoes, RenamerSends
  <2> QED
    BY <1>a, <2>1, <2>2, <2>3 DEF RenamerGoes, UnlockInv
<1>6. ASSUME NEW a \in Attempts, main # "exited", LockSessionDies(a) PROVE UnlockInv'
  BY <1>6 DEF LockSessionDies, UnlockInv, MainSends, RenamerSends
<1>7. CASE ProcessExits
  BY <1>7, <1>0, <1>a DEF ProcessExits, UnlockInv, MainSends, RenamerSends
<1>8. CASE UNCHANGED vars
  BY <1>8 DEF vars, UnlockInv, MainSends, RenamerSends
<1> QED
  BY <1>1, <1>2, <1>3, <1>4, <1>5, <1>6, <1>7, <1>8 DEF Next, Terminated

\* The locker is not told to unlock before the RENAME is issued.
LEMMA HoldingStep ==
    ASSUME TypeOK, Alone, SentryInv, FreshInv, UnlockInv, LockerChannelInv, HoldingInv,
           [Next]_vars
    PROVE  HoldingInv'
<1> USE DEF tableVars, mainVars, lockerVars, renamerVars
<1>0. attempt \in Attempts /\ attempt \in Nat /\ \A b \in Attempts : b \in Nat
  BY AttemptsAssumption DEF TypeOK, Attempts
<1>a. /\ locker \in [Attempts -> LockerPlaces] /\ okToUnlockTable \in [Attempts -> Nat]
      /\ tableLocked \in [Attempts -> Seq(Messages)]
  BY Zenon DEF TypeOK
<1>1. CASE Write
  BY <1>1 DEF Write, HoldingInv
<1>2. CASE Apply
  BY <1>2 DEF Apply, HoldingInv
<1>3. CASE main # "exited" /\ Main
  <2>1. MainGoes /\ MainKnows /\ MainReceives
    BY <1>3, MainPlace, MainGuards, MainChannels
  <2>2. CASE main = "start"
    <3>1. main' = "locking" /\ attempt' = attempt /\ tableLocked' = tableLocked
      BY <2>1, <2>2 DEF MainGoes, MainReceives, Ahead, Back
    <3>2. Len(tableLocked[attempt]) = 0
      BY <1>0, <2>2 DEF FreshInv, LockerChannelInv, LockerRoom
    <3>3. tableLocked[attempt] \in Seq({"err"})
      BY <1>0, <1>a, <3>2
    <3>4. locker'[attempt] = "begin"
      BY <1>0, <1>a, <2>1, <2>2, SMTT(30) DEF MainGoes, GoTo
    <3> QED
      BY <3>1, <3>3, <3>4 DEF HoldingInv
  <2>3. CASE main # "start" /\ Ahead
    <3>1. attempt' = attempt /\ locker' = locker /\ UNCHANGED <<holder, written>>
      BY <2>1, <2>3, SMTT(30) DEF MainGoes, Ahead
    <3>2. main' = "inject" => main = "locking" /\ locker[attempt] = "holding"
      BY <2>1, <2>3 DEF MainKnows, Ahead, HoldingInv
    <3> QED
      BY <2>1, <2>3, <3>1, <3>2, Zenon DEF MainGoes, Ahead, HoldingInv
  <2>4. CASE Back
    BY <1>0, <2>4, Returned DEF Back, HoldingInv
  <2> QED
    BY <2>1, <2>2, <2>3, <2>4 DEF MainGoes
<1>4. ASSUME NEW a \in Attempts, main # "exited", Locker(a) PROVE HoldingInv'
  <2>1. LockerGoes(a) /\ LockerLocks(a) /\ LockerSends(a)
    BY <1>4, LockerPlace, LockerTables, LockerChannels
  <2>2. CASE a = attempt
    <3>1. main \in {"locking", "inject", "events"} => okToUnlockTable[a] = 0
      BY <1>0, <1>a, <2>2 DEF UnlockInv, MainSends, RenamerSends, FreshInv
    <3>2. main \in {"locking", "inject", "events"} => locker[a] # "holding"
      BY <2>1, <3>1 DEF LockerGoes
    <3>3. main = "locking" /\ locker'[a] # "holding" => tableLocked'[a] \in Seq({"err"})
      BY <1>4, <2>2, <3>2, LockerErrors, SMTT(30) DEF HoldingInv
    <3> QED
      BY <2>1, <2>2, <3>2, <3>3 DEF LockerGoes, HoldingInv
  <2>3. CASE a # attempt
    <3>1. main = "events" => holder' \in {holder, 0}
      BY <1>0, <2>1, <2>3, SMTT(30)
         DEF LockerGoes, LockerLocks, HoldingInv, Alone, Active
    <3> QED
      BY <1>0, <2>1, <2>3, <3>1, SMTT(30) DEF LockerGoes, LockerSends, HoldingInv
  <2> QED
    BY <2>2, <2>3
<1>5. ASSUME NEW a \in Attempts, Renamer(a) \/ Rename(a) PROVE HoldingInv'
  BY <1>5, RenamerPlace, Zenon DEF RenamerGoes, HoldingInv
<1>6. ASSUME NEW a \in Attempts, main # "exited", LockSessionDies(a) PROVE HoldingInv'
  BY <1>6 DEF LockSessionDies, HoldingInv
<1>7. CASE ProcessExits
  BY <1>7 DEF ProcessExits, HoldingInv
<1>8. CASE UNCHANGED vars
  BY <1>8 DEF vars, HoldingInv
<1> QED
  BY <1>1, <1>2, <1>3, <1>4, <1>5, <1>6, <1>7, <1>8 DEF Next, Terminated

\* No attempt gives up on a renamer that has yet to issue its RENAME.
LEMMA RenamerStep ==
    ASSUME Prompt, TypeOK, Alone, SentryInv, FreshInv, UnlockInv, RenamerChannelInv,
           HoldingInv, RenamerInv, [Next]_vars
    PROVE  RenamerInv'
<1> USE DEF tableVars, mainVars, lockerVars, renamerVars
<1>0. attempt \in Attempts /\ attempt \in Nat /\ \A b \in Attempts : b \in Nat
  BY AttemptsAssumption DEF TypeOK, Attempts
<1>a. /\ renamer \in [Attempts -> RenamerPlaces]
      /\ locker \in [Attempts -> LockerPlaces]
      /\ okToUnlockTable \in [Attempts -> Nat] /\ written \in Nat
      /\ applied \in 0..written
      /\ sentinel \in Nat /\ renameSessionId \in [Attempts -> Seq(Messages)]
  BY DEF TypeOK
<1>1. CASE Write
  BY <1>1 DEF Write, RenamerInv
<1>2. CASE Apply
  BY <1>2, <1>a DEF Apply, RenamerInv
<1>3. CASE main # "exited" /\ Main
  <2>1. MainGoes /\ MainKnows
    BY <1>3, MainPlace, MainGuards, Zenon
  <2>2. CASE main = "events" /\ main' = "session"
    <3>1. attempt' = attempt /\ UNCHANGED <<locker, holder, applied, written>>
      BY <1>0, <2>1, <2>2, Returned, SMTT(30) DEF MainGoes, Ahead, Back
    <3>2. holder # 0 => applied = written
      BY <1>a, <2>1, <2>2 DEF MainKnows, HoldingInv
    <3>3. renamer' = [renamer EXCEPT ![attempt] = "begin"]
      BY <2>1, <2>2 DEF MainGoes, GoTo
    <3> QED
      BY <1>0, <1>a, <2>1, <2>2, <3>1, <3>2, <3>3, SMTT(30)
         DEF MainGoes, HoldingInv, FreshInv, RenamerInv
  <2>3. CASE main \in {"session", "expect"}
    <3>1. main = "session" =>
              main' = "expect" /\ renamer[attempt] # "begin" /\ attempt' = attempt
      BY <1>0, <1>a, <2>1, <2>3, SMTT(30)
         DEF MainGoes, MainKnows, Ahead, Back, RenamerChannelInv, RenamerRoom
    <3>2. main = "expect" => renamer[attempt] \notin {"begin", "set"}
      BY <1>0, <2>1 DEF MainKnows, RenamerInv, Prompt
    <3>3. UNCHANGED <<renamer, locker, holder, applied, written,
                      tableRenameKnownToHaveFailed>>
      BY <1>0, <2>1, <2>3, Returned DEF MainGoes, Ahead, Back
    <3> QED
      BY <2>3, <3>1, <3>2, <3>3, SMTT(30) DEF RenamerInv
  <2>4. CASE ~(main = "events" /\ main' = "session") /\ main \notin {"session", "expect"}
    <3>1. UNCHANGED <<renamer, tableRenameKnownToHaveFailed>>
      BY <1>0, <2>1, <2>4, Returned, SMTT(30) DEF MainGoes, Ahead, Back
    <3> QED
      BY <1>3, <2>4, <3>1 DEF RenamerInv
  <2> QED
    BY <2>2, <2>3, <2>4
<1>4. ASSUME NEW a \in Attempts, main # "exited", Locker(a) PROVE RenamerInv'
  <2>1. LockerGoes(a) /\ LockerLocks(a)
    BY <1>4, LockerPlace, LockerTables
  <2> SUFFICES ASSUME NEW b \in Attempts, renamer[b] \in {"begin", "set"}
               PROVE  /\ locker'[b] = "holding"
                      /\ holder' # 0 => applied = written
    BY <2>1 DEF LockerGoes, RenamerInv
  <2>2. locker[b] = "holding" /\ okToUnlockTable[b] = 0
    <3>1. b = attempt /\ main \in {"session", "expect"} /\ locker[b] = "holding"
      BY <1>4, Zenon DEF RenamerInv
    <3>2. MainSends(b) = 0 /\ RenamerSends(b) = 0
      BY <1>0, <3>1 DEF MainSends, RenamerSends
    <3> QED
      BY <1>a, <3>1, <3>2, SMTT(30) DEF UnlockInv
  <2>3. a # b
    BY <2>1, <2>2 DEF LockerGoes
  <2>4. holder' \in {holder, 0}
    BY <2>1, <2>2, <2>3, SMTT(30) DEF LockerGoes, LockerLocks, Alone, Active
  <2> QED
    BY <2>1, <2>2, <2>3, <2>4 DEF LockerGoes, RenamerInv
<1>5. ASSUME NEW a \in Attempts, Renamer(a) \/ Rename(a) PROVE RenamerInv'
  <2>1. RenamerGoes(a)
    BY <1>5, RenamerPlace
  <2> QED
    BY <2>1, Zenon DEF RenamerGoes, RenamerInv
<1>6. ASSUME NEW a \in Attempts, main # "exited", LockSessionDies(a) PROVE RenamerInv'
  BY <1>6 DEF LockSessionDies, RenamerInv
<1>7. CASE ProcessExits
  BY <1>7 DEF ProcessExits, RenamerInv
<1>8. CASE UNCHANGED vars
  BY <1>8 DEF vars, RenamerInv
<1> QED
  BY <1>1, <1>2, <1>3, <1>4, <1>5, <1>6, <1>7, <1>8 DEF Next, Terminated

\* Nothing is written once a RENAME that the sentry does not hold up waits.
LEMMA PendingStep ==
    ASSUME Prompt, TypeOK, SentryInv, LockInv, RenamerInv, PendingInv, [Next]_vars
    PROVE  PendingInv'
<1> USE DEF tableVars, mainVars, lockerVars, renamerVars
<1>0. attempt \in Attempts /\ attempt \in Nat /\ \A b \in Attempts : b \in Nat
  BY AttemptsAssumption DEF TypeOK, Attempts
<1>a. renamer \in [Attempts -> RenamerPlaces] /\ written \in Nat /\ applied \in 0..written
  BY DEF TypeOK
<1>1. CASE Write
  BY <1>1, <1>a DEF Write, Queued, PendingInv, Prompt
<1>2. CASE Apply
  BY <1>2, <1>a DEF Apply, PendingInv
<1>3. CASE main # "exited" /\ Main
  <2>1. MainGoes
    BY <1>3, MainPlace
  <2> QED
    BY <1>0, <1>a, <2>1 DEF MainGoes, GoTo, PendingInv
<1>4. ASSUME NEW a \in Attempts, main # "exited", Locker(a) PROVE PendingInv'
  <2>1. LockerGoes(a) /\ LockerLocks(a)
    BY <1>4, LockerPlace, LockerTables
  <2>2. locker[a] = "dropping" /\ a \notin dead => holder # 0
    BY <1>4, <1>0, SMTT(30) DEF LockInv, Attempts
  <2> QED
    BY <2>1, <2>2 DEF LockerGoes, LockerLocks, PendingInv, Renaming
<1>5. ASSUME NEW a \in Attempts, Renamer(a) \/ Rename(a) PROVE PendingInv'
  <2>1. RenamerGoes(a)
    BY <1>5, RenamerPlace
  <2>2. old' = "none" => old = "none"
    BY <2>1 DEF RenamerGoes, RenameSucceeds
  <2>3. renamer[a] = "set" => old = "sentry" /\ (holder # 0 => applied = written)
    BY DEF RenamerInv, SentryInv
  <2> QED
    BY <2>1, <2>2, <2>3, Zenon DEF RenamerGoes, PendingInv
<1>6. ASSUME NEW a \in Attempts, main # "exited", LockSessionDies(a) PROVE PendingInv'
  BY <1>6 DEF LockSessionDies, PendingInv
<1>7. CASE ProcessExits
  BY <1>7 DEF ProcessExits, PendingInv
<1>8. CASE UNCHANGED vars
  BY <1>8 DEF vars, PendingInv
<1> QED
  BY <1>1, <1>2, <1>3, <1>4, <1>5, <1>6, <1>7, <1>8 DEF Next, Terminated

\* A renamer sends ok after its RENAME only.
LEMMA RenamedStep ==
    ASSUME TypeOK, RenamedInv, [Next]_vars
    PROVE  RenamedInv'
<1> USE DEF tableVars, mainVars, lockerVars, renamerVars
<1>0. attempt \in Attempts /\ attempt \in Nat /\ \A b \in Attempts : b \in Nat
  BY AttemptsAssumption DEF TypeOK, Attempts
<1>1. CASE Write
  BY <1>1 DEF Write, RenamedInv
<1>2. CASE Apply
  BY <1>2 DEF Apply, RenamedInv
<1>3. CASE main # "exited" /\ Main
  <2>1. MainGoes /\ MainKnows /\ MainReceives
    BY <1>3, MainPlace, MainGuards, MainChannels
  <2>2. current = "original" => main' # "succeeded"
    BY <1>0, <2>1, Errors DEF MainKnows, RenamedInv
  <2> QED
    BY <2>1, <2>2 DEF MainGoes, MainReceives, RenamedInv, TypeOK
<1>4. ASSUME NEW a \in Attempts, main # "exited", Locker(a) PROVE RenamedInv'
  BY <1>4, LockerPlace DEF LockerGoes, RenamedInv
<1>5. ASSUME NEW a \in Attempts, Renamer(a) \/ Rename(a) PROVE RenamedInv'
  <2>1. RenamerGoes(a)
    BY <1>5, RenamerPlace
  <2>2. CASE RenameSucceeds(a)
    BY <2>2, SMTT(30) DEF RenameSucceeds, RenamedInv
  <2>3. CASE ~RenameSucceeds(a)
    BY <1>5, <2>1, <2>3, RenamerErrors, Zenon DEF RenamerGoes, RenamedInv
  <2> QED
    BY <2>2, <2>3
<1>6. ASSUME NEW a \in Attempts, main # "exited", LockSessionDies(a) PROVE RenamedInv'
  BY <1>6 DEF LockSessionDies, RenamedInv
<1>7. CASE ProcessExits
  BY <1>7 DEF ProcessExits, RenamedInv
<1>8. CASE UNCHANGED vars
  BY <1>8 DEF vars, RenamedInv
<1> QED
  BY <1>1, <1>2, <1>3, <1>4, <1>5, <1>6, <1>7, <1>8 DEF Next, Terminated

-----------------------------------------------------------------------------
\* The invariant holds before the first attempt.
LEMMA InitInv == Init => IndInv
<1> SUFFICES ASSUME Init PROVE IndInv
  OBVIOUS
<1> USE AttemptsAssumption DEF Init
<1>1. attempt \in Attempts /\ attempt = 1
  BY DEF Attempts
<1>2. TypeOK
  BY <1>1 DEF TypeOK, MainPlaces, LockerPlaces, RenamerPlaces, Messages
<1>3. Alone /\ SentryInv /\ LockInv /\ FreshInv /\ HoldingInv
  BY <1>1 DEF Alone, Active, SentryInv, LockInv, FreshInv, HoldingInv
<1>4. RenamerInv /\ PendingInv /\ RenamedInv
  BY <1>1 DEF RenamerInv, PendingInv, RenamedInv
<1>5. UnlockInv
  BY <1>1 DEF UnlockInv, MainSends, RenamerSends, Attempts
<1>6. LockerChannelInv /\ RenamerChannelInv
  BY DEF LockerChannelInv, LockerRoom, RenamerChannelInv, RenamerRoom
<1> QED
  BY <1>2, <1>3, <1>4, <1>5, <1>6 DEF IndInv

\* Every step of the cut-over is a step of TableSwap, or none: a RENAME that goes
\* through finds every write applied.
LEMMA SwapStep ==
    ASSUME TypeOK, PendingInv, [Next]_vars
    PROVE  [SwapSpec!Next]_(SwapSpec!vars)
<1> USE DEF SwapSpec!Next, SwapSpec!vars, tableVars, mainVars, lockerVars, renamerVars
<1>1. CASE Write
  BY <1>1 DEF Write, SwapSpec!Write
<1>2. CASE Apply
  BY <1>2 DEF Apply, SwapSpec!Apply
<1>3. CASE Main
  BY <1>3, MainPlace DEF MainGoes
<1>4. ASSUME NEW a \in Attempts, Locker(a) PROVE UNCHANGED SwapSpec!vars
  BY <1>4, LockerPlace DEF LockerGoes
<1>5. ASSUME NEW a \in Attempts, Renamer(a) \/ Rename(a)
      PROVE  [SwapSpec!Next]_(SwapSpec!vars)
  <2>1. CASE RenameSucceeds(a)
    BY <2>1, SMTT(30) DEF RenameSucceeds, PendingInv, SwapSpec!Swap
  <2>2. CASE ~RenameSucceeds(a)
    BY <1>5, <2>2, RenamerPlace DEF RenamerGoes
  <2> QED
    BY <2>1, <2>2
<1>6. ASSUME NEW a \in Attempts, LockSessionDies(a) PROVE UNCHANGED SwapSpec!vars
  BY <1>6 DEF LockSessionDies
<1>7. CASE ProcessExits
  BY <1>7 DEF ProcessExits
<1>8. CASE UNCHANGED vars
  BY <1>8 DEF vars
<1> QED
  BY <1>1, <1>2, <1>3, <1>4, <1>5, <1>6, <1>7, <1>8 DEF Next, Terminated

\* A statement that drops or creates a table in the old table's place finds a sentry
\* there, or nothing.
LEMMA KeepStep ==
    ASSUME TypeOK, SentryInv, [Next]_vars, old = "original"
    PROVE  old' = "original"
<1> USE DEF tableVars, mainVars, lockerVars, renamerVars
<1>1. ASSUME NEW a \in Attempts, Locker(a) PROVE old' = "original"
  BY <1>1, LockerTables DEF LockerLocks
<1>2. ASSUME NEW a \in Attempts, Renamer(a) \/ Rename(a) PROVE old' = "original"
  BY <1>2, RenamerPlace DEF RenamerGoes, RenameSucceeds
<1>3. CASE Main
  BY <1>3, MainPlace DEF MainGoes
<1>4. ASSUME NEW a \in Attempts, LockSessionDies(a) PROVE old' = "original"
  BY <1>4 DEF LockSessionDies
<1>5. CASE Write \/ Apply \/ ProcessExits \/ UNCHANGED vars
  BY <1>5 DEF Write, Apply, ProcessExits, vars
<1> QED
  BY <1>1, <1>2, <1>3, <1>4, <1>5 DEF Next, Terminated

-----------------------------------------------------------------------------
\* What holds of the channels and of the types whatever goes wrong and however slow
\* the goroutines are: the part of the invariant that does not need Prompt.
ChannelInv ==
    /\ TypeOK /\ FreshInv /\ RenamedInv
    /\ UnlockInv /\ LockerChannelInv /\ RenamerChannelInv

\* It holds before the first attempt.
LEMMA ChannelInit == Init => ChannelInv
  BY InitInv DEF ChannelInv, IndInv

\* It is inductive by itself.
LEMMA ChannelStep == ChannelInv /\ [Next]_vars => ChannelInv'
  BY TypeStep, FreshStep, RenamedStep, UnlockStep, LockerChannelStep,
     RenamerChannelStep DEF ChannelInv

\* Type correctness, with any fault.
THEOREM TypeCorrect == Spec => []TypeOK
<1>1. ChannelInv => TypeOK
  BY DEF ChannelInv
<1> QED
  BY <1>1, ChannelInit, ChannelStep, PTL DEF Spec

\* atomicCutOver reports success only of a swap, with any fault and however slow its
\* goroutines: an "ok" of the renamer is never that of a RENAME that failed.
THEOREM SuccessIsSwap == Spec => []SuccessMeansSwapped
<1>1. ChannelInv => SuccessMeansSwapped
  BY ZenonT(30) DEF ChannelInv, RenamedInv, SuccessMeansSwapped
<1> QED
  BY <1>1, ChannelInit, ChannelStep, PTL DEF Spec

\* No send of the goroutines on their channels blocks, with any fault.
THEOREM Room == Spec => []ChannelsHaveRoom
<1>1. ChannelInv => ChannelsHaveRoom
  <2> SUFFICES ASSUME ChannelInv, NEW a \in Attempts
               PROVE  /\ okToUnlockTable[a] <= 4
                      /\ Len(tableLocked[a]) <= 2 /\ Len(tableUnlocked[a]) <= 2
                      /\ Len(renameSessionId[a]) <= 2 /\ Len(tablesRenamed[a]) <= 2
    BY DEF ChannelsHaveRoom
  <2>1. okToUnlockTable[a] \in Nat /\ okToUnlockTable[a] <= MainSends(a) + RenamerSends(a)
    BY DEF ChannelInv, UnlockInv, TypeOK
  <2>2. MainSends(a) \in 0..2 /\ RenamerSends(a) \in 0..1
    BY DEF MainSends, RenamerSends
  <2>3. LockerChannelInv /\ RenamerChannelInv
    BY DEF ChannelInv
  <2> QED
    BY <2>1, <2>2, <2>3 DEF LockerChannelInv, LockerRoom, RenamerChannelInv, RenamerRoom
<1> QED
  BY <1>1, ChannelInit, ChannelStep, PTL DEF Spec

\* The original table is not dropped under the old table's name, provided a locker
\* returns within the pause before the next attempt.
THEOREM Kept == ASSUME "lingers" \notin Faults PROVE Spec => OldTableKept
<1> DEFINE Inv == ChannelInv /\ Alone /\ SentryInv
<1>0. Inv => TypeOK
  BY DEF ChannelInv
<1>1. Inv /\ [Next]_vars => Inv'
  BY <1>0, ChannelStep, AloneStep, SentryStep
<1>2. Init => Inv
  BY InitInv, ChannelInit DEF IndInv
<1>3. Inv /\ [Next]_vars => [old = "original" => old' = "original"]_vars
  BY <1>0, KeepStep
<1> HIDE DEF Inv
<1> QED
  BY <1>1, <1>2, <1>3, PTL DEF Spec, OldTableKept

\* The atomic cut-over implements TableSwap, whichever session or process dies, query
\* fails or connection is refused: no write of the application is missing from the
\* table it gets.
THEOREM Exact == ASSUME Prompt PROVE Spec => SwapIsExact
<1>0. "lingers" \notin Faults
  BY DEF Prompt
<1>1. IndInv /\ [Next]_vars => IndInv'
  BY <1>0, TypeStep, AloneStep, SentryStep, LockStep, FreshStep, HoldingStep, RenamerStep,
     PendingStep, RenamedStep, UnlockStep, LockerChannelStep, RenamerChannelStep
     DEF IndInv
<1>2. IndInv /\ [Next]_vars => [SwapSpec!Next]_(SwapSpec!vars)
  BY SwapStep DEF IndInv
<1>3. Init => SwapSpec!Init
  BY DEF Init, SwapSpec!Init
<1> QED
  BY <1>1, <1>2, <1>3, InitInv, PTL DEF Spec, SwapIsExact, SwapSpec!Spec

=============================================================================
