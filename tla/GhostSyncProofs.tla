-------------------------- MODULE GhostSyncProofs ---------------------------
(***************************************************************************)
(* The ghost table is the original table when the row copy is complete and *)
(* the backlog is empty, for every size of the tables, the binlog, the     *)
(* chunks and the batches, and however often the process is resumed.       *)
(*                                                                         *)
(* First what a write of the application, a step back of the streamer, an  *)
(* applied event and a copied chunk do to the invariant of one key; then   *)
(* that every step preserves the relation of the two tables; then the      *)
(* theorems.                                                               *)
(***************************************************************************)
EXTENDS GhostSyncInv

-----------------------------------------------------------------------------
(* How the row of one key moves.  t and n stand for the ghost table and the *)
(* applied cursor, or for the batch's view of the table and its cursor.     *)

\* A write of the application.
LEMMA AppKey ==
    ASSUME TypeOK, NEW e \in Events, NEW u \in Tables, AppWrites(e, u), Effect(e, u),
           NEW t, NEW n \in 0..Len(binlog), NEW k \in Keys
    PROVE  /\ Tracks(t, n, k) => Tracks(t, n, k)'
           /\ Tracks(t, n, k) /\ Arrived(t, n, k) => Arrived(t, n, k)'
<1>1. Appended(e) /\ Len(binlog) \in Nat /\ orig' = u
      /\ visible' = visible /\ start' = start /\ phase' = phase
  BY AppAppends DEF TypeOK, AppWrites
<1>2. /\ Inserts(e, k) => orig[k] = None /\ orig'[k] = e.val /\ e.val # None
      /\ Updates(e, k) => orig[k] # None /\ orig'[k] = e.val /\ e.val # None
      /\ Deletes(e, k) => orig[k] # None /\ orig'[k] = None
      /\ ~Touches(e, k) => orig'[k] = orig[k]
  BY <1>1 DEF Effect
<1>3. NonePending(n, k)' <=> NonePending(n, k) /\ ~Touches(e, k)
  BY <1>1 DEF NonePending, Appended
<1>4. Settled(t, n, k) => Settled(t, n, k)'
  BY <1>2, <1>3 DEF Settled
<1>5. Settled(t, n, k) /\ InsertFits(t, n, k) => InsertFits(t, n, k)'
  <2> SUFFICES ASSUME Settled(t, n, k), InsertFits(t, n, k),
                      NEW i \in (n + 1)..Len(binlog'), Inserts(binlog'[i], k),
                      \A j \in (n + 1)..Len(binlog') : j # i => ~Touches(binlog'[j], k)
               PROVE  t[k] \in {None, orig'[k]}
    BY DEF InsertFits
  <2>1. CASE i = Len(binlog) + 1
    <3>1. NonePending(n, k) /\ Inserts(e, k)
      BY <1>1, <2>1 DEF NonePending, Appended
    <3> QED  BY <3>1, <1>2 DEF Settled
  <2>2. CASE i \in (n + 1)..Len(binlog)
    <3>1. ~Touches(e, k) /\ Inserts(binlog[i], k)
      BY <1>1, <2>2 DEF Appended
    <3>2. \A j \in (n + 1)..Len(binlog) : j # i => ~Touches(binlog[j], k)
      BY <1>1, <2>2 DEF Appended
    <3> QED  BY <3>1, <3>2, <2>2, <1>2 DEF InsertFits
  <2> QED  BY <1>1, <2>1, <2>2 DEF Appended
<1>6. AheadOfEngine(t, n, k) => AheadOfEngine(t, n, k)'
  <2> SUFFICES ASSUME AheadOfEngine(t, n, k), phase # "streaming",
                      NEW i \in InFlight', i > start, i <= n, Inserts(binlog'[i], k)
               PROVE  t[k] = orig'[k]
    BY <1>1 DEF AheadOfEngine
  <2>1. i \in InFlight /\ Inserts(binlog[i], k)
    BY <1>1 DEF InFlight, Appended, TypeOK
  <2>2. ~Touches(e, k)
    BY <2>1, Kinds DEF AppWrites, Locked
  <2> QED  BY <2>1, <2>2, <1>2 DEF AheadOfEngine
<1>7. Arrived(t, n, k) => Arrived(t, n, k)'
  <2> SUFFICES ASSUME Arrived(t, n, k) PROVE Arrived(t, n, k)'
    OBVIOUS
  <2>1. NonePending(n, k)' => t[k] = orig'[k]
    BY <1>2, <1>3 DEF Arrived
  <2>2. ASSUME ~NonePending(n, k)',
               \A i \in (n + 1)..Len(binlog') :
                   Touches(binlog'[i], k) => Updates(binlog'[i], k)
        PROVE  t[k] # None
    <3>1. \A i \in (n + 1)..Len(binlog) : Touches(binlog[i], k) => Updates(binlog[i], k)
      BY <1>1, <2>2 DEF Appended
    <3>2. CASE NonePending(n, k)
      <4>1. Touches(e, k) => Updates(e, k)
        BY <1>1, <2>2 DEF Appended
      <4> QED  BY <3>2, <4>1, <1>2, <1>3, <2>2 DEF Arrived
    <3> QED  BY <3>1, <3>2 DEF Arrived
  <2> QED  BY <2>1, <2>2 DEF Arrived
<1> QED  BY <1>4, <1>5, <1>6, <1>7 DEF Tracks

\* The streamer goes back: the events applied already are applied again.
LEMMA RewindKey ==
    ASSUME TypeOK, HistoryInv, NEW t, NEW n \in 0..Len(binlog), NEW m \in 0..n,
           NEW k \in Keys
    PROVE  /\ Tracks(t, n, k) => Tracks(t, m, k)
           /\ Tracks(t, n, k) /\ Arrived(t, n, k) => Arrived(t, m, k)
<1>1. Len(binlog) \in Nat
  BY DEF TypeOK
<1>2. NonePending(m, k) => NonePending(n, k)
  BY <1>1 DEF NonePending
<1>3. Settled(t, n, k) => Settled(t, m, k)
  BY <1>2 DEF Settled
<1>4. Settled(t, n, k) /\ InsertFits(t, n, k) => InsertFits(t, m, k)
  <2> SUFFICES ASSUME Settled(t, n, k), InsertFits(t, n, k),
                      NEW i \in (m + 1)..Len(binlog), Inserts(binlog[i], k),
                      \A j \in (m + 1)..Len(binlog) : j # i => ~Touches(binlog[j], k)
               PROVE  t[k] \in {None, orig[k]}
    BY DEF InsertFits
  <2>1. CASE i \in (n + 1)..Len(binlog)
    BY <1>1, <2>1 DEF InsertFits
  <2>2. CASE i <= n
    <3>1. NonePending(n, k)
      BY <1>1, <2>2 DEF NonePending
    <3> QED  BY <3>1 DEF Settled
  <2> QED  BY <1>1, <2>1, <2>2
<1>5. AheadOfEngine(t, n, k) => AheadOfEngine(t, m, k)
  BY <1>1 DEF AheadOfEngine, InFlight, TypeOK
<1>6. Arrived(t, n, k) => Arrived(t, m, k)
  <2> SUFFICES ASSUME Arrived(t, n, k), ~NonePending(m, k),
                      \A i \in (m + 1)..Len(binlog) :
                          Touches(binlog[i], k) => Updates(binlog[i], k)
               PROVE  t[k] # None
    BY <1>2 DEF Arrived
  <2>1. CASE NonePending(n, k)
    <3>1. PICK i \in (m + 1)..Len(binlog) : Touches(binlog[i], k)
      BY DEF NonePending
    <3>2. i \in 1..Len(binlog) /\ ~Deletes(binlog[i], k)
      BY <1>1, <3>1, Kinds
    <3>3. \A j \in (i + 1)..Len(binlog) : ~Deletes(binlog[j], k)
      BY <1>1, Kinds
    <3>4. orig[k] # None
      BY <3>1, <3>2, <3>3 DEF HistoryInv, ThereUnlessDeleted
    <3> QED  BY <3>4, <2>1 DEF Arrived
  <2>2. CASE ~NonePending(n, k)
    BY <1>1, <2>2 DEF Arrived
  <2> QED  BY <2>1, <2>2
<1> QED  BY <1>3, <1>4, <1>5, <1>6 DEF Tracks

\* What a statement that was executed did to the row of key k.
LEMMA StatementEffect ==
    ASSUME UniqueSafe, NEW t \in Tables, NEW e \in Events, EventOK(e), NEW dml,
           KeyUpdates => dml # "overwritten",
           ~StatementError(t, e), ~(PanicOnWarnings /\ StatementWarning(t, e, dml)),
           NEW k \in Keys
    PROVE  LET u == BuildDMLEventQuery(t, e, dml)
           IN  /\ Inserts(e, k) => u[k] = IF t[k] = None THEN e.val ELSE t[k]
               /\ Updates(e, k) => u[k] = IF t[k] = None THEN None ELSE e.val
               /\ Deletes(e, k) => u[k] = None
               /\ ~Touches(e, k) => u[k] = t[k]
<1> DEFINE u == BuildDMLEventQuery(t, e, dml)
<1> USE KeyFacts DEF Inserts, Updates, Deletes, Touches
<1>1. CASE e.where = NoKey
  <2>1. e.new \in Keys /\ u = DMLInsert(t, e.new, e.val)
    BY <1>1 DEF BuildDMLEventQuery, EventOK, Events
  <2>2. t[e.new] = None => ~Conflict(t, e.new, e.val)
    BY <1>1, <2>1 DEF StatementWarning, InsertTarget, Conflict, UniqueSafe
  <2> QED  BY <1>1, <2>1, <2>2 DEF DMLInsert, Tables
<1>2. CASE e.where # NoKey /\ e.new = NoKey
  <2>1. e.where \in Keys /\ u = DMLDelete(t, e.where)
    BY <1>2 DEF BuildDMLEventQuery, Events
  <2> QED  BY <1>2, <2>1 DEF DMLDelete, Tables
<1>3. CASE e.where # NoKey /\ e.where = e.new
  <2>1. e.new \in Keys /\ u = DMLUpdate(t, e.new, e.val)
    BY <1>3 DEF BuildDMLEventQuery, Events
  <2> QED  BY <1>3, <2>1 DEF DMLUpdate, Tables
<1>4. CASE e.where # NoKey /\ e.new # NoKey /\ e.where # e.new
  <2> DEFINE d == DMLDelete(t, e.where)
  <2>1. e.where \in Keys /\ e.new \in Keys /\ dml # "overwritten"
    BY <1>4 DEF EventOK, Events
  <2>2. InsertTarget(t, e, dml) = d
    BY <1>4, <2>1 DEF InsertTarget
  <2>3. u = DMLInsert(d, e.new, e.val)
    BY <1>4, <2>2 DEF BuildDMLEventQuery
  <2>4. d[e.new] = None => ~Conflict(d, e.new, e.val)
    BY <1>4, <2>2, ZenonT(60) DEF StatementWarning, Conflict, UniqueSafe
  <2>5. d \in Tables /\ d[e.where] = None /\ \A j \in Keys : j # e.where => d[j] = t[j]
    BY <2>1 DEF DMLDelete, Tables, Rows
  <2> HIDE DEF d
  <2> QED  BY <1>4, <2>1, <2>3, <2>4, <2>5 DEF DMLInsert, Tables
<1> QED  BY <1>1, <1>2, <1>3, <1>4


-----------------------------------------------------------------------------
(* How the row of one key follows the original, continued.                 *)

\* One event is applied.
LEMMA ApplyKey ==
    ASSUME TypeOK, HistoryInv, FlightInv, NEW t, NEW n \in 0..Len(binlog), n < Len(binlog),
           NEW u, NEW k \in Keys,
           LET e == binlog[n + 1]
           IN  /\ EventOK(e)
               /\ Inserts(e, k) => u[k] = IF t[k] = None THEN e.val ELSE t[k]
               /\ Updates(e, k) => u[k] = IF t[k] = None THEN None ELSE e.val
               /\ Deletes(e, k) => u[k] = None
               /\ ~Touches(e, k) => u[k] = t[k]
    PROVE  /\ Tracks(t, n, k) => Tracks(u, n + 1, k)
           /\ Tracks(t, n, k) /\ Arrived(t, n, k) => Arrived(u, n + 1, k)
<1> DEFINE e == binlog[n + 1]
<1>1. Len(binlog) \in Nat /\ n + 1 \in 1..Len(binlog) /\ n + 1 \in (n + 1)..Len(binlog)
  BY DEF TypeOK
<1>2. NonePending(n, k) <=> NonePending(n + 1, k) /\ ~Touches(e, k)
  BY <1>1 DEF NonePending
<1>3. NonePending(n + 1, k) /\ Touches(e, k) =>
        orig[k] = IF e.new = k THEN e.val ELSE None
  BY <1>1 DEF NonePending, HistoryInv, LastEvent
<1>4. NonePending(n + 1, k) /\ Inserts(e, k) /\ InsertFits(t, n, k) => u[k] = orig[k]
  <2> SUFFICES ASSUME NonePending(n + 1, k), Inserts(e, k), InsertFits(t, n, k)
               PROVE  u[k] = orig[k]
    OBVIOUS
  <2>1. \A j \in (n + 1)..Len(binlog) : j # n + 1 => ~Touches(binlog[j], k)
    BY <1>1 DEF NonePending
  <2>2. t[k] \in {None, orig[k]}
    BY <1>1, <2>1 DEF InsertFits
  <2>3. orig[k] = e.val
    BY <1>3, Kinds
  <2> QED  BY <2>2, <2>3
<1>5. Settled(t, n, k) /\ InsertFits(t, n, k) => Settled(u, n + 1, k)
  BY <1>2, <1>3, <1>4, Kinds DEF Settled
<1>6. InsertFits(t, n, k) => InsertFits(u, n + 1, k)
  <2> SUFFICES ASSUME InsertFits(t, n, k),
                      NEW i \in (n + 2)..Len(binlog), Inserts(binlog[i], k),
                      \A j \in (n + 2)..Len(binlog) : j # i => ~Touches(binlog[j], k)
               PROVE  u[k] \in {None, orig[k]}
    BY <1>1 DEF InsertFits
  <2>1. CASE ~Touches(e, k)
    <3>1. \A j \in (n + 1)..Len(binlog) : j # i => ~Touches(binlog[j], k)
      BY <1>1, <2>1
    <3> QED  BY <1>1, <2>1, <3>1 DEF InsertFits
  <2>2. CASE Touches(e, k)
    <3>1. Deletes(e, k)
      <4> SUFFICES ASSUME ~Deletes(e, k) PROVE FALSE
        OBVIOUS
      <4>1. PICK m \in (n + 2)..(i - 1) : Deletes(binlog[m], k)
        BY <1>1, <2>2 DEF HistoryInv, InsertAfterDelete
      <4> QED  BY <1>1, <4>1, Kinds
    <3> QED  BY <3>1
  <2> QED  BY <2>1, <2>2
<1>7. Tracks(t, n, k) => AheadOfEngine(u, n + 1, k)
  <2> SUFFICES ASSUME Tracks(t, n, k), phase # "streaming",
                      NEW i \in InFlight, i > start, i <= n + 1, Inserts(binlog[i], k)
               PROVE  u[k] = orig[k]
    BY SMTT(30) DEF AheadOfEngine
  <2>1. i \in 1..Len(binlog) /\ Touches(binlog[i], k)
    BY <1>1, Kinds, SMTT(30) DEF InFlight, TypeOK
  <2>2. \A j \in 1..Len(binlog) : Touches(binlog[j], k) => j <= i
    BY <2>1 DEF FlightInv
  <2>3. NonePending(n + 1, k)
    BY <1>1, <2>1, <2>2 DEF NonePending
  <2>4. CASE i = n + 1
    BY <2>3, <2>4, <1>4 DEF Tracks
  <2>5. CASE i <= n
    <3>1. ~Touches(e, k)
      BY <1>1, <2>1, <2>2, <2>5
    <3> QED  BY <3>1, <2>5 DEF Tracks, AheadOfEngine
  <2> QED  BY <1>1, <2>1, <2>4, <2>5
<1>8. Tracks(t, n, k) /\ Arrived(t, n, k) => Arrived(u, n + 1, k)
  <2> SUFFICES ASSUME Tracks(t, n, k), Arrived(t, n, k) PROVE Arrived(u, n + 1, k)
    OBVIOUS
  <2>1. NonePending(n + 1, k) => u[k] = orig[k]
    <3> SUFFICES ASSUME NonePending(n + 1, k) PROVE u[k] = orig[k]
      OBVIOUS
    <3>1. CASE Updates(e, k)
      <4>1. \A i \in (n + 1)..Len(binlog) : Touches(binlog[i], k) => Updates(binlog[i], k)
        BY <1>1, <3>1, SMTT(30) DEF NonePending
      <4>2. t[k] # None
        BY <4>1, <3>1, <1>2, Kinds, SMTT(30) DEF Arrived
      <4> QED  BY <4>2, <3>1, <1>3, Kinds
    <3>2. CASE ~Updates(e, k)
      BY <3>2, <1>2, <1>3, <1>4, Kinds DEF Arrived, Tracks
    <3> QED  BY <3>1, <3>2
  <2>2. ASSUME ~NonePending(n + 1, k),
               \A i \in (n + 2)..Len(binlog) : Touches(binlog[i], k) => Updates(binlog[i], k)
        PROVE  u[k] # None
    <3>1. PICK j \in (n + 2)..Len(binlog) : Touches(binlog[j], k)
      BY <1>1, <2>2, SMTT(30) DEF NonePending
    <3>2. ~Deletes(e, k)
      <4> SUFFICES ASSUME Deletes(e, k) PROVE FALSE
        BY SMTT(30)
      <4>1. PICK m \in (n + 2)..(j - 1) : Inserts(binlog[m], k)
        BY <1>1, <2>2, <3>1 DEF HistoryInv, UpdateAfterInsert
      <4> QED  BY <1>1, <4>1, <2>2, Kinds
    <3>3. CASE Inserts(e, k)
      BY <3>3, Kinds, KeyFacts DEF EventOK
    <3>4. CASE ~Inserts(e, k)
      <4>1. \A i \in (n + 1)..Len(binlog) : Touches(binlog[i], k) => Updates(binlog[i], k)
        BY <1>1, <2>2, <3>2, <3>4, Kinds, SMTT(30)
      <4>2. t[k] # None
        BY <4>1, <2>2, <1>2 DEF Arrived
      <4> QED  BY <4>2, <3>2, <3>4, Kinds, KeyFacts, SMTT(30) DEF EventOK
    <3> QED  BY <3>3, <3>4
  <2> QED  BY <1>1, <2>1, <2>2 DEF Arrived
<1> QED  BY <1>5, <1>6, <1>7, <1>8 DEF Tracks

\* A chunk with key k in it is copied, no transaction holding the row.
LEMMA CopyKey ==
    ASSUME TypeOK, HistoryInv, NEW t, NEW n \in 0..Len(binlog), NEW u, NEW k \in Keys,
           ~Locked(k), u[k] = IF t[k] = None THEN orig[k] ELSE t[k],
           Tracks(t, n, k)
    PROVE  Tracks(u, n, k) /\ Arrived(u, n, k)
<1>1. Len(binlog) \in Nat
  BY SMTT(30) DEF TypeOK
<1>2. Settled(u, n, k) /\ InsertFits(u, n, k)
  BY DEF Tracks, Settled, InsertFits
<1>3. AheadOfEngine(u, n, k)
  BY Kinds DEF AheadOfEngine, Locked
<1>4. NonePending(n, k) => u[k] = orig[k]
  BY DEF Tracks, Settled
<1>5. ASSUME ~NonePending(n, k),
             \A i \in (n + 1)..Len(binlog) : Touches(binlog[i], k) => Updates(binlog[i], k)
      PROVE  u[k] # None
  <2>1. PICK i \in (n + 1)..Len(binlog) : Touches(binlog[i], k)
    BY <1>5 DEF NonePending
  <2>2. i \in 1..Len(binlog) /\ ~Deletes(binlog[i], k)
    BY <1>1, <1>5, <2>1, Kinds
  <2>3. \A j \in (i + 1)..Len(binlog) : ~Deletes(binlog[j], k)
    BY <1>1, <1>5, Kinds
  <2>4. orig[k] # None
    BY <2>1, <2>2, <2>3 DEF HistoryInv, ThereUnlessDeleted
  <2> QED  BY <2>4
<1> QED  BY <1>2, <1>3, <1>4, <1>5 DEF Tracks, Arrived

\* A read without locks did not see key k, which the copy leaves behind: what
\* inserts its row, if anything does, is in the backlog or was applied.
LEMMA UnseenKey ==
    ASSUME TypeOK, HistoryInv, FlightInv, NEW t, NEW n \in 0..Len(binlog), NEW k \in Keys,
           ~RowVisible(k), phase # "streaming", start <= visible,
           Tracks(t, n, k)
    PROVE  Arrived(t, n, k)
<1>1. Len(binlog) \in Nat /\ visible \in Nat /\ start \in Nat
  BY DEF TypeOK
<1>2. CASE ~Locked(k)
  <2>1. orig[k] = None
    BY <1>2 DEF RowVisible
  <2> DEFINE u == [j \in Keys |-> IF j = k THEN IF t[k] = None THEN orig[k] ELSE t[k] ELSE None]
  <2>2. u[k] = t[k] /\ u[k] = IF t[k] = None THEN orig[k] ELSE t[k]
    BY <2>1
  <2> HIDE DEF u
  <2>3. Arrived(u, n, k)
    BY <1>2, <2>2, CopyKey, ZenonT(60)
  <2> QED  BY <2>2, <2>3 DEF Arrived
<1>3. CASE Locked(k)
  <2>1. PICK i \in InFlight : Inserts(binlog[i], k)
    BY <1>3 DEF RowVisible
  <2>2. i \in 1..Len(binlog) /\ i > visible /\ Touches(binlog[i], k)
    BY <1>1, <2>1, Kinds DEF InFlight
  <2>3. \A j \in 1..Len(binlog) : Touches(binlog[j], k) => j <= i
    BY <2>1, <2>2 DEF FlightInv
  <2>4. CASE i <= n
    <3>1. NonePending(n, k)
      BY <1>1, <2>2, <2>3, <2>4 DEF NonePending
    <3>2. t[k] = orig[k]
      BY <1>1, <2>1, <2>2, <2>4 DEF Tracks, AheadOfEngine
    <3> QED  BY <3>1, <3>2 DEF Arrived
  <2>5. CASE i > n
    <3>1. i \in (n + 1)..Len(binlog) /\ ~Updates(binlog[i], k)
      BY <1>1, <2>1, <2>2, <2>5, Kinds
    <3> QED  BY <2>2, <3>1 DEF NonePending, Arrived
  <2> QED  BY <1>1, <2>2, <2>4, <2>5
<1> QED  BY <1>2, <1>3

\* Nothing happened to the row, the table or the binlog.
LEMMA FrameKey ==
    ASSUME TypeOK, TypeOK', NEW t, NEW n \in Nat, NEW k \in Keys,
           orig' = orig, binlog' = binlog, visible <= visible', start' = start,
           phase' # "streaming" => phase # "streaming"
    PROVE  /\ Tracks(t, n, k) => Tracks(t, n, k)'
           /\ Arrived(t, n, k) => Arrived(t, n, k)'
<1>1. NonePending(n, k)' <=> NonePending(n, k)
  BY DEF NonePending
<1>2. Settled(t, n, k) => Settled(t, n, k)'
  BY <1>1 DEF Settled
<1>3. InsertFits(t, n, k) => InsertFits(t, n, k)'
  BY DEF InsertFits
<1>4. AheadOfEngine(t, n, k) => AheadOfEngine(t, n, k)'
  <2> SUFFICES ASSUME AheadOfEngine(t, n, k), phase' # "streaming",
                      NEW i \in InFlight', i > start, i <= n, Inserts(binlog[i], k)
               PROVE  t[k] = orig[k]
    BY DEF AheadOfEngine
  <2>1. visible \in Int /\ visible' \in Int /\ Len(binlog) \in Int
    BY DEF TypeOK
  <2>2. i \in (visible' + 1)..Len(binlog)
    BY DEF InFlight
  <2>3. i \in (visible + 1)..Len(binlog)
    BY <2>1, <2>2, IntervalShrinks, ZenonT(60)
  <2> QED  BY <2>3 DEF AheadOfEngine, InFlight
<1>5. Arrived(t, n, k) => Arrived(t, n, k)'
  BY <1>1 DEF Arrived
<1> QED  BY <1>2, <1>3, <1>4, <1>5 DEF Tracks

-----------------------------------------------------------------------------
(* Every step preserves the relation of the ghost table to the original.   *)

\* What holds of a table and a position holds of the variables that hold them.
LEMMA Renamed ==
    ASSUME NEW CONSTANT t, NEW CONSTANT n, NEW CONSTANT k
    PROVE  /\ ghost = t /\ applied = n => (KeyInv(ghost, applied, k) <=> KeyInv(t, n, k))
           /\ work = t /\ cursor = n => (KeyInv(work, cursor, k) <=> KeyInv(t, n, k))
           /\ ghost' = t /\ applied' = n => (KeyInv(ghost, applied, k)' <=> KeyInv(t, n, k)')
           /\ work' = t /\ cursor' = n => (KeyInv(work, cursor, k)' <=> KeyInv(t, n, k)')
BY ZenonT(60) DEF KeyInv, Tracks, Settled, InsertFits, AheadOfEngine, Arrived, NonePending

\* A step that changes neither table and covers no further key.
LEMMA QuietStep ==
    ASSUME TypeOK, TypeOK', NEW CONSTANT k \in Keys,
           orig' = orig, binlog' = binlog, visible <= visible', start' = start,
           phase' # "streaming" => phase # "streaming",
           ghost' = ghost, applied' = applied,
           writer' = "batch" => writer = "batch" /\ work' = work /\ cursor' = cursor,
           Kept(k)' => Kept(k),
           KeySynced(k)
    PROVE  KeySynced(k)'
<1>1. PICK t, n, w, c : t = ghost /\ n = applied /\ w = work /\ c = cursor
  OBVIOUS
<1>2. n \in Nat /\ c \in Nat
  BY <1>1 DEF TypeOK
<1>3. KeyInv(t, n, k) => KeyInv(t, n, k)'
  BY <1>2, FrameKey DEF KeyInv
<1>4. KeyInv(w, c, k) => KeyInv(w, c, k)'
  BY <1>2, FrameKey DEF KeyInv
<1> QED  BY <1>1, <1>3, <1>4, Renamed DEF KeySynced

\* Only the row of key k matters for key k.
LEMMA SameRow ==
    ASSUME NEW t, NEW u, NEW n, NEW k, u[k] = t[k]
    PROVE  (Tracks(t, n, k) => Tracks(u, n, k)) /\ (Arrived(t, n, k) => Arrived(u, n, k))
BY DEF Tracks, Settled, InsertFits, AheadOfEngine, Arrived

\* A row that is in neither table satisfies what waits for it.
LEMMA NoRow ==
    ASSUME NEW t, NEW n, NEW k, t[k] = None, AheadOfEngine(t, n, k)
    PROVE  Tracks(t, n, k)
BY DEF Tracks, Settled, InsertFits

\* What Migrate() does around the row copy keeps the tables related.
LEMMA SyncMigrate ==
    ASSUME TypeOK, TypeOK', HistoryInv, FlightInv, ProgressInv, NEW CONSTANT k \in Keys,
           KeySynced(k), MigrateSteps
    PROVE  KeySynced(k)'
<1>1. PICK t, n : t = ghost /\ n = applied
  OBVIOUS
<1>2. n \in 0..Len(binlog) /\ n \in Nat
  BY <1>1, Cursors
<1>3. KeyInv(t, n, k)
  BY <1>1, Renamed DEF KeySynced
<1>4. CASE AddDMLEventsListener
  <2>1. /\ writer' = "idle" /\ ghost' = t /\ applied' = n /\ orig' = orig
        /\ binlog' = binlog /\ start' = Len(binlog) /\ (Kept(k)' => Kept(k))
    BY <1>1, <1>4 DEF AddDMLEventsListener, ProgressInv, appVars, copyVars, rangeVars,
                      chkVars, Kept, Covered, CopiedTo
  <2>2. AheadOfEngine(t, n, k)'
    <3>1. \A i \in InFlight' : ~(i > start')
      BY <2>1 DEF InFlight, TypeOK
    <3> QED  BY <3>1 DEF AheadOfEngine
  <2>3. Tracks(t, n, k)'
    BY <1>3, <2>1, <2>2 DEF KeyInv, Tracks, Settled, InsertFits, NonePending
  <2>4. Arrived(t, n, k) => Arrived(t, n, k)'
    BY <2>1 DEF Arrived, NonePending
  <2> QED  BY <1>3, <2>1, <2>3, <2>4, Renamed DEF KeyInv, KeySynced
<1>5. CASE WriteRangeState
  <2>1. Kept(k)' => Kept(k)
    BY <1>5 DEF WriteRangeState, copyVars, rangeVars, chkVars, Kept, Covered, CopiedTo
  <2> QED  BY <1>5, <2>1, QuietStep DEF WriteRangeState, appVars, batchVars, TypeOK
<1>6. CASE ReadMigrationRangeValues
  <2>1. /\ orig' = orig /\ binlog' = binlog /\ visible' = visible /\ start' = start
        /\ ghost' = t /\ applied' = n /\ writer' = "idle" /\ phase = "flushed"
        /\ iteration' = iteration /\ iterMax' = iterMax /\ chkMax' = chkMax
        /\ writer = "idle" /\ start <= visible
    BY <1>1, <1>6 DEF ReadMigrationRangeValues, ProgressInv, appVars, chkVars
  <2>2. visible \in Int
    BY Cursors
  <2>3. Tracks(t, n, k)' /\ (Arrived(t, n, k) => Arrived(t, n, k)')
    BY <1>2, <1>3, <2>1, <2>2, FrameKey DEF KeyInv
  <2>4. Kept(k)' => Kept(k) \/ ~RowVisible(k)
    BY <1>6, <2>1, KeyFacts
    DEF ReadMigrationRangeValues, Kept, Covered, CopiedTo, VisibleKeys
  <2>5. ~RowVisible(k) => Arrived(t, n, k)
    BY <1>2, <1>3, <2>1, UnseenKey DEF KeyInv
  <2> QED  BY <1>3, <2>1, <2>3, <2>4, <2>5, Renamed DEF KeyInv, KeySynced
<1>7. CASE LockOriginal \/ AllEventsUpToLockProcessed \/ Swap \/ CutOverFails
  <2>1. Kept(k)
    BY <1>7 DEF LockOriginal, AllEventsUpToLockProcessed,
       Swap, CutOverFails, Kept, Covered
  <2>2. UNCHANGED <<appVars, start, ghost, applied, writer, batchVars>>
    BY <1>7 DEF LockOriginal, AllEventsUpToLockProcessed,
       Swap, CutOverFails
  <2>3. phase # "streaming"
    BY <1>7 DEF LockOriginal, AllEventsUpToLockProcessed,
       Swap, CutOverFails
  <2>4. visible \in Int
    BY Cursors
  <2> QED  BY <2>1, <2>2, <2>3, <2>4, QuietStep DEF appVars, batchVars
<1> QED  BY <1>4, <1>5, <1>6, <1>7 DEF MigrateSteps

\* What the row copy does keeps them related.
LEMMA SyncCopy ==
    ASSUME TypeOK, TypeOK', HistoryInv, FlightInv, ProgressInv, UniqueSafe,
           NEW CONSTANT k \in Keys, KeySynced(k),
           NextChunk \/ CalculateNextIterationRangeEndValues
              \/ ApplyIterationInsertQuery \/ CopyFails
    PROVE  KeySynced(k)'
<1>1. PICK t, n, u : t = ghost /\ n = applied /\ u = ghost'
  OBVIOUS
<1>2. n \in 0..Len(binlog) /\ n \in Nat /\ visible \in Int
  BY <1>1, Cursors
<1>3. KeyInv(t, n, k)
  BY <1>1, Renamed DEF KeySynced
<1>4. CASE NextChunk
  <2>1. Kept(k)' => Kept(k)
    BY <1>4, KeptNextChunk
  <2> QED  BY <1>2, <1>4, <2>1, QuietStep DEF NextChunk, appVars
<1>5. CASE CalculateNextIterationRangeEndValues
  <2>1. CASE Remaining # {}
    <3>1. Kept(k)' => Kept(k)
      BY <1>5, <2>1
      DEF CalculateNextIterationRangeEndValues, chkVars, Kept, Covered, CopiedTo
    <3> QED
      BY <1>2, <1>5, <2>1, <3>1, QuietStep
      DEF CalculateNextIterationRangeEndValues, appVars
  <2>2. CASE Remaining = {}
    <3>1. /\ orig' = orig /\ binlog' = binlog /\ visible' = visible /\ start' = start
          /\ ghost' = t /\ applied' = n /\ writer' = "idle" /\ phase = "copying"
          /\ writer = "range" /\ start <= visible
      BY <1>1, <1>5, <2>2 DEF CalculateNextIterationRangeEndValues, ProgressInv, appVars
    <3>2. Tracks(t, n, k)' /\ (Arrived(t, n, k) => Arrived(t, n, k)')
      BY <1>2, <1>3, <3>1, FrameKey DEF KeyInv
    <3>3. ~Kept(k) => ~RowVisible(k)
      BY <2>2, <3>1, KeptLast, ZenonT(60)
    <3>4. ~RowVisible(k) => Arrived(t, n, k)
      BY <1>2, <1>3, <3>1, UnseenKey DEF KeyInv
    <3> QED  BY <1>3, <3>1, <3>2, <3>3, <3>4, Renamed, ZenonT(60) DEF KeyInv, KeySynced
  <2> QED  BY <2>1, <2>2
<1>6. ASSUME CopyChunk, UNCHANGED <<appVars, start, applied>>, writer' # "batch",
             phase = "copying",
             Kept(k)' => Kept(k) \/ (InChunk(k) /\ ~CopyConflict(k))
      PROVE  KeySynced(k)'
  <2>1. /\ orig' = orig /\ binlog' = binlog /\ visible' = visible
        /\ start' = start /\ phase # "streaming"
    BY <1>6, SMTT(30) DEF appVars
  <2>2. /\ InChunk(k) => ~Locked(k)
        /\ u[k] = IF InChunk(k) /\ t[k] = None /\ ~CopyConflict(k)
                    THEN orig[k] ELSE t[k]
    BY <1>1, <1>6 DEF CopyChunk
  <2>3. KeyInv(u, n, k) /\ (InChunk(k) /\ ~CopyConflict(k) => Arrived(u, n, k))
    <3>1. CASE InChunk(k) /\ ~CopyConflict(k)
      BY <1>2, <1>3, <2>2, <3>1, CopyKey, ZenonT(60) DEF KeyInv
    <3>2. CASE ~(InChunk(k) /\ ~CopyConflict(k))
      BY <1>3, <2>2, <3>2, SameRow, ZenonT(60) DEF KeyInv
    <3> QED  BY <3>1, <3>2
  <2>4. KeyInv(u, n, k)'
    BY <1>2, <1>6, <2>1, <2>3, FrameKey DEF KeyInv
  <2> QED  BY <1>1, <1>6, <2>4, Renamed DEF KeySynced
<1>7. CASE ApplyIterationInsertQuery
  <2>1. /\ phase = "copying" /\ writer = "chunk" /\ writer' = "idle"
        /\ UNCHANGED <<appVars, start, applied, rangeMin, rangeMax, iterMin, iterMax, chkMax>>
        /\ CopyChunk
    BY <1>7 DEF ApplyIterationInsertQuery, chkVars
  <2>2. CASE phase' = "aborted"
    <3>1. Kept(k)' => Kept(k)
      BY <2>1, <2>2 DEF Kept, Covered
    <3> QED  BY <1>6, <2>1, <3>1
  <2>3. CASE phase' = phase
    <3>1. InChunk(k) => ~CopyConflict(k)
      BY <1>7, <2>1, <2>3, ZenonT(60)
      DEF ApplyIterationInsertQuery, UniqueSafe, CopyConflict, Conflict
    <3>2. Kept(k)' => Kept(k) \/ InChunk(k)
      BY <2>1, <2>3, KeptChunk
    <3> QED  BY <1>6, <2>1, <3>1, <3>2, ZenonT(60)
  <2> QED  BY <1>7, <2>2, <2>3 DEF ApplyIterationInsertQuery
<1>8. CASE CopyFails
  <2>1. /\ phase = "copying" /\ phase' \in {phase, "aborted"}
        /\ writer \in {"range", "chunk"} /\ writer' = "range"
        /\ UNCHANGED <<appVars, start, applied, copyVars>>
        /\ CopyChunk \/ UNCHANGED ghost
    BY <1>8 DEF CopyFails, AttemptFails
  <2>2. Kept(k)' => Kept(k)
    BY <2>1, KeptFrame
  <2>3. CASE CopyChunk
    BY <1>6, <2>1, <2>2, <2>3
  <2>4. CASE UNCHANGED ghost
    BY <1>2, <2>1, <2>2, <2>4, QuietStep DEF appVars
  <2> QED  BY <2>1, <2>3, <2>4
<1> QED  BY <1>4, <1>5, <1>7, <1>8

\* What an applied batch, a failed or a refused one does keeps them related.
LEMMA SyncBatch ==
    ASSUME TypeOK, TypeOK', EventsInv, HistoryInv, FlightInv, ProgressInv, UniqueSafe,
           RetrySafe, NEW CONSTANT k \in Keys, KeySynced(k),
           BeginBatch \/ ExecuteStatement \/ CommitBatch \/ BatchFails \/ BatchWarning
    PROVE  KeySynced(k)'
<1>1. PICK g, a, w, c : g = ghost /\ a = applied /\ w = work /\ c = cursor
  OBVIOUS
<1>2. /\ UNCHANGED <<appVars, start, copyVars>> /\ Writing
      /\ phase' \in {phase, "aborted"}
      /\ writer \in {"idle", "batch"} /\ writer' \in {"idle", "batch"}
  BY DEF BeginBatch, ExecuteStatement, CommitBatch, BatchFails, BatchWarning, AttemptFails
<1>3. /\ orig' = orig /\ binlog' = binlog /\ visible' = visible /\ start' = start
      /\ visible \in Int
      /\ phase # "streaming"
  BY <1>2, Cursors DEF appVars, Writing
<1>4. Kept(k)' => Kept(k)
  BY <1>2, KeptFrame
<1>5. a \in 0..Len(binlog) /\ a \in Nat /\ c \in Nat
  BY <1>1, Cursors
<1>6. ASSUME NEW CONSTANT t, NEW CONSTANT n \in Nat, KeyInv(t, n, k)
      PROVE  KeyInv(t, n, k)'
  BY <1>2, <1>3, <1>4, <1>6, FrameKey DEF KeyInv
<1>7. KeyInv(g, a, k) /\ KeyInv(g, a, k)'
  <2>1. KeyInv(g, a, k)
    BY <1>1, Renamed DEF KeySynced
  <2> QED  BY <1>5, <1>6, <2>1
<1>8. CASE BeginBatch
  BY <1>1, <1>7, <1>8, Renamed DEF BeginBatch, KeySynced
<1>9. ASSUME writer = "batch"
      PROVE  /\ c \in 0..Len(binlog) /\ a <= c /\ KeyInv(w, c, k) /\ KeyInv(w, c, k)'
  <2>1. c \in 0..Len(binlog) /\ a <= c
    BY <1>1, <1>9, BatchBounds
  <2>2. KeyInv(w, c, k)
    BY <1>1, <1>9, Renamed DEF KeySynced
  <2> QED  BY <1>5, <1>6, <2>1, <2>2
<1>10. CASE ExecuteStatement
  <2>1. PICK u, e : u = work' /\ e = binlog[c + 1]
    OBVIOUS
  <2>2. /\ writer = "batch" /\ c < batchEnd /\ cursor' = c + 1 /\ ghost' = g /\ applied' = a
        /\ ~StatementError(w, e) /\ ~(PanicOnWarnings /\ StatementWarning(w, e, dmlType))
        /\ u = BuildDMLEventQuery(w, e, dmlType)
    BY <1>1, <1>10, <2>1 DEF ExecuteStatement
  <2>3. c < Len(binlog) /\ c + 1 \in 1..Len(binlog)
    <3>1. c \in Nat /\ batchEnd \in Int /\ Len(binlog) \in Nat /\ batchEnd <= Len(binlog)
      BY <1>5, <2>2, Cursors, BatchBounds
    <3> QED  BY <2>2, <3>1
  <2>4. e \in Events /\ EventOK(e) /\ w \in Tables
    <3>1. binlog \in Seq(Events) /\ w \in Tables
      BY <1>1, Cursors, ZenonT(60)
    <3> QED  BY <2>1, <2>3, <3>1 DEF EventsInv
  <2>5. KeyUpdates => dmlType # "overwritten"
    BY <1>2, BuiltOnce, ZenonT(60)
  <2>6. /\ Inserts(e, k) => u[k] = IF w[k] = None THEN e.val ELSE w[k]
        /\ Updates(e, k) => u[k] = IF w[k] = None THEN None ELSE e.val
        /\ Deletes(e, k) => u[k] = None
        /\ ~Touches(e, k) => u[k] = w[k]
    BY <2>2, <2>4, <2>5, StatementEffect, ZenonT(60)
  <2>7. KeyInv(u, c + 1, k)
    <3>1. Tracks(w, c, k) => Tracks(u, c + 1, k)
      BY <1>9, <2>1, <2>2, <2>3, <2>4, <2>6, ApplyKey, ZenonT(60)
    <3>2. Tracks(w, c, k) /\ Arrived(w, c, k) => Arrived(u, c + 1, k)
      BY <1>9, <2>1, <2>2, <2>3, <2>4, <2>6, ApplyKey, ZenonT(60)
    <3> QED  BY <1>9, <2>2, <3>1, <3>2, SMTT(30) DEF KeyInv
  <2>8. KeyInv(u, c + 1, k)'
    BY <1>5, <1>6, <2>7
  <2> QED  BY <1>7, <2>1, <2>2, <2>8, Renamed DEF KeySynced
<1>11. CASE CommitBatch
  <2>1. writer = "batch" /\ ghost' = w /\ applied' = c /\ writer' = "idle"
    BY <1>1, <1>11 DEF CommitBatch
  <2> QED  BY <1>9, <2>1, Renamed DEF KeySynced
<1>12. CASE BatchFails
  <2>1. PICK u : u = ghost'
    OBVIOUS
  <2>2. /\ writer = "batch"
        /\ u = g \/ u = w
        /\ applied' = a /\ cursor' = a /\ work' = u
    BY <1>1, <1>12, <2>1 DEF BatchFails
  <2>3. KeyInv(w, a, k)
    <3>1. a \in 0..c
      BY <1>5, <1>9, <2>2
    <3> QED  BY <1>9, <2>2, <3>1, RewindKey DEF KeyInv
  <2>4. KeyInv(u, a, k)'
    BY <1>5, <1>6, <1>7, <2>2, <2>3
  <2> QED  BY <2>1, <2>2, <2>4, Renamed DEF KeySynced
<1>13. CASE BatchWarning
  BY <1>1, <1>7, <1>9, <1>13, Renamed DEF BatchWarning, KeySynced, batchVars
<1> QED  BY <1>8, <1>10, <1>11, <1>12, <1>13

\* Every step keeps them related.
LEMMA SyncStep ==
    ASSUME IndInv, TypeOK', UniqueSafe, RetrySafe, ResumeSafe, [Next]_vars
    PROVE  SyncInv'
<1> SUFFICES ASSUME NEW CONSTANT k \in Keys
             PROVE  KeySynced(k)'
  BY DEF SyncInv
<1> USE DEF IndInv
<1>1. KeySynced(k)
  BY DEF SyncInv
<1>2. PICK g, a, w, c : g = ghost /\ a = applied /\ w = work /\ c = cursor
  OBVIOUS
<1>3. /\ a \in 0..Len(binlog) /\ visible \in Int
      /\ writer = "batch" => c \in 0..Len(binlog)
      /\ KeyInv(g, a, k) /\ (writer = "batch" => KeyInv(w, c, k))
  <2>1. a \in 0..Len(binlog) /\ visible \in Int
    BY <1>2, Cursors
  <2>2. writer = "batch" => c \in 0..Len(binlog)
    BY <1>2, BatchBounds
  <2> QED  BY <1>1, <1>2, <2>1, <2>2, Renamed DEF KeySynced
<1>4. CASE Application
  <2>1. PICK e \in Events, t \in Tables : AppWrites(e, t) /\ EventOK(e) /\ Effect(e, t)
    BY <1>4, AppEffect
  <2>2. /\ ghost' = g /\ applied' = a /\ work' = w /\ cursor' = c /\ writer' = writer
        /\ UNCHANGED copyVars /\ phase' = phase
    BY <1>2, <2>1 DEF AppWrites, batchVars
  <2>3. Kept(k)' => Kept(k)
    BY <2>2, KeptFrame
  <2>4. KeyInv(g, a, k)'
    BY <1>3, <2>1, <2>2, <2>3, AppKey DEF KeyInv
  <2>5. writer = "batch" => KeyInv(w, c, k)'
    BY <1>3, <2>1, <2>2, <2>3, AppKey DEF KeyInv
  <2> QED  BY <2>2, <2>4, <2>5, Renamed DEF KeySynced
<1>5. CASE EngineCommit
  <2>1. Kept(k)' => Kept(k)
    BY <1>5, KeptFrame DEF EngineCommit
  <2> QED  BY <1>1, <1>3, <1>5, <2>1, QuietStep DEF EngineCommit, batchVars
<1>6. CASE StreamerSkips
  <2>1. PICK m : m = applied'
    OBVIOUS
  <2>2. ghost = EmptyTable /\ writer' = "idle" /\ phase' = "streaming" /\ ~Kept(k)'
    BY <1>6, KeptSkips
  <2>3. g[k] = None /\ ghost' = g
    <3>1. EmptyTable[k] = None
      BY DEF EmptyTable
    <3>2. ghost' = ghost
      BY <1>6 DEF StreamerSkips
    <3> QED  BY <1>2, <2>2, <3>1, <3>2, ZenonT(60)
  <2>4. Tracks(g, m, k)'
    BY <2>2, <2>3, ZenonT(60) DEF Tracks, Settled, InsertFits, AheadOfEngine
  <2> QED  BY <2>1, <2>2, <2>3, <2>4, Renamed DEF KeyInv, KeySynced
<1>7. CASE MigrateSteps
  BY <1>1, <1>7, SyncMigrate
<1>8. CASE WriterSteps
  BY <1>1, <1>8, SyncCopy, SyncBatch DEF WriterSteps
<1>9. CASE Reconnect
  <2>1. PICK m : m = applied'
    OBVIOUS
  <2>2. /\ m \in 0..a /\ m \in Nat /\ ghost' = g /\ writer' = writer /\ writer # "batch"
        /\ orig' = orig /\ binlog' = binlog /\ visible' = visible /\ start' = start
        /\ phase' = phase /\ UNCHANGED copyVars
    BY <1>2, <1>3, <1>9, <2>1 DEF Reconnect, appVars
  <2>3. Kept(k)' => Kept(k)
    BY <2>2, KeptFrame
  <2>4. KeyInv(g, m, k)
    BY <1>3, <2>2, RewindKey DEF KeyInv
  <2>5. KeyInv(g, m, k)'
    BY <1>3, <2>2, <2>3, <2>4, FrameKey, SMTT(30) DEF KeyInv
  <2> QED  BY <2>1, <2>2, <2>5, Renamed DEF KeySynced
<1>10. CASE Checkpoint
  <2>1. Kept(k)' => Kept(k)
    BY <1>10, KeptCheckpoint
  <2> QED
    BY <1>1, <1>3, <1>10, <2>1, QuietStep DEF Checkpoint, appVars, batchVars
<1>11. CASE Resume
  <2>1. PICK m : m = chkCoords
    OBVIOUS
  <2>2. /\ ghost' = g /\ applied' = m /\ writer' = "idle" /\ phase' = "streaming"
        /\ orig' = orig /\ binlog' = binlog /\ visible' = visible /\ start' = start
    BY <1>2, <1>11, <2>1 DEF Resume, appVars
  <2>3. m \in 0..a /\ m \in Nat
    BY <1>2, <1>11, <2>1, KeptResume
  <2>4. Kept(k)' => Kept(k)
    BY <1>11, KeptResume
  <2>5. KeyInv(g, m, k)
    BY <1>3, <2>3, RewindKey DEF KeyInv
  <2>6. KeyInv(g, m, k)'
    BY <1>3, <2>2, <2>3, <2>4, <2>5, FrameKey, SMTT(30) DEF KeyInv
  <2> QED  BY <2>1, <2>2, <2>6, Renamed DEF KeySynced
<1>12. CASE UNCHANGED vars
  <2>1. Kept(k)' => Kept(k)
    BY <1>12 DEF vars, Kept, Covered, CopiedTo
  <2> QED
    BY <1>1, <1>3, <1>12, <2>1, QuietStep DEF vars, appVars, batchVars
<1> QED
  BY <1>4, <1>5, <1>6, <1>7, <1>8, <1>9, <1>10, <1>11, <1>12 DEF Next, Terminated

-----------------------------------------------------------------------------
(* The theorems.                                                           *)

\* The empty ghost table is related to any original.
LEMMA InitInv ==
    ASSUME Init
    PROVE  IndInv
<1>1. ASSUME NEW k \in Keys
      PROVE  KeySynced(k)
  <2>1. ghost[k] = None /\ writer = "idle" /\ phase = "streaming"
    BY <1>1 DEF Init, EmptyTable
  <2>2. ~Kept(k)
    <3>1. ~(k <= NoKey)
      BY <1>1, BoundsAssumption DEF Keys, NoKey
    <3>2. chkMax = NoKey /\ iteration = 0
      BY DEF Init
    <3> QED  BY <2>1, <3>1, <3>2 DEF Kept, Covered
  <2>3. Tracks(ghost, applied, k)
    BY <2>1 DEF Tracks, Settled, InsertFits, AheadOfEngine
  <2> QED  BY <2>1, <2>2, <2>3 DEF KeySynced, KeyInv
<1> QED  BY <1>1, InitFrame DEF IndInv, SyncInv, FrameInv

\* The invariant is inductive: gh-ost's steps, the application's and the server's
\* preserve it when no batch with a key-changing UPDATE is retried, no duplicate on
\* a secondary unique key goes unnoticed and a checkpoint stays behind the streamer.
LEMMA NextInv ==
    ASSUME RetrySafe, UniqueSafe, ResumeSafe, IndInv, [Next]_vars
    PROVE  IndInv'
<1>1. FrameInv'
  BY FrameStep DEF IndInv, FrameInv
<1>2. SyncInv'
  BY <1>1, SyncStep DEF FrameInv
<1> QED  BY <1>1, <1>2 DEF IndInv, FrameInv

\* What the row copy passed and no event waits for is in the ghost table as it is
\* in the original, at every moment of the migration and of one that resumes it.
THEOREM Converges ==
    ASSUME RetrySafe, UniqueSafe, ResumeSafe
    PROVE  Spec => []CopiedRowsConverge
<1>1. Init => IndInv
  BY InitInv
<1>2. IndInv /\ [Next]_vars => IndInv'
  BY NextInv, ZenonT(60)
<1>3. IndInv => CopiedRowsConverge
  BY ZenonT(60) DEF IndInv, SyncInv, KeySynced, KeyInv, Kept, Arrived, NonePending, Pending,
         CopiedRowsConverge
<1> QED  BY <1>1, <1>2, <1>3, PTL DEF Spec

\* The table gh-ost swaps in at the cut-over is the original table: applying the
\* binlog on top of the row copy loses and resurrects nothing, for any number of
\* rows, events, retries, reconnections, checkpoints and restarts.
THEOREM Consistent ==
    ASSUME RetrySafe, UniqueSafe, ReconnectSafe
    PROVE  Spec => []GhostConsistent
<1>1. Init => IndInv
  BY InitInv
<1>2. IndInv /\ [Next]_vars => IndInv'
  BY NextInv DEF ReconnectSafe, ResumeSafe
<1>3. ASSUME IndInv
      PROVE  GhostConsistent
  <2>1. phase = "done" => applied = Len(binlog)
    BY <1>3 DEF IndInv, ProgressInv, ReconnectSafe
  <2>2. ASSUME phase \in {"copied", "locked", "synced", "done"}, applied = Len(binlog)
        PROVE  ghost = orig
    <3>1. \A k \in Keys : Arrived(ghost, applied, k)
      BY <1>3, <2>2 DEF IndInv, SyncInv, KeySynced, KeyInv, Kept, Covered
    <3>2. \A k \in Keys : NonePending(applied, k)
      BY <1>3, <2>2, SMTT(30) DEF IndInv, TypeOK, NonePending
    <3>3. \A k \in Keys : ghost[k] = orig[k]
      BY <3>1, <3>2 DEF Arrived
    <3> QED  BY <1>3, <3>3 DEF IndInv, TypeOK, Tables
  <2> QED  BY <2>1, <2>2 DEF GhostConsistent
<1>4. IndInv => GhostConsistent
  BY <1>3
<1> QED  BY <1>1, <1>2, <1>4, PTL DEF Spec

=============================================================================
