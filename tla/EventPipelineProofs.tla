------------------------ MODULE EventPipelineProofs -------------------------
(***************************************************************************)
(* The last event on a row, once read, is the last to arrive at it, and    *)
(* the theorems that follow: a drained pipeline has applied everything,    *)
(* the sentinel of the cut-over finds everything applied, and a checkpoint *)
(* is a safe place to resume at.                                           *)
(***************************************************************************)
EXTENDS EventPipelineOrder

\* Max of a set is the element that none exceeds.
LEMMA MaxUnique ==
    ASSUME NEW T, T \subseteq Nat, NEW m \in T, \A y \in T : y <= m
    PROVE  Max(T) = m
<1>1. \A y \in T : m >= y
  OBVIOUS
<1>2. Max(T) \in T /\ \A y \in T : Max(T) >= y
  BY <1>1, ZenonT(60) DEF Max
<1>3. Max(T) <= m /\ Max(T) >= m
  BY <1>2, ZenonT(60)
<1>4. Max(T) \in Nat /\ m \in Nat
  BY <1>2, ZenonT(60)
<1> QED
  BY <1>3, <1>4

\* The last row event on k in a sequence of one.
LEMMA LastOne ==
    ASSUME NEW b, NEW x \in Nat, NEW k, NEW v
    PROVE  LastOn(b, <<x>>, k, v) = IF b[x] = k THEN x ELSE v
<1> DEFINE s == <<x>>
<1>1. s \in Seq(Nat) /\ Range(s) = {x}
  BY RangeOne
<1> HIDE DEF s
<1>2. LastOn(b, s, k, v) = IF b[x] = k THEN x ELSE v
  BY <1>1, LastIs
<1> QED
  BY <1>2 DEF s

\* The last row event on k in two sequences, one after the other.
LEMMA LastJoined ==
    ASSUME NEW b, NEW s \in Seq(Nat), NEW t \in Seq(Nat), NEW k, NEW v
    PROVE  LastOn(b, s \o t, k, v) = LastOn(b, t, k, LastOn(b, s, k, v))
<1> DEFINE c == s \o t
           onS == {i \in DOMAIN s : b[s[i]] = k}
           onT == {i \in DOMAIN t : b[t[i]] = k}
           onC == {i \in DOMAIN c : b[c[i]] = k}
<1>1. /\ Len(s) \in Nat /\ Len(t) \in Nat /\ Len(c) = Len(s) + Len(t)
      /\ \A i \in 1..Len(s) : c[i] = s[i]
      /\ \A i \in 1..Len(t) : c[Len(s) + i] = t[i]
      /\ DOMAIN s = 1..Len(s) /\ DOMAIN t = 1..Len(t) /\ DOMAIN c = 1..Len(c)
  OBVIOUS
<1>2. /\ LastOn(b, c, k, v) = IF onC = {} THEN v ELSE c[Max(onC)]
      /\ LastOn(b, s, k, v) = IF onS = {} THEN v ELSE s[Max(onS)]
      /\ \A w : LastOn(b, t, k, w) = IF onT = {} THEN w ELSE t[Max(onT)]
  BY DEF LastOn
<1> HIDE DEF c
<1>3. \A i \in 1..Len(c) : i \in 1..Len(s) \/ (\E j \in 1..Len(t) : i = Len(s) + j)
  <2> SUFFICES ASSUME NEW i \in 1..Len(c), i \notin 1..Len(s)
               PROVE  \E j \in 1..Len(t) : i = Len(s) + j
    OBVIOUS
  <2>1. i - Len(s) \in 1..Len(t) /\ i = Len(s) + (i - Len(s))
    BY <1>1
  <2> QED
    BY <2>1, ZenonT(60)
<1>4. CASE onT = {}
  <2>1. onC = onS
    <3>1. ASSUME NEW i \in onC PROVE i \in onS
      <4>1. i \notin 1..Len(s) => \E j \in 1..Len(t) : i = Len(s) + j
        BY <1>1, <1>3
      <4>2. \A j \in 1..Len(t) : i = Len(s) + j => j \in onT
        BY <1>1
      <4>3. i \in 1..Len(s)
        BY <1>4, <4>1, <4>2
      <4> QED
        BY <1>1, <4>3
    <3>2. ASSUME NEW i \in onS PROVE i \in onC
      BY <1>1
    <3> QED
      BY <3>1, <3>2
  <2>2. onS # {} => Max(onS) \in onS
    <3>1. onS \subseteq 0..Len(s)
      BY <1>1
    <3> HIDE DEF onS
    <3> QED
      BY <1>1, <3>1, MaxIs, ZenonT(60)
  <2>3. onS # {} => c[Max(onS)] = s[Max(onS)]
    BY <1>1, <2>2
  <2> HIDE DEF onC, onS, onT
  <2> QED
    BY <1>2, <1>4, <2>1, <2>3, ZenonT(60) DEF c
<1>5. CASE onT # {}
  <2> DEFINE m == Max(onT)
  <2>1. m \in onT /\ \A y \in onT : y <= m
    <3>1. onT \subseteq 0..Len(t)
      BY <1>1
    <3> HIDE DEF onT
    <3> QED
      BY <1>1, <1>5, <3>1, MaxIs, ZenonT(60)
  <2> HIDE DEF m
  <2>2. m \in 1..Len(t) /\ b[t[m]] = k
    BY <1>1, <2>1
  <2>3. Len(s) + m \in onC /\ c[Len(s) + m] = t[m]
    BY <1>1, <2>2
  <2>4. ASSUME NEW y \in onC PROVE y <= Len(s) + m
    <3>1. CASE y \in 1..Len(s)
      BY <1>1, <2>2, <3>1
    <3>2. CASE \E j \in 1..Len(t) : y = Len(s) + j
      <4>1. PICK j \in 1..Len(t) : y = Len(s) + j
        BY <3>2
      <4>2. j \in onT
        BY <1>1, <4>1
      <4> QED
        BY <1>1, <2>1, <2>2, <4>1, <4>2
    <3> QED
      BY <1>1, <1>3, <3>1, <3>2
  <2>5. onC \subseteq Nat
    BY <1>1
  <2> HIDE DEF onC, onS, onT
  <2>6. Max(onC) = Len(s) + m
    BY <2>3, <2>4, <2>5, MaxUnique, ZenonT(60)
  <2>7. onC # {}
    BY <2>3
  <2> QED
    BY <1>2, <1>5, <2>3, <2>6, <2>7, ZenonT(60) DEF c, m
<1> QED
  BY <1>4, <1>5

\* The last row event on k is where it was when what the log gained is not on k.
LEMMA LastOfGrows ==
    ASSUME NEW b \in Seq(Entries), NEW c \in Seq(Entries), Grows(b, c), NEW k,
           LastOf(c, k) <= Len(b)
    PROVE  LastOf(c, k) = LastOf(b, k)
<1> DEFINE m == LastOf(b, k)
           n == LastOf(c, k)
<1>1. /\ m \in 0..Len(b) /\ Len(b) \in Nat /\ (m # 0 => b[m] = k)
      /\ \A i \in 1..Len(b) : b[i] = k => i <= m
  BY LastOfIs
<1>2. /\ n \in 0..Len(c) /\ Len(c) \in Nat /\ (n # 0 => c[n] = k)
      /\ \A i \in 1..Len(c) : c[i] = k => i <= n
  BY LastOfIs
<1>3. n <= Len(b)
  OBVIOUS
<1> HIDE DEF m, n
<1>4. n <= m
  BY <1>1, <1>2, <1>3 DEF Grows
<1>5. m <= n
  BY <1>1, <1>2 DEF Grows
<1>6. n = m
  BY <1>1, <1>2, <1>4, <1>5
<1> QED
  BY <1>6 DEF m, n

-----------------------------------------------------------------------------
(* An event that was read arrives, and nothing on its row arrives after it. *)

\* An empty sequence leaves k's row alone.
LEMMA NothingOn ==
    ASSUME NEW b, NEW k, NEW v
    PROVE  LastOn(b, << >>, k, v) = v
BY DEF LastOn

\* An entry that is no row changes nothing.
LEMMA NoRow ==
    ASSUME NEW b, NEW s \in Seq(Nat), NEW x \in Nat, NEW k, NEW v, b[x] # k
    PROVE  /\ LastOn(b, s \o <<x>>, k, v) = LastOn(b, s, k, v)
           /\ LastOn(b, <<x>> \o s, k, v) = LastOn(b, s, k, v)
<1> DEFINE h == <<x>>
<1>1. h \in Seq(Nat) /\ \A w : LastOn(b, h, k, w) = w
  BY LastOne
<1> HIDE DEF h
<1>2. /\ LastOn(b, s \o h, k, v) = LastOn(b, s, k, v)
      /\ LastOn(b, h \o s, k, v) = LastOn(b, s, k, v)
  BY <1>1, LastJoined
<1> QED
  BY <1>2 DEF h

\* No step of the pipeline after the reader changes what arrives.
LEMMA ArrivingKept ==
    ASSUME TypeOK, ReaderInv, IdleInv, ChainInv, NEW k \in Keys,
           SendEntry \/ Reconnect \/ Dispatcher \/ Writer
    PROVE  Arriving(k)' = Arriving(k)
<1> USE DEF tableVars, mainVars, readerVars, writerVars
<1>1. /\ batch \in Seq(Nat) /\ queue \in Seq(Nat) /\ Sent \in Seq(Nat)
      /\ ghost \in [Keys -> Nat] /\ Uncommitted \in Seq(Nat)
  <2>1. batch \in Seq(Nat) /\ queue \in Seq(Nat) /\ Sent \in Seq(Nat)
    BY Types
  <2>2. ghost \in [Keys -> Nat]
    <3>1. ghost \in [Keys -> 0..Len(binlog)] /\ Len(binlog) \in Nat
      BY Types, ZenonT(60) DEF TypeOK
    <3> QED
      BY <3>1
  <2>3. << >> \in Seq(Nat)
    OBVIOUS
  <2> QED
    BY <2>1, <2>2, <2>3 DEF Uncommitted
<1>2. CASE SendEntry
  <2>1. UNCHANGED <<binlog, queue, batch, writer, ghost>>
    BY <1>2 DEF SendEntry
  <2>2. Sent' = Sent
    BY <1>2, SendEntryMoves
  <2> QED
    BY <2>1, <2>2 DEF Arriving, Uncommitted
<1>3. CASE Reconnect
  <2>1. UNCHANGED <<binlog, queue, batch, writer, ghost, events, inHand>>
    BY <1>3 DEF Reconnect
  <2> QED
    BY <2>1 DEF Arriving, Uncommitted, Sent
<1>4. CASE Dispatch
  <2> DEFINE p == Head(events)
             t == Sent'
             v == LastOn(binlog, Uncommitted, k, ghost[k])
  <2>1. UNCHANGED <<binlog, batch, writer, ghost>>
    BY <1>4 DEF Dispatch
  <2>2. p \in Nat /\ t \in Seq(Nat) /\ Sent = <<p>> \o t
    BY <1>4, DispatchMoves, Types, SMTT(30)
  <2>3. (binlog[p] \notin Keys /\ queue' = queue) \/ queue' = queue \o <<p>>
    BY <1>4, DispatchMoves, PipelineAssumption, ZenonT(60) DEF IsMarker
  <2>4. Arriving(k)' = LastOn(binlog, t, k, LastOn(binlog, queue', k, v))
    BY <2>1 DEF Arriving, Uncommitted
  <2>5. Arriving(k) = LastOn(binlog, <<p>> \o t, k, LastOn(binlog, queue, k, v))
    BY <2>2 DEF Arriving
  <2> HIDE DEF p, t, v
  <2>6. CASE binlog[p] \notin Keys /\ queue' = queue
    BY <2>2, <2>4, <2>5, <2>6, NoRow
  <2>7. CASE queue' = queue \o <<p>>
    <3> DEFINE h == <<p>>
    <3>1. h \in Seq(Nat)
      BY <2>2
    <3>2. /\ Arriving(k)' = LastOn(binlog, t, k, LastOn(binlog, queue \o h, k, v))
          /\ Arriving(k) = LastOn(binlog, h \o t, k, LastOn(binlog, queue, k, v))
      BY <2>4, <2>5, <2>7
    <3> HIDE DEF h
    <3> QED
      BY <1>1, <2>2, <3>1, <3>2, LastJoined
  <2> QED
    BY <2>3, <2>6, <2>7
<1>5. ASSUME NEW p \in enqueuing, EnqueueSentinel(p)
      PROVE  Arriving(k)' = Arriving(k)
  <2>1. UNCHANGED <<binlog, batch, writer, ghost, events, inHand>>
    BY <1>5 DEF EnqueueSentinel
  <2>2. p \in Nat /\ queue' = queue \o <<p>>
    BY <1>5, EnqueueSentinelMoves, Types
  <2>3. binlog[p] # k
    BY DEF ChainInv, IsRow
  <2>4. \A v : LastOn(binlog, queue', k, v) = LastOn(binlog, queue, k, v)
    BY <1>1, <2>2, <2>3, NoRow
  <2> QED
    BY <2>1, <2>4 DEF Arriving, Uncommitted, Sent
<1>6. CASE HandleNonDML
  <2>1. UNCHANGED <<binlog, batch, writer, ghost, events, inHand>> /\ binlog[Head(queue)] # k
    BY <1>6 DEF HandleNonDML, IsRow
  <2>2. Head(queue) \in Nat /\ queue' \in Seq(Nat) /\ queue = <<Head(queue)>> \o queue'
    BY <1>6, HandleNonDMLMoves, Types
  <2>3. \A v : LastOn(binlog, queue, k, v) = LastOn(binlog, queue', k, v)
    <3> DEFINE p == Head(queue)
    <3>1. p \in Nat /\ queue' \in Seq(Nat) /\ binlog[p] # k /\ queue = <<p>> \o queue'
      BY <2>1, <2>2
    <3> HIDE DEF p
    <3>2. \A v : LastOn(binlog, <<p>> \o queue', k, v) = LastOn(binlog, queue', k, v)
      BY <3>1, NoRow
    <3> QED
      BY <3>1, <3>2, ZenonT(60)
  <2> QED
    BY <2>1, <2>3 DEF Arriving, Uncommitted, Sent
<1>7. CASE CollectBatch
  <2>1. UNCHANGED <<binlog, ghost, events, inHand>> /\ writer = "idle" /\ writer' = "batch"
    BY <1>7 DEF CollectBatch
  <2>2. batch' \in Seq(Nat) /\ queue' \in Seq(Nat) /\ queue = batch' \o queue'
    BY <1>7, CollectBatchMoves
  <2>3. \A v : LastOn(binlog, batch' \o queue', k, v)
                  = LastOn(binlog, queue', k, LastOn(binlog, batch', k, v))
    BY <2>2, LastJoined
  <2>4. Uncommitted = << >> /\ Uncommitted' = batch' /\ Sent' = Sent
    BY <2>1 DEF Uncommitted, Sent
  <2>5. Arriving(k) = LastOn(binlog, Sent, k, LastOn(binlog, queue, k, ghost[k]))
    BY <2>4, NothingOn DEF Arriving
  <2>6. Arriving(k)' = LastOn(binlog, Sent, k, LastOn(binlog, queue', k,
                                                  LastOn(binlog, batch', k, ghost[k])))
    BY <2>1, <2>4 DEF Arriving
  <2> QED
    BY <2>2, <2>3, <2>5, <2>6
<1>8. CASE ApplyBatch
  <2>1. /\ UNCHANGED <<binlog, events, inHand, queue, batch>> /\ writer = "batch"
        /\ writer' = "committed"
    BY <1>8 DEF ApplyBatch
  <2>2. ghost'[k] = LastOn(binlog, batch, k, ghost[k])
    BY <1>8 DEF ApplyBatch, LastOn
  <2>3. Uncommitted = batch /\ Uncommitted' = << >> /\ Sent' = Sent
    BY <2>1 DEF Uncommitted, Sent
  <2> QED
    BY <2>1, <2>2, <2>3, NothingOn, SMTT(30) DEF Arriving
<1>9. CASE AcknowledgeBatch
  <2>1. /\ UNCHANGED <<binlog, ghost, events, inHand, queue>> /\ writer = "committed"
        /\ writer' = "idle"
    BY <1>9 DEF AcknowledgeBatch
  <2>2. Uncommitted = << >> /\ Uncommitted' = << >> /\ Sent' = Sent
    BY <2>1 DEF Uncommitted, Sent
  <2> QED
    BY <2>1, <2>2 DEF Arriving
<1> QED
  BY <1>2, <1>3, <1>4, <1>5, <1>6, <1>7, <1>8, <1>9 DEF Dispatcher, Writer

\* The last row event on k in the binlog, or 0.
LEMMA LastEventIs ==
    ASSUME TypeOK, NEW k
    PROVE  /\ LastEvent(k) \in 0..Len(binlog) /\ Len(binlog) \in Nat
           /\ LastEvent(k) # 0 => binlog[LastEvent(k)] = k
           /\ \A i \in 1..Len(binlog) : binlog[i] = k => i <= LastEvent(k)
<1>1. binlog \in Seq(Entries) /\ LastEvent(k) = LastOf(binlog, k)
  BY Types DEF LastEvent, LastOf, Positions
<1> QED
  BY <1>1, LastOfIs

\* A batch without a row event on k leaves k's row alone.
LEMMA NothingOnBatch ==
    ASSUME TypeOK, NEW k, NEW v, \A x \in Range(batch) : binlog[x] # k
    PROVE  LastOn(binlog, batch, k, v) = v
<1>1. {i \in DOMAIN batch : binlog[batch[i]] = k} = {}
  BY DEF Range
<1> QED
  BY <1>1 DEF LastOn

\* With no row of key k in the pipeline, nothing arrives.
LEMMA ArrivedAlready ==
    ASSUME TypeOK, NEW k \in Keys, \A x \in InLine : binlog[x] # k
    PROVE  Arriving(k) = ghost[k]
<1>1. batch \in Seq(Nat) /\ queue \in Seq(Nat) /\ Sent \in Seq(Nat)
  BY Types
<1>2. /\ \A x \in Range(batch) : binlog[x] # k
      /\ \A x \in Range(queue) : binlog[x] # k
      /\ \A x \in Range(Sent) : binlog[x] # k
  BY DEF InLine
<1>3. \A v : /\ LastOn(binlog, batch, k, v) = v
             /\ LastOn(binlog, queue, k, v) = v
             /\ LastOn(binlog, Sent, k, v) = v
  <2>1. \A v : LastOn(binlog, batch, k, v) = v
    <3>1. batch \in Seq(Nat) /\ \A x \in Range(batch) : binlog[x] # k
      BY <1>1, <1>2
    <3> QED
      BY <3>1, LastIs
  <2>2. \A v : LastOn(binlog, queue, k, v) = v
    <3>1. queue \in Seq(Nat) /\ \A x \in Range(queue) : binlog[x] # k
      BY <1>1, <1>2
    <3> QED
      BY <3>1, LastIs
  <2>3. \A v : LastOn(binlog, Sent, k, v) = v
    <3> DEFINE s == Sent
    <3>1. s \in Seq(Nat) /\ \A x \in Range(s) : binlog[x] # k
      BY <1>1, <1>2
    <3> HIDE DEF s
    <3>2. \A v : LastOn(binlog, s, k, v) = v
      BY <3>1, LastIs
    <3> QED
      BY <3>2 DEF s
  <2> QED
    BY <2>1, <2>2, <2>3
<1>4. LastOn(binlog, Uncommitted, k, ghost[k]) = ghost[k]
  BY <1>3, NothingOn DEF Uncommitted
<1> QED
  BY <1>3, <1>4 DEF Arriving

\* A row whose last event is before p, with nothing before p under way, has it.
LEMMA Settled ==
    ASSUME TypeOK, ReaderInv, FlowInv, process = "writing",
           NEW p \in 0..Len(binlog), Clear(binlog, RestartPos, InLine, p),
           NEW k \in Keys, LastEvent(k) <= p
    PROVE  UpToDate(k)
<1> DEFINE e == LastEvent(k)
<1> SUFFICES ASSUME e > owed
             PROVE  ghost[k] = e
  BY DEF UpToDate
<1>1. /\ owed \in Nat /\ p \in Nat /\ Len(binlog) \in Nat /\ e \in 0..Len(binlog)
      /\ InLine \subseteq 1..Len(binlog) /\ RestartPos \in Nat /\ readPos \in Nat
  <2>1. /\ Len(binlog) \in Nat /\ InLine \subseteq Positions /\ Positions = 1..Len(binlog)
        /\ RestartPos \in 0..Len(binlog) /\ readPos \in 0..Len(binlog)
    BY Types
  <2>2. owed \in 0..Len(binlog)
    BY ZenonT(60) DEF TypeOK
  <2>3. e \in 0..Len(binlog)
    BY LastEventIs
  <2> HIDE DEF e
  <2> QED
    BY <2>1, <2>2, <2>3
<1>2. binlog[e] = k /\ \A i \in 1..Len(binlog) : binlog[i] = k => i <= e
  <2>1. e # 0
    BY <1>1
  <2> QED
    BY <2>1, LastEventIs
<1>3. e <= p
  OBVIOUS
<1>4. RestartPos <= readPos
  BY <1>1 DEF ReaderInv, RestartPos
<1>5. e <= readPos => Arriving(k) = e
  BY DEF FlowInv, Registered
<1> HIDE DEF e
<1>6. e < p
  BY <1>1, <1>2, <1>3 DEF Clear
<1>7. e <= RestartPos
  BY <1>1, <1>2, <1>6 DEF Clear, Past
<1>8. \A x \in InLine : binlog[x] # k
  <2> SUFFICES ASSUME NEW x \in InLine, binlog[x] = k
               PROVE  FALSE
    OBVIOUS
  <2>1. p < x
    BY DEF Clear, Behind
  <2> QED
    BY <1>1, <1>2, <1>3, <2>1
<1>9. Arriving(k) = ghost[k]
  BY <1>8, ArrivedAlready
<1> QED
  BY <1>1, <1>4, <1>5, <1>7, <1>9

\* The event that is read arrives last; one that is not sent is no row, or not owed.
LEMMA ReadArrives ==
    ASSUME Steady, TypeOK, ReaderInv, FlowInv, ReadEvent, Registered, NEW k \in Keys,
           owed < LastEvent(k), LastEvent(k) <= readPos + 1
    PROVE  Arriving(k)' = LastEvent(k)
<1> DEFINE p == readPos + 1
           e == LastEvent(k)
           v == LastOn(binlog, queue, k, LastOn(binlog, Uncommitted, k, ghost[k]))
<1>1. /\ UNCHANGED <<binlog, queue, batch, writer, ghost>>
      /\ readPos < Len(binlog)
      /\ Undecoded(p) /\ initial > 0 => "window" \in Faults
      /\ IsRow(p) /\ ~Undecoded(p) => inHand' = <<p>>
  BY DEF ReadEvent, tableVars, writerVars
<1>2. /\ readPos \in Nat /\ Len(binlog) \in Nat /\ owed \in Nat /\ initial \in Nat
      /\ undecoded \in Nat /\ Sent \in Seq(Nat)
  <2>1. Len(binlog) \in Nat /\ Sent \in Seq(Nat)
    BY Types
  <2>2. /\ owed \in 0..Len(binlog) /\ initial \in 0..Len(binlog)
        /\ undecoded \in 0..Len(binlog) /\ readPos \in 0..Len(binlog)
    BY ZenonT(60) DEF TypeOK
  <2> QED
    BY <2>1, <2>2
<1>3. e \in 0..Len(binlog) /\ (e # 0 => binlog[e] = k)
      /\ \A i \in 1..Len(binlog) : binlog[i] = k => i <= e
  BY LastEventIs
<1>4. /\ Arriving(k) = LastOn(binlog, Sent, k, v)
      /\ Arriving(k)' = LastOn(binlog, Sent', k, v)
  BY <1>1 DEF Arriving, Uncommitted
<1>5. /\ readPos' = p /\ inHand = << >>
      /\ \/ inHand' = << >> /\ Sent' = Sent
         \/ inHand' = <<p>> /\ Sent' = Sent \o <<p>>
  BY ReadEventMoves
<1>6. owed < e /\ e <= readPos + 1
  OBVIOUS
<1>7. e <= readPos => Arriving(k) = e
  BY DEF FlowInv
<1> HIDE DEF v, e
<1>8. CASE e <= readPos
  <2>1. binlog[p] # k
    BY <1>1, <1>2, <1>3, <1>8
  <2>2. p \in Nat
    BY <1>2
  <2> HIDE DEF p
  <2>3. LastOn(binlog, Sent \o <<p>>, k, v) = LastOn(binlog, Sent, k, v)
    BY <1>2, <2>1, <2>2, NoRow, SMTT(30)
  <2> QED
    BY <1>4, <1>5, <1>7, <1>8, <2>3, ZenonT(60) DEF e
<1>9. CASE e = p
  <2>1. binlog[p] = k /\ p \in Nat
    BY <1>2, <1>3, <1>9
  <2>2. IsRow(p) /\ ~Undecoded(p)
    <3>1. IsRow(p)
      BY <2>1 DEF IsRow
    <3>2. ASSUME Undecoded(p)
          PROVE  FALSE
      <4>1. initial = 0
        BY <1>1, <1>2, <3>2 DEF Steady
      <4>2. process = "writing"
        BY <4>1 DEF Registered
      <4>3. p <= undecoded
        BY <3>2, <4>2 DEF Undecoded
      <4>4. undecoded <= owed \/ undecoded <= readPos
        BY DEF ReaderInv
      <4> QED
        BY <1>2, <1>6, <1>9, <4>3, <4>4
    <3> QED
      BY <3>1, <3>2
  <2> DEFINE h == <<p>>
  <2>3. inHand' = h /\ h # << >>
    <3>1. inHand' = h
      BY <1>1, <2>2
    <3>2. Len(h) = 1 /\ Len(<< >>) = 0
      BY <2>1, OneEntry
    <3> HIDE DEF h
    <3> QED
      BY <3>1, <3>2
  <2>4. \/ inHand' = << >> /\ Sent' = Sent
        \/ inHand' = h /\ Sent' = Sent \o h
    BY <1>5
  <2>5. h \in Seq(Nat)
    BY <2>1
  <2> HIDE DEF p
  <2>6. \A w : LastOn(binlog, h, k, w) = p
    BY <2>1, LastOne
  <2> HIDE DEF h
  <2>7. LastOn(binlog, Sent \o h, k, v) = p
    BY <1>2, <2>5, <2>6, LastJoined
  <2> QED
    BY <1>4, <1>9, <2>3, <2>4, <2>7, ZenonT(60) DEF e
<1> QED
  BY <1>2, <1>3, <1>6, <1>8, <1>9

\* What arrives does not depend on what the log has later.
LEMMA ArrivingGrows ==
    ASSUME TypeOK, NEW rows \in Seq(Entries), Log(rows), NEW k \in Keys,
           UNCHANGED <<ghost, events, inHand, queue, batch, writer>>
    PROVE  Arriving(k) = Arriving(k)'
<1>A. UNCHANGED <<ghost, events, inHand, queue, batch, writer>>
  OBVIOUS
<1>B. \A p \in Positions : binlog[p] = binlog'[p]
  BY LogTypes
<1>1. /\ batch \in Seq(Nat) /\ queue \in Seq(Nat) /\ Sent \in Seq(Nat)
      /\ Range(batch) \subseteq Positions /\ Range(queue) \subseteq Positions
      /\ Range(Sent) \subseteq Positions
  BY Types
<1>2. \A s \in Seq(Nat) : \A v : Range(s) \subseteq Positions
                => LastOn(binlog, s, k, v) = LastOn(binlog', s, k, v)
  <2> SUFFICES ASSUME NEW s \in Seq(Nat), NEW v, Range(s) \subseteq Positions
               PROVE  LastOn(binlog, s, k, v) = LastOn(binlog', s, k, v)
    OBVIOUS
  <2>1. \A i \in DOMAIN s : binlog[s[i]] = binlog'[s[i]]
    BY <1>B DEF Range
  <2>2. {i \in DOMAIN s : binlog[s[i]] = k} = {i \in DOMAIN s : binlog'[s[i]] = k}
    BY <2>1
  <2> QED
    BY <2>2, ZenonT(60) DEF LastOn
<1>C. << >> \in Seq(Nat)
  OBVIOUS
<1>3. Uncommitted \in Seq(Nat) /\ Range(Uncommitted) \subseteq Positions
  BY <1>1, <1>C, RangeOne, ZenonT(60) DEF Uncommitted
<1>4. Sent' = Sent /\ Uncommitted' = Uncommitted
  BY <1>A DEF Sent, Uncommitted
<1> DEFINE u == LastOn(binlog, Uncommitted, k, ghost[k])
           q == LastOn(binlog, queue, k, u)
<1>5. u = LastOn(binlog', Uncommitted, k, ghost[k])
  BY <1>2, <1>3
<1>6. q = LastOn(binlog', queue, k, u)
  <2> HIDE DEF u
  <2> QED
    BY <1>1, <1>2
<1>7. LastOn(binlog, Sent, k, q) = LastOn(binlog', Sent, k, q)
  <2> HIDE DEF q
  <2> QED
    BY <1>1, <1>2
<1>8. Arriving(k) = LastOn(binlog, Sent, k, q)
  BY DEF Arriving
<1>9. Arriving(k)' = LastOn(binlog', Sent, k,
                        LastOn(binlog', queue, k, LastOn(binlog', Uncommitted, k, ghost[k])))
  BY <1>A, <1>4 DEF Arriving
<1> HIDE DEF u, q
<1> QED
  BY <1>5, <1>6, <1>7, <1>8, <1>9

\* Every step keeps the last event on a row, once read, the last to arrive.
LEMMA FlowStep ==
    ASSUME Steady, TypeOK, TypeOK', ReaderInv, IdleInv, ChainInv, CutOverInv, FlowInv,
           SafeInv, [Next]_vars
    PROVE  FlowInv'
<1> USE DEF tableVars, mainVars, readerVars, writerVars
<1> SUFFICES ASSUME Registered', NEW k \in Keys,
                    owed' < LastEvent(k)', LastEvent(k)' <= readPos'
             PROVE  Arriving(k)' = LastEvent(k)'
  BY DEF FlowInv
<1>0. /\ Len(binlog) \in Nat /\ owed \in 0..Len(binlog) /\ readPos \in 0..Len(binlog)
      /\ checkpoint.coords \in 0..Len(binlog) /\ LastEvent(k) \in 0..Len(binlog)
  <2>1. owed \in 0..Len(binlog)
    BY ZenonT(60) DEF TypeOK
  <2>2. LastEvent(k) \in 0..Len(binlog)
    BY LastEventIs
  <2> QED
    BY <2>1, <2>2, Types, Numbers
<1>1. Registered /\ owed < LastEvent(k) /\ LastEvent(k) <= readPos
         => Arriving(k) = LastEvent(k)
  BY DEF FlowInv
<1>2. binlog' = binlog => LastEvent(k)' = LastEvent(k)
  BY DEF LastEvent, Positions
<1>3. ASSUME UNCHANGED <<binlog, owed, readPos, ghost, events, inHand, queue, batch, writer>>,
             Registered
      PROVE  Arriving(k)' = LastEvent(k)'
  <2>1. Arriving(k)' = Arriving(k)
    BY <1>3 DEF Arriving, Sent, Uncommitted
  <2> QED
    BY <1>1, <1>2, <1>3, <2>1
<1>4. CASE ReadEvent
  <2>1. UNCHANGED <<binlog, owed, process, initial>> /\ readPos' = readPos + 1
    BY <1>4 DEF ReadEvent
  <2>2. Registered
    BY <2>1 DEF Registered
  <2>3. owed < LastEvent(k) /\ LastEvent(k) <= readPos + 1
    BY <1>2, <2>1
  <2> QED
    BY <1>2, <1>4, <2>1, <2>2, <2>3, ReadArrives, SMTT(30)
<1>5. CASE SendEntry \/ Dispatcher \/ Writer
  <2>1. UNCHANGED <<binlog, owed, process, initial, readPos>>
    BY <1>5 DEF SendEntry, Dispatcher, Dispatch, EnqueueSentinel, Writer, HandleNonDML,
                CollectBatch, ApplyBatch, AcknowledgeBatch
  <2>2. Registered
    BY <2>1 DEF Registered
  <2>3. Arriving(k)' = Arriving(k)
    BY <1>5, ArrivingKept
  <2> QED
    BY <1>1, <1>2, <2>1, <2>2, <2>3, SMTT(30)
<1>6. CASE Reconnect
  <2>1. /\ UNCHANGED <<binlog, owed, process, initial>> /\ process # "down"
        /\ lastTrx # 0 \/ connectedAt = initial
        /\ readPos' = IF lastTrx # 0 THEN lastTrx ELSE initial
    BY <1>6 DEF Reconnect, Steady
  <2>2. Registered
    BY <2>1 DEF Registered
  <2>3. Arriving(k)' = Arriving(k)
    BY <1>6, ArrivingKept
  <2>4. connectedAt <= readPos /\ lastTrx <= readPos
    BY <2>1 DEF ReaderInv
  <2>5. readPos' <= readPos
    BY <2>1, <2>4
  <2>6. readPos' \in Nat
    <3>1. (readPos \in Nat)'
      BY Numbers, PTL
    <3> QED
      BY <3>1
  <2>7. LastEvent(k) <= readPos
    BY <1>0, <1>2, <2>1, <2>5, <2>6, SMTT(30)
  <2> QED
    BY <1>1, <1>2, <2>1, <2>2, <2>3, <2>7, SMTT(30)
<1>7. CASE Transact \/ InjectHeartbeat \/ InjectSentinel
  <2>1. UNCHANGED <<owed, readPos, ghost, events, inHand, queue, batch, writer, process, initial>>
    BY <1>7 DEF Transact, InjectHeartbeat, InjectSentinel
  <2>2. Registered
    BY <2>1 DEF Registered
  <2>3. PICK rows \in Seq(Entries) : Log(rows)
    BY <1>7, ChangelogEntries, ZenonT(60) DEF Transact, InjectHeartbeat, InjectSentinel
  <2>4. /\ binlog' \in Seq(Entries) /\ Grows(binlog, binlog') /\ Len(binlog') \in Nat
        /\ \A p \in Positions : binlog[p] = binlog'[p]
    BY <2>3, LogTypes, SMTT(30)
  <2>5. LastEvent(k)' = LastOf(binlog', k) /\ LastEvent(k) = LastOf(binlog, k)
    BY DEF LastEvent, LastOf, Positions
  <2>6. LastEvent(k)' = LastEvent(k)
    <3>1. binlog \in Seq(Entries)
      BY Types
    <3>2. LastOf(binlog', k) \in 0..Len(binlog')
      BY <2>4, LastOfIs
    <3>3. LastOf(binlog', k) <= Len(binlog)
      BY <1>0, <2>1, <2>4, <2>5, <3>2, SMTT(30)
    <3> QED
      BY <2>4, <2>5, <3>1, <3>3, LastOfGrows
  <2>7. Arriving(k) = Arriving(k)'
    BY <2>1, <2>3, ArrivingGrows
  <2> QED
    BY <1>1, <2>1, <2>2, <2>6, <2>7, SMTT(30)
<1>8. CASE AddDMLEventsListener
  <2>1. /\ UNCHANGED <<binlog, readPos, ghost, events, inHand, queue, batch, writer>>
        /\ process = "streaming"
        /\ (initial = 0 /\ owed' = Len(binlog)) \/ (initial # 0 /\ owed' = owed)
    BY <1>8 DEF AddDMLEventsListener
  <2>2. CASE initial = 0 /\ owed' = Len(binlog)
    BY <1>0, <1>2, <2>1, <2>2, SMTT(30)
  <2>3. CASE initial # 0 /\ owed' = owed
    BY <1>3, <2>1, <2>3 DEF Registered
  <2> QED
    BY <2>1, <2>2, <2>3
<1>9. CASE Checkpointer \/ ReceiveLockProcessed \/ CutOverFails \/ CheckpointAfterCutOver
  <2>1. /\ UNCHANGED <<binlog, owed, readPos, ghost, events, inHand, queue, batch, writer>>
        /\ UNCHANGED <<process, initial>>
    BY <1>9 DEF Checkpointer, BeginCheckpoint, WriteCheckpoint, CheckpointFails,
                ReceiveLockProcessed, CutOverFails, CheckpointAfterCutOver
  <2>2. Registered
    BY <2>1 DEF Registered
  <2> QED
    BY <1>3, <2>1, <2>2, SMTT(30)
<1>10. CASE Swap
  <2>1. binlog' = binlog /\ owed' = Len(binlog)
    BY <1>10, ZenonT(60) DEF Swap
  <2> QED
    BY <1>0, <1>2, <2>1, SMTT(30)
<1>11. CASE ProcessEnds
  BY <1>11 DEF ProcessEnds, Registered
<1>12. CASE Resume
  <2>1. /\ UNCHANGED <<binlog, owed, ghost, events, inHand, queue, batch, writer>>
        /\ readPos' = checkpoint.coords /\ table = "original" /\ process = "down"
    BY <1>12 DEF Resume, StartStreaming
  <2>2. ghost[k] = LastEvent(k)
    <3>1. owed < LastEvent(k) /\ LastEvent(k) <= checkpoint.coords
      BY <1>2, <2>1
    <3>2. UpToDate(k)
      BY <2>1, <3>1 DEF SafeInv
    <3> QED
      BY <1>0, <3>1, <3>2 DEF UpToDate
  <2>3. InLine = {}
    <3>1. Sent = << >> /\ batch = << >> /\ queue = << >>
      BY <2>1 DEF Sent, IdleInv
    <3> QED
      BY <3>1, RangeOne, ZenonT(60) DEF InLine
  <2>4. Arriving(k) = ghost[k]
    BY <2>3, ArrivedAlready
  <2>5. Arriving(k)' = Arriving(k)
    BY <2>1 DEF Arriving, Sent, Uncommitted
  <2> QED
    BY <1>2, <2>1, <2>2, <2>4, <2>5, SMTT(30)
<1>13. CASE Revert
  <2>1. /\ UNCHANGED <<binlog, owed>> /\ readPos' = checkpoint.coords
        /\ table = "ghost" /\ checkpoint.cutover
    BY <1>13 DEF Revert, StartStreaming
  <2>2. checkpoint.coords <= owed
    BY <2>1, SMTT(30) DEF CutOverInv
  <2> QED
    BY <1>0, <1>2, <2>1, <2>2, SMTT(30)
<1>14. CASE Terminated \/ UNCHANGED vars
  <2>1. /\ UNCHANGED <<binlog, owed, readPos, ghost, events, inHand, queue, batch, writer>>
        /\ UNCHANGED <<process, initial>>
    BY <1>14 DEF Terminated, vars
  <2>2. Registered
    BY <2>1 DEF Registered
  <2> QED
    BY <1>3, <2>1, <2>2
<1> QED
  BY <1>4, <1>5, <1>6, <1>7, <1>8, <1>9, <1>10, <1>11, <1>12, <1>13, <1>14, SMTT(30)
     DEF Next, Reader, CutOver

-----------------------------------------------------------------------------
(* A checkpoint stays a safe place to resume at.                           *)

\* Every step keeps the checkpoint behind what is applied.
LEMMA SafeStep ==
    ASSUME TypeOK, TypeOK', ReaderInv, BarrierInv, FlowInv, SafeInv, [Next]_vars
    PROVE  SafeInv'
<1> USE DEF tableVars, mainVars, readerVars, writerVars
<1> SUFFICES ASSUME table' = "original", NEW k \in Keys,
                    LastEvent(k)' <= checkpoint'.coords
             PROVE  UpToDate(k)'
  BY DEF SafeInv
<1>0. /\ Len(binlog) \in Nat /\ owed \in 0..Len(binlog) /\ table = "original"
      /\ checkpoint.coords \in 0..Len(binlog) /\ LastEvent(k) \in 0..Len(binlog)
      /\ appliedTrx \in 0..Len(binlog)
  <2>1. owed \in 0..Len(binlog)
    BY ZenonT(60) DEF TypeOK
  <2>2. LastEvent(k) \in 0..Len(binlog) /\ Len(binlog) \in Nat
    BY LastEventIs
  <2>3. table = "original"
    BY Awaited
  <2> QED
    BY <2>1, <2>2, <2>3, Numbers
<1>1. LastEvent(k) <= checkpoint.coords => UpToDate(k)
  BY <1>0 DEF SafeInv
<1>2. binlog' = binlog => LastEvent(k)' = LastEvent(k)
  BY DEF LastEvent, Positions
<1>3. ASSUME UNCHANGED <<binlog, ghost, owed, checkpoint>>
      PROVE  UpToDate(k)'
  BY <1>1, <1>2, <1>3 DEF UpToDate
<1>4. CASE Transact \/ InjectHeartbeat \/ InjectSentinel
  <2>1. UNCHANGED <<ghost, owed, checkpoint>>
    BY <1>4 DEF Transact, InjectHeartbeat, InjectSentinel
  <2>2. PICK rows \in Seq(Entries) : Log(rows)
    BY <1>4, ChangelogEntries, ZenonT(60) DEF Transact, InjectHeartbeat, InjectSentinel
  <2>3. binlog' \in Seq(Entries) /\ Grows(binlog, binlog') /\ binlog \in Seq(Entries)
    BY <2>2, LogTypes, Types
  <2>4. LastEvent(k)' = LastOf(binlog', k) /\ LastEvent(k) = LastOf(binlog, k)
    BY DEF LastEvent, LastOf, Positions
  <2>5. LastOf(binlog', k) <= Len(binlog)
    <3>1. LastOf(binlog', k) \in Int
      BY <2>3, LastOfIs
    <3> QED
      BY <1>0, <2>1, <2>4, <3>1
  <2>6. LastEvent(k)' = LastEvent(k)
    BY <2>3, <2>4, <2>5, LastOfGrows, SMTT(30)
  <2> QED
    BY <1>1, <2>1, <2>6 DEF UpToDate
<1>5. CASE ApplyBatch
  <2>1. UNCHANGED <<binlog, owed, checkpoint>> /\ process = "writing"
    BY <1>5 DEF ApplyBatch
  <2>2. LastEvent(k) <= checkpoint.coords
    BY <1>2, <2>1, SMTT(30)
  <2>3. ghost'[k] = LastOn(binlog, batch, k, ghost[k])
    BY <1>5 DEF ApplyBatch, LastOn
  <2>4. Behind(binlog, checkpoint.coords, InLine)
    BY <1>0, <2>1 DEF BarrierInv, Clear
  <2>5. \A x \in Range(batch) : binlog[x] # k
    <3> SUFFICES ASSUME NEW x \in Range(batch), binlog[x] = k
                 PROVE  FALSE
      OBVIOUS
    <3>1. checkpoint.coords < x
      BY <2>4 DEF Behind, InLine
    <3>2. x \in 1..Len(binlog)
      BY Types
    <3>3. x <= LastEvent(k)
      BY <3>2, LastEventIs
    <3> QED
      BY <1>0, <2>2, <3>1, <3>2, <3>3
  <2>6. \A v : LastOn(binlog, batch, k, v) = v
    BY <2>5, NothingOnBatch
  <2> QED
    BY <1>1, <1>2, <2>1, <2>2, <2>3, <2>6, SMTT(30) DEF UpToDate
<1>6. CASE WriteCheckpoint
  <2>1. /\ UNCHANGED <<binlog, owed, ghost>> /\ checkpoint'.coords = appliedTrx
        /\ process = "writing"
    BY <1>6 DEF WriteCheckpoint
  <2>2. LastEvent(k) <= appliedTrx
    BY <1>2, <2>1
  <2>3. Clear(binlog, RestartPos, InLine, appliedTrx)
    BY <2>1 DEF BarrierInv
  <2>4. UpToDate(k)
    BY <1>0, <2>1, <2>2, <2>3, Settled, SMTT(30)
  <2> QED
    BY <1>2, <2>1, <2>4 DEF UpToDate
<1>7. CASE AddDMLEventsListener
  <2>1. /\ UNCHANGED <<binlog, ghost, checkpoint>>
        /\ owed' = Len(binlog) \/ owed' = owed
    BY <1>7 DEF AddDMLEventsListener
  <2>2. CASE owed' = Len(binlog)
    BY <1>0, <1>2, <2>1, <2>2, SMTT(30) DEF UpToDate
  <2> QED
    BY <1>3, <2>1, <2>2
<1>8. CASE Reader \/ Reconnect \/ Dispatcher
  BY <1>3, <1>8, SMTT(30) DEF Reader, ReadEvent, SendEntry, Reconnect, Dispatcher, Dispatch,
                    EnqueueSentinel
<1>9. CASE HandleNonDML \/ CollectBatch \/ AcknowledgeBatch \/ BeginCheckpoint \/ CheckpointFails
  BY <1>3, <1>9 DEF HandleNonDML, CollectBatch, AcknowledgeBatch, BeginCheckpoint,
                    CheckpointFails
<1>10. CASE ReceiveLockProcessed \/ CutOverFails \/ Swap \/ CheckpointAfterCutOver
  BY <1>0, <1>3, <1>10, SMTT(30) DEF ReceiveLockProcessed, CutOverFails, Swap,
                                     CheckpointAfterCutOver
<1>11. CASE ProcessEnds \/ Resume \/ Revert \/ Terminated \/ UNCHANGED vars
  BY <1>3, <1>11 DEF ProcessEnds, Resume, Revert, Terminated, vars
<1> QED
  BY <1>4, <1>5, <1>6, <1>7, <1>8, <1>9, <1>10, <1>11, SMTT(30) DEF Next, Writer,
                                                                    Checkpointer, CutOver

-----------------------------------------------------------------------------
(* The theorems.                                                           *)

\* The invariant holds initially.
LEMMA InitInv ==
    ASSUME Init
    PROVE  IndInv
<1> USE DEF Init
<1>0. Sent = << >>
  <2>1. events = << >> /\ inHand = << >>
    OBVIOUS
  <2> HIDE DEF Init
  <2> QED
    BY <2>1 DEF Sent
<1>1. Len(binlog) = 0 /\ Positions = {}
  BY DEF Positions
<1>2. Range(batch) = {} /\ Range(queue) = {} /\ Range(events) = {} /\ Range(Sent) = {}
  BY <1>0, RangeOne, ZenonT(60)
<1>3. RestartPos = 0 /\ InLine = {}
  BY <1>2 DEF RestartPos, InLine
<1>4. TypeOK
  <2>1. << >> \in Seq(Positions) /\ << >> \in Seq(Entries) /\ Len(<< >>) = 0
    OBVIOUS
  <2>2. ghost \in [Keys -> 0..Len(binlog)]
    BY <1>1
  <2>3. checkpoint \in [coords : 0..Len(binlog), cutover : BOOLEAN]
    BY <1>1 DEF NoCheckpoint
  <2>4. /\ QueueSize \in Nat /\ MaxReconnects \in Nat /\ MaxCrashes \in Nat
    BY PipelineAssumption
  <2> QED
    BY <1>1, <2>1, <2>2, <2>3, <2>4, SMTT(30) DEF TypeOK, Entries
<1>5. LogInv
  BY <1>1 DEF LogInv, Complete
<1>6. ReaderInv /\ IdleInv /\ CutOverInv
  BY <1>1 DEF ReaderInv, IdleInv, CutOverInv
<1>7. ChainInv
  <2>1. Ordered(binlog, batch) /\ Ordered(binlog, queue) /\ Ordered(binlog, Sent)
    BY <1>0, OrderedOne, ZenonT(60)
  <2>2. enqueuing = {} /\ inHand = << >>
    OBVIOUS
  <2> HIDE DEF Init
  <2> QED
    BY <1>2, <2>1, <2>2 DEF ChainInv, Follows, Passed
<1>8. BarrierInv
  <2>1. Clear(binlog, RestartPos, InLine, 0)
    BY <1>1, <1>3 DEF Clear, Past, Behind
  <2>2. checkpoint.coords = 0
    BY DEF NoCheckpoint
  <2> QED
    BY <2>1, <2>2 DEF BarrierInv
<1>9. FlowInv
  BY DEF FlowInv, Registered
<1>10. SafeInv
  <2> SUFFICES ASSUME NEW k \in Keys
               PROVE  UpToDate(k)
    BY DEF SafeInv
  <2>1. LastEvent(k) = 0
    BY <1>1, <1>4, LastEventIs
  <2> QED
    BY <2>1 DEF UpToDate
<1> QED
  BY <1>4, <1>5, <1>6, <1>7, <1>8, <1>9, <1>10 DEF IndInv

\* The invariant is inductive: what the application, the server, the four goroutines of
\* the pipeline, the cut-over, a crash and a restart do, each preserves all of it.
LEMMA NextInv ==
    ASSUME Steady, IndInv, [Next]_vars
    PROVE  IndInv'
<1>1. TypeOK'
  BY TypeStep DEF IndInv
<1>2. LogInv' /\ IdleInv'
  BY LogStep, IdleStep DEF IndInv
<1>3. ReaderInv' /\ CutOverInv'
  BY <1>1, ReaderStep, CutOverStep DEF IndInv
<1>4. ChainInv'
  BY <1>1, ChainStep DEF IndInv
<1>5. BarrierInv'
  BY <1>1, BarrierStep DEF IndInv
<1>6. FlowInv'
  BY <1>1, FlowStep DEF IndInv
<1>7. SafeInv'
  BY <1>1, SafeStep DEF IndInv
<1> QED
  BY <1>1, <1>2, <1>3, <1>4, <1>5, <1>6, <1>7, SMTT(30) DEF IndInv

\* The invariant holds throughout.
LEMMA Inductive ==
    ASSUME Steady
    PROVE  Spec => []IndInv
<1>1. Init => IndInv
  BY InitInv
<1>2. IndInv /\ [Next]_vars => IndInv'
  BY NextInv
<1> QED
  BY <1>1, <1>2, PTL DEF Spec

\* The channel between reader and dispatcher and applyEventsQueue stay within their
\* capacities, and every coordinate gh-ost keeps is one of the binlog.
THEOREM TypeCorrect ==
    ASSUME Steady
    PROVE  Spec => []TypeOK
<1>1. IndInv => TypeOK
  BY DEF IndInv
<1> QED
  BY <1>1, Inductive, PTL

\* No event is lost between the binlog and the ghost table, and none is applied for good
\* after a later one on its row: for any number of keys, transactions, reconnects, crashes
\* and resumes, any queue and batch size, file positions and GTIDs.
THEOREM NothingLost ==
    ASSUME Steady
    PROVE  Spec => []DrainedMeansApplied
<1>1. ASSUME IndInv
      PROVE  DrainedMeansApplied
  <2> SUFFICES ASSUME Drained, NEW k \in Keys, LastEvent(k) > owed
               PROVE  ghost[k] = LastEvent(k)
    BY DEF DrainedMeansApplied, UpToDate
  <2>1. TypeOK /\ IdleInv /\ FlowInv
    BY <1>1 DEF IndInv
  <2>2. /\ process = "writing" /\ readPos = Len(binlog)
        /\ inHand = << >> /\ events = << >> /\ queue = << >> /\ batch = << >>
    BY <2>1 DEF Drained, IdleInv
  <2>3. InLine = {}
    <3>1. Sent = << >>
      BY <2>2 DEF Sent
    <3> QED
      BY <2>2, <3>1, RangeOne, ZenonT(60) DEF InLine
  <2>4. Arriving(k) = ghost[k]
    BY <2>1, <2>3, ArrivedAlready
  <2>5. LastEvent(k) \in 0..Len(binlog) /\ Len(binlog) \in Nat /\ owed \in Nat
    <3>1. owed \in 0..Len(binlog)
      BY <2>1, ZenonT(60) DEF TypeOK
    <3>2. LastEvent(k) \in 0..Len(binlog) /\ Len(binlog) \in Nat
      BY <2>1, LastEventIs
    <3> QED
      BY <3>1, <3>2
  <2>6. Arriving(k) = LastEvent(k)
    BY <2>1, <2>2, <2>5 DEF FlowInv, Registered
  <2> QED
    BY <2>4, <2>6
<1>2. IndInv => DrainedMeansApplied
  BY <1>1
<1> QED
  BY <1>2, Inductive, PTL

\* When waitForEventsUpToLock has received its sentinel, every event written before the
\* lock is in the ghost table: the swap that follows loses none.
THEOREM LockIsDrained ==
    ASSUME Steady
    PROVE  Spec => []SyncedMeansApplied
<1>1. ASSUME IndInv
      PROVE  SyncedMeansApplied
  <2> SUFFICES ASSUME main = "synced", NEW k \in Keys
               PROVE  UpToDate(k)
    BY DEF SyncedMeansApplied
  <2>1. TypeOK /\ ReaderInv /\ IdleInv /\ BarrierInv /\ CutOverInv /\ FlowInv
    BY <1>1 DEF IndInv
  <2>2. process = "writing"
    BY <2>1 DEF IdleInv
  <2>3. Clear(binlog, RestartPos, InLine, challenge) /\ challenge \in 0..Len(binlog)
    BY <2>1, <2>2, Numbers DEF BarrierInv
  <2>4. LastEvent(k) <= challenge
    <3>1. /\ LastEvent(k) \in 0..Len(binlog) /\ Len(binlog) \in Nat
          /\ LastEvent(k) # 0 => binlog[LastEvent(k)] = k
      BY <2>1, LastEventIs
    <3>2. \A r \in Positions : IsRow(r) => r < challenge
      BY <2>1 DEF CutOverInv
    <3>3. LastEvent(k) # 0 => LastEvent(k) < challenge
      BY <3>1, <3>2 DEF Positions, IsRow
    <3> QED
      BY <2>3, <3>1, <3>3
  <2> QED
    BY <2>1, <2>2, <2>3, <2>4, Settled
<1>2. IndInv => SyncedMeansApplied
  BY <1>1
<1> QED
  BY <1>2, Inductive, PTL

\* A process that ends at any moment leaves a checkpoint that is a safe place to resume
\* at: Migrator.Checkpoint never persists coordinates past an event that is not applied.
THEOREM CheckpointsAreSafe ==
    ASSUME Steady
    PROVE  Spec => []CheckpointIsSafe
<1>1. IndInv => CheckpointIsSafe
  BY DEF IndInv, SafeInv, CheckpointIsSafe
<1> QED
  BY <1>1, Inductive, PTL

=============================================================================
