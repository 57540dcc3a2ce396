-------------------------- MODULE EventPipelineInv --------------------------
(***************************************************************************)
(* No event of the binlog is lost on its way to the ghost table, for any   *)
(* number of keys, transactions, reconnects, crashes and resumes, and any  *)
(* size of applyEventsQueue and of a batch: the inductive invariant, and   *)
(* its parts about the log, the reader, the cut-over and the types.        *)
(* EventPipelineOrder proves the parts about the order of the entries in   *)
(* the pipeline, EventPipelineProofs those about the rows, and the         *)
(* theorems.                                                               *)
(***************************************************************************)
EXTENDS EventPipeline, WellFoundedInduction, TLAPS

\* The conditions of the theorems: no row is written while a resumed process does not
\* listen yet, and a reader completes a transaction before it fails again.
Steady == "window" \notin Faults /\ "fresh" \notin Faults

-----------------------------------------------------------------------------
(* Entries of a log b: the reader will start again at r.                   *)

\* No row before p will be read again.
Past(b, r, p) == \A i \in 1..Len(b) : b[i] \in Keys /\ i < p => i <= r

\* Every row in S comes after p in the log.
Behind(b, p, S) == \A x \in S : b[x] \in Keys => p < x

\* Neither among S nor in what will be read again is a row before p.
Clear(b, r, S, p) == (p # 0 => b[p] \notin Keys) /\ Past(b, r, p) /\ Behind(b, p, S)

\* A row behind a marker or a function comes after it in the log.
Ordered(b, s) ==
    \A i, j \in 1..Len(s) : i < j /\ b[s[i]] \notin Keys /\ b[s[j]] \in Keys => s[i] < s[j]
Follows(b, S, T) == \A x \in S : b[x] \notin Keys => Behind(b, x, T)
Passed(b, r, S) == \A x \in S : b[x] \notin Keys => Past(b, r, x)

\* The row of key k once s has gone through the writer, if it is v before.
LastOn(b, s, k, v) ==
    LET onK == {i \in DOMAIN s : b[s[i]] = k}
    IN  IF onK = {} THEN v ELSE s[Max(onK)]

LastOf(b, k) == Max({0} \cup {i \in 1..Len(b) : b[i] = k})
Recorded(b, s) == b \o <<"gtid">> \o s \o <<"xid">>
Grows(b, c) == Len(b) <= Len(c) /\ \A i \in 1..Len(b) : c[i] = b[i]
Entries == Keys \cup {"gtid", "xid", "heartbeat", "sentinel"}

-----------------------------------------------------------------------------
(* The inductive invariant.                                                *)

\* A transaction ends with its XID event, and what is written to the changelog is a
\* transaction of its own.
Complete(b) ==
    /\ Len(b) > 0 => b[Len(b)] = "xid"
    /\ \A p \in 1..Len(b) : b[p] \in {"heartbeat", "sentinel"} =>
          p > 1 /\ b[p - 1] \notin Keys /\ (p > 2 => b[p - 2] = "xid")
LogInv == Complete(binlog)

\* Where the reader would go on if its connection failed now.
RestartPos == IF lastTrx # 0 THEN lastTrx ELSE connectedAt

\* What the reader has completed it need not read again, and what it has skipped is
\* before the listener was first registered, or before it.
ReaderInv ==
    /\ inHand # << >> => inHand = <<readPos>> /\ binlog[readPos] # "gtid"
    /\ undecoded <= owed \/ undecoded <= readPos
    /\ process # "down" =>
          /\ connectedAt <= readPos /\ lastTrx <= readPos
          /\ lastTrx # 0 => connectedAt <= lastTrx
          /\ \A i \in Positions : IsMarker(i) /\ i <= readPos
                => i <= RestartPos \/ inHand = <<i>>

\* The writer holds a batch while it is at work, a process that ended holds nothing.
IdleInv ==
    /\ writer = "idle" <=> batch = << >>
    /\ main \in {"waiting", "synced"} => process = "writing"
    /\ process = "down" =>
          /\ lockProcessed = 0 /\ lastTrx = 0 /\ appliedTrx = 0 /\ undecoded = 0
          /\ inHand = << >> /\ events = << >> /\ enqueuing = {} /\ queue = << >>
          /\ batch = << >>

\* What the reader has read and the dispatcher has not seen; what is in the pipeline.
Sent == events \o inHand
InLine == Range(batch) \cup Range(queue) \cup Range(Sent)

\* Rows never get ahead of the markers and the functions that come before them.
ChainInv ==
    /\ Ordered(binlog, batch) /\ Ordered(binlog, queue) /\ Ordered(binlog, Sent)
    /\ Follows(binlog, Range(batch), Range(queue))
    /\ Follows(binlog, Range(batch), Range(Sent))
    /\ Follows(binlog, Range(queue), Range(Sent))
    /\ \A p \in enqueuing : ~IsRow(p) /\ Behind(binlog, p, Range(Sent))
    /\ process # "down" =>
          /\ Passed(binlog, RestartPos, Range(batch))
          /\ Passed(binlog, RestartPos, Range(queue))
          /\ Passed(binlog, RestartPos, Range(events))
          /\ Passed(binlog, RestartPos, enqueuing)
          /\ inHand # << >> /\ IsFunc(readPos) => Past(binlog, RestartPos, readPos)

\* What is acknowledged, or awaited and reported, has nothing before it under way.
BarrierInv ==
    /\ checkpoint.coords # 0 /\ table = "original" => ~IsRow(checkpoint.coords)
    /\ process # "down" =>
          /\ Clear(binlog, RestartPos, InLine, appliedTrx)
          /\ Clear(binlog, RestartPos, InLine, lockProcessed)
          /\ main = "synced" => Clear(binlog, RestartPos, InLine, challenge)
          /\ table = "original" => Clear(binlog, RestartPos, InLine, checkpoint.coords)

\* Where the sentinel is, and what the cut-over leaves for --revert.
CutOverInv ==
    /\ main # "running" =>
          /\ challenge > 0 /\ challenge < Len(binlog)
          /\ binlog[challenge] = "sentinel" /\ IsMarker(challenge + 1)
    /\ main \in {"waiting", "synced"} => \A r \in Positions : IsRow(r) => r < challenge
    /\ main = "swapped" => challenge < owed
    /\ table = "ghost" /\ checkpoint.cutover => checkpoint.coords <= owed

\* The row of key k once everything in the pipeline is applied.
Uncommitted == IF writer = "batch" THEN batch ELSE << >>
Arriving(k) ==
    LastOn(binlog, Sent, k,
           LastOn(binlog, queue, k, LastOn(binlog, Uncommitted, k, ghost[k])))

Registered == process = "writing" \/ (process = "streaming" /\ initial # 0)

\* An event that was read arrives, and nothing on its row arrives after it.
FlowInv ==
    Registered =>
        \A k \in Keys : owed < LastEvent(k) /\ LastEvent(k) <= readPos
                            => Arriving(k) = LastEvent(k)

\* CheckpointIsSafe, whichever checkpoint it is.
SafeInv ==
    table = "original" =>
        \A k \in Keys : LastEvent(k) <= checkpoint.coords => UpToDate(k)

IndInv ==
    /\ TypeOK /\ LogInv /\ ReaderInv /\ IdleInv /\ ChainInv /\ BarrierInv /\ CutOverInv
    /\ FlowInv /\ SafeInv

-----------------------------------------------------------------------------
(* Sequences of entries.                                                   *)

\* The entries of two sequences, one after the other.
LEMMA Joined ==
    ASSUME NEW E, NEW s \in Seq(E), NEW t \in Seq(E)
    PROVE  /\ s \o t \in Seq(E)
           /\ Len(s) \in Nat /\ Len(t) \in Nat /\ Len(s \o t) = Len(s) + Len(t)
           /\ \A i \in 1..Len(s) : (s \o t)[i] = s[i]
           /\ \A i \in 1..Len(t) : (s \o t)[Len(s) + i] = t[i]
OBVIOUS

\* What two sequences, one after the other, hold.
LEMMA RangeJoined ==
    ASSUME NEW s \in Seq(Nat), NEW t \in Seq(Nat)
    PROVE  Range(s \o t) = Range(s) \cup Range(t)
<1> DEFINE c == s \o t
<1>1. /\ c \in Seq(Nat) /\ Len(c) = Len(s) + Len(t) /\ Len(s) \in Nat /\ Len(t) \in Nat
      /\ \A i \in 1..Len(s) : c[i] = s[i]
      /\ \A i \in 1..Len(t) : c[Len(s) + i] = t[i]
  BY Joined
<1>R. \A u \in Seq(Nat) : \A x : x \in Range(u) <=> \E i \in 1..Len(u) : x = u[i]
  BY DEF Range
<1>2. /\ \A x : x \in Range(s) <=> \E i \in 1..Len(s) : x = s[i]
      /\ \A x : x \in Range(t) <=> \E i \in 1..Len(t) : x = t[i]
  BY <1>R, ZenonT(60)
<1> HIDE DEF c
<1>3. \A x : x \in Range(c) <=> \E i \in 1..Len(c) : x = c[i]
  BY <1>1, <1>R, ZenonT(60)
<1>4. ASSUME NEW x \in Range(c) PROVE x \in Range(s) \cup Range(t)
  <2>1. PICK i \in 1..Len(c) : x = c[i]
    BY <1>3
  <2>2. CASE i <= Len(s)
    <3>1. i \in 1..Len(s)
      BY <1>1, <2>2
    <3>2. x = s[i]
      BY <1>1, <2>1, <3>1, ZenonT(60)
    <3> QED
      BY <1>2, <3>1, <3>2, ZenonT(60)
  <2>3. CASE i > Len(s)
    <3>1. i - Len(s) \in 1..Len(t) /\ i = Len(s) + (i - Len(s))
      BY <1>1, <2>3
    <3>2. x = t[i - Len(s)]
      BY <1>1, <2>1, <3>1, ZenonT(60)
    <3> QED
      BY <1>2, <3>1, <3>2, ZenonT(60)
  <2> QED
    BY <1>1, <2>2, <2>3
<1>5. ASSUME NEW x \in Range(s) PROVE x \in Range(c)
  <2>1. PICK i \in 1..Len(s) : x = s[i]
    BY <1>2
  <2>2. i \in 1..Len(c)
    BY <1>1
  <2>3. x = c[i]
    BY <1>1, <2>1, ZenonT(60)
  <2> QED
    BY <1>3, <2>2, <2>3, ZenonT(60)
<1>6. ASSUME NEW x \in Range(t) PROVE x \in Range(c)
  <2>1. PICK i \in 1..Len(t) : x = t[i]
    BY <1>2
  <2>2. Len(s) + i \in 1..Len(c)
    BY <1>1
  <2>3. x = c[Len(s) + i]
    BY <1>1, <2>1, ZenonT(60)
  <2> QED
    BY <1>3, <2>2, <2>3, ZenonT(60)
<1> QED
  BY <1>4, <1>5, <1>6 DEF c

\* An element of a sequence is of the type of its elements.
LEMMA Element == ASSUME NEW S, NEW s \in Seq(S), NEW i \in 1..Len(s) PROVE s[i] \in S
OBVIOUS

\* What a sequence of one entry holds, and an empty one.
LEMMA RangeOne == ASSUME NEW x PROVE Range(<<x>>) = {x} /\ Range(<< >>) = {}
BY DEF Range

\* A set of natural numbers that is not empty has a least element.
LEMMA Least ==
    ASSUME NEW T, T \subseteq Nat, T # {}
    PROVE  \E x \in T : \A y \in T : x <= y
<1> DEFINE R == OpToRel(<, Nat)
<1>1. \A x, y \in Nat : y < x => <<y, x>> \in R
  BY DEF OpToRel
<1>2. IsWellFoundedOn(R, Nat)
  BY NatLessThanWellFounded, ZenonT(60)
<1> HIDE DEF R
<1>3. PICK x \in T : \A y \in T : ~ (<<y, x>> \in R)
  BY <1>2, WFMin, ZenonT(60)
<1>4. ASSUME NEW y \in T PROVE x <= y
  <2>1. x \in Nat /\ y \in Nat /\ ~(y < x)
    BY <1>1, <1>3, ZenonT(60)
  <2> QED
    BY <2>1
<1> QED
  BY <1>4

\* Min of a set of positions is the first of them.
LEMMA MinIs ==
    ASSUME NEW T, T \subseteq Nat, T # {}
    PROVE  Min(T) \in T /\ \A y \in T : Min(T) <= y
BY Least, ZenonT(60) DEF Min

\* Max of a set of positions up to n is the last of them.
LEMMA MaxIs ==
    ASSUME NEW n \in Nat, NEW T, T \subseteq 0..n, T # {}
    PROVE  Max(T) \in T /\ \A y \in T : y <= Max(T)
<1> DEFINE D == {d \in Nat : \E x \in T : x + d = n}
<1>1. \A y \in T : y \in Nat /\ n - y \in Nat /\ y + (n - y) = n
  OBVIOUS
<1>2. \A y \in T : n - y \in D
  BY <1>1
<1>3. PICK d \in D : \A y \in D : d <= y
  <2>1. D # {} /\ D \subseteq Nat
    BY <1>2, ZenonT(60)
  <2> HIDE DEF D
  <2> QED
    BY <2>1, Least, ZenonT(60)
<1>4. PICK m \in T : d \in Nat /\ m + d = n
  OBVIOUS
<1>5. ASSUME NEW y \in T PROVE m >= y
  <2>1. d <= n - y
    BY <1>2, <1>3
  <2> QED
    BY <1>1, <1>4, <2>1
<1> HIDE DEF D
<1>6. Max(T) \in T /\ \A y \in T : Max(T) >= y
  BY <1>5, ZenonT(60) DEF Max
<1> QED
  BY <1>1, <1>6

\* The last row event on k in s, where there is one.
LEMMA LastIs ==
    ASSUME NEW b, NEW s \in Seq(Nat), NEW k, NEW v
    PROVE  /\ (\A x \in Range(s) : b[x] # k) => LastOn(b, s, k, v) = v
           /\ (\E x \in Range(s) : b[x] = k)
                 => LastOn(b, s, k, v) \in Range(s) /\ b[LastOn(b, s, k, v)] = k
<1> DEFINE onK == {i \in DOMAIN s : b[s[i]] = k}
<1>1. DOMAIN s = 1..Len(s) /\ Len(s) \in Nat
  OBVIOUS
<1>2. CASE onK = {}
  <2>1. \A x \in Range(s) : b[x] # k
    BY <1>2 DEF Range
  <2>2. LastOn(b, s, k, v) = v
    BY <1>2 DEF LastOn
  <2> QED
    BY <2>1, <2>2
<1>3. CASE onK # {}
  <2>1. onK \subseteq 0..Len(s)
    BY <1>1
  <2>2. LastOn(b, s, k, v) = s[Max(onK)]
    BY <1>3 DEF LastOn
  <2> HIDE DEF onK
  <2>3. Max(onK) \in onK
    BY <1>1, <1>3, <2>1, MaxIs, ZenonT(60)
  <2>4. Max(onK) \in DOMAIN s /\ b[s[Max(onK)]] = k
    BY <2>3 DEF onK
  <2> QED
    BY <2>2, <2>4 DEF Range
<1> QED
  BY <1>2, <1>3

-----------------------------------------------------------------------------
(* A growing log.                                                          *)

\* What recording a transaction makes of the log.
LEMMA Logged ==
    ASSUME NEW b \in Seq(Entries), NEW s \in Seq(Entries)
    PROVE  /\ Recorded(b, s) \in Seq(Entries) /\ Grows(b, Recorded(b, s))
           /\ Len(b) \in Nat /\ Len(s) \in Nat /\ Len(Recorded(b, s)) = Len(b) + Len(s) + 2
           /\ Recorded(b, s)[Len(b) + 1] = "gtid"
           /\ Recorded(b, s)[Len(Recorded(b, s))] = "xid"
           /\ \A i \in 1..Len(s) : Recorded(b, s)[Len(b) + 1 + i] = s[i]
           /\ \A i \in 1..Len(Recorded(b, s)) :
                 \/ i \in 1..Len(b) \/ i = Len(b) + 1 \/ i = Len(Recorded(b, s))
                 \/ i - Len(b) - 1 \in 1..Len(s)
<1> DEFINE c == Recorded(b, s)
<1> DEFINE d == b \o <<"gtid">>
           e == d \o s
<1>1. <<"gtid">> \in Seq(Entries) /\ <<"xid">> \in Seq(Entries)
  BY DEF Entries
<1>2. /\ d \in Seq(Entries) /\ Len(b) \in Nat /\ Len(d) = Len(b) + 1
      /\ d[Len(b) + 1] = "gtid" /\ \A i \in 1..Len(b) : d[i] = b[i]
  BY <1>1
<1> HIDE DEF d
<1>3. /\ e \in Seq(Entries) /\ Len(s) \in Nat /\ Len(e) = Len(d) + Len(s)
      /\ \A i \in 1..Len(d) : e[i] = d[i]
      /\ \A i \in 1..Len(s) : e[Len(d) + i] = s[i]
  <2>1. d \in Seq(Entries)
    BY <1>2
  <2> QED
    BY <2>1, Joined
<1>4. c = e \o <<"xid">>
  BY DEF d, Recorded
<1> HIDE DEF c, e
<1>5. /\ c \in Seq(Entries) /\ Len(c) = Len(e) + 1 /\ c[Len(e) + 1] = "xid"
      /\ \A i \in 1..Len(e) : c[i] = e[i]
  <2> DEFINE x == <<"xid">>
  <2>1. x \in Seq(Entries) /\ Len(x) = 1 /\ x[1] = "xid"
    BY <1>1
  <2>2. c = e \o x
    BY <1>4
  <2>3. e \in Seq(Entries) /\ x \in Seq(Entries)
    BY <1>3, <2>1
  <2> HIDE DEF x
  <2>4. /\ c \in Seq(Entries) /\ Len(e) \in Nat /\ Len(c) = Len(e) + Len(x)
        /\ \A i \in 1..Len(e) : c[i] = e[i]
        /\ \A i \in 1..Len(x) : c[Len(e) + i] = x[i]
    BY <2>2, <2>3, Joined
  <2> QED
    BY <2>1, <2>4
<1>6. Grows(b, c)
  BY <1>2, <1>3, <1>5 DEF Grows
<1>7. c[Len(b) + 1] = "gtid" /\ Len(c) = Len(b) + Len(s) + 2
  <2>1. Len(b) + 1 \in 1..Len(d) /\ Len(b) + 1 \in 1..Len(e)
    BY <1>2, <1>3
  <2>2. c[Len(b) + 1] = e[Len(b) + 1] /\ e[Len(b) + 1] = d[Len(b) + 1]
    BY <1>3, <1>5, <2>1
  <2> QED
    BY <1>2, <1>3, <1>5, <2>2
<1>8. ASSUME NEW i \in 1..Len(s) PROVE c[Len(b) + 1 + i] = s[i]
  BY <1>2, <1>3, <1>5
<1>9. ASSUME NEW i \in 1..Len(c)
      PROVE  \/ i \in 1..Len(b) \/ i = Len(b) + 1 \/ i = Len(c)
             \/ i - Len(b) - 1 \in 1..Len(s)
  <2> DEFINE l == Len(b)
             m == Len(s)
             n == Len(c)
  <2>1. l \in Nat /\ m \in Nat /\ n = l + m + 2 /\ i \in 1..n
    BY <1>2, <1>3, <1>7
  <2> HIDE DEF l, m, n
  <2>2. i \in 1..l \/ i = l + 1 \/ i = n \/ i - l - 1 \in 1..m
    BY <2>1
  <2> QED
    BY <2>2 DEF l, m, n
<1> QED
  BY <1>2, <1>3, <1>5, <1>6, <1>7, <1>8, <1>9 DEF c

\* What recording a transaction of one entry makes of the log.
LEMMA LoggedOne ==
    ASSUME NEW b \in Seq(Entries), NEW s \in Seq(Entries), Len(s) = 1,
           NEW c, c = Recorded(b, s)
    PROVE  /\ c \in Seq(Entries) /\ Grows(b, c) /\ Len(b) \in Nat /\ Len(c) = Len(b) + 3
           /\ c[Len(b) + 1] = "gtid" /\ c[Len(b) + 2] = s[1] /\ c[Len(b) + 3] = "xid"
<1>1. /\ c \in Seq(Entries) /\ Grows(b, c) /\ Len(b) \in Nat /\ Len(c) = Len(b) + Len(s) + 2
      /\ c[Len(b) + 1] = "gtid" /\ c[Len(c)] = "xid"
  BY Logged, ZenonT(60)
<1>2. \A i \in 1..Len(s) : c[Len(b) + 1 + i] = s[i]
  BY Logged, ZenonT(60)
<1>3. c[Len(b) + 1 + 1] = s[1]
  BY <1>2
<1>4. Len(b) + 1 + 1 = Len(b) + 2 /\ Len(c) = Len(b) + 3
  BY <1>1
<1> QED
  BY <1>1, <1>3, <1>4

\* The last row event on k in the log, or 0.
LEMMA LastOfIs ==
    ASSUME NEW b \in Seq(Entries), NEW k
    PROVE  /\ LastOf(b, k) \in 0..Len(b) /\ Len(b) \in Nat
           /\ LastOf(b, k) # 0 => b[LastOf(b, k)] = k
           /\ \A i \in 1..Len(b) : b[i] = k => i <= LastOf(b, k)
<1> DEFINE T == {0} \cup {i \in 1..Len(b) : b[i] = k}
<1>1. T \subseteq 0..Len(b) /\ T # {} /\ Len(b) \in Nat
  OBVIOUS
<1>2. Max(T) \in T /\ \A y \in T : y <= Max(T)
  <2> HIDE DEF T
  <2> QED
    BY <1>1, MaxIs, ZenonT(60)
<1>3. LastOf(b, k) = Max(T)
  BY DEF LastOf
<1> QED
  BY <1>1, <1>2, <1>3

-----------------------------------------------------------------------------
(* The types.                                                              *)

\* A sequence of positions of the log is one of positions of a longer log.
LEMMA WiderSeq ==
    ASSUME NEW S, NEW T, S \subseteq T, NEW s \in Seq(S)
    PROVE  s \in Seq(T) /\ Range(s) \subseteq S
BY DEF Range

\* The sequences of the pipeline hold positions of the binlog.
LEMMA Types ==
    ASSUME TypeOK
    PROVE  /\ binlog \in Seq(Entries) /\ Len(binlog) \in Nat /\ Positions = 1..Len(binlog)
           /\ {batch, queue, events, inHand, Sent} \subseteq Seq(Positions)
           /\ {batch, queue, events, inHand, Sent} \subseteq Seq(Nat)
           /\ Range(batch) \subseteq Positions /\ Range(queue) \subseteq Positions
           /\ Range(events) \subseteq Positions /\ Range(inHand) \subseteq Positions
           /\ Range(Sent) = Range(events) \cup Range(inHand)
           /\ InLine \subseteq Positions
           /\ RestartPos \in 0..Len(binlog) /\ readPos \in 0..Len(binlog)
           /\ enqueuing \subseteq Positions /\ Positions \subseteq Nat
<1>1. binlog \in Seq(Entries) /\ Len(binlog) \in Nat /\ Positions = 1..Len(binlog)
  <2>1. binlog \in Seq(Entries)
    BY ZenonT(60) DEF TypeOK, Entries
  <2> QED
    BY <2>1 DEF Positions
<1>2. {batch, queue, events, inHand} \subseteq Seq(Positions)
  BY ZenonT(60) DEF TypeOK
<1>3. Positions \subseteq Nat
  BY <1>1
<1>4. {batch, queue, events, inHand} \subseteq Seq(Nat)
  BY <1>2, <1>3, WiderSeq, ZenonT(60)
<1>5. /\ Range(batch) \subseteq Positions /\ Range(queue) \subseteq Positions
      /\ Range(events) \subseteq Positions /\ Range(inHand) \subseteq Positions
  BY <1>2, <1>3, WiderSeq
<1>6. Sent \in Seq(Positions) /\ Sent \in Seq(Nat)
  BY <1>2, <1>4 DEF Sent
<1>7. Range(Sent) = Range(events) \cup Range(inHand)
  BY <1>4, RangeJoined DEF Sent
<1>8. RestartPos \in 0..Len(binlog) /\ readPos \in 0..Len(binlog)
  BY ZenonT(60) DEF RestartPos, TypeOK
<1>9. enqueuing \subseteq Positions
  BY ZenonT(60) DEF TypeOK
<1> QED
  BY <1>1, <1>2, <1>3, <1>4, <1>5, <1>6, <1>7, <1>8, <1>9 DEF InLine

\* The coordinates that gh-ost keeps are numbers.
LEMMA Numbers ==
    ASSUME TypeOK
    PROVE  /\ readPos \in Nat /\ lastTrx \in Nat /\ connectedAt \in Nat
           /\ appliedTrx \in 0..Len(binlog) /\ lockProcessed \in 0..Len(binlog)
           /\ challenge \in 0..Len(binlog) /\ checkpoint.coords \in 0..Len(binlog)
<1>1. /\ readPos \in 0..Len(binlog) /\ lastTrx \in 0..Len(binlog)
      /\ connectedAt \in 0..Len(binlog)
  BY ZenonT(60) DEF TypeOK
<1>2. /\ appliedTrx \in 0..Len(binlog) /\ lockProcessed \in 0..Len(binlog)
      /\ challenge \in 0..Len(binlog) /\ checkpoint.coords \in 0..Len(binlog)
  BY ZenonT(60) DEF TypeOK
<1> QED
  BY <1>1, <1>2

\* The transaction of every event has its end in the log.
LEMMA Coords ==
    ASSUME TypeOK, LogInv, NEW p \in 0..Len(binlog)
    PROVE  /\ CoordsAt(p) \in 0..Len(binlog)
           /\ \A i \in Positions : p <= i /\ IsMarker(i) /\ 0 < p => CoordsAt(p) <= i
<1> DEFINE T == {i \in Positions : i >= p /\ IsMarker(i)}
<1>1. CASE UseGTIDs /\ p > 0
  <2>1. binlog # << >> /\ Len(binlog) \in Positions /\ T \subseteq Nat
    BY <1>1, Types
  <2>2. Len(binlog) \in T
    BY <1>1, <2>1, Types DEF LogInv, Complete, IsMarker
  <2>3. CoordsAt(p) = Min(T)
    BY <1>1 DEF CoordsAt
  <2> HIDE DEF T
  <2>4. Min(T) \in T /\ \A y \in T : Min(T) <= y
    BY <2>1, <2>2, MinIs, ZenonT(60)
  <2>5. Min(T) \in Positions
    BY <2>4 DEF T
  <2>6. ASSUME NEW i \in Positions, p <= i, IsMarker(i) PROVE i \in T
    BY <2>6, Types DEF T
  <2> QED
    BY <2>3, <2>4, <2>5, <2>6, Types
<1>2. CASE ~(UseGTIDs /\ p > 0)
  BY <1>2, Types DEF CoordsAt
<1> QED
  BY <1>1, <1>2

\* The binlog is a sequence of entries, and Log records a transaction at its end.
LEMMA LogTypes ==
    ASSUME TypeOK, NEW rows \in Seq(Entries), Log(rows)
    PROVE  /\ binlog' = Recorded(binlog, rows)
           /\ binlog' \in Seq(Entries) /\ Grows(binlog, binlog')
           /\ Len(binlog') \in Nat /\ Len(binlog) <= Len(binlog')
           /\ Positions \subseteq Positions'
           /\ \A p \in Positions : binlog'[p] = binlog[p]
<1>1. binlog' = Recorded(binlog, rows)
  BY DEF Log, Recorded
<1>2. binlog \in Seq(Entries) /\ Len(binlog) \in Nat /\ Positions = 1..Len(binlog)
  BY Types
<1>3. binlog' \in Seq(Entries) /\ Grows(binlog, binlog')
  BY <1>1, <1>2, Logged
<1>4. Len(binlog') \in Nat
  BY <1>3
<1> QED
  BY <1>1, <1>2, <1>3, <1>4 DEF Grows, Positions

\* What the log has before it grows.
LEMMA TypeGrows ==
    ASSUME TypeOK, NEW rows \in Seq(Entries), Log(rows),
           UNCHANGED <<ghost, owed, table, checkpoint, process, lockProcessed, readerVars,
                       events, enqueuing, queue, writerVars, sampled, reconnects, crashes>>,
           main' \in {"running", "waiting", "synced", "swapped", "done"},
           challenge' \in 0..Len(binlog')
    PROVE  TypeOK'
<1>1. /\ binlog' \in Seq(Entries) /\ Len(binlog) \in Nat /\ Len(binlog') \in Nat
      /\ 0..Len(binlog) \subseteq 0..Len(binlog') /\ Positions \subseteq Positions'
  BY LogTypes, Types
<1>2. ghost \in [Keys -> 0..Len(binlog')] /\ owed \in 0..Len(binlog')
  BY <1>1, ZenonT(60) DEF TypeOK
<1>3. checkpoint \in [coords : 0..Len(binlog'), cutover : BOOLEAN]
  BY <1>1, ZenonT(60) DEF TypeOK
<1>4. {lockProcessed, initial, connectedAt, readPos, lastTrx, undecoded, appliedTrx}
         \subseteq 0..Len(binlog')
  BY <1>1, ZenonT(60) DEF TypeOK
<1>5. {inHand, events, queue, batch} \subseteq Seq(Positions')
  <2>1. {inHand, events, queue, batch} \subseteq Seq(Positions)
    BY ZenonT(60) DEF TypeOK
  <2> QED
    BY <1>1, <2>1, WiderSeq
<1>6. enqueuing \subseteq Positions' /\ sampled \subseteq 0..Len(binlog')
  BY <1>1, ZenonT(60) DEF TypeOK
<1>7. binlog' \in Seq(Keys \cup {"gtid", "xid", "heartbeat", "sentinel"})
  BY <1>1 DEF Entries
<1> QED
  BY <1>2, <1>3, <1>4, <1>5, <1>6, <1>7, ZenonT(60) DEF TypeOK, readerVars, writerVars

-----------------------------------------------------------------------------
(* How entries move on.                                                    *)

\* The head of a sequence goes on, and the rest stays.
LEMMA HeadAndTail ==
    ASSUME NEW E, NEW s \in Seq(E), s # << >>
    PROVE  /\ Head(s) \in E /\ Tail(s) \in Seq(E) /\ <<Head(s)>> \in Seq(E)
           /\ s = <<Head(s)>> \o Tail(s)
<1>1. Head(s) \in E /\ Tail(s) \in Seq(E)
  OBVIOUS
<1>2. s = <<Head(s)>> \o Tail(s)
  OBVIOUS
<1> QED
  BY <1>1, <1>2

\* StreamEvents: an entry goes from the binlog to the reader's hand.
LEMMA ReadEventMoves ==
    ASSUME TypeOK, ReadEvent
    PROVE  /\ readPos' = readPos + 1 /\ readPos' \in Positions
           /\ inHand = << >> /\ Sent = events
           /\ \/ inHand' = << >> /\ Sent' = Sent
              \/ inHand' = <<readPos'>> /\ Sent' = Sent \o <<readPos'>>
<1>1. /\ readPos' = readPos + 1 /\ inHand = << >> /\ events' = events
      /\ inHand' = << >> \/ inHand' = <<readPos'>>
      /\ readPos < Len(binlog)
  BY DEF ReadEvent
<1>2. readPos' \in Positions
  BY <1>1, Types
<1>3. events \o << >> = events
  BY Types
<1> QED
  BY <1>1, <1>2, <1>3, ZenonT(60) DEF Sent

\* The reader's hand to the channel of the dispatcher.
LEMMA SendEntryMoves ==
    ASSUME TypeOK, ReaderInv, SendEntry
    PROVE  /\ inHand = <<readPos>> /\ inHand' = << >> /\ readPos \in Positions
           /\ events' = Sent /\ Sent' = Sent
<1>1. inHand = <<readPos>> /\ inHand' = << >> /\ events' = Sent
  BY DEF SendEntry, ReaderInv, Sent
<1>2. Sent \o << >> = Sent
  BY Types
<1>3. readPos \in Positions
  <2>1. inHand \in Seq(Positions) /\ Len(inHand) = 1 /\ inHand[1] = readPos
    BY <1>1, Types
  <2> QED
    BY <2>1, Element
<1> QED
  BY <1>1, <1>2, <1>3 DEF Sent

\* The channel to applyEventsQueue, or to a handler of its own.
LEMMA DispatchMoves ==
    ASSUME TypeOK, Dispatch
    PROVE  /\ Head(events) \in Positions /\ <<Head(events)>> \in Seq(Nat)
           /\ events' \in Seq(Positions) /\ events' \in Seq(Nat)
           /\ events = <<Head(events)>> \o events'
           /\ Sent' \in Seq(Nat) /\ Sent = <<Head(events)>> \o Sent'
           /\ \/ queue' = queue /\ enqueuing' = enqueuing /\ IsMarker(Head(events))
              \/ queue' = queue /\ enqueuing' = enqueuing \cup {Head(events)}
                   /\ binlog[Head(events)] = "sentinel"
              \/ queue' = queue \o <<Head(events)>> /\ enqueuing' = enqueuing
                   /\ Len(queue) < QueueSize
<1> DEFINE p == Head(events)
<1>0. events # << >> /\ events' = Tail(events) /\ inHand' = inHand
  BY DEF Dispatch, readerVars
<1>1. /\ p \in Positions /\ Tail(events) \in Seq(Positions) /\ <<p>> \in Seq(Positions)
      /\ events = <<p>> \o Tail(events)
  BY <1>0, Types, HeadAndTail
<1>2. events' \in Seq(Nat) /\ <<p>> \in Seq(Nat) /\ inHand \in Seq(Nat)
  BY <1>0, <1>1, Types, WiderSeq
<1>3. Sent' = events' \o inHand /\ Sent' \in Seq(Nat)
  BY <1>0, <1>2 DEF Sent
<1>4. Sent = <<p>> \o Sent'
  <2>1. Sent = (<<p>> \o events') \o inHand
    BY <1>0, <1>1 DEF Sent
  <2> QED
    BY <1>2, <1>3, <2>1, SMTT(30)
<1>5. \/ queue' = queue /\ enqueuing' = enqueuing /\ IsMarker(p)
      \/ queue' = queue /\ enqueuing' = enqueuing \cup {p} /\ binlog[p] = "sentinel"
      \/ queue' = Append(queue, p) /\ enqueuing' = enqueuing /\ Len(queue) < QueueSize
  BY DEF Dispatch, Enqueue
<1>6. Append(queue, p) = queue \o <<p>>
  BY <1>1, Types
<1> QED
  BY <1>0, <1>1, <1>2, <1>3, <1>4, <1>5, <1>6, ZenonT(60)

\* A handler's function to applyEventsQueue.
LEMMA EnqueueSentinelMoves ==
    ASSUME TypeOK, NEW p \in enqueuing, EnqueueSentinel(p)
    PROVE  p \in Positions /\ <<p>> \in Seq(Nat) /\ queue' = queue \o <<p>>
<1>1. p \in Positions /\ p \in Nat
  BY Types
<1>2. queue' = Append(queue, p)
  BY DEF EnqueueSentinel, Enqueue
<1>3. Append(queue, p) = queue \o <<p>>
  BY <1>1, Types
<1> QED
  BY <1>1, <1>2, <1>3

\* onApplyEventStruct: a function from applyEventsQueue to the writer.
LEMMA HandleNonDMLMoves ==
    ASSUME TypeOK, HandleNonDML
    PROVE  /\ Head(queue) \in Positions /\ <<Head(queue)>> \in Seq(Nat)
           /\ queue' \in Seq(Positions) /\ queue' \in Seq(Nat)
           /\ queue = <<Head(queue)>> \o queue'
<1>0. queue # << >> /\ queue' = Tail(queue)
  BY DEF HandleNonDML
<1>1. /\ Head(queue) \in Positions /\ queue' \in Seq(Positions)
      /\ <<Head(queue)>> \in Seq(Positions) /\ queue = <<Head(queue)>> \o queue'
  BY <1>0, Types, HeadAndTail, SMTT(30)
<1> QED
  BY <1>1, Types, WiderSeq, SMTT(30)

\* onApplyEventStruct: rows from applyEventsQueue to the writer, in order.
LEMMA CollectBatchMoves ==
    ASSUME TypeOK, CollectBatch
    PROVE  /\ batch' \in Seq(Positions) /\ queue' \in Seq(Positions)
           /\ batch' \in Seq(Nat) /\ queue' \in Seq(Nat)
           /\ queue = batch' \o queue' /\ batch' # << >>
<1>1. PICK n \in 1..Len(queue) : /\ batch' = SubSeq(queue, 1, n)
                                 /\ queue' = SubSeq(queue, n + 1, Len(queue))
  BY DEF CollectBatch
<1>2. /\ queue \in Seq(Positions) /\ Len(queue) \in Nat
      /\ \A i \in 1..Len(queue) : queue[i] \in Positions
  <2>1. queue \in Seq(Positions)
    BY Types
  <2> QED
    BY <2>1, Element
<1>3. batch' \in Seq(Positions) /\ Len(batch') = n /\ queue' \in Seq(Positions)
  BY <1>1, <1>2
<1>4. batch' \o queue' = SubSeq(queue, 1, Len(queue))
  BY <1>1, <1>2
<1>5. SubSeq(queue, 1, Len(queue)) = queue
  BY <1>2
<1>6. batch' # << >>
  BY <1>3
<1>7. batch' \in Seq(Nat) /\ queue' \in Seq(Nat)
  BY <1>3, Types, WiderSeq, SMTT(30)
<1> QED
  BY <1>3, <1>4, <1>5, <1>6, <1>7, ZenonT(60)

-----------------------------------------------------------------------------
(* Every step keeps the types.                                             *)

\* The sentinel that a function reports, if it is one.
LEMMA ReportedIs ==
    ASSUME NEW p
    PROVE  Reported({p}) = IF binlog[p] = "sentinel" THEN p ELSE lockProcessed
BY DEF Reported

\* What the changelog and the application write are entries of the log.
LEMMA ChangelogEntries ==
    /\ <<"heartbeat">> \in Seq(Entries) /\ <<"sentinel">> \in Seq(Entries)
    /\ Len(<<"heartbeat">>) = 1 /\ Len(<<"sentinel">>) = 1
    /\ Transactions \subseteq Seq(Entries)
<1>1. Keys \subseteq Entries /\ Transactions \subseteq Seq(Keys)
  BY PipelineAssumption DEF Entries
<1>2. Transactions \subseteq Seq(Entries)
  BY <1>1, WiderSeq
<1> QED
  BY <1>2 DEF Entries

\* A sequence of one entry.
LEMMA OneEntry ==
    ASSUME NEW P, NEW p \in P
    PROVE  <<p>> \in Seq(P) /\ Len(<<p>>) = 1 /\ <<p>>[1] = p
OBVIOUS

\* What writing f to the changelog table adds to the log.
LEMMA ChangelogWritten ==
    ASSUME TypeOK, NEW f \in {"heartbeat", "sentinel"}, Log(<<f>>)
    PROVE  /\ binlog' \in Seq(Entries) /\ Grows(binlog, binlog')
           /\ Len(binlog) \in Nat /\ Len(binlog') = Len(binlog) + 3
           /\ binlog'[Len(binlog) + 1] = "gtid" /\ binlog'[Len(binlog) + 2] = f
           /\ binlog'[Len(binlog) + 3] = "xid"
           /\ <<f>> \in Seq(Entries)
<1>1. f \in Entries
  BY DEF Entries
<1> DEFINE rows == <<f>>
<1>2. rows \in Seq(Entries) /\ Len(rows) = 1 /\ rows[1] = f
  BY <1>1, OneEntry
<1>3. Log(rows)
  OBVIOUS
<1> HIDE DEF rows
<1>4. binlog' = Recorded(binlog, rows) /\ binlog \in Seq(Entries)
  BY <1>2, <1>3, LogTypes, Types
<1> QED
  BY <1>2, <1>4, LoggedOne, ZenonT(60) DEF rows

\* TypeOK, for coordinates C and positions P.
Typed(C, P) ==
    /\ ghost \in [Keys -> C] /\ owed \in C
    /\ table \in {"original", "ghost", "original again"}
    /\ checkpoint \in [coords : C, cutover : BOOLEAN]
    /\ process \in {"streaming", "writing", "down"}
    /\ main \in {"running", "waiting", "synced", "swapped", "done"}
    /\ challenge \in C /\ lockProcessed \in C /\ initial \in C /\ connectedAt \in C
    /\ readPos \in C /\ lastTrx \in C /\ undecoded \in C /\ appliedTrx \in C
    /\ trxRows \in {"none", "some"}
    /\ inHand \in Seq(P) /\ Len(inHand) <= 1
    /\ events \in Seq(P) /\ Len(events) <= 2
    /\ enqueuing \subseteq P
    /\ queue \in Seq(P) /\ Len(queue) <= QueueSize
    /\ batch \in Seq(P)
    /\ writer \in {"idle", "batch", "committed"}
    /\ sampled \subseteq C
    /\ reconnects \in 0..MaxReconnects /\ crashes \in 0..MaxCrashes

\* Only the server writes the log.
LEMMA LogKept ==
    ASSUME [Next]_vars
    PROVE  binlog' = binlog \/ Transact \/ InjectHeartbeat \/ InjectSentinel
BY ZenonT(60) DEF Next, Reader, Dispatcher, Writer, Checkpointer, CutOver, ReadEvent,
                  SendEntry,
       Reconnect, Dispatch, EnqueueSentinel, AddDMLEventsListener, HandleNonDML,
       CollectBatch, ApplyBatch, AcknowledgeBatch, BeginCheckpoint, WriteCheckpoint,
       CheckpointFails, ReceiveLockProcessed, CutOverFails, Swap, CheckpointAfterCutOver,
       ProcessEnds, Resume, Revert, Terminated, vars, tableVars

\* Every step keeps the types, and the channels within their capacities.
LEMMA TypeStep ==
    ASSUME TypeOK, LogInv, ReaderInv, IdleInv, [Next]_vars
    PROVE  TypeOK'
<1>0. QueueSize \in Nat /\ MaxReconnects \in Nat /\ MaxCrashes \in Nat
  BY PipelineAssumption
<1> USE DEF tableVars, mainVars, readerVars, writerVars
<1>1. CASE Transact
  <2>1. PICK rows \in Transactions : Log(rows)
    BY <1>1, SMTT(30) DEF Transact
  <2>2. 0..Len(binlog) \subseteq 0..Len(binlog')
    BY <2>1, LogTypes, ChangelogEntries, Types, SMTT(30)
  <2>3. /\ challenge' \in 0..Len(binlog')
        /\ main' \in {"running", "waiting", "synced", "swapped", "done"}
    BY <1>1, <2>2, ZenonT(60) DEF Transact, TypeOK
  <2> QED
    BY <1>1, <2>1, <2>3, TypeGrows, ChangelogEntries DEF Transact
<1>2. CASE InjectHeartbeat
  <2>1. Log(<<"heartbeat">>)
    BY <1>2 DEF InjectHeartbeat
  <2>2. Len(binlog) \in Nat /\ Len(binlog') = Len(binlog) + 3 /\ <<"heartbeat">> \in Seq(Entries)
    BY <2>1, ChangelogWritten
  <2>3. /\ challenge \in 0..Len(binlog)
        /\ main \in {"running", "waiting", "synced", "swapped", "done"}
    BY ZenonT(60) DEF TypeOK
  <2>4. challenge' = challenge /\ main' = main
    BY <1>2 DEF InjectHeartbeat
  <2>5. challenge' \in 0..Len(binlog')
    BY <2>2, <2>3, <2>4
  <2> QED
    BY <1>2, <2>1, <2>2, <2>3, <2>4, <2>5, TypeGrows, ZenonT(60) DEF InjectHeartbeat
<1>3. CASE InjectSentinel
  <2>1. Log(<<"sentinel">>) /\ challenge' = Len(binlog) + 2 /\ main' = "waiting"
    BY <1>3 DEF InjectSentinel
  <2>2. Len(binlog) \in Nat /\ Len(binlog') = Len(binlog) + 3 /\ <<"sentinel">> \in Seq(Entries)
    BY <2>1, ChangelogWritten
  <2>3. challenge' \in 0..Len(binlog')
    BY <2>1, <2>2
  <2> QED
    BY <1>3, <2>1, <2>2, <2>3, TypeGrows, ZenonT(60) DEF InjectSentinel
<1>4. SUFFICES ASSUME NEW C, NEW P, C = 0..Len(binlog), P = Positions, binlog' = binlog
               PROVE  Typed(C, P)'
  <2>1. CASE binlog' = binlog
    <3>1. Typed(0..Len(binlog), Positions)'
      BY <1>4, <2>1 DEF Positions
    <3> QED
      BY <2>1, <3>1, ZenonT(60) DEF Typed, TypeOK, Positions
  <2>2. CASE binlog' # binlog
    BY <1>1, <1>2, <1>3, <2>2, LogKept, SMTT(30)
  <2> QED
    BY <2>1, <2>2
<1>5. Typed(C, P)
  BY <1>4, ZenonT(60) DEF Typed, TypeOK
<1>6. 0 \in C /\ Len(binlog) \in C /\ P \subseteq C /\ C \subseteq Nat
  BY <1>4, Types, SMTT(30)
<1>8. CASE ReadEvent
  <2>1. readPos' \in C /\ readPos' \in P
    BY <1>4, <1>6, <1>8, ReadEventMoves, ZenonT(60)
  <2>2. lastTrx' \in C
    BY <1>5, <1>8, <2>1, ZenonT(60) DEF ReadEvent, Typed
  <2>3. inHand' \in Seq(P) /\ Len(inHand') <= 1
    <3>1. inHand' = << >> \/ inHand' = <<readPos'>>
      BY <1>8, ReadEventMoves
    <3>2. <<readPos'>> \in Seq(P) /\ Len(<<readPos'>>) <= 1
      BY <2>1, OneEntry
    <3>3. << >> \in Seq(P) /\ Len(<< >>) <= 1
      OBVIOUS
    <3> QED
      BY <3>1, <3>2, <3>3, ZenonT(60)
  <2> QED
    BY <1>5, <1>8, <2>1, <2>2, <2>3, ZenonT(60) DEF ReadEvent, Typed
<1>9. CASE SendEntry
  <2>1. inHand = <<readPos>> /\ inHand[1] = readPos
    BY <1>9, SendEntryMoves
  <2>2. events' \in Seq(P) /\ Len(events') <= 2
    <3>1. Len(inHand) = 1 /\ Len(events) < 2 /\ events' = events \o inHand
      BY <1>9, <2>1 DEF SendEntry
    <3>2. events \in Seq(P) /\ inHand \in Seq(P)
      BY <1>5, ZenonT(60) DEF Typed
    <3>3. events' \in Seq(P) /\ Len(events') = Len(events) + 1 /\ Len(events) \in Nat
      <4>1. /\ events \o inHand \in Seq(P) /\ Len(events) \in Nat
            /\ Len(events \o inHand) = Len(events) + Len(inHand)
        BY <3>2, SMTT(30)
      <4> QED
        BY <3>1, <4>1
    <3> QED
      BY <3>1, <3>3
  <2>3. lastTrx' \in C /\ trxRows' \in {"none", "some"}
    BY <1>5, <1>9, <2>1, ZenonT(60) DEF SendEntry, Typed
  <2>4. inHand' \in Seq(P) /\ Len(inHand') <= 1
    BY <1>9 DEF SendEntry
  <2> QED
    BY <1>5, <1>9, <2>2, <2>3, <2>4, ZenonT(60) DEF SendEntry, Typed
<1>10. CASE Reconnect
  <2>1. readPos' \in C /\ connectedAt' \in C /\ reconnects' \in 0..MaxReconnects
    <3>1. /\ readPos' \in C /\ connectedAt' \in C
          /\ reconnects \in 0..MaxReconnects /\ reconnects < MaxReconnects
          /\ reconnects' = reconnects + 1
      BY <1>5, <1>10, ZenonT(60) DEF Reconnect, Typed
    <3> QED
      BY <1>0, <3>1
  <2> QED
    BY <1>5, <1>6, <1>10, <2>1, ZenonT(60) DEF Reconnect, Typed
<1>11. CASE Dispatch
  <2> DEFINE p == Head(events)
  <2>1. Len(events') <= 2 /\ events' \in Seq(P)
    <3>1. /\ events # << >> /\ events' = Tail(events)
          /\ events \in Seq(P) /\ Len(events) <= 2
      BY <1>5, <1>11, ZenonT(60) DEF Dispatch, Typed
    <3> QED
      BY <3>1
  <2>2. p \in P
    BY <1>4, <1>11, DispatchMoves
  <2>3. enqueuing' \subseteq P
    BY <1>5, <1>11, <2>2, DispatchMoves, ZenonT(60) DEF Typed
  <2>4. queue' \in Seq(P) /\ Len(queue') <= QueueSize
    <3>1. queue \in Seq(P) /\ Len(queue) <= QueueSize
      BY <1>5, ZenonT(60) DEF Typed
    <3>2. queue' = queue \/ (queue' = queue \o <<p>> /\ Len(queue) < QueueSize)
      BY <1>11, DispatchMoves
    <3> HIDE DEF p
    <3>3. <<p>> \in Seq(P) /\ Len(<<p>>) = 1
      BY <2>2, OneEntry
    <3>4. /\ queue \o <<p>> \in Seq(P) /\ Len(queue) \in Nat
          /\ Len(queue \o <<p>>) = Len(queue) + 1
      BY <3>1, <3>3, SMTT(30)
    <3> QED
      BY <1>0, <3>1, <3>2, <3>4
  <2> QED
    BY <1>5, <1>11, <2>1, <2>3, <2>4, ZenonT(60) DEF Dispatch, Typed
<1>12. ASSUME NEW p \in enqueuing, EnqueueSentinel(p) PROVE Typed(C, P)'
  <2>1. p \in P /\ queue \in Seq(P)
    BY <1>5, ZenonT(60) DEF Typed
  <2>2. queue' = Append(queue, p) /\ Len(queue) < QueueSize
    BY <1>12 DEF EnqueueSentinel, Enqueue
  <2>3. queue' \in Seq(P) /\ Len(queue') = Len(queue) + 1 /\ Len(queue) \in Nat
    BY <2>1, <2>2
  <2>4. Len(queue') <= QueueSize
    BY <1>0, <2>2, <2>3, SMTT(30)
  <2> QED
    BY <1>5, <1>12, <2>3, <2>4, ZenonT(60) DEF EnqueueSentinel, Typed
<1>13. CASE AddDMLEventsListener
  <2>1. undecoded' \in C /\ owed' \in C
    <3>1. readPos \in 0..Len(binlog) /\ Len(binlog) \in Nat
      BY Types
    <3>2. undecoded' \in readPos..Len(binlog)
      BY <1>13 DEF AddDMLEventsListener
    <3>3. undecoded' \in 0..Len(binlog)
      BY <3>1, <3>2
    <3>4. owed \in C /\ (owed' = owed \/ owed' = Len(binlog))
      BY <1>5, <1>13, ZenonT(60) DEF AddDMLEventsListener, Typed
    <3> QED
      BY <1>4, <1>6, <3>3, <3>4
  <2> QED
    BY <1>5, <1>13, <2>1, ZenonT(60) DEF AddDMLEventsListener, Typed
<1>14. CASE HandleNonDML
  <2> DEFINE p == Head(queue)
  <2>1. Len(queue') <= QueueSize /\ queue' \in Seq(P)
    <3>1. /\ queue # << >> /\ queue' = Tail(queue)
          /\ queue \in Seq(P) /\ Len(queue) <= QueueSize
      BY <1>5, <1>14, ZenonT(60) DEF HandleNonDML, Typed
    <3>2. queue' \in Seq(P) /\ Len(queue') = Len(queue) - 1 /\ Len(queue) \in Nat
      BY <3>1
    <3> QED
      BY <1>0, <3>1, <3>2, SMTT(30)
  <2>2. p \in C
    BY <1>4, <1>6, <1>14, HandleNonDMLMoves, SMTT(30)
  <2>3. /\ appliedTrx' = IF IsMarker(p) THEN p ELSE appliedTrx
        /\ lockProcessed' = IF binlog[p] = "sentinel" THEN p ELSE lockProcessed
    BY <1>14, ReportedIs, ZenonT(60) DEF HandleNonDML
  <2> HIDE DEF p
  <2>4. appliedTrx' \in C /\ lockProcessed' \in C
    BY <1>5, <2>2, <2>3, ZenonT(60) DEF Typed
  <2> QED
    BY <1>5, <1>14, <2>1, <2>4, ZenonT(60) DEF HandleNonDML, Typed
<1>15. CASE CollectBatch
  <2>1. Len(queue') <= QueueSize
    <3>1. queue = batch' \o queue' /\ batch' \in Seq(Nat) /\ queue' \in Seq(Nat)
      BY <1>15, CollectBatchMoves
    <3>2. Len(queue) = Len(batch') + Len(queue') /\ Len(batch') \in Nat /\ Len(queue') \in Nat
      BY <3>1
    <3>3. Len(queue) <= QueueSize
      BY <1>5, ZenonT(60) DEF Typed
    <3> QED
      BY <1>0, <3>2, <3>3
  <2>2. batch' \in Seq(P) /\ queue' \in Seq(P)
    BY <1>4, <1>15, CollectBatchMoves, SMTT(30)
  <2> QED
    BY <1>5, <1>15, <2>1, <2>2, ZenonT(60) DEF CollectBatch, Typed
<1>16. CASE ApplyBatch
  <2>1. ghost' \in [Keys -> C]
    <3> SUFFICES ASSUME NEW k \in Keys PROVE ghost'[k] \in C
      BY <1>16, SMTT(30) DEF ApplyBatch
    <3>1. ghost'[k] = LastOn(binlog, batch, k, ghost[k])
      BY <1>16, SMTT(30) DEF ApplyBatch, LastOn
    <3>2. ghost'[k] = ghost[k] \/ ghost'[k] \in Range(batch)
      <4>1. batch \in Seq(Nat)
        BY Types, SMTT(30)
      <4> DEFINE v == ghost[k]
                 w == LastOn(binlog, batch, k, v)
      <4>2. w = v \/ w \in Range(batch)
        BY <4>1, LastIs, ZenonT(60)
      <4> QED
        BY <3>1, <4>2
    <3>3. Range(batch) \subseteq C /\ ghost[k] \in C
      BY <1>4, <1>5, <1>6, Types, ZenonT(60) DEF Typed
    <3> QED
      BY <3>2, <3>3, SMTT(30)
  <2> QED
    BY <1>5, <1>16, <2>1, ZenonT(60) DEF ApplyBatch, Typed
<1>17. CASE AcknowledgeBatch
  <2> DEFINE markers == {i \in DOMAIN batch : IsMarker(batch[i])}
  <2>0. batch \in Seq(P) /\ batch # << >>
    BY <1>5, <1>17, ZenonT(60) DEF AcknowledgeBatch, IdleInv, Typed
  <2>1. Len(batch) \in Nat \ {0} /\ DOMAIN batch = 1..Len(batch)
    BY <2>0
  <2>2. markers # {} => Max(markers) \in 1..Len(batch)
    <3>1. markers \subseteq 0..Len(batch) /\ markers \subseteq 1..Len(batch)
      BY <2>1
    <3> HIDE DEF markers
    <3> QED
      BY <2>1, <3>1, MaxIs, ZenonT(60)
  <2>3. appliedTrx' \in C
    <3>1. appliedTrx' = IF markers = {} THEN appliedTrx ELSE batch[Max(markers)]
      BY <1>17 DEF AcknowledgeBatch
    <3> HIDE DEF markers
    <3>2. markers # {} => batch[Max(markers)] \in C
      BY <1>6, <2>0, <2>2, Element, ZenonT(60)
    <3>3. appliedTrx \in C
      BY <1>5, ZenonT(60) DEF Typed
    <3> QED
      BY <3>1, <3>2, <3>3
  <2>4. lockProcessed' \in C
    <3>1. batch[Len(batch)] \in C
      <4>1. Len(batch) \in 1..Len(batch)
        BY <2>1
      <4> QED
        BY <1>6, <2>0, <4>1, Element, ZenonT(60)
    <3>2. lockProcessed \in C
      BY <1>5, ZenonT(60) DEF Typed
    <3>3. lockProcessed' = batch[Len(batch)] \/ lockProcessed' = lockProcessed
      BY <1>17, ReportedIs, ZenonT(60) DEF AcknowledgeBatch
    <3> QED
      BY <3>1, <3>2, <3>3
  <2>5. << >> \in Seq(P)
    OBVIOUS
  <2> QED
    BY <1>5, <1>17, <2>3, <2>4, <2>5, ZenonT(60) DEF AcknowledgeBatch, Typed
<1>18. CASE BeginCheckpoint
  <2>1. CoordsAt(readPos) \in C
    BY <1>4, Coords, Types, SMTT(30)
  <2> QED
    BY <1>5, <1>18, <2>1 DEF BeginCheckpoint, Typed
<1>7. CASE WriteCheckpoint
  <2>1. checkpoint' \in [coords : C, cutover : BOOLEAN]
    BY <1>5, <1>7, ZenonT(60) DEF WriteCheckpoint, Typed
  <2> QED
    BY <1>5, <1>7, <2>1, ZenonT(60) DEF WriteCheckpoint, Typed
<1>19. CASE CheckpointFails
  BY <1>5, <1>19, ZenonT(60) DEF CheckpointFails, Typed
<1>20. CASE ReceiveLockProcessed \/ CutOverFails
  BY <1>5, <1>6, <1>20, ZenonT(60) DEF ReceiveLockProcessed, CutOverFails, Typed
<1>21. CASE Swap
  <2>1. ASSUME NEW k \in Keys PROVE LastEvent(k) \in C
    BY <1>4, Types, LastOfIs, ZenonT(60) DEF LastEvent, LastOf, Positions
  <2> QED
    BY <1>5, <1>6, <1>21, <2>1, ZenonT(60) DEF Swap, Typed
<1>22. CASE CheckpointAfterCutOver
  <2>1. CoordsAt(challenge) \in C
    BY <1>4, <1>5, Coords, ZenonT(60) DEF Typed
  <2> QED
    BY <1>5, <1>22, <2>1 DEF CheckpointAfterCutOver, Typed
<1>23. CASE ProcessEnds
  <2>1. << >> \in Seq(P) /\ Len(<< >>) = 0
    OBVIOUS
  <2>2. crashes' \in 0..MaxCrashes
    <3>1. /\ crashes \in 0..MaxCrashes
          /\ \/ crashes' = crashes
             \/ crashes < MaxCrashes /\ crashes' = crashes + 1
      BY <1>5, <1>23, ZenonT(60) DEF ProcessEnds, Typed
    <3> QED
      BY <1>0, <3>1, SMTT(30)
  <2>3. /\ inHand' \in Seq(P) /\ events' \in Seq(P) /\ queue' \in Seq(P) /\ batch' \in Seq(P)
        /\ Len(inHand') <= 1 /\ Len(events') <= 2 /\ Len(queue') <= QueueSize
    BY <1>0, <1>23, <2>1, SMTT(30) DEF ProcessEnds, Forgotten
  <2>4. main' \in {"running", "waiting", "synced", "swapped", "done"} /\ process' = "down"
    BY <1>5, <1>23, ZenonT(60) DEF ProcessEnds, Typed
  <2> QED
    BY <1>5, <1>6, <1>23, <2>2, <2>3, <2>4, ZenonT(60) DEF ProcessEnds, Forgotten, Typed
<1>24. CASE Resume \/ Revert
  BY <1>5, <1>24, ZenonT(60) DEF Resume, Revert, StartStreaming, Typed
<1>25. CASE Terminated \/ UNCHANGED vars
  BY <1>5, <1>25, ZenonT(60) DEF Terminated, vars, Typed
<1> QED
  <2>1. ~Transact /\ ~InjectHeartbeat /\ ~InjectSentinel
    <3>1. ASSUME NEW rows \in Seq(Entries), Log(rows) PROVE FALSE
      <4>1. Len(binlog') = Len(binlog) + Len(rows) + 2 /\ Len(binlog) \in Nat /\ Len(rows) \in Nat
        BY <3>1, LogTypes, Types, Logged
      <4> QED
        BY <1>4, <4>1
    <3> QED
      BY <3>1, ChangelogEntries, ZenonT(60) DEF Transact, InjectHeartbeat, InjectSentinel
  <2> QED
    BY <2>1, <1>7, <1>8, <1>9, <1>10, <1>11, <1>12, <1>13, <1>14, <1>15, <1>16, <1>17,
       <1>18, <1>19, <1>20, <1>21, <1>22, <1>23, <1>24, <1>25
       DEF Next, Reader, Dispatcher, Writer, Checkpointer, CutOver

-----------------------------------------------------------------------------
(* The log, the reader and the cut-over.                                   *)

\* A transaction that is recorded leaves the log complete.
LEMMA CompleteGrows ==
    ASSUME NEW b \in Seq(Entries), Complete(b), NEW c \in Seq(Entries), Grows(b, c),
           c[Len(c)] = "xid",
           NEW p \in 1..Len(b), c[p] \in {"heartbeat", "sentinel"}
    PROVE  p > 1 /\ c[p - 1] \notin Keys /\ (p > 2 => c[p - 2] = "xid")
<1>1. p > 1 /\ b[p - 1] \notin Keys /\ (p > 2 => b[p - 2] = "xid")
  BY DEF Complete, Grows
<1>2. c[p - 1] = b[p - 1]
  BY <1>1 DEF Grows
<1>3. p > 2 => c[p - 2] = b[p - 2]
  BY DEF Grows
<1> QED
  BY <1>1, <1>2, <1>3

\* Every step leaves the log complete.
LEMMA LogStep ==
    ASSUME TypeOK, LogInv, [Next]_vars
    PROVE  LogInv'
<1> DEFINE b == binlog
           c == binlog'
<1>0. b \in Seq(Entries) /\ Len(b) \in Nat /\ Complete(b)
  BY Types DEF LogInv
<1>1. CASE binlog' = binlog
  BY <1>1 DEF LogInv
<1>2. ASSUME NEW rows \in Transactions, Log(rows) PROVE LogInv'
  <2>1. c = Recorded(b, rows) /\ rows \in Seq(Entries) /\ rows \in Seq(Keys)
    BY <1>2, ChangelogEntries, LogTypes, PipelineAssumption, SMTT(30)
  <2> HIDE DEF b, c
  <2>2. /\ c \in Seq(Entries) /\ Grows(b, c) /\ c[Len(b) + 1] = "gtid" /\ c[Len(c)] = "xid"
        /\ \A i \in 1..Len(rows) : c[Len(b) + 1 + i] = rows[i]
        /\ \A i \in 1..Len(c) : \/ i \in 1..Len(b) \/ i = Len(b) + 1 \/ i = Len(c)
                                \/ i - Len(b) - 1 \in 1..Len(rows)
    BY <1>0, <2>1, Logged, ZenonT(60)
  <2>3. ASSUME NEW p \in 1..Len(c), c[p] \in {"heartbeat", "sentinel"}
        PROVE  p > 1 /\ c[p - 1] \notin Keys /\ (p > 2 => c[p - 2] = "xid")
    <3>1. ASSUME p - Len(b) - 1 \in 1..Len(rows) PROVE FALSE
      <4>1. rows[p - Len(b) - 1] \in Keys
        BY <2>1, <3>1, Element
      <4>2. Len(b) + 1 + (p - Len(b) - 1) = p
        BY <1>0
      <4>3. c[p] \in Keys
        BY <2>2, <3>1, <4>1, <4>2, SMTT(30)
      <4> QED
        BY <2>3, <4>3, PipelineAssumption
    <3>2. p \in 1..Len(b)
      BY <2>2, <2>3, <3>1
    <3> QED
      BY <1>0, <2>2, <2>3, <3>2, CompleteGrows
  <2> QED
    BY <2>2, <2>3, SMTT(30) DEF LogInv, Complete, c
<1>3. ASSUME NEW f \in {"heartbeat", "sentinel"}, Log(<<f>>) PROVE LogInv'
  <2>1. /\ c \in Seq(Entries) /\ Grows(b, c) /\ Len(c) = Len(b) + 3
        /\ c[Len(b) + 1] = "gtid" /\ c[Len(b) + 2] = f /\ c[Len(b) + 3] = "xid"
    BY <1>3, ChangelogWritten
  <2> HIDE DEF b, c
  <2>2. ASSUME NEW p \in 1..Len(c), c[p] \in {"heartbeat", "sentinel"}
        PROVE  p > 1 /\ c[p - 1] \notin Keys /\ (p > 2 => c[p - 2] = "xid")
    <3>1. CASE p \in 1..Len(b)
      BY <1>0, <2>1, <2>2, <3>1, CompleteGrows, SMTT(30)
    <3>2. CASE p = Len(b) + 2
      <4>1. p - 1 = Len(b) + 1 /\ p - 2 = Len(b) /\ p > 1
        BY <1>0, <3>2
      <4>2. p > 2 => c[Len(b)] = "xid"
        BY <1>0, <2>1, <3>2 DEF Complete, Grows
      <4>3. "gtid" \notin Keys
        BY PipelineAssumption
      <4> QED
        BY <2>1, <4>1, <4>2, <4>3
    <3>3. p \in 1..Len(b) \/ p = Len(b) + 1 \/ p = Len(b) + 2 \/ p = Len(b) + 3
      BY <1>0, <2>1, <2>2, SMTT(30)
    <3> QED
      BY <2>1, <2>2, <3>1, <3>2, <3>3
  <2> QED
    BY <2>1, <2>2 DEF LogInv, Complete, c
<1> QED
  BY <1>1, <1>2, <1>3, LogKept, SMTT(30) DEF Transact, InjectHeartbeat, InjectSentinel

\* Every step leaves a process that ended with nothing, and an idle writer without a batch.
LEMMA IdleStep ==
    ASSUME TypeOK, ReaderInv, IdleInv, [Next]_vars
    PROVE  IdleInv'
<1> USE DEF IdleInv, tableVars, mainVars, readerVars, writerVars
<1>1. CASE Transact \/ InjectHeartbeat \/ InjectSentinel
  BY <1>1, SMTT(30) DEF Transact, InjectHeartbeat, InjectSentinel
<1>2. CASE ReadEvent \/ SendEntry \/ Reconnect
  BY <1>2 DEF ReadEvent, SendEntry, Reconnect
<1>3. CASE Dispatch \/ AddDMLEventsListener
  BY <1>3, SMTT(30) DEF Dispatch, AddDMLEventsListener
<1>4. CASE \E p \in enqueuing : EnqueueSentinel(p)
  BY <1>4, SMTT(30) DEF EnqueueSentinel
<1>5. CASE HandleNonDML \/ ApplyBatch \/ AcknowledgeBatch
  BY <1>5, SMTT(30) DEF HandleNonDML, ApplyBatch, AcknowledgeBatch
<1>6. CASE CollectBatch
  BY <1>6, CollectBatchMoves, ZenonT(60) DEF CollectBatch
<1>7. CASE Checkpointer
  BY <1>7 DEF Checkpointer, BeginCheckpoint, WriteCheckpoint, CheckpointFails
<1>8. CASE ReceiveLockProcessed \/ CutOverFails \/ Swap \/ CheckpointAfterCutOver
  BY <1>8, ZenonT(60) DEF ReceiveLockProcessed, CutOverFails, Swap, CheckpointAfterCutOver
<1>9. CASE ProcessEnds
  BY <1>9, SMTT(30) DEF ProcessEnds, Forgotten
<1>10. CASE Resume \/ Revert
  BY <1>10, SMTT(30) DEF Resume, Revert, StartStreaming
<1>11. CASE Terminated \/ UNCHANGED vars
  BY <1>11 DEF Terminated, vars
<1> QED
  BY <1>1, <1>2, <1>3, <1>4, <1>5, <1>6, <1>7, <1>8, <1>9, <1>10, <1>11, SMTT(30)
     DEF Next, Reader, Dispatcher, Writer, CutOver

\* Every step keeps the reader no further back than what it has completed.
LEMMA ReaderStep ==
    ASSUME Steady, TypeOK, TypeOK', ReaderInv, IdleInv, [Next]_vars
    PROVE  ReaderInv'
<1> USE DEF tableVars, mainVars, readerVars, writerVars
<1> DEFINE n == Len(binlog)
<1>0. /\ n \in Nat /\ readPos \in 0..n /\ lastTrx \in 0..n /\ connectedAt \in 0..n
      /\ undecoded \in 0..n /\ owed \in 0..n /\ RestartPos \in 0..n
  BY Types, ZenonT(60) DEF TypeOK
<1>1. ASSUME Grows(binlog, binlog'), binlog' \in Seq(Entries),
             UNCHANGED <<inHand, readPos, undecoded, owed, process, connectedAt, lastTrx>>
      PROVE  ReaderInv'
  <2>1. inHand' # << >> => inHand' = <<readPos'>> /\ binlog'[readPos'] # "gtid"
    <3> SUFFICES ASSUME inHand # << >> PROVE inHand = <<readPos>> /\ binlog'[readPos] # "gtid"
      BY <1>1
    <3>1. inHand = <<readPos>> /\ binlog[readPos] # "gtid"
      BY DEF ReaderInv
    <3>2. readPos \in 1..n
      <4>1. inHand \in Seq(Positions) /\ Len(inHand) = 1 /\ inHand[1] = readPos
        BY <3>1, Types
      <4> QED
        BY <4>1, Types, Element
    <3> QED
      BY <1>1, <3>1, <3>2 DEF Grows
  <2>2. ASSUME process # "down", NEW i \in 1..Len(binlog'), binlog'[i] = "xid", i <= readPos
        PROVE  i <= RestartPos \/ inHand = <<i>>
    <3>1. i \in 1..n /\ binlog[i] = "xid"
      BY <1>0, <1>1, <2>2 DEF Grows
    <3> QED
      BY <2>2, <3>1 DEF ReaderInv, Positions, IsMarker
  <2>3. RestartPos' = RestartPos
    BY <1>1 DEF RestartPos
  <2>4. undecoded' <= owed' \/ undecoded' <= readPos'
    BY <1>1 DEF ReaderInv
  <2> QED
    BY <1>1, <2>1, <2>2, <2>3, <2>4 DEF ReaderInv, Positions, IsMarker
<1>2. CASE binlog' # binlog
  <2>1. Transact \/ InjectHeartbeat \/ InjectSentinel
    BY <1>2, LogKept
  <2>2. PICK rows \in Seq(Entries) : Log(rows)
    BY <2>1, ChangelogEntries, ZenonT(60) DEF Transact, InjectHeartbeat, InjectSentinel
  <2>3. Grows(binlog, binlog') /\ binlog' \in Seq(Entries)
    BY <2>2, LogTypes
  <2> QED
    BY <1>1, <2>1, <2>3 DEF Transact, InjectHeartbeat, InjectSentinel
<1> SUFFICES ASSUME binlog' = binlog PROVE ReaderInv'
  BY <1>2
<1>3. ASSUME UNCHANGED <<inHand, readPos, undecoded, owed, process, connectedAt, lastTrx>>
      PROVE  ReaderInv'
  BY <1>3 DEF ReaderInv, RestartPos, Positions, IsMarker
<1>4. CASE ReadEvent
  <2> DEFINE p == readPos + 1
  <2>1. /\ readPos' = p /\ inHand = << >> /\ process # "down"
        /\ inHand' = << >> \/ inHand' = <<p>>
        /\ binlog[p] = "gtid" => inHand' = << >>
        /\ binlog[p] = "xid" => inHand' = <<p>> \/ lastTrx' = p
        /\ lastTrx' = lastTrx \/ lastTrx' = p
        /\ UNCHANGED <<undecoded, owed, process, connectedAt>>
    BY <1>4, PipelineAssumption DEF ReadEvent, IsMarker, IsRow, IsFunc
  <2>2. RestartPos' \in {RestartPos, p} /\ (lastTrx' = p => RestartPos' = p)
    BY <1>0, <2>1 DEF RestartPos
  <2>3. RestartPos <= readPos /\ connectedAt <= readPos /\ lastTrx <= readPos
    BY <1>0, <2>1 DEF ReaderInv, RestartPos
  <2>4. ASSUME NEW i \in Positions, binlog[i] = "xid", i <= p
        PROVE  i <= RestartPos' \/ inHand' = <<i>>
    <3>1. i \in Nat
      BY Types
    <3>2. CASE i = p
      BY <2>1, <2>2, <2>4, <3>1, <3>2
    <3>3. CASE i # p
      <4>1. i <= readPos
        BY <1>0, <2>4, <3>1, <3>3
      <4>2. inHand # <<i>>
        BY <2>1
      <4>3. i <= RestartPos
        BY <2>1, <2>4, <4>1, <4>2 DEF ReaderInv, IsMarker
      <4> QED
        BY <1>0, <2>2, <2>3, <3>1, <4>3
    <3> QED
      BY <3>2, <3>3
  <2>5. undecoded <= owed \/ undecoded <= p
    BY <1>0 DEF ReaderInv
  <2>6. connectedAt <= p /\ lastTrx' <= p /\ (lastTrx' # 0 => connectedAt <= lastTrx')
    BY <1>0, <2>1, <2>3 DEF ReaderInv
  <2>7. Positions' = Positions
    BY DEF Positions
  <2> HIDE DEF p
  <2> QED
    BY <2>1, <2>4, <2>5, <2>6, <2>7 DEF ReaderInv, IsMarker
<1>5. CASE SendEntry
  <2>1. /\ process # "down" /\ inHand[1] = readPos /\ inHand' = << >> /\ readPos \in 1..n
        /\ UNCHANGED <<readPos, undecoded, owed, process, connectedAt>>
        /\ inHand = <<readPos>>
    BY <1>5, SendEntryMoves, Types DEF SendEntry
  <2>2. lastTrx' = IF binlog[readPos] = "xid" THEN readPos ELSE lastTrx
    BY <1>5, <2>1 DEF SendEntry, IsMarker
  <2>3. RestartPos' = IF binlog[readPos] = "xid" THEN readPos ELSE RestartPos
    BY <1>0, <2>1, <2>2 DEF RestartPos
  <2>4. ASSUME NEW i \in Positions, binlog[i] = "xid", i <= readPos
        PROVE  i <= RestartPos'
    <3>1. i <= RestartPos \/ i = readPos
      <4>1. <<i>> = <<readPos>> => i = readPos
        OBVIOUS
      <4> QED
        BY <2>1, <2>4, <4>1 DEF ReaderInv, IsMarker
    <3>2. CASE binlog[readPos] = "xid"
      BY <2>3, <2>4, <3>2
    <3>3. CASE binlog[readPos] # "xid"
      BY <2>3, <2>4, <3>1, <3>3
    <3> QED
      BY <3>2, <3>3
  <2>5. connectedAt <= readPos /\ lastTrx' <= readPos /\ (lastTrx' # 0 => connectedAt <= lastTrx')
    BY <1>0, <2>1, <2>2 DEF ReaderInv
  <2>6. Positions' = Positions
    BY DEF Positions
  <2>7. undecoded <= owed \/ undecoded <= readPos
    BY DEF ReaderInv
  <2> QED
    BY <2>1, <2>4, <2>5, <2>6, <2>7, SMTT(30) DEF ReaderInv, IsMarker
<1>6. CASE Reconnect
  <2>1. /\ process # "down" /\ inHand = << >> /\ inHand' = << >>
        /\ lastTrx # 0 \/ connectedAt = initial
        /\ readPos' = IF lastTrx # 0 THEN lastTrx ELSE initial
        /\ connectedAt' = readPos' /\ lastTrx' = 0 /\ undecoded' = 0
        /\ UNCHANGED <<owed, process>>
    BY <1>6 DEF Reconnect, Steady
  <2>2. readPos' = RestartPos /\ RestartPos' = RestartPos
    BY <2>1 DEF RestartPos
  <2> QED
    BY <1>0, <2>1, <2>2 DEF ReaderInv
<1>7. CASE AddDMLEventsListener
  <2>1. /\ process # "down" /\ process' # "down"
        /\ UNCHANGED <<inHand, readPos, connectedAt, lastTrx>>
        /\ undecoded' \in readPos..n
        /\ owed' = n \/ undecoded' = readPos
    BY <1>7 DEF AddDMLEventsListener, Steady
  <2>2. undecoded' <= owed' \/ undecoded' <= readPos'
    BY <1>0, <2>1
  <2>3. RestartPos' = RestartPos /\ Positions' = Positions
    BY <2>1 DEF RestartPos, Positions
  <2> HIDE DEF n
  <2> QED
    BY <2>1, <2>2, <2>3 DEF ReaderInv, IsMarker
<1>8. CASE Swap
  <2>1. UNCHANGED <<inHand, readPos, undecoded, process, connectedAt, lastTrx>> /\ owed' = n
    BY <1>8, ZenonT(60) DEF Swap
  <2>2. undecoded' <= owed'
    BY <1>0, <2>1
  <2>3. RestartPos' = RestartPos /\ Positions' = Positions
    BY <2>1 DEF RestartPos, Positions
  <2> HIDE DEF n
  <2> QED
    BY <2>1, <2>2, <2>3 DEF ReaderInv, IsMarker
<1>9. CASE ProcessEnds
  <2>1. inHand' = << >> /\ undecoded' = 0 /\ process' = "down" /\ owed' = owed
    BY <1>9 DEF ProcessEnds, Forgotten
  <2> QED
    BY <1>0, <2>1 DEF ReaderInv
<1>10. CASE Resume \/ Revert
  <2>1. /\ inHand' = << >> /\ undecoded' = 0 /\ owed' = owed /\ lastTrx' = 0
        /\ connectedAt' = readPos'
    BY <1>10 DEF Resume, Revert, StartStreaming, IdleInv
  <2>2. RestartPos' = readPos'
    BY <2>1 DEF RestartPos
  <2>3. readPos' \in 0..Len(binlog')
    BY ZenonT(60) DEF TypeOK
  <2> QED
    BY <1>0, <2>1, <2>2, <2>3 DEF ReaderInv
<1>11. CASE Dispatch \/ (\E p \in enqueuing : EnqueueSentinel(p)) \/ Writer
  BY <1>3, <1>11, SMTT(30) DEF Dispatch, EnqueueSentinel, Writer, HandleNonDML,
                               CollectBatch,
                     ApplyBatch, AcknowledgeBatch
<1>12. CASE \/ Checkpointer \/ ReceiveLockProcessed \/ CutOverFails
            \/ CheckpointAfterCutOver
  BY <1>3, <1>12, SMTT(30) DEF Checkpointer, BeginCheckpoint, WriteCheckpoint,
                               CheckpointFails,
                     ReceiveLockProcessed, CutOverFails, CheckpointAfterCutOver
<1>13. CASE Terminated \/ Transact \/ InjectHeartbeat \/ InjectSentinel \/ UNCHANGED vars
  BY <1>3, <1>13 DEF Terminated, vars, Transact, InjectHeartbeat, InjectSentinel
<1> QED
  BY <1>4, <1>5, <1>6, <1>7, <1>8, <1>9, <1>10, <1>11, <1>12, <1>13, SMTT(30)
     DEF Next, Reader, Dispatcher, CutOver

\* Every step keeps every row before the sentinel that the cut-over waits for.
LEMMA CutOverStep ==
    ASSUME TypeOK, TypeOK', LogInv, IdleInv, CutOverInv, [Next]_vars
    PROVE  CutOverInv'
<1> USE DEF tableVars, mainVars, readerVars, writerVars
<1> DEFINE n == Len(binlog)
<1>0. /\ n \in Nat /\ challenge \in 0..n /\ owed \in 0..n /\ checkpoint.coords \in 0..n
      /\ Positions = 1..n /\ binlog \in Seq(Entries)
  BY Types, ZenonT(60) DEF TypeOK
<1>1. ASSUME NEW rows \in Seq(Entries), Log(rows),
             main \in {"waiting", "synced"} =>
                \A i \in 1..Len(binlog') : i > n => binlog'[i] \notin Keys,
             UNCHANGED <<main, challenge, owed, table, checkpoint>>
      PROVE  CutOverInv'
  <2>1. /\ \A i \in 1..n : binlog'[i] = binlog[i]
        /\ Len(binlog') \in Nat /\ n <= Len(binlog')
    BY <1>0, <1>1, LogTypes
  <2>2. main # "running" => /\ challenge > 0 /\ challenge < Len(binlog')
                            /\ binlog'[challenge] = "sentinel" /\ binlog'[challenge + 1] = "xid"
    BY <1>0, <2>1 DEF CutOverInv, IsMarker
  <2>3. ASSUME main \in {"waiting", "synced"}, NEW r \in 1..Len(binlog'), binlog'[r] \in Keys
        PROVE  r < challenge
    <3>1. r \in 1..n /\ binlog[r] \in Keys
      BY <1>0, <1>1, <2>1, <2>3
    <3> QED
      BY <1>0, <2>3, <3>1 DEF CutOverInv, IsRow
  <2> QED
    BY <1>1, <2>2, <2>3 DEF CutOverInv, IsMarker, IsRow, Positions
<1>2. CASE Transact
  <2>1. PICK rows \in Transactions : Log(rows)
    BY <1>2 DEF Transact
  <2> QED
    BY <1>1, <1>2, <2>1, ChangelogEntries DEF Transact
<1>3. CASE InjectHeartbeat
  <2>1. Log(<<"heartbeat">>)
    BY <1>3 DEF InjectHeartbeat
  <2>2. /\ Len(binlog') = n + 3 /\ <<"heartbeat">> \in Seq(Entries)
        /\ binlog'[n + 1] = "gtid" /\ binlog'[n + 2] = "heartbeat" /\ binlog'[n + 3] = "xid"
    BY <2>1, ChangelogWritten
  <2>3. \A i \in 1..Len(binlog') : i > n => i = n + 1 \/ i = n + 2 \/ i = n + 3
    BY <1>0, <2>2
  <2>4. \A i \in 1..Len(binlog') : i > n => binlog'[i] \notin Keys
    BY <2>2, <2>3, PipelineAssumption
  <2> QED
    BY <1>1, <1>3, <2>1, <2>2, <2>4, ZenonT(60) DEF InjectHeartbeat
<1>4. CASE InjectSentinel
  <2>1. /\ Log(<<"sentinel">>) /\ challenge' = n + 2 /\ main' = "waiting"
        /\ UNCHANGED <<owed, table, checkpoint>>
    BY <1>4 DEF InjectSentinel
  <2>2. /\ Len(binlog') = n + 3
        /\ binlog'[n + 1] = "gtid" /\ binlog'[n + 2] = "sentinel" /\ binlog'[n + 3] = "xid"
    BY <2>1, ChangelogWritten
  <2>3. \A i \in 1..Len(binlog') : i < n + 2 \/ i = n + 2 \/ i = n + 3
    BY <1>0, <2>2
  <2>4. \A i \in 1..Len(binlog') : binlog'[i] \in Keys => i < n + 2
    BY <2>2, <2>3, PipelineAssumption
  <2>5. challenge' > 0 /\ challenge' < Len(binlog') /\ challenge' + 1 = n + 3
    BY <1>0, <2>1, <2>2
  <2> QED
    BY <2>1, <2>2, <2>4, <2>5 DEF CutOverInv, IsMarker, IsRow, Positions
<1> SUFFICES ASSUME binlog' = binlog PROVE CutOverInv'
  BY <1>2, <1>3, <1>4, LogKept
<1>5. Positions' = Positions
  BY DEF Positions
<1>6. CASE ReadEvent \/ SendEntry \/ Reconnect \/ Dispatch
  BY <1>5, <1>6, SMTT(30)
     DEF ReadEvent, SendEntry, Reconnect, Dispatch, CutOverInv, IsMarker, IsRow
<1>7. CASE (\E p \in enqueuing : EnqueueSentinel(p)) \/ Writer
  BY <1>5, <1>7 DEF EnqueueSentinel, Writer, HandleNonDML, CollectBatch, ApplyBatch,
                    AcknowledgeBatch, CutOverInv, IsMarker, IsRow
<1>8. CASE AddDMLEventsListener
  <2>1. UNCHANGED <<main, challenge, table, checkpoint>> /\ owed' \in {owed, n}
    BY <1>8 DEF AddDMLEventsListener
  <2>2. /\ main' = "swapped" => challenge' < owed'
        /\ table' = "ghost" /\ checkpoint'.cutover => checkpoint'.coords <= owed'
    BY <1>0, <2>1 DEF CutOverInv
  <2> HIDE DEF n
  <2> QED
    BY <1>5, <2>1, <2>2 DEF CutOverInv, IsMarker, IsRow
<1>9. CASE BeginCheckpoint \/ CheckpointFails
  BY <1>5, <1>9 DEF BeginCheckpoint, CheckpointFails, CutOverInv, IsMarker, IsRow
<1>10. CASE WriteCheckpoint
  <2>1. UNCHANGED <<main, challenge, table, owed>> /\ checkpoint'.cutover = FALSE
    BY <1>10 DEF WriteCheckpoint
  <2> QED
    BY <1>5, <2>1 DEF CutOverInv, IsMarker, IsRow
<1>11. CASE ReceiveLockProcessed \/ CutOverFails
  BY <1>5, <1>11 DEF ReceiveLockProcessed, CutOverFails, CutOverInv, IsMarker, IsRow
<1>12. CASE Swap
  <2>1. main = "synced" /\ main' = "swapped" /\ owed' = n /\ UNCHANGED <<challenge, checkpoint>>
    BY <1>12, ZenonT(60) DEF Swap
  <2>2. challenge' < owed' /\ checkpoint'.coords <= owed'
    BY <1>0, <2>1 DEF CutOverInv
  <2> HIDE DEF n
  <2> QED
    BY <1>5, <2>1, <2>2 DEF CutOverInv, IsMarker, IsRow
<1>13. CASE CheckpointAfterCutOver
  <2>1. /\ main = "swapped" /\ main' = "done" /\ UNCHANGED <<challenge, table, owed>>
        /\ checkpoint'.coords = CoordsAt(challenge)
    BY <1>13 DEF CheckpointAfterCutOver
  <2>2. challenge < owed /\ IsMarker(challenge + 1) /\ challenge > 0
    BY <2>1 DEF CutOverInv
  <2>3. challenge + 1 \in Positions /\ challenge <= challenge + 1 /\ challenge + 1 <= owed
    BY <1>0, <2>2
  <2>4. CoordsAt(challenge) <= challenge + 1 /\ CoordsAt(challenge) \in 0..n
    BY <1>0, <2>2, <2>3, Coords
  <2>5. CoordsAt(challenge) <= owed
    BY <1>0, <2>3, <2>4
  <2> QED
    BY <1>5, <2>1, <2>5 DEF CutOverInv, IsMarker, IsRow
<1>14. CASE ProcessEnds
  BY <1>5, <1>14 DEF ProcessEnds, CutOverInv, IsMarker, IsRow
<1>15. CASE Resume \/ Revert
  BY <1>5, <1>15 DEF Resume, Revert, CutOverInv, IsMarker, IsRow
<1>16. CASE Terminated \/ UNCHANGED vars
  BY <1>5, <1>16 DEF Terminated, vars, CutOverInv, IsMarker, IsRow
<1> QED
  BY <1>2, <1>3, <1>4, <1>6, <1>7, <1>8, <1>9, <1>10, <1>11, <1>12, <1>13, <1>14, <1>15,
     <1>16, SMTT(30) DEF Next, Reader, Dispatcher, Checkpointer, CutOver

\* The cut-over waits for the sentinel it wrote, and a checkpoint has the coordinates of
\* the last transaction applied.
LEMMA Awaited ==
    ASSUME [Next]_vars
    PROVE  /\ main' = "synced" =>
                 challenge' = challenge /\ (main = "synced" \/ lockProcessed = challenge)
           /\ table' = "original" =>
                 /\ table = "original"
                 /\ \/ checkpoint' = checkpoint
                    \/ /\ appliedTrx # 0 /\ checkpoint'.coords = appliedTrx
                       /\ process # "down"
                       /\ UNCHANGED <<binlog, lastTrx, connectedAt, batch, queue, events, inHand>>
<1> USE DEF tableVars, mainVars, readerVars, writerVars
<1>1. CASE Transact \/ InjectHeartbeat \/ Reconnect
  BY <1>1 DEF Transact, InjectHeartbeat, Reconnect
<1>R. CASE Reader
  BY <1>R DEF Reader, ReadEvent, SendEntry
<1>D. CASE Dispatcher
  BY <1>D, SMTT(30) DEF Dispatcher, Dispatch, EnqueueSentinel
<1>2. CASE AddDMLEventsListener \/ Writer
  BY <1>2 DEF AddDMLEventsListener, Writer, HandleNonDML, CollectBatch, ApplyBatch,
              AcknowledgeBatch
<1>3. CASE Checkpointer
  BY <1>3 DEF Checkpointer, BeginCheckpoint, WriteCheckpoint, CheckpointFails
<1>4. CASE CutOver
  BY <1>4, ZenonT(60) DEF CutOver, InjectSentinel, ReceiveLockProcessed, CutOverFails, Swap,
              CheckpointAfterCutOver
<1>5. CASE ProcessEnds \/ Resume \/ Revert \/ Terminated \/ UNCHANGED vars
  BY <1>5 DEF ProcessEnds, Resume, Revert, Terminated, vars
<1> QED
  BY <1>1, <1>R, <1>D, <1>2, <1>3, <1>4, <1>5 DEF Next

\* A process that is down is started again by Resume or Revert only.
LEMMA StartsAgain ==
    ASSUME [Next]_vars, IdleInv, process = "down", process' # "down"
    PROVE  (Resume /\ table = "original") \/ (Revert /\ table = "ghost")
<1> USE DEF tableVars, mainVars, readerVars, writerVars
<1>1. CASE Transact \/ InjectHeartbeat \/ Reconnect
  BY <1>1 DEF Transact, InjectHeartbeat, Reconnect
<1>R. CASE Reader
  BY <1>R DEF Reader, ReadEvent, SendEntry
<1>D. CASE Dispatcher
  BY <1>D DEF Dispatcher, Dispatch, EnqueueSentinel
<1>2. CASE AddDMLEventsListener \/ Writer \/ Checkpointer
  BY <1>2, ZenonT(60) DEF AddDMLEventsListener, Writer, HandleNonDML, CollectBatch,
                          ApplyBatch,
              AcknowledgeBatch, Checkpointer, BeginCheckpoint, WriteCheckpoint, CheckpointFails
<1>3. CASE CutOver
  BY <1>3, ZenonT(60) DEF CutOver, InjectSentinel, ReceiveLockProcessed, CutOverFails, Swap,
              CheckpointAfterCutOver
<1>4. CASE Resume \/ Revert
  BY <1>4 DEF Resume, Revert
<1>5. CASE ProcessEnds \/ Terminated \/ UNCHANGED vars
  BY <1>5 DEF ProcessEnds, Terminated, vars
<1> QED
  BY <1>1, <1>R, <1>D, <1>2, <1>3, <1>4, <1>5 DEF Next

=============================================================================
