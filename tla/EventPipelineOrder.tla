------------------------- MODULE EventPipelineOrder -------------------------
(***************************************************************************)
(* The order of the entries on their way from the binlog to the writer: a  *)
(* row never gets ahead of the marker or the function that comes before it *)
(* in the log, although a sentinel's function waits in a goroutine of its  *)
(* own and a reader that reconnects sends entries again.  So what was      *)
(* acknowledged, or awaited and reported, has nothing before it under way. *)
(***************************************************************************)
EXTENDS EventPipelineInv

\* Two sequences in order make one when the second follows the first.
LEMMA OrderedJoined ==
    ASSUME NEW b, NEW s \in Seq(Nat), NEW t \in Seq(Nat)
    PROVE  Ordered(b, s \o t)
              <=> Ordered(b, s) /\ Ordered(b, t) /\ Follows(b, Range(s), Range(t))
<1> DEFINE c == s \o t
<1>0. /\ \A x : x \in Range(s) <=> \E i \in 1..Len(s) : x = s[i]
      /\ \A x : x \in Range(t) <=> \E i \in 1..Len(t) : x = t[i]
  BY DEF Range
<1>1. /\ Len(s) \in Nat /\ Len(t) \in Nat /\ Len(c) = Len(s) + Len(t)
      /\ \A i \in 1..Len(s) : c[i] = s[i]
      /\ \A i \in 1..Len(t) : c[Len(s) + i] = t[i]
  OBVIOUS
<1> HIDE DEF c
<1>2. \A i \in 1..Len(c) : i \in 1..Len(s) \/ (\E j \in 1..Len(t) : i = Len(s) + j)
  <2> SUFFICES ASSUME NEW i \in 1..Len(c), i \notin 1..Len(s)
               PROVE  \E j \in 1..Len(t) : i = Len(s) + j
    OBVIOUS
  <2>1. i - Len(s) \in 1..Len(t) /\ i = Len(s) + (i - Len(s))
    BY <1>1
  <2> QED
    BY <2>1, ZenonT(60)
<1>3. ASSUME Ordered(b, c)
      PROVE  Ordered(b, s) /\ Ordered(b, t) /\ Follows(b, Range(s), Range(t))
  <2>1. Ordered(b, s)
    BY <1>1, <1>3 DEF Ordered
  <2>2. Ordered(b, t)
    <3> SUFFICES ASSUME NEW i \in 1..Len(t), NEW j \in 1..Len(t), i < j,
                        b[t[i]] \notin Keys, b[t[j]] \in Keys
                 PROVE  t[i] < t[j]
      BY DEF Ordered
    <3>1. Len(s) + i \in 1..Len(c) /\ Len(s) + j \in 1..Len(c) /\ Len(s) + i < Len(s) + j
      BY <1>1
    <3>2. c[Len(s) + i] = t[i] /\ c[Len(s) + j] = t[j]
      BY <1>1, ZenonT(60)
    <3> QED
      BY <1>3, <3>1, <3>2 DEF Ordered
  <2>3. Follows(b, Range(s), Range(t))
    <3> SUFFICES ASSUME NEW x \in Range(s), NEW y \in Range(t),
                        b[x] \notin Keys, b[y] \in Keys
                 PROVE  x < y
      BY DEF Follows, Behind
    <3>0. PICK i \in 1..Len(s) : x = s[i]
      BY <1>0
    <3>3. PICK j \in 1..Len(t) : y = t[j]
      BY <1>0
    <3>1. i \in 1..Len(c) /\ Len(s) + j \in 1..Len(c) /\ i < Len(s) + j
      BY <1>1
    <3>2. c[i] = s[i] /\ c[Len(s) + j] = t[j]
      BY <1>1
    <3> QED
      BY <1>3, <3>0, <3>1, <3>2, <3>3, SMTT(30) DEF Ordered
  <2> QED
    BY <2>1, <2>2, <2>3
<1>4. ASSUME Ordered(b, s), Ordered(b, t), Follows(b, Range(s), Range(t))
      PROVE  Ordered(b, c)
  <2> SUFFICES ASSUME NEW i \in 1..Len(c), NEW j \in 1..Len(c), i < j,
                      b[c[i]] \notin Keys, b[c[j]] \in Keys
               PROVE  c[i] < c[j]
    BY DEF Ordered
  <2>1. CASE j \in 1..Len(s)
    <3>1. i \in 1..Len(s)
      BY <1>1, <2>1
    <3>2. c[i] = s[i] /\ c[j] = s[j]
      BY <1>1, <2>1, <3>1
    <3> QED
      BY <1>4, <2>1, <3>1, <3>2 DEF Ordered
  <2>2. CASE i \in 1..Len(s) /\ j \notin 1..Len(s)
    <3>1. PICK l \in 1..Len(t) : j = Len(s) + l
      BY <1>2, <2>2
    <3>2. c[i] = s[i] /\ c[j] = t[l]
      BY <1>1, <2>2, <3>1
    <3>3. s[i] \in Range(s) /\ t[l] \in Range(t)
      BY <1>0, <2>2, ZenonT(60)
    <3> QED
      BY <1>4, <3>2, <3>3 DEF Follows, Behind
  <2>3. CASE i \notin 1..Len(s)
    <3>1. PICK h \in 1..Len(t) : i = Len(s) + h
      BY <1>2, <2>3
    <3>2. j \notin 1..Len(s)
      BY <1>1, <3>1
    <3>3. PICK l \in 1..Len(t) : j = Len(s) + l
      BY <1>2, <3>2
    <3>4. c[i] = t[h] /\ c[j] = t[l] /\ h < l
      BY <1>1, <3>1, <3>3
    <3> QED
      BY <1>4, <3>4 DEF Ordered
  <2> QED
    BY <2>1, <2>2, <2>3
<1> QED
  BY <1>3, <1>4 DEF c

\* One entry is in order.
LEMMA OrderedOne == ASSUME NEW b, NEW x PROVE Ordered(b, <<x>>) /\ Ordered(b, << >>)
BY DEF Ordered

\* What stands of positions of the log stands when the log grows.
LEMMA ChainGrows ==
    ASSUME NEW b \in Seq(Entries), NEW c \in Seq(Entries), Grows(b, c),
           NEW r, NEW S \in SUBSET (1..Len(b)), NEW p \in 0..Len(b)
    PROVE  /\ Past(b, r, p) => Past(c, r, p)
           /\ Behind(b, p, S) => Behind(c, p, S)
           /\ Clear(b, r, S, p) => Clear(c, r, S, p)
<1>0. Len(b) \in Nat /\ Len(c) \in Nat /\ Len(b) <= Len(c)
  BY DEF Grows
<1>1. Past(b, r, p) => Past(c, r, p)
  BY <1>0 DEF Past, Grows
<1>2. Behind(b, p, S) => Behind(c, p, S)
  BY DEF Behind, Grows
<1>3. p # 0 => c[p] = b[p]
  BY <1>0 DEF Grows
<1> QED
  BY <1>1, <1>2, <1>3 DEF Clear

\* What follows in the log follows in a longer one.
LEMMA FollowsGrows ==
    ASSUME NEW b \in Seq(Entries), NEW c \in Seq(Entries), Grows(b, c),
           NEW S \in SUBSET (1..Len(b)), NEW T \in SUBSET (1..Len(b)), Follows(b, S, T)
    PROVE  Follows(c, S, T)
BY DEF Follows, Behind, Grows

\* What is passed in the log is passed in a longer one.
LEMMA PassedGrows ==
    ASSUME NEW b \in Seq(Entries), NEW c \in Seq(Entries), Grows(b, c),
           NEW r, NEW S \in SUBSET (1..Len(b)), Passed(b, r, S)
    PROVE  Passed(c, r, S)
<1>1. Len(b) \in Nat /\ Len(c) \in Nat /\ Len(b) <= Len(c)
  BY DEF Grows
<1>2. \A p \in 1..Len(b) : Past(b, r, p) => Past(c, r, p)
  BY <1>1 DEF Past, Grows
<1> QED
  BY <1>1, <1>2 DEF Passed, Grows

\* What is in order in the log is so in a longer one.
LEMMA OrderedGrows ==
    ASSUME NEW b \in Seq(Entries), NEW c \in Seq(Entries), Grows(b, c),
           NEW s \in Seq(1..Len(b)), Ordered(b, s)
    PROVE  Ordered(c, s)
<1>1. \A i \in 1..Len(s) : s[i] \in 1..Len(b)
  OBVIOUS
<1> QED
  BY <1>1, ZenonT(60) DEF Ordered, Grows

-----------------------------------------------------------------------------
(* Rows, markers and functions keep their order.                           *)

\* The reader completes more and more.
LEMMA PastMore ==
    ASSUME NEW b \in Seq(Entries), NEW r \in Nat, NEW q \in Nat, r <= q, NEW S
    PROVE  /\ \A p : Past(b, r, p) => Past(b, q, p)
           /\ Passed(b, r, S) => Passed(b, q, S)
<1>1. \A p : Past(b, r, p) => Past(b, q, p)
  BY DEF Past
<1> QED
  BY <1>1 DEF Passed

\* A row that is read follows everything before it in the pipeline.
LEMMA ReadFollows ==
    ASSUME NEW b \in Seq(Entries), NEW r \in Nat, NEW p \in 1..Len(b), r < p, NEW S,
           S \subseteq Nat, Passed(b, r, S)
    PROVE  /\ Follows(b, S, {p})
           /\ \A T : Follows(b, S, T) => Follows(b, S, T \cup {p})
           /\ \A x \in S : \A T : b[x] \notin Keys /\ Behind(b, x, T) => Behind(b, x, T \cup {p})
<1>1. ASSUME NEW x \in S, b[x] \notin Keys, b[p] \in Keys PROVE x < p
  <2>1. ~(p < x)
    BY <1>1 DEF Passed, Past
  <2>2. p # x
    BY <1>1
  <2>3. x \in Nat /\ p \in Nat
    OBVIOUS
  <2> QED
    BY <2>1, <2>2, <2>3
<1>2. Follows(b, S, {p})
  BY <1>1 DEF Follows, Behind
<1> QED
  BY <1>1, <1>2 DEF Follows, Behind

\* The head of a sequence comes before the rest of it.
LEMMA HeadFirst ==
    ASSUME NEW b, NEW p \in Nat, NEW s \in Seq(Nat), Ordered(b, <<p>> \o s)
    PROVE  /\ Ordered(b, s) /\ Follows(b, {p}, Range(s))
           /\ Range(<<p>> \o s) = {p} \cup Range(s)
<1> DEFINE h == <<p>>
<1>1. h \in Seq(Nat) /\ Range(h) = {p}
  BY RangeOne
<1>2. Ordered(b, h \o s)
  OBVIOUS
<1> HIDE DEF h
<1>3. Ordered(b, s) /\ Follows(b, Range(h), Range(s))
  BY <1>1, <1>2, OrderedJoined, ZenonT(60)
<1>4. Range(h \o s) = Range(h) \cup Range(s)
  BY <1>1, RangeJoined
<1> QED
  BY <1>1, <1>3, <1>4, ZenonT(60) DEF h

\* An entry that follows a sequence in order can be appended to it.
LEMMA LastFollows ==
    ASSUME NEW b, NEW p \in Nat, NEW s \in Seq(Nat), Ordered(b, s), Follows(b, Range(s), {p})
    PROVE  Ordered(b, s \o <<p>>) /\ Range(s \o <<p>>) = Range(s) \cup {p}
<1> DEFINE h == <<p>>
<1>1. h \in Seq(Nat) /\ Range(h) = {p} /\ Ordered(b, h)
  BY RangeOne, OrderedOne
<1> HIDE DEF h
<1>2. Ordered(b, s \o h) /\ Range(s \o h) = Range(s) \cup Range(h)
  BY <1>1, OrderedJoined, RangeJoined, ZenonT(60)
<1> QED
  BY <1>1, <1>2 DEF h

\* Nothing precedes a function in its transaction: the rows before it are completed.
LEMMA FuncIsPast ==
    ASSUME TypeOK, LogInv, ReaderInv, process # "down", inHand = << >>,
           readPos + 1 \in Positions, IsFunc(readPos + 1)
    PROVE  Past(binlog, RestartPos, readPos + 1)
<1> DEFINE p == readPos + 1
<1>1. p \in 1..Len(binlog) /\ Len(binlog) \in Nat /\ RestartPos \in Nat /\ readPos \in Nat
  BY Types
<1>2. p > 1 /\ binlog[p - 1] \notin Keys /\ (p > 2 => binlog[p - 2] = "xid")
  BY <1>1 DEF LogInv, Complete, IsFunc
<1> SUFFICES ASSUME NEW i \in 1..Len(binlog), binlog[i] \in Keys, i < p
             PROVE  i <= RestartPos
  BY DEF Past
<1>3. i # p - 1 /\ i < p - 1
  BY <1>1, <1>2
<1>4. p > 2 /\ i <= p - 2 /\ p - 2 \in Positions /\ p - 2 <= readPos
  BY <1>1, <1>3, Types, SMTT(30)
<1>5. p - 2 <= RestartPos
  <2>1. inHand # <<p - 2>>
    BY SMTT(30)
  <2> QED
    BY <1>2, <1>4, <2>1 DEF ReaderInv, IsMarker
<1> QED
  BY <1>1, <1>4, <1>5

\* ChainInv, of a log b and what is in the pipeline; H: the reader's function in hand.
Chained(b, r, B, Q, E, S, N, alive, h, p) ==
    /\ Follows(b, B, Q) /\ Follows(b, B, S) /\ Follows(b, Q, S)
    /\ \A x \in N : b[x] \notin Keys /\ Behind(b, x, S)
    /\ alive => /\ Passed(b, r, B) /\ Passed(b, r, Q) /\ Passed(b, r, E) /\ Passed(b, r, N)
                /\ h /\ b[p] \in {"heartbeat", "sentinel"} => Past(b, r, p)

\* The invariant in terms of the sequences that it is about.
LEMMA ChainIs ==
    /\ ChainInv <=> /\ Ordered(binlog, batch) /\ Ordered(binlog, queue) /\ Ordered(binlog, Sent)
                    /\ Chained(binlog, RestartPos, Range(batch), Range(queue), Range(events),
                               Range(Sent), enqueuing, process # "down", inHand # << >>, readPos)
    /\ ChainInv' <=> /\ Ordered(binlog', batch') /\ Ordered(binlog', queue')
                     /\ Ordered(binlog', Sent')
                     /\ Chained(binlog', RestartPos', Range(batch'), Range(queue'),
                                Range(events'), Range(Sent'), enqueuing',
                                process' # "down", inHand' # << >>, readPos')
BY DEF ChainInv, Chained, IsRow, IsFunc

\* Every step keeps rows behind the markers and the functions that come before them.
LEMMA ChainStep ==
    ASSUME Steady, TypeOK, TypeOK', LogInv, ReaderInv, IdleInv, ChainInv, [Next]_vars
    PROVE  ChainInv'
<1> USE DEF tableVars, mainVars, readerVars, writerVars
<1> DEFINE b == binlog
           r == RestartPos
           B == Range(batch)
           Q == Range(queue)
           E == Range(events)
           S == Range(Sent)
           N == enqueuing
           alive == process # "down"
           h == inHand # << >>
<1>0. /\ b \in Seq(Entries) /\ Len(b) \in Nat /\ Positions = 1..Len(b) /\ r \in Nat
      /\ B \subseteq 1..Len(b) /\ Q \subseteq 1..Len(b) /\ E \subseteq S
      /\ S \subseteq 1..Len(b) /\ N \subseteq 1..Len(b)
      /\ batch \in Seq(Nat) /\ queue \in Seq(Nat) /\ events \in Seq(Nat) /\ Sent \in Seq(Nat)
      /\ batch \in Seq(1..Len(b)) /\ queue \in Seq(1..Len(b)) /\ Sent \in Seq(1..Len(b))
  BY Types DEF InLine
<1>1. /\ Ordered(b, batch) /\ Ordered(b, queue) /\ Ordered(b, Sent)
      /\ Chained(b, r, B, Q, E, S, N, alive, h, readPos)
  BY ChainIs
<1>2. ASSUME UNCHANGED <<process, lastTrx, connectedAt, readPos, inHand, events, enqueuing,
                         queue, batch>>,
             Grows(binlog, binlog'), binlog' \in Seq(Entries)
      PROVE  ChainInv'
  <2> DEFINE c == binlog'
  <2>1. /\ batch' = batch /\ queue' = queue /\ Sent' = Sent /\ events' = events
        /\ enqueuing' = enqueuing /\ readPos' = readPos /\ inHand' = inHand
        /\ RestartPos' = RestartPos /\ process' = process
    BY <1>2 DEF Sent, RestartPos
  <2>2. Grows(b, c) /\ c \in Seq(Entries)
    BY <1>2
  <2>3. h => readPos \in 1..Len(b)
    <3> SUFFICES ASSUME h PROVE readPos \in 1..Len(b)
      OBVIOUS
    <3>1. inHand = <<readPos>>
      BY DEF ReaderInv
    <3>2. inHand \in Seq(Positions) /\ Len(inHand) = 1 /\ inHand[1] = readPos
      BY <3>1, Types
    <3> QED
      BY <1>0, <3>2, Element
  <2> HIDE DEF b, c, r, B, Q, E, S, N, alive, h
  <2>4. /\ Ordered(c, batch) /\ Ordered(c, queue) /\ Ordered(c, Sent)
    BY <1>0, <1>1, <2>2, OrderedGrows, SMTT(30)
  <2>5. Follows(c, B, Q) /\ Follows(c, B, S) /\ Follows(c, Q, S)
    <3>1. Follows(b, B, Q) /\ Follows(b, B, S) /\ Follows(b, Q, S)
      BY <1>1 DEF Chained
    <3> QED
      BY <1>0, <2>2, <3>1, FollowsGrows, ZenonT(60)
  <2>6. ASSUME NEW x \in N PROVE c[x] \notin Keys /\ Behind(c, x, S)
    <3>1. x \in 1..Len(b) /\ x \in 0..Len(b) /\ b[x] \notin Keys /\ Behind(b, x, S)
      BY <1>0, <1>1, SMTT(30) DEF Chained
    <3>2. Behind(c, x, S)
      BY <1>0, <2>2, <3>1, ChainGrows, ZenonT(60)
    <3> QED
      BY <2>2, <3>1, <3>2 DEF Grows
  <2>7. ASSUME alive
        PROVE  /\ Passed(c, r, B) /\ Passed(c, r, Q) /\ Passed(c, r, E) /\ Passed(c, r, N)
    <3>1. Passed(b, r, B) /\ Passed(b, r, Q) /\ Passed(b, r, E) /\ Passed(b, r, N)
      BY <1>1, <2>7, SMTT(30) DEF Chained
    <3>2. E \subseteq 1..Len(b)
      BY <1>0
    <3> QED
      BY <1>0, <2>2, <3>1, <3>2, PassedGrows
  <2>8. ASSUME alive, h, c[readPos] \in {"heartbeat", "sentinel"} PROVE Past(c, r, readPos)
    <3>1. readPos \in 1..Len(b) /\ readPos \in 0..Len(b) /\ c[readPos] = b[readPos]
      BY <1>0, <2>2, <2>3, <2>8 DEF Grows
    <3>2. Past(b, r, readPos)
      BY <1>1, <2>8, <3>1, SMTT(30) DEF Chained
    <3> QED
      BY <1>0, <2>2, <3>1, <3>2, ChainGrows, ZenonT(60)
  <2>9. Chained(c, r, B, Q, E, S, N, alive, h, readPos)
    BY <2>5, <2>6, <2>7, <2>8, SMTT(30) DEF Chained
  <2> QED
    BY <2>1, <2>4, <2>9, ChainIs DEF c, r, B, Q, E, S, N, alive, h
<1>3. CASE binlog' # binlog
  <2>1. Transact \/ InjectHeartbeat \/ InjectSentinel
    BY <1>3, LogKept, SMTT(30)
  <2>2. PICK rows \in Seq(Entries) : Log(rows)
    BY <2>1, ChangelogEntries, ZenonT(60) DEF Transact, InjectHeartbeat, InjectSentinel
  <2>3. Grows(binlog, binlog') /\ binlog' \in Seq(Entries)
    BY <2>2, LogTypes
  <2> QED
    BY <1>2, <2>1, <2>3, SMTT(30) DEF Transact, InjectHeartbeat, InjectSentinel
<1> SUFFICES ASSUME binlog' = binlog PROVE ChainInv'
  BY <1>3, SMTT(30)
<1>4. ASSUME UNCHANGED <<process, lastTrx, connectedAt, readPos, inHand, events, enqueuing,
                         queue, batch>>
      PROVE  ChainInv'
  <2>1. Sent' = Sent /\ RestartPos' = RestartPos
    BY <1>4 DEF Sent, RestartPos
  <2> QED
    BY <1>4, <2>1, ChainIs, SMTT(30)
<1>5. CASE ReadEvent
  <2> DEFINE p == readPos + 1
             q == RestartPos'
             S2 == Range(Sent')
  <2>1. /\ batch' = batch /\ queue' = queue /\ events' = events /\ enqueuing' = enqueuing
        /\ readPos' = p /\ process # "down" /\ process' # "down"
        /\ connectedAt' = connectedAt /\ (lastTrx' = lastTrx \/ lastTrx' = p)
    BY <1>5 DEF ReadEvent
  <2>2. /\ p \in 1..Len(b) /\ p \in Nat /\ inHand = << >> /\ Sent = events
        /\ Sent' = Sent \/ Sent' = Sent \o <<p>>
    <3>1. /\ readPos' \in Positions /\ inHand = << >> /\ Sent = events
          /\ Sent' = Sent \/ Sent' = Sent \o <<readPos'>>
      BY <1>5, ReadEventMoves
    <3>2. p \in Positions /\ (Sent' = Sent \/ Sent' = Sent \o <<p>>)
      BY <2>1, <3>1
    <3> HIDE DEF p
    <3> QED
      BY <1>0, <3>1, <3>2
  <2>3. q \in Nat /\ r <= q /\ r < p
    <3>1. /\ readPos \in Nat /\ lastTrx \in Nat /\ connectedAt \in Nat
          /\ connectedAt <= readPos /\ lastTrx <= readPos
      BY <2>1, Numbers DEF ReaderInv
    <3> QED
      BY <2>1, <3>1 DEF RestartPos
  <2>4. b[p] \in {"heartbeat", "sentinel"} => Past(b, r, p)
    BY <1>0, <2>1, <2>2, FuncIsPast DEF IsFunc
  <2>5. /\ Passed(b, r, B) /\ Passed(b, r, Q) /\ Passed(b, r, S) /\ Passed(b, r, N)
    BY <1>1, <2>1, <2>2 DEF Chained
  <2>6. Ordered(b, Sent') /\ (S2 = S \/ S2 = S \cup {p})
    <3>1. CASE Sent' = Sent
      BY <1>1, <3>1
    <3>2. CASE Sent' = Sent \o <<p>>
      <4> HIDE DEF b, r, p
      <4>1. S \subseteq Nat
        BY <1>0
      <4>2. Follows(b, S, {p})
        <5> HIDE DEF S
        <5> QED
          BY <1>0, <2>2, <2>3, <2>5, <4>1, ReadFollows, ZenonT(60)
      <4>3. Ordered(b, Sent \o <<p>>) /\ Range(Sent \o <<p>>) = Range(Sent) \cup {p}
        BY <1>0, <1>1, <2>2, <4>2, LastFollows, ZenonT(60)
      <4> QED
        BY <3>2, <4>3
    <3> QED
      BY <2>2, <3>1, <3>2
  <2> HIDE DEF b, r, B, Q, E, S, N, p, q, S2
  <2>7. B \subseteq Nat /\ Q \subseteq Nat /\ N \subseteq Nat
    BY <1>0
  <2>8. Follows(b, B, Q) /\ Follows(b, B, S2) /\ Follows(b, Q, S2)
    <3>1. Follows(b, B, Q) /\ Follows(b, B, S) /\ Follows(b, Q, S)
      BY <1>1 DEF Chained
    <3>2. Follows(b, B, S \cup {p}) /\ Follows(b, Q, S \cup {p})
      BY <1>0, <2>2, <2>3, <2>5, <2>7, <3>1, ReadFollows, ZenonT(60)
    <3> QED
      BY <2>6, <3>1, <3>2
  <2>9. ASSUME NEW x \in N PROVE b[x] \notin Keys /\ Behind(b, x, S2)
    <3>1. b[x] \notin Keys /\ Behind(b, x, S)
      BY <1>1 DEF Chained
    <3>2. Behind(b, x, S \cup {p})
      BY <1>0, <2>2, <2>3, <2>5, <2>7, <3>1, ReadFollows, ZenonT(60)
    <3> QED
      BY <2>6, <3>1, <3>2
  <2>10. /\ Passed(b, q, B) /\ Passed(b, q, Q) /\ Passed(b, q, S) /\ Passed(b, q, N)
    BY <1>0, <2>3, <2>5, PastMore
  <2>11. b[p] \in {"heartbeat", "sentinel"} => Past(b, q, p)
    BY <1>0, <2>3, <2>4, PastMore, ZenonT(60)
  <2>12. Chained(b, q, B, Q, S, S2, N, TRUE, inHand' # << >>, p)
    BY <2>8, <2>9, <2>10, <2>11 DEF Chained
  <2>13. Chained(b, q, B, Q, S, S2, N, process' # "down", inHand' # << >>, p)
    BY <2>1, <2>12 DEF Chained
  <2> QED
    BY <1>1, <2>1, <2>2, <2>6, <2>13, ChainIs DEF b, q, B, Q, S, S2, N, p
<1>6. CASE SendEntry
  <2> DEFINE q == RestartPos'
             E2 == Range(events')
  <2>1. /\ batch' = batch /\ queue' = queue /\ enqueuing' = enqueuing
        /\ readPos' = readPos /\ process # "down" /\ process' # "down"
        /\ connectedAt' = connectedAt
        /\ lastTrx' = IF IsMarker(inHand[1]) THEN inHand[1] ELSE lastTrx
    BY <1>6 DEF SendEntry
  <2>2. /\ inHand = <<readPos>> /\ inHand' = << >> /\ readPos \in 1..Len(b)
        /\ events' = Sent /\ Sent' = Sent /\ inHand[1] = readPos
    BY <1>0, <1>6, SendEntryMoves
  <2>3. /\ q \in Nat /\ r <= q /\ (b[readPos] = "xid" => q = readPos)
    <3>1. /\ readPos \in Nat /\ lastTrx \in Nat /\ connectedAt \in Nat
          /\ connectedAt <= readPos /\ lastTrx <= readPos
      BY <2>1, Numbers DEF ReaderInv
    <3> QED
      BY <2>1, <2>2, <3>1 DEF RestartPos, IsMarker
  <2>4. /\ Passed(b, r, B) /\ Passed(b, r, Q) /\ Passed(b, r, E) /\ Passed(b, r, N)
        /\ b[readPos] \in {"heartbeat", "sentinel"} => Past(b, r, readPos)
    BY <1>1, <2>1, <2>2 DEF Chained
  <2>5. E2 = E \cup {readPos} /\ S = E \cup {readPos}
    BY <2>2, Types, RangeOne
  <2>6. b[readPos] # "gtid" /\ b[readPos] \in Entries
    BY <1>0, <2>2, Element DEF ReaderInv
  <2> HIDE DEF b, r, B, Q, E, S, N, q, E2
  <2>7. /\ Passed(b, q, B) /\ Passed(b, q, Q) /\ Passed(b, q, E) /\ Passed(b, q, N)
        /\ b[readPos] \in {"heartbeat", "sentinel"} => Past(b, q, readPos)
    BY <1>0, <2>3, <2>4, PastMore
  <2>8. b[readPos] \notin Keys => Past(b, q, readPos)
    <3>1. CASE b[readPos] = "xid"
      BY <1>0, <2>2, <2>3, <3>1 DEF Past
    <3>2. CASE b[readPos] \in {"heartbeat", "sentinel"}
      BY <2>7, <3>2
    <3> QED
      BY <2>6, <3>1, <3>2 DEF Entries
  <2>9. Passed(b, q, E2)
    BY <2>5, <2>7, <2>8 DEF Passed
  <2>10. Chained(b, q, B, Q, E2, S, N, process' # "down", inHand' # << >>, readPos)
    BY <1>1, <2>2, <2>7, <2>9, SMTT(30) DEF Chained
  <2> QED
    BY <1>1, <2>1, <2>2, <2>10, ChainIs DEF b, q, B, Q, S, E2, N
<1>7. CASE Reconnect
  <2>1. /\ batch' = batch /\ queue' = queue /\ events' = events /\ enqueuing' = enqueuing
        /\ inHand = << >> /\ inHand' = << >> /\ process' = process
        /\ lastTrx' = 0 /\ connectedAt' = readPos'
        /\ lastTrx # 0 \/ connectedAt = initial
        /\ readPos' = IF lastTrx # 0 THEN lastTrx ELSE initial
    BY <1>7 DEF Reconnect, Steady
  <2>2. RestartPos' = RestartPos /\ Sent' = Sent
    BY <2>1 DEF RestartPos, Sent
  <2>3. Chained(b, r, B, Q, E, S, N, alive, inHand' # << >>, readPos')
    <3> HIDE DEF b, r, B, Q, E, S, N, alive, h
    <3> QED
      BY <1>1, <2>1 DEF Chained
  <2> QED
    BY <1>1, <2>1, <2>2, <2>3, ChainIs
<1>8. CASE Dispatch
  <2> DEFINE p == Head(events)
             Q2 == Range(queue')
             E2 == Range(events')
             S2 == Range(Sent')
             N2 == enqueuing'
  <2>1. /\ batch' = batch /\ inHand' = inHand /\ readPos' = readPos
        /\ process # "down" /\ process' # "down"
        /\ connectedAt' = connectedAt /\ lastTrx' = lastTrx
    BY <1>8 DEF Dispatch
  <2>2. /\ p \in 1..Len(b) /\ p \in Nat /\ events' \in Seq(Nat) /\ Sent' \in Seq(Nat)
        /\ events = <<p>> \o events' /\ Sent = <<p>> \o Sent' /\ <<p>> \in Seq(Nat)
    BY <1>0, <1>8, DispatchMoves, SMTT(30)
  <2>3. \/ queue' = queue /\ N2 = N
        \/ queue' = queue /\ N2 = N \cup {p} /\ b[p] = "sentinel"
        \/ queue' = queue \o <<p>> /\ N2 = N
    BY <1>8, DispatchMoves, ZenonT(60)
  <2>4. r = RestartPos'
    BY <2>1 DEF RestartPos
  <2>5. /\ Passed(b, r, B) /\ Passed(b, r, Q) /\ Passed(b, r, E) /\ Passed(b, r, N)
        /\ h /\ b[readPos] \in {"heartbeat", "sentinel"} => Past(b, r, readPos)
    BY <1>1, <2>1 DEF Chained
  <2>6. /\ Follows(b, B, Q) /\ Follows(b, B, S) /\ Follows(b, Q, S)
        /\ \A x \in N : b[x] \notin Keys /\ Behind(b, x, S)
    BY <1>1 DEF Chained
  <2> HIDE DEF b, r, p
  <2>7. Ordered(b, Sent') /\ Follows(b, {p}, S2) /\ S = {p} \cup S2
    <3>1. Ordered(b, <<p>> \o Sent')
      BY <1>1, <2>2
    <3>2. /\ Ordered(b, Sent') /\ Follows(b, {p}, Range(Sent'))
          /\ Range(<<p>> \o Sent') = {p} \cup Range(Sent')
      BY <2>2, <3>1, HeadFirst, ZenonT(60)
    <3> QED
      BY <2>2, <3>2
  <2>8. E = {p} \cup E2
    BY <2>2, RangeJoined, RangeOne, ZenonT(60)
  <2> HIDE DEF B, Q, E, S, N, E2, S2, N2
  <2>9. Follows(b, Q, {p}) /\ Follows(b, B, {p})
    BY <2>6, <2>7 DEF Follows, Behind
  <2>10. Ordered(b, queue') /\ (Q2 = Q \/ Q2 = Q \cup {p})
    <3>1. CASE queue' = queue
      BY <1>1, <3>1 DEF Q
    <3>2. CASE queue' = queue \o <<p>>
      BY <1>0, <1>1, <2>2, <2>9, <3>2, LastFollows, ZenonT(60) DEF Q
    <3> QED
      BY <2>3, <3>1, <3>2
  <2> HIDE DEF Q2
  <2>11. Follows(b, B, Q2) /\ Follows(b, B, S2) /\ Follows(b, Q2, S2)
    BY <2>6, <2>7, <2>9, <2>10 DEF Follows, Behind
  <2>12. ASSUME NEW x \in N2 PROVE b[x] \notin Keys /\ Behind(b, x, S2) /\ Past(b, r, x)
    <3>1. CASE x \in N
      BY <2>5, <2>6, <2>7, <3>1 DEF Behind, Passed
    <3>2. CASE x = p /\ b[p] = "sentinel"
      <4>1. b[p] \notin Keys
        BY <3>2, PipelineAssumption
      <4> QED
        BY <2>5, <2>7, <2>8, <3>2, <4>1 DEF Follows, Passed
    <3> QED
      BY <2>3, <3>1, <3>2
  <2>13. Passed(b, r, B) /\ Passed(b, r, Q2) /\ Passed(b, r, E2) /\ Passed(b, r, N2)
    BY <2>5, <2>8, <2>10, <2>12, SMTT(30) DEF Passed
  <2>14. Chained(b, r, B, Q2, E2, S2, N2, process' # "down", h, readPos)
    BY <2>5, <2>11, <2>12, <2>13, SMTT(30) DEF Chained
  <2> QED
    BY <1>1, <2>1, <2>4, <2>7, <2>10, <2>14, ChainIs, SMTT(30) DEF b, B, Q2, E2, S2, N2
<1>9. ASSUME NEW p \in enqueuing, EnqueueSentinel(p) PROVE ChainInv'
  <2> DEFINE Q2 == Range(queue')
             N2 == enqueuing'
  <2>1. /\ batch' = batch /\ inHand' = inHand /\ readPos' = readPos /\ events' = events
        /\ process # "down" /\ process' # "down"
        /\ connectedAt' = connectedAt /\ lastTrx' = lastTrx /\ N2 \subseteq N
    BY <1>9 DEF EnqueueSentinel
  <2>2. queue' = queue \o <<p>> /\ p \in Nat
    BY <1>0, <1>9, EnqueueSentinelMoves
  <2>3. RestartPos' = RestartPos /\ Sent' = Sent
    BY <2>1 DEF RestartPos, Sent
  <2>4. /\ Passed(b, r, B) /\ Passed(b, r, Q) /\ Passed(b, r, E) /\ Passed(b, r, N)
        /\ h /\ b[readPos] \in {"heartbeat", "sentinel"} => Past(b, r, readPos)
    BY <1>1, <2>1 DEF Chained
  <2>5. /\ Follows(b, B, Q) /\ Follows(b, B, S) /\ Follows(b, Q, S)
        /\ \A x \in N : b[x] \notin Keys /\ Behind(b, x, S)
    BY <1>1 DEF Chained
  <2>6. b[p] \notin Keys /\ Behind(b, p, S) /\ Past(b, r, p)
    BY <2>4, <2>5 DEF Passed
  <2> HIDE DEF b, r, B, Q, E, S, N, N2
  <2>7. Follows(b, Q, {p}) /\ Follows(b, B, {p})
    BY <2>6 DEF Follows, Behind
  <2>8. Ordered(b, queue') /\ Q2 = Q \cup {p}
    BY <1>0, <1>1, <2>2, <2>7, LastFollows, ZenonT(60) DEF Q
  <2> HIDE DEF Q2
  <2>9. Follows(b, B, Q2) /\ Follows(b, Q2, S)
    BY <2>5, <2>6, <2>7, <2>8 DEF Follows, Behind
  <2>10. Passed(b, r, Q2) /\ Passed(b, r, N2)
    BY <2>1, <2>4, <2>6, <2>8, SMTT(30) DEF Passed
  <2>11. Chained(b, r, B, Q2, E, S, N2, process' # "down", h, readPos)
    BY <2>1, <2>4, <2>5, <2>9, <2>10, SMTT(30) DEF Chained
  <2> QED
    BY <1>1, <2>1, <2>3, <2>8, <2>11, ChainIs, SMTT(30) DEF b, r, B, Q2, E, S, N2
<1>10. CASE HandleNonDML \/ CollectBatch
  <2> DEFINE B2 == Range(batch')
             Q2 == Range(queue')
  <2>1. /\ inHand' = inHand /\ readPos' = readPos /\ events' = events /\ enqueuing' = enqueuing
        /\ process' = process /\ connectedAt' = connectedAt /\ lastTrx' = lastTrx
    BY <1>10 DEF HandleNonDML, CollectBatch
  <2>2. RestartPos' = RestartPos /\ Sent' = Sent
    BY <2>1 DEF RestartPos, Sent
  <2>3. /\ Ordered(b, batch') /\ Ordered(b, queue') /\ Follows(b, B2, Q2)
        /\ B2 \subseteq Q /\ Q2 \subseteq Q
    <3> HIDE DEF b
    <3>1. CASE HandleNonDML
      <4>1. batch' = << >>
        BY <3>1 DEF HandleNonDML, IdleInv
      <4>2. queue = <<Head(queue)>> \o queue' /\ Head(queue) \in Nat /\ queue' \in Seq(Nat)
        BY <3>1, HandleNonDMLMoves, Types
      <4>3. Ordered(b, queue') /\ Range(<<Head(queue)>> \o queue') = {Head(queue)} \cup Q2
        <5> DEFINE x == Head(queue)
        <5>1. Ordered(b, <<x>> \o queue') /\ x \in Nat /\ queue' \in Seq(Nat)
          BY <1>1, <4>2, ZenonT(60)
        <5> HIDE DEF x
        <5>2. Ordered(b, queue') /\ Range(<<x>> \o queue') = {x} \cup Range(queue')
          BY <5>1, HeadFirst, ZenonT(60)
        <5> QED
          BY <5>2 DEF x
      <4>4. Ordered(b, batch') /\ B2 = {}
        BY <4>1, OrderedOne, RangeOne, ZenonT(60)
      <4> QED
        BY <4>2, <4>3, <4>4, ZenonT(60) DEF Follows
    <3>2. CASE CollectBatch
      <4>1. queue = batch' \o queue' /\ batch' \in Seq(Nat) /\ queue' \in Seq(Nat)
        BY <3>2, CollectBatchMoves
      <4>2. /\ Ordered(b, batch') /\ Ordered(b, queue') /\ Follows(b, B2, Q2)
        BY <1>1, <4>1, OrderedJoined
      <4>3. Q = B2 \cup Q2
        BY <4>1, RangeJoined, SMTT(30)
      <4> QED
        BY <4>2, <4>3
    <3> QED
      BY <1>10, <3>1, <3>2, SMTT(30)
  <2> HIDE DEF b, r, B, Q, E, S, N, alive, h, B2, Q2
  <2>4. Follows(b, B2, S) /\ Follows(b, Q2, S)
    BY <1>1, <2>3, SMTT(30) DEF Chained, Follows
  <2>5. alive => Passed(b, r, B2) /\ Passed(b, r, Q2)
    BY <1>1, <2>3, SMTT(30) DEF Chained, Passed
  <2>6. Chained(b, r, B2, Q2, E, S, N, alive, h, readPos)
    BY <1>1, <2>3, <2>4, <2>5, SMTT(30) DEF Chained
  <2> QED
    BY <1>1, <2>1, <2>2, <2>3, <2>6, ChainIs, SMTT(30) DEF b, r, B2, Q2, E, S, N, alive, h
<1>11. CASE AcknowledgeBatch
  <2>1. /\ inHand' = inHand /\ readPos' = readPos /\ events' = events /\ enqueuing' = enqueuing
        /\ process' = process /\ connectedAt' = connectedAt /\ lastTrx' = lastTrx
        /\ queue' = queue /\ batch' = << >>
    BY <1>11 DEF AcknowledgeBatch
  <2>2. RestartPos' = RestartPos /\ Sent' = Sent
    BY <2>1 DEF RestartPos, Sent
  <2>3. Ordered(b, batch') /\ Range(batch') = {}
    BY <2>1, OrderedOne, RangeOne, ZenonT(60)
  <2> HIDE DEF b, r, B, Q, E, S, N, alive, h
  <2>4. Chained(b, r, {}, Q, E, S, N, alive, h, readPos)
    BY <1>1, ZenonT(60) DEF Chained, Follows, Passed
  <2> QED
    BY <1>1, <2>1, <2>2, <2>3, <2>4, ChainIs, ZenonT(60) DEF b, r, Q, E, S, N, alive, h
<1>12. CASE ProcessEnds \/ Resume \/ Revert
  <2>1. /\ inHand' = << >> /\ events' = << >> /\ enqueuing' = {}
        /\ queue' = << >> /\ batch' = << >>
    BY <1>12 DEF ProcessEnds, Forgotten, Resume, Revert, StartStreaming, IdleInv
  <2>2. Sent' = << >>
    BY <2>1 DEF Sent
  <2>3. Range(<< >>) = {} /\ Ordered(binlog', << >>)
    BY RangeOne, OrderedOne, ZenonT(60)
  <2>4. Chained(binlog', RestartPos', {}, {}, {}, {}, {}, process' # "down",
                inHand' # << >>, readPos')
    BY <2>1, SMTT(30) DEF Chained, Follows, Passed
  <2> QED
    BY <2>1, <2>2, <2>3, <2>4, ChainIs, SMTT(30)
<1>13. CASE AddDMLEventsListener
  <2>1. /\ UNCHANGED <<lastTrx, connectedAt, readPos, inHand, events, enqueuing, queue, batch>>
        /\ process # "down" /\ process' # "down"
    BY <1>13 DEF AddDMLEventsListener
  <2>2. Sent' = Sent /\ RestartPos' = RestartPos
    BY <2>1, SMTT(30) DEF Sent, RestartPos
  <2> QED
    BY <2>1, <2>2, ChainIs DEF Chained
<1>14. CASE ApplyBatch \/ Checkpointer
  BY <1>4, <1>14, SMTT(30) DEF ApplyBatch, Checkpointer, BeginCheckpoint, WriteCheckpoint,
                     CheckpointFails
<1>15. CASE ReceiveLockProcessed \/ CutOverFails \/ Swap \/ CheckpointAfterCutOver
  BY <1>4, <1>15, ZenonT(60) DEF ReceiveLockProcessed, CutOverFails, Swap,
                                 CheckpointAfterCutOver
<1>16. CASE Terminated \/ Transact \/ InjectHeartbeat \/ InjectSentinel \/ UNCHANGED vars
  BY <1>4, <1>16 DEF Terminated, vars, Transact, InjectHeartbeat, InjectSentinel
<1> QED
  BY <1>5, <1>6, <1>7, <1>8, <1>9, <1>10, <1>11, <1>12, <1>13, <1>14, <1>15, <1>16, SMTT(30)
     DEF Next, Reader, Dispatcher, Writer, CutOver

-----------------------------------------------------------------------------
(* What is acknowledged or reported has nothing before it under way.       *)

\* Nothing is before the start of the log.
LEMMA ClearZero ==
    ASSUME NEW b \in Seq(Entries), NEW r \in Nat, NEW S \in SUBSET (1..Len(b))
    PROVE  Clear(b, r, S, 0)
BY DEF Clear, Past, Behind

\* While a process lives, what arrives in the pipeline is read after its restart
\* position, or is no row.
LEMMA LineStep ==
    ASSUME Steady, TypeOK, TypeOK', ReaderInv, IdleInv, ChainInv, [Next]_vars,
           process # "down", process' # "down"
    PROVE  /\ RestartPos <= RestartPos'
           /\ \A x \in InLine' : x \in InLine \/ binlog[x] \notin Keys
                                    \/ (x \in Positions /\ RestartPos < x)
<1> USE DEF tableVars, mainVars, readerVars, writerVars
<1>0. /\ RestartPos \in Nat /\ readPos \in Nat /\ lastTrx \in Nat /\ connectedAt \in Nat
      /\ connectedAt <= readPos /\ lastTrx <= readPos /\ RestartPos <= readPos
  <2>1. /\ readPos \in Nat /\ lastTrx \in Nat /\ connectedAt \in Nat
        /\ connectedAt <= readPos /\ lastTrx <= readPos
    BY Numbers DEF ReaderInv
  <2> QED
    BY <2>1 DEF RestartPos
<1>1. ASSUME UNCHANGED <<lastTrx, connectedAt, batch, queue, events, inHand>>
      PROVE  RestartPos <= RestartPos' /\ InLine' = InLine
  <2>1. RestartPos' = RestartPos /\ Sent' = Sent
    BY <1>1 DEF RestartPos, Sent
  <2> QED
    BY <1>0, <1>1, <2>1 DEF InLine
<1>2. CASE ReadEvent
  <2>1. /\ batch' = batch /\ queue' = queue /\ connectedAt' = connectedAt
        /\ readPos' = readPos + 1 /\ (lastTrx' = lastTrx \/ lastTrx' = readPos + 1)
    BY <1>2 DEF ReadEvent
  <2>2. RestartPos <= RestartPos'
    BY <1>0, <2>1 DEF RestartPos
  <2>3. readPos' \in Positions /\ (Sent' = Sent \/ Sent' = Sent \o <<readPos'>>)
    BY <1>2, ReadEventMoves
  <2>4. Range(Sent') \subseteq Range(Sent) \cup {readPos'}
    <3>1. CASE Sent' = Sent
      BY <3>1
    <3>2. CASE Sent' = Sent \o <<readPos'>>
      <4> DEFINE h == <<readPos'>>
      <4>1. h \in Seq(Nat) /\ Range(h) = {readPos'} /\ Sent' = Sent \o h /\ Sent \in Seq(Nat)
        BY <2>3, <3>2, RangeOne, Types
      <4> HIDE DEF h
      <4>2. Range(Sent \o h) = Range(Sent) \cup Range(h)
        BY <4>1, RangeJoined
      <4> QED
        BY <4>1, <4>2
    <3> QED
      BY <2>3, <3>1, <3>2
  <2>5. RestartPos < readPos'
    BY <1>0, <2>1
  <2> QED
    BY <2>1, <2>2, <2>3, <2>4, <2>5 DEF InLine
<1>3. CASE SendEntry
  <2>1. /\ batch' = batch /\ queue' = queue /\ connectedAt' = connectedAt
        /\ lastTrx' = lastTrx \/ lastTrx' = inHand[1]
    BY <1>3 DEF SendEntry
  <2>2. Sent' = Sent /\ inHand[1] = readPos
    BY <1>3, SendEntryMoves
  <2>3. RestartPos <= RestartPos'
    BY <1>0, <2>1, <2>2 DEF RestartPos
  <2> QED
    BY <2>1, <2>2, <2>3 DEF InLine
<1>4. CASE Reconnect
  <2>1. /\ UNCHANGED <<batch, queue, events, inHand>> /\ lastTrx' = 0 /\ connectedAt' = readPos'
        /\ lastTrx # 0 \/ connectedAt = initial
        /\ readPos' = IF lastTrx # 0 THEN lastTrx ELSE initial
    BY <1>4 DEF Reconnect, Steady
  <2>2. RestartPos' = RestartPos /\ Sent' = Sent
    BY <2>1 DEF RestartPos, Sent
  <2> QED
    BY <1>0, <2>1, <2>2 DEF InLine
<1>5. CASE Dispatch
  <2> DEFINE p == Head(events)
             t == Sent'
  <2>1. UNCHANGED <<batch, lastTrx, connectedAt>>
    BY <1>5 DEF Dispatch
  <2>2. /\ p \in Nat /\ t \in Seq(Nat) /\ <<p>> \in Seq(Nat) /\ queue \in Seq(Nat)
        /\ Sent = <<p>> \o t /\ (queue' = queue \/ queue' = queue \o <<p>>)
    BY <1>5, DispatchMoves, Types, ZenonT(60)
  <2> HIDE DEF p, t
  <2>3. Range(Sent) = {p} \cup Range(t)
    BY <2>2, RangeJoined, RangeOne, ZenonT(60)
  <2>4. Range(queue') \subseteq Range(queue) \cup {p}
    BY <2>2, RangeJoined, RangeOne, ZenonT(60)
  <2>5. RestartPos' = RestartPos
    BY <2>1 DEF RestartPos
  <2> QED
    BY <1>0, <2>1, <2>3, <2>4, <2>5 DEF InLine, t
<1>6. ASSUME NEW p \in enqueuing, EnqueueSentinel(p)
      PROVE  /\ RestartPos <= RestartPos'
             /\ \A x \in InLine' : x \in InLine \/ binlog[x] \notin Keys
  <2>1. UNCHANGED <<batch, events, inHand, lastTrx, connectedAt>>
    BY <1>6 DEF EnqueueSentinel
  <2>2. <<p>> \in Seq(Nat) /\ queue \in Seq(Nat) /\ queue' = queue \o <<p>>
    BY <1>6, EnqueueSentinelMoves, Types
  <2>3. Range(queue') = Range(queue) \cup {p}
    BY <2>2, RangeJoined, RangeOne, ZenonT(60)
  <2>4. binlog[p] \notin Keys
    BY DEF ChainInv, IsRow
  <2>5. RestartPos' = RestartPos /\ Sent' = Sent
    BY <2>1 DEF RestartPos, Sent
  <2> QED
    BY <1>0, <2>1, <2>3, <2>4, <2>5 DEF InLine
<1>7. CASE HandleNonDML
  <2>1. UNCHANGED <<batch, events, inHand, lastTrx, connectedAt>>
    BY <1>7 DEF HandleNonDML
  <2>2. <<Head(queue)>> \in Seq(Nat) /\ queue' \in Seq(Nat) /\ queue = <<Head(queue)>> \o queue'
    BY <1>7, HandleNonDMLMoves
  <2>3. Range(queue') \subseteq Range(queue)
    <3> DEFINE h == <<Head(queue)>>
    <3>1. h \in Seq(Nat) /\ queue = h \o queue'
      BY <2>2
    <3> HIDE DEF h
    <3> QED
      BY <2>2, <3>1, RangeJoined
  <2>4. RestartPos' = RestartPos /\ Sent' = Sent
    BY <2>1 DEF RestartPos, Sent
  <2> QED
    BY <1>0, <2>1, <2>3, <2>4 DEF InLine
<1>8. CASE CollectBatch
  <2>1. UNCHANGED <<events, inHand, lastTrx, connectedAt>>
    BY <1>8 DEF CollectBatch
  <2>2. Range(queue) = Range(batch') \cup Range(queue')
    BY <1>8, CollectBatchMoves, RangeJoined, ZenonT(60)
  <2>3. RestartPos' = RestartPos /\ Sent' = Sent
    BY <2>1 DEF RestartPos, Sent
  <2> QED
    BY <1>0, <2>2, <2>3 DEF InLine
<1>9. CASE AcknowledgeBatch
  <2>1. UNCHANGED <<queue, events, inHand, lastTrx, connectedAt>> /\ batch' = << >>
    BY <1>9 DEF AcknowledgeBatch
  <2>2. Range(batch') = {}
    BY <2>1, RangeOne, ZenonT(60)
  <2>3. RestartPos' = RestartPos /\ Sent' = Sent
    BY <2>1 DEF RestartPos, Sent
  <2> QED
    BY <1>0, <2>1, <2>2, <2>3 DEF InLine
<1>10. CASE Transact \/ InjectHeartbeat \/ InjectSentinel \/ AddDMLEventsListener
  BY <1>1, <1>10, SMTT(30) DEF Transact, InjectHeartbeat, InjectSentinel,
                               AddDMLEventsListener
<1>11. CASE ApplyBatch \/ Checkpointer
  BY <1>1, <1>11 DEF ApplyBatch, Checkpointer, BeginCheckpoint, WriteCheckpoint,
                     CheckpointFails
<1>12. CASE ReceiveLockProcessed \/ CutOverFails \/ Swap \/ CheckpointAfterCutOver
  BY <1>1, <1>12, ZenonT(60) DEF ReceiveLockProcessed, CutOverFails, Swap,
                                 CheckpointAfterCutOver
<1>13. CASE ProcessEnds \/ Resume \/ Revert
  BY <1>13 DEF ProcessEnds, Resume, Revert
<1>14. CASE Terminated \/ UNCHANGED vars
  BY <1>1, <1>14 DEF Terminated, vars
<1> QED
  BY <1>2, <1>3, <1>4, <1>5, <1>6, <1>7, <1>8, <1>9, <1>10, <1>11, <1>12, <1>13,
      <1>14, SMTT(30)
     DEF Next, Reader, Dispatcher, Writer, CutOver

\* What is behind p stays behind p: what is read anew is a row after r, or no row.
LEMMA ClearKept ==
    ASSUME NEW b \in Seq(Entries), NEW r \in Nat, NEW q \in Nat, r <= q,
           NEW S, NEW T, NEW p \in Nat, Clear(b, r, S, p),
           \A x \in T : x \in S \/ b[x] \notin Keys \/ (x \in 1..Len(b) /\ r < x)
    PROVE  Clear(b, q, T, p)
<1>1. Past(b, q, p)
  BY DEF Clear, Past
<1>2. ASSUME NEW x \in T, b[x] \in Keys PROVE p < x
  <2>1. CASE x \in S
    BY <1>2, <2>1 DEF Clear, Behind
  <2>2. CASE x \in 1..Len(b) /\ r < x
    <3>1. ~(x < p)
      BY <1>2, <2>2 DEF Clear, Past
    <3>2. x # p
      BY <1>2, <2>2 DEF Clear
    <3> QED
      BY <2>2, <3>1, <3>2
  <2> QED
    BY <1>2, <2>1, <2>2
<1> QED
  BY <1>1, <1>2 DEF Clear, Behind

\* What had nothing before it under way keeps it so while the process lives.
LEMMA ClearStays ==
    ASSUME Steady, TypeOK, TypeOK', ReaderInv, IdleInv, ChainInv, [Next]_vars,
           process # "down", process' # "down",
           NEW p \in 0..Len(binlog), Clear(binlog, RestartPos, InLine, p)
    PROVE  Clear(binlog', RestartPos', InLine', p)
<1>1. /\ binlog \in Seq(Entries) /\ RestartPos \in Nat /\ RestartPos' \in Nat /\ p \in Nat
      /\ InLine \in SUBSET (1..Len(binlog)) /\ Positions = 1..Len(binlog)
  <2>1. /\ binlog \in Seq(Entries) /\ RestartPos \in 0..Len(binlog) /\ Len(binlog) \in Nat
        /\ InLine \subseteq Positions /\ Positions = 1..Len(binlog)
    BY Types
  <2>2. RestartPos' \in Nat
    <3>1. lastTrx' \in Nat /\ connectedAt' \in Nat
      <4>1. (lastTrx \in Nat /\ connectedAt \in Nat)'
        BY Numbers, PTL
      <4> QED
        BY <4>1
    <3> QED
      BY <3>1 DEF RestartPos
  <2> QED
    BY <2>1, <2>2
<1>2. CASE binlog' = binlog
  <2>1. /\ RestartPos <= RestartPos'
        /\ \A x \in InLine' : x \in InLine \/ binlog[x] \notin Keys
                                 \/ (x \in 1..Len(binlog) /\ RestartPos < x)
    BY <1>1, LineStep
  <2>2. Clear(binlog, RestartPos', InLine', p)
    BY <1>1, <2>1, ClearKept
  <2> QED
    BY <1>2, <2>2
<1>3. CASE Transact \/ InjectHeartbeat \/ InjectSentinel
  <2>1. PICK rows \in Seq(Entries) : Log(rows)
    BY <1>3, ChangelogEntries, ZenonT(60) DEF Transact, InjectHeartbeat, InjectSentinel
  <2>2. binlog' \in Seq(Entries) /\ Grows(binlog, binlog')
    BY <2>1, LogTypes
  <2>3. UNCHANGED <<lastTrx, connectedAt, batch, queue, events, inHand>>
    BY <1>3 DEF Transact, InjectHeartbeat, InjectSentinel, readerVars, writerVars
  <2>4. RestartPos' = RestartPos /\ InLine' = InLine
    BY <2>3 DEF RestartPos, InLine, Sent
  <2>5. Clear(binlog', RestartPos, InLine, p)
    BY <1>1, <2>2, ChainGrows
  <2> QED
    BY <2>4, <2>5
<1> QED
  BY <1>2, <1>3, LogKept

\* What the writer calls or acknowledges has nothing before it under way.
LEMMA ClearWritten ==
    ASSUME TypeOK, IdleInv, ChainInv, HandleNonDML
    PROVE  ~IsRow(Head(queue)) /\ Clear(binlog', RestartPos', InLine', Head(queue))
<1> DEFINE p == Head(queue)
<1>1. /\ ~IsRow(p) /\ batch = << >> /\ batch' = batch /\ process # "down"
      /\ binlog' = binlog /\ UNCHANGED <<lastTrx, connectedAt, events, inHand>>
  BY DEF HandleNonDML, IdleInv, tableVars, readerVars
<1>2. p \in Nat /\ queue' \in Seq(Nat) /\ queue = <<p>> \o queue'
  BY HandleNonDMLMoves, Types
<1>3. /\ Ordered(binlog, queue) /\ Follows(binlog, Range(queue), Range(Sent))
      /\ Passed(binlog, RestartPos, Range(queue))
  BY <1>1 DEF ChainInv
<1>4. RestartPos' = RestartPos /\ InLine' = Range(queue') \cup Range(Sent)
  BY <1>1, RangeOne, ZenonT(60) DEF RestartPos, InLine, Sent
<1> HIDE DEF p
<1>5. Follows(binlog, {p}, Range(queue')) /\ Range(queue) = {p} \cup Range(queue')
  <2>1. Ordered(binlog, <<p>> \o queue')
    BY <1>2, <1>3
  <2>2. p \in Nat /\ queue' \in Seq(Nat)
    BY <1>2
  <2>3. Follows(binlog, {p}, Range(queue')) /\ Range(<<p>> \o queue') = {p} \cup Range(queue')
    BY <2>1, <2>2, HeadFirst, ZenonT(60)
  <2> QED
    BY <1>2, <2>3
<1>6. Behind(binlog, p, Range(queue')) /\ Behind(binlog, p, Range(Sent))
  BY <1>1, <1>3, <1>5 DEF Follows, IsRow
<1>7. Past(binlog, RestartPos, p)
  BY <1>1, <1>3, <1>5 DEF Passed, IsRow
<1>8. Clear(binlog, RestartPos, Range(queue') \cup Range(Sent), p)
  BY <1>1, <1>6, <1>7 DEF Clear, Behind, IsRow
<1> QED
  BY <1>1, <1>4, <1>8 DEF p

\* A marker or a function of an acknowledged batch has nothing before it under way.
LEMMA ClearAcknowledged ==
    ASSUME TypeOK, ChainInv, AcknowledgeBatch, NEW p \in Range(batch), ~IsRow(p)
    PROVE  Clear(binlog', RestartPos', InLine', p)
<1>1. /\ batch' = << >> /\ process # "down" /\ binlog' = binlog
      /\ UNCHANGED <<lastTrx, connectedAt, events, inHand, queue>>
  BY DEF AcknowledgeBatch, tableVars, readerVars
<1>2. /\ Follows(binlog, Range(batch), Range(queue)) /\ Follows(binlog, Range(batch), Range(Sent))
      /\ Passed(binlog, RestartPos, Range(batch))
  BY <1>1 DEF ChainInv
<1>3. RestartPos' = RestartPos /\ InLine' = Range(queue) \cup Range(Sent)
  BY <1>1, RangeOne, ZenonT(60) DEF RestartPos, InLine, Sent
<1>4. Behind(binlog, p, Range(queue)) /\ Behind(binlog, p, Range(Sent))
  BY <1>2 DEF Follows, IsRow
<1>5. Past(binlog, RestartPos, p)
  BY <1>2 DEF Passed, IsRow
<1>6. Clear(binlog, RestartPos, Range(queue) \cup Range(Sent), p)
  BY <1>4, <1>5 DEF Clear, Behind, IsRow
<1> QED
  BY <1>1, <1>3, <1>6

\* Where what is acknowledged, reported, awaited and checkpointed comes from.
LEMMA Acknowledged ==
    ASSUME TypeOK, IdleInv, ChainInv, [Next]_vars, process # "down", process' # "down"
    PROVE  /\ appliedTrx' = appliedTrx \/ Clear(binlog', RestartPos', InLine', appliedTrx')
           /\ \/ lockProcessed' = lockProcessed \/ lockProcessed' = 0
              \/ Clear(binlog', RestartPos', InLine', lockProcessed')
<1> USE DEF tableVars, mainVars, readerVars, writerVars
<1>1. CASE HandleNonDML
  <2>1. /\ appliedTrx' = appliedTrx \/ appliedTrx' = Head(queue)
        /\ lockProcessed' = Reported({Head(queue)})
    BY <1>1 DEF HandleNonDML
  <2>2. lockProcessed' = lockProcessed \/ lockProcessed' = Head(queue)
    BY <2>1, ReportedIs
  <2> QED
    BY <1>1, <2>1, <2>2, ClearWritten
<1>2. CASE AcknowledgeBatch
  <2> DEFINE markers == {i \in DOMAIN batch : IsMarker(batch[i])}
             last == batch[Len(batch)]
  <2>1. /\ appliedTrx' = (IF markers = {} THEN appliedTrx ELSE batch[Max(markers)])
        /\ lockProcessed' = Reported({last}) /\ batch # << >>
    BY <1>2 DEF AcknowledgeBatch, IdleInv
  <2>2. /\ batch \in Seq(Nat) /\ DOMAIN batch = 1..Len(batch) /\ Len(batch) \in Nat
        /\ Range(batch) = {batch[i] : i \in DOMAIN batch}
    BY Types DEF Range
  <2>3. \A i \in DOMAIN batch : batch[i] \in Range(batch)
    BY <2>2
  <2>4. ASSUME markers # {}
        PROVE  batch[Max(markers)] \in Range(batch) /\ ~IsRow(batch[Max(markers)])
    <3>1. markers \subseteq 0..Len(batch)
      BY <2>2
    <3>2. Max(markers) \in markers
      <4> HIDE DEF markers
      <4> QED
        BY <2>2, <2>4, <3>1, MaxIs, ZenonT(60)
    <3>3. Max(markers) \in DOMAIN batch /\ IsMarker(batch[Max(markers)])
      BY <3>2
    <3> HIDE DEF markers
    <3> QED
      BY <2>3, <3>3, PipelineAssumption DEF IsMarker, IsRow
  <2>5. last \in Range(batch)
    <3>1. Len(batch) # 0
      BY <2>1, <2>2
    <3> QED
      BY <2>2, <2>3, <3>1
  <2>6. binlog[last] = "sentinel" => ~IsRow(last)
    BY PipelineAssumption DEF IsRow
  <2>7. lockProcessed' = IF binlog[last] = "sentinel" THEN last ELSE lockProcessed
    BY <2>1, ReportedIs, ZenonT(60)
  <2> HIDE DEF markers, last
  <2>8. appliedTrx' = appliedTrx \/ Clear(binlog', RestartPos', InLine', appliedTrx')
    BY <1>2, <2>1, <2>4, ClearAcknowledged
  <2>9. lockProcessed' = lockProcessed \/ Clear(binlog', RestartPos', InLine', lockProcessed')
    BY <1>2, <2>5, <2>6, <2>7, ClearAcknowledged
  <2> QED
    BY <2>8, <2>9
<1>3. CASE Transact \/ InjectHeartbeat \/ Reader \/ Reconnect \/ Dispatcher
  BY <1>3 DEF Transact, InjectHeartbeat, Reader, ReadEvent, SendEntry, Reconnect,
              Dispatcher,
              Dispatch, EnqueueSentinel
<1>4. CASE AddDMLEventsListener \/ CollectBatch \/ ApplyBatch \/ Checkpointer \/ CutOver
  BY <1>4, ZenonT(60) DEF AddDMLEventsListener, CollectBatch, ApplyBatch,
                          Checkpointer, BeginCheckpoint,
              WriteCheckpoint, CheckpointFails, CutOver, InjectSentinel, ReceiveLockProcessed,
              CutOverFails, Swap, CheckpointAfterCutOver
<1>5. CASE ProcessEnds \/ Resume \/ Revert \/ Terminated \/ UNCHANGED vars
  BY <1>5 DEF ProcessEnds, Resume, Revert, Terminated, vars
<1> QED
  BY <1>1, <1>2, <1>3, <1>4, <1>5 DEF Next, Writer

\* Every step keeps what is acknowledged, or awaited and reported, clear of what is
\* under way.
LEMMA BarrierStep ==
    ASSUME Steady, TypeOK, TypeOK', ReaderInv, IdleInv, ChainInv, BarrierInv, [Next]_vars
    PROVE  BarrierInv'
<1>1. /\ binlog \in Seq(Entries) /\ Len(binlog) \in Nat
      /\ appliedTrx \in 0..Len(binlog) /\ lockProcessed \in 0..Len(binlog)
      /\ challenge \in 0..Len(binlog) /\ checkpoint.coords \in 0..Len(binlog)
  BY Types, Numbers
<1>2. \A p \in 1..Len(binlog) : binlog'[p] = binlog[p]
  <2>1. CASE Transact \/ InjectHeartbeat \/ InjectSentinel
    <3>1. PICK rows \in Seq(Entries) : Log(rows)
      BY <2>1, ChangelogEntries, ZenonT(60) DEF Transact, InjectHeartbeat, InjectSentinel
    <3> QED
      BY <1>1, <3>1, LogTypes DEF Positions
  <2> QED
    BY <2>1, LogKept
<1>3. checkpoint'.coords # 0 /\ table' = "original" => binlog'[checkpoint'.coords] \notin Keys
  <2>1. CASE checkpoint' = checkpoint /\ table = "original"
    BY <1>1, <1>2, <2>1, SMTT(30) DEF BarrierInv, IsRow
  <2>2. CASE appliedTrx # 0 /\ checkpoint'.coords = appliedTrx /\ process # "down"
    BY <1>1, <1>2, <2>2 DEF BarrierInv, Clear
  <2> QED
    BY <2>1, <2>2, Awaited
<1>4. /\ binlog' \in Seq(Entries) /\ RestartPos' \in Nat /\ InLine' \in SUBSET (1..Len(binlog'))
  <2>1. (/\ binlog \in Seq(Entries) /\ Len(binlog) \in Nat /\ RestartPos \in 0..Len(binlog)
         /\ InLine \subseteq Positions /\ Positions = 1..Len(binlog))'
    BY Types, PTL
  <2> QED
    BY <2>1
<1>5. Clear(binlog', RestartPos', InLine', 0)
  BY <1>4, ClearZero
<1>6. ASSUME process' # "down"
      PROVE  /\ Clear(binlog', RestartPos', InLine', appliedTrx')
             /\ Clear(binlog', RestartPos', InLine', lockProcessed')
             /\ main' = "synced" => Clear(binlog', RestartPos', InLine', challenge')
             /\ table' = "original" => Clear(binlog', RestartPos', InLine', checkpoint'.coords)
  <2>1. CASE process # "down"
    <3>1. /\ Clear(binlog, RestartPos, InLine, appliedTrx)
          /\ Clear(binlog, RestartPos, InLine, lockProcessed)
          /\ main = "synced" => Clear(binlog, RestartPos, InLine, challenge)
          /\ table = "original" => Clear(binlog, RestartPos, InLine, checkpoint.coords)
      BY <2>1 DEF BarrierInv
    <3>2. \A p \in 0..Len(binlog) : Clear(binlog, RestartPos, InLine, p)
                                       => Clear(binlog', RestartPos', InLine', p)
      BY <1>6, <2>1, ClearStays
    <3>3. /\ Clear(binlog', RestartPos', InLine', appliedTrx)
          /\ Clear(binlog', RestartPos', InLine', lockProcessed)
          /\ main = "synced" => Clear(binlog', RestartPos', InLine', challenge)
          /\ table = "original" => Clear(binlog', RestartPos', InLine', checkpoint.coords)
      BY <1>1, <3>1, <3>2
    <3>4. /\ Clear(binlog', RestartPos', InLine', appliedTrx')
          /\ Clear(binlog', RestartPos', InLine', lockProcessed')
      BY <1>5, <1>6, <2>1, <3>3, Acknowledged
    <3> QED
      BY <3>3, <3>4, Awaited
  <2>2. CASE process = "down"
    <3>1. \/ Resume /\ table = "original"
          \/ Revert /\ table = "ghost"
      BY <1>6, <2>2, StartsAgain
    <3>2. /\ lockProcessed = 0 /\ appliedTrx = 0 /\ lastTrx = 0
          /\ inHand = << >> /\ events = << >> /\ queue = << >> /\ batch = << >>
          /\ main # "synced"
      BY <2>2 DEF IdleInv
    <3>3. /\ lockProcessed' = 0 /\ appliedTrx' = 0 /\ lastTrx' = 0
          /\ inHand' = << >> /\ events' = << >> /\ queue' = << >> /\ batch' = << >>
          /\ connectedAt' = checkpoint.coords /\ checkpoint' = checkpoint /\ binlog' = binlog
          /\ main' # "synced" /\ table' = table
      BY <3>1, <3>2 DEF Resume, Revert, StartStreaming, writerVars, tableVars, mainVars
    <3>4. RestartPos' = checkpoint.coords
      BY <3>3 DEF RestartPos
    <3>5. InLine' = {}
      <4>1. Sent' = << >>
        BY <3>3 DEF Sent
      <4> QED
        BY <3>3, <4>1, RangeOne, ZenonT(60) DEF InLine
    <3>6. table = "original" => Clear(binlog, checkpoint.coords, {}, checkpoint.coords)
      BY <1>1 DEF BarrierInv, Clear, Past, Behind, IsRow
    <3> QED
      BY <1>5, <3>3, <3>4, <3>5, <3>6
  <2> QED
    BY <2>1, <2>2
<1> QED
  BY <1>3, <1>6 DEF BarrierInv, IsRow

=============================================================================
