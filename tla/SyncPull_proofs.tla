--------------------------- MODULE SyncPull_proofs ---------------------------
(***************************************************************************)
(* What reaches the peers, and what the cursors mean, for every value of   *)
(* the constants of Sync.                                                  *)
(***************************************************************************)
EXTENDS SyncPush_proofs

(***************************************************************************)
(* What a laptop has of a peer's log.  A position covers a log if every    *)
(* line it has passed is both in the database and in the copy of the log,  *)
(* or is one of `ahead', the lines under way.                              *)
(***************************************************************************)
Got(base, copy, l) == Holds(base, l) /\ \E j \in 1..Len(copy) : copy[j] = l

Place(d, i) == [date |-> d, off |-> i - 1]

Covers(log, base, copy, c, ahead) ==
    \A d \in Dates : \A i \in 1..Len(log[d]) :
        Passed(c, d, i - 1) => Got(base, copy[d], log[d][i]) \/ Place(d, i) \in ahead

Keeps(x, y) == \A l \in Line : Holds(x, l) => Holds(y, l)

LEMMA NothingCovered == \A log, base, copy, ahead : Covers(log, base, copy, NoPosition, ahead)
BY LastDateAssumption DEF Covers, NoPosition, Passed, Dates

LEMMA CoversMore ==
    ASSUME NEW log \in Logs, NEW x, NEW y, Keeps(x, y), NEW copy \in Logs, NEW copy2 \in Logs,
           Longer(copy, copy2), NEW c, NEW S, NEW T, S \subseteq T,
           Covers(log, x, copy, c, S)
    PROVE  Covers(log, y, copy2, c, T)
<1> SUFFICES ASSUME NEW d \in Dates, NEW i \in 1..Len(log[d]), Passed(c, d, i - 1),
                    Place(d, i) \notin T
             PROVE  Got(y, copy2[d], log[d][i])
  BY DEF Covers
<1>1. Got(x, copy[d], log[d][i])
  BY DEF Covers
<1>2. /\ Len(copy[d]) \in Nat /\ Len(copy2[d]) \in Nat /\ log[d][i] \in Line
      /\ Len(copy[d]) <= Len(copy2[d])
      /\ \A j \in 1..Len(copy[d]) : copy2[d][j] = copy[d][j]
  BY LogLengths DEF Longer
<1>3. PICK j \in 1..Len(copy[d]) : copy[d][j] = log[d][i]
  BY <1>1 DEF Got
<1>4. j \in 1..Len(copy2[d]) /\ copy2[d][j] = log[d][i]
  BY <1>2, <1>3
<1> QED
  BY <1>1, <1>2, <1>4 DEF Got, Keeps

LEMMA SameKeeps == \A x : Keeps(x, x)
BY DEF Keeps

LEMMA GrowsKeeps == ASSUME NEW x, NEW y, Grows(x, y) PROVE Keeps(x, y)
BY GrowingKeepsLines DEF Keeps

LEMMA CoversEarlier ==
    ASSUME NEW log, NEW base, NEW copy, NEW c, NEW S, NEW T, S \subseteq T,
           Covers(log, base, copy, c, S)
    PROVE  Covers(log, base, copy, c, T)
BY DEF Covers

(***************************************************************************)
(* The lines under way to a laptop: Placed are the places of the first n   *)
(* entries of a sequence.                                                  *)
(***************************************************************************)
Placed(s, n) == {At(s[k]) : k \in 1..n}

InFlight(q, p) == IF q.from = p THEN Placed(q.chunk, Len(q.chunk)) ELSE {}

ScanCovers(log, base, copy, q) ==
    /\ \A j \in 1..Len(q.batch) :
          Covers(log, base, copy, At(q.batch[j]), Placed(q.batch, j) \cup InFlight(q, q.peer))
    /\ Covers(log, base, copy, q.pos,
              Placed(q.batch, Len(q.batch)) \cup InFlight(q, q.peer))

ChunkCovers(log, base, copy, q) ==
    \A j \in 1..Len(q.chunk) :
        Covers(log, base, copy, At(q.chunk[j]), Placed(q.chunk, j))

(* The days still to scan have lines, and of the earlier ones that will    *)
(* not be scanned nothing is left.                                         *)
ScanInOrder(log, files, q) ==
    \A x \in q.dates :
        /\ files[x] # <<>>
        /\ q.pos.date <= x
        /\ \A d \in Dates \ q.dates : d < x =>
              \A i \in 1..Len(log[d]) : Passed(q.pos, d, i - 1)

StreamCovers(m, logs, files, base, copies, q) ==
    /\ \A p \in Machines \ {m} : Covers(logs[p], base, copies[p], q.since[p], {})
    /\ ChunkCovers(logs[q.from], base, copies[q.from], q)
    /\ q.peer # m => ScanCovers(logs[q.peer], base, copies[q.peer], q)
    /\ ScanInOrder(logs[q.peer], files[q.peer], q)

AllCovers(m, logs, base, copies, c) ==
    \A p \in Machines \ {m} : Covers(logs[p], base, copies[p], c[p], {})

DeliveryInv ==
    \A m \in Machines :
        /\ StreamCovers(m, local, mirror, db[m], peerLog[m], pull[m])
        /\ sync[m].pc = "chunk" =>
              Covers(local[sync[m].peer], db[m], peerLog[m][sync[m].peer], sync[m].pos, {})
        /\ AllCovers(m, local, db[m], peerLog[m], cursor[m])
        /\ AllCovers(m, local, undo[m].db, peerLog[m], undo[m].cursor)

(***************************************************************************)
(* Streams.                                                                *)
(***************************************************************************)
LEMMA RequestCovers ==
    ASSUME TypeOK, NEW m \in Machines, NEW base, NEW copies, NEW c, AllCovers(m, local, base, copies, c),
           NEW pc
    PROVE  StreamCovers(m, local, mirror, base, copies, Request(m, c, pc))
<1> DEFINE q == Request(m, c, pc)
<1>1. /\ q.since = c /\ q.peer = m /\ q.dates = {} /\ Len(q.chunk) = 0
  BY EmptySeq DEF Request
<1> HIDE DEF q
<1>2. StreamCovers(m, local, mirror, base, copies, q)
  BY <1>1 DEF StreamCovers, AllCovers, ChunkCovers, ScanInOrder
<1> QED
  BY <1>2 DEF q

(* Reading the next line of the first file moves the position over that    *)
(* line only.                                                              *)
LEMMA NextCovers ==
    ASSUME TypeOK, NEW q \in Stream, NEW r, NEW e \in Entry, Reads(q, r, e),
           NEW log \in Logs, NEW base, NEW copy, NEW S,
           ScanInOrder(log, mirror[q.peer], q), Covers(log, base, copy, q.pos, S)
    PROVE  Covers(log, base, copy, At(e), S \cup {At(e)})
<1> SUFFICES ASSUME NEW d \in Dates, NEW i \in 1..Len(log[d]), Passed(At(e), d, i - 1),
                    Place(d, i) # At(e)
             PROVE  Passed(q.pos, d, i - 1)
  BY DEF Covers
<1>1. /\ e.date \in Nat /\ e.off \in Nat /\ d \in Nat /\ i \in Nat /\ e.date \in Dates
      /\ q.pos.date \in Int /\ q.pos.off \in Int
  BY StreamFields, PositionFields, LogLengths DEF Entry, Dates
<1>2. d < e.date \/ (d = e.date /\ i - 1 < e.off)
  BY <1>1 DEF Passed, At, Place
<1>3. e.date \in q.dates /\ e.off = NextOffset(q, e.date) /\ \A x \in q.dates : e.date <= x
  BY DEF Reads
<1>4. CASE d < e.date
  <2>1. d \notin q.dates
    BY <1>1, <1>3, <1>4
  <2> QED
    BY <1>3, <1>4, <2>1 DEF ScanInOrder
<1>5. CASE d = e.date /\ i - 1 < e.off
  BY <1>1, <1>3, <1>5 DEF NextOffset, Passed
<1> QED
  BY <1>2, <1>4, <1>5

LEMMA PlacedAppend ==
    ASSUME NEW s \in Seq(Entry), NEW e \in Entry
    PROVE  /\ \A j \in 0..Len(s) : Placed(Append(s, e), j) = Placed(s, j)
           /\ Placed(Append(s, e), Len(s) + 1) = Placed(s, Len(s)) \cup {At(e)}
<1>1. /\ Len(s) \in Nat
      /\ \A j \in 1..Len(s) : Append(s, e)[j] = s[j]
      /\ Append(s, e)[Len(s) + 1] = e
  BY AppendEach
<1> DEFINE t == Append(s, e)
<1> HIDE DEF t
<1>2. ASSUME NEW j \in 0..Len(s) PROVE Placed(t, j) = Placed(s, j)
  <2>1. \A k \in 1..j : t[k] = s[k]
    BY <1>1 DEF t
  <2> QED
    BY <2>1 DEF Placed
<1>3. Placed(t, Len(s) + 1) = Placed(s, Len(s)) \cup {At(e)}
  <2>1. \A k \in 1..Len(s) : t[k] = s[k] /\ t[Len(s) + 1] = e
    BY <1>1 DEF t
  <2>2. t[Len(s) + 1] = e
    BY <1>1 DEF t
  <2>3. 1..(Len(s) + 1) = (1..Len(s)) \cup {Len(s) + 1}
    BY <1>1
  <2> QED
    BY <2>1, <2>2, <2>3 DEF Placed
<1> QED
  BY <1>2, <1>3 DEF t

LEMMA StreamMovesCover ==
    ASSUME SyncInv, DaysInOrder, NEW m \in Machines, StreamMoves(m), NEW base, NEW copies,
           StreamCovers(m, local, mirror, base, copies, pull[m])
    PROVE  StreamCovers(m, local, mirror, base, copies, pull'[m])
<1> DEFINE q == pull[m]
           r == pull'[m]
<1>1. q \in Stream /\ TypeOK
  BY Types DEF SyncInv
<1>2. /\ StreamCovers(m, local, mirror, base, copies, q)
      /\ FromOthers(m, q, sync[m])
      /\ Within(mirror[q.peer], q.pos)
      /\ \A p \in Machines : Within(mirror[p], q.since[p])
  BY DEF SyncInv, PeersInv, PositionsInv, LaptopWithin, StreamWithin, AllWithin
<1>3. /\ q.batch \in Seq(Entry) /\ Len(q.batch) \in Nat /\ Len(<<>>) = 0
      /\ q.since \in [Machines -> Position] /\ q.pos \in Position
      /\ q.dates \in SUBSET Dates /\ q.peer \in Machines
  BY <1>1, StreamFields, EmptySeq
<1> SUFFICES StreamCovers(m, local, mirror, base, copies, r)
  OBVIOUS
<1> HIDE DEF q, r
<1>4. CASE Begins(m, q, r) \/ SameScan(q, r)
  BY <1>2, <1>4
  DEF Begins, KeepsChunk, SameScan, StreamCovers, ChunkCovers, ScanCovers, ScanInOrder, InFlight
<1>5. ASSUME NEW p \in Machines, Scans(q, r, p) PROVE StreamCovers(m, local, mirror, base, copies, r)
  <2> DEFINE c == q.since[p]
  <2>1. /\ r.since = q.since /\ r.chunk = q.chunk /\ r.from = q.from /\ r.peer = p
        /\ r.pos = c /\ r.batch = <<>> /\ p # m /\ c \in Position
        /\ r.dates = {d \in Dates : mirror[p][d] # <<>> /\ d >= c.date}
    BY <1>2, <1>3, <1>5 DEF Scans, KeepsChunk, FromOthers
  <2>2. ChunkCovers(local[r.from], base, copies[r.from], r)
    BY <1>2, <2>1 DEF StreamCovers, ChunkCovers
  <2>3. Covers(local[p], base, copies[p], c, {})
    BY <1>2, <2>1 DEF StreamCovers
  <2>4. ScanCovers(local[p], base, copies[p], r)
    BY <1>3, <2>1, <2>3, CoversEarlier DEF ScanCovers
  <2>5. ScanInOrder(local[p], mirror[p], r)
    <3> SUFFICES ASSUME NEW x \in r.dates
                 PROVE  /\ mirror[p][x] # <<>>
                        /\ c.date <= x
                        /\ \A d \in Dates \ r.dates : d < x =>
                              \A i \in 1..Len(local[p][d]) : Passed(c, d, i - 1)
      BY <2>1 DEF ScanInOrder
    <3>1. x \in Dates /\ mirror[p][x] # <<>> /\ c.date <= x /\ c.date \in Int
      BY <2>1, PositionFields DEF Dates
    <3>2. ASSUME NEW d \in Dates \ r.dates, d < x, NEW i \in 1..Len(local[p][d])
          PROVE  Passed(c, d, i - 1)
      <4>1. mirror[p][d] = local[p][d]
        BY <3>1, <3>2 DEF DaysInOrder
      <4>2. local[p][d] # <<>>
        <5>1. local[p][d] \in Seq(Line) /\ Len(local[p][d]) \in Nat
          BY <1>1, Types, LogLengths
        <5> QED
          BY <5>1, EmptyIsZero
      <4>3. ~(d >= c.date)
        BY <2>1, <4>1, <4>2
      <4> QED
        BY <3>1, <4>3 DEF Passed, Dates
    <3> QED
      BY <3>1, <3>2
  <2> QED
    BY <1>2, <2>1, <2>2, <2>4, <2>5 DEF StreamCovers
<1>6. ASSUME NEW e \in Entry, Reads(q, r, e) PROVE StreamCovers(m, local, mirror, base, copies, r)
  <2> DEFINE log == local[q.peer]
             cp  == copies[q.peer]
             F   == InFlight(q, q.peer)
  <2>1. /\ r.since = q.since /\ r.chunk = q.chunk /\ r.from = q.from /\ r.peer = q.peer
        /\ r.pos = At(e) /\ r.batch = Append(q.batch, e) /\ r.dates = q.dates
        /\ e.date \in q.dates /\ \A x \in q.dates : e.date <= x
    BY <1>6 DEF Reads, KeepsChunk, KeepsPeer
  <2>2. q.peer # m /\ log \in Logs
    BY <1>1, <1>2, <1>3, <2>1, Types DEF FromOthers
  <2>3. ScanCovers(log, base, cp, q) /\ ScanInOrder(log, mirror[q.peer], q)
    BY <1>2, <2>2 DEF StreamCovers
  <2>4. InFlight(r, r.peer) = F
    BY <2>1 DEF InFlight
  <2> HIDE DEF log, cp, F
  <2>5. Covers(log, base, cp, At(e), Placed(q.batch, Len(q.batch)) \cup F \cup {At(e)})
    <3>1. Covers(log, base, cp, q.pos, Placed(q.batch, Len(q.batch)) \cup F)
      BY <2>3 DEF ScanCovers, F
    <3> QED
      BY <1>1, <1>6, <2>2, <2>3, <3>1, NextCovers
  <2>6. /\ Len(r.batch) = Len(q.batch) + 1
        /\ \A j \in 1..Len(q.batch) : r.batch[j] = q.batch[j]
        /\ r.batch[Len(q.batch) + 1] = e
    BY <1>3, <2>1, AppendEach
  <2>7. /\ \A j \in 0..Len(q.batch) : Placed(r.batch, j) = Placed(q.batch, j)
        /\ Placed(r.batch, Len(r.batch)) = Placed(q.batch, Len(q.batch)) \cup {At(e)}
    <3>1. e \in Entry
      OBVIOUS
    <3>2. /\ \A j \in 0..Len(q.batch) : Placed(Append(q.batch, e), j) = Placed(q.batch, j)
          /\ Placed(Append(q.batch, e), Len(q.batch) + 1) = Placed(q.batch, Len(q.batch)) \cup {At(e)}
      BY <1>3, <3>1, PlacedAppend
    <3> QED
      BY <2>1, <2>6, <3>2
  <2>8. Covers(log, base, cp, At(e), Placed(r.batch, Len(r.batch)) \cup F)
    <3>1. Placed(q.batch, Len(q.batch)) \cup F \cup {At(e)} = Placed(r.batch, Len(r.batch)) \cup F
      BY <2>7
    <3> QED
      BY <2>5, <3>1
  <2>9. ASSUME NEW j \in 1..Len(r.batch)
        PROVE  Covers(log, base, cp, At(r.batch[j]), Placed(r.batch, j) \cup F)
    <3>1. CASE j = Len(r.batch)
      BY <2>6, <2>8, <3>1
    <3>2. CASE j # Len(r.batch)
      <4>1. j \in 1..Len(q.batch) /\ j \in 0..Len(q.batch)
        BY <1>3, <2>6, <3>2
      <4>2. r.batch[j] = q.batch[j] /\ Placed(r.batch, j) = Placed(q.batch, j)
        BY <2>6, <2>7, <4>1
      <4>3. Covers(log, base, cp, At(q.batch[j]), Placed(q.batch, j) \cup F)
        BY <2>3, <4>1 DEF ScanCovers, F
      <4> QED
        BY <4>2, <4>3
    <3> QED
      BY <3>1, <3>2
  <2>10. ScanCovers(log, base, cp, r)
    BY <2>1, <2>4, <2>8, <2>9 DEF ScanCovers
  <2>11. ScanInOrder(log, mirror[q.peer], r)
    <3>1. ASSUME NEW d \in Dates, NEW i \in 1..Len(log[d]), Passed(q.pos, d, i - 1)
          PROVE  Passed(At(e), d, i - 1)
      <4>1. /\ q.pos.date \in Int /\ q.pos.off \in Int /\ e.date \in Int /\ e.off \in Int
            /\ i \in Int /\ d \in Int /\ q.pos.date <= e.date
            /\ q.pos.date = e.date => e.off = q.pos.off + 1
        BY <1>3, <1>6, <2>1, <2>2, <2>3, PositionFields, LogLengths
        DEF Entry, Dates, ScanInOrder, Reads, NextOffset
      <4> QED
        BY <3>1, <4>1 DEF Passed, At
    <3>2. At(e).date = e.date
      BY DEF At
    <3> QED
      BY <2>1, <2>3, <3>1, <3>2 DEF ScanInOrder
  <2>12. ChunkCovers(local[r.from], base, copies[r.from], r)
    BY <1>2, <2>1 DEF StreamCovers, ChunkCovers
  <2> QED
    BY <1>2, <2>1, <2>10, <2>11, <2>12 DEF StreamCovers, log, cp
<1>7. ASSUME NEW d \in Dates, Finishes(q, r, d) PROVE StreamCovers(m, local, mirror, base, copies, r)
  <2> DEFINE log == local[q.peer]
  <2>1. /\ r.since = q.since /\ r.chunk = q.chunk /\ r.from = q.from /\ r.peer = q.peer
        /\ r.pos = q.pos /\ r.batch = q.batch /\ r.dates = q.dates \ {d}
        /\ d \in q.dates /\ NextOffset(q, d) >= Len(mirror[q.peer][d])
    BY <1>7 DEF Finishes, KeepsChunk, KeepsPeer
  <2>2. InFlight(r, r.peer) = InFlight(q, q.peer)
    BY <2>1 DEF InFlight
  <2>3. ScanInOrder(log, mirror[q.peer], r)
    <3>1. ScanInOrder(log, mirror[q.peer], q)
      BY <1>2 DEF StreamCovers
    <3>2. ASSUME NEW x \in q.dates, d < x, NEW i \in 1..Len(log[d])
          PROVE  Passed(q.pos, d, i - 1)
      <4>1. mirror[q.peer][x] # <<>> /\ x \in Dates
        BY <1>3, <3>1 DEF ScanInOrder
      <4>2. mirror[q.peer][d] = log[d]
        BY <1>3, <3>2, <4>1 DEF DaysInOrder
      <4>3. Len(log[d]) \in Nat /\ q.pos.date \in Int /\ q.pos.off \in Int
        BY <1>1, <1>3, Types, LogLengths, PositionFields
      <4> QED
        BY <2>1, <4>2, <4>3 DEF NextOffset, Passed
    <3> QED
      BY <2>1, <3>1, <3>2 DEF ScanInOrder
  <2>4. q.peer # m => ScanCovers(log, base, copies[q.peer], r)
    BY <1>2, <2>1, <2>2 DEF StreamCovers, ScanCovers
  <2>5. ChunkCovers(local[r.from], base, copies[r.from], r)
    BY <1>2, <2>1 DEF StreamCovers, ChunkCovers
  <2> QED
    BY <1>2, <2>1, <2>3, <2>4, <2>5 DEF StreamCovers
<1>8. CASE Sends(q, r)
  <2> DEFINE log == local[q.peer]
             cp  == copies[q.peer]
  <2>1. /\ r.since = q.since /\ r.dates = q.dates /\ r.pos = q.pos /\ r.peer = q.peer
        /\ q.chunk = <<>> /\ r.chunk = q.batch /\ r.from = q.peer /\ r.batch = <<>>
        /\ q.peer # m
    BY <1>2, <1>8 DEF Sends, KeepsPeer, FromOthers
  <2>2. InFlight(q, q.peer) = {} /\ InFlight(r, q.peer) = Placed(q.batch, Len(q.batch))
    BY <1>3, <2>1 DEF InFlight, Placed
  <2>3. ScanCovers(log, base, cp, q)
    BY <1>2, <2>1 DEF StreamCovers
  <2> HIDE DEF log, cp
  <2>4. ChunkCovers(log, base, cp, r)
    <3> SUFFICES ASSUME NEW j \in 1..Len(q.batch)
                 PROVE  Covers(log, base, cp, At(q.batch[j]), Placed(q.batch, j))
      BY <2>1 DEF ChunkCovers
    <3>1. Covers(log, base, cp, At(q.batch[j]), Placed(q.batch, j) \cup InFlight(q, q.peer))
      BY <2>3 DEF ScanCovers
    <3> QED
      BY <2>2, <3>1, CoversEarlier
  <2>5. ScanCovers(log, base, cp, r)
    <3>1. Covers(log, base, cp, q.pos, Placed(q.batch, Len(q.batch)) \cup InFlight(q, q.peer))
      BY <2>3 DEF ScanCovers
    <3>2. Covers(log, base, cp, q.pos, Placed(r.batch, Len(r.batch)) \cup InFlight(r, r.peer))
      BY <2>1, <2>2, <3>1, CoversEarlier
    <3> QED
      BY <1>3, <2>1, <3>2 DEF ScanCovers
  <2>6. ScanInOrder(log, mirror[q.peer], r)
    BY <1>2, <2>1 DEF StreamCovers, ScanInOrder, log
  <2> QED
    BY <1>2, <2>1, <2>4, <2>5, <2>6 DEF StreamCovers, log, cp
<1> QED
  BY <1>4, <1>5, <1>6, <1>7, <1>8 DEF StreamMoves, q, r

(***************************************************************************)
(* A stream under what does not move it: files, databases and copies that  *)
(* grow.                                                                   *)
(***************************************************************************)
CopiesGrow(x, y) == \A p \in Machines : Longer(x[p], y[p])

LEMMA AllCoversMore ==
    ASSUME NEW m \in Machines, NEW logs \in [Machines -> Logs], NEW x, NEW y, Keeps(x, y),
           NEW copies \in [Machines -> Logs], NEW copies2 \in [Machines -> Logs],
           CopiesGrow(copies, copies2), NEW c, AllCovers(m, logs, x, copies, c)
    PROVE  AllCovers(m, logs, y, copies2, c)
<1> SUFFICES ASSUME NEW p \in Machines \ {m}
             PROVE  Covers(logs[p], y, copies2[p], c[p], {})
  BY DEF AllCovers
<1>1. Covers(logs[p], x, copies[p], c[p], {}) /\ Longer(copies[p], copies2[p])
  BY DEF AllCovers, CopiesGrow
<1> QED
  BY <1>1, CoversMore

LEMMA StreamCoversMore ==
    ASSUME NEW m \in Machines, NEW logs \in [Machines -> Logs],
           NEW files \in [Machines -> Logs], NEW files2 \in [Machines -> Logs],
           CopiesGrow(files, files2), NEW x, NEW y, Keeps(x, y),
           NEW copies \in [Machines -> Logs], NEW copies2 \in [Machines -> Logs],
           CopiesGrow(copies, copies2), NEW q \in Stream, NEW r, SameScan(q, r),
           StreamCovers(m, logs, files, x, copies, q)
    PROVE  StreamCovers(m, logs, files2, y, copies2, r)
<1>1. ASSUME NEW p \in Machines, NEW c, NEW S, Covers(logs[p], x, copies[p], c, S)
      PROVE  Covers(logs[p], y, copies2[p], c, S)
  BY <1>1, CoversMore DEF CopiesGrow
<1>2. q.peer \in Machines /\ q.from \in Machines /\ q.dates \in SUBSET Dates
  BY StreamFields
<1>3. \A p \in Machines \ {m} : Covers(logs[p], y, copies2[p], q.since[p], {})
  BY <1>1 DEF StreamCovers
<1>4. ChunkCovers(logs[q.from], y, copies2[q.from], q)
  BY <1>1, <1>2 DEF StreamCovers, ChunkCovers
<1>5. q.peer # m => ScanCovers(logs[q.peer], y, copies2[q.peer], q)
  BY <1>1, <1>2 DEF StreamCovers, ScanCovers
<1>6. ScanInOrder(logs[q.peer], files2[q.peer], q)
  <2>1. ASSUME NEW d \in Dates, files[q.peer][d] # <<>> PROVE files2[q.peer][d] # <<>>
    <3>1. /\ files[q.peer][d] \in Seq(Line) /\ files2[q.peer][d] \in Seq(Line)
          /\ Len(files[q.peer][d]) \in Nat /\ Len(files2[q.peer][d]) \in Nat
          /\ Len(files[q.peer][d]) <= Len(files2[q.peer][d])
      BY <1>2, LogLengths DEF CopiesGrow, Longer
    <3>2. Len(files[q.peer][d]) # 0
      BY <2>1, <3>1, EmptyIsZero
    <3>3. Len(files2[q.peer][d]) # 0
      BY <3>1, <3>2
    <3> QED
      BY <3>1, <3>3, EmptyIsZero
  <2> QED
    BY <1>2, <2>1 DEF StreamCovers, ScanInOrder
<1> QED
  BY <1>3, <1>4, <1>5, <1>6
  DEF StreamCovers, ChunkCovers, ScanCovers, ScanInOrder, InFlight, SameScan

(***************************************************************************)
(* The initial state.                                                      *)
(***************************************************************************)
LEMMA NothingAllCovered ==
    ASSUME NEW m, NEW logs, NEW base, NEW copies
    PROVE  AllCovers(m, logs, base, copies, NoCursors)
BY NothingCovered DEF AllCovers, NoCursors

LEMMA NoStreamCovers ==
    ASSUME TypeOK, NEW m \in Machines, NEW base, NEW copies
    PROVE  StreamCovers(m, local, mirror, base, copies, NoStream(m))
BY NothingAllCovered, RequestCovers DEF NoStream, NoCursors

LEMMA InitDelivery == Init => DeliveryInv
<1> SUFFICES ASSUME Init, NEW m \in Machines
             PROVE  /\ pull[m] = NoStream(m) /\ sync[m].pc = "idle"
                    /\ cursor[m] = NoCursors /\ undo[m].cursor = NoCursors
  BY InitType, NothingAllCovered, NoStreamCovers DEF DeliveryInv
<1> QED
  BY DEF Init, RpcInit, LaptopInit, IdleSync, Closed

(***************************************************************************)
(* One line of a chunk arrives.                                            *)
(***************************************************************************)
LEMMA LineArrives ==
    ASSUME NEW log \in Logs, NEW base, NEW copy, NEW c, NEW S, Covers(log, base, copy, c, S),
           NEW e \in Entry, IsIn(log, e), Got(base, copy[e.date], e.line),
           NEW T, S \subseteq T \cup {At(e)}
    PROVE  Covers(log, base, copy, c, T)
<1> SUFFICES ASSUME NEW d \in Dates, NEW i \in 1..Len(log[d]), Passed(c, d, i - 1),
                    Place(d, i) = At(e)
             PROVE  Got(base, copy[d], log[d][i])
  BY DEF Covers
<1>1. Len(log[d]) \in Nat /\ e.off \in Nat
  BY LogLengths DEF Entry
<1>2. d = e.date /\ i - 1 = e.off
  BY DEF Place, At
<1>3. i = e.off + 1
  BY <1>1, <1>2
<1> QED
  BY <1>2, <1>3 DEF IsIn

LEMMA PlacedTail ==
    ASSUME NEW s \in Seq(Entry), s # <<>>
    PROVE  /\ Tail(s) \in Seq(Entry) /\ Len(Tail(s)) = Len(s) - 1 /\ Len(s) \in Nat
           /\ Head(s) = s[1] /\ s[1] \in Entry /\ Len(s) >= 1
           /\ \A j \in 1..Len(Tail(s)) : Tail(s)[j] = s[j + 1]
           /\ \A j \in 0..Len(Tail(s)) :
                 Placed(s, j + 1) \subseteq Placed(Tail(s), j) \cup {At(Head(s))}
<1>1. /\ Tail(s) \in Seq(Entry) /\ Len(Tail(s)) = Len(s) - 1 /\ Len(s) \in Nat
      /\ Head(s) = s[1] /\ s[1] \in Entry /\ Len(s) >= 1
      /\ \A j \in 1..Len(Tail(s)) : Tail(s)[j] = s[j + 1]
  <2>1. Len(s) \in Nat /\ Len(s) # 0
    BY EmptyIsZero, LenProperties
  <2> QED
    BY <2>1, HeadTailProperties, ElementOfSeq
<1> DEFINE t == Tail(s)
<1> HIDE DEF t
<1>2. ASSUME NEW j \in 0..Len(t), NEW k \in 1..(j + 1), At(s[k]) # At(Head(s))
      PROVE  At(s[k]) \in Placed(t, j)
  <2>1. k # 1
    BY <1>1, <1>2
  <2>2. k - 1 \in 1..j /\ k - 1 \in 1..Len(t) /\ (k - 1) + 1 = k
    BY <1>1, <2>1 DEF t
  <2>3. t[k - 1] = s[k]
    BY <1>1, <2>2 DEF t
  <2> QED
    BY <2>2, <2>3 DEF Placed
<1>3. ASSUME NEW j \in 0..Len(t) PROVE Placed(s, j + 1) \subseteq Placed(t, j) \cup {At(Head(s))}
  BY <1>2 DEF Placed
<1> QED
  BY <1>1, <1>3 DEF t

LEMMA ApplyLineGets ==
    ASSUME SyncInv, NEW m \in Machines, ApplyLine(m)
    PROVE  LET p == pull[m].from
               e == Head(pull[m].chunk)
           IN  /\ e \in Entry /\ p \in Machines /\ IsIn(local[p], e)
               /\ Keeps(db[m], db'[m]) /\ CopiesGrow(peerLog[m], peerLog'[m])
               /\ Got(db'[m], peerLog'[m][p][e.date], e.line)
<1> DEFINE q == pull[m]
           p == q.from
           e == Head(q.chunk)
           l == e.line
<1>1. TypeOK /\ q \in Stream /\ q.chunk # <<>> /\ q.chunk \in Seq(Entry) /\ p \in Machines
  BY Types, StreamFields DEF SyncInv, ApplyLine
<1>2. e = q.chunk[1] /\ q.chunk[1] \in Entry /\ 1 \in 1..Len(q.chunk)
  BY <1>1, PlacedTail
<1>3. e \in Entry /\ l \in Line /\ e.date \in Dates
  BY <1>2 DEF Entry
<1>4. IsIn(local[p], e)
  <2>1. IsIn(mirror[p], e)
    BY <1>2 DEF SyncInv, PositionsInv, LaptopWithin, StreamWithin
  <2> QED
    BY <1>1, <1>3, <2>1, MirrorInLocal, IsInLonger
<1>5. db[m] \in Db /\ db \in [Machines -> Db] /\ peerLog \in [Machines -> [Machines -> Logs]]
  BY <1>1, Types DEF TypeOK, LaptopTypeOK
<1>6. /\ peerLog' = [peerLog EXCEPT ![m][p][e.date] = Append(@, l)]
      /\ db' = [db EXCEPT ![m] = ReplayIntoDb(@, l)]
  BY DEF ApplyLine
<1> HIDE DEF q, p, e, l
<1>7. db'[m] = ReplayLine(db[m], l)
  BY <1>3, <1>5, <1>6, ReplaysAgree
<1>8. Keeps(db[m], db'[m]) /\ Holds(db'[m], l)
  BY <1>3, <1>5, <1>7, ReplayKeepsLines, ReplayedLineHolds DEF Keeps
<1>9. /\ peerLog[m][p][e.date] \in Seq(Line)
      /\ peerLog'[m][p][e.date] = Append(peerLog[m][p][e.date], l)
      /\ \A x \in Machines, d \in Dates : ~(x = p /\ d = e.date) =>
            peerLog'[m][x][d] = peerLog[m][x][d]
  BY <1>1, <1>3, <1>5, <1>6 DEF Logs
<1>10. /\ Len(peerLog[m][p][e.date]) \in Nat
       /\ Len(peerLog'[m][p][e.date]) = Len(peerLog[m][p][e.date]) + 1
       /\ \A j \in 1..Len(peerLog[m][p][e.date]) :
             peerLog'[m][p][e.date][j] = peerLog[m][p][e.date][j]
       /\ peerLog'[m][p][e.date][Len(peerLog[m][p][e.date]) + 1] = l
  <2> DEFINE old == peerLog[m][p][e.date]
  <2>1. old \in Seq(Line) /\ peerLog'[m][p][e.date] = Append(old, l)
    BY <1>9
  <2> HIDE DEF old
  <2>2. /\ Len(Append(old, l)) = Len(old) + 1 /\ Len(old) \in Nat
        /\ \A j \in 1..Len(old) : Append(old, l)[j] = old[j]
        /\ Append(old, l)[Len(old) + 1] = l
    BY <1>3, <2>1, AppendEach
  <2>3. /\ Len(peerLog'[m][p][e.date]) = Len(old) + 1 /\ Len(old) \in Nat
        /\ \A j \in 1..Len(old) : peerLog'[m][p][e.date][j] = old[j]
        /\ peerLog'[m][p][e.date][Len(old) + 1] = l
    BY <2>1, <2>2
  <2> QED
    BY <2>3 DEF old
<1>11. CopiesGrow(peerLog[m], peerLog'[m])
  <2> SUFFICES ASSUME NEW x \in Machines, NEW d \in Dates
               PROVE  /\ Len(peerLog[m][x][d]) <= Len(peerLog'[m][x][d])
                      /\ \A i \in 1..Len(peerLog[m][x][d]) :
                            peerLog'[m][x][d][i] = peerLog[m][x][d][i]
    BY DEF CopiesGrow, Longer
  <2>1. CASE x = p /\ d = e.date
    BY <1>10, <2>1
  <2>2. CASE ~(x = p /\ d = e.date)
    <3>1. Len(peerLog[m][x][d]) \in Nat
      BY <1>5, LogLengths
    <3> QED
      BY <1>9, <2>2, <3>1
  <2> QED
    BY <2>1, <2>2
<1>12. Got(db'[m], peerLog'[m][p][e.date], l)
  <2>1. Len(peerLog[m][p][e.date]) + 1 \in 1..Len(peerLog'[m][p][e.date])
    BY <1>10
  <2> QED
    BY <1>8, <1>10, <2>1 DEF Got
<1> QED
  BY <1>1, <1>3, <1>4, <1>8, <1>11, <1>12 DEF q, p, e, l

LEMMA ApplyLineCovers ==
    ASSUME SyncInv, SyncInv', DeliveryInv, NEW m \in Machines, Applies(m)
    PROVE  /\ StreamCovers(m, local, mirror, db'[m], peerLog'[m], pull'[m])
           /\ Len(pull[m].chunk) = 1 =>
                 Covers(local[pull[m].from], db'[m], peerLog'[m][pull[m].from],
                        At(Head(pull[m].chunk)), {})
<1> DEFINE q == pull[m]
           r == pull'[m]
           p == q.from
           e == Head(q.chunk)
           y == db'[m]
           new == peerLog'[m]
<1>1. /\ TypeOK /\ q \in Stream /\ q.chunk # <<>> /\ q.chunk \in Seq(Entry) /\ p \in Machines
      /\ q.peer \in Machines /\ local \in [Machines -> Logs] /\ mirror \in [Machines -> Logs]
      /\ peerLog[m] \in [Machines -> Logs] /\ new \in [Machines -> Logs]
  BY Types, StreamFields DEF SyncInv, Applies, TypeOK, LaptopTypeOK
<1>2. /\ e \in Entry /\ IsIn(local[p], e) /\ Got(y, new[p][e.date], e.line)
      /\ Keeps(db[m], y) /\ CopiesGrow(peerLog[m], new)
  BY ApplyLineGets DEF Applies
<1>3. StreamCovers(m, local, mirror, y, new, q)
  <2>1. CopiesGrow(mirror, mirror)
    BY <1>1, SameIsLonger DEF CopiesGrow
  <2> QED
    BY <1>1, <1>2, <2>1, StreamCoversMore, SameStream DEF DeliveryInv
<1>4. /\ r.chunk = Tail(q.chunk) /\ r.since = q.since /\ r.from = q.from /\ r.peer = q.peer
      /\ r.dates = q.dates /\ r.pos = q.pos /\ r.batch = q.batch
  BY DEF Applies, KeepsPeer
<1> HIDE DEF q, r, p, e, y, new
<1>5. /\ Len(r.chunk) = Len(q.chunk) - 1 /\ Len(q.chunk) \in Nat /\ Len(q.chunk) >= 1
      /\ e = q.chunk[1]
      /\ \A j \in 1..Len(r.chunk) : r.chunk[j] = q.chunk[j + 1]
      /\ \A j \in 0..Len(r.chunk) : Placed(q.chunk, j + 1) \subseteq Placed(r.chunk, j) \cup {At(e)}
  <2> DEFINE t == q.chunk
  <2>1. t \in Seq(Entry) /\ t # <<>> /\ r.chunk = Tail(t) /\ e = Head(t)
    BY <1>1, <1>4 DEF e
  <2> HIDE DEF t
  <2>2. /\ Len(Tail(t)) = Len(t) - 1 /\ Len(t) \in Nat /\ Len(t) >= 1 /\ Head(t) = t[1]
        /\ \A j \in 1..Len(Tail(t)) : Tail(t)[j] = t[j + 1]
        /\ \A j \in 0..Len(Tail(t)) :
              Placed(t, j + 1) \subseteq Placed(Tail(t), j) \cup {At(Head(t))}
    BY <2>1, PlacedTail
  <2>3. /\ Len(r.chunk) = Len(t) - 1 /\ Len(t) \in Nat /\ Len(t) >= 1 /\ e = t[1]
        /\ \A j \in 1..Len(r.chunk) : r.chunk[j] = t[j + 1]
        /\ \A j \in 0..Len(r.chunk) :
              Placed(t, j + 1) \subseteq Placed(r.chunk, j) \cup {At(e)}
    BY <2>1, <2>2
  <2> QED
    BY <2>3 DEF t
<1>6. ASSUME NEW c, NEW S, Covers(local[p], y, new[p], c, S),
             NEW T, S \subseteq T \cup {At(e)}
      PROVE  Covers(local[p], y, new[p], c, T)
  <2>1. local[p] \in Logs
    BY <1>1
  <2> QED
    BY <1>2, <1>6, <2>1, LineArrives
<1>7. ChunkCovers(local[p], y, new[p], q)
  BY <1>3 DEF StreamCovers, p
<1>8. ChunkCovers(local[p], y, new[p], r)
  <2> SUFFICES ASSUME NEW j \in 1..Len(r.chunk)
               PROVE  Covers(local[p], y, new[p], At(r.chunk[j]), Placed(r.chunk, j))
    BY DEF ChunkCovers
  <2>1. j + 1 \in 1..Len(q.chunk) /\ j \in 0..Len(r.chunk)
    BY <1>5
  <2>2. Covers(local[p], y, new[p], At(q.chunk[j + 1]), Placed(q.chunk, j + 1))
    BY <1>7, <2>1 DEF ChunkCovers
  <2> QED
    BY <1>5, <1>6, <2>1, <2>2
<1>9. q.peer # m => ScanCovers(local[q.peer], y, new[q.peer], r)
  <2> SUFFICES ASSUME q.peer # m PROVE ScanCovers(local[q.peer], y, new[q.peer], r)
    OBVIOUS
  <2>1. ScanCovers(local[q.peer], y, new[q.peer], q)
    BY <1>3 DEF StreamCovers
  <2>2. CASE q.peer = p
    <3>1. InFlight(q, q.peer) \subseteq InFlight(r, r.peer) \cup {At(e)}
      <4>1. Len(r.chunk) \in 0..Len(r.chunk) /\ Len(r.chunk) + 1 = Len(q.chunk)
        BY <1>5
      <4> QED
        BY <1>4, <1>5, <2>2, <4>1 DEF InFlight, p
    <3>2. ASSUME NEW j \in 1..Len(q.batch)
          PROVE  Covers(local[p], y, new[p], At(q.batch[j]),
                        Placed(q.batch, j) \cup InFlight(r, r.peer))
      <4>1. Covers(local[p], y, new[p], At(q.batch[j]),
                   Placed(q.batch, j) \cup InFlight(q, q.peer))
        BY <2>1, <2>2 DEF ScanCovers
      <4>2. Placed(q.batch, j) \cup InFlight(q, q.peer)
              \subseteq (Placed(q.batch, j) \cup InFlight(r, r.peer)) \cup {At(e)}
        BY <3>1
      <4> QED
        BY <1>6, <4>1, <4>2
    <3>3. Covers(local[p], y, new[p], q.pos,
                 Placed(q.batch, Len(q.batch)) \cup InFlight(r, r.peer))
      <4>1. Covers(local[p], y, new[p], q.pos,
                   Placed(q.batch, Len(q.batch)) \cup InFlight(q, q.peer))
        BY <2>1, <2>2 DEF ScanCovers
      <4>2. Placed(q.batch, Len(q.batch)) \cup InFlight(q, q.peer)
              \subseteq (Placed(q.batch, Len(q.batch)) \cup InFlight(r, r.peer)) \cup {At(e)}
        BY <3>1
      <4> QED
        BY <1>6, <4>1, <4>2
    <3> QED
      BY <1>4, <2>2, <3>2, <3>3 DEF ScanCovers
  <2>3. CASE q.peer # p
    <3>1. InFlight(r, r.peer) = InFlight(q, q.peer)
      BY <1>4, <2>3 DEF InFlight, p
    <3> QED
      BY <1>4, <2>1, <3>1 DEF ScanCovers
  <2> QED
    BY <2>2, <2>3
<1>10. ScanInOrder(local[q.peer], mirror[q.peer], r)
  BY <1>3, <1>4 DEF StreamCovers, ScanInOrder
<1>11. StreamCovers(m, local, mirror, y, new, r)
  BY <1>3, <1>4, <1>8, <1>9, <1>10 DEF StreamCovers, p
<1>12. ASSUME Len(q.chunk) = 1 PROVE Covers(local[p], y, new[p], At(e), {})
  <2>1. Covers(local[p], y, new[p], At(q.chunk[1]), Placed(q.chunk, 1))
    BY <1>7, <1>12 DEF ChunkCovers
  <2>2. Placed(q.chunk, 1) \subseteq {} \cup {At(e)}
    BY <1>5 DEF Placed
  <2> QED
    BY <1>5, <1>6, <2>1, <2>2
<1> QED
  BY <1>11, <1>12 DEF q, r, p, e, y, new

(***************************************************************************)
(* The steps of the sync process.                                          *)
(***************************************************************************)
LEMMA ApplyLineApplies == ASSUME TypeOK, NEW m \in Machines, ApplyLine(m) PROVE Applies(m)
<1>1. /\ pull' = [pull EXCEPT ![m].chunk = Tail(@)] /\ pull[m].chunk # <<>>
      /\ pull \in [Machines -> Stream] /\ pull[m] \in Stream
  BY Types DEF ApplyLine
<1> DEFINE t == Tail(pull[m].chunk)
           q == pull[m]
           r == [q EXCEPT !.chunk = t]
<1>2. pull'[m] = r /\ q \in Stream
  BY <1>1
<1> HIDE DEF t, q
<1>3. /\ r.chunk = t /\ r.since = q.since /\ r.from = q.from /\ r.pc = q.pc
      /\ r.peers = q.peers /\ r.peer = q.peer
      /\ r.dates = q.dates /\ r.pos = q.pos /\ r.batch = q.batch
  BY <1>2 DEF Stream
<1> HIDE DEF r
<1> QED
  BY <1>1, <1>2, <1>3 DEF Applies, KeepsPeer, t, q

LEMMA ClientDatabase ==
    ASSUME TypeOK, NEW m \in Machines, ClientStep(m), ~ApplyLine(m)
    PROVE  /\ peerLog'[m] = peerLog[m]
           /\ db'[m] = db[m] \/ (/\ SyncKilled(m) /\ undo[m].open /\ db'[m] = undo[m].db
                                 /\ cursor'[m] = undo[m].cursor)
           /\ \/ undo'[m] = undo[m] \/ undo'[m] = Closed
              \/ undo'[m] = [open |-> TRUE, db |-> db[m], cursor |-> cursor[m]]
           /\ SyncKilled(m) => pull'[m] = NoStream(m) /\ sync'[m].pc = "idle" /\ undo'[m] = Closed
<1>1. UNCHANGED peerLog
  BY DEF ClientStep, SyncNext, PullBroken, SyncStarts, PushBatch, PushOk, PushError,
         PushTimeout, PushDone, SetPeerCursor, PullDone, PullEndsEarly, SyncKilled
<1>2. UNCHANGED undo \/ OpenTransaction(m) \/ Commit(m) \/ Rollback(m)
  BY DEF ClientStep, SyncNext, PullBroken, SyncStarts, PushBatch, PushOk, PushError,
         PushTimeout, PushDone, SetPeerCursor, PullDone, PullEndsEarly, SyncKilled
<1>3. \/ undo'[m] = undo[m] \/ undo'[m] = Closed
      \/ undo'[m] = [open |-> TRUE, db |-> db[m], cursor |-> cursor[m]]
  BY <1>2, UndoSteps
<1>4. CASE SyncKilled(m)
  <2>1. Rollback(m)
    BY <1>4 DEF SyncKilled
  <2>2. pull'[m] = NoStream(m) /\ sync'[m].pc = "idle"
    BY <1>4, Types DEF SyncKilled, IdleSync
  <2> QED
    BY <1>1, <1>3, <1>4, <2>1, <2>2, UndoSteps
<1>5. CASE ~SyncKilled(m)
  <2>1. UNCHANGED db
    BY <1>5
    DEF ClientStep, SyncNext, PullBroken, SyncStarts, PushBatch, PushOk, PushError,
        PushTimeout, PushDone, SetPeerCursor, PullDone, PullEndsEarly
  <2> QED
    BY <1>1, <1>3, <1>5, <2>1
<1> QED
  BY <1>4, <1>5

LEMMA ClientDelivery ==
    ASSUME SyncInv, SyncInv', DeliveryInv, NEW m \in Machines, ClientStep(m),
           UNCHANGED storeVars
    PROVE  DeliveryInv'
<1>1. UNCHANGED <<mirror, local>> /\ TypeOK /\ TypeOK' /\ OthersKeep(m)
  BY ClientOthers DEF SyncInv, storeVars, hostVars
<1>2. ASSUME NEW p \in Machines \ {m}
      PROVE  /\ StreamCovers(p, local, mirror, db'[p], peerLog'[p], pull'[p])
             /\ sync'[p].pc = "chunk" =>
                   Covers(local[sync'[p].peer], db'[p], peerLog'[p][sync'[p].peer], sync'[p].pos, {})
             /\ AllCovers(p, local, db'[p], peerLog'[p], cursor'[p])
             /\ AllCovers(p, local, undo'[p].db, peerLog'[p], undo'[p].cursor)
  BY <1>1 DEF OthersKeep, DeliveryInv
<1>3. CASE ApplyLine(m)
  <2>1. Applies(m)
    BY <1>1, <1>3, ApplyLineApplies
  <2>2. /\ StreamCovers(m, local, mirror, db'[m], peerLog'[m], pull'[m])
        /\ Len(pull[m].chunk) = 1 =>
              Covers(local[pull[m].from], db'[m], peerLog'[m][pull[m].from],
                     At(Head(pull[m].chunk)), {})
    BY <2>1, ApplyLineCovers
  <2>3. sync'[m].pc = "chunk" =>
            Covers(local[sync'[m].peer], db'[m], peerLog'[m][sync'[m].peer], sync'[m].pos, {})
    <3>1. CASE EndsChunk(m)
      BY <2>2, <3>1 DEF EndsChunk
    <3>2. CASE ~EndsChunk(m)
      BY <1>1, <3>2, ClientMoves, PushBatchCalls DEF SyncMoves, Starts, Resumes, NewCall
    <3> QED
      BY <3>1, <3>2
  <2>4. /\ Keeps(db[m], db'[m]) /\ CopiesGrow(peerLog[m], peerLog'[m])
        /\ local \in [Machines -> Logs]
        /\ peerLog[m] \in [Machines -> Logs] /\ peerLog'[m] \in [Machines -> Logs]
    BY <1>1, <1>3, ApplyLineGets DEF TypeOK, LaptopTypeOK
  <2>5. cursor'[m] = cursor[m]
    BY <1>3 DEF ApplyLine
  <2>6. AllCovers(m, local, db'[m], peerLog'[m], cursor'[m])
    BY <2>4, <2>5, AllCoversMore DEF DeliveryInv
  <2>7. AllCovers(m, local, undo'[m].db, peerLog'[m], undo'[m].cursor)
    <3>1. \/ undo'[m] = undo[m]
          \/ undo'[m] = [open |-> TRUE, db |-> db[m], cursor |-> cursor[m]]
      BY <1>1, <1>3, UndoSteps DEF ApplyLine
    <3>2. AllCovers(m, local, undo'[m].db, peerLog[m], undo'[m].cursor)
      BY <3>1 DEF DeliveryInv
    <3> QED
      BY <2>4, <3>2, AllCoversMore, SameKeeps
  <2> QED
    BY <1>1, <1>2, <2>2, <2>3, <2>6, <2>7 DEF DeliveryInv
<1>4. CASE ~ApplyLine(m)
  <2>1. peerLog'[m] = peerLog[m]
    BY <1>1, <1>4, ClientDatabase
  <2>2. AllCovers(m, local, db'[m], peerLog[m], cursor'[m])
    <3>1. CASE SyncKilled(m) /\ undo[m].open /\ db'[m] = undo[m].db /\ cursor'[m] = undo[m].cursor
      BY <3>1 DEF DeliveryInv
    <3>2. CASE db'[m] = db[m] /\ ~SyncKilled(m)
      <4> SUFFICES ASSUME NEW p \in Machines \ {m}
                   PROVE  Covers(local[p], db[m], peerLog[m][p], cursor'[m][p], {})
        BY <3>2 DEF AllCovers
      <4>1. CASE cursor'[m][p] = cursor[m][p]
        BY <4>1 DEF DeliveryInv, AllCovers
      <4>2. CASE SetPeerCursor(m) /\ p = sync[m].peer /\ cursor'[m][p] = sync[m].pos
        BY <4>2 DEF DeliveryInv, SetPeerCursor
      <4> QED
        BY <1>1, <3>2, <4>1, <4>2, ClientCursors DEF CursorSteps
    <3>3. CASE db'[m] = db[m] /\ SyncKilled(m) /\ ~undo[m].open
      <4>1. cursor'[m] = cursor[m]
        BY <1>1, <3>3, UndoSteps DEF SyncKilled
      <4> QED
        BY <3>3, <4>1 DEF DeliveryInv
    <3>4. CASE db'[m] = db[m] /\ SyncKilled(m) /\ undo[m].open
      <4>1. cursor'[m] = undo[m].cursor /\ db'[m] = undo[m].db
        BY <1>1, <3>4, UndoSteps DEF SyncKilled
      <4> QED
        BY <4>1 DEF DeliveryInv
    <3> QED
      BY <1>1, <1>4, <3>1, <3>2, <3>3, <3>4, ClientDatabase
  <2>3. AllCovers(m, local, undo'[m].db, peerLog[m], undo'[m].cursor)
    <3>1. CASE undo'[m] = Closed
      BY <3>1, NothingAllCovered DEF Closed
    <3>2. CASE undo'[m] = undo[m]
      BY <3>2 DEF DeliveryInv
    <3>3. CASE undo'[m] = [open |-> TRUE, db |-> db[m], cursor |-> cursor[m]]
      <4>1. undo'[m].db = db[m] /\ undo'[m].cursor = cursor[m]
        BY <3>3
      <4> QED
        BY <4>1 DEF DeliveryInv
    <3> QED
      BY <1>1, <1>4, <3>1, <3>2, <3>3, ClientDatabase
  <2>4. StreamCovers(m, local, mirror, db'[m], peerLog[m], pull'[m])
    <3>1. CASE pull'[m] = NoStream(m)
      BY <1>1, <3>1, NoStreamCovers
    <3>2. CASE pull'[m] = Request(m, cursor'[m], "sent")
      BY <1>1, <2>2, <3>2, RequestCovers
    <3>3. CASE pull'[m] = pull[m] /\ ~SyncKilled(m)
      <4>1. db'[m] = db[m]
        BY <1>1, <1>4, <3>3, ClientDatabase
      <4> QED
        BY <3>3, <4>1 DEF DeliveryInv
    <3>4. CASE SyncKilled(m)
      BY <1>1, <1>4, <3>1, <3>4, ClientDatabase
    <3> QED
      BY <1>1, <1>4, <3>1, <3>2, <3>3, <3>4, ClientMoves DEF PullMoves, Applies
  <2>5. sync'[m].pc # "chunk"
    BY <1>1, <1>4, ClientMoves, PushBatchCalls DEF SyncMoves, Starts, Resumes, NewCall, EndsChunk
  <2> QED
    BY <1>1, <1>2, <2>1, <2>2, <2>3, <2>4, <2>5 DEF DeliveryInv
<1> QED
  BY <1>3, <1>4

(***************************************************************************)
(* The steps of the host.                                                  *)
(***************************************************************************)
LEMMA HostWriteKeeps ==
    ASSUME NEW base \in Db, NEW msg \in Message
    PROVE  Keeps(base, HostWrite(base, msg))
<1>1. msg.url \in Urls /\ msg.ts \in Stamps
  BY DEF Message
<1>2. ASSUME NEW x \in Db, NEW k
      PROVE  LET y == HostTag(x, msg.url, msg.ts, k) IN Grows(x, y) /\ y \in Db
  <2>1. Grows(x, x)
    BY DEF Grows
  <2>2. CASE k = "of_interest"
    BY <1>1, <2>2, StatementsGrow, SetOfInterestType DEF HostTag, Tags
  <2>3. CASE k \in Tags
    <3>1. HostTag(x, msg.url, msg.ts, k) \in {x, TagWithFilename(x, msg.url, msg.ts, k)}
      BY <2>3 DEF HostTag, HostInsertEvent, Tags
    <3>2. Grows(x, TagWithFilename(x, msg.url, msg.ts, k))
      BY <1>1, <2>3, StatementsGrow
    <3>3. TagWithFilename(x, msg.url, msg.ts, k) \in Db
      BY <1>1, <2>3, TagWithFilenameType
    <3> QED
      BY <2>1, <3>1, <3>2, <3>3
  <2>4. CASE k # "of_interest" /\ k \notin Tags
    BY <2>1, <2>4 DEF HostTag
  <2> QED
    BY <2>2, <2>3, <2>4
<1> DEFINE x == InsertVisit(base, msg.url, msg.ts)
           y == HostTag(x, msg.url, msg.ts, msg.kind)
           z == HostTag(y, msg.url, msg.ts, "of_interest")
<1>3. x \in Db /\ Grows(base, x)
  BY <1>1, InsertVisitType, StatementsGrow DEF Tags
<1> HIDE DEF x
<1>4. y \in Db /\ Grows(x, y)
  BY <1>2, <1>3
<1> HIDE DEF y
<1>5. Grows(y, z)
  BY <1>2, <1>4
<1>6. HostWrite(base, msg) \in {y, z}
  BY DEF HostWrite, x, y
<1> HIDE DEF z
<1>7. Grows(base, y) /\ Grows(base, z)
  BY <1>3, <1>4, <1>5, GrowsTransitive
<1> QED
  BY <1>6, <1>7, GrowsKeeps

LEMMA HostDatabase ==
    ASSUME TypeOK, NEW m \in Machines, Host(m), NEW p \in Machines
    PROVE  Keeps(db[p], db'[p])
<1>1. CASE UNCHANGED db
  BY <1>1, SameKeeps
<1>2. ASSUME NEW h \in Procs, HostStores(m, h) PROVE Keeps(db[p], db'[p])
  <2>1. host[m][h].msg \in Message /\ db \in [Machines -> Db]
    BY <1>2 DEF HostStores, TypeOK, LaptopTypeOK, Invocation, IdleHost
  <2>2. db'[p] \in {db[p], HostWrite(db[p], host[m][h].msg)}
    BY <1>2, <2>1 DEF HostStores
  <2> QED
    BY <2>1, <2>2, HostWriteKeeps, SameKeeps
<1> QED
  BY <1>1, <1>2 DEF Host, HostNext, HostRuns, HostBegins, AppendAction, AppendResult

LEMMA HostDelivery ==
    ASSUME SyncInv, SyncInv', OrderInv, DeliveryInv, NEW m \in Machines, Host(m)
    PROVE  DeliveryInv'
<1>1. /\ UNCHANGED <<today, mirror, pull, sync, cursor, undo, peerLog>>
      /\ UNCHANGED local \/ \E l \in Line : LogAppend(m, today, l)
      /\ TypeOK /\ TypeOK' /\ Today
  BY HostLogs DEF SyncInv, OrderInv, rpcVars, storeVars, syncVars
<1>2. ASSUME NEW p \in Machines, NEW c \in Position, Within(mirror[p], c), NEW base,
             NEW copy, NEW S, Covers(local[p], base, copy, c, S)
      PROVE  Covers(local'[p], base, copy, c, S)
  <2> SUFFICES ASSUME NEW d \in Dates, NEW i \in 1..Len(local'[p][d]), Passed(c, d, i - 1)
               PROVE  Got(base, copy[d], local'[p][d][i]) \/ Place(d, i) \in S
    BY DEF Covers
  <2>1. Within(local[p], c)
    BY <1>2, MirrorInLocal
  <2>2. i \in 1..Len(local[p][d]) /\ local'[p][d][i] = local[p][d][i]
    BY <1>1, <2>1, NewLineNotPassed
  <2> QED
    BY <1>2, <2>2 DEF Covers
<1> SUFFICES ASSUME NEW x \in Machines
             PROVE  /\ StreamCovers(x, local', mirror, db'[x], peerLog[x], pull[x])
                    /\ sync[x].pc = "chunk" =>
                          Covers(local'[sync[x].peer], db'[x], peerLog[x][sync[x].peer],
                                 sync[x].pos, {})
                    /\ AllCovers(x, local', db'[x], peerLog[x], cursor[x])
                    /\ AllCovers(x, local', undo[x].db, peerLog[x], undo[x].cursor)
  BY <1>1 DEF DeliveryInv
<1> DEFINE q == pull[x]
           y == db'[x]
           copies == peerLog[x]
<1>3. /\ Keeps(db[x], y) /\ copies \in [Machines -> Logs] /\ q \in Stream
      /\ local \in [Machines -> Logs] /\ mirror \in [Machines -> Logs]
      /\ CopiesGrow(mirror, mirror) /\ CopiesGrow(copies, copies)
      /\ LaptopWithin(x) /\ sync[x] \in Process
  BY <1>1, HostDatabase, Types, SameIsLonger
  DEF TypeOK, LaptopTypeOK, CopiesGrow, SyncInv, PositionsInv
<1>4. /\ StreamCovers(x, local, mirror, y, copies, q)
      /\ AllCovers(x, local, y, copies, cursor[x])
      /\ AllCovers(x, local, undo[x].db, copies, undo[x].cursor)
  BY <1>3, StreamCoversMore, SameStream, AllCoversMore DEF DeliveryInv
<1>5. AllCovers(x, local', y, copies, cursor[x])
  BY <1>1, <1>2, <1>3, <1>4, Types DEF AllCovers, LaptopWithin, AllWithin
<1>6. AllCovers(x, local', undo[x].db, copies, undo[x].cursor)
  BY <1>1, <1>2, <1>3, <1>4, Types DEF AllCovers, LaptopWithin, AllWithin
<1>7. ASSUME sync[x].pc = "chunk"
      PROVE  Covers(local'[sync[x].peer], y, copies[sync[x].peer], sync[x].pos, {})
  <2> DEFINE p == sync[x].peer
             c == sync[x].pos
  <2>1. p \in Machines /\ c \in Position /\ Within(mirror[p], c)
    BY <1>3, <1>7 DEF Process, LaptopWithin, ChunkWithin
  <2>2. Covers(local[p], db[x], copies[p], c, {})
    BY <1>7 DEF DeliveryInv
  <2>3. Covers(local[p], y, copies[p], c, {})
    BY <1>3, <2>1, <2>2, CoversMore DEF CopiesGrow
  <2> QED
    BY <1>2, <2>1, <2>3
<1>8. StreamCovers(x, local', mirror, y, copies, q)
  <2>1. /\ q.since \in [Machines -> Position] /\ q.peer \in Machines /\ q.from \in Machines
        /\ q.pos \in Position /\ q.dates \in SUBSET Dates
        /\ \A j \in 1..Len(q.batch) : q.batch[j] \in Entry
        /\ \A j \in 1..Len(q.chunk) : q.chunk[j] \in Entry
        /\ StreamWithin(mirror, q)
    BY <1>3, StreamFields DEF LaptopWithin
  <2>2. ASSUME NEW p \in Machines, NEW e \in Entry, IsIn(mirror[p], e)
        PROVE  At(e) \in Position /\ Within(mirror[p], At(e))
    BY <1>3, <2>2, IsInWithin, AtType
  <2> HIDE DEF q, y, copies
  <2>3. \A p \in Machines \ {x} : Covers(local'[p], y, copies[p], q.since[p], {})
    BY <1>2, <1>4, <2>1 DEF StreamCovers, StreamWithin, AllWithin
  <2>4. ChunkCovers(local'[q.from], y, copies[q.from], q)
    <3> SUFFICES ASSUME NEW j \in 1..Len(q.chunk)
                 PROVE  Covers(local'[q.from], y, copies[q.from], At(q.chunk[j]), Placed(q.chunk, j))
      BY DEF ChunkCovers
    <3>1. q.chunk[j] \in Entry /\ IsIn(mirror[q.from], q.chunk[j])
      BY <2>1 DEF StreamWithin
    <3>2. Covers(local[q.from], y, copies[q.from], At(q.chunk[j]), Placed(q.chunk, j))
      BY <1>4 DEF StreamCovers, ChunkCovers
    <3> QED
      BY <1>2, <2>1, <2>2, <3>1, <3>2
  <2>5. q.peer # x => ScanCovers(local'[q.peer], y, copies[q.peer], q)
    <3> SUFFICES ASSUME q.peer # x PROVE ScanCovers(local'[q.peer], y, copies[q.peer], q)
      OBVIOUS
    <3>1. ScanCovers(local[q.peer], y, copies[q.peer], q)
      BY <1>4 DEF StreamCovers
    <3>2. ASSUME NEW j \in 1..Len(q.batch)
          PROVE  Covers(local'[q.peer], y, copies[q.peer], At(q.batch[j]),
                        Placed(q.batch, j) \cup InFlight(q, q.peer))
      <4>1. q.batch[j] \in Entry /\ IsIn(mirror[q.peer], q.batch[j])
        BY <2>1 DEF StreamWithin
      <4>2. Covers(local[q.peer], y, copies[q.peer], At(q.batch[j]),
                   Placed(q.batch, j) \cup InFlight(q, q.peer))
        BY <3>1 DEF ScanCovers
      <4> QED
        BY <1>2, <2>1, <2>2, <4>1, <4>2
    <3>3. Covers(local'[q.peer], y, copies[q.peer], q.pos,
                 Placed(q.batch, Len(q.batch)) \cup InFlight(q, q.peer))
      BY <1>2, <2>1, <3>1 DEF ScanCovers, StreamWithin
    <3> QED
      BY <3>2, <3>3 DEF ScanCovers
  <2>6. ScanInOrder(local'[q.peer], mirror[q.peer], q)
    <3>1. ScanInOrder(local[q.peer], mirror[q.peer], q)
      BY <1>4 DEF StreamCovers
    <3>2. ASSUME NEW z \in q.dates, NEW d \in Dates \ q.dates, d < z
          PROVE  local'[q.peer][d] = local[q.peer][d]
      <4>1. mirror[q.peer][z] # <<>> /\ z \in Dates
        BY <2>1, <3>1 DEF ScanInOrder
      <4>2. local[q.peer][z] # <<>>
        <5>1. /\ mirror[q.peer][z] \in Seq(Line) /\ local[q.peer][z] \in Seq(Line)
              /\ Len(mirror[q.peer][z]) \in Nat /\ Len(local[q.peer][z]) \in Nat
              /\ Len(mirror[q.peer][z]) <= Len(local[q.peer][z])
          BY <2>1, <4>1, MirrorInLocal, LogLengths DEF Longer
        <5>2. Len(mirror[q.peer][z]) # 0
          BY <4>1, <5>1, EmptyIsZero
        <5>3. Len(local[q.peer][z]) # 0
          BY <5>1, <5>2
        <5> QED
          BY <5>1, <5>3, EmptyIsZero
      <4>3. z <= today /\ today \in Nat
        BY <1>1, <2>1, <4>1, <4>2 DEF Today, TypeOK, LaptopTypeOK, Dates
      <4>4. d # today
        BY <3>2, <4>1, <4>3 DEF Dates
      <4> QED
        BY <1>1, <2>1, <4>4, AppendedLine
    <3> QED
      BY <3>1, <3>2 DEF ScanInOrder
  <2> QED
    BY <2>3, <2>4, <2>5, <2>6 DEF StreamCovers
<1> QED
  BY <1>5, <1>6, <1>7, <1>8

LEMMA NextDelivery ==
    SyncInv /\ SyncInv' /\ OrderInv /\ DeliveryInv /\ [Next]_vars => DeliveryInv'
<1> SUFFICES ASSUME SyncInv, SyncInv', OrderInv, DeliveryInv, [Next]_vars PROVE DeliveryInv'
  OBVIOUS
<1>1. ASSUME MirrorsGrow, \A m \in Machines : SameScan(pull[m], pull'[m]),
             UNCHANGED <<local, db, sync, cursor, undo, peerLog>>
      PROVE  DeliveryInv'
  <2> SUFFICES ASSUME NEW m \in Machines
               PROVE  StreamCovers(m, local, mirror', db[m], peerLog[m], pull'[m])
    BY <1>1 DEF DeliveryInv
  <2>1. /\ pull[m] \in Stream /\ local \in [Machines -> Logs] /\ mirror \in [Machines -> Logs]
        /\ mirror' \in [Machines -> Logs] /\ peerLog[m] \in [Machines -> Logs]
    BY Types DEF SyncInv, TypeOK, StoreTypeOK, LaptopTypeOK
  <2>2. CopiesGrow(mirror, mirror') /\ CopiesGrow(peerLog[m], peerLog[m])
    BY <1>1, <2>1, SameIsLonger DEF CopiesGrow, MirrorsGrow
  <2> QED
    BY <1>1, <2>1, <2>2, SameKeeps, StreamCoversMore DEF DeliveryInv
<1>2. UNCHANGED laptopVars => UNCHANGED <<local, db, sync, cursor, undo, peerLog>>
  BY DEF laptopVars, hostVars, syncVars
<1>3. ASSUME NEW m \in Machines, NEW s \in Slots, PushServerStep(m, s), UNCHANGED laptopVars
      PROVE  DeliveryInv'
  BY <1>1, <1>2, <1>3, PushServerMoves, SameStream DEF SyncInv
<1>4. CASE Restart /\ UNCHANGED laptopVars
  BY <1>1, <1>2, <1>4, RestartMoves, RestartScans DEF SyncInv
<1>5. ASSUME NEW m \in Machines, StreamStep(m), UNCHANGED <<storeVars, handlers, laptopVars>>
      PROVE  DeliveryInv'
  <2>1. UNCHANGED mirror /\ UNCHANGED <<local, db, sync, cursor, undo, peerLog>>
    BY <1>2, <1>5 DEF storeVars
  <2>2. StreamMoves(m) /\ \A p \in Machines \ {m} : pull'[p] = pull[p]
    BY <1>5, StreamStepMoves DEF SyncInv
  <2>3. StreamCovers(m, local, mirror, db[m], peerLog[m], pull'[m])
    BY <2>2, StreamMovesCover DEF DeliveryInv, OrderInv
  <2>4. ASSUME NEW p \in Machines
        PROVE  StreamCovers(p, local, mirror, db[p], peerLog[p], pull'[p])
    BY <2>2, <2>3 DEF DeliveryInv
  <2> QED
    BY <2>1, <2>4 DEF DeliveryInv
<1>6. ASSUME UNCHANGED <<mirror, pull, local, db, sync, cursor, undo, peerLog>>
      PROVE  DeliveryInv'
  BY <1>6 DEF DeliveryInv
<1>7. ASSUME NEW m \in Machines, Host(m) PROVE DeliveryInv'
  BY <1>7, HostDelivery
<1>8. CASE NewDay
  BY <1>6, <1>8 DEF NewDay, Midnight, storeVars, rpcVars, syncVars
<1>9. ASSUME NEW m \in Machines, ClientStep(m), UNCHANGED storeVars PROVE DeliveryInv'
  BY <1>9, ClientDelivery
<1>10. CASE UNCHANGED <<storeVars, rpcVars, laptopVars>>
  BY <1>2, <1>6, <1>10 DEF storeVars, rpcVars
<1> QED
  BY <1>3, <1>4, <1>5, <1>7, <1>8, <1>9, <1>10, StepCases

(***************************************************************************)
(* A laptop's cursor for a peer never passes a line that its database does *)
(* not hold or that is missing from its copy of the peer's log, in the     *)
(* transaction do_pull has open and in the state a crash rolls back to,    *)
(* whichever streams broke and whenever the process was killed, as long as *)
(* no invocation of the host runs past midnight.                           *)
(***************************************************************************)
THEOREM PulledApplied ==
    ASSUME ~LateWrites
    PROVE  Spec => []PulledIsApplied
<1>1. SyncInv /\ SyncInv' /\ OrderInv /\ [Next]_vars => OrderInv'
  BY NextOrder
<1>2. DeliveryInv => PulledIsApplied
  <2> SUFFICES ASSUME DeliveryInv, NEW m \in Machines, NEW p \in Machines \ {m}
               PROVE  /\ Delivered(m, p, cursor[m][p], db[m])
                      /\ Delivered(m, p, CommittedCursor(m)[p], CommittedDb(m))
    BY DEF PulledIsApplied
  <2>1. ASSUME NEW base, NEW c, AllCovers(m, local, base, peerLog[m], c)
        PROVE  Delivered(m, p, c[p], base)
    BY <2>1 DEF AllCovers, Covers, Got, Delivered, Synced
  <2>2. /\ AllCovers(m, local, db[m], peerLog[m], cursor[m])
        /\ AllCovers(m, local, undo[m].db, peerLog[m], undo[m].cursor)
    BY DEF DeliveryInv
  <2>3. AllCovers(m, local, CommittedDb(m), peerLog[m], CommittedCursor(m))
    BY <2>2 DEF CommittedDb, CommittedCursor
  <2> QED
    BY <2>1, <2>2, <2>3
<1> QED
  BY <1>1, <1>2, InitSync, NextSync, InitOrder, InitDelivery, NextDelivery, PTL DEF Spec

(***************************************************************************)
(* Cursors only advance.  What is under way from a peer is in order:       *)
(* cursor, chunk in hand, chunk in flight, batch being read, position of   *)
(* the scan.  The cursors of a request stay those of the table until the   *)
(* peer they are for is scanned.                                           *)
(***************************************************************************)
LEMMA NotBeforeSelf == \A c \in Position : NotBefore(c, c)
BY PositionFields DEF NotBefore

LEMMA NotBeforeTransitive ==
    ASSUME NEW a \in Position, NEW b \in Position, NEW c \in Position,
           NotBefore(a, b), NotBefore(b, c)
    PROVE  NotBefore(a, c)
BY PositionFields DEF NotBefore

LEMMA NoPositionFirst == \A c \in Position : NotBefore(NoPosition, c)
BY PositionFields DEF NotBefore, NoPosition

AllAfter(c, s) == \A j \in 1..Len(s) : NotBefore(c, At(s[j]))

InOrder(s) == \A j, k \in 1..Len(s) : j < k => NotBefore(At(s[j]), At(s[k]))

ScanOrdered(q) ==
    /\ InOrder(q.chunk) /\ InOrder(q.batch)
    /\ \A j \in 1..Len(q.batch) : NotBefore(At(q.batch[j]), q.pos)
    /\ \A x \in q.dates : q.pos.date <= x
    /\ q.from = q.peer => \A k \in 1..Len(q.chunk) :
          AllAfter(At(q.chunk[k]), q.batch) /\ NotBefore(At(q.chunk[k]), q.pos)

AheadOf(m, c, q) ==
    /\ AllAfter(c[q.from], q.chunk)
    /\ q.peer # m => NotBefore(c[q.peer], q.pos) /\ AllAfter(c[q.peer], q.batch)
    /\ q.pc = "sent" => q = Request(m, c, "sent")
    /\ \A p \in q.peers : q.since[p] = c[p] /\ p # q.peer /\ p # q.from

InHand(c, v, q) ==
    v.pc = "chunk" =>
        /\ NotBefore(c[v.peer], v.pos)
        /\ v.peer = q.from => AllAfter(v.pos, q.chunk)
        /\ v.peer = q.peer => AllAfter(v.pos, q.batch) /\ NotBefore(v.pos, q.pos)
        /\ q.pc # "sent" /\ v.peer \notin q.peers

CursorsInv ==
    \A m \in Machines :
        /\ \A p \in Machines : NotBefore(undo[m].cursor[p], cursor[m][p])
        /\ sync[m].pc \in {"push", "wait"} => NotBefore(cursor[m][m], sync[m].pos)
        /\ ScanOrdered(pull[m])
        /\ AheadOf(m, cursor[m], pull[m])
        /\ InHand(cursor[m], sync[m], pull[m])

LEMMA RequestOrdered ==
    ASSUME NEW m, NEW c, NEW pc
    PROVE  /\ ScanOrdered(Request(m, c, pc))
           /\ pc = "sent" => AheadOf(m, c, Request(m, c, pc))
           /\ \A x : pc # "sent" => AheadOf(m, x, Request(m, c, pc))
<1> DEFINE q == Request(m, c, pc)
<1>1. /\ Len(q.chunk) = 0 /\ Len(q.batch) = 0 /\ q.dates = {} /\ q.peer = m /\ q.peers = {}
      /\ q.pc = pc
  BY EmptySeq DEF Request
<1>2. pc = "sent" => q = Request(m, c, "sent")
  OBVIOUS
<1> HIDE DEF q
<1>3. ScanOrdered(q)
  BY <1>1 DEF ScanOrdered, InOrder
<1>4. pc = "sent" => AheadOf(m, c, q)
  BY <1>1, <1>2 DEF AheadOf, AllAfter
<1>5. \A x : pc # "sent" => AheadOf(m, x, q)
  BY <1>1 DEF AheadOf, AllAfter
<1> QED
  BY <1>3, <1>4, <1>5 DEF q

LEMMA InitCursors == Init => CursorsInv
<1> SUFFICES ASSUME Init, NEW m \in Machines
             PROVE  /\ \A p \in Machines : NotBefore(undo[m].cursor[p], cursor[m][p])
                    /\ sync[m].pc \in {"push", "wait"} => NotBefore(cursor[m][m], sync[m].pos)
                    /\ ScanOrdered(pull[m]) /\ AheadOf(m, cursor[m], pull[m])
                    /\ InHand(cursor[m], sync[m], pull[m])
  BY DEF CursorsInv
<1>1. /\ pull[m] = NoStream(m) /\ sync[m].pc = "idle"
      /\ cursor[m] = NoCursors /\ undo[m].cursor = NoCursors
  BY DEF Init, RpcInit, LaptopInit, IdleSync, Closed
<1>2. \A p \in Machines : NotBefore(NoCursors[p], NoCursors[p])
  BY NotBeforeSelf, NoPositionType DEF NoCursors
<1> QED
  BY <1>1, <1>2, RequestOrdered DEF NoStream, InHand

LEMMA StreamMovesOrdered ==
    ASSUME TypeOK, NEW m \in Machines, StreamMoves(m), FromOthers(m, pull[m], sync[m]),
           CursorsInv
    PROVE  /\ ScanOrdered(pull'[m]) /\ AheadOf(m, cursor[m], pull'[m])
           /\ InHand(cursor[m], sync[m], pull'[m])
<1> DEFINE q == pull[m]
           r == pull'[m]
           c == cursor[m]
           v == sync[m]
<1>1. /\ q \in Stream /\ c \in [Machines -> Position] /\ v \in Process
      /\ FromOthers(m, q, v) /\ ScanOrdered(q) /\ AheadOf(m, c, q) /\ InHand(c, v, q)
  BY Types DEF CursorsInv
<1>2. /\ q.batch \in Seq(Entry) /\ Len(q.batch) \in Nat /\ Len(q.chunk) \in Nat
      /\ q.pos \in Position /\ q.dates \in SUBSET Dates
      /\ q.peer \in Machines /\ q.from \in Machines /\ q.peers \in SUBSET Machines
      /\ v.peer \in Machines /\ v.pos \in Position
      /\ Len(<<>>) = 0
  BY <1>1, StreamFields, EmptySeq DEF Process
<1>3. /\ \A j \in 1..Len(q.batch) : At(q.batch[j]) \in Position
      /\ \A j \in 1..Len(q.chunk) : At(q.chunk[j]) \in Position
  BY <1>1, StreamFields, AtType
<1> SUFFICES ScanOrdered(r) /\ AheadOf(m, c, r) /\ InHand(c, v, r)
  OBVIOUS
<1> HIDE DEF q, r, c, v
<1>4. CASE Begins(m, q, r)
  <2>1. /\ r.since = q.since /\ r.chunk = q.chunk /\ r.from = q.from /\ q.pc = "sent"
        /\ r.pc = "open" /\ r.peer = q.peer /\ r.dates = q.dates /\ r.pos = q.pos
        /\ r.batch = q.batch /\ r.peers \subseteq Machines \ {m}
    BY <1>4 DEF Begins, KeepsChunk
  <2>2. q = Request(m, c, "sent")
    BY <1>1, <2>1 DEF AheadOf
  <2>3. q.since = c /\ q.peer = m /\ q.from = m
    BY <2>2 DEF Request
  <2>4. v.pc # "chunk"
    BY <1>1, <2>1 DEF InHand
  <2> QED
    BY <1>1, <2>1, <2>3, <2>4 DEF ScanOrdered, AheadOf, InHand
<1>5. CASE SameScan(q, r) /\ q.pc = "open" /\ r.pc = "done"
  BY <1>1, <1>5 DEF SameScan, ScanOrdered, AheadOf, InHand
<1>6. ASSUME NEW p \in Machines, Scans(q, r, p)
      PROVE  ScanOrdered(r) /\ AheadOf(m, c, r) /\ InHand(c, v, r)
  <2>1. /\ r.since = q.since /\ r.chunk = q.chunk /\ r.from = q.from /\ r.peer = p
        /\ p \in q.peers /\ r.peers = q.peers \ {p} /\ r.pc = "open"
        /\ r.pos = q.since[p] /\ r.batch = <<>> /\ p # m
        /\ r.dates = {d \in Dates : mirror[p][d] # <<>> /\ d >= q.since[p].date}
    BY <1>1, <1>6 DEF Scans, KeepsChunk, FromOthers
  <2>2. r.pos = c[p] /\ p # q.from /\ c[p] \in Position /\ NotBefore(c[p], c[p])
    BY <1>1, <2>1, NotBeforeSelf DEF AheadOf
  <2>3. ScanOrdered(r)
    <3>1. ASSUME NEW x \in r.dates PROVE r.pos.date <= x
      BY <2>1, <2>2, PositionFields DEF Dates
    <3> QED
      BY <1>1, <1>2, <2>1, <2>2, <3>1 DEF ScanOrdered, InOrder
  <2>4. AheadOf(m, c, r)
    BY <1>1, <1>2, <2>1, <2>2 DEF AheadOf, AllAfter
  <2>5. InHand(c, v, r)
    BY <1>1, <1>2, <2>1, <2>2 DEF InHand
  <2> QED
    BY <2>3, <2>4, <2>5
<1>7. ASSUME NEW e \in Entry, Reads(q, r, e)
      PROVE  ScanOrdered(r) /\ AheadOf(m, c, r) /\ InHand(c, v, r)
  <2>1. /\ r.since = q.since /\ r.chunk = q.chunk /\ r.from = q.from /\ r.peer = q.peer
        /\ r.pos = At(e) /\ r.batch = Append(q.batch, e) /\ r.dates = q.dates
        /\ r.peers = q.peers /\ r.pc = "open" /\ q.pc = "open"
        /\ e.date \in q.dates /\ \A x \in q.dates : e.date <= x
        /\ e.off = NextOffset(q, e.date)
    BY <1>7 DEF Reads, KeepsChunk, KeepsPeer
  <2>2. /\ Len(r.batch) = Len(q.batch) + 1
        /\ \A j \in 1..Len(q.batch) : r.batch[j] = q.batch[j]
        /\ r.batch[Len(q.batch) + 1] = e
    BY <1>2, <2>1, AppendEach
  <2>3. At(e) \in Position /\ NotBefore(At(e), At(e))
    BY AtType, NotBeforeSelf
  <2>4. NotBefore(q.pos, At(e))
    <3>1. q.pos.date <= e.date
      BY <1>1, <2>1 DEF ScanOrdered
    <3>2. /\ q.pos.date \in Int /\ q.pos.off \in Int /\ e.date \in Int /\ e.off \in Int
          /\ At(e).date = e.date /\ At(e).off = e.off
      BY <1>2, PositionFields DEF Entry, Dates, At
    <3>3. q.pos.date = e.date => e.off = q.pos.off + 1
      BY <2>1 DEF NextOffset
    <3> QED
      BY <3>1, <3>2, <3>3 DEF NotBefore
  <2>5. ASSUME NEW x \in Position, NotBefore(x, q.pos) PROVE NotBefore(x, At(e))
    BY <1>2, <2>3, <2>4, <2>5, NotBeforeTransitive
  <2>6. ASSUME NEW x \in Position, NotBefore(x, q.pos), AllAfter(x, q.batch)
        PROVE  AllAfter(x, r.batch)
    <3> SUFFICES ASSUME NEW j \in 1..Len(r.batch) PROVE NotBefore(x, At(r.batch[j]))
      BY DEF AllAfter
    <3>1. CASE j = Len(q.batch) + 1
      BY <2>2, <2>5, <2>6, <3>1
    <3>2. CASE j # Len(q.batch) + 1
      <4>1. j \in 1..Len(q.batch)
        BY <1>2, <2>2, <3>2
      <4> QED
        BY <2>2, <2>6, <4>1 DEF AllAfter
    <3> QED
      BY <3>1, <3>2
  <2>7. \A j \in 1..Len(r.batch) : NotBefore(At(r.batch[j]), At(e))
    <3> SUFFICES ASSUME NEW j \in 1..Len(r.batch) PROVE NotBefore(At(r.batch[j]), At(e))
      OBVIOUS
    <3>1. CASE j = Len(q.batch) + 1
      BY <2>2, <2>3, <3>1
    <3>2. CASE j # Len(q.batch) + 1
      <4>1. j \in 1..Len(q.batch)
        BY <1>2, <2>2, <3>2
      <4> QED
        BY <1>1, <1>3, <2>2, <2>5, <4>1 DEF ScanOrdered
    <3> QED
      BY <3>1, <3>2
  <2>8. InOrder(r.batch)
    <3> SUFFICES ASSUME NEW j \in 1..Len(r.batch), NEW k \in 1..Len(r.batch), j < k
                 PROVE  NotBefore(At(r.batch[j]), At(r.batch[k]))
      BY DEF InOrder
    <3>1. CASE k = Len(q.batch) + 1
      BY <2>2, <2>7, <3>1
    <3>2. CASE k # Len(q.batch) + 1
      <4>1. j \in 1..Len(q.batch) /\ k \in 1..Len(q.batch)
        BY <1>2, <2>2, <3>2
      <4> QED
        BY <1>1, <2>2, <4>1 DEF ScanOrdered, InOrder
    <3> QED
      BY <3>1, <3>2
  <2>9. ScanOrdered(r)
    <3>1. q.from = q.peer => \A k \in 1..Len(q.chunk) :
             AllAfter(At(q.chunk[k]), r.batch) /\ NotBefore(At(q.chunk[k]), At(e))
      BY <1>1, <1>3, <2>5, <2>6 DEF ScanOrdered
    <3>2. At(e).date = e.date
      BY DEF At
    <3> QED
      BY <1>1, <2>1, <2>7, <2>8, <3>1, <3>2 DEF ScanOrdered
  <2>10. AheadOf(m, c, r)
    <3>1. q.peer # m /\ c[q.peer] \in Position
      BY <1>1, <1>2, <2>1 DEF FromOthers
    <3>2. NotBefore(c[q.peer], At(e)) /\ AllAfter(c[q.peer], r.batch)
      BY <1>1, <2>5, <2>6, <3>1 DEF AheadOf
    <3> QED
      BY <1>1, <2>1, <3>2 DEF AheadOf
  <2>11. InHand(c, v, r)
    BY <1>1, <1>2, <2>1, <2>5, <2>6 DEF InHand
  <2> QED
    BY <2>9, <2>10, <2>11
<1>8. ASSUME NEW d \in Dates, Finishes(q, r, d)
      PROVE  ScanOrdered(r) /\ AheadOf(m, c, r) /\ InHand(c, v, r)
  <2>1. /\ r.since = q.since /\ r.chunk = q.chunk /\ r.from = q.from /\ r.peer = q.peer
        /\ r.pos = q.pos /\ r.batch = q.batch /\ r.dates \subseteq q.dates
        /\ r.peers = q.peers /\ r.pc = "open" /\ q.pc = "open"
    BY <1>8 DEF Finishes, KeepsChunk, KeepsPeer
  <2> QED
    BY <1>1, <2>1 DEF ScanOrdered, AheadOf, InHand
<1>9. CASE Sends(q, r)
  <2>1. /\ r.since = q.since /\ r.dates = q.dates /\ r.pos = q.pos /\ r.peer = q.peer
        /\ r.chunk = q.batch /\ r.from = q.peer /\ r.batch = <<>> /\ q.peer # m
        /\ r.peers = q.peers /\ r.pc = "open" /\ q.pc = "open"
    BY <1>1, <1>9 DEF Sends, KeepsPeer, FromOthers
  <2>2. ScanOrdered(r)
    BY <1>1, <1>2, <2>1 DEF ScanOrdered, InOrder, AllAfter
  <2>3. AheadOf(m, c, r)
    BY <1>1, <1>2, <2>1 DEF AheadOf, AllAfter
  <2>4. InHand(c, v, r)
    BY <1>1, <1>2, <2>1 DEF InHand, AllAfter
  <2> QED
    BY <2>2, <2>3, <2>4
<1> QED
  BY <1>4, <1>5, <1>6, <1>7, <1>8, <1>9 DEF StreamMoves, q, r

LEMMA ApplyLineOrdered ==
    ASSUME TypeOK, CursorsInv, NEW m \in Machines, Applies(m)
    PROVE  LET q == pull[m]
               r == pull'[m]
               e == Head(q.chunk)
           IN  /\ ScanOrdered(r) /\ AheadOf(m, cursor[m], r)
               /\ Len(q.chunk) = 1 =>
                     /\ NotBefore(cursor[m][q.from], At(e)) /\ Len(r.chunk) = 0
                     /\ q.from = r.peer => AllAfter(At(e), r.batch) /\ NotBefore(At(e), r.pos)
                     /\ r.pc # "sent" /\ q.from \notin r.peers
<1> DEFINE q == pull[m]
           r == pull'[m]
           c == cursor[m]
           s == q.chunk
<1>1. /\ q \in Stream /\ ScanOrdered(q) /\ AheadOf(m, c, q)
      /\ s \in Seq(Entry) /\ s # <<>>
  BY Types, StreamFields DEF CursorsInv, Applies
<1>2. /\ r.chunk = Tail(s) /\ r.since = q.since /\ r.from = q.from /\ r.peer = q.peer
      /\ r.dates = q.dates /\ r.pos = q.pos /\ r.batch = q.batch /\ r.peers = q.peers
      /\ r.pc = q.pc
  BY DEF Applies, KeepsPeer
<1>3. r.pc # "sent"
  <2> SUFFICES ASSUME q.pc = "sent" PROVE FALSE
    BY <1>2
  <2>1. q = Request(m, c, "sent")
    BY <1>1 DEF AheadOf
  <2> QED
    BY <1>1, <2>1 DEF Request
<1> HIDE DEF s
<1>4. /\ Len(Tail(s)) = Len(s) - 1 /\ Len(s) \in Nat /\ Len(s) >= 1 /\ Head(s) = s[1]
      /\ \A j \in 1..Len(Tail(s)) : Tail(s)[j] = s[j + 1]
  BY <1>1, PlacedTail
<1> DEFINE t == Tail(s)
<1> HIDE DEF t, q, r, c
<1>5. \A j \in 1..Len(t) : j + 1 \in 1..Len(s) /\ t[j] = s[j + 1]
  BY <1>4 DEF t
<1>6. InOrder(t)
  <2> SUFFICES ASSUME NEW j \in 1..Len(t), NEW k \in 1..Len(t), j < k
               PROVE  NotBefore(At(t[j]), At(t[k]))
    BY DEF InOrder
  <2>1. j + 1 \in 1..Len(s) /\ k + 1 \in 1..Len(s) /\ j + 1 < k + 1
    BY <1>4, <1>5 DEF t
  <2> QED
    BY <1>1, <1>5, <2>1 DEF ScanOrdered, InOrder, s
<1>7. ScanOrdered(r)
  <2>1. q.from = q.peer => \A k \in 1..Len(t) :
           AllAfter(At(t[k]), q.batch) /\ NotBefore(At(t[k]), q.pos)
    BY <1>1, <1>5 DEF ScanOrdered, s
  <2> QED
    BY <1>1, <1>2, <1>6, <2>1 DEF ScanOrdered, t
<1>8. AheadOf(m, c, r)
  <2>1. AllAfter(c[q.from], t)
    BY <1>1, <1>5 DEF AheadOf, AllAfter, s
  <2> QED
    BY <1>1, <1>2, <1>3, <2>1 DEF AheadOf, t
<1>9. 1 \in 1..Len(s)
  BY <1>4
<1>10. /\ NotBefore(c[q.from], At(Head(s)))
       /\ q.from = q.peer => AllAfter(At(Head(s)), q.batch) /\ NotBefore(At(Head(s)), q.pos)
       /\ q.from \notin q.peers
  BY <1>1, <1>4, <1>9 DEF AheadOf, AllAfter, ScanOrdered, s
<1>11. Len(s) = 1 => Len(t) = 0
  BY <1>4 DEF t
<1> QED
  BY <1>2, <1>3, <1>7, <1>8, <1>10, <1>11 DEF q, r, c, s, t

LEMMA ClientCursorsInv ==
    ASSUME TypeOK, TypeOK', PeersInv, CursorsInv, NEW m \in Machines, ClientStep(m)
    PROVE  CursorsInv'
<1> DEFINE c == cursor[m]
           x == cursor'[m]
           v == sync[m]
           w == sync'[m]
           r == pull'[m]
<1>1. /\ OthersKeep(m) /\ c \in [Machines -> Position] /\ v \in Process
      /\ undo[m].cursor \in [Machines -> Position] /\ x \in [Machines -> Position]
      /\ v.peer \in Machines /\ v.pos \in Position /\ pull[m] \in Stream
  BY ClientOthers, Types DEF Process, TypeOK, LaptopTypeOK, Cursors
<1>2. /\ \A p \in Machines : NotBefore(undo[m].cursor[p], c[p])
      /\ v.pc \in {"push", "wait"} => NotBefore(c[m], v.pos)
      /\ ScanOrdered(pull[m]) /\ AheadOf(m, c, pull[m]) /\ InHand(c, v, pull[m])
  BY DEF CursorsInv
<1> SUFFICES /\ \A p \in Machines : NotBefore(undo'[m].cursor[p], x[p])
             /\ w.pc \in {"push", "wait"} => NotBefore(x[m], w.pos)
             /\ ScanOrdered(r) /\ AheadOf(m, x, r) /\ InHand(x, w, r)
  BY <1>1 DEF CursorsInv, OthersKeep
<1>3. \A p \in Machines : NotBefore(c[p], c[p])
  BY <1>1, NotBeforeSelf
<1>4. \A p \in Machines : NotBefore(NoCursors[p], x[p])
  BY <1>1, NoPositionFirst DEF NoCursors
<1>5. ASSUME \A p \in Machines : NotBefore(c[p], x[p])
      PROVE  \A p \in Machines : NotBefore(undo'[m].cursor[p], x[p])
  <2>1. \A p \in Machines : NotBefore(undo[m].cursor[p], x[p])
    BY <1>1, <1>2, <1>5, NotBeforeTransitive
  <2>2. undo'[m].cursor \in {undo[m].cursor, c, NoCursors}
    BY ClientCursors
  <2> QED
    BY <1>4, <1>5, <2>1, <2>2
<1>6. ASSUME r = NoStream(m) PROVE ScanOrdered(r) /\ AheadOf(m, x, r)
  BY <1>6, RequestOrdered DEF NoStream
<1> HIDE DEF c, x, v, w, r
<1>7. CASE SyncKilled(m)
  <2>1. r = NoStream(m) /\ w.pc = "idle" /\ undo'[m].cursor = NoCursors
    <3>1. undo'[m] = Closed
      BY <1>7, UndoSteps DEF SyncKilled
    <3>2. pull'[m] = NoStream(m) /\ sync'[m] = IdleSync(m)
      BY <1>7, Types DEF SyncKilled
    <3> QED
      BY <3>1, <3>2 DEF IdleSync, Closed, r, w
  <2> QED
    BY <1>4, <1>6, <2>1 DEF InHand
<1>8. CASE PushDone(m)
  <2>1. /\ r = Request(m, x, "sent") /\ w.pc = "pull" /\ v.pc = "push"
        /\ x = [c EXCEPT ![m] = v.pos]
    BY <1>8, Types DEF PushDone, IdleSync, r, w, x, c, v
  <2>2. \A p \in Machines : NotBefore(c[p], x[p])
    BY <1>1, <1>2, <1>3, <2>1
  <2>3. InHand(x, w, r)
    BY <2>1 DEF InHand
  <2> QED
    BY <1>5, <2>1, <2>2, <2>3, RequestOrdered
<1>9. CASE SetPeerCursor(m)
  <2>1. /\ r = pull[m] /\ w.pc = "pull" /\ v.pc = "chunk" /\ v.peer # m
        /\ x = [c EXCEPT ![v.peer] = v.pos]
    BY <1>9, Types DEF SetPeerCursor, IdleSync, rpcVars, PeersInv, FromOthers, r, w, x, c, v
  <2>2. \A p \in Machines : NotBefore(c[p], x[p])
    BY <1>1, <1>2, <1>3, <2>1 DEF InHand
  <2>3. AheadOf(m, x, r)
    <3>1. r.from \in Machines /\ r.peer \in Machines /\ r.peers \in SUBSET Machines
      BY <1>1, <2>1, StreamFields
    <3> QED
      BY <1>1, <1>2, <2>1, <3>1 DEF AheadOf, InHand
  <2>4. InHand(x, w, r)
    BY <2>1 DEF InHand
  <2> QED
    BY <1>2, <1>5, <2>1, <2>2, <2>3, <2>4
<1>10. CASE ~SyncKilled(m) /\ ~PushDone(m) /\ ~SetPeerCursor(m)
  <2>1. x = c
    <3>1. \A p \in Machines : x[p] = c[p]
      BY <1>10, ClientCursors DEF CursorSteps, x, c
    <3> QED
      BY <1>1, <3>1
  <2>2. \A p \in Machines : NotBefore(undo'[m].cursor[p], x[p])
    BY <1>3, <1>5, <2>1
  <2>3. w.pc \in {"push", "wait"} => NotBefore(x[m], w.pos)
    <3>1. CASE PushBatch(m)
      <4>1. PICK s \in Slots : \E last \in Unread(m), batch \in SUBSET Entry :
                NewCall(m, s, last, batch) /\ last \in batch
        BY <3>1, PushBatchCalls
      <4>2. PICK last \in Unread(m), batch \in SUBSET Entry : NewCall(m, s, last, batch)
        BY <4>1
      <4>3. v.pc = "push" /\ w.pos = At(last)
        BY <4>2 DEF NewCall, v, w
      <4>4. last \in Entry /\ ~Passed(v.pos, last.date, last.off)
        BY UnreadIs DEF v
      <4>5. At(last) \in Position /\ NotBefore(v.pos, At(last))
        <5>1. /\ v.pos.date \in Int /\ v.pos.off \in Int /\ last.date \in Int /\ last.off \in Int
              /\ At(last).date = last.date /\ At(last).off = last.off
          BY <1>1, <4>4, PositionFields DEF Entry, Dates, At
        <5> QED
          BY <4>4, <5>1, AtType DEF Passed, NotBefore
      <4> QED
        BY <1>1, <1>2, <2>1, <4>3, <4>5, NotBeforeTransitive
    <3>2. CASE Starts(m)
      BY <1>3, <2>1, <3>2 DEF Starts, w, c
    <3>3. CASE Resumes(m)
      BY <1>2, <2>1, <3>3 DEF Resumes, w, v
    <3> QED
      BY <3>1, <3>2, <3>3, ClientMoves DEF SyncMoves, EndsChunk, w
  <2>4. w.pc = "chunk" => EndsChunk(m)
    BY ClientMoves, PushBatchCalls DEF SyncMoves, Starts, Resumes, NewCall, w
  <2>5. CASE r = pull[m]
    <3>1. ~EndsChunk(m)
      <4> SUFFICES ASSUME ApplyLine(m) PROVE FALSE
        BY DEF EndsChunk
      <4> DEFINE s == pull[m].chunk
      <4>1. s \in Seq(Entry) /\ s # <<>> /\ r.chunk = Tail(s)
        BY <1>1, StreamFields, ApplyLineApplies DEF Applies, r
      <4>2. r.chunk = s
        BY <2>5
      <4> HIDE DEF s
      <4>3. Len(Tail(s)) = Len(s) - 1 /\ Len(s) \in Nat
        BY <4>1, PlacedTail
      <4> QED
        BY <4>1, <4>2, <4>3
    <3> QED
      BY <1>2, <2>1, <2>2, <2>3, <2>4, <2>5, <3>1 DEF InHand
  <2>6. CASE r = NoStream(m) /\ ~Applies(m)
    <3>1. ~EndsChunk(m)
      BY <1>1, <1>10, <2>6, ApplyLineApplies DEF EndsChunk
    <3> QED
      BY <1>6, <2>2, <2>3, <2>4, <2>6, <3>1 DEF InHand
  <2>7. CASE Applies(m)
    <3>1. ScanOrdered(r) /\ AheadOf(m, x, r)
      BY <2>1, <2>7, ApplyLineOrdered DEF r, c
    <3>2. CASE EndsChunk(m)
      <4>1. /\ w.pos = At(Head(pull[m].chunk)) /\ w.peer = pull[m].from
            /\ Len(pull[m].chunk) = 1 /\ r.from = pull[m].from
        BY <2>7, <3>2 DEF EndsChunk, Applies, w, r
      <4>2. /\ NotBefore(c[w.peer], w.pos) /\ Len(r.chunk) = 0
            /\ w.peer = r.peer => AllAfter(w.pos, r.batch) /\ NotBefore(w.pos, r.pos)
            /\ r.pc # "sent" /\ w.peer \notin r.peers
        BY <2>7, <4>1, ApplyLineOrdered DEF r, c
      <4>3. AllAfter(w.pos, r.chunk)
        BY <4>2 DEF AllAfter
      <4>4. InHand(x, w, r)
        BY <2>1, <4>2, <4>3 DEF InHand
      <4> QED
        BY <2>2, <2>3, <3>1, <4>4
    <3>3. CASE ~EndsChunk(m)
      BY <2>2, <2>3, <2>4, <3>1, <3>3 DEF InHand
    <3> QED
      BY <3>2, <3>3
  <2> QED
    BY <1>10, <2>5, <2>6, <2>7, ClientMoves DEF PullMoves, r
<1> QED
  BY <1>7, <1>8, <1>9, <1>10

LEMMA RestartOrdered ==
    ASSUME TypeOK, Restart, UNCHANGED <<sync, cursor>>, CursorsInv, NEW m \in Machines
    PROVE  /\ ScanOrdered(pull'[m]) /\ AheadOf(m, cursor[m], pull'[m])
           /\ InHand(cursor[m], sync[m], pull'[m])
<1> DEFINE q == pull[m]
           r == pull'[m]
<1>1. /\ SameScan(q, r) /\ ScanOrdered(q) /\ AheadOf(m, cursor[m], q)
      /\ InHand(cursor[m], sync[m], q)
  BY RestartScans DEF CursorsInv
<1>2. r = q \/ r.pc = "broken"
  BY Types DEF Restart, Stream
<1> HIDE DEF q, r
<1>3. CASE r = q
  BY <1>1, <1>3 DEF q, r
<1>4. CASE r.pc = "broken"
  <2>1. ScanOrdered(r) /\ AheadOf(m, cursor[m], r) /\ InHand(cursor[m], sync[m], r)
    BY <1>1, <1>4 DEF SameScan, ScanOrdered, AheadOf, InHand
  <2> QED
    BY <2>1 DEF r
<1> QED
  BY <1>2, <1>3, <1>4

LEMMA NextCursors == TypeOK /\ TypeOK' /\ PeersInv /\ CursorsInv /\ [Next]_vars => CursorsInv'
<1> SUFFICES ASSUME TypeOK, TypeOK', PeersInv, CursorsInv, [Next]_vars PROVE CursorsInv'
  OBVIOUS
<1>1. ASSUME UNCHANGED <<pull, sync, cursor, undo>> PROVE CursorsInv'
  BY <1>1 DEF CursorsInv
<1>2. UNCHANGED laptopVars => UNCHANGED <<sync, cursor, undo>>
  BY DEF laptopVars, syncVars
<1>3. ASSUME NEW m \in Machines, NEW s \in Slots, PushServerStep(m, s), UNCHANGED laptopVars
      PROVE  CursorsInv'
  BY <1>1, <1>2, <1>3, PushServerMoves
<1>4. CASE Restart /\ UNCHANGED laptopVars
  BY <1>2, <1>4, RestartOrdered DEF CursorsInv
<1>5. ASSUME NEW m \in Machines, StreamStep(m), UNCHANGED laptopVars PROVE CursorsInv'
  <2>1. StreamMoves(m) /\ \A p \in Machines \ {m} : pull'[p] = pull[p]
    BY <1>5, StreamStepMoves
  <2>2. /\ ScanOrdered(pull'[m]) /\ AheadOf(m, cursor[m], pull'[m])
        /\ InHand(cursor[m], sync[m], pull'[m])
    BY <2>1, StreamMovesOrdered DEF PeersInv
  <2> QED
    BY <1>2, <1>5, <2>1, <2>2 DEF CursorsInv
<1>6. ASSUME NEW m \in Machines, Host(m) PROVE CursorsInv'
  BY <1>1, <1>6
  DEF Host, HostNext, HostRuns, HostBegins, AppendAction, HostStores, AppendResult,
      syncVars, rpcVars
<1>7. CASE NewDay
  BY <1>1, <1>7 DEF NewDay, Midnight, rpcVars, syncVars
<1>8. ASSUME NEW m \in Machines, ClientStep(m) PROVE CursorsInv'
  BY <1>8, ClientCursorsInv
<1> QED
  BY <1>1, <1>2, <1>3, <1>4, <1>5, <1>6, <1>7, <1>8, StepCases DEF rpcVars

(***************************************************************************)
(* The cursors a crash would leave behind.                                 *)
(***************************************************************************)
LEMMA CommittedIs ==
    ASSUME TypeOK, NEW m \in Machines, NEW p \in Machines
    PROVE  CommittedCursor(m)[p] \in {undo[m].cursor[p], cursor[m][p]} /\ CommittedCursor(m)[p] \in Position
BY Types DEF CommittedCursor

LEMMA CommittedStep ==
    ASSUME TypeOK, TypeOK', CursorsInv, NEW m \in Machines, ClientStep(m), NEW p \in Machines
    PROVE  NotBefore(CommittedCursor(m)[p], CommittedCursor(m)'[p])
<1> DEFINE c == cursor[m][p]
           x == cursor'[m][p]
           u == undo[m].cursor[p]
<1>1. /\ c \in Position /\ x \in Position /\ u \in Position
      /\ NotBefore(c, c) /\ NotBefore(u, u)
  BY Types, NotBeforeSelf DEF TypeOK, LaptopTypeOK, Cursors
<1>2. NotBefore(u, c)
  BY DEF CursorsInv
<1>3. CASE SyncKilled(m)
  <2>1. undo'[m] = Closed /\ cursor'[m] = IF undo[m].open THEN undo[m].cursor ELSE cursor[m]
    BY <1>3, UndoSteps DEF SyncKilled
  <2>2. ~undo'[m].open
    BY <2>1 DEF Closed
  <2> QED
    BY <1>1, <2>1, <2>2 DEF CommittedCursor
<1>4. CASE ~SyncKilled(m)
  <2>1. NotBefore(c, x)
    <3>1. CASE PushDone(m) /\ p = m /\ x = sync[m].pos
      BY <3>1 DEF PushDone, CursorsInv
    <3>2. CASE SetPeerCursor(m) /\ p = sync[m].peer /\ x = sync[m].pos
      BY <3>2 DEF SetPeerCursor, CursorsInv, InHand
    <3> QED
      BY <1>1, <1>4, <3>1, <3>2, ClientCursors DEF CursorSteps
  <2>2. NotBefore(u, x)
    BY <1>1, <1>2, <2>1, NotBeforeTransitive
  <2>3. CASE undo'[m] = undo[m]
    BY <1>1, <2>1, <2>3 DEF CommittedCursor
  <2>4. CASE undo'[m] = Closed
    <3>1. ~undo'[m].open
      BY <2>4 DEF Closed
    <3> QED
      BY <2>1, <2>2, <3>1 DEF CommittedCursor
  <2>5. CASE ~undo[m].open /\ undo'[m] = [open |-> TRUE, db |-> db[m], cursor |-> cursor[m]]
    <3>1. undo'[m].open /\ undo'[m].cursor = cursor[m]
      BY <2>5
    <3> QED
      BY <1>1, <2>5, <3>1 DEF CommittedCursor
  <2>6. UNCHANGED undo \/ OpenTransaction(m) \/ Commit(m)
    BY <1>4
    DEF ClientStep, SyncNext, PullBroken, SyncStarts, PushBatch, PushOk, PushError,
        PushTimeout, PushDone, ApplyLine, SetPeerCursor, PullDone, PullEndsEarly
  <2> QED
    BY <2>3, <2>4, <2>5, <2>6, UndoSteps
<1> QED
  BY <1>3, <1>4

LEMMA CommittedOthers ==
    ASSUME TypeOK, NEW m \in Machines, ClientStep(m), NEW p \in Machines \ {m}
    PROVE  CommittedCursor(p)' = CommittedCursor(p)
BY ClientOthers DEF OthersKeep, CommittedCursor

LEMMA CommittedSame ==
    ASSUME UNCHANGED <<cursor, undo>>, NEW m
    PROVE  CommittedCursor(m)' = CommittedCursor(m)
BY DEF CommittedCursor

LEMMA NotTheClient ==
    ASSUME TypeOK, [Next]_vars, ~\E m \in Machines : ClientStep(m) /\ UNCHANGED storeVars
    PROVE  UNCHANGED <<cursor, undo>>
<1>1. ASSUME NEW m \in Machines, Host(m) PROVE UNCHANGED <<cursor, undo>>
  BY <1>1
  DEF Host, HostNext, HostRuns, HostBegins, AppendAction, HostStores, AppendResult, syncVars
<1>2. CASE NewDay
  BY <1>2 DEF NewDay, Midnight, syncVars
<1> QED
  BY <1>1, <1>2, StepCases DEF laptopVars, syncVars

(***************************************************************************)
(* No step of do_push or do_pull, no commit, no rollback and no crash      *)
(* moves a cursor of the sync_state table backwards: neither a stream that *)
(* breaks between two chunks nor one begun with older cursors re-opens     *)
(* what was already taken over.                                            *)
(***************************************************************************)
THEOREM CursorsOnlyAdvance == Spec => CursorsAdvance
<1>1. TypeOK /\ TypeOK' /\ CursorsInv /\ [Next]_vars =>
         [\A m, p \in Machines :
             NotBefore(CommittedCursor(m)[p], CommittedCursor(m)'[p])]_vars
  <2> SUFFICES ASSUME TypeOK, TypeOK', CursorsInv, [Next]_vars,
                      NEW m \in Machines, NEW p \in Machines
               PROVE  NotBefore(CommittedCursor(m)[p], CommittedCursor(m)'[p])
    OBVIOUS
  <2>1. NotBefore(CommittedCursor(m)[p], CommittedCursor(m)[p])
    BY CommittedIs, NotBeforeSelf
  <2>2. CASE \E x \in Machines : ClientStep(x) /\ UNCHANGED storeVars
    BY <2>1, <2>2, CommittedStep, CommittedOthers
  <2>3. CASE ~\E x \in Machines : ClientStep(x) /\ UNCHANGED storeVars
    BY <2>1, <2>3, NotTheClient, CommittedSame
  <2> QED
    BY <2>2, <2>3
<1> QED
  BY <1>1, InitType, NextType, InitPeers, NextPeers, InitCursors, NextCursors, PTL
  DEF Spec, CursorsAdvance

(***************************************************************************)
(* Sync implements LogReplica.                                             *)
(***************************************************************************)
LEMMA StoreOthers ==
    ASSUME TypeOK, NEW m \in Machines, NEW s \in Slots, PushServerStep(m, s),
           NEW p \in Machines \ {m}
    PROVE  mirror'[p] = mirror[p]
BY Types
DEF PushServerStep, AppendLogLines, AppendFails, ReplayOne, ReplayFails, PushReturns

LEMMA CommittedWithin ==
    ASSUME TypeOK, PositionsInv, NEW m \in Machines, NEW p \in Machines
    PROVE  Within(mirror[p], CommittedCursor(m)[p])
BY CommittedIs DEF PositionsInv, LaptopWithin, AllWithin

LEMMA StepImplements ==
    ASSUME SyncInv, SyncInv', OrderInv, CursorsInv, [Next]_vars
    PROVE  [Replica!Next]_(Replica!replicaVars)
<1> DEFINE seen == [m \in Machines |-> CommittedCursor(m)]
<1>1. TypeOK /\ TypeOK' /\ Today /\ DaysInOrder
  BY DEF SyncInv, OrderInv
<1>2. ASSUME UNCHANGED <<cursor, undo>> PROVE seen' = seen
  BY <1>2 DEF CommittedCursor
<1>3. ASSUME UNCHANGED <<local, mirror, cursor, undo>>
      PROVE  UNCHANGED Replica!replicaVars
  BY <1>2, <1>3 DEF Replica!replicaVars
<1>4. ASSUME NEW m \in Machines, NEW s \in Slots, PushServerStep(m, s), UNCHANGED laptopVars
      PROVE  Replica!Next
  <2>1. UNCHANGED <<local, cursor, undo>>
    BY <1>4 DEF laptopVars, hostVars, syncVars
  <2>2. \A p \in Machines \ {m} : mirror'[p] = mirror[p]
    BY <1>1, <1>4, StoreOthers
  <2>3. ASSUME NEW d \in Dates
        PROVE  /\ Replica!IsBeginning(mirror[m][d], mirror'[m][d])
               /\ Replica!IsBeginning(mirror'[m][d], local[m][d])
    <3>1. MirrorsGrow
      BY <1>1, <1>4, PushServerMoves
    <3>2. MirrorIsPrefix'
      BY DEF SyncInv, MirrorInv
    <3> QED
      BY <2>1, <3>1, <3>2 DEF MirrorsGrow, Longer, MirrorIsPrefix, Replica!IsBeginning
  <2>4. Replica!Store(m)
    BY <1>2, <2>1, <2>2, <2>3 DEF Replica!Store
  <2> QED
    BY <2>4 DEF Replica!Next
<1>5. ASSUME NEW m \in Machines, Host(m) PROVE [Replica!Next]_(Replica!replicaVars)
  <2>1. /\ UNCHANGED <<mirror, cursor, undo>>
        /\ UNCHANGED local \/ \E l \in Line : LogAppend(m, today, l)
    BY <1>1, <1>5, HostLogs DEF storeVars, syncVars
  <2>2. CASE UNCHANGED local
    BY <1>3, <2>1, <2>2
  <2>3. ASSUME NEW l \in Line, LogAppend(m, today, l) PROVE Replica!Next
    <3>1. today \in Dates /\ local'[m][today] = Append(local[m][today], l)
      BY <1>1, <2>3, AppendedLine
    <3>2. /\ Len(local[m][today]) \in Nat
          /\ Len(local'[m][today]) = Len(local[m][today]) + 1
      <4> DEFINE old == local[m][today]
      <4>1. old \in Seq(Line)
        BY <1>1, <3>1, Types, LogLengths
      <4> HIDE DEF old
      <4>2. Len(Append(old, l)) = Len(old) + 1 /\ Len(old) \in Nat
        BY <4>1, AppendEach
      <4> QED
        BY <3>1, <4>2 DEF old
    <3>3. ASSUME NEW x \in Machines
          PROVE  ~Replica!Behind(seen[x][m], today, Len(local[m][today]) + 1)
      <4> DEFINE c == CommittedCursor(x)[m]
                 i == Len(local[m][today]) + 1
      <4>1. c \in Position /\ Within(local[m], c)
        BY <1>1, CommittedIs, CommittedWithin, MirrorInLocal DEF SyncInv
      <4>2. i \in 1..Len(local'[m][today]) /\ i \notin 1..Len(local[m][today])
        BY <3>2
      <4> HIDE DEF c, i
      <4>3. ~Passed(c, today, i - 1)
        BY <1>1, <2>1, <3>1, <4>1, <4>2, NewLineNotPassed
      <4> QED
        BY <4>3 DEF Replica!Behind, Passed, c, i
    <3>4. Replica!Write(m, today)
      BY <1>2, <2>1, <2>3, <3>1, <3>3 DEF Replica!Write, LogAppend
    <3> QED
      BY <3>1, <3>4 DEF Replica!Next
  <2> QED
    BY <2>1, <2>2, <2>3
<1>6. ASSUME NEW m \in Machines, ClientStep(m), UNCHANGED storeVars PROVE Replica!Next
  <2>1. UNCHANGED <<local, mirror>>
    BY <1>1, <1>6, ClientOthers DEF storeVars, hostVars
  <2>2. ASSUME NEW p \in Machines
        PROVE  Replica!Forward(seen[m][p], seen'[m][p])
    BY <1>1, <1>6, CommittedStep DEF Replica!Forward, NotBefore
  <2>3. ASSUME NEW p \in Machines, NEW d \in Dates, NEW i \in 1..Len(local[p][d]),
               Replica!Behind(seen'[m][p], d, i)
        PROVE  i <= Len(mirror[p][d])
    <3> DEFINE c == CommittedCursor(m)'[p]
    <3>1. c \in Position /\ Within(mirror[p], c)
      <4>1. /\ c \in {undo'[m].cursor[p], cursor'[m][p]}
            /\ undo'[m].cursor[p] \in Position /\ cursor'[m][p] \in Position
        BY <1>1 DEF CommittedCursor, TypeOK, LaptopTypeOK, Cursors, Image
      <4>2. Within(mirror[p], undo'[m].cursor[p]) /\ Within(mirror[p], cursor'[m][p])
        BY <2>1 DEF SyncInv, PositionsInv, LaptopWithin, AllWithin
      <4> QED
        BY <4>1, <4>2
    <3>2. Passed(c, d, i - 1)
      BY <2>3 DEF Replica!Behind, Passed
    <3> HIDE DEF c
    <3> QED
      BY <1>1, <3>1, <3>2, PassedStored
  <2>4. \A x \in Machines \ {m} : seen'[x] = seen[x]
    BY <1>1, <1>6, CommittedOthers
  <2>5. Replica!Advance(m)
    BY <2>1, <2>2, <2>3, <2>4 DEF Replica!Advance
  <2> QED
    BY <2>5 DEF Replica!Next
<1>7. ASSUME UNCHANGED laptopVars, UNCHANGED mirror PROVE UNCHANGED Replica!replicaVars
  BY <1>3, <1>7 DEF laptopVars, hostVars, syncVars
<1>8. CASE NewDay
  BY <1>3, <1>8 DEF NewDay, Midnight, storeVars, syncVars
<1>9. CASE Restart /\ UNCHANGED laptopVars
  BY <1>7, <1>9 DEF Restart
<1> QED
  BY <1>4, <1>5, <1>6, <1>7, <1>8, <1>9, StepCases DEF storeVars

(***************************************************************************)
(* Multi-laptop sync mode implements LogReplica: whatever the interleaving *)
(* of hosts, sync processes, handlers and streams, and whatever fails, a   *)
(* step is a write that no cursor has passed, a longer beginning of a log  *)
(* on the server, cursors that move forward over what is stored, or none   *)
(* of them; as long as no invocation of the host runs past midnight.       *)
(***************************************************************************)
THEOREM ReplicaImplemented ==
    ASSUME ~LateWrites
    PROVE  Spec => ImplementsReplica
<1>1. SyncInv /\ SyncInv' /\ OrderInv /\ [Next]_vars => OrderInv'
  BY NextOrder
<1>2. Init => Replica!Init
  <2> SUFFICES ASSUME Init PROVE Replica!Init
    OBVIOUS
  <2>1. ASSUME NEW m \in Machines
        PROVE  CommittedCursor(m) = [p \in Machines |-> [date |-> 0, off |-> -1]]
    BY DEF Init, LaptopInit, CommittedCursor, Closed, NoCursors, NoPosition
  <2> QED
    BY <2>1 DEF Init, StoreInit, LaptopInit, Replica!Init
<1>4. SyncInv /\ SyncInv' /\ OrderInv /\ CursorsInv /\ [Next]_vars =>
         [Replica!Next]_(Replica!replicaVars)
  BY StepImplements
<1>5. SyncInv /\ SyncInv' /\ CursorsInv /\ [Next]_vars => CursorsInv'
  BY NextCursors DEF SyncInv
<1> QED
  BY <1>1, <1>2, <1>4, <1>5, InitSync, NextSync, InitOrder, InitCursors, PTL
  DEF Spec, ImplementsReplica, Replica!Spec

(***************************************************************************)
(* What databases hold, and why.  Every row is there because of a line     *)
(* that some laptop has logged, except that a message may mark its page as *)
(* of interest besides what its line says.                                 *)
(***************************************************************************)
LinesOf(m) == UNION {{local[m][d][i] : i \in 1..Len(local[m][d])} : d \in Dates}
Logged == UNION {LinesOf(m) : m \in Machines}

AlsoSent == \E d \in Dates : \E msg \in Messages[d] : msg.also

FromLines(base, S) ==
    /\ \A u \in Urls : HasRow(base, u) => \E l \in S : l.kind \in ActionKinds /\ l.url = u
    /\ \A u \in base.interest : AlsoSent \/ \E l \in S : l.kind = "of_interest" /\ l.url = u
    /\ \A e \in base.events : [kind |-> e.tag, url |-> e.url, ts |-> e.ts] \in S

LEMMA FromMoreLines ==
    ASSUME NEW base, NEW S, NEW T, S \subseteq T, FromLines(base, S)
    PROVE  FromLines(base, T)
BY DEF FromLines

LEMMA EmptyFromLines == ASSUME NEW S PROVE FromLines(EmptyDb, S)
BY DEF FromLines, EmptyDb, HasRow

LEMMA InsertFrom ==
    ASSUME NEW base \in Db, NEW S, FromLines(base, S), NEW l \in S, l \in Line,
           l.kind \in ActionKinds
    PROVE  FromLines(InsertVisit(base, l.url, l.ts), S)
<1> DEFINE y == InsertVisit(base, l.url, l.ts)
<1>1. l.url \in Urls /\ l.ts \in Stamps
  BY DEF Line
<1>2. y.interest = base.interest /\ y.events = base.events
  BY DEF InsertVisit, Db
<1>3. \A u \in Urls : HasRow(y, u) => HasRow(base, u) \/ u = l.url
  BY <1>1 DEF InsertVisit, HasRow, Db
<1> HIDE DEF y
<1> QED
  BY <1>2, <1>3 DEF FromLines, y

LEMMA InterestFrom ==
    ASSUME NEW base \in Db, NEW S, FromLines(base, S), NEW u \in Urls,
           AlsoSent \/ \E l \in S : l.kind = "of_interest" /\ l.url = u
    PROVE  FromLines(SetOfInterest(base, u), S)
<1> DEFINE y == SetOfInterest(base, u)
<1>1. y.visits = base.visits /\ y.events = base.events
  BY DEF SetOfInterest, Db
<1>2. y.interest \subseteq base.interest \cup {u}
  BY DEF SetOfInterest, Db
<1> HIDE DEF y
<1> QED
  BY <1>1, <1>2 DEF FromLines, HasRow, y

LEMMA TagFrom ==
    ASSUME NEW base \in Db, NEW S, FromLines(base, S), NEW l \in S, l \in Line,
           l.kind \in Tags
    PROVE  FromLines(TagWithFilename(base, l.url, l.ts, l.kind), S)
<1> DEFINE e == [tag |-> l.kind, url |-> l.url, ts |-> l.ts]
           x == [base EXCEPT !.events = @ \cup {e}]
           y == TagWithFilename(base, l.url, l.ts, l.kind)
<1>1. l = [kind |-> e.tag, url |-> e.url, ts |-> e.ts]
  BY DEF Line
<1>2. /\ x.visits = base.visits /\ x.interest = base.interest
      /\ x.events = base.events \cup {e}
  BY DEF Db
<1>3. BumpCounter(x, l.kind, l.url) \in
         {x, [x EXCEPT !.count[l.kind][l.url] = @ + 1]}
  BY DEF BumpCounter
<1>4. /\ y.visits = base.visits /\ y.interest = base.interest
      /\ y.events \subseteq base.events \cup {e}
  <2>1. x \in Db
    BY DEF Db, Event, Line
  <2> HIDE DEF x
  <2>2. LET z == BumpCounter(x, l.kind, l.url)
        IN  z.visits = x.visits /\ z.interest = x.interest /\ z.events = x.events
    BY <1>3, <2>1 DEF Db
  <2>3. y \in {base, BumpCounter(x, l.kind, l.url)}
    BY DEF TagWithFilename, x
  <2> QED
    BY <1>2, <2>2, <2>3
<1> HIDE DEF e, x, y
<1> QED
  BY <1>1, <1>4 DEF FromLines, HasRow, y

LEMMA ReplayFrom ==
    ASSUME NEW base \in Db, NEW S, FromLines(base, S), NEW l \in S, l \in Line
    PROVE  FromLines(ReplayLine(base, l), S) /\ FromLines(ReplayBasic(base, l), S)
<1> DEFINE b == ReplayBasic(base, l)
<1>1. l.url \in Urls /\ l.ts \in Stamps /\ l.kind \in ActionKinds \cup ResultKinds
  BY DEF Line
<1>2. b \in Db /\ FromLines(b, S)
  BY <1>1, ReplayBasicGrows, InsertFrom DEF ReplayBasic
<1> HIDE DEF b
<1>3. CASE l.kind = "of_interest"
  <2>1. ReplayLine(base, l) = SetOfInterest(b, l.url)
    BY <1>3 DEF ReplayLine, Tags, b
  <2> QED
    BY <1>1, <1>2, <1>3, <2>1, InterestFrom DEF b
<1>4. CASE l.kind \in Tags
  BY <1>1, <1>2, <1>4, TagFrom DEF ReplayLine, b, Tags
<1>5. CASE l.kind # "of_interest" /\ l.kind \notin Tags
  BY <1>2, <1>5 DEF ReplayLine, b
<1> QED
  BY <1>2, <1>3, <1>4, <1>5 DEF b

LEMMA HostWriteFrom ==
    ASSUME NEW base \in Db, NEW S, FromLines(base, S), NEW msg \in Message,
           ActionLine(msg) \in S, msg.also => AlsoSent
    PROVE  FromLines(HostWrite(base, msg), S)
<1> DEFINE l == ActionLine(msg)
           x == InsertVisit(base, msg.url, msg.ts)
           y == HostTag(x, msg.url, msg.ts, msg.kind)
<1>1. /\ l \in Line /\ l.kind = msg.kind /\ l.url = msg.url /\ l.ts = msg.ts
      /\ msg.kind \in ActionKinds /\ msg.url \in Urls /\ msg.ts \in Stamps
  BY LinesOfMessages DEF ActionLine, Message
<1> HIDE DEF l
<1>2. x \in Db /\ FromLines(x, S)
  BY <1>1, InsertVisitType, InsertFrom DEF l
<1> HIDE DEF x
<1>3. y \in Db /\ FromLines(y, S)
  <2>1. CASE msg.kind = "of_interest"
    <3>1. y = SetOfInterest(x, msg.url)
      BY <2>1 DEF HostTag, Tags
    <3>2. \E k \in S : k.kind = "of_interest" /\ k.url = msg.url
      BY <1>1, <2>1 DEF l
    <3> QED
      BY <1>1, <1>2, <3>1, <3>2, InterestFrom, SetOfInterestType
  <2>2. CASE msg.kind \in Tags
    <3>1. y \in {x, TagWithFilename(x, l.url, l.ts, l.kind)}
      BY <1>1, <2>2 DEF HostTag, HostInsertEvent, Tags
    <3>2. FromLines(TagWithFilename(x, l.url, l.ts, l.kind), S)
      BY <1>1, <1>2, <2>2, TagFrom DEF l
    <3>3. TagWithFilename(x, l.url, l.ts, l.kind) \in Db
      BY <1>1, <1>2, <2>2, TagWithFilenameType
    <3> QED
      BY <1>2, <3>1, <3>2, <3>3
  <2>3. CASE msg.kind # "of_interest" /\ msg.kind \notin Tags
    BY <1>2, <2>3 DEF HostTag
  <2> QED
    BY <2>1, <2>2, <2>3
<1>4. HostWrite(base, msg) = IF msg.also /\ msg.kind \in Tags
                             THEN SetOfInterest(y, msg.url) ELSE y
  BY DEF HostWrite, HostTag, Tags, x
<1> HIDE DEF y
<1>5. msg.also => FromLines(SetOfInterest(y, msg.url), S)
  BY <1>1, <1>3, InterestFrom
<1> QED
  BY <1>3, <1>4, <1>5

(* The transaction of an invocation stores what its action line says.      *)
LEMMA HostWriteHolds ==
    ASSUME NEW base \in Db, NEW msg \in Message
    PROVE  Holds(HostWrite(base, msg), ActionLine(msg))
<1> DEFINE l == ActionLine(msg)
           x == InsertVisit(base, msg.url, msg.ts)
           y == HostTag(x, msg.url, msg.ts, msg.kind)
           z == HostWrite(base, msg)
<1>1. /\ l \in Line /\ l.kind = msg.kind /\ l.url = msg.url /\ l.ts = msg.ts
      /\ msg.kind \in ActionKinds /\ msg.url \in Urls /\ msg.ts \in Stamps
  BY LinesOfMessages DEF ActionLine, Message
<1> HIDE DEF l
<1>2. x \in Db /\ HasRow(x, msg.url)
  BY <1>1, InsertVisitType
<1> HIDE DEF x
<1>3. y \in Db /\ Holds(y, l)
  <2>1. CASE msg.kind = "of_interest"
    <3>1. y = [x EXCEPT !.interest = @ \cup {msg.url}]
      BY <1>2, <2>1 DEF HostTag, Tags, SetOfInterest
    <3>2. y \in Db
      BY <1>1, <1>2, <2>1, SetOfInterestType DEF HostTag, Tags
    <3>3. y.visits = x.visits /\ msg.url \in y.interest
      BY <1>1, <1>2, <3>1 DEF Db
    <3> QED
      BY <1>1, <1>2, <2>1, <3>2, <3>3 DEF Holds, HasRow, Tags
  <2>2. CASE msg.kind \in Tags
    <3> DEFINE e == [tag |-> msg.kind, url |-> msg.url, ts |-> msg.ts]
    <3>1. y = TagWithFilename(x, msg.url, msg.ts, msg.kind)
      BY <1>2, <2>2 DEF HostTag, HostInsertEvent, Tags
    <3>2. y \in Db /\ Grows(x, y)
      BY <1>1, <1>2, <2>2, <3>1, TagWithFilenameType, StatementsGrow
    <3>3. e \in y.events
      BY <1>2, <3>1 DEF TagWithFilename, BumpCounter, Db
    <3> QED
      BY <1>1, <1>2, <2>2, <3>2, <3>3 DEF Holds, Grows, Tags
  <2>3. CASE msg.kind # "of_interest" /\ msg.kind \notin Tags
    BY <1>1, <1>2, <2>3 DEF HostTag, Holds
  <2> QED
    BY <2>1, <2>2, <2>3
<1>4. z \in {y, SetOfInterest(y, msg.url)}
  BY DEF HostWrite, HostTag, Tags, x
<1> HIDE DEF y, z
<1>5. Grows(y, SetOfInterest(y, msg.url)) /\ Grows(y, y)
  BY <1>1, <1>3, StatementsGrow DEF Tags, Grows
<1> QED
  BY <1>1, <1>3, <1>4, <1>5, GrowingKeepsLines DEF l, z

(***************************************************************************)
(* The invariant: every row of every database comes from the logs, and so  *)
(* does all that is on its way into one.                                   *)
(***************************************************************************)
HostSourced(m, h) ==
    /\ host[m][h].pc # "idle" => \E d \in Dates : host[m][h].msg \in Messages[d]
    /\ host[m][h].pc \in {"logged", "stored"} => ActionLine(host[m][h].msg) \in Logged

SourceInv ==
    /\ FromLines(canon, Logged)
    /\ \A m \in Machines : FromLines(db[m], Logged) /\ FromLines(undo[m].db, Logged)
    /\ \A m \in Machines, s \in Slots : \A e \in handlers[m][s].todo : e.line \in Logged
    /\ \A m \in Machines, h \in Procs : HostSourced(m, h)

LEMMA LinesOfLogs ==
    ASSUME TypeOK, NEW m \in Machines
    PROVE  /\ LinesOf(m) \subseteq Line
           /\ \A e \in Entry : IsIn(local[m], e) => e.line \in LinesOf(m)
<1>1. ASSUME NEW d \in Dates, NEW i \in 1..Len(local[m][d]) PROVE local[m][d][i] \in Line
  BY Types, LogLengths, ElementOfSeq
<1>2. ASSUME NEW e \in Entry, IsIn(local[m], e) PROVE e.line \in LinesOf(m)
  <2>1. e.date \in Dates /\ e.off \in Nat /\ Len(local[m][e.date]) \in Nat
    BY Types, LogLengths DEF Entry
  <2>2. e.off + 1 \in 1..Len(local[m][e.date]) /\ e.line = local[m][e.date][e.off + 1]
    BY <1>2, <2>1 DEF IsIn
  <2> QED
    BY <2>1, <2>2 DEF LinesOf
<1> QED
  BY <1>1, <1>2 DEF LinesOf

(* An append adds its line and takes none away.                            *)
LEMMA AppendedLines ==
    ASSUME TypeOK, NEW m \in Machines, NEW d \in Dates, NEW l \in Line, LogAppend(m, d, l)
    PROVE  /\ LinesOf(m)' = LinesOf(m) \cup {l}
           /\ \A p \in Machines \ {m} : LinesOf(p)' = LinesOf(p)
           /\ Logged' = Logged \cup {l}
<1>1. /\ local'[m][d] = Append(local[m][d], l)
      /\ \A p \in Machines, x \in Dates : ~(p = m /\ x = d) => local'[p][x] = local[p][x]
  BY DEF LogAppend, TypeOK, LaptopTypeOK, Logs
<1> DEFINE old == local[m][d]
           new == local'[m][d]
<1>2. old \in Seq(Line) /\ new = Append(old, l)
  BY <1>1, Types, LogLengths
<1> HIDE DEF old, new
<1>3. /\ Len(new) = Len(old) + 1 /\ Len(old) \in Nat
      /\ \A i \in 1..Len(old) : new[i] = old[i]
      /\ new[Len(old) + 1] = l
  BY <1>2, AppendEach
<1>4. {new[i] : i \in 1..Len(new)} = {old[i] : i \in 1..Len(old)} \cup {l}
  <2>1. 1..Len(new) = (1..Len(old)) \cup {Len(old) + 1}
    BY <1>3
  <2> QED
    BY <1>3, <2>1
<1> DEFINE Old(p, x) == {local[p][x][i] : i \in 1..Len(local[p][x])}
           New(p, x) == {local'[p][x][i] : i \in 1..Len(local'[p][x])}
<1>5. /\ New(m, d) = Old(m, d) \cup {l}
      /\ \A p \in Machines, x \in Dates : ~(p = m /\ x = d) => New(p, x) = Old(p, x)
  BY <1>1, <1>4 DEF old, new
<1>6. \A p \in Machines : /\ LinesOf(p) = UNION {Old(p, x) : x \in Dates}
                          /\ LinesOf(p)' = UNION {New(p, x) : x \in Dates}
  BY DEF LinesOf
<1> HIDE DEF Old, New
<1>7. LinesOf(m)' = LinesOf(m) \cup {l}
  BY <1>5, <1>6
<1>8. \A p \in Machines \ {m} : LinesOf(p)' = LinesOf(p)
  BY <1>5, <1>6
<1>9. Logged' = Logged \cup {l}
  <2>1. Logged' = UNION {LinesOf(p)' : p \in Machines}
    BY DEF Logged
  <2> QED
    BY <1>7, <1>8, <2>1 DEF Logged
<1> QED
  BY <1>7, <1>8, <1>9

LEMMA SameLines ==
    ASSUME UNCHANGED local
    PROVE  Logged' = Logged /\ \A m : LinesOf(m)' = LinesOf(m)
BY DEF Logged, LinesOf

(* One invocation moves, and what it does to the logs and the database.    *)
LEMMA HostSteps ==
    ASSUME TypeOK, NEW m \in Machines, Host(m)
    PROVE  \E h \in Procs :
              LET a == host[m][h]
                  b == host'[m][h]
                  l == ActionLine(a.msg)
              IN  /\ UNCHANGED <<canon, handlers, undo>>
                  /\ \A p \in Machines, x \in Procs : ~(p = m /\ x = h) => host'[p][x] = host[p][x]
                  /\ \A p \in Machines \ {m} : db'[p] = db[p]
                  /\ \/ /\ a.pc = "idle" /\ b.pc = "pinned" /\ UNCHANGED <<local, db>>
                        /\ \E d \in Dates : b.msg \in Messages[d]
                     \/ /\ a.pc = "pinned" /\ b.pc = "logged" /\ b.msg = a.msg /\ UNCHANGED db
                        /\ l \in Line /\ LogAppend(m, a.date, l) /\ a.date \in Dates
                     \/ /\ a.pc = "logged" /\ b.pc = "stored" /\ b.msg = a.msg
                        /\ a.msg \in Message /\ UNCHANGED local
                        /\ IF undo[m].open THEN b.res = "error" /\ UNCHANGED db
                           ELSE db'[m] = HostWrite(db[m], a.msg)
                     \/ /\ a.pc = "stored" /\ b.pc = "idle" /\ UNCHANGED db
                        /\ ResultLine(a.msg, a.res) \in Line /\ a.date \in Dates
                        /\ LogAppend(m, a.date, ResultLine(a.msg, a.res))
                        /\ a.res \in ResultKinds
<1>1. PICK h \in Procs : HostBegins(m, h) \/ HostRuns(m, h)
  BY DEF Host, HostNext
<1>2. /\ host \in [Machines -> [Procs -> Invocation]] /\ db \in [Machines -> Db]
      /\ today \in Dates /\ host[m][h] \in Invocation
      /\ host[m][h].pc # "idle" => /\ host[m][h].msg \in Message /\ host[m][h].date \in Dates
                                   /\ host[m][h].res \in ResultKinds
  BY DEF TypeOK, LaptopTypeOK, Invocation, IdleHost
<1>3. UNCHANGED <<canon, handlers, undo>>
  BY <1>1 DEF Host, HostRuns, HostBegins, AppendAction, HostStores, AppendResult,
              storeVars, rpcVars, syncVars
<1>4. /\ \A p \in Machines, x \in Procs : ~(p = m /\ x = h) => host'[p][x] = host[p][x]
      /\ \A p \in Machines \ {m} : db'[p] = db[p]
  BY <1>1, <1>2 DEF HostRuns, HostBegins, AppendAction, HostStores, AppendResult
<1> DEFINE a == host[m][h]
           b == host'[m][h]
<1>5. CASE HostBegins(m, h)
  <2>1. PICK msg \in Messages[today] :
           host' = [host EXCEPT ![m][h] = [pc |-> "pinned", date |-> today,
                                           msg |-> msg, res |-> "success"]]
    BY <1>5 DEF HostBegins
  <2>2. b.pc = "pinned" /\ b.msg = msg
    BY <1>2, <2>1
  <2> QED
    BY <1>2, <1>3, <1>4, <1>5, <2>2 DEF HostBegins
<1>6. CASE AppendAction(m, h)
  <2>1. b = [a EXCEPT !.pc = "logged"] /\ a.pc = "pinned"
    BY <1>2, <1>6 DEF AppendAction
  <2>2. b.pc = "logged" /\ b.msg = a.msg
    BY <1>2, <2>1 DEF Invocation, IdleHost
  <2>3. ActionLine(a.msg) \in Line
    BY <1>2, <2>1, LinesOfMessages
  <2> QED
    BY <1>2, <1>3, <1>4, <1>6, <2>1, <2>2, <2>3 DEF AppendAction
<1>7. CASE HostStores(m, h)
  <2>1. /\ a.pc = "logged"
        /\ b = [a EXCEPT !.pc = "stored",
                         !.res = IF undo[m].open THEN "error" ELSE "success"]
    BY <1>2, <1>7 DEF HostStores
  <2>2. b.pc = "stored" /\ b.msg = a.msg /\ (undo[m].open => b.res = "error")
    BY <1>2, <2>1 DEF Invocation, IdleHost
  <2>3. IF undo[m].open THEN UNCHANGED db ELSE db'[m] = HostWrite(db[m], a.msg)
    BY <1>2, <1>7 DEF HostStores
  <2> QED
    BY <1>2, <1>3, <1>4, <1>7, <2>1, <2>2, <2>3 DEF HostStores
<1>8. CASE AppendResult(m, h)
  <2>1. b.pc = "idle" /\ a.pc = "stored"
    BY <1>2, <1>8 DEF AppendResult, IdleHost
  <2>2. ResultLine(a.msg, a.res) \in Line
    BY <1>2, <2>1, LinesOfMessages
  <2> QED
    BY <1>2, <1>3, <1>4, <1>8, <2>1, <2>2 DEF AppendResult
<1> QED
  BY <1>1, <1>5, <1>6, <1>7, <1>8 DEF HostRuns

LEMMA InitSource == Init => SourceInv
BY EmptyFromLines
DEF Init, StoreInit, LaptopInit, RpcInit, Closed, FreeSlot, IdleHost, SourceInv, HostSourced

LEMMA HostSource == ASSUME TypeOK, SourceInv, NEW m \in Machines, Host(m) PROVE SourceInv'
<1>1. PICK h \in Procs :
         LET a == host[m][h]
             b == host'[m][h]
             l == ActionLine(a.msg)
         IN  /\ UNCHANGED <<canon, handlers, undo>>
             /\ \A p \in Machines, x \in Procs : ~(p = m /\ x = h) => host'[p][x] = host[p][x]
             /\ \A p \in Machines \ {m} : db'[p] = db[p]
             /\ \/ /\ a.pc = "idle" /\ b.pc = "pinned" /\ UNCHANGED <<local, db>>
                   /\ \E d \in Dates : b.msg \in Messages[d]
                \/ /\ a.pc = "pinned" /\ b.pc = "logged" /\ b.msg = a.msg /\ UNCHANGED db
                   /\ l \in Line /\ LogAppend(m, a.date, l) /\ a.date \in Dates
                \/ /\ a.pc = "logged" /\ b.pc = "stored" /\ b.msg = a.msg
                   /\ a.msg \in Message /\ UNCHANGED local
                   /\ IF undo[m].open THEN b.res = "error" /\ UNCHANGED db
                      ELSE db'[m] = HostWrite(db[m], a.msg)
                \/ /\ a.pc = "stored" /\ b.pc = "idle" /\ UNCHANGED db
                   /\ ResultLine(a.msg, a.res) \in Line /\ a.date \in Dates
                   /\ LogAppend(m, a.date, ResultLine(a.msg, a.res))
                   /\ a.res \in ResultKinds
  BY HostSteps
<1> DEFINE a == host[m][h]
           b == host'[m][h]
<1>2. Logged \subseteq Logged'
  BY <1>1, AppendedLines, SameLines
<1>3. HostSourced(m, h) /\ FromLines(db[m], Logged) /\ db[m] \in Db
  BY Types DEF SourceInv
<1>4. HostSourced(m, h)'
  <2>1. CASE a.pc = "idle" /\ b.pc = "pinned" /\ \E d \in Dates : b.msg \in Messages[d]
    BY <2>1 DEF HostSourced
  <2>2. CASE /\ a.pc = "pinned" /\ b.msg = a.msg
             /\ LogAppend(m, a.date, ActionLine(a.msg)) /\ ActionLine(a.msg) \in Line
             /\ a.date \in Dates
    BY <1>3, <2>2, AppendedLines DEF HostSourced
  <2>3. CASE a.pc = "logged" /\ b.msg = a.msg
    BY <1>2, <1>3, <2>3 DEF HostSourced
  <2>4. CASE b.pc = "idle"
    BY <2>4 DEF HostSourced
  <2> QED
    BY <1>1, <2>1, <2>2, <2>3, <2>4
<1>5. FromLines(db'[m], Logged')
  <2>1. CASE db'[m] = db[m]
    BY <1>2, <1>3, <2>1, FromMoreLines
  <2>2. CASE a.pc = "logged" /\ a.msg \in Message /\ db'[m] = HostWrite(db[m], a.msg)
    <3>1. ActionLine(a.msg) \in Logged /\ (a.msg.also => AlsoSent)
      BY <1>3, <2>2 DEF HostSourced, AlsoSent
    <3>2. FromLines(HostWrite(db[m], a.msg), Logged)
      BY <1>3, <2>2, <3>1, HostWriteFrom
    <3> QED
      BY <1>2, <2>2, <3>2, FromMoreLines
  <2> QED
    BY <1>1, <2>1, <2>2
<1>6. FromLines(canon, Logged)' /\ \A p \in Machines : FromLines(undo[p].db, Logged)'
  BY <1>1, <1>2, FromMoreLines DEF SourceInv
<1>7. ASSUME NEW p \in Machines PROVE FromLines(db[p], Logged)'
  BY <1>1, <1>2, <1>5, FromMoreLines DEF SourceInv
<1>8. \A p \in Machines, s \in Slots : \A e \in handlers'[p][s].todo : e.line \in Logged'
  BY <1>1, <1>2 DEF SourceInv
<1>9. ASSUME NEW p \in Machines, NEW x \in Procs PROVE HostSourced(p, x)'
  <2>1. CASE p = m /\ x = h
    BY <1>4, <2>1
  <2>2. CASE ~(p = m /\ x = h)
    BY <1>1, <1>2, <2>2 DEF SourceInv, HostSourced
  <2> QED
    BY <2>1, <2>2
<1> QED
  BY <1>6, <1>7, <1>8, <1>9 DEF SourceInv

(* A handler replays the lines of its batch.                               *)
LEMMA TodoFromBatch ==
    ASSUME TypeOK, NEW m \in Machines, NEW s \in Slots, PushServerStep(m, s),
           NEW p \in Machines, NEW x \in Slots
    PROVE  handlers'[p][x].todo \subseteq handlers[p][x].todo \cup handlers[p][x].batch
<1>1. handlers \in [Machines -> [Slots -> Handler]] /\ handlers[m][s] \in Handler
  BY Types
<1> DEFINE h == handlers[m][s]
<1> SUFFICES \E g : /\ handlers' = [handlers EXCEPT ![m][s] = g]
                    /\ g.todo \subseteq h.todo \cup h.batch
  BY <1>1
<1>2. ASSUME NEW res, Answer(m, s, res)
      PROVE  \E g : /\ handlers' = [handlers EXCEPT ![m][s] = g]
                    /\ g.todo \subseteq h.todo \cup h.batch
  <2> DEFINE g == IF h.live THEN [h EXCEPT !.pc = res, !.todo = {}] ELSE FreeSlot
  <2>1. handlers' = [handlers EXCEPT ![m][s] = g]
    BY <1>2 DEF Answer
  <2>2. g.todo = {}
    BY <1>1 DEF Handler, FreeSlot
  <2> QED
    BY <2>1, <2>2
<1>3. CASE ReplayOne(m, s)
  <2>1. PICK e \in h.todo : handlers' = [handlers EXCEPT ![m][s].todo = @ \ {e}]
    BY <1>3 DEF ReplayOne
  <2> DEFINE g == [h EXCEPT !.todo = h.todo \ {e}]
  <2>2. handlers' = [handlers EXCEPT ![m][s] = g]
    BY <1>1, <2>1
  <2>3. g.todo = h.todo \ {e}
    BY <1>1 DEF Handler
  <2> QED
    BY <2>2, <2>3
<1>4. CASE handlers' = [handlers EXCEPT ![m][s].pc = "replay", ![m][s].todo = h.batch]
  <2> DEFINE g == [h EXCEPT !.pc = "replay", !.todo = h.batch]
  <2>1. handlers' = [handlers EXCEPT ![m][s] = g]
    BY <1>1, <1>4
  <2>2. g.todo = h.batch
    BY <1>1 DEF Handler
  <2> QED
    BY <2>1, <2>2
<1> QED
  BY <1>2, <1>3, <1>4 DEF PushServerStep, AppendLogLines, AppendFails, ReplayFails, PushReturns

(* What it replays is logged.                                              *)
LEMMA ServerSource ==
    ASSUME TypeOK, BatchesAreLogged, SourceInv, NEW m \in Machines, NEW s \in Slots,
           PushServerStep(m, s), UNCHANGED laptopVars
    PROVE  SourceInv'
<1> DEFINE h == handlers[m][s]
<1>1. UNCHANGED <<local, host, db, undo>> /\ Logged' = Logged
  BY SameLines DEF laptopVars, hostVars, syncVars
<1>2. /\ h.todo \in SUBSET Entry /\ h.batch \in SUBSET Entry /\ canon \in Db
      /\ \A e \in h.todo : e.line \in Logged
  BY Types DEF Handler, SourceInv
<1>3. FromLines(canon', Logged)
  <2>1. CASE UNCHANGED canon
    BY <2>1 DEF SourceInv
  <2>2. CASE ReplayOne(m, s) \/ ReplayFails(m, s)
    <3>1. PICK e \in h.todo :
             canon' \in {ReplayLine(canon, e.line), canon, ReplayBasic(canon, e.line)}
      BY <2>2 DEF ReplayOne, ReplayFails
    <3>2. e.line \in Logged /\ e.line \in Line
      BY <1>2 DEF Entry
    <3> QED
      BY <1>2, <3>1, <3>2, ReplayFrom DEF SourceInv
  <2> QED
    BY <2>1, <2>2 DEF PushServerStep, AppendLogLines, AppendFails, PushReturns
<1>4. HandlersMove
  BY PushServerMoves
<1>5. ASSUME NEW p \in Machines, NEW x \in Slots, NEW e \in handlers'[p][x].todo
      PROVE  e.line \in Logged
  <2>1. CASE e \in handlers[p][x].todo
    BY <2>1 DEF SourceInv
  <2>2. CASE e \in handlers[p][x].batch
    <3>1. e \in Entry /\ IsIn(local[p], e)
      BY <2>2, Types DEF Handler, BatchesAreLogged, IsLogged, IsIn
    <3> QED
      BY <3>1, LinesOfLogs DEF Logged
  <2>3. e \in handlers[p][x].todo \/ e \in handlers[p][x].batch
    BY <1>5, TodoFromBatch
  <2> QED
    BY <2>1, <2>2, <2>3
<1> QED
  BY <1>1, <1>3, <1>5 DEF SourceInv, HostSourced

LEMMA ClientTodo ==
    ASSUME TypeOK, NEW m \in Machines, ClientStep(m), NEW p \in Machines, NEW x \in Slots
    PROVE  handlers'[p][x].todo \subseteq handlers[p][x].todo
<1> DEFINE h == handlers[p][x]
<1>1. handlers \in [Machines -> [Slots -> Handler]] /\ h \in Handler
  BY Types
<1>2. /\ FreeSlot.todo = {} /\ \A batch : Call(batch).todo = {}
      /\ [h EXCEPT !.live = FALSE].todo = h.todo
  BY <1>1 DEF FreeSlot, Call, Handler
<1> SUFFICES \/ handlers'[p][x] \in {h, FreeSlot, [h EXCEPT !.live = FALSE]}
             \/ \E batch : handlers'[p][x] = Call(batch)
  BY <1>2
<1>3. CASE PushBatch(m)
  <2>1. PICK s \in Slots : \E batch : handlers'[m] = [handlers[m] EXCEPT ![s] = Call(batch)]
    BY <1>3, PushBatchCalls DEF NewCall
  <2>2. p # m => handlers'[p] = handlers[p]
    BY ClientOthers DEF OthersKeep
  <2> QED
    BY <1>1, <2>1, <2>2
<1>4. CASE PushOk(m) \/ PushError(m)
  BY <1>1, <1>4 DEF PushOk, PushError
<1>5. CASE PushTimeout(m)
  BY <1>5, AbandonSteps DEF PushTimeout
<1>6. CASE SyncKilled(m)
  BY <1>6, AbandonSteps DEF SyncKilled
<1>7. CASE UNCHANGED handlers
  BY <1>7
<1> QED
  BY <1>3, <1>4, <1>5, <1>6, <1>7
  DEF ClientStep, SyncNext, PullBroken, SyncStarts, PushDone, ApplyLine, SetPeerCursor,
      PullDone, PullEndsEarly, rpcVars

(* The client replays the lines of a chunk, or goes back to what it had.   *)
LEMMA ClientRows ==
    ASSUME TypeOK, NEW m \in Machines, ClientStep(m)
    PROVE  /\ \/ db'[m] = db[m]
              \/ SyncKilled(m) /\ undo[m].open /\ db'[m] = undo[m].db
              \/ ApplyLine(m)
           /\ undo'[m].db \in {undo[m].db, db[m], EmptyDb}
<1>1. CASE ApplyLine(m)
  <2>1. \/ undo'[m] = undo[m]
        \/ undo'[m] = [open |-> TRUE, db |-> db[m], cursor |-> cursor[m]]
    BY <1>1, UndoSteps DEF ApplyLine
  <2> QED
    BY <1>1, <2>1
<1>2. CASE ~ApplyLine(m)
  <2>1. Closed.db = EmptyDb
    BY DEF Closed
  <2>2. [open |-> TRUE, db |-> db[m], cursor |-> cursor[m]].db = db[m]
    OBVIOUS
  <2>3. undo'[m].db \in {undo[m].db, db[m], EmptyDb}
    BY <1>2, <2>1, <2>2, ClientDatabase
  <2> QED
    BY <1>2, <2>3, ClientDatabase
<1> QED
  BY <1>1, <1>2

LEMMA ClientSource ==
    ASSUME SyncInv, SourceInv, NEW m \in Machines, ClientStep(m), UNCHANGED storeVars
    PROVE  SourceInv'
<1>1. /\ TypeOK /\ UNCHANGED <<canon, local, host>> /\ Logged' = Logged /\ OthersKeep(m)
  BY ClientOthers, SameLines DEF SyncInv, storeVars, hostVars
<1>2. FromLines(db'[m], Logged)
  <2>1. CASE ApplyLine(m)
    <3> DEFINE e == Head(pull[m].chunk)
               p == pull[m].from
    <3>1. e \in Entry /\ p \in Machines /\ IsIn(local[p], e)
      BY <2>1, ApplyLineGets
    <3>2. db'[m] = ReplayIntoDb(db[m], e.line) /\ db[m] \in Db
      BY <1>1, <2>1, Types DEF ApplyLine
    <3> HIDE DEF e, p
    <3>3. e.line \in Line /\ e.line \in Logged
      BY <1>1, <3>1, LinesOfLogs DEF Entry, Logged
    <3>4. db'[m] = ReplayLine(db[m], e.line)
      BY <3>2, <3>3, ReplaysAgree
    <3>5. FromLines(db[m], Logged)
      BY DEF SourceInv
    <3> QED
      BY <3>2, <3>3, <3>4, <3>5, ReplayFrom
  <2>2. CASE db'[m] \in {db[m], undo[m].db}
    BY <2>2 DEF SourceInv
  <2> QED
    BY <1>1, <2>1, <2>2, ClientRows
<1>3. FromLines(undo'[m].db, Logged)
  BY <1>1, ClientRows, EmptyFromLines DEF SourceInv
<1>4. \A p \in Machines : FromLines(db'[p], Logged) /\ FromLines(undo'[p].db, Logged)
  BY <1>1, <1>2, <1>3 DEF OthersKeep, SourceInv
<1>5. ASSUME NEW p \in Machines, NEW s \in Slots, NEW e \in handlers'[p][s].todo
      PROVE  e.line \in Logged
  BY <1>1, ClientTodo DEF SourceInv
<1> QED
  BY <1>1, <1>4, <1>5 DEF SourceInv, HostSourced

LEMMA NextSource == SyncInv /\ SourceInv /\ [Next]_vars => SourceInv'
<1> SUFFICES ASSUME SyncInv, SourceInv, [Next]_vars PROVE SourceInv'
  OBVIOUS
<1>1. TypeOK /\ BatchesAreLogged
  BY DEF SyncInv, MirrorInv
<1>2. ASSUME UNCHANGED <<canon, local, host, db, undo>>,
             \A p \in Machines, x \in Slots : handlers'[p][x].todo \subseteq handlers[p][x].todo
      PROVE  SourceInv'
  BY <1>2, SameLines DEF SourceInv, HostSourced
<1>3. UNCHANGED laptopVars => UNCHANGED <<local, host, db, undo>>
  BY DEF laptopVars, hostVars, syncVars
<1>4. CASE Restart /\ UNCHANGED laptopVars
  <2>1. ASSUME NEW p \in Machines, NEW x \in Slots
        PROVE  handlers'[p][x].todo \subseteq handlers[p][x].todo
    <3> DEFINE h == handlers[p][x]
    <3>1. handlers'[p][x] \in {h, FreeSlot, [h EXCEPT !.pc = "error", !.todo = {}]}
      BY <1>4 DEF Restart
    <3>2. [h EXCEPT !.pc = "error", !.todo = {}].todo = {} /\ FreeSlot.todo = {}
      BY <1>1, Types DEF Handler, FreeSlot
    <3> QED
      BY <3>1, <3>2
  <2> QED
    BY <1>2, <1>3, <1>4, <2>1 DEF Restart
<1>5. CASE \E m \in Machines : StreamStep(m) /\ UNCHANGED <<storeVars, handlers, laptopVars>>
  BY <1>2, <1>3, <1>5 DEF storeVars
<1>6. CASE NewDay
  BY <1>2, <1>6 DEF NewDay, Midnight, storeVars, rpcVars, syncVars
<1>7. CASE UNCHANGED <<storeVars, rpcVars, laptopVars>>
  BY <1>2, <1>3, <1>7 DEF storeVars, rpcVars
<1> QED
  BY <1>1, <1>4, <1>5, <1>6, <1>7, ServerSource, HostSource, ClientSource, StepCases

(***************************************************************************)
(* A laptop's own database: what it has logged it stores next, in the same *)
(* invocation; when the database is locked by an open transaction of the   *)
(* sync client, the invocation logs an error instead.                      *)
(***************************************************************************)
RefusalDue(m) ==
    \/ \E h \in Procs : host[m][h].pc = "stored" /\ host[m][h].res = "error"
    \/ \E l \in LinesOf(m) : Refused(l)

OwnInv ==
    \A m \in Machines : \A l \in LinesOf(m) :
        \/ Holds(db[m], l) /\ Holds(CommittedDb(m), l)
        \/ \E h \in Procs : host[m][h].pc = "logged" /\ ActionLine(host[m][h].msg) = l
        \/ RefusalDue(m)

LEMMA InitOwn == Init => OwnInv
<1> SUFFICES ASSUME Init, NEW m \in Machines PROVE LinesOf(m) = {}
  BY DEF OwnInv
<1>1. \A d \in Dates : local[m][d] = <<>>
  BY DEF Init, LaptopInit
<1> QED
  BY <1>1 DEF LinesOf

LEMMA ClientOwn ==
    ASSUME TypeOK, SyncInv, OwnInv, NEW m \in Machines, ClientStep(m)
    PROVE  OwnInv'
<1>1. /\ UNCHANGED <<local, host>> /\ OthersKeep(m)
      /\ \A p : LinesOf(p)' = LinesOf(p)
  BY ClientOthers, SameLines DEF hostVars
<1>2. /\ Keeps(db[m], db'[m]) \/ Keeps(CommittedDb(m), db'[m])
      /\ Keeps(db[m], CommittedDb(m)') \/ Keeps(CommittedDb(m), CommittedDb(m)')
  <2> USE SameKeeps
  <2>1. CASE ApplyLine(m)
    <3>1. Keeps(db[m], db'[m])
      BY <2>1, ApplyLineGets
    <3>2. CASE undo'[m] = undo[m]
      BY <3>1, <3>2 DEF CommittedDb
    <3>3. CASE undo'[m] = [open |-> TRUE, db |-> db[m], cursor |-> cursor[m]]
      <4>1. CommittedDb(m)' = db[m]
        BY <3>3 DEF CommittedDb
      <4> QED
        BY <3>1, <4>1
    <3>4. undo'[m] = undo[m] \/ undo'[m] = [open |-> TRUE, db |-> db[m], cursor |-> cursor[m]]
      BY <2>1, UndoSteps DEF ApplyLine
    <3> QED
      BY <3>2, <3>3, <3>4
  <2>2. CASE ~ApplyLine(m)
    <3>1. Closed.open = FALSE
      BY DEF Closed
    <3>2. CASE db'[m] = db[m]
      <4>1. CASE undo'[m] = undo[m]
        BY <3>2, <4>1 DEF CommittedDb
      <4>2. CASE undo'[m] = Closed
        BY <3>1, <3>2, <4>2 DEF CommittedDb
      <4>3. CASE undo'[m] = [open |-> TRUE, db |-> db[m], cursor |-> cursor[m]]
        <5>1. CommittedDb(m)' = db[m]
          BY <4>3 DEF CommittedDb
        <5> QED
          BY <3>2, <5>1
      <4> QED
        BY <2>2, <4>1, <4>2, <4>3, ClientDatabase
    <3>3. CASE SyncKilled(m) /\ undo[m].open /\ db'[m] = undo[m].db
      <4>1. db'[m] = CommittedDb(m) /\ CommittedDb(m)' = CommittedDb(m)
        BY <2>2, <3>1, <3>3, ClientDatabase DEF CommittedDb
      <4> QED
        BY <4>1
    <3> QED
      BY <2>2, <3>2, <3>3, ClientDatabase
  <2> QED
    BY <2>1, <2>2
<1>3. \A p \in Machines : RefusalDue(p)' = RefusalDue(p)
  BY <1>1 DEF RefusalDue
<1>4. LinesOf(m) \subseteq Line
  BY LinesOfLogs
<1>5. \A l \in LinesOf(m) : Holds(db[m], l) /\ Holds(CommittedDb(m), l)
                              => Holds(db'[m], l) /\ Holds(CommittedDb(m)', l)
  BY <1>2, <1>4 DEF Keeps
<1>6. \A p \in Machines \ {m} : db'[p] = db[p] /\ CommittedDb(p)' = CommittedDb(p)
  BY <1>1 DEF OthersKeep, CommittedDb
<1> SUFFICES ASSUME NEW p \in Machines, NEW l \in LinesOf(p)
             PROVE  \/ Holds(db'[p], l) /\ Holds(CommittedDb(p)', l)
                    \/ \E h \in Procs : host[p][h].pc = "logged" /\ ActionLine(host[p][h].msg) = l
                    \/ RefusalDue(p)
  BY <1>1, <1>3 DEF OwnInv
<1> QED
  BY <1>5, <1>6 DEF OwnInv

LEMMA HostOwn ==
    ASSUME TypeOK, OwnInv, NEW m \in Machines, Host(m)
    PROVE  OwnInv'
<1>1. PICK h \in Procs :
         LET a == host[m][h]
             b == host'[m][h]
             l == ActionLine(a.msg)
         IN  /\ UNCHANGED <<canon, handlers, undo>>
             /\ \A p \in Machines, x \in Procs : ~(p = m /\ x = h) => host'[p][x] = host[p][x]
             /\ \A p \in Machines \ {m} : db'[p] = db[p]
             /\ \/ /\ a.pc = "idle" /\ b.pc = "pinned" /\ UNCHANGED <<local, db>>
                   /\ \E d \in Dates : b.msg \in Messages[d]
                \/ /\ a.pc = "pinned" /\ b.pc = "logged" /\ b.msg = a.msg /\ UNCHANGED db
                   /\ l \in Line /\ LogAppend(m, a.date, l) /\ a.date \in Dates
                \/ /\ a.pc = "logged" /\ b.pc = "stored" /\ b.msg = a.msg
                   /\ a.msg \in Message /\ UNCHANGED local
                   /\ IF undo[m].open THEN b.res = "error" /\ UNCHANGED db
                      ELSE db'[m] = HostWrite(db[m], a.msg)
                \/ /\ a.pc = "stored" /\ b.pc = "idle" /\ UNCHANGED db
                   /\ ResultLine(a.msg, a.res) \in Line /\ a.date \in Dates
                   /\ LogAppend(m, a.date, ResultLine(a.msg, a.res))
                   /\ a.res \in ResultKinds
  BY HostSteps
<1> DEFINE a == host[m][h]
           b == host'[m][h]
           Stored(l) == Holds(db[m], l) /\ Holds(CommittedDb(m), l)
           ToStore(p, l) == \E x \in Procs : host[p][x].pc = "logged" /\ ActionLine(host[p][x].msg) = l
           Due(p) == \E x \in Procs : host[p][x].pc = "stored" /\ host[p][x].res = "error"
<1>2. ASSUME NEW p \in Machines \ {m}, NEW l \in LinesOf(p)'
      PROVE  (Holds(db[p], l) /\ Holds(CommittedDb(p), l))' \/ ToStore(p, l)' \/ RefusalDue(p)'
  <2>1. LinesOf(p)' = LinesOf(p)
    BY <1>1, AppendedLines, SameLines
  <2>2. db'[p] = db[p] /\ CommittedDb(p)' = CommittedDb(p) /\ \A x \in Procs : host'[p][x] = host[p][x]
    BY <1>1 DEF CommittedDb
  <2>3. RefusalDue(p)' = RefusalDue(p) /\ ToStore(p, l)' = ToStore(p, l)
    BY <2>1, <2>2 DEF RefusalDue
  <2> QED
    BY <2>1, <2>2, <2>3 DEF OwnInv
<1>3. ASSUME NEW l \in LinesOf(m)'
      PROVE  Stored(l)' \/ ToStore(m, l)' \/ RefusalDue(m)'
  <2>1. ASSUME NEW k, k \in LinesOf(m), Refused(k), LinesOf(m) \subseteq LinesOf(m)'
        PROVE  RefusalDue(m)'
    BY <2>1 DEF RefusalDue
  <2>2. LinesOf(m) \subseteq LinesOf(m)'
    BY <1>1, AppendedLines, SameLines
  <2>3. LinesOf(m) \subseteq Line
    BY LinesOfLogs
  <2>4. CASE a.pc = "idle" /\ b.pc = "pinned" /\ UNCHANGED <<local, db>>
    <3>1. LinesOf(m)' = LinesOf(m) /\ (Stored(l) => Stored(l)')
      BY <1>1, <2>4, SameLines DEF CommittedDb
    <3>2. (ToStore(m, l) => ToStore(m, l)') /\ (Due(m) => Due(m)')
      BY <1>1, <2>4
    <3> QED
      BY <2>1, <2>2, <3>1, <3>2 DEF OwnInv, RefusalDue
  <2>5. CASE /\ a.pc = "pinned" /\ b.pc = "logged" /\ b.msg = a.msg /\ UNCHANGED db
             /\ ActionLine(a.msg) \in Line /\ LogAppend(m, a.date, ActionLine(a.msg))
             /\ a.date \in Dates
    <3>1. LinesOf(m)' = LinesOf(m) \cup {ActionLine(a.msg)}
      BY <2>5, AppendedLines
    <3>2. Stored(l) => Stored(l)'
      BY <1>1, <2>5 DEF CommittedDb
    <3>3. (ToStore(m, l) => ToStore(m, l)') /\ (Due(m) => Due(m)')
      BY <1>1, <2>5
    <3>4. l = ActionLine(a.msg) => ToStore(m, l)'
      BY <2>5
    <3> QED
      BY <2>1, <2>2, <3>1, <3>2, <3>3, <3>4 DEF OwnInv, RefusalDue
  <2>6. CASE /\ a.pc = "logged" /\ b.pc = "stored" /\ b.msg = a.msg
             /\ a.msg \in Message /\ UNCHANGED local
    <3>1. LinesOf(m)' = LinesOf(m) /\ l \in Line
      BY <2>3, <2>6, SameLines
    <3>2. Due(m) => Due(m)'
      BY <1>1, <2>6
    <3>3. ToStore(m, l) => ToStore(m, l)' \/ l = ActionLine(a.msg)
      BY <1>1, <2>6
    <3>4. CASE undo[m].open
      <4>1. b.pc = "stored" /\ b.res = "error"
        BY <1>1, <2>6, <3>4
      <4> QED
        BY <4>1 DEF RefusalDue
    <3>5. CASE ~undo[m].open
      <4>1. db'[m] = HostWrite(db[m], a.msg) /\ undo' = undo
        BY <1>1, <2>6, <3>5
      <4>2. db[m] \in Db
        BY Types
      <4>3. Keeps(db[m], db'[m]) /\ Holds(db'[m], ActionLine(a.msg))
        BY <2>6, <4>1, <4>2, HostWriteKeeps, HostWriteHolds
      <4>4. CommittedDb(m)' = db'[m]
        BY <3>5, <4>1 DEF CommittedDb
      <4>5. (Stored(l) => Stored(l)') /\ (l = ActionLine(a.msg) => Stored(l)')
        BY <3>1, <4>3, <4>4 DEF Keeps
      <4> QED
        BY <2>1, <2>2, <3>1, <3>2, <3>3, <4>5 DEF OwnInv, RefusalDue
    <3> QED
      BY <3>4, <3>5
  <2>7. CASE /\ a.pc = "stored" /\ b.pc = "idle" /\ UNCHANGED db
             /\ ResultLine(a.msg, a.res) \in Line /\ a.date \in Dates
             /\ LogAppend(m, a.date, ResultLine(a.msg, a.res))
             /\ a.res \in ResultKinds
    <3> DEFINE r == ResultLine(a.msg, a.res)
    <3>1. LinesOf(m)' = LinesOf(m) \cup {r}
      BY <2>7, AppendedLines
    <3>2. r.kind = a.res
      BY DEF ResultLine
    <3> HIDE DEF r
    <3>3. ToStore(m, l) => ToStore(m, l)'
      BY <1>1, <2>7
    <3>4. Due(m) => Due(m)' \/ Refused(r)
      BY <1>1, <2>7, <3>2 DEF Refused
    <3>5. Stored(l) => Stored(l)'
      BY <1>1, <2>7 DEF CommittedDb
    <3>6. l = r => Stored(l)'
      BY <2>7, <3>2 DEF Holds
    <3> QED
      BY <2>1, <2>2, <3>1, <3>3, <3>4, <3>5, <3>6 DEF OwnInv, RefusalDue
  <2> QED
    BY <1>1, <2>4, <2>5, <2>6, <2>7
<1> QED
  BY <1>2, <1>3 DEF OwnInv

LEMMA NextOwn == SyncInv /\ OwnInv /\ [Next]_vars => OwnInv'
<1> SUFFICES ASSUME SyncInv, OwnInv, [Next]_vars PROVE OwnInv'
  OBVIOUS
<1>1. TypeOK
  BY DEF SyncInv
<1>2. ASSUME UNCHANGED <<local, host, db, undo>>
      PROVE  OwnInv'
  <2>1. \A m \in Machines : /\ CommittedDb(m)' = CommittedDb(m) /\ LinesOf(m)' = LinesOf(m)
                            /\ RefusalDue(m)' = RefusalDue(m)
    BY <1>2, SameLines DEF CommittedDb, RefusalDue
  <2> QED
    BY <1>2, <2>1 DEF OwnInv
<1>3. CASE UNCHANGED laptopVars \/ NewDay
  BY <1>2, <1>3 DEF laptopVars, hostVars, syncVars, NewDay, Midnight
<1> QED
  BY <1>1, <1>3, HostOwn, ClientOwn, StepCases

(***************************************************************************)
(* A database that holds a set of lines and nothing else is what the lines *)
(* say, so that two such databases agree.                                  *)
(***************************************************************************)
LEMMA ContentsOf ==
    ASSUME NEW x \in Db, NEW S \in SUBSET Line, FromLines(x, S), \A l \in S : Holds(x, l)
    PROVE  /\ \A u \in Urls : HasRow(x, u) <=> \E l \in S : l.kind \in ActionKinds /\ l.url = u
           /\ x.events = {e \in Event : [kind |-> e.tag, url |-> e.url, ts |-> e.ts] \in S}
           /\ ~AlsoSent =>
                 \A u \in Urls : u \in x.interest
                                    <=> \E l \in S : l.kind = "of_interest" /\ l.url = u
<1>1. /\ x.events \subseteq Event /\ x.interest \subseteq Urls
      /\ ActionKinds \cap ResultKinds = {} /\ Tags \cap ResultKinds = {}
      /\ "of_interest" \notin ResultKinds
  BY DEF Db, ActionKinds, ResultKinds, Tags
<1>2. ASSUME NEW u \in Urls, NEW l \in S, l.kind \in ActionKinds, l.url = u
      PROVE  HasRow(x, u)
  BY <1>1, <1>2 DEF Holds
<1>3. ASSUME NEW e \in Event, [kind |-> e.tag, url |-> e.url, ts |-> e.ts] \in S
      PROVE  e \in x.events
  <2> DEFINE l == [kind |-> e.tag, url |-> e.url, ts |-> e.ts]
  <2>1. l.kind = e.tag /\ l.url = e.url /\ l.ts = e.ts /\ e.tag \in Tags
    BY DEF Event
  <2>2. l \in S
    BY <1>3
  <2> HIDE DEF l
  <2>3. [tag |-> l.kind, url |-> l.url, ts |-> l.ts] \in x.events
    BY <1>1, <2>1, <2>2 DEF Holds
  <2>4. e = [tag |-> e.tag, url |-> e.url, ts |-> e.ts]
    BY DEF Event
  <2> QED
    BY <2>1, <2>3, <2>4
<1>4. ASSUME NEW u \in Urls, NEW l \in S, l.kind = "of_interest", l.url = u
      PROVE  u \in x.interest
  BY <1>1, <1>4 DEF Holds
<1>5. \A e \in x.events : e \in Event /\ [kind |-> e.tag, url |-> e.url, ts |-> e.ts] \in S
  BY <1>1 DEF FromLines
<1> QED
  BY <1>2, <1>3, <1>4, <1>5 DEF FromLines

LEMMA EqualContents ==
    ASSUME NEW x, NEW y, Counted(x), Counted(y), NEW S \in SUBSET Line,
           FromLines(x, S), FromLines(y, S),
           \A l \in S : Holds(x, l) /\ Holds(y, l)
    PROVE  SameContents(x, y)
<1>1. /\ \A u \in Urls : HasRow(x, u) <=> HasRow(y, u)
      /\ x.events = y.events
      /\ ~AlsoSent => \A u \in Urls : u \in x.interest <=> u \in y.interest
  <2> DEFINE R == {u \in Urls : \E l \in S : l.kind \in ActionKinds /\ l.url = u}
             E == {e \in Event : [kind |-> e.tag, url |-> e.url, ts |-> e.ts] \in S}
             I == {u \in Urls : \E l \in S : l.kind = "of_interest" /\ l.url = u}
  <2>1. x \in Db /\ y \in Db
    BY DEF Counted
  <2>2. /\ \A u \in Urls : HasRow(x, u) <=> u \in R
        /\ x.events = E
        /\ ~AlsoSent => \A u \in Urls : u \in x.interest <=> u \in I
    BY <2>1, ContentsOf
  <2>3. /\ \A u \in Urls : HasRow(y, u) <=> u \in R
        /\ y.events = E
        /\ ~AlsoSent => \A u \in Urls : u \in y.interest <=> u \in I
    BY <2>1, ContentsOf
  <2> HIDE DEF R, E, I
  <2> QED
    BY <2>2, <2>3
<1>2. \A t \in Tags, u \in Urls : x.count[t][u] = y.count[t][u]
  BY <1>1 DEF Counted, CountersExact, EventsOf
<1>3. x.count = y.count
  <2>1. /\ x.count \in [Tags -> [Urls -> Nat]]
        /\ y.count \in [Tags -> [Urls -> Nat]]
    BY DEF Counted, Db
  <2>2. \A t \in Tags : x.count[t] = y.count[t]
    <3> TAKE t \in Tags
    <3>1. x.count[t] \in [Urls -> Nat] /\ y.count[t] \in [Urls -> Nat]
      BY <2>1
    <3> QED
      BY <1>2, <3>1
  <2> QED
    BY <2>1, <2>2
<1>4. ~AlsoSent => x.interest = y.interest
  <2>1. x.interest \subseteq Urls /\ y.interest \subseteq Urls
    BY DEF Counted, Db
  <2> QED
    BY <1>1, <2>1
<1> QED
  BY <1>1, <1>3, <1>4 DEF SameContents, AlsoSent

(***************************************************************************)
(* Once the laptops are at rest and every line logged on one of them has   *)
(* reached the others and the VM, and unless an invocation was refused its *)
(* database, each laptop's own database and the canonical one have the     *)
(* same rows, events and counters, and the same marks of interest unless   *)
(* messages carry alsoOfInterest, in whatever order, and however often,    *)
(* the host, ReplayLine and replay_into_db have written them.              *)
(***************************************************************************)
THEOREM UnionIsSame == Spec => []SameUnion
<1>1. SyncInv /\ CountersInv /\ SourceInv /\ OwnInv => SameUnion
  <2> SUFFICES ASSUME SyncInv, CountersInv, SourceInv, OwnInv, CaughtUp, AtRest,
                      \A p \in Machines, d \in Dates :
                          \A i \in 1..Len(local[p][d]) : ~Refused(local[p][d][i]),
                      NEW m \in Machines
               PROVE  SameContents(db[m], canon)
    BY DEF SameUnion
  <2>1. TypeOK
    BY DEF SyncInv
  <2>2. Logged \in SUBSET Line
    BY <2>1, LinesOfLogs DEF Logged
  <2>3. ASSUME NEW p \in Machines, NEW l \in LinesOf(p)
        PROVE  Holds(canon, l) /\ (p # m => Holds(db[m], l)) /\ ~Refused(l)
    <3>1. PICK d \in Dates : \E i \in 1..Len(local[p][d]) : l = local[p][d][i]
      BY DEF LinesOf
    <3> QED
      BY <3>1 DEF CaughtUp
  <2>4. \A l \in LinesOf(m) : Holds(db[m], l)
    <3>1. \A h \in Procs : host[m][h].pc = "idle"
      BY DEF AtRest, Quiet
    <3>2. ~RefusalDue(m)
      BY <2>3, <3>1 DEF RefusalDue
    <3> QED
      BY <3>1, <3>2 DEF OwnInv
  <2>5. \A l \in Logged : Holds(db[m], l) /\ Holds(canon, l)
    BY <2>3, <2>4 DEF Logged
  <2> QED
    BY <2>2, <2>5, EqualContents DEF CountersInv, SourceInv
<1>2. SyncInv => TypeOK
  BY DEF SyncInv
<1> QED
  BY <1>1, <1>2, InitSync, NextSync, InitCounters, NextCounters, InitSource, NextSource,
     InitOwn, NextOwn, PTL
  DEF Spec

(***************************************************************************)
(* The copies of the peers' logs, up to the first failure.  A copy ends    *)
(* where the laptop has got to with that peer (Applied): in the chunk in   *)
(* hand, or at the cursor.  The lines on their way continue from there one *)
(* by one: first the chunk, then, if it is from the machine being scanned, *)
(* the batch, and the scan stands behind the last of them.                 *)
(***************************************************************************)
Follows(c, e) == c.date <= e.date /\ e.off = IF c.date = e.date THEN c.off + 1 ELSE 0

Chain(c, s) ==
    /\ Len(s) > 0 => Follows(c, s[1])
    /\ \A j \in 1..(Len(s) - 1) : Follows(At(s[j]), s[j + 1])

EndOf(c, s) == IF Len(s) = 0 THEN c ELSE At(s[Len(s)])

Copied(copy, log, c) ==
    \A d \in Dates :
        /\ Len(copy[d]) <= Len(log[d])
        /\ \A i \in 1..Len(copy[d]) : copy[d][i] = log[d][i]
        /\ d = c.date => Len(copy[d]) = c.off + 1
        /\ d > c.date => Len(copy[d]) = 0

Applied(m, c, v) ==
    [p \in Machines |-> IF v.pc \in {"pull", "chunk"} /\ v.peer = p /\ p # m THEN v.pos
                        ELSE c[p]]

ScanExact(m, a, q) ==
    /\ Chain(a[q.from], q.chunk)
    /\ q.peer # m =>
          LET c == IF q.from = q.peer THEN EndOf(a[q.from], q.chunk) ELSE a[q.peer]
          IN  Chain(c, q.batch) /\ q.pos = EndOf(c, q.batch)

Abreast(m, v, q) ==
    /\ q.pc # "broken"
    /\ v.pc \in {"pull", "chunk"} /\ v.peer # m =>
          /\ v.peer \notin q.peers /\ q.pc # "sent"
          /\ v.pc = "pull" => Len(q.chunk) > 0 /\ q.from = v.peer

CopiesExact(m, copies, files, a) ==
    /\ \A d \in Dates : Len(copies[m][d]) = 0
    /\ \A p \in Machines \ {m} : Copied(copies[p], files[p], a[p])

CopyInv ==
    faults = 0 => \A m \in Machines :
        /\ CopiesExact(m, peerLog[m], mirror, Applied(m, cursor[m], sync[m]))
        /\ ScanExact(m, Applied(m, cursor[m], sync[m]), pull[m])
        /\ Abreast(m, sync[m], pull[m])

LEMMA EmptyChain ==
    ASSUME NEW c, NEW s, Len(s) = 0
    PROVE  Chain(c, s) /\ EndOf(c, s) = c
BY DEF Chain, EndOf

LEMMA ChainAppend ==
    ASSUME NEW c, NEW s \in Seq(Entry), NEW e \in Entry, Chain(c, s), Follows(EndOf(c, s), e)
    PROVE  Chain(c, Append(s, e)) /\ EndOf(c, Append(s, e)) = At(e)
<1> DEFINE t == Append(s, e)
<1>1. /\ Len(t) = Len(s) + 1 /\ Len(s) \in Nat
      /\ \A j \in 1..Len(s) : t[j] = s[j]
      /\ t[Len(s) + 1] = e
  BY AppendEach
<1> HIDE DEF t
<1>2. EndOf(c, t) = At(e)
  BY <1>1 DEF EndOf
<1>3. Follows(c, t[1])
  <2>1. CASE Len(s) = 0
    BY <1>1, <2>1 DEF EndOf
  <2>2. CASE Len(s) # 0
    BY <1>1, <2>2 DEF Chain
  <2> QED
    BY <2>1, <2>2
<1>4. ASSUME NEW j \in 1..(Len(t) - 1) PROVE Follows(At(t[j]), t[j + 1])
  <2>1. CASE j = Len(s)
    <3>1. t[j] = s[Len(s)] /\ t[j + 1] = e /\ Len(s) # 0
      BY <1>1, <2>1
    <3> QED
      BY <3>1 DEF EndOf
  <2>2. CASE j # Len(s)
    <3>1. j \in 1..(Len(s) - 1) /\ j \in 1..Len(s) /\ j + 1 \in 1..Len(s)
      BY <1>1, <2>2
    <3> QED
      BY <1>1, <3>1 DEF Chain
  <2> QED
    BY <2>1, <2>2
<1>5. Chain(c, t)
  BY <1>3, <1>4 DEF Chain
<1> QED
  BY <1>2, <1>5 DEF t

LEMMA ChainTail ==
    ASSUME NEW c, NEW s \in Seq(Entry), s # <<>>, Chain(c, s)
    PROVE  /\ Follows(c, Head(s)) /\ Chain(At(Head(s)), Tail(s))
           /\ EndOf(At(Head(s)), Tail(s)) = EndOf(c, s)
<1> DEFINE t == Tail(s)
<1>1. /\ Len(t) = Len(s) - 1 /\ Len(s) \in Nat /\ Len(s) >= 1 /\ Head(s) = s[1]
      /\ \A j \in 1..Len(t) : t[j] = s[j + 1]
  BY PlacedTail
<1> HIDE DEF t
<1>2. Follows(c, Head(s))
  BY <1>1 DEF Chain
<1>3. EndOf(At(Head(s)), t) = EndOf(c, s)
  <2>1. CASE Len(t) = 0
    <3>1. Len(s) = 1
      BY <1>1, <2>1
    <3>2. EndOf(c, s) = At(s[1])
      BY <3>1 DEF EndOf
    <3>3. EndOf(At(Head(s)), t) = At(Head(s))
      BY <2>1, EmptyChain
    <3>4. Head(s) = s[1]
      BY <1>1
    <3> QED
      BY <3>2, <3>3, <3>4
  <2>2. CASE Len(t) # 0
    <3>1. Len(t) \in 1..Len(t) /\ Len(t) + 1 = Len(s)
      BY <1>1, <2>2
    <3> QED
      BY <1>1, <2>2, <3>1 DEF EndOf
  <2> QED
    BY <2>1, <2>2
<1>4. Len(t) > 0 => Follows(At(Head(s)), t[1])
  <2> SUFFICES ASSUME Len(t) > 0 PROVE Follows(At(Head(s)), t[1])
    OBVIOUS
  <2>1. 1 \in 1..Len(t) /\ 1 \in 1..(Len(s) - 1) /\ t[1] = s[1 + 1]
    BY <1>1
  <2> QED
    BY <1>1, <2>1 DEF Chain
<1>5. ASSUME NEW j \in 1..(Len(t) - 1) PROVE Follows(At(t[j]), t[j + 1])
  <2>1. /\ j \in 1..Len(t) /\ j + 1 \in 1..Len(t) /\ j + 1 \in 1..(Len(s) - 1)
        /\ t[j] = s[j + 1] /\ t[j + 1] = s[(j + 1) + 1]
    BY <1>1
  <2> QED
    BY <2>1 DEF Chain
<1> QED
  BY <1>2, <1>3, <1>4, <1>5 DEF Chain, t

(* One more line, the one that follows, makes the copy end there.          *)
LEMMA CopyOne ==
    ASSUME NEW copy \in Logs, NEW new \in Logs, NEW log \in Logs, NEW c \in Position, NEW e \in Entry,
           Copied(copy, log, c), Follows(c, e), IsIn(log, e),
           new = [copy EXCEPT ![e.date] = Append(@, e.line)]
    PROVE  Copied(new, log, At(e))
<1>1. /\ e.date \in Dates /\ e.off \in Nat /\ e.line \in Line
      /\ At(e).date = e.date /\ At(e).off = e.off
  BY DEF Entry, At
<1>2. /\ c.date \in Int /\ c.off \in Int /\ e.date \in Int
      /\ \A d \in Dates : d \in Int /\ Len(copy[d]) \in Nat /\ copy[d] \in Seq(Line)
                          /\ Len(log[d]) \in Nat
  BY <1>1, PositionFields, LogLengths DEF Dates
<1>3. Len(copy[e.date]) = e.off
  <2>1. CASE c.date = e.date
    BY <1>1, <1>2, <2>1 DEF Copied, Follows
  <2>2. CASE c.date # e.date
    BY <1>1, <1>2, <2>2 DEF Copied, Follows
  <2> QED
    BY <2>1, <2>2
<1>4. \A d \in Dates : d # e.date => new[d] = copy[d]
  BY <1>1 DEF Logs
<1>5. new[e.date] = Append(copy[e.date], e.line)
  BY <1>1 DEF Logs
<1>6. /\ Len(new[e.date]) = e.off + 1
      /\ \A i \in 1..e.off : new[e.date][i] = copy[e.date][i]
      /\ new[e.date][e.off + 1] = e.line
  BY <1>1, <1>2, <1>3, <1>5, AppendEach
<1>7. ASSUME NEW d \in Dates, d # e.date
      PROVE  /\ Len(new[d]) <= Len(log[d])
             /\ \A i \in 1..Len(new[d]) : new[d][i] = log[d][i]
             /\ d > e.date => Len(new[d]) = 0
  <2>1. d > e.date => d > c.date
    BY <1>2, <1>7 DEF Follows
  <2> QED
    BY <1>4, <1>7, <2>1 DEF Copied
<1>8. /\ Len(new[e.date]) <= Len(log[e.date])
      /\ \A i \in 1..Len(new[e.date]) : new[e.date][i] = log[e.date][i]
  <2>1. e.off < Len(log[e.date]) /\ e.line = log[e.date][e.off + 1]
    BY DEF IsIn
  <2>2. ASSUME NEW i \in 1..Len(new[e.date]) PROVE new[e.date][i] = log[e.date][i]
    <3>1. CASE i = e.off + 1
      BY <1>6, <2>1, <3>1
    <3>2. CASE i # e.off + 1
      <4>1. i \in 1..e.off /\ i \in 1..Len(copy[e.date])
        BY <1>1, <1>3, <1>6, <3>2
      <4> QED
        BY <1>1, <1>6, <4>1 DEF Copied
    <3> QED
      BY <3>1, <3>2
  <2> QED
    BY <1>1, <1>2, <1>6, <2>1, <2>2
<1> QED
  BY <1>1, <1>2, <1>6, <1>7, <1>8 DEF Copied

LEMMA CopiedLonger ==
    ASSUME NEW copy \in Logs, NEW log \in Logs, NEW more \in Logs, NEW c,
           Longer(log, more), Copied(copy, log, c)
    PROVE  Copied(copy, more, c)
<1>1. \A d \in Dates : Len(copy[d]) \in Nat /\ Len(log[d]) \in Nat /\ Len(more[d]) \in Nat
  BY LogLengths
<1> QED
  BY <1>1 DEF Copied, Longer

LEMMA InitCopy == Init => CopyInv
<1> SUFFICES ASSUME Init, NEW m \in Machines
             PROVE  /\ CopiesExact(m, peerLog[m], mirror, Applied(m, cursor[m], sync[m]))
                    /\ ScanExact(m, Applied(m, cursor[m], sync[m]), pull[m])
                    /\ Abreast(m, sync[m], pull[m])
  BY DEF CopyInv
<1>1. /\ pull[m] = NoStream(m) /\ sync[m].pc = "idle" /\ cursor[m] = NoCursors
      /\ \A p \in Machines, d \in Dates : peerLog[m][p][d] = <<>> /\ mirror[p][d] = <<>>
  BY DEF Init, RpcInit, LaptopInit, StoreInit, IdleSync
<1>2. /\ pull[m].peer = m /\ pull[m].from = m /\ pull[m].pc = "closed"
      /\ Len(pull[m].chunk) = 0 /\ Len(<<>>) = 0
  BY <1>1, EmptySeq DEF NoStream, Request
<1>3. \A p \in Machines : Applied(m, cursor[m], sync[m])[p] = NoPosition
  BY <1>1 DEF Applied, NoCursors
<1>4. \A d \in Dates : d # NoPosition.date
  BY LastDateAssumption DEF NoPosition, Dates
<1>5. CopiesExact(m, peerLog[m], mirror, Applied(m, cursor[m], sync[m]))
  BY <1>1, <1>2, <1>3, <1>4 DEF CopiesExact, Copied
<1> QED
  BY <1>1, <1>2, <1>5, EmptyChain DEF ScanExact, Abreast

LEMMA AppliedIs ==
    ASSUME NEW m, NEW c, NEW v, NEW p \in Machines
    PROVE  Applied(m, c, v)[p] = IF v.pc \in {"pull", "chunk"} /\ v.peer = p /\ p # m
                                 THEN v.pos ELSE c[p]
BY DEF Applied

LEMMA SameExact ==
    ASSUME NEW m, NEW a, NEW b, \A p \in Machines : b[p] = a[p], NEW q \in Stream
    PROVE  /\ ScanExact(m, a, q) => ScanExact(m, b, q)
           /\ \A copies, files : CopiesExact(m, copies, files, a) => CopiesExact(m, copies, files, b)
BY StreamFields DEF ScanExact, CopiesExact

(* A step of the server's stream.                                          *)
LEMMA StreamMovesExact ==
    ASSUME TypeOK, NEW m \in Machines, StreamMoves(m), FromOthers(m, pull[m], sync[m]),
           CursorsInv, ScanExact(m, Applied(m, cursor[m], sync[m]), pull[m]),
           Abreast(m, sync[m], pull[m])
    PROVE  /\ ScanExact(m, Applied(m, cursor[m], sync[m]), pull'[m])
           /\ Abreast(m, sync[m], pull'[m])
<1> DEFINE q == pull[m]
           r == pull'[m]
           c == cursor[m]
           v == sync[m]
           a == Applied(m, c, v)
<1>1. /\ q \in Stream /\ FromOthers(m, q, v) /\ ScanOrdered(q) /\ AheadOf(m, c, q)
      /\ ScanExact(m, a, q) /\ Abreast(m, v, q)
  BY Types DEF CursorsInv
<1>2. /\ q.batch \in Seq(Entry) /\ q.peer \in Machines /\ q.from \in Machines
      /\ q.peers \in SUBSET Machines /\ Len(<<>>) = 0
  BY <1>1, StreamFields, EmptySeq
<1>3. \A p \in Machines : a[p] = IF v.pc \in {"pull", "chunk"} /\ v.peer = p /\ p # m
                                 THEN v.pos ELSE c[p]
  BY AppliedIs
<1> SUFFICES ScanExact(m, a, r) /\ Abreast(m, v, r)
  OBVIOUS
<1> HIDE DEF q, r, c, v, a
<1>4. CASE Begins(m, q, r)
  <2>1. ScanExact(m, a, r)
    BY <1>1, <1>4 DEF Begins, KeepsChunk, ScanExact
  <2>2. Abreast(m, v, r)
    BY <1>1, <1>4 DEF Begins, KeepsChunk, Abreast
  <2> QED
    BY <2>1, <2>2
<1>5. CASE SameScan(q, r) /\ q.pc = "open" /\ r.pc = "done"
  BY <1>1, <1>5 DEF SameScan, ScanExact, Abreast
<1>6. ASSUME NEW p \in Machines, Scans(q, r, p)
      PROVE  ScanExact(m, a, r) /\ Abreast(m, v, r)
  <2>1. /\ r.chunk = q.chunk /\ r.from = q.from /\ r.peer = p /\ p \in q.peers
        /\ r.peers = q.peers \ {p} /\ r.pc = "open" /\ r.pos = q.since[p]
        /\ r.batch = <<>> /\ p # m
    BY <1>1, <1>6 DEF Scans, KeepsChunk, FromOthers
  <2>2. q.since[p] = c[p] /\ p # q.from
    BY <1>1, <2>1 DEF AheadOf
  <2>3. a[p] = c[p]
    BY <1>1, <1>3, <2>1 DEF Abreast
  <2>4. ScanExact(m, a, r)
    BY <1>1, <1>2, <2>1, <2>2, <2>3, EmptyChain DEF ScanExact
  <2>5. Abreast(m, v, r)
    BY <1>1, <2>1 DEF Abreast
  <2> QED
    BY <2>4, <2>5
<1>7. ASSUME NEW e \in Entry, Reads(q, r, e)
      PROVE  ScanExact(m, a, r) /\ Abreast(m, v, r)
  <2>1. /\ r.chunk = q.chunk /\ r.from = q.from /\ r.peer = q.peer /\ r.peers = q.peers
        /\ r.pos = At(e) /\ r.batch = Append(q.batch, e) /\ r.pc = "open"
        /\ e.date \in q.dates /\ e.off = NextOffset(q, e.date)
    BY <1>7 DEF Reads, KeepsChunk, KeepsPeer
  <2>2. q.peer # m
    BY <1>1, <2>1 DEF FromOthers
  <2>3. Follows(q.pos, e)
    BY <1>1, <2>1 DEF ScanOrdered, Follows, NextOffset
  <2> DEFINE b == IF q.from = q.peer THEN EndOf(a[q.from], q.chunk) ELSE a[q.peer]
  <2>4. Chain(b, q.batch) /\ q.pos = EndOf(b, q.batch)
    BY <1>1, <2>2 DEF ScanExact
  <2> HIDE DEF b
  <2>5. Chain(b, r.batch) /\ r.pos = EndOf(b, r.batch)
    BY <1>2, <2>1, <2>3, <2>4, ChainAppend
  <2>6. ScanExact(m, a, r)
    BY <1>1, <2>1, <2>5 DEF ScanExact, b
  <2>7. Abreast(m, v, r)
    BY <1>1, <2>1 DEF Abreast
  <2> QED
    BY <2>6, <2>7
<1>8. ASSUME NEW d \in Dates, Finishes(q, r, d)
      PROVE  ScanExact(m, a, r) /\ Abreast(m, v, r)
  BY <1>1, <1>8 DEF Finishes, KeepsChunk, KeepsPeer, ScanExact, Abreast
<1>9. CASE Sends(q, r)
  <2>1. /\ r.pos = q.pos /\ r.peer = q.peer /\ r.chunk = q.batch /\ r.from = q.peer
        /\ r.batch = <<>> /\ q.peer # m /\ r.peers = q.peers /\ r.pc = "open"
        /\ q.chunk = <<>>
    BY <1>1, <1>9 DEF Sends, KeepsPeer, FromOthers
  <2>2. Chain(a[q.peer], q.batch) /\ q.pos = EndOf(a[q.peer], q.batch)
    BY <1>1, <1>2, <2>1, EmptyChain DEF ScanExact
  <2>3. ScanExact(m, a, r)
    BY <1>2, <2>1, <2>2, EmptyChain DEF ScanExact
  <2>4. Abreast(m, v, r)
    BY <1>1, <1>2, <2>1 DEF Abreast
  <2> QED
    BY <2>3, <2>4
<1> QED
  BY <1>4, <1>5, <1>6, <1>7, <1>8, <1>9 DEF StreamMoves, q, r

(* A line of a chunk is written to the end of its copy.                    *)
LEMMA ApplyLineExact ==
    ASSUME SyncInv, CursorsInv, NEW m \in Machines, ApplyLine(m),
           CopiesExact(m, peerLog[m], mirror, Applied(m, cursor[m], sync[m])),
           ScanExact(m, Applied(m, cursor[m], sync[m]), pull[m]),
           Abreast(m, sync[m], pull[m])
    PROVE  /\ CopiesExact(m, peerLog'[m], mirror, Applied(m, cursor'[m], sync'[m]))
           /\ ScanExact(m, Applied(m, cursor'[m], sync'[m]), pull'[m])
           /\ Abreast(m, sync'[m], pull'[m])
<1> DEFINE q == pull[m]
           r == pull'[m]
           v == sync[m]
           w == sync'[m]
           a == Applied(m, cursor[m], v)
           b == Applied(m, cursor'[m], w)
           p == q.from
           e == Head(q.chunk)
<1>1. /\ TypeOK /\ q \in Stream /\ v \in Process /\ p \in Machines /\ q.peer \in Machines
      /\ q.chunk \in Seq(Entry) /\ Len(q.chunk) \in Nat
      /\ peerLog[m] \in [Machines -> Logs] /\ \A x \in Machines : mirror[x] \in Logs
  BY Types, StreamFields DEF SyncInv, TypeOK, LaptopTypeOK
<1>2. /\ v.pc = "pull" /\ q.chunk # <<>> /\ cursor' = cursor
      /\ peerLog' = [peerLog EXCEPT ![m][p][e.date] = Append(@, e.line)]
  BY DEF ApplyLine
<1>3. /\ w.pc = IF Len(q.chunk) = 1 THEN "chunk" ELSE "pull"
      /\ w.pos = At(e) /\ w.peer = p
  BY <1>1, Types DEF ApplyLine, Process
<1>4. /\ r.chunk = Tail(q.chunk) /\ r.from = p /\ r.peers = q.peers /\ r.peer = q.peer
      /\ r.pc = q.pc /\ r.pos = q.pos /\ r.batch = q.batch
  BY <1>1, ApplyLineApplies DEF Applies, KeepsPeer
<1>5. p # m /\ p \notin q.peers /\ q.pc # "sent"
  <2>1. p # m
    BY <1>2 DEF SyncInv, PeersInv, FromOthers
  <2>2. AheadOf(m, cursor[m], q)
    BY DEF CursorsInv
  <2>3. q.pc # "sent"
    <3> SUFFICES ASSUME q.pc = "sent" PROVE FALSE
      OBVIOUS
    <3>1. q = Request(m, cursor[m], "sent")
      BY <2>2 DEF AheadOf
    <3> QED
      BY <1>2, <3>1 DEF Request
  <2> QED
    BY <2>1, <2>2, <2>3 DEF AheadOf
<1>6. e \in Entry /\ IsIn(mirror[p], e) /\ Len(q.chunk) >= 1 /\ Len(Tail(q.chunk)) = Len(q.chunk) - 1
  <2>1. StreamWithin(mirror, q)
    BY DEF SyncInv, PositionsInv, LaptopWithin
  <2>2. e = q.chunk[1] /\ Len(q.chunk) >= 1 /\ Len(Tail(q.chunk)) = Len(q.chunk) - 1
    BY <1>1, <1>2, PlacedTail
  <2>3. 1 \in 1..Len(q.chunk)
    BY <1>1, <2>2
  <2> QED
    BY <1>1, <2>1, <2>2, <2>3, StreamFields DEF StreamWithin
<1>7. /\ b[p] = At(e)
      /\ \A x \in Machines \ {p} : b[x] = a[x]
  <2>1. b[p] = At(e)
    BY <1>1, <1>3, <1>5, AppliedIs
  <2>2. ASSUME NEW x \in Machines \ {p} PROVE b[x] = a[x]
    <3>1. b[x] = cursor[m][x]
      <4>1. b[x] = IF w.pc \in {"pull", "chunk"} /\ w.peer = x /\ x # m THEN w.pos ELSE cursor'[m][x]
        <5> HIDE DEF w
        <5> QED
          BY AppliedIs
      <4> HIDE DEF a, b, v, w
      <4> QED
        BY <1>2, <1>3, <4>1
    <3>2. ~(v.pc \in {"pull", "chunk"} /\ v.peer = x /\ x # m)
      BY <1>2 DEF Abreast
    <3>3. a[x] = IF v.pc \in {"pull", "chunk"} /\ v.peer = x /\ x # m THEN v.pos ELSE cursor[m][x]
      <4> HIDE DEF v
      <4> QED
        BY AppliedIs
    <3> HIDE DEF a, b, v
    <3> QED
      BY <3>1, <3>2, <3>3
  <2> QED
    BY <2>1, <2>2
<1>8. ScanExact(m, a, q) /\ CopiesExact(m, peerLog[m], mirror, a) /\ q.pc # "broken"
  BY DEF Abreast
<1>9. a[p] \in Position
  <2>1. v.pos \in Position /\ cursor[m][p] \in Position
    BY <1>1, Types DEF Process
  <2> HIDE DEF a
  <2>2. a[p] \in {v.pos, cursor[m][p]}
    BY <1>1, AppliedIs DEF a
  <2> QED
    BY <2>1, <2>2
<1> HIDE DEF a, b, w, v
<1>10. /\ Follows(a[p], e) /\ Chain(At(e), Tail(q.chunk))
       /\ EndOf(At(e), Tail(q.chunk)) = EndOf(a[p], q.chunk)
  BY <1>1, <1>2, <1>8, ChainTail DEF ScanExact
<1>11. ScanExact(m, b, r)
  BY <1>1, <1>4, <1>7, <1>8, <1>10 DEF ScanExact
<1>12. Abreast(m, w, r)
  <2>1. w.pc = "pull" => Len(r.chunk) > 0
    <3>1. Len(r.chunk) = Len(q.chunk) - 1
      BY <1>4, <1>6
    <3>2. w.pc = "pull" => Len(q.chunk) # 1
      BY <1>3
    <3>3. Len(q.chunk) \in Nat /\ Len(q.chunk) >= 1
      BY <1>1, <1>6
    <3> DEFINE n == Len(q.chunk)
               k == Len(r.chunk)
    <3>4. w.pc = "pull" => k = n - 1 /\ n \in Nat /\ n >= 1 /\ n # 1
      BY <3>1, <3>2, <3>3
    <3> HIDE DEF n, k
    <3>5. k = n - 1 /\ n \in Nat /\ n >= 1 /\ n # 1 => k > 0
      OBVIOUS
    <3>6. w.pc = "pull" => k > 0
      BY <3>4, <3>5, Zenon
    <3> QED
      BY <3>6 DEF k
  <2>2. r.pc # "broken" /\ r.pc # "sent" /\ w.peer \notin r.peers /\ r.from = w.peer
    BY <1>3, <1>4, <1>5, <1>8
  <2> QED
    BY <2>1, <2>2 DEF Abreast
<1>13. CopiesExact(m, peerLog'[m], mirror, b)
  <2> DEFINE old == peerLog[m][p]
             new == peerLog'[m][p]
  <2>1. /\ new = [old EXCEPT ![e.date] = Append(@, e.line)]
        /\ \A x \in Machines \ {p} : peerLog'[m][x] = peerLog[m][x]
    BY <1>1, <1>2 DEF TypeOK, LaptopTypeOK
  <2>2. old \in Logs /\ e.date \in Dates /\ e.line \in Line
    BY <1>1, <1>6 DEF Entry
  <2> HIDE DEF old, new
  <2>3. new \in Logs
    BY <2>1, <2>2 DEF Logs
  <2>4. Copied(old, mirror[p], a[p])
    BY <1>1, <1>5, <1>8 DEF CopiesExact, old
  <2>5. Copied(new, mirror[p], At(e))
    <3>1. mirror[p] \in Logs
      BY <1>1
    <3> DEFINE c == a[p]
               log == mirror[p]
    <3>2. c \in Position /\ Follows(c, e) /\ IsIn(log, e) /\ Copied(old, log, c) /\ e \in Entry
      BY <1>6, <1>9, <1>10, <2>4
    <3> HIDE DEF c, e, p, q
    <3>3. log \in Logs
      BY <3>1
    <3> HIDE DEF log
    <3>4. new = [old EXCEPT ![e.date] = Append(@, e.line)] /\ old \in Logs
      BY <2>1, <2>2
    <3>5. Copied(new, log, At(e))
      BY <2>3, <3>2, <3>3, <3>4, CopyOne
    <3> QED
      BY <3>5 DEF log
  <2> HIDE DEF p
  <2> QED
    BY <1>5, <1>7, <1>8, <2>1, <2>5 DEF CopiesExact, new
<1> QED
  BY <1>11, <1>12, <1>13 DEF b, w

(* The sync process, as long as it is not interrupted.                     *)
LEMMA ClientExact ==
    ASSUME SyncInv, CursorsInv, NEW m \in Machines, SyncNext(m),
           CopiesExact(m, peerLog[m], mirror, Applied(m, cursor[m], sync[m])),
           ScanExact(m, Applied(m, cursor[m], sync[m]), pull[m]),
           Abreast(m, sync[m], pull[m])
    PROVE  /\ CopiesExact(m, peerLog'[m], mirror, Applied(m, cursor'[m], sync'[m]))
           /\ ScanExact(m, Applied(m, cursor'[m], sync'[m]), pull'[m])
           /\ Abreast(m, sync'[m], pull'[m])
<1> DEFINE q == pull[m]
           r == pull'[m]
           v == sync[m]
           w == sync'[m]
           a == Applied(m, cursor[m], v)
           b == Applied(m, cursor'[m], w)
<1>1. /\ TypeOK /\ q \in Stream /\ v \in Process /\ v.peer \in Machines
      /\ sync \in [Machines -> Process] /\ cursor \in [Machines -> [Machines -> Position]]
      /\ pull \in [Machines -> Stream]
  BY Types DEF SyncInv, Process
<1>2. ScanExact(m, a, q) /\ CopiesExact(m, peerLog[m], mirror, a) /\ Abreast(m, v, q)
  OBVIOUS
<1>3. ~ PullBroken(m)
  BY <1>2 DEF PullBroken, Abreast
<1>4. /\ \A p \in Machines : a[p] = IF v.pc \in {"pull", "chunk"} /\ v.peer = p /\ p # m
                                    THEN v.pos ELSE cursor[m][p]
      /\ \A p \in Machines : b[p] = IF w.pc \in {"pull", "chunk"} /\ w.peer = p /\ p # m
                                    THEN w.pos ELSE cursor'[m][p]
  BY AppliedIs
<1>5. \A pc, since : /\ Request(m, since, pc).peer = m /\ Request(m, since, pc).pc = pc
                     /\ Request(m, since, pc).from = m /\ Len(Request(m, since, pc).chunk) = 0
  BY EmptySeq DEF Request
<1> HIDE DEF a, b
<1>6. ASSUME \A p \in Machines : b[p] = a[p], UNCHANGED peerLog, r = q, Abreast(m, w, q)
      PROVE  CopiesExact(m, peerLog'[m], mirror, b) /\ ScanExact(m, b, r) /\ Abreast(m, w, r)
  BY <1>1, <1>2, <1>6, SameExact
<1>7. ASSUME \A p \in Machines \ {m} : b[p] = a[p], UNCHANGED peerLog,
             r = NoStream(m) \/ r = Request(m, cursor'[m], "sent"),
             w.pc \notin {"pull", "chunk"} \/ w.peer = m
      PROVE  CopiesExact(m, peerLog'[m], mirror, b) /\ ScanExact(m, b, r) /\ Abreast(m, w, r)
  <2>1. r.peer = m /\ Len(r.chunk) = 0 /\ r.pc # "broken"
    BY <1>5, <1>7 DEF NoStream
  <2>2. ScanExact(m, b, r)
    BY <2>1, EmptyChain DEF ScanExact
  <2>3. Abreast(m, w, r)
    BY <1>7, <2>1 DEF Abreast
  <2>4. CopiesExact(m, peerLog'[m], mirror, b)
    BY <1>2, <1>7 DEF CopiesExact
  <2> QED
    BY <2>2, <2>3, <2>4
<1>8. CASE SyncStarts(m) \/ PushBatch(m) \/ PushOk(m)
  <2>1. /\ UNCHANGED <<peerLog, pull, cursor>>
        /\ v.pc \in {"idle", "push", "wait"} /\ w.pc \in {"push", "wait"}
    <3>1. CASE SyncStarts(m)
      BY <1>1, <3>1 DEF SyncStarts, rpcVars, Process
    <3>2. CASE PushBatch(m)
      <4>1. PICK s \in Slots, last \in Unread(m), batch \in SUBSET Entry :
              NewCall(m, s, last, batch)
        BY <1>1, <3>2, PushBatchCalls
      <4>2. w.pc = "wait" /\ v.pc = "push" /\ UNCHANGED <<peerLog, pull, cursor>>
        BY <4>1 DEF NewCall
      <4> QED
        BY <4>2
    <3>3. CASE PushOk(m)
      BY <1>1, <3>3 DEF PushOk, Process
    <3> QED
      BY <1>8, <3>1, <3>2, <3>3
  <2>2. \A p \in Machines : b[p] = a[p]
    BY <1>4, <2>1
  <2>3. Abreast(m, w, q)
    BY <1>2, <2>1 DEF Abreast
  <2> QED
    BY <1>6, <2>1, <2>2, <2>3 DEF b
<1>9. CASE PushError(m)
  <2>1. UNCHANGED <<peerLog, pull, cursor>> /\ v.pc = "wait" /\ w.pc = "idle"
    BY <1>1, <1>9 DEF PushError, IdleSync
  <2>2. \A p \in Machines : b[p] = a[p]
    BY <1>4, <2>1
  <2>3. Abreast(m, w, q)
    BY <1>2, <2>1 DEF Abreast
  <2> QED
    BY <1>6, <2>1, <2>2, <2>3 DEF b
<1>10. CASE PushDone(m)
  <2>1. /\ UNCHANGED peerLog /\ v.pc = "push" /\ w.peer = m
        /\ r = Request(m, cursor'[m], "sent")
        /\ \A p \in Machines \ {m} : cursor'[m][p] = cursor[m][p]
    BY <1>1, <1>10 DEF PushDone, IdleSync
  <2>2. \A p \in Machines \ {m} : b[p] = a[p]
    BY <1>4, <2>1
  <2> QED
    BY <1>7, <2>1, <2>2 DEF b
<1>11. CASE ApplyLine(m)
  BY <1>11, ApplyLineExact
<1>12. CASE SetPeerCursor(m)
  <2>1. /\ UNCHANGED <<peerLog, pull>> /\ v.pc = "chunk" /\ w.peer = m
        /\ cursor'[m] = [cursor[m] EXCEPT ![v.peer] = v.pos]
    BY <1>1, <1>12 DEF SetPeerCursor, IdleSync, rpcVars
  <2>2. v.peer # m
    BY <2>1 DEF SyncInv, PeersInv, FromOthers
  <2>3. cursor[m] \in [Machines -> Position]
    BY <1>1
  <2>4. \A p \in Machines : b[p] = a[p]
    BY <1>1, <1>4, <2>1, <2>2, <2>3
  <2>5. Abreast(m, w, q)
    BY <1>2, <2>1 DEF Abreast
  <2> QED
    BY <1>6, <2>1, <2>4, <2>5 DEF b
<1>13. CASE PullDone(m)
  <2>1. /\ UNCHANGED <<peerLog, cursor>> /\ v.pc = "pull" /\ w.pc = "idle"
        /\ r = NoStream(m) /\ Len(q.chunk) = 0
    BY <1>1, <1>13, EmptySeq DEF PullDone, IdleSync
  <2>2. v.peer = m
    BY <1>2, <2>1 DEF Abreast
  <2>3. \A p \in Machines \ {m} : b[p] = a[p]
    BY <1>4, <2>1, <2>2
  <2> QED
    BY <1>7, <2>1, <2>3 DEF b
<1> QED
  BY <1>3, <1>8, <1>9, <1>10, <1>11, <1>12, <1>13 DEF SyncNext

(* A step of any other party: the server's logs only grow.                 *)
LEMMA ExactGrows ==
    ASSUME TypeOK, TypeOK', MirrorsGrow, NEW m \in Machines, NEW copies \in [Machines -> Logs],
           NEW a, CopiesExact(m, copies, mirror, a)
    PROVE  CopiesExact(m, copies, mirror', a)
<1>1. \A p \in Machines : /\ copies[p] \in Logs /\ mirror[p] \in Logs /\ mirror'[p] \in Logs
                          /\ Longer(mirror[p], mirror'[p])
  BY DEF TypeOK, StoreTypeOK, MirrorsGrow
<1> QED
  BY <1>1, CopiedLonger DEF CopiesExact

LEMMA NextCopy == SyncInv /\ SyncInv' /\ CursorsInv /\ CopyInv /\ [Next]_vars => CopyInv'
<1> DEFINE Exact(p) ==
             /\ CopiesExact(p, peerLog[p], mirror, Applied(p, cursor[p], sync[p]))
             /\ ScanExact(p, Applied(p, cursor[p], sync[p]), pull[p])
             /\ Abreast(p, sync[p], pull[p])
<1> SUFFICES ASSUME SyncInv, SyncInv', CursorsInv, CopyInv, [Next]_vars, faults' = 0,
                    NEW p \in Machines
             PROVE  Exact(p)'
  BY DEF CopyInv
<1>1. TypeOK /\ TypeOK' /\ PeersInv /\ faults \in Nat /\ peerLog[p] \in [Machines -> Logs]
  BY DEF SyncInv, TypeOK, LaptopTypeOK
<1>2. ~Fault /\ faults = 0
  <2>1. ~Fault
    BY <1>1 DEF Fault
  <2>2. \/ \E m \in Machines : Server(m) \/ Host(m) \/ Client(m)
        \/ NewDay
        \/ UNCHANGED vars
    BY <2>1 DEF Next
  <2> QED
    BY <2>1, <2>2 DEF Server, Host, Client, NewDay, vars
<1>3. /\ CopiesExact(p, peerLog[p], mirror, Applied(p, cursor[p], sync[p]))
      /\ ScanExact(p, Applied(p, cursor[p], sync[p]), pull[p])
      /\ Abreast(p, sync[p], pull[p])
  BY <1>2 DEF CopyInv
<1>4. ASSUME peerLog'[p] = peerLog[p], cursor'[p] = cursor[p], sync'[p] = sync[p],
             pull'[p] = pull[p], MirrorsGrow
      PROVE  Exact(p)'
  BY <1>1, <1>3, <1>4, ExactGrows
<1>5. UNCHANGED laptopVars => UNCHANGED <<peerLog, cursor, sync>>
  BY DEF laptopVars, syncVars
<1>6. UNCHANGED mirror => MirrorsGrow
  BY <1>1, SameMirrorsGrow
<1>7. ASSUME NEW m \in Machines, Server(m) PROVE Exact(p)'
  <2>1. UNCHANGED laptopVars
    BY <1>7 DEF Server
  <2>2. CASE \E s \in Slots : PushServerStep(m, s)
    BY <1>1, <1>4, <1>5, <2>1, <2>2, PushServerMoves
  <2>3. CASE StreamStep(m)
    <3>1. UNCHANGED mirror
      BY <2>3 DEF StreamStep, PullBegins, ScanPeer, ReadLine, SendChunk
    <3>2. CASE p # m
      BY <1>1, <1>4, <1>5, <1>6, <2>1, <2>3, <3>1, <3>2, StreamStepMoves
    <3>3. CASE p = m
      <4>1. StreamMoves(p) /\ FromOthers(p, pull[p], sync[p])
        BY <1>1, <2>3, <3>3, StreamStepMoves DEF PeersInv
      <4>2. /\ ScanExact(p, Applied(p, cursor[p], sync[p]), pull'[p])
            /\ Abreast(p, sync[p], pull'[p])
        BY <1>1, <1>3, <4>1, StreamMovesExact
      <4> QED
        BY <1>3, <1>5, <2>1, <3>1, <4>2
    <3> QED
      BY <3>2, <3>3
  <2> QED
    BY <1>7, <2>2, <2>3 DEF Server, ServeNext, PushServerStep, StreamStep
<1>8. ASSUME NEW m \in Machines, Host(m) PROVE Exact(p)'
  BY <1>4, <1>6, <1>8
  DEF Host, HostNext, HostRuns, HostBegins, AppendAction, HostStores, AppendResult,
      syncVars, rpcVars, storeVars
<1>9. ASSUME NEW m \in Machines, Client(m) PROVE Exact(p)'
  <2>1. SyncNext(m) /\ UNCHANGED mirror /\ ClientStep(m)
    BY <1>9 DEF Client, ClientStep, storeVars
  <2>2. CASE p # m
    BY <1>1, <1>4, <1>6, <2>1, <2>2, ClientOthers DEF OthersKeep
  <2>3. CASE p = m
    BY <1>3, <2>1, <2>3, ClientExact
  <2> QED
    BY <2>2, <2>3
<1>10. CASE NewDay \/ UNCHANGED vars
  BY <1>4, <1>6, <1>10
  DEF NewDay, Midnight, vars, laptopVars, syncVars, rpcVars, storeVars
<1> QED
  BY <1>2, <1>7, <1>8, <1>9, <1>10 DEF Next

(***************************************************************************)
(* Until something fails, a laptop's copy of a peer's log, to which        *)
(* append_peer_line appends without looking at what is there, is a prefix  *)
(* of what the server has: each line once, in order, and none missing in   *)
(* between.  After a kill or a broken stream the laptop takes lines again  *)
(* and may have them in the copy twice; the theorem says that no           *)
(* interleaving without a failure can do that.                             *)
(***************************************************************************)
THEOREM CopiesAreExact == Spec => [](faults = 0 => PeerLogIsPrefix)
<1>1. SyncInv /\ CopyInv => (faults = 0 => PeerLogIsPrefix)
  <2> SUFFICES ASSUME SyncInv, CopyInv, faults = 0,
                      NEW m \in Machines, NEW p \in Machines, NEW d \in Dates
               PROVE  /\ Len(peerLog[m][p][d]) <= Len(mirror[p][d])
                      /\ \A i \in 1..Len(peerLog[m][p][d]) : peerLog[m][p][d][i] = mirror[p][d][i]
    BY DEF PeerLogIsPrefix
  <2>1. CASE p = m
    <3>1. Len(peerLog[m][p][d]) = 0
      BY <2>1 DEF CopyInv, CopiesExact
    <3>2. Len(mirror[p][d]) \in Nat
      BY Types, LogLengths DEF SyncInv
    <3> QED
      BY <3>1, <3>2
  <2>2. CASE p # m
    BY <2>2 DEF CopyInv, CopiesExact, Copied
  <2> QED
    BY <2>1, <2>2
<1>2. SyncInv /\ SyncInv' /\ CursorsInv /\ [Next]_vars => CursorsInv'
  BY NextCursors DEF SyncInv
<1> QED
  BY <1>1, <1>2, InitSync, NextSync, InitCursors, InitCopy, NextCopy, PTL DEF Spec
=============================================================================
