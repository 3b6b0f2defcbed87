----------------------------- MODULE Sync_proofs -----------------------------
(***************************************************************************)
(* Theorems about Sync, for every number of laptops, days, handlers,       *)
(* lines, batches and failures.                                            *)
(***************************************************************************)
EXTENDS SyncProps, VisitDb_proofs, SequenceTheorems

LEMMA NoPositionType == NoPosition \in Position
BY LastDateAssumption DEF NoPosition, Position

LEMMA AtType == ASSUME NEW e \in Entry PROVE At(e) \in Position
BY LastDateAssumption DEF At, Entry, Position, Dates

LEMMA EntriesAfterType ==
    ASSUME NEW logs \in Logs, NEW dates \in SUBSET Dates, NEW c \in Position
    PROVE  EntriesAfter(logs, dates, c) \subseteq Entry
<1> SUFFICES ASSUME NEW e \in EntriesAfter(logs, dates, c)
             PROVE  e \in Entry
  OBVIOUS
<1>1. PICK d \in dates : \E i \in 1..Len(logs[d]) :
          e = [date |-> d, off |-> i - 1, line |-> logs[d][i]]
  BY DEF EntriesAfter
<1>2. logs[d] \in Seq(Line)
  BY DEF Logs
<1> QED
  BY <1>1, <1>2 DEF Entry

(***************************************************************************)
(* What AppendLogLines makes of a file: n lines, the old ones first, each  *)
(* new one from the entry with its offset.                                 *)
(***************************************************************************)
LEMMA ExtendFacts ==
    ASSUME NEW log \in Seq(Line), NEW fresh \in SUBSET Entry, Fits(log, fresh)
    PROVE  /\ Extend(log, fresh) \in Seq(Line)
           /\ Len(Extend(log, fresh)) \in Counts(log, fresh)
           /\ Fills(log, fresh, Len(Extend(log, fresh)))
           /\ Len(Extend(log, fresh)) >= Len(log)
           /\ \A i \in 1..Len(log) : Extend(log, fresh)[i] = log[i]
           /\ \A i \in (Len(log) + 1)..Len(Extend(log, fresh)) :
                 \E e \in fresh : e.off = i - 1 /\ Extend(log, fresh)[i] = e.line
<1> DEFINE n == CHOOSE k \in Counts(log, fresh) : Fills(log, fresh, k)
           new(i) == CHOOSE e \in fresh : e.off = i - 1
           x == [i \in 1..n |-> IF i <= Len(log) THEN log[i] ELSE new(i).line]
<1>1. n \in Counts(log, fresh) /\ Fills(log, fresh, n)
  BY DEF Fits
<1>2. Extend(log, fresh) = x
  BY DEF Extend
<1> HIDE DEF n
<1>3. Len(log) \in Nat
  BY LenProperties
<1>4. n \in Nat
  BY <1>1, <1>3 DEF Counts, Entry
<1>5. n >= Len(log)
  <2>1. CASE n = Len(log)
    BY <1>3, <2>1
  <2>2. CASE n # Len(log)
    <3>1. PICK e \in fresh : n = e.off + 1
      BY <1>1, <2>2 DEF Counts
    <3>2. e.off \in Len(log)..(n - 1)
      BY <1>1 DEF Fills
    <3> QED
      BY <1>3, <1>4, <3>2
  <2> QED
    BY <2>1, <2>2
<1>6. ASSUME NEW i \in (Len(log) + 1)..n
      PROVE  new(i) \in fresh /\ new(i).off = i - 1
  <2>1. i - 1 \in Len(log)..(n - 1)
    BY <1>3, <1>4
  <2>2. \E e \in fresh : e.off = i - 1
    BY <1>1, <2>1 DEF Fills
  <2> QED
    BY <2>2
<1> HIDE DEF new
<1>7. ASSUME NEW i \in 1..n
      PROVE  x[i] \in Line
  <2>1. CASE i <= Len(log)
    BY <1>3, <1>4, <2>1, ElementOfSeq
  <2>2. CASE ~(i <= Len(log))
    <3>1. new(i) \in Entry
      BY <1>3, <1>4, <1>6, <2>2
    <3> QED
      BY <2>2, <3>1 DEF Entry
  <2> QED
    BY <2>1, <2>2
<1>8. x \in [1..n -> Line]
  BY <1>7
<1>9. x \in Seq(Line) /\ Len(x) = n
  BY <1>4, <1>8, SeqDef, LenProperties
<1>10. \A i \in 1..Len(log) : x[i] = log[i]
  BY <1>3, <1>4, <1>5
<1>11. ASSUME NEW i \in (Len(log) + 1)..n
       PROVE  new(i) \in fresh /\ new(i).off = i - 1 /\ x[i] = new(i).line
  BY <1>3, <1>4, <1>6
<1> HIDE DEF x
<1> QED
  BY <1>1, <1>2, <1>5, <1>9, <1>10, <1>11

LEMMA AppendUpToType ==
    ASSUME NEW logs \in Logs, NEW batch \in SUBSET Entry, NEW k \in 1..(LastDate + 1),
           \A d \in 1..(k - 1) : ~Gap(logs, batch, d)
    PROVE  AppendUpTo(logs, batch, k) \in Logs
<1> SUFFICES ASSUME NEW d \in Dates
             PROVE  (IF d < k THEN Extend(logs[d], Fresh(logs[d], batch, d))
                     ELSE logs[d]) \in Seq(Line)
  BY DEF AppendUpTo, Logs
<1>1. logs[d] \in Seq(Line)
  BY DEF Logs
<1>2. CASE d < k
  <2>1. Fits(logs[d], Fresh(logs[d], batch, d))
    BY <1>2, LastDateAssumption DEF Gap, Dates
  <2>2. Fresh(logs[d], batch, d) \in SUBSET Entry
    BY DEF Fresh
  <2> QED
    BY <1>1, <1>2, <2>1, <2>2, ExtendFacts
<1> QED
  BY <1>1, <1>2

(***************************************************************************)
(* Type correctness.                                                       *)
(***************************************************************************)
LEMMA HandlerTypes ==
    /\ FreeSlot \in Handler
    /\ \A batch \in SUBSET Entry : Call(batch) \in Handler
BY DEF FreeSlot, Call, Handler

LEMMA AnswerType ==
    ASSUME RpcTypeOK, NEW m \in Machines, NEW s \in Slots,
           NEW res \in {"ok", "error"}, Answer(m, s, res), UNCHANGED pull
    PROVE  RpcTypeOK'
<1> DEFINE h == handlers[m][s]
           x == IF h.live THEN [h EXCEPT !.pc = res, !.todo = {}] ELSE FreeSlot
<1>1. h \in Handler
  BY DEF RpcTypeOK
<1>2. x \in Handler
  BY <1>1, HandlerTypes DEF Handler
<1>3. handlers' = [handlers EXCEPT ![m][s] = x]
  BY DEF Answer
<1> HIDE DEF x
<1> QED
  BY <1>2, <1>3 DEF RpcTypeOK

LEMMA RequestTypes ==
    ASSUME NEW m \in Machines
    PROVE  /\ \A since \in Cursors, pc \in {"sent", "closed"} :
                 Request(m, since, pc) \in Stream
           /\ NoStream(m) \in Stream
           /\ NoCursors \in Cursors
<1>1. ASSUME NEW since \in Cursors, NEW pc \in {"sent", "closed"}
      PROVE  Request(m, since, pc) \in Stream
  <2>1. <<>> \in Seq(Entry)
    BY EmptySeq
  <2> QED
    BY <2>1, NoPositionType DEF Request, Stream, Cursors
<1>2. [p \in Machines |-> NoPosition] \in Cursors
  BY NoPositionType DEF Cursors
<1> QED
  BY <1>1, <1>2 DEF NoStream, NoCursors

LEMMA InitType == Init => TypeOK
<1> SUFFICES ASSUME Init PROVE TypeOK
  OBVIOUS
<1> USE DEF Init
<1>1. <<>> \in Seq(Line)
  BY EmptySeq
<1>2. RpcTypeOK
  BY HandlerTypes, RequestTypes DEF RpcInit, RpcTypeOK
<1>3. StoreTypeOK
  BY <1>1, EmptyDbType DEF StoreInit, StoreTypeOK, Logs
<1>4. LaptopTypeOK
  <2>1. today \in Dates
    BY LastDateAssumption DEF LaptopInit, Dates
  <2>2. IdleHost \in Invocation
    BY LastDateAssumption DEF IdleHost, Invocation
  <2>3. \A m \in Machines : IdleSync(m) \in Process
    BY NoPositionType DEF IdleSync, Process
  <2>4. NoCursors \in Cursors
    BY NoPositionType DEF NoCursors, Cursors
  <2>5. Closed \in Image
    BY <2>4, EmptyDbType DEF Closed, Image
  <2> QED
    BY <1>1, <2>1, <2>2, <2>3, <2>4, <2>5, EmptyDbType
    DEF LaptopInit, LaptopTypeOK, Logs
<1> QED
  BY <1>2, <1>3, <1>4 DEF TypeOK

(***************************************************************************)
(* The actions of the server.                                              *)
(***************************************************************************)
LEMMA AppendLogLinesType ==
    ASSUME RpcTypeOK, StoreTypeOK, NEW m \in Machines, NEW s \in Slots,
           AppendLogLines(m, s)
    PROVE  RpcTypeOK' /\ StoreTypeOK'
<1> DEFINE h == handlers[m][s]
<1>1. h \in Handler /\ mirror[m] \in Logs
  BY DEF RpcTypeOK, StoreTypeOK
<1>2. PICK k \in 1..(LastDate + 1) :
         /\ FirstGap(m, s, k)
         /\ mirror' = [mirror EXCEPT ![m] = AppendUpTo(@, h.batch, k)]
         /\ IF k \in Dates
            THEN Answer(m, s, "error")
            ELSE handlers' = [handlers EXCEPT ![m][s].pc = "replay",
                                              ![m][s].todo = h.batch]
  BY DEF AppendLogLines
<1>3. AppendUpTo(mirror[m], h.batch, k) \in Logs
  BY <1>1, <1>2, AppendUpToType DEF FirstGap, Handler
<1>4. StoreTypeOK'
  BY <1>2, <1>3 DEF StoreTypeOK, AppendLogLines
<1>5. UNCHANGED pull
  BY DEF AppendLogLines
<1>6. CASE k \in Dates
  BY <1>2, <1>4, <1>5, <1>6, AnswerType
<1>7. CASE k \notin Dates
  <2>1. [h EXCEPT !.pc = "replay", !.todo = h.batch] \in Handler
    BY <1>1 DEF Handler
  <2>2. handlers' = [handlers EXCEPT ![m][s] =
                        [h EXCEPT !.pc = "replay", !.todo = h.batch]]
    BY <1>2, <1>7 DEF RpcTypeOK
  <2> QED
    BY <1>5, <2>1, <2>2, <1>4 DEF RpcTypeOK
<1> QED
  BY <1>4, <1>6, <1>7

LEMMA AppendFailsType ==
    ASSUME RpcTypeOK, StoreTypeOK, NEW m \in Machines, NEW s \in Slots,
           NEW k \in Dates, AppendFails(m, s, k)
    PROVE  RpcTypeOK' /\ StoreTypeOK'
<1> DEFINE h == handlers[m][s]
<1>1. h \in Handler /\ mirror[m] \in Logs
  BY DEF RpcTypeOK, StoreTypeOK
<1>2. AppendUpTo(mirror[m], h.batch, k) \in Logs
  BY <1>1, LastDateAssumption, AppendUpToType DEF AppendFails, Handler, Dates
<1>3. StoreTypeOK'
  BY <1>2 DEF StoreTypeOK, AppendFails
<1> QED
  BY <1>3, AnswerType DEF AppendFails

LEMMA ReplayType ==
    ASSUME RpcTypeOK, StoreTypeOK, NEW m \in Machines, NEW s \in Slots,
           ReplayOne(m, s) \/ ReplayFails(m, s) \/ PushReturns(m, s)
    PROVE  RpcTypeOK' /\ StoreTypeOK'
<1> DEFINE h == handlers[m][s]
<1>1. h \in Handler
  BY DEF RpcTypeOK
<1>2. CASE ReplayOne(m, s)
  <2>1. PICK e \in h.todo : /\ canon' = ReplayLine(canon, e.line)
                            /\ handlers' = [handlers EXCEPT ![m][s].todo = @ \ {e}]
    BY <1>2 DEF ReplayOne
  <2>2. e.line \in Line
    BY <1>1 DEF Handler, Entry
  <2>3. StoreTypeOK'
    BY <1>2, <2>1, <2>2, ReplayLineType DEF StoreTypeOK, ReplayOne
  <2>4. [h EXCEPT !.todo = @ \ {e}] \in Handler
    BY <1>1 DEF Handler
  <2>5. RpcTypeOK'
    BY <1>2, <2>1, <2>4 DEF RpcTypeOK, ReplayOne
  <2> QED
    BY <2>3, <2>5
<1>3. CASE ReplayFails(m, s)
  <2>1. PICK e \in h.todo : canon' \in {canon, ReplayBasic(canon, e.line)}
    BY <1>3 DEF ReplayFails
  <2>2. e.line \in Line
    BY <1>1 DEF Handler, Entry
  <2>3. StoreTypeOK'
    BY <1>3, <2>1, <2>2, ReplayBasicGrows DEF StoreTypeOK, ReplayFails
  <2> QED
    BY <1>3, <2>3, AnswerType DEF ReplayFails
<1>4. CASE PushReturns(m, s)
  BY <1>4, AnswerType DEF PushReturns, StoreTypeOK
<1> QED
  BY <1>2, <1>3, <1>4

LEMMA StreamType ==
    ASSUME RpcTypeOK, StoreTypeOK, NEW m \in Machines,
           PullBegins(m) \/ ScanPeer(m) \/ ReadLine(m) \/ SendChunk(m)
    PROVE  RpcTypeOK' /\ StoreTypeOK'
<1> DEFINE q == pull[m]
<1>1. q \in Stream
  BY DEF RpcTypeOK
<1>2. StoreTypeOK' /\ handlers' = handlers
  BY DEF StoreTypeOK, PullBegins, ScanPeer, ReadLine, SendChunk
<1> SUFFICES ASSUME TRUE PROVE \E x \in Stream : pull' = [pull EXCEPT ![m] = x]
  BY <1>2 DEF RpcTypeOK
<1>3. CASE PullBegins(m)
  <2> DEFINE x == [q EXCEPT !.pc = "open",
                            !.peers = {p \in Machines \ {m} : HasDirectory(p)}]
  <2>1. x \in Stream
    BY <1>1 DEF Stream
  <2>2. pull' = [pull EXCEPT ![m] = x]
    BY <1>3 DEF PullBegins, RpcTypeOK
  <2> QED
    BY <2>1, <2>2
<1>4. CASE ScanPeer(m)
  <2>1. CASE q.peers = {}
    <3>1. [q EXCEPT !.pc = "done"] \in Stream
      BY <1>1 DEF Stream
    <3> QED
      BY <1>4, <2>1, <3>1 DEF ScanPeer
  <2>2. CASE q.peers # {}
    <3>1. PICK p \in q.peers :
            pull' = [pull EXCEPT
                      ![m].peers = @ \ {p},
                      ![m].peer = p,
                      ![m].dates = {d \in Dates : /\ mirror[p][d] # <<>>
                                                  /\ d >= q.since[p].date},
                      ![m].pos = q.since[p]]
      BY <1>4, <2>2 DEF ScanPeer
    <3> DEFINE x == [q EXCEPT
                      !.peers = @ \ {p},
                      !.peer = p,
                      !.dates = {d \in Dates : /\ mirror[p][d] # <<>>
                                               /\ d >= q.since[p].date},
                      !.pos = q.since[p]]
    <3>2. p \in Machines /\ q.since[p] \in Position
      BY <1>1 DEF Stream
    <3>3. x \in Stream
      BY <1>1, <3>2 DEF Stream
    <3>4. pull' = [pull EXCEPT ![m] = x]
      BY <3>1 DEF RpcTypeOK
    <3> QED
      BY <3>3, <3>4
  <2> QED
    BY <2>1, <2>2
<1>5. CASE ReadLine(m)
  <2>1. PICK d \in q.dates :
          LET log == mirror[q.peer][d]
              o   == IF q.pos.date = d THEN q.pos.off + 1 ELSE 0
              e   == [date |-> d, off |-> o, line |-> log[o + 1]]
          IN  pull' = IF o < Len(log)
                      THEN [pull EXCEPT ![m].batch = Append(@, e),
                                        ![m].pos = At(e)]
                      ELSE [pull EXCEPT ![m].dates = @ \ {d}]
    BY <1>5 DEF ReadLine
  <2> DEFINE log == mirror[q.peer][d]
             o   == IF q.pos.date = d THEN q.pos.off + 1 ELSE 0
             e   == [date |-> d, off |-> o, line |-> log[o + 1]]
  <2>2. d \in Dates /\ log \in Seq(Line) /\ o \in Nat
    BY SMTT(20), <1>1 DEF StoreTypeOK, Logs, Stream, Position
  <2>3. CASE o < Len(log)
    <3>1. e \in Entry
      BY <2>2, <2>3 DEF Entry
    <3>2. Append(q.batch, e) \in Seq(Entry) /\ At(e) \in Position
      BY <1>1, <3>1, AtType DEF Stream
    <3> DEFINE x == [q EXCEPT !.batch = Append(@, e), !.pos = At(e)]
    <3> HIDE DEF e
    <3>3. x \in Stream
      BY <1>1, <3>2 DEF Stream
    <3>4. pull' = [pull EXCEPT ![m] = x]
      BY <2>1, <2>3 DEF RpcTypeOK, e
    <3> QED
      BY <3>3, <3>4
  <2>4. CASE ~(o < Len(log))
    <3>1. [q EXCEPT !.dates = @ \ {d}] \in Stream
      BY <1>1 DEF Stream
    <3>2. pull' = [pull EXCEPT ![m] = [q EXCEPT !.dates = @ \ {d}]]
      BY <2>1, <2>4 DEF RpcTypeOK
    <3> QED
      BY <3>1, <3>2
  <2> QED
    BY <2>3, <2>4
<1>6. CASE SendChunk(m)
  <2> DEFINE x == [q EXCEPT !.chunk = q.batch, !.from = q.peer, !.batch = <<>>]
  <2>1. x \in Stream
    BY <1>1, EmptySeq DEF Stream
  <2>2. pull' = [pull EXCEPT ![m] = x]
    BY <1>6 DEF SendChunk, RpcTypeOK
  <2> QED
    BY <2>1, <2>2
<1> QED
  BY <1>3, <1>4, <1>5, <1>6

LEMMA RestartType ==
    ASSUME RpcTypeOK, StoreTypeOK, Restart
    PROVE  RpcTypeOK' /\ StoreTypeOK'
<1>1. StoreTypeOK'
  BY DEF StoreTypeOK, Restart
<1>2. ASSUME NEW m \in Machines, NEW s \in Slots
      PROVE  handlers'[m][s] \in Handler
  <2>1. handlers[m][s] \in Handler
    BY DEF RpcTypeOK
  <2>2. [handlers[m][s] EXCEPT !.pc = "error", !.todo = {}] \in Handler
    BY <2>1 DEF Handler
  <2> QED
    BY <2>1, <2>2, HandlerTypes DEF Restart
<1>3. handlers' \in [Machines -> [Slots -> Handler]]
  BY <1>2 DEF Restart
<1>4. ASSUME NEW m \in Machines
      PROVE  pull'[m] \in Stream
  <2>1. pull[m] \in Stream
    BY DEF RpcTypeOK
  <2>2. [pull[m] EXCEPT !.pc = "broken"] \in Stream
    BY <2>1 DEF Stream
  <2> QED
    BY <2>1, <2>2 DEF Restart
<1>5. pull' \in [Machines -> Stream]
  BY <1>4 DEF Restart
<1> QED
  BY <1>1, <1>3, <1>5 DEF RpcTypeOK

(***************************************************************************)
(* The actions of the host.                                                *)
(***************************************************************************)
LEMMA LinesOfMessages ==
    ASSUME NEW msg \in Message
    PROVE  ActionLine(msg) \in Line /\ \A res \in ResultKinds : ResultLine(msg, res) \in Line
BY DEF Message, Line, ActionLine, ResultLine, ActionKinds, ResultKinds

LEMMA LogAppendType ==
    ASSUME local \in [Machines -> Logs], NEW m \in Machines, NEW d \in Dates,
           NEW l \in Line, LogAppend(m, d, l)
    PROVE  local' \in [Machines -> Logs]
<1>1. local[m][d] \in Seq(Line)
  BY DEF Logs
<1>2. Append(local[m][d], l) \in Seq(Line)
  BY <1>1
<1>3. [local[m] EXCEPT ![d] = Append(local[m][d], l)] \in Logs
  BY <1>2 DEF Logs
<1> QED
  BY <1>3 DEF LogAppend

LEMMA HostType ==
    ASSUME LaptopTypeOK, NEW m \in Machines, NEW h \in Procs,
           HostBegins(m, h) \/ HostRuns(m, h)
    PROVE  LaptopTypeOK'
<1> DEFINE v == host[m][h]
<1>1. v \in Invocation
  BY DEF LaptopTypeOK
<1>2. CASE HostBegins(m, h)
  <2>1. PICK msg \in Messages[today] :
          host' = [host EXCEPT ![m][h] = [pc |-> "pinned", date |-> today,
                                          msg |-> msg, res |-> "success"]]
    BY <1>2 DEF HostBegins
  <2>2. msg \in Message /\ today \in Dates
    BY MessagesAssumption DEF LaptopTypeOK
  <2>3. [pc |-> "pinned", date |-> today, msg |-> msg, res |-> "success"] \in Invocation
    BY <2>2 DEF Invocation, ResultKinds
  <2> QED
    BY <1>2, <2>1, <2>3 DEF LaptopTypeOK, HostBegins, syncVars
<1>3. CASE AppendAction(m, h)
  <2>1. v.date \in Dates /\ v.msg \in Message
    BY <1>1, <1>3 DEF AppendAction, Invocation, IdleHost
  <2>2. local' \in [Machines -> Logs]
    BY <1>3, <2>1, LinesOfMessages, LogAppendType DEF AppendAction, LaptopTypeOK
  <2>3. [v EXCEPT !.pc = "logged"] \in Invocation
    BY <1>1, <1>3 DEF AppendAction, Invocation, IdleHost
  <2> QED
    BY <1>3, <2>2, <2>3 DEF LaptopTypeOK, AppendAction, syncVars
<1>4. CASE HostStores(m, h)
  <2>1. v.msg \in Message
    BY <1>1, <1>4 DEF HostStores, Invocation, IdleHost
  <2>2. undo[m].open \in BOOLEAN /\ db[m] \in Db
    BY DEF LaptopTypeOK, Image
  <2>3. (IF undo[m].open THEN db[m] ELSE HostWrite(db[m], v.msg)) \in Db
    BY <2>1, <2>2, HostWriteType
  <2>4. db' \in [Machines -> Db]
    BY <1>4, <2>3 DEF HostStores, LaptopTypeOK
  <2> DEFINE res == IF undo[m].open THEN "error" ELSE "success"
             w   == [v EXCEPT !.pc = "stored", !.res = res]
  <2>5. res \in ResultKinds
    BY DEF ResultKinds
  <2>6. host' = [host EXCEPT ![m][h] = w]
    BY <1>4 DEF HostStores, LaptopTypeOK
  <2> HIDE DEF res
  <2>7. w \in Invocation
    <3>1. v \in [pc : {"pinned", "logged", "stored"}, date : Dates,
                 msg : Message, res : ResultKinds]
      BY <1>1, <1>4 DEF HostStores, Invocation, IdleHost
    <3> HIDE DEF v
    <3> QED
      BY <2>5, <3>1 DEF Invocation
  <2> HIDE DEF w
  <2>8. host' \in [Machines -> [Procs -> Invocation]]
    BY <2>6, <2>7 DEF LaptopTypeOK
  <2>9. UNCHANGED <<today, local, cursor, undo, sync, peerLog>>
    BY <1>4 DEF HostStores, syncVars
  <2> QED
    BY <2>4, <2>8, <2>9 DEF LaptopTypeOK
<1>5. CASE AppendResult(m, h)
  <2>1. v.date \in Dates /\ v.msg \in Message /\ v.res \in ResultKinds
    BY <1>1, <1>5 DEF AppendResult, Invocation, IdleHost
  <2>2. local' \in [Machines -> Logs]
    BY <1>5, <2>1, LinesOfMessages, LogAppendType DEF AppendResult, LaptopTypeOK
  <2>3. IdleHost \in Invocation
    BY DEF Invocation
  <2> QED
    BY <1>5, <2>2, <2>3 DEF LaptopTypeOK, AppendResult, syncVars
<1> QED
  BY <1>2, <1>3, <1>4, <1>5 DEF HostRuns

(***************************************************************************)
(* Transactions.                                                           *)
(***************************************************************************)
Transactional ==
    /\ db \in [Machines -> Db]
    /\ cursor \in [Machines -> Cursors]
    /\ undo \in [Machines -> Image]

LEMMA ClosedType == Closed \in Image
BY EmptyDbType, NoPositionType DEF Closed, Image, NoCursors, Cursors

LEMMA OpenTransactionType ==
    ASSUME Transactional, NEW m \in Machines, OpenTransaction(m)
    PROVE  undo' \in [Machines -> Image]
<1> DEFINE x == [open |-> TRUE, db |-> db[m], cursor |-> cursor[m]]
<1>1. x \in Image
  BY DEF Image, Transactional
<1> HIDE DEF x
<1>2. undo' = undo \/ undo' = [undo EXCEPT ![m] = x]
  BY DEF OpenTransaction, x
<1> QED
  BY <1>1, <1>2 DEF Transactional

LEMMA CommitType ==
    ASSUME Transactional, NEW m \in Machines, Commit(m)
    PROVE  undo' \in [Machines -> Image]
BY ClosedType DEF Commit, Transactional

LEMMA RollbackType ==
    ASSUME Transactional, NEW m \in Machines, Rollback(m)
    PROVE  Transactional'
<1>1. undo[m].db \in Db /\ undo[m].cursor \in Cursors
  BY DEF Transactional, Image
<1>2. undo' \in [Machines -> Image]
  BY ClosedType DEF Rollback, Transactional
<1>3. db' \in [Machines -> Db]
  BY <1>1 DEF Rollback, Transactional
<1>4. cursor' \in [Machines -> Cursors]
  BY <1>1 DEF Rollback, Transactional
<1> QED
  BY <1>2, <1>3, <1>4 DEF Transactional

LEMMA SetCursorType ==
    ASSUME cursor \in [Machines -> Cursors], NEW m \in Machines, NEW p \in Machines,
           NEW c \in Position
    PROVE  [cursor EXCEPT ![m][p] = c] \in [Machines -> Cursors]
BY DEF Cursors

LEMMA IdleSyncType ==
    ASSUME NEW m \in Machines
    PROVE  /\ IdleSync(m) \in Process
           /\ [IdleSync(m) EXCEPT !.pc = "pull"] \in Process
BY NoPositionType DEF IdleSync, Process

LEMMA SetSlotType ==
    ASSUME RpcTypeOK, NEW m \in Machines, NEW s, NEW h \in Handler
    PROVE  [handlers EXCEPT ![m][s] = h] \in [Machines -> [Slots -> Handler]]
BY DEF RpcTypeOK

LEMMA AbandonType ==
    ASSUME RpcTypeOK, NEW m \in Machines, NEW s, Abandon(m, s)
    PROVE  handlers' \in [Machines -> [Slots -> Handler]]
<1>1. CASE handlers' = [handlers EXCEPT ![m][s] = FreeSlot]
  BY <1>1, SetSlotType, HandlerTypes
<1>2. CASE handlers' = [handlers EXCEPT ![m][s].live = FALSE] /\ s \in Slots
  <2> DEFINE h == handlers[m][s]
             x == [h EXCEPT !.live = FALSE]
  <2>1. h \in Handler
    BY <1>2 DEF RpcTypeOK
  <2>2. handlers' = [handlers EXCEPT ![m][s] = x]
    BY <1>2 DEF RpcTypeOK
  <2> HIDE DEF h
  <2>3. x \in Handler
    BY <2>1 DEF Handler
  <2> QED
    BY <2>2, <2>3, SetSlotType
<1>3. CASE handlers' = [handlers EXCEPT ![m][s].live = FALSE] /\ s \notin Slots
  BY <1>3 DEF RpcTypeOK
<1> QED
  BY <1>1, <1>2, <1>3 DEF Abandon

(***************************************************************************)
(* The actions of the sync process.                                        *)
(***************************************************************************)
LEMMA PushType ==
    ASSUME RpcTypeOK, LaptopTypeOK, NEW m \in Machines,
           SyncStarts(m) \/ PushBatch(m) \/ PushOk(m) \/ PushError(m)
           \/ PushTimeout(m) \/ PushDone(m)
    PROVE  RpcTypeOK' /\ LaptopTypeOK'
<1> DEFINE v == sync[m]
<1>1. /\ v \in Process
      /\ v.pos \in Position
      /\ Transactional
      /\ local[m] \in Logs
      /\ cursor[m] \in Cursors
  BY DEF LaptopTypeOK, Process, Transactional
<1>2. CASE SyncStarts(m)
  <2> DEFINE w == [v EXCEPT !.pc = "push",
                            !.dates = {d \in Dates : /\ local[m][d] # <<>>
                                                     /\ d >= cursor[m][m].date},
                            !.pos = cursor[m][m]]
  <2>1. cursor[m][m] \in Position
    BY <1>1 DEF Cursors
  <2>2. w \in Process
    BY <1>1, <2>1 DEF Process
  <2>3. sync' = [sync EXCEPT ![m] = w]
    BY <1>2 DEF SyncStarts, LaptopTypeOK
  <2> HIDE DEF w
  <2> QED
    BY <1>2, <2>2, <2>3 DEF SyncStarts, LaptopTypeOK, RpcTypeOK, hostVars, rpcVars
<1>3. CASE PushBatch(m)
  <2>1. Unread(m) \subseteq Entry
    BY <1>1, EntriesAfterType DEF Unread, Process
  <2>2. PICK s \in Slots, last \in Unread(m) :
          LET batch == {e \in Unread(m) : ~Precedes(last, e)}
              full  == Cardinality(batch) = BatchSize
          IN  /\ handlers' = [handlers EXCEPT ![m][s] = Call(batch)]
              /\ sync' = [sync EXCEPT ![m].pc = "wait",
                                      ![m].dates = IF full THEN @ ELSE {},
                                      ![m].pos = At(last),
                                      ![m].slot = s]
    BY <1>3 DEF PushBatch
  <2> DEFINE batch == {e \in Unread(m) : ~Precedes(last, e)}
             dates == IF Cardinality(batch) = BatchSize THEN v.dates ELSE {}
             w     == [v EXCEPT !.pc = "wait", !.dates = dates,
                                !.pos = At(last), !.slot = s]
  <2>3. Call(batch) \in Handler
    BY <2>1, HandlerTypes
  <2>4. At(last) \in Position /\ dates \in SUBSET Dates
    BY <1>1, <2>1, AtType DEF Process
  <2>5. sync' = [sync EXCEPT ![m] = w]
    BY <2>2 DEF LaptopTypeOK
  <2> HIDE DEF dates
  <2>6. w \in Process
    BY <1>1, <2>4 DEF Process
  <2>7. handlers' \in [Machines -> [Slots -> Handler]]
    BY <2>2, <2>3, SetSlotType
  <2> HIDE DEF w, batch
  <2> QED
    BY <1>3, <2>5, <2>6, <2>7 DEF PushBatch, LaptopTypeOK, RpcTypeOK, hostVars
<1>4. CASE PushOk(m)
  <2>1. handlers' \in [Machines -> [Slots -> Handler]]
    BY <1>4, SetSlotType, HandlerTypes DEF PushOk
  <2>2. [v EXCEPT !.pc = "push"] \in Process
    BY <1>1 DEF Process
  <2>3. undo' \in [Machines -> Image]
    BY <1>1, <1>4, OpenTransactionType DEF PushOk
  <2> QED
    BY <1>4, <2>1, <2>2, <2>3 DEF PushOk, LaptopTypeOK, RpcTypeOK, hostVars
<1>5. CASE PushError(m) \/ PushTimeout(m)
  <2>1. handlers' \in [Machines -> [Slots -> Handler]]
    BY SMTT(20), <1>5, SetSlotType, HandlerTypes, AbandonType DEF PushError, PushTimeout
  <2>2. undo' \in [Machines -> Image]
    BY <1>1, <1>5, CommitType DEF PushError, PushTimeout
  <2> QED
    BY <1>5, <2>1, <2>2, IdleSyncType
    DEF PushError, PushTimeout, LaptopTypeOK, RpcTypeOK, hostVars
<1>6. CASE PushDone(m)
  <2>1. cursor' \in [Machines -> Cursors]
    BY <1>1, <1>6, SetCursorType DEF PushDone, LaptopTypeOK
  <2>2. Request(m, cursor'[m], "sent") \in Stream
    BY <2>1, RequestTypes
  <2>3. undo' \in [Machines -> Image]
    BY <1>1, <1>6, CommitType DEF PushDone
  <2> QED
    BY <1>6, <2>1, <2>2, <2>3, IdleSyncType
    DEF PushDone, LaptopTypeOK, RpcTypeOK, hostVars
<1> QED
  BY <1>2, <1>3, <1>4, <1>5, <1>6

LEMMA PullType ==
    ASSUME RpcTypeOK, LaptopTypeOK, NEW m \in Machines,
           ApplyLine(m) \/ SetPeerCursor(m) \/ PullDone(m) \/ PullEndsEarly(m)
           \/ SyncKilled(m)
    PROVE  RpcTypeOK' /\ LaptopTypeOK'
<1> DEFINE v == sync[m]
           q == pull[m]
<1>1. /\ v \in Process
      /\ q \in Stream
      /\ Transactional
      /\ NoStream(m) \in Stream
  BY RequestTypes DEF LaptopTypeOK, RpcTypeOK, Transactional
<1>2. CASE ApplyLine(m)
  <2> DEFINE p == q.from
             e == Head(q.chunk)
             pc == IF Len(q.chunk) = 1 THEN "chunk" ELSE "pull"
             w == [v EXCEPT !.pc = pc, !.pos = At(e), !.peer = p]
  <2>1. p \in Machines /\ e \in Entry /\ Tail(q.chunk) \in Seq(Entry)
    BY <1>1, <1>2, HeadTailProperties DEF ApplyLine, Stream
  <2>2. /\ peerLog' = [peerLog EXCEPT ![m][p][e.date] = Append(@, e.line)]
        /\ db' = [db EXCEPT ![m] = ReplayIntoDb(@, e.line)]
        /\ sync' = [sync EXCEPT ![m] = w]
        /\ pull' = [pull EXCEPT ![m] = [q EXCEPT !.chunk = Tail(@)]]
    BY <1>2 DEF ApplyLine, LaptopTypeOK, RpcTypeOK
  <2>3. e.date \in Dates /\ e.line \in Line
    BY <2>1 DEF Entry
  <2>4. peerLog' \in [Machines -> [Machines -> Logs]]
    <3>1. Append(peerLog[m][p][e.date], e.line) \in Seq(Line)
      BY <2>1, <2>3 DEF LaptopTypeOK, Logs
    <3>2. [peerLog[m][p] EXCEPT ![e.date] = Append(@, e.line)] \in Logs
      BY <2>1, <3>1 DEF LaptopTypeOK, Logs
    <3> QED
      BY <2>1, <2>2, <3>2 DEF LaptopTypeOK
  <2>5. db' \in [Machines -> Db]
    BY SMTT(20), <2>2, <2>3, ReplaysAgree, ReplayLineType DEF LaptopTypeOK
  <2>6. undo' \in [Machines -> Image]
    BY <1>1, <1>2, OpenTransactionType DEF ApplyLine, Transactional
  <2>7. At(e) \in Position /\ pc \in {"pull", "chunk"}
    BY <2>1, AtType
  <2> HIDE DEF pc, e, p
  <2>8. w \in Process
    BY <1>1, <2>1, <2>7 DEF Process
  <2>9. [q EXCEPT !.chunk = Tail(@)] \in Stream
    BY <1>1, <2>1 DEF Stream
  <2>10. UNCHANGED <<today, local, host, cursor, handlers>>
    BY <1>2 DEF ApplyLine, hostVars
  <2> HIDE DEF w, q
  <2> QED
    BY <2>2, <2>4, <2>5, <2>6, <2>8, <2>9, <2>10 DEF LaptopTypeOK, RpcTypeOK
<1>3. CASE SetPeerCursor(m)
  <2>1. cursor' \in [Machines -> Cursors]
    BY <1>1, <1>3, SetCursorType DEF SetPeerCursor, Process, LaptopTypeOK
  <2>2. undo' \in [Machines -> Image]
    BY <1>1, <1>3, OpenTransactionType DEF SetPeerCursor
  <2> QED
    BY <1>3, <2>1, <2>2, IdleSyncType
    DEF SetPeerCursor, LaptopTypeOK, RpcTypeOK, hostVars, rpcVars
<1>4. CASE PullDone(m) \/ PullEndsEarly(m)
  <2>1. undo' \in [Machines -> Image]
    BY <1>1, <1>4, CommitType DEF PullDone, PullEndsEarly
  <2> QED
    BY <1>1, <1>4, <2>1, IdleSyncType
    DEF PullDone, PullEndsEarly, LaptopTypeOK, RpcTypeOK, hostVars
<1>5. CASE SyncKilled(m)
  <2>1. Transactional'
    BY <1>1, <1>5, RollbackType DEF SyncKilled
  <2>2. handlers' \in [Machines -> [Slots -> Handler]]
    BY <1>5, AbandonType DEF SyncKilled, RpcTypeOK
  <2> QED
    BY <1>1, <1>5, <2>1, <2>2, IdleSyncType
    DEF SyncKilled, Transactional, LaptopTypeOK, RpcTypeOK, hostVars
<1> QED
  BY <1>2, <1>3, <1>4, <1>5

(***************************************************************************)
(* Every variable of Sync keeps its type, whatever the parties do and      *)
(* whatever fails.                                                         *)
(***************************************************************************)
LEMMA NextType == TypeOK /\ [Next]_vars => TypeOK'
<1> SUFFICES ASSUME TypeOK, [Next]_vars
             PROVE  TypeOK'
  OBVIOUS
<1>1. RpcTypeOK /\ StoreTypeOK /\ LaptopTypeOK /\ faults \in Nat
  BY DEF TypeOK
<1>2. UNCHANGED rpcVars => RpcTypeOK'
  BY <1>1 DEF RpcTypeOK, rpcVars
<1>3. UNCHANGED storeVars => StoreTypeOK'
  BY <1>1 DEF StoreTypeOK, storeVars
<1>4. UNCHANGED laptopVars => LaptopTypeOK'
  BY <1>1 DEF LaptopTypeOK, laptopVars, hostVars, syncVars
<1>5. ASSUME NEW m \in Machines, Server(m)
      PROVE  TypeOK'
  <2>1. ServeNext(m) /\ UNCHANGED <<laptopVars, faults>>
    BY <1>5 DEF Server
  <2>2. RpcTypeOK' /\ StoreTypeOK'
    BY <1>1, <2>1, AppendLogLinesType, ReplayType, StreamType DEF ServeNext
  <2> QED
    BY <1>1, <1>4, <2>1, <2>2 DEF TypeOK
<1>6. ASSUME NEW m \in Machines, Host(m)
      PROVE  TypeOK'
  <2>1. HostNext(m) /\ UNCHANGED <<rpcVars, storeVars, faults>>
    BY <1>6 DEF Host
  <2>2. LaptopTypeOK'
    BY <1>1, <2>1, HostType DEF HostNext
  <2> QED
    BY <1>1, <1>2, <1>3, <2>1, <2>2 DEF TypeOK
<1>7. ASSUME NEW m \in Machines, Client(m)
      PROVE  TypeOK'
  <2>1. SyncNext(m) /\ UNCHANGED <<storeVars, faults>>
    BY <1>7 DEF Client
  <2>2. RpcTypeOK' /\ LaptopTypeOK'
    BY <1>1, <2>1, PushType, PullType DEF SyncNext, PullBroken
  <2> QED
    BY <1>1, <1>3, <2>1, <2>2 DEF TypeOK
<1>8. CASE NewDay
  <2>1. Midnight /\ UNCHANGED <<rpcVars, storeVars, faults>>
    BY <1>8 DEF NewDay
  <2>2. today + 1 \in Dates
    BY <1>1, <2>1, LastDateAssumption DEF Midnight, LaptopTypeOK, Dates
  <2>3. LaptopTypeOK'
    BY <1>1, <2>1, <2>2 DEF Midnight, LaptopTypeOK, syncVars
  <2> QED
    BY <1>1, <1>2, <1>3, <2>1, <2>3 DEF TypeOK
<1>9. CASE Fault
  <2>1. faults' \in Nat
    BY <1>1, <1>9 DEF Fault
  <2>2. ASSUME NEW m \in Machines, NEW s \in Slots,
               (\E k \in Dates : AppendFails(m, s, k)) \/ ReplayFails(m, s)
        PROVE  RpcTypeOK' /\ StoreTypeOK'
    BY <1>1, <2>2, AppendFailsType, ReplayType
  <2>3. Restart => RpcTypeOK' /\ StoreTypeOK'
    BY <1>1, RestartType
  <2>4. ASSUME NEW m \in Machines, PushTimeout(m) \/ PullEndsEarly(m) \/ SyncKilled(m)
        PROVE  RpcTypeOK' /\ LaptopTypeOK'
    BY <1>1, <2>4, PushType, PullType
  <2> QED
    BY <1>3, <1>4, <1>9, <2>1, <2>2, <2>3, <2>4 DEF Fault, TypeOK
<1>10. CASE UNCHANGED vars
  BY <1>1, <1>2, <1>3, <1>4, <1>10 DEF vars, TypeOK
<1> QED
  BY <1>5, <1>6, <1>7, <1>8, <1>9, <1>10 DEF Next

THEOREM TypeCorrect == Spec => []TypeOK
BY InitType, NextType, PTL DEF Spec

(***************************************************************************)
(* Two safety properties: the counters of every database count its event   *)
(* rows, and the server's file is a copy of the first lines of the         *)
(* laptop's.                                                               *)
(***************************************************************************)

(***************************************************************************)
(* The counters.  The invariant also covers the databases that a crash     *)
(* rolls back to, and says that the event tables are finite.               *)
(***************************************************************************)
CountersInv ==
    /\ Counted(canon)
    /\ \A m \in Machines : Counted(db[m]) /\ Counted(undo[m].db)

LEMMA InitCounters == Init => CountersInv
BY EmptyDbCounted
DEF Init, StoreInit, LaptopInit, CountersInv, Closed

LEMMA ServerCounters ==
    ASSUME TypeOK, CountersInv, NEW m \in Machines, NEW s \in Slots,
           ReplayOne(m, s) \/ ReplayFails(m, s)
    PROVE  Counted(canon')
<1>1. PICK e \in handlers[m][s].todo :
         canon' \in {ReplayLine(canon, e.line), canon, ReplayBasic(canon, e.line)}
  BY DEF ReplayOne, ReplayFails
<1>2. e.line \in Line
  BY DEF TypeOK, RpcTypeOK, Handler, Entry
<1> QED
  BY <1>1, <1>2, ReplayKeepsCounters DEF CountersInv

(* Every step of a laptop leaves each database as it was, writes to it     *)
(* what the host or replay_into_db writes, or restores the one to roll     *)
(* back to; and keeps, takes or drops that one.                            *)
LEMMA LaptopCounters ==
    ASSUME TypeOK, CountersInv, NEW m \in Machines, Counted(db'[m]),
           \A p \in Machines \ {m} : db'[p] = db[p],
           \/ undo' = undo
           \/ OpenTransaction(m)
           \/ Commit(m),
           UNCHANGED canon
    PROVE  CountersInv'
<1>1. ASSUME NEW p \in Machines
      PROVE  Counted(db'[p])
  BY DEF CountersInv
<1>2. ASSUME NEW p \in Machines
      PROVE  Counted(undo'[p].db)
  <2>1. undo \in [Machines -> Image]
    BY DEF TypeOK, LaptopTypeOK
  <2>2. CASE undo' = undo
    BY <2>2 DEF CountersInv
  <2>3. CASE OpenTransaction(m)
    BY <2>1, <2>3 DEF OpenTransaction, CountersInv
  <2>4. CASE Commit(m)
    BY <2>1, <2>4, EmptyDbCounted DEF Commit, Closed, CountersInv
  <2> QED
    BY <2>2, <2>3, <2>4
<1> QED
  BY <1>1, <1>2 DEF CountersInv

LEMMA HostCounters ==
    ASSUME TypeOK, CountersInv, NEW m \in Machines, Host(m)
    PROVE  CountersInv'
<1>1. UNCHANGED <<canon, undo>>
  BY DEF Host, HostNext, HostRuns, HostBegins, AppendAction, HostStores,
         AppendResult, storeVars, syncVars
<1>2. CASE UNCHANGED db
  BY <1>1, <1>2 DEF CountersInv
<1>3. CASE ~ UNCHANGED db
  <2>1. PICK h \in Procs : HostStores(m, h)
    BY <1>3 DEF Host, HostNext, HostRuns, HostBegins, AppendAction, AppendResult
  <2>2. host[m][h].msg \in Message
    BY <2>1 DEF HostStores, TypeOK, LaptopTypeOK, Invocation, IdleHost
  <2>3. db \in [Machines -> Db]
    BY DEF TypeOK, LaptopTypeOK
  <2>4. \A p \in Machines \ {m} : db'[p] = db[p]
    BY <2>1, <2>3 DEF HostStores
  <2>5. db'[m] \in {db[m], HostWrite(db[m], host[m][h].msg)}
    BY <2>1, <2>3 DEF HostStores
  <2>6. Counted(db'[m])
    BY <2>2, <2>5, HostWriteKeepsCounters DEF CountersInv
  <2> QED
    BY <1>1, <2>4, <2>6, LaptopCounters
<1> QED
  BY <1>2, <1>3

LEMMA SyncCounters ==
    ASSUME TypeOK, CountersInv, NEW m \in Machines, UNCHANGED canon,
           SyncNext(m) \/ PushTimeout(m) \/ PullEndsEarly(m) \/ SyncKilled(m)
    PROVE  CountersInv'
<1>1. db \in [Machines -> Db] /\ undo \in [Machines -> Image]
  BY DEF TypeOK, LaptopTypeOK
<1>2. CASE SyncStarts(m) \/ PushBatch(m)
  BY <1>2 DEF SyncStarts, PushBatch, CountersInv
<1>3. CASE \/ PushOk(m) \/ PushError(m) \/ PushTimeout(m) \/ PushDone(m)
           \/ SetPeerCursor(m) \/ PullDone(m) \/ PullEndsEarly(m)
  <2>1. UNCHANGED db /\ (OpenTransaction(m) \/ Commit(m))
    BY <1>3 DEF PushOk, PushError, PushTimeout, PushDone, SetPeerCursor, PullDone,
                PullEndsEarly
  <2> QED
    BY <2>1, LaptopCounters DEF CountersInv
<1>4. CASE ApplyLine(m)
  <2> DEFINE e == Head(pull[m].chunk)
  <2>1. /\ db' = [db EXCEPT ![m] = ReplayIntoDb(@, e.line)]
        /\ undo' = undo \/ OpenTransaction(m)
        /\ pull[m].chunk # <<>>
    BY <1>4 DEF ApplyLine
  <2>2. e.line \in Line
    <3>1. pull[m].chunk \in Seq(Entry)
      BY DEF TypeOK, RpcTypeOK, Stream
    <3>2. e \in Entry
      BY <2>1, <3>1, HeadTailProperties
    <3> QED
      BY <3>2 DEF Entry
  <2>3. db'[m] = ReplayLine(db[m], e.line)
    BY <1>1, <2>1, <2>2, ReplaysAgree
  <2>4. Counted(db'[m])
    BY <2>2, <2>3, ReplayKeepsCounters DEF CountersInv
  <2>5. \A p \in Machines \ {m} : db'[p] = db[p]
    BY <1>1, <2>1
  <2> QED
    BY <2>1, <2>4, <2>5, LaptopCounters
<1>5. CASE SyncKilled(m)
  <2>1. Rollback(m)
    BY <1>5 DEF SyncKilled
  <2>2. Commit(m)
    BY <2>1 DEF Rollback, Commit
  <2>3. Counted(db'[m])
    BY <1>1, <2>1 DEF Rollback, CountersInv
  <2>4. \A p \in Machines \ {m} : db'[p] = db[p]
    BY <1>1, <2>1 DEF Rollback
  <2> QED
    BY <2>2, <2>3, <2>4, LaptopCounters
<1> QED
  BY <1>2, <1>3, <1>4, <1>5 DEF SyncNext, PullBroken

LEMMA NextCounters == TypeOK /\ CountersInv /\ [Next]_vars => CountersInv'
<1> SUFFICES ASSUME TypeOK, CountersInv, [Next]_vars
             PROVE  CountersInv'
  OBVIOUS
<1>1. ASSUME UNCHANGED laptopVars, Counted(canon')
      PROVE  CountersInv'
  BY <1>1 DEF CountersInv, laptopVars, syncVars
<1>2. ASSUME NEW m \in Machines, Server(m)
      PROVE  CountersInv'
  <2>1. UNCHANGED laptopVars
    BY <1>2 DEF Server
  <2>2. CASE UNCHANGED canon
    BY <1>1, <2>1, <2>2 DEF CountersInv
  <2>3. CASE \E s \in Slots : ReplayOne(m, s)
    BY <1>1, <2>1, <2>3, ServerCounters
  <2> QED
    BY <1>2, <2>2, <2>3
    DEF Server, ServeNext, AppendLogLines, PushReturns, PullBegins, ScanPeer,
        ReadLine, SendChunk
<1>3. ASSUME NEW m \in Machines, Host(m)
      PROVE  CountersInv'
  BY <1>3, HostCounters
<1>4. ASSUME NEW m \in Machines, Client(m)
      PROVE  CountersInv'
  BY <1>4, SyncCounters DEF Client, storeVars
<1>5. CASE NewDay
  BY <1>5 DEF NewDay, Midnight, storeVars, syncVars, CountersInv
<1>6. CASE Fault
  <2>1. ASSUME NEW m \in Machines, NEW s \in Slots, UNCHANGED laptopVars,
               (\E k \in Dates : AppendFails(m, s, k)) \/ ReplayFails(m, s)
        PROVE  CountersInv'
    <3>1. (\E k \in Dates : AppendFails(m, s, k)) => UNCHANGED canon
      BY DEF AppendFails
    <3> QED
      BY <1>1, <2>1, <3>1, ServerCounters DEF CountersInv
  <2>2. Restart /\ UNCHANGED laptopVars => CountersInv'
    BY <1>1 DEF Restart, CountersInv
  <2>3. ASSUME NEW m \in Machines, UNCHANGED storeVars,
               PushTimeout(m) \/ PullEndsEarly(m) \/ SyncKilled(m)
        PROVE  CountersInv'
    BY <2>3, SyncCounters DEF storeVars
  <2> QED
    BY <1>6, <2>1, <2>2, <2>3 DEF Fault
<1>7. CASE UNCHANGED vars
  BY <1>1, <1>7 DEF vars, storeVars, CountersInv
<1> QED
  BY <1>2, <1>3, <1>4, <1>5, <1>6, <1>7 DEF Next

(***************************************************************************)
(* read and skimmed count the event rows in the canonical database, in     *)
(* every laptop's and in every state a crash rolls back to, however often  *)
(* the server and the sync clients replay a line.                          *)
(***************************************************************************)
THEOREM CountersCorrect == Spec => []CountersMatchEvents
<1>1. CountersInv => CountersMatchEvents
  BY DEF CountersInv, CountersMatchEvents, CommittedDb, Counted
<1> QED
  BY <1>1, InitType, NextType, InitCounters, NextCounters, PTL DEF Spec

(***************************************************************************)
(* The mirror.  Every line a PushLogs call carries, whoever still waits    *)
(* for it, is the line at its position in the laptop's log.                *)
(***************************************************************************)
IsLogged(m, e) ==
    e.off < Len(local[m][e.date]) /\ e.line = local[m][e.date][e.off + 1]

BatchesAreLogged ==
    \A m \in Machines, s \in Slots : \A e \in handlers[m][s].batch : IsLogged(m, e)

MirrorInv == MirrorIsPrefix /\ BatchesAreLogged

LEMMA InitMirror == Init => MirrorInv
BY EmptySeq
DEF Init, RpcInit, StoreInit, LaptopInit, FreeSlot, MirrorInv, MirrorIsPrefix,
    BatchesAreLogged

(* The laptop's logs only grow.                                            *)
LogsGrow ==
    \A m \in Machines, d \in Dates :
        /\ Len(local[m][d]) <= Len(local'[m][d])
        /\ \A i \in 1..Len(local[m][d]) : local'[m][d][i] = local[m][d][i]

LEMMA LogAppendGrows ==
    ASSUME TypeOK, NEW m \in Machines, NEW d \in Dates, NEW l \in Line,
           LogAppend(m, d, l)
    PROVE  LogsGrow
<1>1. local \in [Machines -> Logs]
  BY DEF TypeOK, LaptopTypeOK
<1>2. ASSUME NEW p \in Machines, NEW x \in Dates
      PROVE  /\ Len(local[p][x]) <= Len(local'[p][x])
             /\ \A i \in 1..Len(local[p][x]) : local'[p][x][i] = local[p][x][i]
  <2>1. local[p][x] \in Seq(Line) /\ Len(local[p][x]) \in Nat
    BY <1>1, LenProperties DEF Logs
  <2>2. CASE p = m /\ x = d
    <3>1. local'[p][x] = Append(local[p][x], l)
      BY <1>1, <2>2 DEF LogAppend, Logs
    <3> QED
      BY <2>1, <3>1
  <2>3. CASE ~(p = m /\ x = d)
    <3>1. local'[p][x] = local[p][x]
      BY <1>1, <2>3 DEF LogAppend, Logs
    <3> QED
      BY <2>1, <3>1
  <2> QED
    BY <2>2, <2>3
<1> QED
  BY <1>2 DEF LogsGrow

LEMMA HostGrowsLogs ==
    ASSUME TypeOK, NEW m \in Machines, Host(m)
    PROVE  LogsGrow
<1>1. CASE UNCHANGED local
  <2>1. \A p \in Machines, x \in Dates : Len(local[p][x]) \in Nat
    BY LenProperties DEF TypeOK, LaptopTypeOK, Logs
  <2> QED
    BY <1>1, <2>1 DEF LogsGrow
<1>2. CASE ~ UNCHANGED local
  <2>1. PICK h \in Procs : AppendAction(m, h) \/ AppendResult(m, h)
    BY <1>2 DEF Host, HostNext, HostRuns, HostBegins, HostStores
  <2>2. /\ host[m][h].date \in Dates
        /\ host[m][h].msg \in Message
        /\ host[m][h].res \in ResultKinds
    BY <2>1
    DEF AppendAction, AppendResult, TypeOK, LaptopTypeOK, Invocation, IdleHost
  <2> QED
    BY <2>1, <2>2, LinesOfMessages, LogAppendGrows DEF AppendAction, AppendResult
<1> QED
  BY <1>1, <1>2

LEMMA GrowingLogsKeepMirror ==
    ASSUME TypeOK, TypeOK', MirrorInv, LogsGrow, UNCHANGED <<mirror, handlers>>
    PROVE  MirrorInv'
<1>1. ASSUME NEW m \in Machines, NEW d \in Dates
      PROVE  /\ Len(mirror[m][d]) \in Nat
             /\ Len(local[m][d]) \in Nat
             /\ Len(local'[m][d]) \in Nat
  BY LenProperties DEF TypeOK, StoreTypeOK, LaptopTypeOK, Logs
<1>2. MirrorIsPrefix'
  <2>1. ASSUME NEW m \in Machines, NEW d \in Dates
        PROVE  /\ Len(mirror[m][d]) <= Len(local'[m][d])
               /\ \A i \in 1..Len(mirror[m][d]) : mirror[m][d][i] = local'[m][d][i]
    BY SMTT(20), <1>1 DEF MirrorInv, MirrorIsPrefix, LogsGrow
  <2> QED
    BY <2>1 DEF MirrorIsPrefix
<1>3. ASSUME NEW m \in Machines, NEW s \in Slots, NEW e \in handlers[m][s].batch
      PROVE  IsLogged(m, e)'
  <2>1. e.date \in Dates /\ e.off \in Nat
    BY DEF TypeOK, RpcTypeOK, Handler, Entry
  <2>2. IsLogged(m, e)
    BY DEF MirrorInv, BatchesAreLogged
  <2>3. e.off + 1 \in 1..Len(local[m][e.date])
    BY <1>1, <2>1, <2>2 DEF IsLogged
  <2>4. Len(local[m][e.date]) <= Len(local'[m][e.date])
    BY <2>1 DEF LogsGrow
  <2>5. local'[m][e.date][e.off + 1] = local[m][e.date][e.off + 1]
    BY <2>1, <2>3 DEF LogsGrow
  <2> QED
    BY <1>1, <2>1, <2>2, <2>4, <2>5 DEF IsLogged
<1> QED
  BY <1>2, <1>3 DEF MirrorInv, BatchesAreLogged

(* What AppendLogLines writes is what the laptop logged.                   *)
LEMMA AppendKeepsMirror ==
    ASSUME TypeOK, MirrorInv, NEW m \in Machines, NEW s \in Slots,
           NEW k \in 1..(LastDate + 1),
           \A d \in 1..(k - 1) : ~Gap(mirror[m], handlers[m][s].batch, d),
           mirror' = [mirror EXCEPT ![m] = AppendUpTo(@, handlers[m][s].batch, k)],
           UNCHANGED local
    PROVE  MirrorIsPrefix'
<1> DEFINE batch == handlers[m][s].batch
<1>1. mirror \in [Machines -> Logs] /\ local \in [Machines -> Logs]
  BY DEF TypeOK, StoreTypeOK, LaptopTypeOK
<1>2. batch \in SUBSET Entry
  BY DEF TypeOK, RpcTypeOK, Handler
<1> SUFFICES ASSUME NEW p \in Machines, NEW d \in Dates
             PROVE  /\ Len(mirror'[p][d]) <= Len(local[p][d])
                    /\ \A i \in 1..Len(mirror'[p][d]) :
                          mirror'[p][d][i] = local[p][d][i]
  BY DEF MirrorIsPrefix
<1>3. CASE p = m /\ d < k
  <2> DEFINE log   == mirror[m][d]
             fresh == Fresh(log, batch, d)
             x     == Extend(log, fresh)
  <2>1. log \in Seq(Line) /\ Len(log) \in Nat /\ Len(local[m][d]) \in Nat
    BY <1>1, LenProperties DEF Logs
  <2>2. fresh \in SUBSET Entry
    BY <1>2 DEF Fresh
  <2>3. Fits(log, fresh)
    BY <1>3, LastDateAssumption DEF Gap, Dates
  <2>4. mirror'[m][d] = x
    BY <1>1, <1>3 DEF AppendUpTo
  <2>5. /\ x \in Seq(Line)
        /\ Len(x) \in Counts(log, fresh)
        /\ \A i \in 1..Len(log) : x[i] = log[i]
        /\ \A i \in (Len(log) + 1)..Len(x) :
              \E e \in fresh : e.off = i - 1 /\ x[i] = e.line
    BY <2>1, <2>2, <2>3, ExtendFacts
  <2>6. ASSUME NEW e \in fresh
        PROVE  /\ e.off \in Nat
               /\ e.off < Len(local[m][d])
               /\ e.line = local[m][d][e.off + 1]
    BY <2>2 DEF Fresh, Entry, MirrorInv, BatchesAreLogged, IsLogged
  <2>7. /\ Len(log) <= Len(local[m][d])
        /\ \A i \in 1..Len(log) : log[i] = local[m][d][i]
    BY DEF MirrorInv, MirrorIsPrefix
  <2> HIDE DEF x, fresh, log
  <2>8. Len(x) \in Nat
    BY <2>5, LenProperties
  <2>9. Len(x) <= Len(local[m][d])
    BY <2>1, <2>5, <2>6, <2>7 DEF Counts
  <2>10. ASSUME NEW i \in 1..Len(x)
         PROVE  x[i] = local[m][d][i]
    <3>1. CASE i <= Len(log)
      BY <2>1, <2>5, <2>7, <2>8, <3>1
    <3>2. CASE ~(i <= Len(log))
      <4>1. PICK e \in fresh : e.off = i - 1 /\ x[i] = e.line
        BY <2>1, <2>5, <2>8, <3>2
      <4> QED
        BY <2>6, <2>8, <4>1
    <3> QED
      BY <3>1, <3>2
  <2> QED
    BY <1>3, <2>4, <2>9, <2>10
<1>4. CASE ~(p = m /\ d < k)
  <2>1. mirror'[p][d] = mirror[p][d]
    BY <1>1, <1>4 DEF AppendUpTo
  <2> QED
    BY <2>1 DEF MirrorInv, MirrorIsPrefix
<1> QED
  BY <1>3, <1>4

LEMMA FewerBatches ==
    ASSUME TypeOK, BatchesAreLogged, UNCHANGED local,
           \A m \in Machines, s \in Slots :
              handlers'[m][s].batch \in {handlers[m][s].batch, {}}
    PROVE  BatchesAreLogged'
BY DEF BatchesAreLogged, IsLogged

LEMMA AnswerBatches ==
    ASSUME TypeOK, NEW m \in Machines, NEW s \in Slots, NEW res, Answer(m, s, res)
    PROVE  \A p \in Machines, x \in Slots :
              handlers'[p][x].batch \in {handlers[p][x].batch, {}}
<1>1. handlers \in [Machines -> [Slots -> Handler]]
  BY DEF TypeOK, RpcTypeOK
<1> QED
  BY <1>1 DEF Answer, FreeSlot, Handler

LEMMA AbandonBatches ==
    ASSUME TypeOK, NEW m \in Machines, NEW s, Abandon(m, s)
    PROVE  \A p \in Machines, x \in Slots :
              handlers'[p][x].batch \in {handlers[p][x].batch, {}}
<1> SUFFICES ASSUME NEW p \in Machines, NEW x \in Slots
             PROVE  handlers'[p][x].batch \in {handlers[p][x].batch, {}}
  OBVIOUS
<1>1. handlers \in [Machines -> [Slots -> Handler]]
  BY DEF TypeOK, RpcTypeOK
<1>2. CASE handlers' = [handlers EXCEPT ![m][s] = FreeSlot]
  BY <1>1, <1>2 DEF FreeSlot
<1>3. CASE handlers' = [handlers EXCEPT ![m][s].live = FALSE]
  <2> DEFINE h == handlers[p][x]
  <2>1. handlers'[p][x] \in {h, [h EXCEPT !.live = FALSE]}
    BY <1>1, <1>3
  <2>2. h \in Handler
    BY <1>1
  <2> HIDE DEF h
  <2>3. [h EXCEPT !.live = FALSE].batch = h.batch
    BY <2>2 DEF Handler
  <2>4. handlers'[p][x].batch = h.batch
    BY <2>1, <2>3
  <2> QED
    BY <2>4 DEF h
<1> QED
  BY <1>2, <1>3 DEF Abandon

(***************************************************************************)
(* Every step keeps the invariant.                                         *)
(***************************************************************************)
LEMMA ServerMirror ==
    ASSUME TypeOK, MirrorInv, UNCHANGED local, NEW m \in Machines, NEW s \in Slots,
           \/ AppendLogLines(m, s)
           \/ \E k \in Dates : AppendFails(m, s, k)
           \/ ReplayOne(m, s) \/ ReplayFails(m, s) \/ PushReturns(m, s)
    PROVE  MirrorInv'
<1>1. handlers \in [Machines -> [Slots -> Handler]]
  BY DEF TypeOK, RpcTypeOK
<1>2. ASSUME UNCHANGED mirror
      PROVE  MirrorIsPrefix'
  BY <1>2 DEF MirrorInv, MirrorIsPrefix
<1>3. CASE AppendLogLines(m, s)
  <2>1. PICK k \in 1..(LastDate + 1) :
          /\ \A d \in 1..(k - 1) : ~Gap(mirror[m], handlers[m][s].batch, d)
          /\ mirror' = [mirror EXCEPT ![m] = AppendUpTo(@, handlers[m][s].batch, k)]
          /\ \/ Answer(m, s, "error")
             \/ handlers' = [handlers EXCEPT ![m][s].pc = "replay",
                                             ![m][s].todo = handlers[m][s].batch]
    BY <1>3 DEF AppendLogLines, FirstGap
  <2>2. \A p \in Machines, x \in Slots :
           handlers'[p][x].batch \in {handlers[p][x].batch, {}}
    <3>1. CASE Answer(m, s, "error")
      BY <3>1, AnswerBatches
    <3>2. CASE handlers' = [handlers EXCEPT ![m][s].pc = "replay",
                                            ![m][s].todo = handlers[m][s].batch]
      BY <1>1, <3>2 DEF Handler
    <3> QED
      BY <2>1, <3>1, <3>2
  <2> QED
    BY <2>1, <2>2, AppendKeepsMirror, FewerBatches DEF MirrorInv
<1>4. ASSUME NEW k \in Dates, AppendFails(m, s, k)
      PROVE  MirrorInv'
  <2>1. k \in 1..(LastDate + 1)
    BY LastDateAssumption DEF Dates
  <2>2. MirrorIsPrefix'
    BY <1>4, <2>1, AppendKeepsMirror DEF AppendFails
  <2> QED
    BY <1>4, <2>2, AnswerBatches, FewerBatches DEF AppendFails, MirrorInv
<1>5. CASE ReplayOne(m, s)
  <2>1. \A p \in Machines, x \in Slots :
           handlers'[p][x].batch \in {handlers[p][x].batch, {}}
    BY <1>1, <1>5 DEF ReplayOne, Handler
  <2> QED
    BY <1>2, <1>5, <2>1, FewerBatches DEF ReplayOne, MirrorInv
<1>6. CASE ReplayFails(m, s) \/ PushReturns(m, s)
  <2>1. UNCHANGED mirror /\ \E res : Answer(m, s, res)
    BY <1>6 DEF ReplayFails, PushReturns
  <2> QED
    BY <1>2, <2>1, AnswerBatches, FewerBatches DEF MirrorInv
<1> QED
  BY <1>3, <1>4, <1>5, <1>6

LEMMA RestartMirror ==
    ASSUME TypeOK, MirrorInv, UNCHANGED local, Restart
    PROVE  MirrorInv'
<1>1. ASSUME NEW p \in Machines, NEW x \in Slots
      PROVE  handlers'[p][x].batch \in {handlers[p][x].batch, {}}
  <2>1. handlers[p][x] \in Handler
    BY DEF TypeOK, RpcTypeOK
  <2> QED
    BY <2>1 DEF Restart, FreeSlot, Handler
<1>2. UNCHANGED mirror
  BY DEF Restart
<1> QED
  BY <1>1, <1>2, FewerBatches DEF MirrorInv, MirrorIsPrefix

(* The batch of a new call is read from the laptop's log.                  *)
LEMMA PushBatchMirror ==
    ASSUME TypeOK, MirrorInv, UNCHANGED mirror, NEW m \in Machines, PushBatch(m)
    PROVE  MirrorInv'
<1>1. handlers \in [Machines -> [Slots -> Handler]] /\ local \in [Machines -> Logs]
  BY DEF TypeOK, RpcTypeOK, LaptopTypeOK
<1>2. UNCHANGED local
  BY DEF PushBatch, hostVars
<1>3. PICK s \in Slots, batch \in SUBSET Unread(m) :
         handlers' = [handlers EXCEPT ![m][s] = Call(batch)]
  BY DEF PushBatch
<1>4. ASSUME NEW e \in Unread(m)
      PROVE  IsLogged(m, e)
  <2>1. PICK d \in sync[m].dates : \E i \in 1..Len(local[m][d]) :
          e = [date |-> d, off |-> i - 1, line |-> local[m][d][i]]
    BY DEF Unread, EntriesAfter
  <2>2. d \in Dates
    BY DEF TypeOK, LaptopTypeOK, Process
  <2>3. Len(local[m][d]) \in Nat
    BY <1>1, <2>2, LenProperties DEF Logs
  <2> QED
    BY <2>1, <2>3 DEF IsLogged
<1>5. ASSUME NEW p \in Machines, NEW x \in Slots, NEW e \in handlers'[p][x].batch
      PROVE  IsLogged(p, e)'
  <2>1. IsLogged(p, e)
    BY <1>1, <1>3, <1>4 DEF Call, MirrorInv, BatchesAreLogged
  <2> QED
    BY <1>2, <2>1 DEF IsLogged
<1> QED
  BY <1>2, <1>5 DEF MirrorInv, MirrorIsPrefix, BatchesAreLogged

LEMMA SyncMirror ==
    ASSUME TypeOK, MirrorInv, UNCHANGED mirror, NEW m \in Machines,
           SyncNext(m) \/ PushTimeout(m) \/ PullEndsEarly(m) \/ SyncKilled(m)
    PROVE  MirrorInv'
<1>1. handlers \in [Machines -> [Slots -> Handler]]
  BY DEF TypeOK, RpcTypeOK
<1>2. CASE PushBatch(m)
  BY <1>2, PushBatchMirror
<1>3. ASSUME UNCHANGED local,
             \A p \in Machines, x \in Slots :
                handlers'[p][x].batch \in {handlers[p][x].batch, {}}
      PROVE  MirrorInv'
  BY <1>3, FewerBatches DEF MirrorInv, MirrorIsPrefix
<1>4. CASE \/ SyncStarts(m) \/ PushDone(m) \/ ApplyLine(m) \/ SetPeerCursor(m)
           \/ PullDone(m) \/ PullEndsEarly(m)
  <2>1. UNCHANGED <<local, handlers>>
    BY <1>4 DEF SyncStarts, PushDone, ApplyLine, SetPeerCursor, PullDone,
                PullEndsEarly, hostVars, rpcVars
  <2> QED
    BY <1>3, <2>1
<1>5. CASE PushOk(m) \/ PushError(m)
  <2>1. /\ UNCHANGED local
        /\ \E s : handlers' = [handlers EXCEPT ![m][s] = FreeSlot]
    BY <1>5 DEF PushOk, PushError, hostVars
  <2> QED
    BY <1>1, <1>3, <2>1 DEF FreeSlot
<1>6. CASE PushTimeout(m) \/ SyncKilled(m)
  <2>1. /\ UNCHANGED local
        /\ UNCHANGED handlers \/ Abandon(m, sync[m].slot)
    BY <1>6 DEF PushTimeout, SyncKilled, hostVars
  <2> QED
    BY <1>3, <2>1, AbandonBatches
<1> QED
  BY <1>2, <1>4, <1>5, <1>6 DEF SyncNext, PullBroken

LEMMA NextMirror == TypeOK /\ TypeOK' /\ MirrorInv /\ [Next]_vars => MirrorInv'
<1> SUFFICES ASSUME TypeOK, TypeOK', MirrorInv, [Next]_vars
             PROVE  MirrorInv'
  OBVIOUS
<1>1. ASSUME UNCHANGED <<mirror, local, handlers>>
      PROVE  MirrorInv'
  BY <1>1 DEF MirrorInv, MirrorIsPrefix, BatchesAreLogged, IsLogged
<1>2. ASSUME NEW m \in Machines, Server(m)
      PROVE  MirrorInv'
  <2>1. UNCHANGED local
    BY <1>2 DEF Server, laptopVars, hostVars
  <2>2. CASE \E s \in Slots : AppendLogLines(m, s) \/ ReplayOne(m, s) \/ PushReturns(m, s)
    BY <2>1, <2>2, ServerMirror
  <2>3. CASE PullBegins(m) \/ ScanPeer(m) \/ ReadLine(m) \/ SendChunk(m)
    BY <1>1, <2>1, <2>3 DEF PullBegins, ScanPeer, ReadLine, SendChunk
  <2> QED
    BY <1>2, <2>2, <2>3 DEF Server, ServeNext
<1>3. ASSUME NEW m \in Machines, Host(m)
      PROVE  MirrorInv'
  <2>1. UNCHANGED <<mirror, handlers>>
    BY <1>3 DEF Host, rpcVars, storeVars
  <2> QED
    BY <1>3, <2>1, HostGrowsLogs, GrowingLogsKeepMirror
<1>4. ASSUME NEW m \in Machines, Client(m)
      PROVE  MirrorInv'
  BY <1>4, SyncMirror DEF Client, storeVars
<1>5. CASE NewDay
  BY <1>1, <1>5 DEF NewDay, Midnight, storeVars, rpcVars
<1>6. CASE Fault
  <2>1. UNCHANGED laptopVars => UNCHANGED local
    BY DEF laptopVars, hostVars
  <2>2. ASSUME NEW m \in Machines, NEW s \in Slots, UNCHANGED laptopVars,
               (\E k \in Dates : AppendFails(m, s, k)) \/ ReplayFails(m, s)
        PROVE  MirrorInv'
    BY <2>1, <2>2, ServerMirror
  <2>3. Restart /\ UNCHANGED laptopVars => MirrorInv'
    BY <2>1, RestartMirror
  <2>4. ASSUME NEW m \in Machines, UNCHANGED storeVars,
               PushTimeout(m) \/ PullEndsEarly(m) \/ SyncKilled(m)
        PROVE  MirrorInv'
    BY <2>4, SyncMirror DEF storeVars
  <2> QED
    BY <1>6, <2>2, <2>3, <2>4 DEF Fault
<1>7. CASE UNCHANGED vars
  BY <1>1, <1>7 DEF vars, storeVars, rpcVars, laptopVars, hostVars
<1> QED
  BY <1>2, <1>3, <1>4, <1>5, <1>6, <1>7 DEF Next

(***************************************************************************)
(* The server's file for a laptop and a day is always a prefix of the      *)
(* laptop's file: with any number of PushLogs handlers of the same laptop  *)
(* at work, abandoned or retried, and with invocations of the host that    *)
(* run past midnight.                                                      *)
(***************************************************************************)
THEOREM MirrorCorrect == Spec => []MirrorIsPrefix
<1>1. MirrorInv => MirrorIsPrefix
  BY DEF MirrorInv
<1> QED
  BY <1>1, InitType, NextType, InitMirror, NextMirror, PTL DEF Spec
=============================================================================
