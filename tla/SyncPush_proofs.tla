--------------------------- MODULE SyncPush_proofs ---------------------------
(***************************************************************************)
(* What reaches the server, for every value of the constants of Sync.      *)
(***************************************************************************)
EXTENDS Sync_proofs

(***************************************************************************)
(* A set of numbers below a bound has a greatest one.                      *)
(***************************************************************************)
LEMMA LeastNatural ==
    ASSUME NEW T \in SUBSET Nat, T # {}
    PROVE  \E x \in T : \A y \in T : x <= y
<1>1. PICK x \in T : \A y \in T : ~(<<y, x>> \in OpToRel(<, Nat))
  BY NatLessThanWellFounded, WFMin, Zenon
<1>2. ASSUME NEW y \in T, y < x PROVE FALSE
  <2>1. <<y, x>> \in OpToRel(<, Nat)
    BY <1>2 DEF OpToRel
  <2> QED
    BY <1>1, <2>1, Zenon
<1> QED
  BY <1>2

LEMMA GreatestNatural ==
    ASSUME NEW T \in SUBSET Nat, T # {}, NEW n \in Nat, \A t \in T : t < n
    PROVE  \E x \in T : \A y \in T : y <= x
<1> DEFINE U == {n - t : t \in T}
<1>1. U \in SUBSET Nat
  OBVIOUS
<1>2. U # {}
  <2>1. PICK t \in T : TRUE
    OBVIOUS
  <2>2. n - t \in U
    OBVIOUS
  <2> QED
    BY <2>2
<1>3. PICK u \in U : \A y \in U : u <= y
  BY <1>1, <1>2, LeastNatural, Zenon
<1>4. PICK x \in T : u = n - x
  BY <1>3
<1>5. ASSUME NEW y \in T PROVE y <= x
  <2>1. n - y \in U
    OBVIOUS
  <2>2. n - x <= n - y
    BY <1>3, <1>4, <2>1
  <2> QED
    BY <2>2
<1> QED
  BY <1>5

(***************************************************************************)
(* Positions in files.  A position that names a line names one of the file *)
(* it is about; an entry is the line at its place.                         *)
(***************************************************************************)
Within(files, c) == c.date \in Dates => c.off \in 0..(Len(files[c.date]) - 1)

IsIn(files, e) == e.off < Len(files[e.date]) /\ e.line = files[e.date][e.off + 1]

Longer(x, y) ==
    \A d \in Dates : /\ Len(x[d]) <= Len(y[d])
                     /\ \A i \in 1..Len(x[d]) : y[d][i] = x[d][i]

LEMMA LogLengths ==
    ASSUME NEW x \in Logs, NEW d \in Dates
    PROVE  x[d] \in Seq(Line) /\ Len(x[d]) \in Nat
BY LenProperties DEF Logs

LEMMA SameIsLonger ==
    ASSUME NEW x \in Logs
    PROVE  Longer(x, x)
BY LogLengths DEF Longer

LEMMA WithinLonger ==
    ASSUME NEW x \in Logs, NEW y \in Logs, Longer(x, y), NEW c, Within(x, c)
    PROVE  Within(y, c)
<1> SUFFICES ASSUME c.date \in Dates PROVE c.off \in 0..(Len(y[c.date]) - 1)
  BY DEF Within
<1>1. Len(x[c.date]) \in Nat /\ Len(y[c.date]) \in Nat
  BY LogLengths
<1>2. Len(x[c.date]) <= Len(y[c.date])
  BY DEF Longer
<1> QED
  BY <1>1, <1>2 DEF Within

LEMMA IsInLonger ==
    ASSUME NEW x \in Logs, NEW y \in Logs, Longer(x, y), NEW e \in Entry, IsIn(x, e)
    PROVE  IsIn(y, e)
<1>1. e.date \in Dates /\ e.off \in Nat
  BY DEF Entry
<1>2. Len(x[e.date]) \in Nat /\ Len(y[e.date]) \in Nat
  BY <1>1, LogLengths
<1>3. e.off + 1 \in 1..Len(x[e.date])
  BY <1>1, <1>2 DEF IsIn
<1> QED
  BY <1>1, <1>2, <1>3 DEF IsIn, Longer

LEMMA IsInWithin ==
    ASSUME NEW x \in Logs, NEW e \in Entry, IsIn(x, e)
    PROVE  Within(x, At(e))
BY LogLengths DEF IsIn, Within, At, Entry

LEMMA NoPositionWithin == \A x : Within(x, NoPosition)
BY LastDateAssumption DEF Within, NoPosition, Dates

(***************************************************************************)
(* The types that the proofs below use most.                               *)
(***************************************************************************)
LEMMA Types ==
    ASSUME TypeOK, NEW m \in Machines
    PROVE  /\ mirror \in [Machines -> Logs] /\ local \in [Machines -> Logs]
           /\ mirror[m] \in Logs /\ local[m] \in Logs
           /\ handlers[m] \in [Slots -> Handler]
           /\ handlers \in [Machines -> [Slots -> Handler]]
           /\ pull \in [Machines -> Stream] /\ pull[m] \in Stream
           /\ sync \in [Machines -> Process] /\ sync[m] \in Process
           /\ cursor \in [Machines -> [Machines -> Position]]
           /\ cursor[m] \in [Machines -> Position]
           /\ undo \in [Machines -> Image] /\ undo[m] \in Image
           /\ undo[m].cursor \in [Machines -> Position]
           /\ canon \in Db /\ db[m] \in Db /\ undo[m].db \in Db
           /\ db \in [Machines -> Db]
BY DEF TypeOK, RpcTypeOK, StoreTypeOK, LaptopTypeOK, Cursors, Image

LEMMA StreamFields ==
    ASSUME NEW q \in Stream
    PROVE  /\ q.since \in [Machines -> Position]
           /\ q.peers \in SUBSET Machines /\ q.peer \in Machines /\ q.from \in Machines
           /\ q.dates \in SUBSET Dates /\ q.pos \in Position
           /\ q.batch \in Seq(Entry) /\ q.chunk \in Seq(Entry)
           /\ Len(q.batch) \in Nat /\ Len(q.chunk) \in Nat
           /\ \A j \in 1..Len(q.batch) : q.batch[j] \in Entry
           /\ \A j \in 1..Len(q.chunk) : q.chunk[j] \in Entry
<1>1. /\ q.since \in [Machines -> Position]
      /\ q.peers \in SUBSET Machines /\ q.peer \in Machines /\ q.from \in Machines
      /\ q.dates \in SUBSET Dates /\ q.pos \in Position
      /\ q.batch \in Seq(Entry) /\ q.chunk \in Seq(Entry)
  BY DEF Stream
<1> QED
  BY <1>1, LenProperties

LEMMA PositionFields ==
    ASSUME NEW c \in Position
    PROVE  c.date \in Int /\ c.date \in 0..LastDate /\ c.off \in Int /\ c.off >= -1
BY LastDateAssumption DEF Position

(***************************************************************************)
(* The files of the server only grow, and an append that is not refused    *)
(* holds every line of the groups it has written.                          *)
(***************************************************************************)
MirrorsGrow == \A m \in Machines : Longer(mirror[m], mirror'[m])

LEMMA AppendGrows ==
    ASSUME NEW logs \in Logs, NEW batch \in SUBSET Entry, NEW k \in 1..(LastDate + 1),
           \A d \in 1..(k - 1) : ~Gap(logs, batch, d)
    PROVE  /\ Longer(logs, AppendUpTo(logs, batch, k))
           /\ \A e \in batch : e.date < k => e.off < Len(AppendUpTo(logs, batch, k)[e.date])
<1> DEFINE new == AppendUpTo(logs, batch, k)
<1>1. ASSUME NEW d \in Dates, d < k
      PROVE  /\ Len(logs[d]) <= Len(new[d])
             /\ \A i \in 1..Len(logs[d]) : new[d][i] = logs[d][i]
             /\ \A e \in batch : e.date = d => e.off < Len(new[d])
  <2> DEFINE fresh == Fresh(logs[d], batch, d)
             x     == Extend(logs[d], fresh)
  <2>1. logs[d] \in Seq(Line) /\ Len(logs[d]) \in Nat
    BY LogLengths
  <2>2. fresh \in SUBSET Entry
    BY DEF Fresh
  <2>3. Fits(logs[d], fresh)
    BY <1>1, LastDateAssumption DEF Gap, Dates
  <2>4. new[d] = x
    BY <1>1 DEF AppendUpTo
  <2>5. /\ x \in Seq(Line)
        /\ Fills(logs[d], fresh, Len(x))
        /\ Len(x) >= Len(logs[d])
        /\ \A i \in 1..Len(logs[d]) : x[i] = logs[d][i]
    BY <2>1, <2>2, <2>3, ExtendFacts
  <2> HIDE DEF x
  <2>6. Len(x) \in Nat
    BY <2>5, LenProperties
  <2>7. ASSUME NEW e \in batch, e.date = d
        PROVE  e.off < Len(x)
    <3>1. e.off \in Nat
      BY DEF Entry
    <3>2. CASE e.off < Len(logs[d])
      BY <2>1, <2>5, <2>6, <3>1, <3>2
    <3>3. CASE ~(e.off < Len(logs[d]))
      <4>1. e \in fresh
        BY <2>1, <2>7, <3>1, <3>3 DEF Fresh
      <4> HIDE DEF fresh
      <4>2. e.off \in Len(logs[d])..(Len(x) - 1)
        BY <2>5, <4>1 DEF Fills
      <4> QED
        BY <2>1, <2>6, <3>1, <4>2
    <3> QED
      BY <3>2, <3>3
  <2> QED
    BY <2>1, <2>4, <2>5, <2>6, <2>7
<1>2. ASSUME NEW d \in Dates, ~(d < k)
      PROVE  new[d] = logs[d]
  BY <1>2 DEF AppendUpTo
<1> HIDE DEF new
<1>3. \A d \in Dates : Len(logs[d]) \in Nat
  BY LogLengths
<1>4. Longer(logs, new)
  BY <1>1, <1>2, <1>3 DEF Longer
<1>5. \A e \in batch : e.date < k => e.off < Len(new[e.date])
  BY <1>1 DEF Entry
<1> QED
  BY <1>4, <1>5 DEF new

LEMMA AppendMirrorsGrow ==
    ASSUME TypeOK, NEW m \in Machines, NEW s \in Slots, NEW k \in 1..(LastDate + 1),
           \A d \in 1..(k - 1) : ~Gap(mirror[m], handlers[m][s].batch, d),
           mirror' = [mirror EXCEPT ![m] = AppendUpTo(@, handlers[m][s].batch, k)]
    PROVE  /\ MirrorsGrow
           /\ \A e \in handlers[m][s].batch : e.date < k => e.off < Len(mirror'[m][e.date])
<1>1. handlers[m][s].batch \in SUBSET Entry
  BY Types DEF Handler
<1>2. mirror'[m] = AppendUpTo(mirror[m], handlers[m][s].batch, k)
  BY Types
<1>3. ASSUME NEW p \in Machines
      PROVE  Longer(mirror[p], mirror'[p])
  <2>1. CASE p = m
    BY <1>1, <1>2, <2>1, Types, AppendGrows
  <2>2. CASE p # m
    <3>1. mirror'[p] = mirror[p]
      BY <2>2, Types
    <3> QED
      BY <3>1, Types, SameIsLonger
  <2> QED
    BY <2>1, <2>2
<1> QED
  BY <1>1, <1>2, <1>3, Types, AppendGrows DEF MirrorsGrow

LEMMA SameMirrorsGrow == ASSUME TypeOK, UNCHANGED mirror PROVE MirrorsGrow
BY Types, SameIsLonger DEF MirrorsGrow

(***************************************************************************)
(* What a step may do to a PushLogs call that is under way: nothing, end   *)
(* it without success, store all of it, replay some of it, or answer once  *)
(* all of it is replayed.                                                  *)
(***************************************************************************)
Moves(h, g, files, base) ==
    \/ g.pc = h.pc /\ g.batch = h.batch /\ g.todo = h.todo
    \/ g.pc \in {"free", "error"}
    \/ /\ h.pc = "sent" /\ g.pc = "replay" /\ g.todo = h.batch
       /\ \A e \in h.batch : e.off < Len(files[e.date])
    \/ /\ h.pc = "replay" /\ g.pc = "replay" /\ g.todo \subseteq h.todo
       /\ \A e \in h.todo : e \in g.todo \/ Holds(base, e.line)
    \/ h.pc = "replay" /\ g.pc = "ok" /\ h.todo = {}

HandlersMove ==
    \A m \in Machines, s \in Slots :
        Moves(handlers[m][s], handlers'[m][s], mirror'[m], canon')

CanonGrows == \A l \in Line : Holds(canon, l) => Holds(canon', l)

LEMMA OneMoves ==
    ASSUME TypeOK, NEW m \in Machines, NEW s \in Slots, NEW g,
           handlers' = [handlers EXCEPT ![m][s] = g],
           Moves(handlers[m][s], g, mirror'[m], canon')
    PROVE  HandlersMove
BY Types DEF HandlersMove, Moves

LEMMA AnswerMoves ==
    ASSUME TypeOK, NEW m \in Machines, NEW s \in Slots, NEW res \in {"ok", "error"},
           Answer(m, s, res),
           res = "ok" => handlers[m][s].pc = "replay" /\ handlers[m][s].todo = {}
    PROVE  HandlersMove
<1> DEFINE h == handlers[m][s]
           g == IF h.live THEN [h EXCEPT !.pc = res, !.todo = {}] ELSE FreeSlot
<1>1. handlers' = [handlers EXCEPT ![m][s] = g]
  BY DEF Answer
<1>2. h \in Handler
  BY Types
<1>3. g.pc \in {res, "free"}
  BY <1>2 DEF Handler, FreeSlot
<1> HIDE DEF g
<1>4. Moves(h, g, mirror'[m], canon')
  BY <1>3 DEF Moves
<1> QED
  BY <1>1, <1>4, OneMoves

PushServerStep(m, s) ==
    \/ AppendLogLines(m, s) \/ (\E k \in Dates : AppendFails(m, s, k))
    \/ ReplayOne(m, s) \/ ReplayFails(m, s) \/ PushReturns(m, s)

LEMMA PushServerMoves ==
    ASSUME TypeOK, NEW m \in Machines, NEW s \in Slots, PushServerStep(m, s)
    PROVE  MirrorsGrow /\ HandlersMove /\ CanonGrows /\ UNCHANGED pull
<1> DEFINE h == handlers[m][s]
<1>1. h \in Handler /\ h.batch \in SUBSET Entry /\ h.todo \in SUBSET Entry /\ canon \in Db
  BY Types DEF Handler
<1>2. CASE AppendLogLines(m, s)
  <2>1. UNCHANGED <<canon, pull>>
    BY <1>2 DEF AppendLogLines
  <2>2. PICK k \in 1..(LastDate + 1) :
          /\ \A d \in 1..(k - 1) : ~Gap(mirror[m], h.batch, d)
          /\ mirror' = [mirror EXCEPT ![m] = AppendUpTo(@, h.batch, k)]
          /\ \/ Answer(m, s, "error")
             \/ /\ k \notin Dates
                /\ handlers' = [handlers EXCEPT ![m][s].pc = "replay",
                                                ![m][s].todo = h.batch]
    BY <1>2 DEF AppendLogLines, FirstGap
  <2>3. MirrorsGrow /\ \A e \in h.batch : e.date < k => e.off < Len(mirror'[m][e.date])
    BY <2>2, AppendMirrorsGrow
  <2>4. CASE Answer(m, s, "error")
    BY <2>1, <2>3, <2>4, AnswerMoves DEF CanonGrows
  <2>5. CASE /\ k \notin Dates
             /\ handlers' = [handlers EXCEPT ![m][s].pc = "replay",
                                             ![m][s].todo = h.batch]
    <3> DEFINE g == [h EXCEPT !.pc = "replay", !.todo = h.batch]
    <3>1. handlers' = [handlers EXCEPT ![m][s] = g]
      BY <2>5, Types
    <3>2. g.pc = "replay" /\ g.todo = h.batch
      BY <1>1 DEF Handler
    <3>3. \A e \in h.batch : e.date < k
      BY <1>1, <2>2, <2>5, LastDateAssumption DEF Dates, Entry
    <3> HIDE DEF g
    <3>4. Moves(h, g, mirror'[m], canon')
      BY <1>2, <2>3, <3>2, <3>3 DEF Moves, AppendLogLines
    <3> QED
      BY <2>1, <2>3, <3>1, <3>4, OneMoves DEF CanonGrows
  <2> QED
    BY <2>2, <2>4, <2>5
<1>3. ASSUME NEW k \in Dates, AppendFails(m, s, k)
      PROVE  MirrorsGrow /\ HandlersMove /\ CanonGrows /\ UNCHANGED pull
  <2>1. k \in 1..(LastDate + 1)
    BY LastDateAssumption DEF Dates
  <2>2. MirrorsGrow
    BY <1>3, <2>1, AppendMirrorsGrow DEF AppendFails
  <2> QED
    BY <1>3, <2>2, AnswerMoves DEF AppendFails, CanonGrows
<1>4. CASE ReplayOne(m, s)
  <2>1. PICK e \in h.todo : /\ canon' = ReplayLine(canon, e.line)
                            /\ handlers' = [handlers EXCEPT ![m][s].todo = @ \ {e}]
    BY <1>4 DEF ReplayOne
  <2>2. e.line \in Line
    BY <1>1 DEF Entry
  <2>3. CanonGrows
    BY <1>1, <2>1, <2>2, ReplayKeepsLines DEF CanonGrows
  <2> DEFINE g == [h EXCEPT !.todo = h.todo \ {e}]
  <2>4. handlers' = [handlers EXCEPT ![m][s] = g]
    BY <2>1, Types
  <2>5. g.pc = "replay" /\ g.todo = h.todo \ {e}
    BY <1>1, <1>4 DEF Handler, ReplayOne
  <2> HIDE DEF g
  <2>6. Holds(canon', e.line)
    BY <1>1, <2>1, <2>2, ReplayedLineHolds
  <2>7. Moves(h, g, mirror'[m], canon')
    BY <1>4, <2>5, <2>6 DEF Moves, ReplayOne
  <2> QED
    BY <1>4, <2>3, <2>4, <2>7, OneMoves, SameMirrorsGrow DEF ReplayOne
<1>5. CASE ReplayFails(m, s)
  <2>1. PICK e \in h.todo : canon' \in {canon, ReplayBasic(canon, e.line)}
    BY <1>5 DEF ReplayFails
  <2>2. e.line \in Line
    BY <1>1 DEF Entry
  <2>3. CanonGrows
    BY <1>1, <2>1, <2>2, ReplayKeepsLines DEF CanonGrows
  <2> QED
    BY <1>5, <2>3, AnswerMoves, SameMirrorsGrow DEF ReplayFails
<1>6. CASE PushReturns(m, s)
  BY <1>6, AnswerMoves, SameMirrorsGrow DEF PushReturns, CanonGrows
<1> QED
  BY <1>2, <1>3, <1>4, <1>5, <1>6 DEF PushServerStep

LEMMA RestartMoves ==
    ASSUME TypeOK, Restart
    PROVE  MirrorsGrow /\ HandlersMove /\ CanonGrows
<1>1. ASSUME NEW m \in Machines, NEW s \in Slots
      PROVE  Moves(handlers[m][s], handlers'[m][s], mirror'[m], canon')
  <2> DEFINE h == handlers[m][s]
  <2>1. h \in Handler
    BY Types
  <2>2. handlers'[m][s] \in {h, [h EXCEPT !.pc = "error", !.todo = {}], FreeSlot}
    BY DEF Restart
  <2> HIDE DEF h
  <2>3. [h EXCEPT !.pc = "error", !.todo = {}].pc = "error" /\ FreeSlot.pc = "free"
    BY <2>1 DEF Handler, FreeSlot
  <2>4. CASE handlers'[m][s] = h
    BY <2>4 DEF Moves, h
  <2>5. CASE handlers'[m][s] # h
    BY <2>2, <2>3, <2>5 DEF Moves
  <2> QED
    BY <2>4, <2>5
<1> QED
  BY <1>1, SameMirrorsGrow DEF HandlersMove, CanonGrows, Restart

(***************************************************************************)
(* The kinds of steps, and what a step of one laptop's sync process        *)
(* leaves alone.                                                           *)
(***************************************************************************)
StreamStep(m) == PullBegins(m) \/ ScanPeer(m) \/ ReadLine(m) \/ SendChunk(m)
ClientStep(m) == SyncNext(m) \/ PushTimeout(m) \/ PullEndsEarly(m) \/ SyncKilled(m)

LEMMA StepCases ==
    ASSUME [Next]_vars
    PROVE  \/ \E m \in Machines, s \in Slots : PushServerStep(m, s) /\ UNCHANGED laptopVars
           \/ Restart /\ UNCHANGED laptopVars
           \/ \E m \in Machines : StreamStep(m) /\ UNCHANGED <<storeVars, handlers, laptopVars>>
           \/ \E m \in Machines : Host(m)
           \/ NewDay
           \/ \E m \in Machines : ClientStep(m) /\ UNCHANGED storeVars
           \/ UNCHANGED <<storeVars, rpcVars, laptopVars>>
<1>1. ASSUME NEW m \in Machines, Server(m)
      PROVE  \/ \E s \in Slots : PushServerStep(m, s) /\ UNCHANGED laptopVars
             \/ StreamStep(m) /\ UNCHANGED <<storeVars, handlers, laptopVars>>
  <2>1. StreamStep(m) => UNCHANGED <<storeVars, handlers>>
    BY DEF StreamStep, PullBegins, ScanPeer, ReadLine, SendChunk, storeVars
  <2> QED
    BY <1>1, <2>1 DEF Server, ServeNext, PushServerStep, StreamStep
<1>2. ASSUME NEW m \in Machines, Client(m)
      PROVE  ClientStep(m) /\ UNCHANGED storeVars
  BY <1>2 DEF Client, ClientStep
<1>3. CASE Fault
  BY <1>3 DEF Fault, PushServerStep, ClientStep
<1>4. CASE UNCHANGED vars
  BY <1>4 DEF vars
<1> QED
  BY <1>1, <1>2, <1>3, <1>4 DEF Next

OthersKeep(m) ==
    \A p \in Machines \ {m} :
        /\ handlers'[p] = handlers[p] /\ pull'[p] = pull[p]
        /\ sync'[p] = sync[p] /\ cursor'[p] = cursor[p] /\ undo'[p] = undo[p]
        /\ db'[p] = db[p] /\ peerLog'[p] = peerLog[p]

LEMMA UndoSteps ==
    ASSUME TypeOK, NEW m \in Machines
    PROVE  /\ OpenTransaction(m) =>
                 /\ \A p \in Machines \ {m} : undo'[p] = undo[p]
                 /\ undo'[m] = IF undo[m].open THEN undo[m]
                               ELSE [open |-> TRUE, db |-> db[m], cursor |-> cursor[m]]
           /\ Commit(m) => /\ \A p \in Machines \ {m} : undo'[p] = undo[p]
                           /\ undo'[m] = Closed
           /\ Rollback(m) =>
                 /\ \A p \in Machines \ {m} : /\ undo'[p] = undo[p]
                                              /\ db'[p] = db[p]
                                              /\ cursor'[p] = cursor[p]
                 /\ undo'[m] = Closed
                 /\ db'[m] = IF undo[m].open THEN undo[m].db ELSE db[m]
                 /\ cursor'[m] = IF undo[m].open THEN undo[m].cursor ELSE cursor[m]
<1>1. undo \in [Machines -> Image] /\ cursor \in [Machines -> Cursors]
      /\ db \in [Machines -> Db]
  BY DEF TypeOK, LaptopTypeOK
<1>2. OpenTransaction(m) =>
         /\ \A p \in Machines \ {m} : undo'[p] = undo[p]
         /\ undo'[m] = IF undo[m].open THEN undo[m]
                       ELSE [open |-> TRUE, db |-> db[m], cursor |-> cursor[m]]
  BY <1>1 DEF OpenTransaction
<1>3. Commit(m) => /\ \A p \in Machines \ {m} : undo'[p] = undo[p]
                   /\ undo'[m] = Closed
  BY <1>1 DEF Commit
<1>4. Rollback(m) =>
         /\ \A p \in Machines \ {m} : /\ undo'[p] = undo[p]
                                      /\ db'[p] = db[p]
                                      /\ cursor'[p] = cursor[p]
         /\ undo'[m] = Closed
         /\ db'[m] = IF undo[m].open THEN undo[m].db ELSE db[m]
         /\ cursor'[m] = IF undo[m].open THEN undo[m].cursor ELSE cursor[m]
  BY <1>1 DEF Rollback
<1> QED
  BY <1>2, <1>3, <1>4

LEMMA AbandonSteps ==
    ASSUME TypeOK, NEW m \in Machines, NEW s, Abandon(m, s)
    PROVE  /\ \A p \in Machines \ {m} : handlers'[p] = handlers[p]
           /\ \A x \in Slots : \/ handlers'[m][x] = handlers[m][x]
                               \/ handlers'[m][x] = FreeSlot
                               \/ handlers'[m][x] = [handlers[m][x] EXCEPT !.live = FALSE]
<1>1. handlers \in [Machines -> [Slots -> Handler]]
  BY Types
<1>2. CASE handlers' = [handlers EXCEPT ![m][s] = FreeSlot]
  BY <1>1, <1>2
<1>3. CASE handlers' = [handlers EXCEPT ![m][s].live = FALSE]
  BY <1>1, <1>3
<1> QED
  BY <1>2, <1>3 DEF Abandon

LEMMA ClientOthers ==
    ASSUME TypeOK, NEW m \in Machines, ClientStep(m)
    PROVE  OthersKeep(m) /\ UNCHANGED hostVars
<1>1. /\ peerLog \in [Machines -> [Machines -> Logs]]
      /\ handlers \in [Machines -> [Slots -> Handler]] /\ pull \in [Machines -> Stream]
      /\ sync \in [Machines -> Process] /\ cursor \in [Machines -> Cursors]
      /\ undo \in [Machines -> Image] /\ db \in [Machines -> Db]
  BY DEF TypeOK, RpcTypeOK, LaptopTypeOK
<1>2. CASE SyncStarts(m)
  BY <1>1, <1>2 DEF SyncStarts, OthersKeep, rpcVars
<1>3. CASE PushBatch(m)
  BY <1>1, <1>3 DEF PushBatch, OthersKeep
<1>4. CASE PushOk(m)
  BY <1>1, <1>4, UndoSteps DEF PushOk, OthersKeep
<1>5. CASE PushError(m)
  BY <1>1, <1>5, UndoSteps DEF PushError, OthersKeep
<1>6. CASE PushTimeout(m)
  BY <1>1, <1>6, UndoSteps, AbandonSteps DEF PushTimeout, OthersKeep
<1>7. CASE PushDone(m)
  BY <1>1, <1>7, UndoSteps DEF PushDone, OthersKeep
<1>8. CASE ApplyLine(m)
  BY ZenonT(40), <1>1, <1>8, UndoSteps DEF ApplyLine, OthersKeep
<1>9. CASE SetPeerCursor(m)
  BY <1>1, <1>9, UndoSteps DEF SetPeerCursor, OthersKeep, rpcVars
<1>10. CASE PullDone(m) \/ PullEndsEarly(m)
  BY <1>1, <1>10, UndoSteps DEF PullDone, PullEndsEarly, OthersKeep
<1>11. CASE SyncKilled(m)
  <2>1. \A p \in Machines \ {m} : handlers'[p] = handlers[p]
    BY <1>11, AbandonSteps DEF SyncKilled
  <2> QED
    BY <1>1, <1>11, <2>1, UndoSteps DEF SyncKilled, OthersKeep
<1> QED
  BY <1>2, <1>3, <1>4, <1>5, <1>6, <1>7, <1>8, <1>9, <1>10, <1>11
  DEF ClientStep, SyncNext, PullBroken

(* The slots of the laptop itself: a new call, or what the server may do.  *)
Calls(m, s, batch) == handlers' = [handlers EXCEPT ![m][s] = Call(batch)]

LEMMA ClientHandlers ==
    ASSUME TypeOK, NEW m \in Machines, ClientStep(m), ~PushBatch(m)
    PROVE  HandlersMove
<1>1. ASSUME \A s \in Slots : \/ handlers'[m][s] = handlers[m][s]
                              \/ handlers'[m][s] = FreeSlot
                              \/ handlers'[m][s] = [handlers[m][s] EXCEPT !.live = FALSE]
      PROVE  HandlersMove
  <2>1. ASSUME NEW p \in Machines, NEW s \in Slots
        PROVE  Moves(handlers[p][s], handlers'[p][s], mirror'[p], canon')
    <3> DEFINE h == handlers[p][s]
    <3>1. h \in Handler
      BY Types
    <3>2. handlers'[p][s] \in {h, FreeSlot, [h EXCEPT !.live = FALSE]}
      BY <1>1, ClientOthers DEF OthersKeep
    <3>3. /\ [h EXCEPT !.live = FALSE].pc = h.pc
          /\ [h EXCEPT !.live = FALSE].batch = h.batch
          /\ [h EXCEPT !.live = FALSE].todo = h.todo
          /\ FreeSlot.pc = "free"
      BY <3>1 DEF Handler, FreeSlot
    <3> HIDE DEF h
    <3>4. Moves(h, handlers'[p][s], mirror'[p], canon')
      BY <3>2, <3>3 DEF Moves
    <3> QED
      BY <3>4 DEF h
  <2> QED
    BY <2>1 DEF HandlersMove
<1>2. CASE PushOk(m) \/ PushError(m)
  BY SMTT(20), <1>1, <1>2, Types DEF PushOk, PushError
<1>3. CASE PushTimeout(m)
  BY <1>1, <1>3, AbandonSteps DEF PushTimeout
<1>4. CASE SyncKilled(m)
  BY <1>1, <1>4, AbandonSteps DEF SyncKilled
<1>5. CASE UNCHANGED handlers
  BY <1>1, <1>5
<1> QED
  BY <1>2, <1>3, <1>4, <1>5
  DEF ClientStep, SyncNext, PullBroken, SyncStarts, PushDone, ApplyLine, SetPeerCursor,
      PullDone, PullEndsEarly, rpcVars

(***************************************************************************)
(* Every cursor of a laptop is NoPosition, one it had, one it would roll   *)
(* back to, or the position that do_push or do_pull has reached.           *)
(***************************************************************************)
CursorSteps(m) ==
    \A p \in Machines :
        \/ cursor'[m][p] = cursor[m][p]
        \/ SyncKilled(m) /\ cursor'[m][p] = undo[m].cursor[p]
        \/ PushDone(m) /\ p = m /\ cursor'[m][p] = sync[m].pos
        \/ SetPeerCursor(m) /\ p = sync[m].peer /\ cursor'[m][p] = sync[m].pos

LEMMA ClientCursors ==
    ASSUME TypeOK, NEW m \in Machines, ClientStep(m)
    PROVE  CursorSteps(m) /\ undo'[m].cursor \in {undo[m].cursor, cursor[m], NoCursors}
<1>1. cursor \in [Machines -> [Machines -> Position]] /\ sync[m].peer \in Machines
  BY Types DEF Process
<1>2. CursorSteps(m)
  <2>1. CASE UNCHANGED cursor
    BY <2>1 DEF CursorSteps
  <2>2. CASE PushDone(m) \/ SetPeerCursor(m)
    BY <1>1, <2>2 DEF PushDone, SetPeerCursor, CursorSteps
  <2>3. CASE SyncKilled(m)
    BY <1>1, <2>3, UndoSteps DEF SyncKilled, CursorSteps
  <2> QED
    BY <2>1, <2>2, <2>3
    DEF ClientStep, SyncNext, PullBroken, SyncStarts, PushBatch, PushOk, PushError,
        PushTimeout, ApplyLine, PullDone, PullEndsEarly
<1>3. UNCHANGED undo \/ OpenTransaction(m) \/ Commit(m) \/ Rollback(m)
  BY DEF ClientStep, SyncNext, PullBroken, SyncStarts, PushBatch, PushOk, PushError,
         PushTimeout, PushDone, ApplyLine, SetPeerCursor, PullDone, PullEndsEarly,
         SyncKilled
<1>4. \/ undo'[m] = undo[m] \/ undo'[m] = Closed
      \/ undo'[m] = [open |-> TRUE, db |-> db[m], cursor |-> cursor[m]]
  BY <1>3, UndoSteps
<1> QED
  BY <1>2, <1>4 DEF Closed

(***************************************************************************)
(* The positions that a laptop, its stream and its calls hold lie in the   *)
(* server's files; and a call that has not been stored begins no later     *)
(* than the file's end: between the end of the file and any line of the    *)
(* call there is no line that is not in the call.                          *)
(***************************************************************************)
AllWithin(files, c) == \A p \in Machines : Within(files[p], c[p])

StreamWithin(files, q) ==
    /\ AllWithin(files, q.since)
    /\ Within(files[q.peer], q.pos)
    /\ \A j \in 1..Len(q.chunk) : IsIn(files[q.from], q.chunk[j])
    /\ \A j \in 1..Len(q.batch) : IsIn(files[q.peer], q.batch[j])

CallWithin(files, v, hs) ==
    /\ v.pc = "push" => Within(files, v.pos)
    /\ v.pc = "wait" =>
          /\ v.slot \in Slots
          /\ hs[v.slot].pc = "sent" => \E e \in hs[v.slot].batch : v.pos = At(e)
          /\ hs[v.slot].pc \in {"replay", "ok"} => Within(files, v.pos)

ChunkWithin(files, v) == v.pc = "chunk" => Within(files[v.peer], v.pos)

NoHole(files, h) ==
    h.pc = "sent" =>
        \A e \in h.batch : \A o \in Len(files[e.date])..e.off :
            \E f \in h.batch : f.date = e.date /\ f.off = o

LaptopWithin(m) ==
    /\ AllWithin(mirror, cursor[m])
    /\ AllWithin(mirror, undo[m].cursor)
    /\ StreamWithin(mirror, pull[m])
    /\ CallWithin(mirror[m], sync[m], handlers[m])
    /\ ChunkWithin(mirror, sync[m])
    /\ \A s \in Slots : NoHole(mirror[m], handlers[m][s])

PositionsInv == \A m \in Machines : LaptopWithin(m)

LEMMA InitPositions == Init => PositionsInv
<1> SUFFICES ASSUME Init, NEW m \in Machines PROVE LaptopWithin(m)
  BY DEF PositionsInv
<1>1. AllWithin(mirror, NoCursors)
  BY NoPositionWithin DEF AllWithin, NoCursors
<1>2. cursor[m] = NoCursors /\ undo[m].cursor = NoCursors
  BY DEF Init, LaptopInit, Closed
<1>3. pull[m] = NoStream(m) /\ NoStream(m).since = NoCursors
  BY DEF Init, RpcInit, NoStream, Request, NoCursors
<1>4. StreamWithin(mirror, pull[m])
  <2>1. NoStream(m).pos = NoPosition /\ Len(NoStream(m).chunk) = 0 /\ Len(NoStream(m).batch) = 0
    BY EmptySeq DEF NoStream, Request
  <2> QED
    BY <1>1, <1>3, <2>1, NoPositionWithin DEF StreamWithin
<1>5. sync[m].pc = "idle" /\ \A s \in Slots : handlers[m][s].pc = "free"
  BY DEF Init, LaptopInit, IdleSync, RpcInit, FreeSlot
<1> QED
  BY <1>1, <1>2, <1>4, <1>5 DEF LaptopWithin, CallWithin, ChunkWithin, NoHole

LEMMA AllWithinLonger ==
    ASSUME TypeOK, TypeOK', MirrorsGrow, NEW c, AllWithin(mirror, c)
    PROVE  AllWithin(mirror', c)
BY Types, WithinLonger DEF AllWithin, MirrorsGrow, TypeOK, StoreTypeOK

SameScan(q, r) ==
    /\ r.since = q.since /\ r.peers = q.peers /\ r.peer = q.peer /\ r.dates = q.dates
    /\ r.pos = q.pos /\ r.batch = q.batch /\ r.chunk = q.chunk /\ r.from = q.from

LEMMA StreamWithinLonger ==
    ASSUME TypeOK, TypeOK', MirrorsGrow, NEW q \in Stream, NEW r, SameScan(q, r),
           StreamWithin(mirror, q)
    PROVE  StreamWithin(mirror', r)
<1>1. \A p \in Machines : mirror[p] \in Logs /\ mirror'[p] \in Logs
  BY DEF TypeOK, StoreTypeOK
<1>2. AllWithin(mirror', q.since)
  BY AllWithinLonger DEF StreamWithin
<1>3. Within(mirror'[q.peer], q.pos)
  BY <1>1, StreamFields, WithinLonger DEF StreamWithin, MirrorsGrow
<1>4. ASSUME NEW j \in 1..Len(q.chunk) PROVE IsIn(mirror'[q.from], q.chunk[j])
  BY <1>1, StreamFields, IsInLonger DEF StreamWithin, MirrorsGrow
<1>5. ASSUME NEW j \in 1..Len(q.batch) PROVE IsIn(mirror'[q.peer], q.batch[j])
  BY <1>1, StreamFields, IsInLonger DEF StreamWithin, MirrorsGrow
<1> QED
  BY <1>2, <1>3, <1>4, <1>5 DEF StreamWithin, SameScan

LEMMA CallWithinMoves ==
    ASSUME TypeOK, TypeOK', MirrorsGrow, HandlersMove, NEW m \in Machines,
           CallWithin(mirror[m], sync[m], handlers[m]), sync'[m] = sync[m]
    PROVE  CallWithin(mirror'[m], sync'[m], handlers'[m])
<1> DEFINE s == sync[m].slot
           h == handlers[m][s]
           g == handlers'[m][s]
<1>1. mirror[m] \in Logs /\ mirror'[m] \in Logs /\ Longer(mirror[m], mirror'[m])
  BY Types DEF TypeOK, StoreTypeOK, MirrorsGrow
<1>2. sync[m].pc = "push" => Within(mirror'[m], sync[m].pos)
  BY <1>1, WithinLonger DEF CallWithin
<1>3. ASSUME sync[m].pc = "wait"
      PROVE  /\ g.pc = "sent" => \E e \in g.batch : sync[m].pos = At(e)
             /\ g.pc \in {"replay", "ok"} => Within(mirror'[m], sync[m].pos)
  <2>1. s \in Slots
    BY <1>3 DEF CallWithin
  <2>2. Moves(h, g, mirror'[m], canon')
    BY <2>1 DEF HandlersMove
  <2>3. h.batch \in SUBSET Entry
    BY <2>1, Types DEF Handler
  <2>4. h.pc \in {"replay", "ok"} => Within(mirror'[m], sync[m].pos)
    BY <1>1, <1>3, WithinLonger DEF CallWithin
  <2>5. g.pc = "sent" => \E e \in g.batch : sync[m].pos = At(e)
    BY <1>3, <2>2 DEF CallWithin, Moves
  <2>6. ASSUME h.pc = "sent", \A e \in h.batch : e.off < Len(mirror'[m][e.date])
        PROVE  Within(mirror'[m], sync[m].pos)
    <3>1. PICK e \in h.batch : sync[m].pos = At(e)
      BY <1>3, <2>6 DEF CallWithin
    <3>2. e \in Entry /\ e.off < Len(mirror'[m][e.date])
      BY <2>3, <2>6
    <3> QED
      BY <1>1, <3>1, <3>2, LogLengths DEF Within, At, Entry
  <2>7. g.pc \in {"replay", "ok"} => Within(mirror'[m], sync[m].pos)
    BY <2>2, <2>4, <2>6 DEF Moves
  <2> QED
    BY <2>5, <2>7
<1> QED
  BY <1>2, <1>3 DEF CallWithin

LEMMA NoHoleMoves ==
    ASSUME TypeOK, TypeOK', MirrorsGrow, HandlersMove, NEW m \in Machines, NEW s \in Slots,
           NoHole(mirror[m], handlers[m][s])
    PROVE  NoHole(mirror'[m], handlers'[m][s])
<1> DEFINE h == handlers[m][s]
           g == handlers'[m][s]
<1>1. mirror[m] \in Logs /\ mirror'[m] \in Logs /\ Longer(mirror[m], mirror'[m])
  BY Types DEF TypeOK, StoreTypeOK, MirrorsGrow
<1>2. Moves(h, g, mirror'[m], canon')
  BY DEF HandlersMove
<1>3. h.batch \in SUBSET Entry
  BY Types DEF Handler
<1> SUFFICES ASSUME g.pc = "sent", NEW e \in g.batch, NEW o \in Len(mirror'[m][e.date])..e.off
             PROVE  \E f \in g.batch : f.date = e.date /\ f.off = o
  BY DEF NoHole
<1>4. h.pc = "sent" /\ g.batch = h.batch
  BY <1>2 DEF Moves
<1>5. e.date \in Dates /\ e.off \in Nat
  BY <1>3, <1>4 DEF Entry
<1>6. Len(mirror[m][e.date]) \in Nat /\ Len(mirror'[m][e.date]) \in Nat
  BY <1>1, <1>5, LogLengths
<1>7. Len(mirror[m][e.date]) <= Len(mirror'[m][e.date])
  BY <1>1, <1>5 DEF Longer
<1>8. o \in Len(mirror[m][e.date])..e.off
  BY <1>5, <1>6, <1>7
<1> QED
  BY <1>4, <1>8 DEF NoHole

LEMMA GrowthKeepsPositions ==
    ASSUME TypeOK, TypeOK', MirrorsGrow, HandlersMove, NEW m \in Machines, LaptopWithin(m),
           cursor'[m] = cursor[m], undo'[m] = undo[m], sync'[m] = sync[m],
           SameScan(pull[m], pull'[m])
    PROVE  LaptopWithin(m)'
<1>1. AllWithin(mirror', cursor'[m]) /\ AllWithin(mirror', undo'[m].cursor)
  BY AllWithinLonger DEF LaptopWithin
<1>2. StreamWithin(mirror', pull'[m])
  BY Types, StreamWithinLonger DEF LaptopWithin
<1>3. CallWithin(mirror'[m], sync'[m], handlers'[m])
  BY CallWithinMoves DEF LaptopWithin
<1>4. ChunkWithin(mirror', sync'[m])
  <2>1. \A p \in Machines : mirror[p] \in Logs /\ mirror'[p] \in Logs
    BY DEF TypeOK, StoreTypeOK
  <2>2. sync[m].peer \in Machines
    BY Types DEF Process
  <2> QED
    BY <2>1, <2>2, WithinLonger DEF LaptopWithin, ChunkWithin, MirrorsGrow
<1>5. \A s \in Slots : NoHole(mirror'[m], handlers'[m][s])
  BY NoHoleMoves DEF LaptopWithin
<1> QED
  BY <1>1, <1>2, <1>3, <1>4, <1>5 DEF LaptopWithin

(***************************************************************************)
(* The steps of a stream, field by field.                                  *)
(***************************************************************************)
KeepsChunk(q, r) == r.since = q.since /\ r.chunk = q.chunk /\ r.from = q.from

Begins(m, q, r) ==
    /\ KeepsChunk(q, r) /\ q.pc = "sent" /\ r.pc = "open"
    /\ r.peer = q.peer /\ r.dates = q.dates /\ r.pos = q.pos /\ r.batch = q.batch
    /\ r.peers \subseteq Machines \ {m}

Scans(q, r, p) ==
    /\ KeepsChunk(q, r) /\ r.pc = q.pc /\ q.pc = "open"
    /\ p \in q.peers /\ r.peers = q.peers \ {p} /\ r.peer = p
    /\ r.pos = q.since[p]
    /\ r.dates = {d \in Dates : mirror[p][d] # <<>> /\ d >= q.since[p].date}
    /\ q.batch = <<>> /\ r.batch = <<>> /\ q.dates = {}

(* The offset in the file of day d at which the scan stands.               *)
NextOffset(q, d) == IF q.pos.date = d THEN q.pos.off + 1 ELSE 0

KeepsPeer(q, r) == r.peers = q.peers /\ r.peer = q.peer

Reads(q, r, e) ==
    /\ KeepsChunk(q, r) /\ KeepsPeer(q, r) /\ r.pc = q.pc /\ q.pc = "open"
    /\ r.dates = q.dates
    /\ e.date \in q.dates /\ \A x \in q.dates : e.date <= x
    /\ e \in Entry /\ IsIn(mirror[q.peer], e) /\ e.off = NextOffset(q, e.date)
    /\ r.batch = Append(q.batch, e) /\ r.pos = At(e)

Finishes(q, r, d) ==
    /\ KeepsChunk(q, r) /\ KeepsPeer(q, r) /\ r.pc = q.pc /\ q.pc = "open"
    /\ d \in q.dates /\ (\A x \in q.dates : d <= x) /\ r.dates = q.dates \ {d}
    /\ NextOffset(q, d) >= Len(mirror[q.peer][d])
    /\ r.batch = q.batch /\ r.pos = q.pos

Sends(q, r) ==
    /\ KeepsPeer(q, r) /\ r.pc = q.pc /\ q.pc = "open"
    /\ r.since = q.since /\ r.dates = q.dates /\ r.pos = q.pos
    /\ q.chunk = <<>> /\ q.batch # <<>>
    /\ r.chunk = q.batch /\ r.from = q.peer /\ r.batch = <<>>

StreamMoves(m) ==
    LET q == pull[m]
        r == pull'[m]
    IN  \/ Begins(m, q, r)
        \/ SameScan(q, r) /\ q.pc = "open" /\ r.pc = "done"
        \/ \E p \in Machines : Scans(q, r, p)
        \/ \E e \in Entry : Reads(q, r, e)
        \/ \E d \in Dates : Finishes(q, r, d)
        \/ Sends(q, r)

LEMMA StreamStepMoves ==
    ASSUME TypeOK, NEW m \in Machines, StreamStep(m)
    PROVE  StreamMoves(m) /\ \A p \in Machines \ {m} : pull'[p] = pull[p]
<1> DEFINE q == pull[m]
           r == pull'[m]
<1>1. pull \in [Machines -> Stream] /\ q \in Stream
  BY Types
<1>2. CASE PullBegins(m)
  <2> DEFINE dirs == {p \in Machines \ {m} : HasDirectory(p)}
  <2>1. /\ pull' = [pull EXCEPT ![m] = [q EXCEPT !.pc = "open", !.peers = dirs]]
        /\ q.pc = "sent"
        /\ dirs \subseteq Machines \ {m}
    BY <1>2 DEF PullBegins
  <2> HIDE DEF dirs
  <2>2. Begins(m, q, r)
    BY <1>1, <2>1 DEF Begins, KeepsChunk, Stream
  <2> QED
    BY <1>1, <2>1, <2>2 DEF StreamMoves
<1>3. CASE ScanPeer(m) /\ q.peers = {}
  <2>1. pull' = [pull EXCEPT ![m] = [q EXCEPT !.pc = "done"]]
    BY <1>3 DEF ScanPeer
  <2>2. SameScan(q, r) /\ q.pc = "open" /\ r.pc = "done"
    BY <1>1, <1>3, <2>1 DEF SameScan, Stream, ScanPeer
  <2> QED
    BY <1>1, <2>1, <2>2 DEF StreamMoves
<1>4. CASE ScanPeer(m) /\ q.peers # {}
  <2>1. PICK p \in q.peers :
          pull' = [pull EXCEPT ![m] = [q EXCEPT
                     !.peers = q.peers \ {p}, !.peer = p,
                     !.dates = {d \in Dates : /\ mirror[p][d] # <<>>
                                              /\ d >= q.since[p].date},
                     !.pos = q.since[p]]]
    BY <1>4, <1>1 DEF ScanPeer
  <2>2. Scans(q, r, p)
    BY <1>1, <1>4, <2>1 DEF Scans, KeepsChunk, Stream, ScanPeer
  <2> QED
    BY <1>1, <2>1, <2>2, StreamFields DEF StreamMoves
<1>5. CASE ReadLine(m)
  <2>1. PICK d \in q.dates :
          /\ FirstDate(m, d)
          /\ LET log == mirror[q.peer][d]
                 o   == NextOffset(q, d)
                 e   == [date |-> d, off |-> o, line |-> log[o + 1]]
             IN  pull' = IF o < Len(log)
                         THEN [pull EXCEPT ![m] = [q EXCEPT !.batch = Append(q.batch, e),
                                                            !.pos = At(e)]]
                         ELSE [pull EXCEPT ![m] = [q EXCEPT !.dates = q.dates \ {d}]]
    BY <1>1, <1>5 DEF ReadLine, NextOffset
  <2> DEFINE log == mirror[q.peer][d]
             o   == NextOffset(q, d)
             e   == [date |-> d, off |-> o, line |-> log[o + 1]]
  <2>2. d \in Dates /\ log \in Seq(Line) /\ Len(log) \in Nat /\ o \in Nat
    <3>1. q.peer \in Machines /\ q.dates \in SUBSET Dates /\ q.pos \in Position
      BY <1>1, StreamFields
    <3>2. d \in Dates
      BY <3>1
    <3>3. log \in Seq(Line) /\ Len(log) \in Nat
      BY <3>1, <3>2, Types, LogLengths
    <3>4. q.pos.off \in Int /\ q.pos.off >= -1
      BY <3>1, PositionFields
    <3>5. o = IF d = q.pos.date THEN q.pos.off + 1 ELSE 0
      BY DEF NextOffset
    <3>6. o \in Nat
      BY <3>4, <3>5
    <3> QED
      BY <3>2, <3>3, <3>6
  <2>3. q.pc = "open" /\ \A x \in q.dates : d <= x
    BY <1>5, <2>1 DEF ReadLine, FirstDate
  <2> HIDE DEF o
  <2>4. CASE o < Len(log)
    <3>1. log[o + 1] \in Line
      BY <2>2, <2>4
    <3>2. e \in Entry /\ e.date = d /\ e.off = o /\ IsIn(mirror[q.peer], e)
      BY <2>2, <2>4, <3>1 DEF Entry, IsIn
    <3>3. pull' = [pull EXCEPT ![m] = [q EXCEPT !.batch = Append(q.batch, e), !.pos = At(e)]]
      BY <2>1, <2>4 DEF o
    <3> HIDE DEF e
    <3>4. Reads(q, r, e)
      BY <1>1, <2>3, <3>2, <3>3 DEF Reads, KeepsChunk, KeepsPeer, Stream, o
    <3> QED
      BY <1>1, <3>2, <3>3, <3>4 DEF StreamMoves
  <2>5. CASE ~(o < Len(log))
    <3>1. pull' = [pull EXCEPT ![m] = [q EXCEPT !.dates = q.dates \ {d}]]
      BY <2>1, <2>5 DEF o
    <3>2. NextOffset(q, d) >= Len(mirror[q.peer][d])
      BY <2>2, <2>5 DEF o
    <3>3. Finishes(q, r, d)
      BY <1>1, <2>3, <3>1, <3>2 DEF Finishes, KeepsChunk, KeepsPeer, Stream
    <3> QED
      BY <1>1, <2>2, <3>1, <3>3 DEF StreamMoves
  <2> QED
    BY <2>4, <2>5
<1>6. CASE SendChunk(m)
  <2>1. pull' = [pull EXCEPT ![m] = [q EXCEPT !.chunk = q.batch, !.from = q.peer,
                                              !.batch = <<>>]]
    BY <1>6 DEF SendChunk
  <2>2. Sends(q, r)
    BY <1>1, <1>6, <2>1 DEF Sends, KeepsPeer, Stream, SendChunk
  <2> QED
    BY <1>1, <2>1, <2>2 DEF StreamMoves
<1> QED
  BY <1>2, <1>3, <1>4, <1>5, <1>6 DEF StreamStep

LEMMA AppendEach ==
    ASSUME NEW S, NEW s \in Seq(S), NEW e \in S
    PROVE  /\ Append(s, e) \in Seq(S) /\ Len(Append(s, e)) = Len(s) + 1 /\ Len(s) \in Nat
           /\ \A j \in 1..Len(s) : Append(s, e)[j] = s[j]
           /\ Append(s, e)[Len(s) + 1] = e
BY AppendProperties, LenProperties

LEMMA StreamMovesWithin ==
    ASSUME TypeOK, NEW m \in Machines, StreamMoves(m), StreamWithin(mirror, pull[m])
    PROVE  StreamWithin(mirror, pull'[m])
<1> DEFINE q == pull[m]
           r == pull'[m]
<1>1. q \in Stream
  BY Types
<1>2. /\ q.since \in [Machines -> Position] /\ q.batch \in Seq(Entry)
      /\ Len(q.batch) \in Nat /\ Len(<<>>) = 0
  BY <1>1, StreamFields, EmptySeq
<1>0. StreamWithin(mirror, q)
  OBVIOUS
<1> SUFFICES StreamWithin(mirror, r)
  OBVIOUS
<1> HIDE DEF q, r
<1>3. CASE Begins(m, q, r) \/ SameScan(q, r) \/ \E d \in Dates : Finishes(q, r, d)
  BY <1>0, <1>3 DEF Begins, SameScan, Finishes, KeepsChunk, KeepsPeer, StreamWithin
<1>4. ASSUME NEW p \in Machines, Scans(q, r, p) PROVE StreamWithin(mirror, r)
  BY <1>0, <1>2, <1>4 DEF Scans, KeepsChunk, StreamWithin, AllWithin
<1>5. ASSUME NEW e \in Entry, Reads(q, r, e) PROVE StreamWithin(mirror, r)
  <2>1. mirror[q.peer] \in Logs
    BY <1>1, StreamFields, Types DEF q
  <2>2. Within(mirror[q.peer], At(e))
    BY <1>5, <2>1, IsInWithin DEF Reads
  <2>3. ASSUME NEW j \in 1..Len(r.batch) PROVE IsIn(mirror[q.peer], r.batch[j])
    <3>1. /\ Len(r.batch) = Len(q.batch) + 1
          /\ \A k \in 1..Len(q.batch) : r.batch[k] = q.batch[k]
          /\ r.batch[Len(q.batch) + 1] = e
      BY <1>2, <1>5, AppendEach DEF Reads
    <3> QED
      BY <1>0, <1>2, <1>5, <3>1 DEF Reads, StreamWithin
  <2> QED
    BY <1>0, <1>5, <2>2, <2>3 DEF Reads, KeepsChunk, KeepsPeer, StreamWithin
<1>6. CASE Sends(q, r)
  BY <1>0, <1>2, <1>6 DEF Sends, KeepsPeer, StreamWithin
<1> QED
  BY <1>3, <1>4, <1>5, <1>6 DEF StreamMoves, q, r

(***************************************************************************)
(* What do_push reads, and the call it makes.                              *)
(***************************************************************************)
LEMMA UnreadIs ==
    ASSUME TypeOK, NEW m \in Machines
    PROVE  /\ Unread(m) \subseteq Entry
           /\ \A e \in Entry : e \in Unread(m) <=>
                 /\ e.date \in sync[m].dates
                 /\ IsIn(local[m], e)
                 /\ ~Passed(sync[m].pos, e.date, e.off)
<1>1. sync[m].dates \in SUBSET Dates /\ sync[m].pos \in Position /\ local[m] \in Logs
  BY Types DEF Process
<1>2. Unread(m) \subseteq Entry
  BY <1>1, EntriesAfterType DEF Unread
<1>3. ASSUME NEW e \in Unread(m)
      PROVE  /\ e.date \in sync[m].dates
             /\ IsIn(local[m], e)
             /\ ~Passed(sync[m].pos, e.date, e.off)
  <2>1. PICK d \in sync[m].dates : \E i \in 1..Len(local[m][d]) :
          /\ ~Passed(sync[m].pos, d, i - 1)
          /\ e = [date |-> d, off |-> i - 1, line |-> local[m][d][i]]
    BY DEF Unread, EntriesAfter
  <2>2. Len(local[m][d]) \in Nat
    BY <1>1, LogLengths
  <2> QED
    BY <2>1, <2>2 DEF IsIn
<1>4. ASSUME NEW e \in Entry, e.date \in sync[m].dates, IsIn(local[m], e),
             ~Passed(sync[m].pos, e.date, e.off)
      PROVE  e \in Unread(m)
  <2> DEFINE d == e.date
             i == e.off + 1
  <2>1. e.off \in Nat /\ d \in Dates
    BY DEF Entry
  <2>2. Len(local[m][d]) \in Nat
    BY <1>1, <2>1, LogLengths
  <2>3. i \in 1..Len(local[m][d]) /\ i - 1 = e.off
    BY <1>4, <2>1, <2>2 DEF IsIn
  <2>4. e = [date |-> d, off |-> i - 1, line |-> local[m][d][i]]
    BY <1>4, <2>1, <2>3 DEF IsIn, Entry
  <2>5. i \in {j \in 1..Len(local[m][d]) : ~Passed(sync[m].pos, d, j - 1)}
    BY <1>4, <2>3
  <2> HIDE DEF i, d
  <2>6. d \in sync[m].dates
    BY <1>4 DEF d
  <2> DEFINE S(x) == {[date |-> x, off |-> j - 1, line |-> local[m][x][j]] :
                        j \in {k \in 1..Len(local[m][x]) : ~Passed(sync[m].pos, x, k - 1)}}
  <2>7. e \in S(d)
    BY <2>4, <2>5
  <2>8. Unread(m) = UNION {S(x) : x \in sync[m].dates}
    BY DEF Unread, EntriesAfter
  <2> HIDE DEF S
  <2> QED
    BY <2>6, <2>7, <2>8
<1> QED
  BY <1>2, <1>3, <1>4

NewCall(m, s, last, batch) ==
    /\ sync[m].pc = "push"
    /\ handlers'[m] = [handlers[m] EXCEPT ![s] = Call(batch)]
    /\ handlers[m][s].pc = "free"
    /\ sync'[m].pc = "wait" /\ sync'[m].slot = s /\ sync'[m].pos = At(last)
    /\ sync'[m].dates \in {sync[m].dates, {}}
    /\ last \in Unread(m)
    /\ batch = {e \in Unread(m) : ~Precedes(last, e)}
    /\ UNCHANGED <<hostVars, db, cursor, undo, peerLog, pull>>

LEMMA PushBatchCalls ==
    ASSUME TypeOK, NEW m \in Machines, PushBatch(m)
    PROVE  \E s \in Slots : \E last \in Unread(m), batch \in SUBSET Entry :
              NewCall(m, s, last, batch) /\ last \in batch
<1>1. PICK s \in Slots, last \in Unread(m) :
        LET batch == {e \in Unread(m) : ~Precedes(last, e)}
            full  == Cardinality(batch) = BatchSize
        IN  /\ handlers[m][s].pc = "free"
            /\ handlers' = [handlers EXCEPT ![m][s] = Call(batch)]
            /\ sync' = [sync EXCEPT ![m].pc = "wait",
                                    ![m].dates = IF full THEN @ ELSE {},
                                    ![m].pos = At(last),
                                    ![m].slot = s]
  BY DEF PushBatch
<1> DEFINE batch == {e \in Unread(m) : ~Precedes(last, e)}
           dates == IF Cardinality(batch) = BatchSize THEN sync[m].dates ELSE {}
           x     == [sync[m] EXCEPT !.pc = "wait", !.dates = dates, !.pos = At(last),
                                    !.slot = s]
<1>2. /\ handlers' = [handlers EXCEPT ![m][s] = Call(batch)]
      /\ sync'[m] = x
      /\ handlers[m][s].pc = "free"
  <2>1. sync \in [Machines -> Process]
    BY Types
  <2> QED
    BY <1>1, <2>1 DEF Process
<1>3. batch \in SUBSET Entry /\ last \in batch
  BY UnreadIs DEF Precedes, Entry, Dates
<1>4. dates \in {sync[m].dates, {}}
  OBVIOUS
<1>5. batch = {e \in Unread(m) : ~Precedes(last, e)}
  OBVIOUS
<1> HIDE DEF batch, dates
<1>6. x.pc = "wait" /\ x.dates = dates /\ x.pos = At(last) /\ x.slot = s
  BY Types DEF Process
<1> HIDE DEF x
<1>7. handlers'[m] = [handlers[m] EXCEPT ![s] = Call(batch)]
  BY <1>2, Types
<1>8. NewCall(m, s, last, batch)
  BY <1>2, <1>4, <1>5, <1>6, <1>7 DEF NewCall, PushBatch
<1> QED
  BY <1>3, <1>8

(***************************************************************************)
(* What a step of the sync process does to its own state and to its        *)
(* stream.                                                                 *)
(***************************************************************************)
Starts(m) ==
    /\ sync[m].pc = "idle" /\ sync'[m].pc = "push" /\ sync'[m].pos = cursor[m][m]
    /\ sync'[m].dates = {d \in Dates : local[m][d] # <<>> /\ d >= cursor[m][m].date}

Resumes(m) ==
    /\ sync[m].pc = "wait" /\ handlers[m][sync[m].slot].pc = "ok"
    /\ sync'[m].pc = "push" /\ sync'[m].pos = sync[m].pos
    /\ sync'[m].dates = sync[m].dates

EndsChunk(m) ==
    LET e == Head(pull[m].chunk)
    IN  /\ ApplyLine(m) /\ Len(pull[m].chunk) = 1
        /\ sync'[m].pc = "chunk" /\ sync'[m].pos = At(e) /\ sync'[m].peer = pull[m].from

SyncMoves(m) ==
    \/ sync'[m].pc \in {"idle", "pull"}
    \/ Starts(m) \/ PushBatch(m) \/ Resumes(m) \/ EndsChunk(m)

Applies(m) ==
    LET q == pull[m]
        r == pull'[m]
    IN  /\ ApplyLine(m) /\ q.chunk # <<>> /\ r.chunk = Tail(q.chunk)
        /\ r.since = q.since /\ r.from = q.from /\ KeepsPeer(q, r) /\ r.pc = q.pc
        /\ r.dates = q.dates /\ r.pos = q.pos /\ r.batch = q.batch

PullMoves(m) ==
    \/ pull'[m] = pull[m]
    \/ pull'[m] = NoStream(m)
    \/ PushDone(m) /\ pull'[m] = Request(m, cursor'[m], "sent")
    \/ Applies(m)

LEMMA ClientMoves ==
    ASSUME TypeOK, NEW m \in Machines, ClientStep(m)
    PROVE  SyncMoves(m) /\ PullMoves(m)
<1> DEFINE v == sync[m]
           q == pull[m]
<1>1. /\ sync \in [Machines -> Process] /\ pull \in [Machines -> Stream]
      /\ v \in Process /\ q \in Stream
      /\ q.chunk \in Seq(Entry) /\ Len(q.chunk) \in Nat
  BY Types, StreamFields
<1>2. CASE SyncStarts(m)
  <2>1. Starts(m)
    BY <1>1, <1>2 DEF SyncStarts, Starts, Process
  <2> QED
    BY <1>2, <2>1 DEF SyncStarts, SyncMoves, PullMoves, rpcVars
<1>3. CASE PushBatch(m)
  BY <1>3 DEF PushBatch, SyncMoves, PullMoves
<1>4. CASE PushOk(m)
  <2>1. Resumes(m)
    BY <1>1, <1>4 DEF PushOk, Resumes, Process
  <2> QED
    BY <1>4, <2>1 DEF PushOk, SyncMoves, PullMoves
<1>5. CASE PushError(m) \/ PushTimeout(m)
  BY <1>1, <1>5 DEF PushError, PushTimeout, IdleSync, SyncMoves, PullMoves
<1>6. CASE PushDone(m)
  BY <1>1, <1>6 DEF PushDone, IdleSync, SyncMoves, PullMoves
<1>7. CASE ApplyLine(m)
  <2> DEFINE e == Head(q.chunk)
             pc == IF Len(q.chunk) = 1 THEN "chunk" ELSE "pull"
             w == [v EXCEPT !.pc = pc, !.pos = At(e), !.peer = q.from]
  <2>1. sync'[m] = w
    <3>1. sync' = [sync EXCEPT ![m].pc = pc, ![m].pos = At(e), ![m].peer = q.from]
      BY <1>7 DEF ApplyLine
    <3> QED
      BY <1>1, <3>1 DEF Process
  <2>2. w.pc = pc /\ w.pos = At(e) /\ w.peer = q.from
    BY <1>1 DEF Process
  <2> HIDE DEF w
  <2>3. SyncMoves(m)
    BY <1>7, <2>1, <2>2 DEF SyncMoves, EndsChunk
  <2> DEFINE t == Tail(q.chunk)
             r == [q EXCEPT !.chunk = t]
  <2>4. pull'[m] = r /\ q.chunk # <<>>
    BY <1>1, <1>7 DEF ApplyLine
  <2> HIDE DEF t
  <2>5. /\ r.chunk = t /\ r.since = q.since /\ r.from = q.from /\ r.pc = q.pc
        /\ r.peers = q.peers /\ r.peer = q.peer
        /\ r.dates = q.dates /\ r.pos = q.pos /\ r.batch = q.batch
    BY <1>1 DEF Stream
  <2> HIDE DEF r
  <2>6. Applies(m)
    BY <1>7, <2>4, <2>5 DEF Applies, KeepsPeer, t
  <2> QED
    BY <2>3, <2>6 DEF PullMoves
<1>8. CASE SetPeerCursor(m)
  BY <1>1, <1>8 DEF SetPeerCursor, IdleSync, SyncMoves, PullMoves, rpcVars
<1>9. CASE PullDone(m) \/ PullEndsEarly(m) \/ SyncKilled(m)
  BY <1>1, <1>9 DEF PullDone, PullEndsEarly, SyncKilled, IdleSync, SyncMoves, PullMoves
<1> QED
  BY <1>2, <1>3, <1>4, <1>5, <1>6, <1>7, <1>8, <1>9
  DEF ClientStep, SyncNext, PullBroken

(***************************************************************************)
(* Positions under the steps of the sync process.                          *)
(***************************************************************************)
LEMMA RequestWithin ==
    ASSUME NEW m \in Machines, NEW files, NEW pc, NEW c, AllWithin(files, c)
    PROVE  StreamWithin(files, Request(m, c, pc))
<1>1. /\ Request(m, c, pc).since = c /\ Request(m, c, pc).pos = NoPosition
      /\ Len(Request(m, c, pc).chunk) = 0 /\ Len(Request(m, c, pc).batch) = 0
  BY EmptySeq DEF Request
<1> QED
  BY <1>1, NoPositionWithin DEF StreamWithin

LEMMA ClientCursorsWithin ==
    ASSUME TypeOK, NEW m \in Machines, ClientStep(m), LaptopWithin(m)
    PROVE  AllWithin(mirror, cursor'[m]) /\ AllWithin(mirror, undo'[m].cursor)
<1>1. AllWithin(mirror, cursor'[m])
  <2>1. ASSUME NEW p \in Machines PROVE Within(mirror[p], cursor'[m][p])
    <3>1. CASE cursor'[m][p] \in {cursor[m][p], undo[m].cursor[p]}
      BY <3>1 DEF LaptopWithin, AllWithin
    <3>2. CASE PushDone(m) /\ p = m /\ cursor'[m][p] = sync[m].pos
      BY <3>2 DEF LaptopWithin, CallWithin, PushDone
    <3>3. CASE SetPeerCursor(m) /\ p = sync[m].peer /\ cursor'[m][p] = sync[m].pos
      BY <3>3 DEF LaptopWithin, ChunkWithin, SetPeerCursor
    <3> QED
      BY <3>1, <3>2, <3>3, ClientCursors DEF CursorSteps
  <2> QED
    BY <2>1 DEF AllWithin
<1>2. AllWithin(mirror, NoCursors)
  BY NoPositionWithin DEF AllWithin, NoCursors
<1> QED
  BY <1>1, <1>2, ClientCursors DEF LaptopWithin

LEMMA ClientStreamWithin ==
    ASSUME TypeOK, NEW m \in Machines, ClientStep(m), LaptopWithin(m)
    PROVE  StreamWithin(mirror, pull'[m])
<1>1. AllWithin(mirror, NoCursors)
  BY NoPositionWithin DEF AllWithin, NoCursors
<1>2. CASE pull'[m] = pull[m]
  BY <1>2 DEF LaptopWithin
<1>3. CASE pull'[m] = NoStream(m) \/ pull'[m] = Request(m, cursor'[m], "sent")
  BY <1>1, <1>3, ClientCursorsWithin, RequestWithin DEF NoStream, NoCursors
<1>4. CASE Applies(m)
  <2> DEFINE q == pull[m]
             r == pull'[m]
  <2>1. /\ r.chunk = Tail(q.chunk) /\ q.chunk # <<>> /\ r.since = q.since /\ r.from = q.from
        /\ r.peer = q.peer /\ r.pos = q.pos /\ r.batch = q.batch
    BY <1>4 DEF Applies, KeepsPeer
  <2>2. StreamWithin(mirror, q) /\ q.chunk \in Seq(Entry) /\ Len(q.chunk) \in Nat
    BY Types, StreamFields DEF LaptopWithin
  <2> HIDE DEF q, r
  <2>3. ASSUME NEW j \in 1..Len(r.chunk) PROVE IsIn(mirror[r.from], r.chunk[j])
    <3>1. Len(Tail(q.chunk)) = Len(q.chunk) - 1 /\ Tail(q.chunk)[j] = q.chunk[j + 1]
          /\ j + 1 \in 1..Len(q.chunk)
      BY <2>1, <2>2, HeadTailProperties
    <3> QED
      BY <2>1, <2>2, <3>1 DEF StreamWithin
  <2>4. StreamWithin(mirror, r)
    BY <2>1, <2>2, <2>3 DEF StreamWithin
  <2> QED
    BY <2>4 DEF r
<1> QED
  BY <1>2, <1>3, <1>4, ClientMoves DEF PullMoves

(* A new call leaves no hole behind the end of the server's file: what it  *)
(* leaves out do_push has passed, and what it has passed is stored.        *)
LEMMA NewCallNoHole ==
    ASSUME TypeOK, MirrorInv, NEW m \in Machines, LaptopWithin(m), NEW s \in Slots,
           NEW last \in Unread(m), NEW batch \in SUBSET Entry, NewCall(m, s, last, batch)
    PROVE  NoHole(mirror[m], Call(batch))
<1>1. Call(batch).batch = batch
  BY DEF Call
<1> SUFFICES ASSUME NEW e \in batch, NEW o \in Len(mirror[m][e.date])..e.off
             PROVE  \E f \in batch : f.date = e.date /\ f.off = o
  BY <1>1 DEF NoHole
<1> DEFINE d == e.date
           c == sync[m].pos
<1>2. e \in Entry /\ e \in Unread(m) /\ ~Precedes(last, e)
  BY DEF NewCall
<1>3. /\ d \in Dates /\ e.off \in Nat /\ d \in sync[m].dates
      /\ e.off < Len(local[m][d]) /\ ~Passed(c, d, e.off)
  BY <1>2, UnreadIs DEF IsIn, Entry
<1>4. /\ Len(mirror[m][d]) \in Nat /\ Len(local[m][d]) \in Nat
      /\ local[m][d] \in Seq(Line) /\ c \in Position
  BY <1>3, Types, LogLengths DEF Process
<1>5. o \in Nat /\ o <= e.off /\ o >= Len(mirror[m][d])
  BY <1>3, <1>4
<1> DEFINE f == [date |-> d, off |-> o, line |-> local[m][d][o + 1]]
<1>6. f \in Entry /\ IsIn(local[m], f)
  BY <1>3, <1>4, <1>5 DEF Entry, IsIn
<1>7. ~Passed(c, d, o)
  <2>1. Within(mirror[m], c)
    BY DEF LaptopWithin, CallWithin, NewCall
  <2>2. c.date \in Int /\ c.off \in Int /\ d \in Int
    BY <1>3, <1>4, PositionFields DEF Dates
  <2> QED
    BY <1>3, <1>4, <1>5, <2>1, <2>2 DEF Passed, Within
<1>8. f \in Unread(m)
  BY <1>3, <1>6, <1>7, UnreadIs
<1>9. ~Precedes(last, f)
  <2>1. last \in Entry
    BY UnreadIs
  <2> QED
    BY <1>2, <1>3, <1>5, <2>1 DEF Precedes, Entry, Dates
<1>10. f \in batch
  BY <1>8, <1>9 DEF NewCall
<1> QED
  BY <1>10

LEMMA ClientPositions ==
    ASSUME TypeOK, TypeOK', MirrorInv, PositionsInv, NEW m \in Machines, ClientStep(m),
           UNCHANGED storeVars
    PROVE  PositionsInv'
<1>1. UNCHANGED mirror /\ MirrorsGrow
  BY SameMirrorsGrow DEF storeVars
<1>2. \A p \in Machines : LaptopWithin(p)
  BY DEF PositionsInv
<1>3. ASSUME NEW p \in Machines \ {m}
      PROVE  LaptopWithin(p)'
  <2>1. /\ handlers'[p] = handlers[p] /\ pull'[p] = pull[p] /\ sync'[p] = sync[p]
        /\ cursor'[p] = cursor[p] /\ undo'[p] = undo[p]
    BY ClientOthers DEF OthersKeep
  <2> QED
    BY <1>1, <1>2, <2>1 DEF LaptopWithin
<1>4. AllWithin(mirror, cursor'[m]) /\ AllWithin(mirror, undo'[m].cursor)
  BY <1>2, ClientCursorsWithin
<1>5. StreamWithin(mirror, pull'[m])
  BY <1>2, ClientStreamWithin
<1>6. ChunkWithin(mirror, sync'[m])
  <2>1. CASE EndsChunk(m)
    <3> DEFINE q == pull[m]
    <3>1. q \in Stream /\ Len(q.chunk) = 1 /\ StreamWithin(mirror, q)
      BY <1>2, <2>1, Types DEF EndsChunk, LaptopWithin
    <3>2. Head(q.chunk) = q.chunk[1] /\ q.chunk[1] \in Entry
          /\ IsIn(mirror[q.from], q.chunk[1]) /\ q.from \in Machines
      BY <3>1, StreamFields DEF StreamWithin
    <3>3. Within(mirror[q.from], At(q.chunk[1]))
      BY <3>2, Types, IsInWithin
    <3> QED
      BY <2>1, <3>2, <3>3 DEF EndsChunk, ChunkWithin
  <2>2. CASE ~EndsChunk(m)
    <3>1. sync'[m].pc # "chunk"
      BY <2>2, ClientMoves, PushBatchCalls DEF SyncMoves, Starts, Resumes, NewCall
    <3> QED
      BY <3>1 DEF ChunkWithin
  <2> QED
    BY <2>1, <2>2
<1>7. CASE PushBatch(m)
  <2>1. PICK s \in Slots : \E last \in Unread(m), batch \in SUBSET Entry :
              NewCall(m, s, last, batch) /\ last \in batch
    BY <1>7, PushBatchCalls
  <2>2. PICK last \in Unread(m), batch \in SUBSET Entry :
              NewCall(m, s, last, batch) /\ last \in batch
    BY <2>1
  <2>3. /\ handlers'[m][s] = Call(batch)
        /\ \A x \in Slots \ {s} : handlers'[m][x] = handlers[m][x]
    BY <2>2, Types DEF NewCall
  <2>4. Call(batch).pc = "sent" /\ Call(batch).batch = batch
    BY DEF Call
  <2>5. CallWithin(mirror[m], sync'[m], handlers'[m])
    BY <2>2, <2>3, <2>4 DEF CallWithin, NewCall
  <2>6. ASSUME NEW x \in Slots PROVE NoHole(mirror[m], handlers'[m][x])
    BY <1>2, <2>2, <2>3, NewCallNoHole DEF LaptopWithin
  <2>7. LaptopWithin(m)'
    BY <1>1, <1>4, <1>5, <1>6, <2>5, <2>6 DEF LaptopWithin
  <2> QED
    BY <1>3, <2>7 DEF PositionsInv
<1>8. CASE ~PushBatch(m)
  <2>1. HandlersMove
    BY <1>8, ClientHandlers
  <2>3. \A x \in Slots : NoHole(mirror'[m], handlers'[m][x])
    BY <1>1, <1>2, <2>1, NoHoleMoves DEF LaptopWithin
  <2>4. CallWithin(mirror[m], sync'[m], handlers'[m])
    <3>1. CASE sync'[m].pc \in {"idle", "pull", "chunk"}
      BY <3>1 DEF CallWithin
    <3>2. CASE Starts(m)
      BY <1>2, <3>2 DEF Starts, CallWithin, LaptopWithin, AllWithin
    <3>3. CASE Resumes(m)
      BY <1>2, <3>3 DEF Resumes, CallWithin, LaptopWithin
    <3> QED
      BY <1>8, <3>1, <3>2, <3>3, ClientMoves DEF SyncMoves, EndsChunk
  <2>5. LaptopWithin(m)'
    BY <1>1, <1>4, <1>5, <1>6, <2>3, <2>4 DEF LaptopWithin
  <2> QED
    BY <1>3, <2>5 DEF PositionsInv
<1> QED
  BY <1>7, <1>8

LEMMA SameHandlersMove == ASSUME UNCHANGED handlers PROVE HandlersMove
BY DEF HandlersMove, Moves

LEMMA SameStream == \A q : SameScan(q, q)
BY DEF SameScan

LEMMA RestartScans ==
    ASSUME TypeOK, Restart, NEW m \in Machines
    PROVE  SameScan(pull[m], pull'[m])
<1> DEFINE q == pull[m]
<1>1. q \in Stream /\ pull'[m] \in {q, [q EXCEPT !.pc = "broken"]}
  BY Types DEF Restart
<1> HIDE DEF q
<1>2. SameScan(q, pull'[m])
  BY <1>1 DEF SameScan, Stream
<1> QED
  BY <1>2 DEF q

LEMMA NextPositions ==
    TypeOK /\ TypeOK' /\ MirrorInv /\ PositionsInv /\ [Next]_vars => PositionsInv'
<1> SUFFICES ASSUME TypeOK, TypeOK', MirrorInv, PositionsInv, [Next]_vars
             PROVE  PositionsInv'
  OBVIOUS
<1>1. ASSUME MirrorsGrow, HandlersMove, UNCHANGED <<cursor, undo, sync>>,
             \A m \in Machines : SameScan(pull[m], pull'[m])
      PROVE  PositionsInv'
  BY <1>1, GrowthKeepsPositions DEF PositionsInv
<1>2. ASSUME UNCHANGED <<storeVars, rpcVars, syncVars>>
      PROVE  PositionsInv'
  BY <1>1, <1>2, SameMirrorsGrow, SameHandlersMove, SameStream
  DEF storeVars, rpcVars, syncVars
<1>3. ASSUME NEW m \in Machines, NEW s \in Slots, PushServerStep(m, s), UNCHANGED laptopVars
      PROVE  PositionsInv'
  BY <1>1, <1>3, PushServerMoves, SameStream DEF laptopVars, syncVars
<1>4. CASE Restart /\ UNCHANGED laptopVars
  BY <1>1, <1>4, RestartMoves, RestartScans DEF laptopVars, syncVars
<1>5. ASSUME NEW m \in Machines, StreamStep(m), UNCHANGED <<storeVars, handlers, laptopVars>>
      PROVE  PositionsInv'
  <2>1. UNCHANGED <<mirror, handlers, sync, cursor, undo>>
    BY <1>5 DEF storeVars, laptopVars, syncVars
  <2>2. StreamMoves(m) /\ \A p \in Machines \ {m} : pull'[p] = pull[p]
    BY <1>5, StreamStepMoves
  <2>3. StreamWithin(mirror, pull'[m])
    BY <2>2, StreamMovesWithin DEF PositionsInv, LaptopWithin
  <2>4. ASSUME NEW p \in Machines PROVE LaptopWithin(p)'
    BY <2>1, <2>2, <2>3 DEF PositionsInv, LaptopWithin
  <2> QED
    BY <2>4 DEF PositionsInv
<1>6. ASSUME NEW m \in Machines, Host(m) PROVE PositionsInv'
  <2>1. UNCHANGED syncVars
    BY <1>6 DEF Host, HostNext, HostRuns, HostBegins, AppendAction, HostStores, AppendResult
  <2> QED
    BY <1>2, <1>6, <2>1 DEF Host
<1>7. CASE NewDay
  BY <1>2, <1>7 DEF NewDay, Midnight
<1>8. ASSUME NEW m \in Machines, ClientStep(m), UNCHANGED storeVars PROVE PositionsInv'
  BY <1>8, ClientPositions
<1>9. CASE UNCHANGED <<storeVars, rpcVars, laptopVars>>
  BY <1>2, <1>9 DEF laptopVars
<1> QED
  BY <1>3, <1>4, <1>5, <1>6, <1>7, <1>8, <1>9, StepCases

(***************************************************************************)
(* A group of lines that begins no later than the end of the file and has  *)
(* no hole fits.  Its last line is the greatest of finitely many offsets.  *)
(***************************************************************************)
LEMMA NoHoleFits ==
    ASSUME TypeOK, MirrorInv, NEW m \in Machines, NEW s \in Slots,
           handlers[m][s].pc = "sent", NoHole(mirror[m], handlers[m][s]), NEW d \in Dates
    PROVE  ~Gap(mirror[m], handlers[m][s].batch, d)
<1> DEFINE batch == handlers[m][s].batch
           log   == mirror[m][d]
           fresh == Fresh(log, batch, d)
           T     == {e.off : e \in fresh}
<1>1. batch \in SUBSET Entry /\ Len(log) \in Nat /\ Len(local[m][d]) \in Nat
  BY Types, LogLengths DEF Handler
<1>2. ASSUME NEW e \in fresh
      PROVE  /\ e \in batch /\ e.date = d /\ e.off \in Nat /\ e.off >= Len(log)
             /\ e.off < Len(local[m][d])
  <2>1. e \in batch /\ e.date = d /\ e.off >= Len(log)
    BY DEF Fresh
  <2> QED
    BY <1>1, <2>1 DEF Entry, MirrorInv, BatchesAreLogged, IsLogged
<1>3. ASSUME NEW e \in batch, e.date = d, e.off >= Len(log)
      PROVE  e \in fresh
  BY <1>3 DEF Fresh
<1> HIDE DEF fresh
<1> SUFFICES Fits(log, fresh)
  BY DEF Gap, fresh
<1>4. CASE fresh = {}
  <2>1. Fills(log, fresh, Len(log))
    BY <1>1, <1>4 DEF Fills
  <2> QED
    BY <2>1 DEF Fits, Counts
<1>5. CASE fresh # {}
  <2>1. T \in SUBSET Nat /\ T # {} /\ \A t \in T : t < Len(local[m][d])
    BY <1>2, <1>5
  <2>2. PICK x \in T : \A y \in T : y <= x
    BY <1>1, <2>1, GreatestNatural
  <2>3. PICK e \in fresh : e.off = x
    BY <2>2
  <2>4. ASSUME NEW y \in T PROVE y \in Len(log)..x
    BY <1>1, <1>2, <2>2
  <2>5. ASSUME NEW y \in Len(log)..x PROVE y \in T
    <3>1. e \in batch /\ e.date = d /\ e.off = x
      BY <1>2, <2>3
    <3>2. y \in Len(mirror[m][e.date])..e.off
      BY <3>1
    <3>3. PICK f \in batch : f.date = e.date /\ f.off = y
      BY <3>1, <3>2 DEF NoHole
    <3>4. f \in fresh
      BY <1>1, <1>3, <3>1, <3>3
    <3> QED
      BY <3>3, <3>4
  <2>6. T = Len(log)..((x + 1) - 1)
    BY <1>1, <2>1, <2>2, <2>4, <2>5
  <2>7. x + 1 \in Counts(log, fresh)
    BY <2>3 DEF Counts
  <2> QED
    BY <2>6, <2>7 DEF Fits, Fills
<1> QED
  BY <1>4, <1>5

(***************************************************************************)
(* AppendLogLines never refuses a PushLogs call because of a gap: however  *)
(* many calls of a laptop are at work, abandoned by its client or retried, *)
(* wherever an earlier one failed or the server was restarted, and with    *)
(* invocations of the host that run past midnight.                         *)
(***************************************************************************)
THEOREM NoGap == Spec => []NeverAGap
<1>1. TypeOK /\ MirrorInv /\ PositionsInv => NeverAGap
  <2> SUFFICES ASSUME TypeOK, MirrorInv, PositionsInv, NEW m \in Machines, NEW s \in Slots,
                      handlers[m][s].pc = "sent", NEW d \in Dates
               PROVE  ~Gap(mirror[m], handlers[m][s].batch, d)
    BY DEF NeverAGap
  <2>1. NoHole(mirror[m], handlers[m][s])
    BY DEF PositionsInv, LaptopWithin
  <2> QED
    BY <2>1, NoHoleFits
<1> QED
  BY <1>1, InitType, NextType, InitMirror, NextMirror, InitPositions, NextPositions, PTL
  DEF Spec

(***************************************************************************)
(* A laptop pulls from others only.                                        *)
(***************************************************************************)
FromOthers(m, q, v) ==
    /\ q.peers \subseteq Machines \ {m}
    /\ q.chunk # <<>> => q.from # m
    /\ q.batch # <<>> \/ q.dates # {} => q.peer # m
    /\ v.pc = "chunk" => v.peer # m

PeersInv == \A m \in Machines : FromOthers(m, pull[m], sync[m])

LEMMA RequestFromOthers ==
    ASSUME NEW m, NEW since, NEW pc, NEW v, v.pc # "chunk"
    PROVE  FromOthers(m, Request(m, since, pc), v)
BY DEF FromOthers, Request

LEMMA InitPeers == Init => PeersInv
<1> SUFFICES ASSUME Init, NEW m \in Machines PROVE FromOthers(m, pull[m], sync[m])
  BY DEF PeersInv
<1>1. pull[m] = NoStream(m) /\ sync[m].pc = "idle"
  BY DEF Init, RpcInit, LaptopInit, IdleSync
<1> QED
  BY <1>1, RequestFromOthers DEF NoStream

LEMMA StreamPeers ==
    ASSUME NEW m \in Machines, StreamMoves(m), FromOthers(m, pull[m], sync[m])
    PROVE  FromOthers(m, pull'[m], sync[m])
<1> DEFINE q == pull[m]
           r == pull'[m]
           v == sync[m]
<1>1. FromOthers(m, q, v)
  OBVIOUS
<1> SUFFICES FromOthers(m, r, v)
  OBVIOUS
<1> HIDE DEF q, r, v
<1>2. CASE Begins(m, q, r) \/ SameScan(q, r)
  BY <1>1, <1>2 DEF Begins, KeepsChunk, SameScan, FromOthers
<1>3. ASSUME NEW p \in Machines, Scans(q, r, p) PROVE FromOthers(m, r, v)
  BY <1>1, <1>3 DEF Scans, KeepsChunk, FromOthers
<1>4. ASSUME NEW e \in Entry, Reads(q, r, e) PROVE FromOthers(m, r, v)
  BY <1>1, <1>4 DEF Reads, KeepsChunk, KeepsPeer, FromOthers
<1>5. ASSUME NEW d \in Dates, Finishes(q, r, d) PROVE FromOthers(m, r, v)
  BY <1>1, <1>5 DEF Finishes, KeepsChunk, KeepsPeer, FromOthers
<1>6. CASE Sends(q, r)
  BY <1>1, <1>6 DEF Sends, KeepsPeer, FromOthers
<1> QED
  BY <1>2, <1>3, <1>4, <1>5, <1>6 DEF StreamMoves, q, r

LEMMA ClientPeers ==
    ASSUME TypeOK, NEW m \in Machines, ClientStep(m), FromOthers(m, pull[m], sync[m])
    PROVE  FromOthers(m, pull'[m], sync'[m])
<1>1. sync'[m].pc = "chunk" => sync'[m].peer # m
  <2>1. CASE EndsChunk(m)
    BY <2>1 DEF EndsChunk, ApplyLine, FromOthers
  <2>2. CASE ~EndsChunk(m)
    BY <2>2, ClientMoves, PushBatchCalls DEF SyncMoves, Starts, Resumes, NewCall
  <2> QED
    BY <2>1, <2>2
<1>2. CASE pull'[m] = pull[m]
  BY <1>1, <1>2 DEF FromOthers
<1>3. CASE pull'[m] = NoStream(m) \/ pull'[m] = Request(m, cursor'[m], "sent")
  BY <1>1, <1>3 DEF FromOthers, NoStream, Request
<1>4. CASE Applies(m)
  <2> DEFINE q == pull[m]
             r == pull'[m]
  <2>1. /\ r.peers = q.peers /\ r.from = q.from /\ r.peer = q.peer
        /\ r.batch = q.batch /\ r.dates = q.dates /\ q.chunk # <<>>
    BY <1>4 DEF Applies, KeepsPeer
  <2> QED
    BY <1>1, <2>1 DEF FromOthers
<1> QED
  BY <1>2, <1>3, <1>4, ClientMoves DEF PullMoves

LEMMA NextPeers == TypeOK /\ PeersInv /\ [Next]_vars => PeersInv'
<1> SUFFICES ASSUME TypeOK, PeersInv, [Next]_vars PROVE PeersInv'
  OBVIOUS
<1>1. ASSUME UNCHANGED sync, \A m \in Machines : SameScan(pull[m], pull'[m])
      PROVE  PeersInv'
  BY <1>1 DEF PeersInv, FromOthers, SameScan
<1>2. UNCHANGED laptopVars => UNCHANGED sync
  BY DEF laptopVars, syncVars
<1>3. ASSUME NEW m \in Machines, NEW s \in Slots, PushServerStep(m, s), UNCHANGED laptopVars
      PROVE  PeersInv'
  BY <1>1, <1>2, <1>3, PushServerMoves, SameStream
<1>4. CASE Restart /\ UNCHANGED laptopVars
  BY <1>1, <1>2, <1>4, RestartScans
<1>5. ASSUME NEW m \in Machines, StreamStep(m), UNCHANGED laptopVars PROVE PeersInv'
  BY <1>2, <1>5, StreamStepMoves, StreamPeers DEF PeersInv
<1>6. ASSUME UNCHANGED <<rpcVars, syncVars>> PROVE PeersInv'
  BY <1>6 DEF PeersInv, rpcVars, syncVars
<1>7. ASSUME NEW m \in Machines, Host(m) PROVE PeersInv'
  <2>1. UNCHANGED syncVars
    BY <1>7 DEF Host, HostNext, HostRuns, HostBegins, AppendAction, HostStores, AppendResult
  <2> QED
    BY <1>6, <1>7, <2>1 DEF Host
<1>8. CASE NewDay
  BY <1>6, <1>8 DEF NewDay, Midnight
<1>9. ASSUME NEW m \in Machines, ClientStep(m) PROVE PeersInv'
  BY <1>9, ClientOthers, ClientPeers DEF PeersInv, OthersKeep
<1>10. CASE UNCHANGED <<storeVars, rpcVars, laptopVars>>
  BY <1>6, <1>10 DEF laptopVars
<1> QED
  BY <1>3, <1>4, <1>5, <1>7, <1>8, <1>9, <1>10, StepCases

(***************************************************************************)
(* Days in order.  From here on no invocation of the host runs past        *)
(* midnight: a line is always logged under the current day.                *)
(***************************************************************************)
Today ==
    /\ \A m \in Machines, d \in Dates : local[m][d] # <<>> => d <= today
    /\ \A m \in Machines, h \in Procs : host[m][h].pc # "idle" => host[m][h].date = today

(* Before the first line of a call, everything of the earlier days is      *)
(* either stored or in the call.                                           *)
BatchInOrder(log, files, h) ==
    h.pc = "sent" =>
        \A e \in h.batch, d \in Dates : d < e.date =>
            \A i \in 1..Len(log[d]) :
                i <= Len(files[d]) \/ \E f \in h.batch : f.date = d /\ f.off = i - 1

(* The days that do_push has still to read have lines, and the earlier     *)
(* days that it will not read are empty or behind its position.            *)
DatesInOrder(log, v) ==
    v.pc \in {"push", "wait"} =>
        \A x \in v.dates :
            /\ log[x] # <<>>
            /\ \A d \in Dates \ v.dates : d < x => log[d] = <<>> \/ d < v.pos.date

OrderInv ==
    /\ Today
    /\ DaysInOrder
    /\ \A m \in Machines :
          /\ \A s \in Slots : BatchInOrder(local[m], mirror[m], handlers[m][s])
          /\ DatesInOrder(local[m], sync[m])

SyncInv == TypeOK /\ MirrorInv /\ PositionsInv /\ PeersInv

LEMMA EmptyIsZero ==
    ASSUME NEW S, NEW s \in Seq(S)
    PROVE  s = <<>> <=> Len(s) = 0
BY EmptySeq, LenProperties

LEMMA MirrorInLocal ==
    ASSUME SyncInv, NEW m \in Machines
    PROVE  /\ mirror[m] \in Logs /\ local[m] \in Logs /\ Longer(mirror[m], local[m])
           /\ \A c : Within(mirror[m], c) => Within(local[m], c)
<1>1. mirror[m] \in Logs /\ local[m] \in Logs
  BY Types DEF SyncInv
<1>2. Longer(mirror[m], local[m])
  BY DEF SyncInv, MirrorInv, MirrorIsPrefix, Longer
<1> QED
  BY <1>1, <1>2, WithinLonger

LEMMA WholeDay ==
    ASSUME NEW x \in Logs, NEW y \in Logs, Longer(x, y), NEW d \in Dates,
           Len(y[d]) <= Len(x[d])
    PROVE  x[d] = y[d]
<1>1. x[d] \in Seq(Line) /\ y[d] \in Seq(Line) /\ Len(x[d]) \in Nat /\ Len(y[d]) \in Nat
  BY LogLengths
<1>2. Len(x[d]) = Len(y[d]) /\ \A i \in 1..Len(x[d]) : x[d][i] = y[d][i]
  BY <1>1 DEF Longer
<1> QED
  BY <1>1, <1>2, SeqEqual

(***************************************************************************)
(* Everything behind a position in the server's files is stored.           *)
(***************************************************************************)
LEMMA PassedStored ==
    ASSUME SyncInv, DaysInOrder, NEW p \in Machines, NEW c \in Position,
           Within(mirror[p], c), NEW d \in Dates, NEW i \in 1..Len(local[p][d]),
           Passed(c, d, i - 1)
    PROVE  i <= Len(mirror[p][d])
<1>1. /\ Len(local[p][d]) \in Nat /\ Len(mirror[p][d]) \in Nat
      /\ c.date \in 0..LastDate /\ c.off \in Int /\ LastDate \in Nat
  BY MirrorInLocal, LogLengths, PositionFields, LastDateAssumption
<1>2. c.date \in Dates /\ d \in Nat
  BY <1>1 DEF Passed, Dates
<1>3. Len(mirror[p][c.date]) \in Nat /\ c.off \in 0..(Len(mirror[p][c.date]) - 1)
  BY <1>2, MirrorInLocal, LogLengths DEF Within
<1>4. CASE d < c.date
  <2>1. mirror[p][c.date] # <<>>
    BY <1>2, <1>3, MirrorInLocal, LogLengths, EmptyIsZero
  <2>2. mirror[p][d] = local[p][d]
    BY <1>2, <1>4, <2>1 DEF DaysInOrder
  <2> QED
    BY <1>1, <2>2
<1>5. CASE ~(d < c.date)
  BY <1>1, <1>2, <1>3, <1>5 DEF Passed
<1> QED
  BY <1>4, <1>5

(***************************************************************************)
(* The host appends to the log of the current day, behind nobody's back.   *)
(***************************************************************************)
LEMMA HostLogs ==
    ASSUME TypeOK, Today, NEW m \in Machines, Host(m)
    PROVE  /\ UNCHANGED <<today, rpcVars, storeVars, syncVars>>
           /\ UNCHANGED local \/ \E l \in Line : LogAppend(m, today, l)
<1>1. PICK h \in Procs : HostBegins(m, h) \/ HostRuns(m, h)
  BY DEF Host, HostNext
<1>2. UNCHANGED <<today, rpcVars, storeVars, syncVars>>
  BY <1>1 DEF Host, HostRuns, HostBegins, AppendAction, HostStores, AppendResult
<1>3. CASE AppendAction(m, h) \/ AppendResult(m, h)
  <2>1. /\ host[m][h].date = today
        /\ host[m][h].msg \in Message
        /\ host[m][h].res \in ResultKinds
    BY <1>3 DEF AppendAction, AppendResult, TypeOK, LaptopTypeOK, Invocation, IdleHost, Today
  <2> QED
    BY <1>2, <1>3, <2>1, LinesOfMessages DEF AppendAction, AppendResult
<1> QED
  BY <1>1, <1>2, <1>3 DEF HostRuns, HostBegins, HostStores

LEMMA AppendedLine ==
    ASSUME TypeOK, NEW m \in Machines, NEW l \in Line, LogAppend(m, today, l)
    PROVE  /\ \A p \in Machines, d \in Dates :
                 ~(p = m /\ d = today) => local'[p][d] = local[p][d]
           /\ local'[m][today] = Append(local[m][today], l)
           /\ today \in Dates
BY DEF LogAppend, TypeOK, LaptopTypeOK, Logs

LEMMA NewLineNotPassed ==
    ASSUME TypeOK, Today, NEW m \in Machines,
           UNCHANGED local \/ \E l \in Line : LogAppend(m, today, l),
           NEW p \in Machines, NEW c \in Position, Within(local[p], c),
           NEW d \in Dates, NEW i \in 1..Len(local'[p][d]), Passed(c, d, i - 1)
    PROVE  i \in 1..Len(local[p][d]) /\ local'[p][d][i] = local[p][d][i]
<1>1. CASE local'[p][d] = local[p][d]
  BY <1>1
<1>2. CASE local'[p][d] # local[p][d]
  <2>1. PICK l \in Line : LogAppend(m, today, l)
    BY <1>2
  <2>2. p = m /\ d = today /\ local'[p][d] = Append(local[p][d], l)
    BY <1>2, <2>1, AppendedLine
  <2>3. local[p] \in Logs /\ local[p][d] \in Seq(Line) /\ Len(local[p][d]) \in Nat
    BY Types, LogLengths
  <2>4. /\ Len(local'[p][d]) = Len(local[p][d]) + 1
        /\ \A j \in 1..Len(local[p][d]) : local'[p][d][j] = local[p][d][j]
    BY <2>2, <2>3, AppendEach
  <2>5. c.date \in 0..LastDate /\ c.off \in Int /\ LastDate \in Nat /\ d \in Nat
    BY PositionFields, LastDateAssumption DEF Dates
  <2>6. c.date \in Dates
    BY <2>5, <2>4, <2>3 DEF Passed, Dates
  <2>7. /\ Len(local[p][c.date]) \in Nat /\ c.off < Len(local[p][c.date])
        /\ local[p][c.date] # <<>>
    <3>1. local[p][c.date] \in Seq(Line) /\ Len(local[p][c.date]) \in Nat
      BY <2>3, <2>6, LogLengths
    <3>2. c.off \in 0..(Len(local[p][c.date]) - 1)
      BY <2>6 DEF Within
    <3>3. Len(local[p][c.date]) # 0
      BY <3>1, <3>2
    <3> QED
      BY <3>1, <3>2, <3>3, EmptyIsZero
  <2>8. c.date <= today
    BY <2>6, <2>7 DEF Today
  <2>9. d = c.date /\ i - 1 <= c.off
    BY <2>2, <2>5, <2>8 DEF Passed
  <2>10. i \in 1..Len(local[p][d])
    BY <2>3, <2>4, <2>5, <2>7, <2>9
  <2> QED
    BY <2>4, <2>10
<1> QED
  BY <1>1, <1>2

LEMMA InitOrder == Init => OrderInv
<1> SUFFICES ASSUME Init PROVE OrderInv
  OBVIOUS
<1>1. Today
  BY DEF Init, LaptopInit, IdleHost, Today
<1>2. DaysInOrder
  BY DEF Init, StoreInit, DaysInOrder
<1>3. ASSUME NEW m \in Machines
      PROVE  sync[m].pc = "idle" /\ \A s \in Slots : handlers[m][s].pc = "free"
  BY DEF Init, LaptopInit, RpcInit, IdleSync, FreeSlot
<1> QED
  BY <1>1, <1>2, <1>3 DEF OrderInv, BatchInOrder, DatesInOrder

(* A day that an append begins has a line in the call.                     *)
LEMMA AppendBegins ==
    ASSUME NEW logs \in Logs, NEW batch \in SUBSET Entry, NEW k \in 1..(LastDate + 1),
           \A d \in 1..(k - 1) : ~Gap(logs, batch, d),
           NEW d \in Dates, logs[d] = <<>>, AppendUpTo(logs, batch, k)[d] # <<>>
    PROVE  d < k /\ \E e \in batch : e.date = d
<1> DEFINE fresh == Fresh(logs[d], batch, d)
           x     == Extend(logs[d], fresh)
<1>1. d < k /\ AppendUpTo(logs, batch, k)[d] = x
  BY DEF AppendUpTo
<1>2. Fits(logs[d], fresh)
  BY <1>1, LastDateAssumption DEF Gap, Dates
<1>3. x \in Seq(Line) /\ Len(x) \in Counts(logs[d], fresh)
  BY <1>2, LogLengths, ExtendFacts DEF Fresh
<1>4. Len(x) # 0
  BY <1>1, <1>3, EmptyIsZero
<1>5. Len(logs[d]) = 0
  BY LogLengths, EmptyIsZero
<1>6. fresh # {}
  BY <1>3, <1>4, <1>5 DEF Counts
<1> QED
  BY <1>1, <1>6 DEF Fresh

LEMMA AppendOrder ==
    ASSUME SyncInv, OrderInv, SyncInv', UNCHANGED local, NEW m \in Machines, NEW s \in Slots,
           handlers[m][s].pc = "sent", NEW k \in 1..(LastDate + 1),
           \A d \in 1..(k - 1) : ~Gap(mirror[m], handlers[m][s].batch, d),
           mirror' = [mirror EXCEPT ![m] = AppendUpTo(@, handlers[m][s].batch, k)]
    PROVE  DaysInOrder'
<1> DEFINE batch == handlers[m][s].batch
<1>1. batch \in SUBSET Entry /\ mirror \in [Machines -> Logs] /\ mirror[m] \in Logs
  BY Types DEF SyncInv, Handler
<1>2. /\ MirrorsGrow
      /\ \A e \in batch : e.date < k => e.off < Len(mirror'[m][e.date])
  BY AppendMirrorsGrow DEF SyncInv
<1> SUFFICES ASSUME NEW p \in Machines, NEW d \in Dates, NEW e \in Dates, d < e,
                    mirror'[p][e] # <<>>
             PROVE  mirror'[p][d] = local[p][d]
  BY DEF DaysInOrder
<1>3. /\ mirror[p] \in Logs /\ mirror'[p] \in Logs /\ local[p] \in Logs
      /\ Longer(mirror'[p], local[p])
  <2>1. TypeOK /\ TypeOK' /\ MirrorIsPrefix'
    BY DEF SyncInv, MirrorInv
  <2>2. mirror[p] \in Logs /\ mirror'[p] \in Logs /\ local[p] \in Logs
    BY <2>1 DEF TypeOK, StoreTypeOK, LaptopTypeOK
  <2> QED
    BY <2>1, <2>2 DEF MirrorIsPrefix, Longer
<1>4. /\ Len(mirror[p][d]) \in Nat /\ Len(mirror'[p][d]) \in Nat /\ Len(local[p][d]) \in Nat
      /\ Len(mirror[p][d]) <= Len(mirror'[p][d])
  BY <1>2, <1>3, LogLengths DEF MirrorsGrow, Longer
<1>5. CASE mirror[p][e] # <<>>
  <2>1. mirror[p][d] = local[p][d]
    BY <1>5 DEF OrderInv, DaysInOrder
  <2> QED
    BY <1>3, <1>4, <2>1, WholeDay
<1>6. CASE mirror[p][e] = <<>>
  <2>1. p = m /\ mirror'[m] = AppendUpTo(mirror[m], batch, k)
    BY <1>1, <1>6
  <2>2. e < k /\ \E f \in batch : f.date = e
    BY <1>1, <1>6, <2>1, AppendBegins
  <2>3. PICK f \in batch : f.date = e
    BY <2>2
  <2>4. ASSUME NEW i \in 1..Len(local[m][d]) PROVE i <= Len(mirror'[m][d])
    <3>1. i <= Len(mirror[m][d]) \/ \E g \in batch : g.date = d /\ g.off = i - 1
      BY <2>3 DEF OrderInv, BatchInOrder
    <3>2. ASSUME NEW g \in batch, g.date = d, g.off = i - 1 PROVE i <= Len(mirror'[m][d])
      <4>1. d < k /\ i \in Nat
        BY <2>2, <1>4 DEF Dates
      <4>2. g.off < Len(mirror'[m][d])
        BY <1>2, <3>2, <4>1
      <4> QED
        BY <1>4, <2>1, <3>2, <4>1, <4>2
    <3> QED
      BY <1>4, <2>1, <3>1, <3>2
  <2>5. Len(local[m][d]) <= Len(mirror'[m][d])
    BY <1>4, <2>1, <2>4
  <2> QED
    BY <1>3, <2>1, <2>5, WholeDay
<1> QED
  BY <1>5, <1>6

LEMMA MovesKeepOrder ==
    ASSUME SyncInv, OrderInv, SyncInv', MirrorsGrow, HandlersMove, UNCHANGED local,
           NEW m \in Machines
    PROVE  \A s \in Slots : BatchInOrder(local'[m], mirror'[m], handlers'[m][s])
<1>1. ASSUME NEW s \in Slots PROVE BatchInOrder(local[m], mirror'[m], handlers'[m][s])
  <2> DEFINE h == handlers[m][s]
             g == handlers'[m][s]
  <2>1. Moves(h, g, mirror'[m], canon') /\ BatchInOrder(local[m], mirror[m], h)
    BY DEF HandlersMove, OrderInv
  <2>2. \A d \in Dates : /\ Len(local[m][d]) \in Nat /\ Len(mirror[m][d]) \in Nat
                         /\ Len(mirror'[m][d]) \in Nat
                         /\ Len(mirror[m][d]) <= Len(mirror'[m][d])
    BY Types, LogLengths DEF SyncInv, TypeOK, StoreTypeOK, MirrorsGrow, Longer
  <2> HIDE DEF h, g
  <2> SUFFICES ASSUME g.pc = "sent", NEW e \in g.batch, NEW d \in Dates, d < e.date,
                      NEW i \in 1..Len(local[m][d])
               PROVE  \/ i <= Len(mirror'[m][d])
                      \/ \E f \in g.batch : f.date = d /\ f.off = i - 1
    BY DEF BatchInOrder, g
  <2>3. h.pc = "sent" /\ g.batch = h.batch
    BY <2>1 DEF Moves
  <2>4. i <= Len(mirror[m][d]) \/ \E f \in g.batch : f.date = d /\ f.off = i - 1
    BY <2>1, <2>3 DEF BatchInOrder
  <2> QED
    BY <2>2, <2>4
<1> QED
  BY <1>1

LEMMA PushServerOrder ==
    ASSUME SyncInv, OrderInv, SyncInv', NEW m \in Machines, NEW s \in Slots,
           PushServerStep(m, s), UNCHANGED laptopVars
    PROVE  OrderInv'
<1>1. MirrorsGrow /\ HandlersMove
  BY PushServerMoves DEF SyncInv
<1>2. UNCHANGED <<local, sync, today, host>>
  BY DEF laptopVars, hostVars, syncVars
<1>3. Today'
  BY <1>2 DEF OrderInv, Today
<1>4. DaysInOrder'
  <2>1. CASE UNCHANGED mirror
    BY <1>2, <2>1 DEF OrderInv, DaysInOrder
  <2>2. CASE AppendLogLines(m, s)
    <3>1. PICK k \in 1..(LastDate + 1) :
            /\ \A d \in 1..(k - 1) : ~Gap(mirror[m], handlers[m][s].batch, d)
            /\ mirror' = [mirror EXCEPT ![m] = AppendUpTo(@, handlers[m][s].batch, k)]
      BY <2>2 DEF AppendLogLines, FirstGap
    <3> QED
      BY <1>2, <2>2, <3>1, AppendOrder DEF AppendLogLines
  <2>3. ASSUME NEW k \in Dates, AppendFails(m, s, k) PROVE DaysInOrder'
    <3>1. k \in 1..(LastDate + 1)
      BY LastDateAssumption DEF Dates
    <3> QED
      BY <1>2, <2>3, <3>1, AppendOrder DEF AppendFails
  <2> QED
    BY <2>1, <2>2, <2>3 DEF PushServerStep, ReplayOne, ReplayFails, PushReturns
<1> QED
  BY <1>1, <1>2, <1>3, <1>4, MovesKeepOrder DEF OrderInv

LEMMA HostOrder ==
    ASSUME SyncInv, OrderInv, SyncInv', NEW m \in Machines, Host(m)
    PROVE  OrderInv'
<1>1. /\ UNCHANGED <<today, mirror, handlers, sync>>
      /\ UNCHANGED local \/ \E l \in Line : LogAppend(m, today, l)
      /\ TypeOK /\ TypeOK' /\ Today /\ today \in Dates
  BY HostLogs DEF SyncInv, OrderInv, rpcVars, storeVars, syncVars, TypeOK, LaptopTypeOK
<1>2. ASSUME NEW p \in Machines, NEW d \in Dates, d < today
      PROVE  local'[p][d] = local[p][d]
  BY <1>1, <1>2, AppendedLine DEF Dates
<1>3. ASSUME NEW p \in Machines, NEW d \in Dates, local'[p][d] # <<>> PROVE d <= today
  BY <1>1, <1>3, AppendedLine DEF Today, Dates
<1>4. Today'
  <2>1. PICK h \in Procs : HostBegins(m, h) \/ HostRuns(m, h)
    BY DEF Host, HostNext
  <2>2. host \in [Machines -> [Procs -> Invocation]]
    BY <1>1 DEF TypeOK, LaptopTypeOK
  <2>3. \A p \in Machines, x \in Procs : ~(p = m /\ x = h) => host'[p][x] = host[p][x]
    BY <2>1, <2>2 DEF HostBegins, HostRuns, AppendAction, HostStores, AppendResult
  <2>4. CASE HostBegins(m, h)
    <3>1. PICK msg \in Messages[today] : host' = [host EXCEPT ![m][h] =
               [pc |-> "pinned", date |-> today, msg |-> msg, res |-> "success"]]
      BY <2>4 DEF HostBegins
    <3>2. host'[m][h].date = today
      BY <2>2, <3>1
    <3> QED
      BY <1>1, <1>3, <2>3, <3>2 DEF Today
  <2>5. CASE AppendAction(m, h) \/ HostStores(m, h)
    <3> DEFINE v == host[m][h]
    <3>1. v \in Invocation /\ v.pc # "idle"
      BY <2>2, <2>5 DEF AppendAction, HostStores
    <3>2. host'[m][h].date = v.date
      <4>1. CASE AppendAction(m, h)
        <5>1. host'[m][h] = [v EXCEPT !.pc = "logged"]
          BY <2>2, <4>1 DEF AppendAction
        <5> HIDE DEF v
        <5> QED
          BY <3>1, <5>1 DEF Invocation, IdleHost
      <4>2. CASE HostStores(m, h)
        <5> DEFINE r == IF undo[m].open THEN "error" ELSE "success"
        <5>1. host'[m][h] = [v EXCEPT !.pc = "stored", !.res = r]
          BY <2>2, <4>2 DEF HostStores
        <5> HIDE DEF v, r
        <5> QED
          BY <3>1, <5>1 DEF Invocation, IdleHost
      <4> QED
        BY <2>5, <4>1, <4>2
    <3>3. v.date = today
      BY <1>1, <3>1 DEF Today
    <3> QED
      BY <1>1, <1>3, <2>3, <3>2, <3>3 DEF Today
  <2>6. CASE AppendResult(m, h)
    <3>1. host'[m][h].pc = "idle"
      BY <2>2, <2>6 DEF AppendResult, IdleHost
    <3> QED
      BY <1>1, <1>3, <2>3, <3>1 DEF Today
  <2> QED
    BY <2>1, <2>4, <2>5, <2>6 DEF HostRuns
<1>5. DaysInOrder'
  <2> SUFFICES ASSUME NEW p \in Machines, NEW d \in Dates, NEW e \in Dates, d < e,
                      mirror[p][e] # <<>>
               PROVE  mirror[p][d] = local'[p][d]
    BY <1>1 DEF DaysInOrder
  <2>1. mirror[p][d] = local[p][d]
    BY DEF OrderInv, DaysInOrder
  <2>2. local[p][e] # <<>>
    <3>1. /\ mirror[p][e] \in Seq(Line) /\ local[p][e] \in Seq(Line)
          /\ Len(mirror[p][e]) <= Len(local[p][e])
      BY MirrorInLocal, LogLengths DEF Longer
    <3>2. Len(mirror[p][e]) \in Nat /\ Len(mirror[p][e]) # 0 /\ Len(local[p][e]) \in Nat
      BY <3>1, EmptyIsZero, LenProperties
    <3> QED
      BY <3>1, <3>2, EmptyIsZero
  <2>3. d < today
    BY <1>1, <2>2 DEF Today, Dates
  <2> QED
    BY <1>2, <2>1, <2>3
<1>6. ASSUME NEW p \in Machines, NEW s \in Slots
      PROVE  BatchInOrder(local'[p], mirror[p], handlers[p][s])
  <2> DEFINE h == handlers[p][s]
  <2> SUFFICES ASSUME h.pc = "sent", NEW e \in h.batch, NEW d \in Dates, d < e.date,
                      NEW i \in 1..Len(local'[p][d])
               PROVE  \/ i <= Len(mirror[p][d])
                      \/ \E f \in h.batch : f.date = d /\ f.off = i - 1
    BY DEF BatchInOrder
  <2>1. e \in Entry
    BY <1>1, Types DEF Handler
  <2>2. e.date \in Dates /\ e.off \in Nat /\ e.off < Len(local[p][e.date])
    BY <2>1 DEF Entry, SyncInv, MirrorInv, BatchesAreLogged, IsLogged
  <2>3. local[p][e.date] # <<>>
    BY <1>1, <2>2, Types, LogLengths, EmptyIsZero
  <2>4. d < today
    BY <1>1, <2>2, <2>3 DEF Today, Dates
  <2> QED
    BY <1>2, <2>4 DEF OrderInv, BatchInOrder
<1>7. ASSUME NEW p \in Machines PROVE DatesInOrder(local'[p], sync[p])
  <2> SUFFICES ASSUME sync[p].pc \in {"push", "wait"}, NEW x \in sync[p].dates
               PROVE  /\ local'[p][x] # <<>>
                      /\ \A d \in Dates \ sync[p].dates :
                            d < x => local'[p][d] = <<>> \/ d < sync[p].pos.date
    BY DEF DatesInOrder
  <2>1. x \in Dates
    BY <1>1, Types DEF Process
  <2>2. local[p][x] # <<>> /\ x <= today
    BY <1>1, <2>1 DEF OrderInv, DatesInOrder, Today
  <2>3. local'[p][x] # <<>>
    <3>1. CASE local'[p][x] = local[p][x]
      BY <2>2, <3>1
    <3>2. CASE local'[p][x] # local[p][x]
      <4>1. PICK l \in Line : local'[p][x] = Append(local[p][x], l)
        BY <1>1, <2>1, <3>2, AppendedLine
      <4>2. local[p][x] \in Seq(Line)
        BY <1>1, <2>1, Types, LogLengths
      <4>3. local'[p][x] \in Seq(Line) /\ Len(local'[p][x]) # 0
        BY <4>1, <4>2, AppendEach
      <4> QED
        BY <4>3, EmptyIsZero
    <3> QED
      BY <3>1, <3>2
  <2>4. \A d \in Dates : d < x => local'[p][d] = local[p][d]
    BY <1>1, <1>2, <2>1, <2>2 DEF Dates
  <2> QED
    BY <2>3, <2>4 DEF OrderInv, DatesInOrder
<1> QED
  BY <1>1, <1>4, <1>5, <1>6, <1>7 DEF OrderInv

LEMMA NewCallOrder ==
    ASSUME SyncInv, OrderInv, NEW m \in Machines, NEW s \in Slots,
           NEW last \in Unread(m), NEW batch \in SUBSET Entry, NewCall(m, s, last, batch)
    PROVE  BatchInOrder(local[m], mirror[m], Call(batch))
<1> DEFINE c == sync[m].pos
<1>1. Call(batch).batch = batch
  BY DEF Call
<1>2. /\ TypeOK /\ LaptopWithin(m) /\ DaysInOrder /\ c \in Position /\ Within(mirror[m], c)
      /\ sync[m].pc = "push"
  BY Types DEF SyncInv, OrderInv, PositionsInv, LaptopWithin, CallWithin, NewCall, Process
<1> SUFFICES ASSUME NEW e \in batch, NEW d \in Dates, d < e.date,
                    NEW i \in 1..Len(local[m][d]), ~(i <= Len(mirror[m][d]))
             PROVE  \E f \in batch : f.date = d /\ f.off = i - 1
  BY <1>1 DEF BatchInOrder
<1>3. ~Passed(c, d, i - 1)
  BY <1>2, PassedStored
<1>4. e \in Unread(m) /\ ~Precedes(last, e) /\ e \in Entry /\ last \in Entry
  BY <1>2, UnreadIs DEF NewCall
<1>5. e.date \in sync[m].dates
  BY <1>2, <1>4, UnreadIs
<1>6. local[m][d] \in Seq(Line) /\ Len(local[m][d]) \in Nat
  BY <1>2, Types, LogLengths
<1>7. d \in sync[m].dates
  <2>1. local[m][d] # <<>>
    BY <1>6, EmptyIsZero
  <2>2. ~(d < c.date)
    BY <1>3 DEF Passed
  <2> QED
    BY <1>2, <1>5, <2>1, <2>2 DEF OrderInv, DatesInOrder
<1> DEFINE f == [date |-> d, off |-> i - 1, line |-> local[m][d][i]]
<1>8. f \in Entry /\ IsIn(local[m], f)
  BY <1>6 DEF Entry, IsIn
<1>9. f \in Unread(m)
  BY <1>2, <1>3, <1>7, <1>8, UnreadIs
<1>10. ~Precedes(last, f)
  BY <1>4 DEF Precedes, Entry, Dates
<1>11. f \in batch
  BY <1>9, <1>10 DEF NewCall
<1> QED
  BY <1>11

LEMMA ClientOrder ==
    ASSUME SyncInv, OrderInv, SyncInv', NEW m \in Machines, ClientStep(m), UNCHANGED storeVars
    PROVE  OrderInv'
<1>1. /\ UNCHANGED <<mirror, local, today, host>> /\ MirrorsGrow /\ TypeOK
      /\ OthersKeep(m)
  BY ClientOthers, SameMirrorsGrow DEF SyncInv, storeVars, hostVars
<1>2. Today' /\ DaysInOrder'
  BY <1>1 DEF OrderInv, Today, DaysInOrder
<1>3. DatesInOrder(local[m], sync'[m])
  <2>1. CASE sync'[m].pc \in {"idle", "pull", "chunk"}
    BY <2>1 DEF DatesInOrder
  <2>2. CASE Starts(m)
    <3> SUFFICES ASSUME NEW x \in sync'[m].dates
                 PROVE  /\ local[m][x] # <<>>
                        /\ \A d \in Dates \ sync'[m].dates :
                              d < x => local[m][d] = <<>> \/ d < sync'[m].pos.date
      BY DEF DatesInOrder
    <3>1. cursor[m][m].date \in Int
      BY <1>1, Types, PositionFields
    <3> QED
      BY <2>2, <3>1 DEF Starts, Dates
  <2>3. CASE Resumes(m)
    BY <2>3 DEF Resumes, OrderInv, DatesInOrder
  <2>4. CASE PushBatch(m)
    <3>1. PICK s \in Slots : \E last \in Unread(m), batch \in SUBSET Entry :
              NewCall(m, s, last, batch) /\ last \in batch
      BY <1>1, <2>4, PushBatchCalls
    <3>2. PICK last \in Unread(m), batch \in SUBSET Entry : NewCall(m, s, last, batch)
      BY <3>1
    <3>3. last \in Entry /\ ~Passed(sync[m].pos, last.date, last.off)
      BY <1>1, UnreadIs
    <3>4. sync[m].pos.date <= last.date /\ sync[m].pos.date \in Int /\ last.date \in Int
      BY <1>1, <3>3, Types, PositionFields DEF Process, Passed, Entry, Dates
    <3>5. sync'[m].pos.date = last.date
      BY <3>2 DEF NewCall, At
    <3>6. sync[m].pc = "push" /\ sync'[m].dates \in {sync[m].dates, {}}
      BY <3>2 DEF NewCall
    <3> SUFFICES ASSUME NEW x \in sync'[m].dates
                 PROVE  /\ local[m][x] # <<>>
                        /\ \A d \in Dates \ sync'[m].dates :
                              d < x => local[m][d] = <<>> \/ d < sync'[m].pos.date
      BY DEF DatesInOrder
    <3>7. sync'[m].dates = sync[m].dates
      BY <3>6
    <3>8. /\ local[m][x] # <<>>
          /\ \A d \in Dates \ sync[m].dates :
                d < x => local[m][d] = <<>> \/ d < sync[m].pos.date
      BY <3>6, <3>7 DEF OrderInv, DatesInOrder
    <3> QED
      BY <3>4, <3>5, <3>7, <3>8 DEF Dates
  <2> QED
    BY <1>1, <2>1, <2>2, <2>3, <2>4, ClientMoves DEF SyncMoves, EndsChunk
<1>4. ASSUME NEW p \in Machines PROVE DatesInOrder(local[p], sync'[p])
  BY <1>1, <1>3 DEF OthersKeep, OrderInv
<1>5. ASSUME NEW p \in Machines, NEW x \in Slots
      PROVE  BatchInOrder(local[p], mirror[p], handlers'[p][x])
  <2>1. CASE ~PushBatch(m)
    BY <1>1, <2>1, ClientHandlers, MovesKeepOrder
  <2>2. CASE PushBatch(m)
    <3>1. PICK s \in Slots : \E last \in Unread(m), batch \in SUBSET Entry :
              NewCall(m, s, last, batch) /\ last \in batch
      BY <1>1, <2>2, PushBatchCalls
    <3>2. PICK last \in Unread(m), batch \in SUBSET Entry : NewCall(m, s, last, batch)
      BY <3>1
    <3>3. /\ handlers'[m][s] = Call(batch)
          /\ \A y \in Slots \ {s} : handlers'[m][y] = handlers[m][y]
      BY <1>1, <3>2, Types DEF NewCall
    <3> QED
      BY <1>1, <3>2, <3>3, NewCallOrder DEF OthersKeep, OrderInv
  <2> QED
    BY <2>1, <2>2
<1> QED
  BY <1>1, <1>2, <1>4, <1>5 DEF OrderInv

LEMMA NextOrder ==
    ASSUME ~LateWrites
    PROVE  SyncInv /\ SyncInv' /\ OrderInv /\ [Next]_vars => OrderInv'
<1> SUFFICES ASSUME SyncInv, SyncInv', OrderInv, [Next]_vars PROVE OrderInv'
  OBVIOUS
<1>1. ASSUME MirrorsGrow, HandlersMove, UNCHANGED <<mirror, laptopVars>>
      PROVE  OrderInv'
  <2>1. UNCHANGED <<mirror, local, today, host, sync>>
    BY <1>1 DEF laptopVars, hostVars, syncVars
  <2>2. Today' /\ DaysInOrder'
    BY <2>1 DEF OrderInv, Today, DaysInOrder
  <2> QED
    BY <1>1, <2>1, <2>2, MovesKeepOrder DEF OrderInv
<1>2. ASSUME NEW m \in Machines, NEW s \in Slots, PushServerStep(m, s), UNCHANGED laptopVars
      PROVE  OrderInv'
  BY <1>2, PushServerOrder
<1>3. CASE Restart /\ UNCHANGED laptopVars
  BY <1>1, <1>3, RestartMoves DEF SyncInv, Restart
<1>4. ASSUME UNCHANGED <<storeVars, handlers, laptopVars>> PROVE OrderInv'
  BY <1>1, <1>4, SameMirrorsGrow, SameHandlersMove DEF SyncInv, storeVars
<1>5. ASSUME NEW m \in Machines, Host(m) PROVE OrderInv'
  BY <1>5, HostOrder
<1>6. CASE NewDay
  <2>1. /\ UNCHANGED <<mirror, local, handlers, sync, host>> /\ today' = today + 1
        /\ \A m \in Machines, h \in Procs : host[m][h].pc = "idle"
        /\ today \in Dates
    BY <1>6 DEF NewDay, Midnight, Quiet, rpcVars, storeVars, syncVars, SyncInv, TypeOK,
                LaptopTypeOK
  <2>2. Today'
    BY <2>1 DEF OrderInv, Today, Dates
  <2> QED
    BY <2>1, <2>2 DEF OrderInv, DaysInOrder
<1>7. ASSUME NEW m \in Machines, ClientStep(m), UNCHANGED storeVars PROVE OrderInv'
  BY <1>7, ClientOrder
<1> QED
  BY <1>2, <1>3, <1>4, <1>5, <1>6, <1>7, StepCases DEF rpcVars

LEMMA InitSync == Init => SyncInv
BY InitType, InitMirror, InitPositions, InitPeers DEF SyncInv

LEMMA NextSync == SyncInv /\ [Next]_vars => SyncInv'
BY NextType, NextMirror, NextPositions, NextPeers DEF SyncInv

(***************************************************************************)
(* As long as no invocation of the host runs past midnight, the server has *)
(* the whole of a day before the first line of a later one, whatever is    *)
(* pushed again, fails half way or is cut off by a restart.                *)
(***************************************************************************)
THEOREM DaysOrdered ==
    ASSUME ~LateWrites
    PROVE  Spec => []DaysInOrder
<1>1. SyncInv /\ SyncInv' /\ OrderInv /\ [Next]_vars => OrderInv'
  BY NextOrder
<1>2. OrderInv => DaysInOrder
  BY DEF OrderInv
<1> QED
  BY <1>1, <1>2, InitSync, NextSync, InitOrder, PTL DEF Spec

(***************************************************************************)
(* What is pushed is replayed.  A position of do_push has passed nothing   *)
(* that the canonical database does not hold, except for what the call it  *)
(* waits for has still to replay.                                          *)
(***************************************************************************)
Replayed(log, base, c, pending) ==
    \A d \in Dates : \A i \in 1..Len(log[d]) :
        Passed(c, d, i - 1) =>
            Holds(base, log[d][i]) \/ \E f \in pending : f.date = d /\ f.off = i - 1

Pending(h) == IF h.pc = "sent" THEN h.batch ELSE IF h.pc = "replay" THEN h.todo ELSE {}

CallReplayed(log, base, v, hs) ==
    /\ v.pc = "push" => Replayed(log, base, v.pos, {})
    /\ v.pc = "wait" /\ hs[v.slot].pc \in {"sent", "replay", "ok"} =>
          Replayed(log, base, v.pos, Pending(hs[v.slot]))

ReplayInv ==
    \A m \in Machines :
        /\ Replayed(local[m], canon, cursor[m][m], {})
        /\ Replayed(local[m], canon, undo[m].cursor[m], {})
        /\ CallReplayed(local[m], canon, sync[m], handlers[m])
        /\ \A s \in Slots : handlers[m][s].pc = "replay" =>
              \A e \in handlers[m][s].todo : IsIn(local[m], e)

LEMMA NothingReplayed == \A log, base, pending : Replayed(log, base, NoPosition, pending)
BY LastDateAssumption DEF Replayed, NoPosition, Passed, Dates

LEMMA InitReplay == Init => ReplayInv
<1> SUFFICES ASSUME Init, NEW m \in Machines
             PROVE  /\ cursor[m][m] = NoPosition /\ undo[m].cursor[m] = NoPosition
                    /\ sync[m].pc = "idle" /\ \A s \in Slots : handlers[m][s].pc = "free"
  BY NothingReplayed DEF ReplayInv, CallReplayed
<1> QED
  BY DEF Init, LaptopInit, RpcInit, IdleSync, FreeSlot, NoCursors, Closed

LEMMA ReplayedGrows ==
    ASSUME TypeOK, CanonGrows, NEW m \in Machines, NEW c, NEW pending,
           Replayed(local[m], canon, c, pending)
    PROVE  Replayed(local[m], canon', c, pending)
<1>1. ASSUME NEW d \in Dates, NEW i \in 1..Len(local[m][d]) PROVE local[m][d][i] \in Line
  BY Types, LogLengths
<1> QED
  BY <1>1 DEF Replayed, CanonGrows

LEMMA MovesKeepReplayed ==
    ASSUME TypeOK, CanonGrows, HandlersMove, SyncInv, ReplayInv,
           UNCHANGED <<local, cursor, undo, sync>>
    PROVE  ReplayInv'
<1> SUFFICES ASSUME NEW m \in Machines
             PROVE  /\ Replayed(local[m], canon', cursor[m][m], {})
                    /\ Replayed(local[m], canon', undo[m].cursor[m], {})
                    /\ CallReplayed(local[m], canon', sync[m], handlers'[m])
                    /\ \A s \in Slots : handlers'[m][s].pc = "replay" =>
                          \A e \in handlers'[m][s].todo : IsIn(local[m], e)
  BY DEF ReplayInv
<1>1. /\ Replayed(local[m], canon', cursor[m][m], {})
      /\ Replayed(local[m], canon', undo[m].cursor[m], {})
      /\ sync[m].pc = "push" => Replayed(local[m], canon', sync[m].pos, {})
  BY ReplayedGrows DEF ReplayInv, CallReplayed
<1>2. ASSUME NEW s \in Slots PROVE Moves(handlers[m][s], handlers'[m][s], mirror'[m], canon')
  BY DEF HandlersMove
<1>3. ASSUME NEW s \in Slots
      PROVE  \A e \in handlers[m][s].batch : IsIn(local[m], e)
  BY DEF SyncInv, MirrorInv, BatchesAreLogged, IsLogged, IsIn
<1>4. ASSUME NEW s \in Slots, handlers'[m][s].pc = "replay", NEW e \in handlers'[m][s].todo
      PROVE  IsIn(local[m], e)
  BY <1>2, <1>3, <1>4 DEF Moves, ReplayInv
<1>5. ASSUME sync[m].pc = "wait", handlers'[m][sync[m].slot].pc \in {"sent", "replay", "ok"}
      PROVE  Replayed(local[m], canon', sync[m].pos, Pending(handlers'[m][sync[m].slot]))
  <2> DEFINE s == sync[m].slot
             h == handlers[m][s]
             g == handlers'[m][s]
             c == sync[m].pos
  <2>1. s \in Slots
    BY <1>5 DEF SyncInv, PositionsInv, LaptopWithin, CallWithin
  <2>2. Moves(h, g, mirror'[m], canon')
    BY <1>2, <2>1
  <2>3. h.pc \in {"sent", "replay", "ok"} /\ h.todo \in SUBSET Entry
    BY <1>5, <2>1, <2>2, Types DEF Moves, Handler
  <2>4. Replayed(local[m], canon', c, Pending(h))
    BY <1>5, <2>3, ReplayedGrows DEF ReplayInv, CallReplayed
  <2>5. h.pc = "replay" => \A e \in h.todo : IsIn(local[m], e)
    BY <2>1 DEF ReplayInv
  <2> HIDE DEF h, g, c
  <2> SUFFICES ASSUME NEW d \in Dates, NEW i \in 1..Len(local[m][d]), Passed(c, d, i - 1),
                      ~Holds(canon', local[m][d][i])
               PROVE  \E f \in Pending(g) : f.date = d /\ f.off = i - 1
    BY DEF Replayed, c, g
  <2>6. PICK f \in Pending(h) : f.date = d /\ f.off = i - 1
    BY <2>4 DEF Replayed
  <2>7. CASE Pending(g) = Pending(h)
    BY <2>6, <2>7
  <2>8. CASE h.pc = "replay" /\ g.pc = "replay" /\ \A e \in h.todo : e \in g.todo \/ Holds(canon', e.line)
    <3>1. Pending(h) = h.todo /\ Pending(g) = g.todo
      BY <2>8 DEF Pending
    <3>2. f \in h.todo /\ IsIn(local[m], f) /\ f.off + 1 = i
      BY <2>3, <2>5, <2>6, <2>8, <3>1, Types, LogLengths DEF Entry
    <3>3. f.line = local[m][d][i]
      BY <2>6, <3>2 DEF IsIn
    <3> QED
      BY <2>6, <2>8, <3>1, <3>2, <3>3
  <2> QED
    BY <1>5, <2>2, <2>7, <2>8 DEF Moves, Pending, g
<1> QED
  BY <1>1, <1>4, <1>5 DEF CallReplayed

LEMMA HostReplay ==
    ASSUME SyncInv, SyncInv', OrderInv, ReplayInv, NEW m \in Machines, Host(m)
    PROVE  ReplayInv'
<1>1. /\ UNCHANGED <<today, mirror, canon, handlers, sync, cursor, undo>>
      /\ UNCHANGED local \/ \E l \in Line : LogAppend(m, today, l)
      /\ TypeOK /\ TypeOK' /\ Today
  BY HostLogs DEF SyncInv, OrderInv, rpcVars, storeVars, syncVars
<1>2. ASSUME NEW p \in Machines, NEW c \in Position, Within(local[p], c), NEW pending,
             Replayed(local[p], canon, c, pending)
      PROVE  Replayed(local'[p], canon, c, pending)
  <2> SUFFICES ASSUME NEW d \in Dates, NEW i \in 1..Len(local'[p][d]), Passed(c, d, i - 1)
               PROVE  \/ Holds(canon, local'[p][d][i])
                      \/ \E f \in pending : f.date = d /\ f.off = i - 1
    BY DEF Replayed
  <2>1. i \in 1..Len(local[p][d]) /\ local'[p][d][i] = local[p][d][i]
    BY <1>1, <1>2, NewLineNotPassed
  <2> QED
    BY <1>2, <2>1 DEF Replayed
<1> SUFFICES ASSUME NEW p \in Machines
             PROVE  /\ Replayed(local'[p], canon, cursor[p][p], {})
                    /\ Replayed(local'[p], canon, undo[p].cursor[p], {})
                    /\ CallReplayed(local'[p], canon, sync[p], handlers[p])
                    /\ \A s \in Slots : handlers[p][s].pc = "replay" =>
                          \A e \in handlers[p][s].todo : IsIn(local'[p], e)
  BY <1>1 DEF ReplayInv
<1>3. /\ LaptopWithin(p) /\ \A c : Within(mirror[p], c) => Within(local[p], c)
      /\ cursor[p][p] \in Position /\ undo[p].cursor[p] \in Position
      /\ sync[p].pos \in Position
  BY <1>1, Types, MirrorInLocal DEF SyncInv, PositionsInv, Process
<1>4. /\ Replayed(local'[p], canon, cursor[p][p], {})
      /\ Replayed(local'[p], canon, undo[p].cursor[p], {})
  BY <1>2, <1>3 DEF ReplayInv, LaptopWithin, AllWithin
<1>5. sync[p].pc = "push" => Replayed(local'[p], canon, sync[p].pos, {})
  BY <1>2, <1>3 DEF ReplayInv, CallReplayed, LaptopWithin, CallWithin
<1>6. ASSUME sync[p].pc = "wait", handlers[p][sync[p].slot].pc \in {"sent", "replay", "ok"}
      PROVE  Replayed(local'[p], canon, sync[p].pos, Pending(handlers[p][sync[p].slot]))
  <2> DEFINE s == sync[p].slot
             h == handlers[p][s]
  <2>1. s \in Slots
    BY <1>3, <1>6 DEF LaptopWithin, CallWithin
  <2>2. Within(local[p], sync[p].pos)
    <3>1. CASE h.pc = "sent"
      <4>1. PICK e \in h.batch : sync[p].pos = At(e)
        BY <1>3, <1>6, <3>1 DEF LaptopWithin, CallWithin
      <4>2. e \in Entry /\ IsIn(local[p], e)
        BY <1>1, <2>1, Types DEF Handler, SyncInv, MirrorInv, BatchesAreLogged, IsLogged, IsIn
      <4> QED
        BY <1>1, <4>1, <4>2, Types, IsInWithin
    <3>2. CASE h.pc \in {"replay", "ok"}
      BY <1>3, <1>6, <3>2 DEF LaptopWithin, CallWithin
    <3> QED
      BY <1>6, <3>1, <3>2
  <2>3. Replayed(local[p], canon, sync[p].pos, Pending(h))
    BY <1>6 DEF ReplayInv, CallReplayed
  <2> QED
    BY <1>2, <1>3, <2>2, <2>3
<1>7. ASSUME NEW s \in Slots, handlers[p][s].pc = "replay", NEW e \in handlers[p][s].todo
      PROVE  IsIn(local'[p], e)
  <2>1. local[p] \in Logs /\ local'[p] \in Logs /\ Longer(local[p], local'[p])
    BY <1>1, Types, HostGrowsLogs DEF LogsGrow, Longer, TypeOK, LaptopTypeOK
  <2>2. e \in Entry /\ IsIn(local[p], e)
    BY <1>1, <1>7, Types DEF Handler, ReplayInv
  <2> QED
    BY <2>1, <2>2, IsInLonger
<1> QED
  BY <1>4, <1>5, <1>6, <1>7 DEF CallReplayed

(* What At(last) has passed was passed before, or is in the call.          *)
LEMMA NewCallReplayed ==
    ASSUME SyncInv, OrderInv, ReplayInv, NEW m \in Machines, NEW s \in Slots,
           NEW last \in Unread(m), NEW batch \in SUBSET Entry, NewCall(m, s, last, batch)
    PROVE  Replayed(local[m], canon, At(last), batch)
<1> DEFINE c == sync[m].pos
<1>1. /\ TypeOK /\ c \in Position /\ Replayed(local[m], canon, c, {})
      /\ sync[m].pc = "push" /\ last \in Entry /\ last.date \in sync[m].dates
  BY Types, UnreadIs DEF SyncInv, ReplayInv, CallReplayed, NewCall, Process
<1> SUFFICES ASSUME NEW d \in Dates, NEW i \in 1..Len(local[m][d]), Passed(At(last), d, i - 1),
                    ~Passed(c, d, i - 1)
             PROVE  \E f \in batch : f.date = d /\ f.off = i - 1
  BY <1>1 DEF Replayed
<1>2. local[m][d] \in Seq(Line) /\ Len(local[m][d]) \in Nat
  BY <1>1, Types, LogLengths
<1>3. d < last.date \/ (d = last.date /\ i - 1 <= last.off)
  BY DEF Passed, At
<1>4. d \in sync[m].dates
  <2>1. local[m][d] # <<>>
    BY <1>2, EmptyIsZero
  <2>2. ~(d < c.date)
    BY DEF Passed
  <2> QED
    BY <1>1, <1>3, <2>1, <2>2 DEF OrderInv, DatesInOrder
<1> DEFINE f == [date |-> d, off |-> i - 1, line |-> local[m][d][i]]
<1>5. f \in Entry /\ IsIn(local[m], f)
  BY <1>2 DEF Entry, IsIn
<1>6. f \in Unread(m)
  BY <1>1, <1>4, <1>5, UnreadIs
<1>7. ~Precedes(last, f)
  BY <1>1, <1>2, <1>3 DEF Precedes, Entry, Dates
<1>8. f \in batch
  BY <1>6, <1>7 DEF NewCall
<1> QED
  BY <1>8

LEMMA ClientReplay ==
    ASSUME SyncInv, OrderInv, ReplayInv, NEW m \in Machines, ClientStep(m),
           UNCHANGED storeVars
    PROVE  ReplayInv'
<1>1. UNCHANGED <<canon, local>> /\ TypeOK /\ OthersKeep(m) /\ CanonGrows
  BY ClientOthers DEF SyncInv, storeVars, hostVars, CanonGrows
<1>2. ASSUME NEW p \in Machines \ {m}
      PROVE  /\ Replayed(local[p], canon, cursor'[p][p], {})
             /\ Replayed(local[p], canon, undo'[p].cursor[p], {})
             /\ CallReplayed(local[p], canon, sync'[p], handlers'[p])
             /\ \A s \in Slots : handlers'[p][s].pc = "replay" =>
                   \A e \in handlers'[p][s].todo : IsIn(local[p], e)
  BY <1>1 DEF OthersKeep, ReplayInv
<1>3. Replayed(local[m], canon, cursor'[m][m], {})
  <2>1. CASE PushDone(m) /\ cursor'[m][m] = sync[m].pos
    BY <2>1 DEF PushDone, ReplayInv, CallReplayed
  <2>2. ~(SetPeerCursor(m) /\ m = sync[m].peer)
    BY DEF SyncInv, PeersInv, FromOthers, SetPeerCursor
  <2> QED
    BY <1>1, <2>1, <2>2, ClientCursors DEF CursorSteps, ReplayInv
<1>4. Replayed(local[m], canon, undo'[m].cursor[m], {})
  <2>1. undo'[m].cursor \in {undo[m].cursor, cursor[m], NoCursors} /\ NoCursors[m] = NoPosition
    BY <1>1, ClientCursors DEF NoCursors
  <2> QED
    BY <2>1, NothingReplayed DEF ReplayInv
<1>5. /\ CallReplayed(local[m], canon, sync'[m], handlers'[m])
      /\ \A s \in Slots : handlers'[m][s].pc = "replay" =>
            \A e \in handlers'[m][s].todo : IsIn(local[m], e)
  <2>1. CASE PushBatch(m)
    <3>1. PICK s \in Slots : \E last \in Unread(m), batch \in SUBSET Entry :
              NewCall(m, s, last, batch) /\ last \in batch
      BY <1>1, <2>1, PushBatchCalls
    <3>2. PICK last \in Unread(m), batch \in SUBSET Entry : NewCall(m, s, last, batch)
      BY <3>1
    <3>3. /\ handlers'[m][s] = Call(batch)
          /\ \A y \in Slots \ {s} : handlers'[m][y] = handlers[m][y]
      BY <1>1, <3>2, Types DEF NewCall
    <3>4. Call(batch).pc = "sent" /\ Pending(Call(batch)) = batch
      BY DEF Call, Pending
    <3>5. CallReplayed(local[m], canon, sync'[m], handlers'[m])
      <4>1. sync'[m].pc = "wait" /\ sync'[m].slot = s /\ sync'[m].pos = At(last)
        BY <3>2 DEF NewCall
      <4>2. Replayed(local[m], canon, At(last), batch)
        BY <3>2, NewCallReplayed
      <4> QED
        BY <3>3, <3>4, <4>1, <4>2 DEF CallReplayed
    <3> QED
      BY <3>3, <3>4, <3>5 DEF ReplayInv
  <2>2. CASE ~PushBatch(m)
    <3>1. ASSUME NEW s \in Slots, handlers'[m][s].pc = "replay",
                 NEW e \in handlers'[m][s].todo
          PROVE  IsIn(local[m], e)
      <4>1. Moves(handlers[m][s], handlers'[m][s], mirror'[m], canon')
        BY <1>1, <2>2, ClientHandlers DEF HandlersMove
      <4> QED
        BY <3>1, <4>1 DEF Moves, ReplayInv, SyncInv, MirrorInv, BatchesAreLogged, IsLogged, IsIn
    <3>2. CASE sync'[m].pc \in {"idle", "pull", "chunk"}
      BY <3>1, <3>2 DEF CallReplayed
    <3>3. CASE Starts(m)
      BY <3>1, <3>3 DEF CallReplayed, Starts, ReplayInv
    <3>4. CASE Resumes(m)
      BY <3>1, <3>4 DEF CallReplayed, Resumes, ReplayInv, Pending
    <3> QED
      BY <1>1, <2>2, <3>2, <3>3, <3>4, ClientMoves DEF SyncMoves, EndsChunk
  <2> QED
    BY <2>1, <2>2
<1>6. ASSUME NEW p \in Machines
      PROVE  /\ Replayed(local[p], canon, cursor'[p][p], {})
             /\ Replayed(local[p], canon, undo'[p].cursor[p], {})
             /\ CallReplayed(local[p], canon, sync'[p], handlers'[p])
             /\ \A s \in Slots : handlers'[p][s].pc = "replay" =>
                   \A e \in handlers'[p][s].todo : IsIn(local[p], e)
  BY <1>2, <1>3, <1>4, <1>5
<1> QED
  BY <1>1, <1>6 DEF ReplayInv

LEMMA NextReplay ==
    SyncInv /\ SyncInv' /\ OrderInv /\ ReplayInv /\ [Next]_vars => ReplayInv'
<1> SUFFICES ASSUME SyncInv, SyncInv', OrderInv, ReplayInv, [Next]_vars PROVE ReplayInv'
  OBVIOUS
<1>1. ASSUME CanonGrows, HandlersMove, UNCHANGED <<local, cursor, undo, sync>>
      PROVE  ReplayInv'
  BY <1>1, MovesKeepReplayed DEF SyncInv
<1>2. UNCHANGED laptopVars => UNCHANGED <<local, cursor, undo, sync>>
  BY DEF laptopVars, hostVars, syncVars
<1>3. ASSUME NEW m \in Machines, NEW s \in Slots, PushServerStep(m, s), UNCHANGED laptopVars
      PROVE  ReplayInv'
  BY <1>1, <1>2, <1>3, PushServerMoves DEF SyncInv
<1>4. CASE Restart /\ UNCHANGED laptopVars
  BY <1>1, <1>2, <1>4, RestartMoves DEF SyncInv
<1>5. ASSUME UNCHANGED <<canon, handlers, local, cursor, undo, sync>> PROVE ReplayInv'
  BY <1>1, <1>5, SameHandlersMove DEF CanonGrows
<1>6. ASSUME NEW m \in Machines, Host(m) PROVE ReplayInv'
  BY <1>6, HostReplay
<1>7. CASE NewDay
  BY <1>5, <1>7 DEF NewDay, Midnight, storeVars, rpcVars, syncVars
<1>8. ASSUME NEW m \in Machines, ClientStep(m), UNCHANGED storeVars PROVE ReplayInv'
  BY <1>8, ClientReplay
<1> QED
  BY <1>2, <1>3, <1>4, <1>5, <1>6, <1>7, <1>8, StepCases DEF rpcVars, storeVars

(***************************************************************************)
(* A laptop's own cursor never passes a line that the server has not both  *)
(* stored and replayed into the canonical database, whichever PushLogs     *)
(* calls failed, timed out or were cut off, as long as no invocation of    *)
(* the host runs past midnight.                                            *)
(***************************************************************************)
THEOREM PushedStored ==
    ASSUME ~LateWrites
    PROVE  Spec => []PushedIsStored
<1>1. SyncInv /\ SyncInv' /\ OrderInv /\ [Next]_vars => OrderInv'
  BY NextOrder
<1>2. SyncInv /\ OrderInv /\ ReplayInv => PushedIsStored
  <2> SUFFICES ASSUME SyncInv, OrderInv, ReplayInv, NEW m \in Machines, NEW d \in Dates,
                      NEW i \in 1..Len(local[m][d]), Passed(cursor[m][m], d, i - 1)
               PROVE  i <= Len(mirror[m][d]) /\ Holds(canon, local[m][d][i])
    BY DEF PushedIsStored, Synced
  <2>1. Within(mirror[m], cursor[m][m]) /\ cursor[m][m] \in Position
    BY Types DEF SyncInv, PositionsInv, LaptopWithin, AllWithin
  <2>2. i <= Len(mirror[m][d])
    BY <2>1, PassedStored DEF OrderInv
  <2>3. Replayed(local[m], canon, cursor[m][m], {})
    BY DEF ReplayInv
  <2> QED
    BY <2>2, <2>3 DEF Replayed
<1> QED
  BY <1>1, <1>2, InitSync, NextSync, InitOrder, InitReplay, NextReplay, PTL DEF Spec
=============================================================================
