------------------------------ MODULE SyncStore ------------------------------
(***************************************************************************)
(* The sync server: the per-machine, per-day mirror of the laptops' logs,  *)
(* the canonical database, the PushLogs handlers and the PullLogs streams. *)
(*                                                                         *)
(* AppendLogLines runs under the store's mutex and is one step.  The       *)
(* replay that follows does not: handlers interleave line by line, with    *)
(* one another and with the streams, which read the files without a lock.  *)
(* A restart loses the handlers and the streams and keeps the files and    *)
(* the database.  Not modelled: a write torn inside a line and a machine   *)
(* crash that loses data the file system had not yet made durable.         *)
(***************************************************************************)
EXTENDS SyncRpc

CONSTANT ChunkSize      \* lines in a LogChunk (128 in the code)

ASSUME ChunkSizeAssumption == ChunkSize \in Nat \ {0}

VARIABLES
    mirror,     \* mirror[m][d]: <log-root>/<m>/browser-visits-<d>.log
    canon       \* the canonical database

storeVars == <<mirror, canon>>

StoreTypeOK ==
    /\ mirror \in [Machines -> Logs]
    /\ canon \in Db

StoreInit ==
    /\ mirror = [m \in Machines |-> [d \in Dates |-> <<>>]]
    /\ canon = EmptyDb

(***************************************************************************)
(* AppendLogLines.                                                         *)
(***************************************************************************)
(* Mutant of Fresh: a group is appended without a look at its offsets.     *)
AllRenumbered(log, batch, d) ==
    LET group == {e \in batch : e.date = d}
    IN  {[e EXCEPT !.off = Len(log) + Cardinality({f \in group : f.off < e.off})] :
            e \in group}

(* The lines of a date group that are not on disk yet.                     *)
Fresh(log, batch, d) == {e \in batch : e.date = d /\ e.off >= Len(log)}

(* The fresh lines bring the file to n lines: no offset is missing.        *)
Fills(log, fresh, n) == {e.off : e \in fresh} = Len(log)..(n - 1)
Counts(log, fresh)   == {Len(log)} \cup {e.off + 1 : e \in fresh}
Fits(log, fresh)     == \E n \in Counts(log, fresh) : Fills(log, fresh, n)

Extend(log, fresh) ==
    LET n == CHOOSE k \in Counts(log, fresh) : Fills(log, fresh, k)
    IN  [i \in 1..n |->
            IF i <= Len(log) THEN log[i]
            ELSE (CHOOSE e \in fresh : e.off = i - 1).line]

Gap(logs, batch, d) == ~Fits(logs[d], Fresh(logs[d], batch, d))

(* Mutant of AppendUpTo: the groups after the failed one are written too.  *)
AppendAllBut(logs, batch, k) ==
    [d \in Dates |-> IF d # k THEN Extend(logs[d], Fresh(logs[d], batch, d))
                     ELSE logs[d]]

(* The groups before date k are written, in date order; the rest are not.  *)
AppendUpTo(logs, batch, k) ==
    [d \in Dates |-> IF d < k THEN Extend(logs[d], Fresh(logs[d], batch, d))
                     ELSE logs[d]]

(***************************************************************************)
(* PushLogs.                                                               *)
(***************************************************************************)
Answer(m, s, res) ==
    handlers' = [handlers EXCEPT ![m][s] =
                    IF @.live THEN [@ EXCEPT !.pc = res, !.todo = {}] ELSE FreeSlot]

(* The groups up to the first one with a gap are appended; with no gap at  *)
(* all the handler goes on to the replay, else it answers Internal.        *)
FirstGap(m, s, k) ==
    LET gaps(d) == Gap(mirror[m], handlers[m][s].batch, d)
    IN  /\ \A d \in 1..(k - 1) : ~gaps(d)
        /\ k \in Dates => gaps(k)

(* Mutant of AppendLogLines: only the lines that were not on disk yet are  *)
(* replayed.                                                               *)
AppendReplayingFresh(m, s) ==
    LET h == handlers[m][s]
    IN  /\ h.pc = "sent"
        /\ \E k \in 1..(LastDate + 1) :
              /\ FirstGap(m, s, k)
              /\ mirror' = [mirror EXCEPT ![m] = AppendUpTo(@, h.batch, k)]
              /\ IF k \in Dates
                 THEN Answer(m, s, "error")
                 ELSE handlers' = [handlers EXCEPT
                        ![m][s].pc = "replay",
                        ![m][s].todo = UNION {Fresh(mirror[m][d], h.batch, d) :
                                                d \in Dates}]
        /\ UNCHANGED <<canon, pull>>

AppendLogLines(m, s) ==
    LET h == handlers[m][s]
    IN  /\ h.pc = "sent"
        /\ \E k \in 1..(LastDate + 1) :
              /\ FirstGap(m, s, k)
              /\ mirror' = [mirror EXCEPT ![m] = AppendUpTo(@, h.batch, k)]
              /\ IF k \in Dates
                 THEN Answer(m, s, "error")
                 ELSE handlers' = [handlers EXCEPT ![m][s].pc = "replay",
                                                   ![m][s].todo = h.batch]
        /\ UNCHANGED <<canon, pull>>

(* The file of date k cannot be written.  The earlier groups stay.         *)
AppendFails(m, s, k) ==
    LET h == handlers[m][s]
    IN  /\ h.pc = "sent"
        /\ \E e \in h.batch : e.date = k
        /\ \A d \in 1..(k - 1) : ~Gap(mirror[m], h.batch, d)
        /\ mirror' = [mirror EXCEPT ![m] = AppendUpTo(@, h.batch, k)]
        /\ Answer(m, s, "error")
        /\ UNCHANGED <<canon, pull>>

(* sort.Slice has ordered the request's lines in place: the replay runs    *)
(* over them by date and offset.  Lines already on disk are replayed too.  *)
NextToReplay(h, e) == e \in h.todo /\ \A f \in h.todo : f = e \/ Precedes(e, f)

ReplayOne(m, s) ==
    LET h == handlers[m][s]
    IN  /\ h.pc = "replay"
        /\ \E e \in h.todo :
              /\ NextToReplay(h, e)
              /\ canon' = ReplayLine(canon, e.line)
              /\ handlers' = [handlers EXCEPT ![m][s].todo = @ \ {e}]
        /\ UNCHANGED <<mirror, pull>>

(* A statement fails (SQLITE_BUSY, disk full): the line has no effect, or  *)
(* only that of its first statement, and the call answers Internal.        *)
ReplayFails(m, s) ==
    LET h == handlers[m][s]
    IN  /\ h.pc = "replay"
        /\ \E e \in h.todo :
              /\ NextToReplay(h, e)
              /\ canon' \in {canon, ReplayBasic(canon, e.line)}
        /\ Answer(m, s, "error")
        /\ UNCHANGED <<mirror, pull>>

PushReturns(m, s) ==
    /\ handlers[m][s].pc = "replay"
    /\ handlers[m][s].todo = {}
    /\ Answer(m, s, "ok")
    /\ UNCHANGED <<mirror, canon, pull>>

(***************************************************************************)
(* PullLogs and LinesAfter.  The scan of a machine lists its directory     *)
(* once and then opens one file after another.                             *)
(***************************************************************************)
HasDirectory(p) == \E d \in Dates : mirror[p][d] # <<>>

PullBegins(m) ==
    /\ pull[m].pc = "sent"
    /\ pull' = [pull EXCEPT ![m].pc = "open",
                            ![m].peers = {p \in Machines \ {m} : HasDirectory(p)}]
    /\ UNCHANGED <<mirror, canon, handlers>>

(* Mutant of ScanPeer: the cursors of the request are ignored.             *)
ScanPeerFromStart(m) ==
    /\ pull[m].pc = "open"
    /\ pull[m].dates = {}
    /\ pull[m].batch = <<>>
    /\ IF pull[m].peers = {}
       THEN pull' = [pull EXCEPT ![m].pc = "done"]
       ELSE \E p \in pull[m].peers :
              pull' = [pull EXCEPT
                        ![m].peers = @ \ {p},
                        ![m].peer = p,
                        ![m].dates = {d \in Dates : mirror[p][d] # <<>>},
                        ![m].pos = NoPosition]
    /\ UNCHANGED <<mirror, canon, handlers>>

(* The next machine, when one is done; after the last the stream ends.     *)
ScanPeer(m) ==
    /\ pull[m].pc = "open"
    /\ pull[m].dates = {}
    /\ pull[m].batch = <<>>
    /\ IF pull[m].peers = {}
       THEN pull' = [pull EXCEPT ![m].pc = "done"]
       ELSE \E p \in pull[m].peers :
              LET c == pull[m].since[p]
              IN  pull' = [pull EXCEPT
                            ![m].peers = @ \ {p},
                            ![m].peer = p,
                            ![m].dates = {d \in Dates : /\ mirror[p][d] # <<>>
                                                        /\ d >= c.date},
                            ![m].pos = c]
    /\ UNCHANGED <<mirror, canon, handlers>>

FirstDate(m, d) == d \in pull[m].dates /\ \A x \in pull[m].dates : d <= x

(* The next line of the file being read, or its end.  Lines are appended   *)
(* whole (AppendLogLines), so there is no half of one to read.             *)
ReadLine(m) ==
    LET q == pull[m]
    IN  /\ q.pc = "open"
        /\ Len(q.batch) < ChunkSize
        /\ \E d \in q.dates :
              /\ FirstDate(m, d)
              /\ LET log == mirror[q.peer][d]
                     o   == IF q.pos.date = d THEN q.pos.off + 1 ELSE 0
                     e   == [date |-> d, off |-> o, line |-> log[o + 1]]
                 IN  pull' = IF o < Len(log)
                             THEN [pull EXCEPT ![m].batch = Append(@, e),
                                               ![m].pos = At(e)]
                             ELSE [pull EXCEPT ![m].dates = @ \ {d}]
        /\ UNCHANGED <<mirror, canon, handlers>>

(* stream.Send of a full batch, or of the rest of a machine.  One chunk is *)
(* in flight at a time: more of them would only be read earlier.           *)
SendChunk(m) ==
    LET q == pull[m]
    IN  /\ q.pc = "open"
        /\ q.batch # <<>>
        /\ Len(q.batch) = ChunkSize \/ q.dates = {}
        /\ q.chunk = <<>>
        /\ pull' = [pull EXCEPT ![m].chunk = q.batch, ![m].from = q.peer,
                                ![m].batch = <<>>]
        /\ UNCHANGED <<mirror, canon, handlers>>

(***************************************************************************)
(* The server process dies and is restarted by systemd.                    *)
(***************************************************************************)
Restart ==
    /\ handlers' = [m \in Machines |-> [s \in Slots |->
                      LET h == handlers[m][s]
                      IN  IF h.pc \notin {"sent", "replay"} THEN h
                          ELSE IF h.live THEN [h EXCEPT !.pc = "error", !.todo = {}]
                          ELSE FreeSlot]]
    /\ pull' = [m \in Machines |->
                  IF pull[m].pc \in {"sent", "open"}
                  THEN [pull[m] EXCEPT !.pc = "broken"] ELSE pull[m]]
    /\ UNCHANGED <<mirror, canon>>

ServeNext(m) ==
    \/ \E s \in Slots : \/ AppendLogLines(m, s)
                        \/ ReplayOne(m, s)
                        \/ PushReturns(m, s)
    \/ PullBegins(m)
    \/ ScanPeer(m)
    \/ ReadLine(m)
    \/ SendChunk(m)
=============================================================================
