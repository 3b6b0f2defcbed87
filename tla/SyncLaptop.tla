----------------------------- MODULE SyncLaptop -----------------------------
(***************************************************************************)
(* A laptop: the native host (BVLHost), one process per message of the     *)
(* extension, and the sync process (sync_client.py), one at a time under   *)
(* a file lock.  They share the per-day log files, which the host appends  *)
(* to and the sync process reads, and the SQLite database, which both      *)
(* write.                                                                  *)
(*                                                                         *)
(* The database is in rollback-journal mode.  db[m] and cursor[m] are what *)
(* the sync process's connection sees; while it has a transaction open,    *)
(* undo[m] holds the state everybody else sees and a crash returns to.     *)
(* The transaction opens at the first INSERT, UPDATE or DELETE and stays   *)
(* open across the calls that follow.  The host has no busy timeout: its   *)
(* write fails while that transaction is open.                             *)
(*                                                                         *)
(* The sync process may start whenever none is running: when BVLHost       *)
(* spawns it, the debounce of 60 seconds and runs by hand are abstracted.  *)
(* Also abstracted: mark_attempt, record_error and clear_error, which      *)
(* write bookkeeping rows nothing here reads; clear_error only as the      *)
(* statement that opens the transaction.  Each append of the host is       *)
(* atomic, and two invocations do not collide in the database.             *)
(***************************************************************************)
EXTENDS SyncRpc

CONSTANTS
    Procs,      \* invocations of BVLHost alive at once on a laptop (bound)
    BatchSize,  \* lines in a PushLogsRequest (500 in the code)
    Messages,   \* Messages[d]: what the extension may send on day d
    NoMessage,  \* no invocation in progress
    NoSlot,     \* no PushLogs call awaited
    Quota,      \* Quota[m]: lines a laptop may log per day (bound)
    LateWrites  \* TRUE: an invocation may still be running after midnight UTC

ASSUME BatchSizeAssumption == BatchSize \in Nat \ {0}
ASSUME MessagesAssumption == Messages \in [Dates -> SUBSET Message]
ASSUME NoneAssumption == NoMessage \notin Message /\ NoSlot \notin Slots
ASSUME QuotaAssumption == Quota \in [Machines -> Nat]
ASSUME LateWritesAssumption == LateWrites \in BOOLEAN

VARIABLES
    today,      \* the current UTC day
    local,      \* local[m][d]: ~/browser-visits-<d>.log
    host,       \* host[m][h]: an invocation of BVLHost in progress
    db,         \* db[m]: ~/browser-visits.db, as the sync process sees it
    cursor,     \* cursor[m]: the sync_state table, likewise
    undo,       \* undo[m]: the state to roll back to
    sync,       \* sync[m]: the sync process
    peerLog     \* peerLog[m][p][d]: ~/browser-visits-peers/<p>/...<d>.log

hostVars == <<today, local, host>>
syncVars == <<cursor, undo, sync, peerLog>>
laptopVars == <<hostVars, db, syncVars>>

Cursors == [Machines -> Position]
NoCursors == [p \in Machines |-> NoPosition]

IdleHost == [pc |-> "idle", date |-> 0, msg |-> NoMessage, res |-> "success"]

Invocation == {IdleHost} \cup
    [pc   : {"pinned", "logged", "stored"},
     date : Dates,
     msg  : Message,
     res  : ResultKinds]

(* dates and pos are do_push's and do_pull's local variables; slot is the  *)
(* PushLogs call it waits for; peer is the sender of the chunk in hand.    *)
Process == [pc    : {"idle", "push", "wait", "pull", "chunk"},
            dates : SUBSET Dates,
            pos   : Position,
            slot  : Slots \cup {NoSlot},
            peer  : Machines]

IdleSync(m) == [pc |-> "idle", dates |-> {}, pos |-> NoPosition,
                slot |-> NoSlot, peer |-> m]

Image  == [open : BOOLEAN, db : Db, cursor : Cursors]
Closed == [open |-> FALSE, db |-> EmptyDb, cursor |-> NoCursors]

LaptopTypeOK ==
    /\ today \in Dates
    /\ local \in [Machines -> Logs]
    /\ host \in [Machines -> [Procs -> Invocation]]
    /\ db \in [Machines -> Db]
    /\ cursor \in [Machines -> Cursors]
    /\ undo \in [Machines -> Image]
    /\ sync \in [Machines -> Process]
    /\ peerLog \in [Machines -> [Machines -> Logs]]

LaptopInit ==
    /\ today = 1
    /\ local = [m \in Machines |-> [d \in Dates |-> <<>>]]
    /\ host = [m \in Machines |-> [h \in Procs |-> IdleHost]]
    /\ db = [m \in Machines |-> EmptyDb]
    /\ cursor = [m \in Machines |-> NoCursors]
    /\ undo = [m \in Machines |-> Closed]
    /\ sync = [m \in Machines |-> IdleSync(m)]
    /\ peerLog = [m \in Machines |-> [p \in Machines |-> [d \in Dates |-> <<>>]]]

(***************************************************************************)
(* The native host.                                                        *)
(***************************************************************************)
(* Lines of day d that invocations in progress have still to write.        *)
Owed(m, d) ==
    2 * Cardinality({h \in Procs : host[m][h].pc = "pinned" /\ host[m][h].date = d})
    + Cardinality({h \in Procs : host[m][h].pc \in {"logged", "stored"}
                                   /\ host[m][h].date = d})

(* todayISO is taken once; both lines of the invocation go to that day.    *)
HostBegins(m, h) ==
    /\ host[m][h].pc = "idle"
    /\ Len(local[m][today]) + Owed(m, today) + 2 <= Quota[m]
    /\ \E msg \in Messages[today] :
          host' = [host EXCEPT ![m][h] = [pc |-> "pinned", date |-> today,
                                          msg |-> msg, res |-> "success"]]
    /\ UNCHANGED <<today, local, db, syncVars>>

LogAppend(m, d, l) == local' = [local EXCEPT ![m][d] = Append(@, l)]

AppendAction(m, h) ==
    /\ host[m][h].pc = "pinned"
    /\ LogAppend(m, host[m][h].date, ActionLine(host[m][h].msg))
    /\ host' = [host EXCEPT ![m][h].pc = "logged"]
    /\ UNCHANGED <<today, db, syncVars>>

(* The transaction of the invocation: SQLITE_BUSY at once if the sync      *)
(* process has written and not committed.                                  *)
HostStores(m, h) ==
    /\ host[m][h].pc = "logged"
    /\ db' = [db EXCEPT ![m] = IF undo[m].open THEN @
                               ELSE HostWrite(@, host[m][h].msg)]
    /\ host' = [host EXCEPT ![m][h].pc = "stored",
                             ![m][h].res = IF undo[m].open THEN "error"
                                           ELSE "success"]
    /\ UNCHANGED <<today, local, syncVars>>

AppendResult(m, h) ==
    /\ host[m][h].pc = "stored"
    /\ LogAppend(m, host[m][h].date, ResultLine(host[m][h].msg, host[m][h].res))
    /\ host' = [host EXCEPT ![m][h] = IdleHost]
    /\ UNCHANGED <<today, db, syncVars>>

Quiet(m) == \A h \in Procs : host[m][h].pc = "idle"

Midnight ==
    /\ today < LastDate
    /\ LateWrites \/ \A m \in Machines : Quiet(m)
    /\ today' = today + 1
    /\ UNCHANGED <<local, host, db, syncVars>>

(***************************************************************************)
(* Transactions of the sync process's connection.                          *)
(***************************************************************************)
OpenTransaction(m) ==
    undo' = IF undo[m].open THEN undo
            ELSE [undo EXCEPT ![m] = [open |-> TRUE, db |-> db[m],
                                      cursor |-> cursor[m]]]

Commit(m) == undo' = [undo EXCEPT ![m] = Closed]

(* Mutant of Rollback: the cursors are not part of the transaction.        *)
RollbackDbOnly(m) ==
    /\ undo' = [undo EXCEPT ![m] = Closed]
    /\ db' = IF undo[m].open THEN [db EXCEPT ![m] = undo[m].db] ELSE db
    /\ cursor' = cursor

Rollback(m) ==
    /\ undo' = [undo EXCEPT ![m] = Closed]
    /\ db' = IF undo[m].open THEN [db EXCEPT ![m] = undo[m].db] ELSE db
    /\ cursor' = IF undo[m].open THEN [cursor EXCEPT ![m] = undo[m].cursor]
                 ELSE cursor

(***************************************************************************)
(* do_push.                                                                *)
(***************************************************************************)
(* Mutant of SyncStarts: the day of the cursor is taken to be complete.    *)
SyncStartsNextDay(m) ==
    /\ sync[m].pc = "idle"
    /\ sync' = [sync EXCEPT
                  ![m].pc = "push",
                  ![m].dates = {d \in Dates : /\ local[m][d] # <<>>
                                              /\ d > cursor[m][m].date},
                  ![m].pos = cursor[m][m]]
    /\ UNCHANGED <<hostVars, db, cursor, undo, peerLog, rpcVars>>

SyncStarts(m) ==
    /\ sync[m].pc = "idle"
    /\ sync' = [sync EXCEPT
                  ![m].pc = "push",
                  ![m].dates = {d \in Dates : /\ local[m][d] # <<>>
                                              /\ d >= cursor[m][m].date},
                  ![m].pos = cursor[m][m]]
    /\ UNCHANGED <<hostVars, db, cursor, undo, peerLog, rpcVars>>

Unread(m) == EntriesAfter(local[m], sync[m].dates, sync[m].pos)

(* A full batch, or all that is left: the entries up to `last'.  After a   *)
(* batch that is not full the files have been read to their ends.  The     *)
(* code reads file after file; one step stands for that, because a file is *)
(* final once a later day's is there, unless LateWrites: then what is read *)
(* while a late line is being written is left out.                         *)
PushBatch(m) ==
    /\ sync[m].pc = "push"
    /\ \E s \in Slots, last \in Unread(m) :
          LET batch == {e \in Unread(m) : ~Precedes(last, e)}
              full  == Cardinality(batch) = BatchSize
          IN  /\ handlers[m][s].pc = "free"
              /\ full \/ (Cardinality(batch) < BatchSize /\ batch = Unread(m))
              /\ handlers' = [handlers EXCEPT ![m][s] = Call(batch)]
              /\ sync' = [sync EXCEPT ![m].pc = "wait",
                                      ![m].dates = IF full THEN @ ELSE {},
                                      ![m].pos = At(last),
                                      ![m].slot = s]
    /\ UNCHANGED <<hostVars, db, cursor, undo, peerLog, pull>>

(* PushLogs answers; clear_error opens the transaction.                    *)
PushOk(m) ==
    LET s == sync[m].slot
    IN  /\ sync[m].pc = "wait"
        /\ handlers[m][s].pc = "ok"
        /\ handlers' = [handlers EXCEPT ![m][s] = FreeSlot]
        /\ sync' = [sync EXCEPT ![m].pc = "push"]
        /\ OpenTransaction(m)
        /\ UNCHANGED <<hostVars, db, cursor, peerLog, pull>>

(* Mutant of PushError: the cursor moves to what was sent.                 *)
PushErrorAdvances(m) ==
    LET s == sync[m].slot
    IN  /\ sync[m].pc = "wait"
        /\ handlers[m][s].pc = "error"
        /\ handlers' = [handlers EXCEPT ![m][s] = FreeSlot]
        /\ sync' = [sync EXCEPT ![m] = IdleSync(m)]
        /\ cursor' = [cursor EXCEPT ![m][m] = sync[m].pos]
        /\ Commit(m)
        /\ UNCHANGED <<hostVars, db, peerLog, pull>>

(* PushLogs answers with an error: the process commits its bookkeeping and *)
(* exits, with the cursor where it was.                                    *)
PushError(m) ==
    LET s == sync[m].slot
    IN  /\ sync[m].pc = "wait"
        /\ handlers[m][s].pc = "error"
        /\ handlers' = [handlers EXCEPT ![m][s] = FreeSlot]
        /\ sync' = [sync EXCEPT ![m] = IdleSync(m)]
        /\ Commit(m)
        /\ UNCHANGED <<hostVars, db, cursor, peerLog, pull>>

(* The client gives up on its PushLogs call.  The request may not have     *)
(* arrived, the handler may run on, or its answer is dropped.              *)
Abandon(m, s) ==
    LET h == handlers[m][s]
    IN  \/ /\ h.pc \in {"sent", "ok", "error"}
           /\ handlers' = [handlers EXCEPT ![m][s] = FreeSlot]
        \/ /\ h.pc \in {"sent", "replay"}
           /\ handlers' = [handlers EXCEPT ![m][s].live = FALSE]

PushTimeout(m) ==
    /\ sync[m].pc = "wait"
    /\ Abandon(m, sync[m].slot)
    /\ sync' = [sync EXCEPT ![m] = IdleSync(m)]
    /\ Commit(m)
    /\ UNCHANGED <<hostVars, db, cursor, peerLog, pull>>

(* Everything is pushed: the cursor moves once, to the last line read, and *)
(* is committed; do_pull sends its request with the cursors of the table.  *)
PushDone(m) ==
    /\ sync[m].pc = "push"
    /\ Unread(m) = {}
    /\ cursor' = [cursor EXCEPT ![m][m] = sync[m].pos]
    /\ Commit(m)
    /\ pull' = [pull EXCEPT ![m] = Request(m, cursor'[m], "sent")]
    /\ sync' = [sync EXCEPT ![m] = [IdleSync(m) EXCEPT !.pc = "pull"]]
    /\ UNCHANGED <<hostVars, db, peerLog, handlers>>

(***************************************************************************)
(* do_pull.                                                                *)
(***************************************************************************)
(* One line of a chunk: the peer's mirror file, then the database, where a *)
(* result line has no statement to execute.  A line is replayed whole:     *)
(* left out is an INSERT of an event that succeeds with the UPDATE of its  *)
(* counter refused, which takes a full or failing disk.                    *)
ApplyLine(m) ==
    /\ sync[m].pc = "pull"
    /\ pull[m].chunk # <<>>
    /\ LET p == pull[m].from
           e == Head(pull[m].chunk)
       IN  /\ peerLog' = [peerLog EXCEPT ![m][p][e.date] = Append(@, e.line)]
           /\ db' = [db EXCEPT ![m] = ReplayIntoDb(@, e.line)]
           /\ sync' = [sync EXCEPT
                         ![m].pc = IF Len(pull[m].chunk) = 1 THEN "chunk" ELSE "pull",
                         ![m].pos = At(e),
                         ![m].peer = p]
           /\ IF e.line.kind \in ResultKinds THEN UNCHANGED undo ELSE OpenTransaction(m)
    /\ pull' = [pull EXCEPT ![m].chunk = Tail(@)]
    /\ UNCHANGED <<hostVars, cursor, handlers>>

(* Mutant of SetPeerCursor: the cursor stays where it was.                 *)
SetPeerCursorNever(m) ==
    /\ sync[m].pc = "chunk"
    /\ OpenTransaction(m)
    /\ sync' = [sync EXCEPT ![m] = [IdleSync(m) EXCEPT !.pc = "pull"]]
    /\ UNCHANGED <<hostVars, db, cursor, peerLog, rpcVars>>

SetPeerCursor(m) ==
    /\ sync[m].pc = "chunk"
    /\ OpenTransaction(m)
    /\ cursor' = [cursor EXCEPT ![m][sync[m].peer] = sync[m].pos]
    /\ sync' = [sync EXCEPT ![m] = [IdleSync(m) EXCEPT !.pc = "pull"]]
    /\ UNCHANGED <<hostVars, db, peerLog, rpcVars>>

PullDone(m) ==
    /\ sync[m].pc = "pull"
    /\ pull[m].pc = "done"
    /\ pull[m].chunk = <<>>
    /\ sync' = [sync EXCEPT ![m] = IdleSync(m)]
    /\ pull' = [pull EXCEPT ![m] = NoStream(m)]
    /\ Commit(m)
    /\ UNCHANGED <<hostVars, db, cursor, peerLog, handlers>>

(* The stream breaks or a statement fails: what was replayed is committed, *)
(* the cursor only up to the last whole chunk.                             *)
PullEndsEarly(m) ==
    /\ sync[m].pc \in {"pull", "chunk"}
    /\ sync' = [sync EXCEPT ![m] = IdleSync(m)]
    /\ pull' = [pull EXCEPT ![m] = NoStream(m)]
    /\ Commit(m)
    /\ UNCHANGED <<hostVars, db, cursor, peerLog, handlers>>

PullBroken(m) == pull[m].pc = "broken" /\ PullEndsEarly(m)

(***************************************************************************)
(* The sync process is killed (sleep, shutdown): SQLite rolls back, the    *)
(* peers' mirror files keep what was appended.                             *)
(***************************************************************************)
SyncKilled(m) ==
    /\ sync[m].pc # "idle"
    /\ IF sync[m].pc = "wait" THEN Abandon(m, sync[m].slot)
                              ELSE UNCHANGED handlers
    /\ sync' = [sync EXCEPT ![m] = IdleSync(m)]
    /\ pull' = [pull EXCEPT ![m] = NoStream(m)]
    /\ Rollback(m)
    /\ UNCHANGED <<hostVars, peerLog>>

HostRuns(m, h) == AppendAction(m, h) \/ HostStores(m, h) \/ AppendResult(m, h)
HostNext(m) == \E h \in Procs : HostBegins(m, h) \/ HostRuns(m, h)

SyncNext(m) ==
    \/ SyncStarts(m)
    \/ PushBatch(m)
    \/ PushOk(m)
    \/ PushError(m)
    \/ PushDone(m)
    \/ ApplyLine(m)
    \/ SetPeerCursor(m)
    \/ PullDone(m)
    \/ PullBroken(m)
=============================================================================
