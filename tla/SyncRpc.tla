------------------------------- MODULE SyncRpc -------------------------------
(***************************************************************************)
(* What the laptops and the sync server share: positions in a machine's    *)
(* per-day logs, the log lines a PushLogs request carries, and the two     *)
(* RPCs in progress.  A laptop has one sync process at a time, so one      *)
(* PullLogs stream per laptop is enough; PushLogs handlers outlive the     *)
(* client's 30 second timeout, so a laptop has several slots for them.     *)
(***************************************************************************)
EXTENDS VisitDb, Sequences

CONSTANTS
    Machines,   \* the enrolled laptops
    LastDate,   \* the days are 1..LastDate; date 0 is the empty date string
    Slots       \* PushLogs handlers of one laptop alive on the server at once

ASSUME LastDateAssumption == LastDate \in Nat \ {0}

VARIABLES
    handlers,   \* handlers[m][s]: a PushLogs call of m, or a free slot
    pull        \* pull[m]: the PullLogs stream of m

rpcVars == <<handlers, pull>>

Dates == 1..LastDate
Logs  == [Dates -> Seq(Line)]

(* A cursor: the highest position already synced.  A machine without a     *)
(* row in sync_state, or with the row mark_attempt made, is at ''.         *)
Position   == [date : 0..LastDate, off : Nat \cup {-1}]
NoPosition == [date |-> 0, off |-> -1]

(* "d > sinceDate || offset > sinceOffset", negated, for d >= sinceDate.   *)
Passed(c, d, o) == d < c.date \/ (d = c.date /\ o <= c.off)

(* A LogLine message: line_offset is 0-based.                              *)
Entry == [date : Dates, off : Nat, line : Line]
At(e) == [date |-> e.date, off |-> e.off]
Precedes(e, f) == e.date < f.date \/ (e.date = f.date /\ e.off < f.off)

(* The lines of the files for `dates' that a cursor has not passed.        *)
EntriesAfter(logs, dates, c) ==
    UNION {{[date |-> d, off |-> i - 1, line |-> logs[d][i]] :
                i \in {j \in 1..Len(logs[d]) : ~Passed(c, d, j - 1)}} : d \in dates}

(***************************************************************************)
(* A PushLogs call.  `todo' is what the handler has still to replay; live  *)
(* is FALSE once the client has given up on the call: the handler runs on, *)
(* and nobody hears its answer.                                            *)
(***************************************************************************)
Handler == [pc    : {"free", "sent", "replay", "ok", "error"},
            batch : SUBSET Entry,
            todo  : SUBSET Entry,
            live  : BOOLEAN]

FreeSlot == [pc |-> "free", batch |-> {}, todo |-> {}, live |-> FALSE]

Call(batch) == [pc |-> "sent", batch |-> batch, todo |-> {}, live |-> TRUE]

(***************************************************************************)
(* A PullLogs stream.  `since' are the cursors of the request; `peers' the *)
(* machines still to scan; `peer' the one being scanned (the caller itself *)
(* before the first); dates and pos where the scan is; batch what it has   *)
(* read and not sent; chunk what is sent and not yet processed by the      *)
(* client, from machine `from'.                                            *)
(***************************************************************************)
Stream == [pc    : {"closed", "sent", "open", "done", "broken"},
           since : [Machines -> Position],
           peers : SUBSET Machines,
           peer  : Machines,
           dates : SUBSET Dates,
           pos   : Position,
           batch : Seq(Entry),
           chunk : Seq(Entry),
           from  : Machines]

Request(m, since, pc) ==
    [pc |-> pc, since |-> since, peers |-> {}, peer |-> m, dates |-> {},
     pos |-> NoPosition, batch |-> <<>>, chunk |-> <<>>, from |-> m]

NoStream(m) == Request(m, [p \in Machines |-> NoPosition], "closed")

RpcTypeOK ==
    /\ handlers \in [Machines -> [Slots -> Handler]]
    /\ pull \in [Machines -> Stream]

RpcInit ==
    /\ handlers = [m \in Machines |-> [s \in Slots |-> FreeSlot]]
    /\ pull = [m \in Machines |-> NoStream(m)]
=============================================================================
