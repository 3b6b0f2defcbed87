------------------------------ MODULE SyncProps ------------------------------
(***************************************************************************)
(* What multi-laptop sync mode promises, as properties of Sync.            *)
(***************************************************************************)
EXTENDS Sync, DbDiff

(* The lines of machine p's log that a cursor has passed.                  *)
Synced(p, c, d, i) == i \in 1..Len(local[p][d]) /\ Passed(c, d, i - 1)

(***************************************************************************)
(* The server's file is a copy of the first lines of the laptop's file,    *)
(* whatever was pushed again, late, or by a handler whose client is gone.  *)
(***************************************************************************)
MirrorIsPrefix ==
    \A m \in Machines, d \in Dates :
        /\ Len(mirror[m][d]) <= Len(local[m][d])
        /\ \A i \in 1..Len(mirror[m][d]) : mirror[m][d][i] = local[m][d][i]

(***************************************************************************)
(* AppendLogLines never meets a gap: a laptop that would send one could    *)
(* never push again.                                                       *)
(***************************************************************************)
NeverAGap ==
    \A m \in Machines, s \in Slots : handlers[m][s].pc = "sent" =>
        \A d \in Dates : ~Gap(mirror[m], handlers[m][s].batch, d)

(***************************************************************************)
(* A laptop's own cursor never passes a line that the server has not both  *)
(* stored and replayed: such a line would be lost for every peer.          *)
(***************************************************************************)
PushedIsStored ==
    \A m \in Machines, d \in Dates : \A i \in 1..Len(local[m][d]) :
        Synced(m, cursor[m][m], d, i) =>
            /\ i <= Len(mirror[m][d])
            /\ Holds(canon, local[m][d][i])

(* The cursors and the database a crash would leave behind.                *)
CommittedDb(m) == IF undo[m].open THEN undo[m].db ELSE db[m]
CommittedCursor(m) == IF undo[m].open THEN undo[m].cursor ELSE cursor[m]

(***************************************************************************)
(* A laptop's cursor for a peer never passes a line that its database does *)
(* not hold or that is missing from its copy of the peer's log; neither in *)
(* the open transaction nor in what a crash rolls back to.                 *)
(***************************************************************************)
Delivered(m, p, c, base) ==
    \A d \in Dates : \A i \in 1..Len(local[p][d]) :
        Synced(p, c, d, i) =>
            /\ Holds(base, local[p][d][i])
            /\ \E j \in 1..Len(peerLog[m][p][d]) : peerLog[m][p][d][j] = local[p][d][i]

PulledIsApplied ==
    \A m \in Machines : \A p \in Machines \ {m} :
        /\ Delivered(m, p, cursor[m][p], db[m])
        /\ Delivered(m, p, CommittedCursor(m)[p], CommittedDb(m))

(***************************************************************************)
(* read and skimmed count the event rows, on the server and on every       *)
(* laptop, however often a line is replayed.                               *)
(***************************************************************************)
CountersMatchEvents ==
    /\ CountersExact(canon)
    /\ \A m \in Machines : CountersExact(db[m]) /\ CountersExact(CommittedDb(m))

(***************************************************************************)
(* A day's file on the server is complete before the next day's begins:    *)
(* what lets one cursor stand for all days.                                *)
(***************************************************************************)
DaysInOrder ==
    \A m \in Machines, d, e \in Dates :
        d < e /\ mirror[m][e] # <<>> => mirror[m][d] = local[m][d]

(***************************************************************************)
(* Cursors a crash would leave behind never move back.                     *)
(***************************************************************************)
NotBefore(c, x) == c.date < x.date \/ (c.date = x.date /\ c.off <= x.off)

CursorsAdvance ==
    [][\A m, p \in Machines :
          NotBefore(CommittedCursor(m)[p], CommittedCursor(m)'[p])]_vars

(***************************************************************************)
(* Sync implements LogReplica, cursors being the ones a crash would leave  *)
(* behind: no step of the protocol, and no failure, writes a line behind a *)
(* cursor, moves a cursor over a line that the server has not stored, or   *)
(* changes a stored line.                                                  *)
(***************************************************************************)
Replica == INSTANCE LogReplica WITH
    Lines <- Line, log <- local, stored <- mirror,
    seen <- [m \in Machines |-> CommittedCursor(m)]

ImplementsReplica == Replica!Spec

(***************************************************************************)
(* Convergence to the union of the laptops' activity: again and again the  *)
(* server's files are complete, and the canonical database and every       *)
(* peer's hold every logged line.  (The logs of a model are finite, so     *)
(* from some point on this stays so.)                                      *)
(***************************************************************************)
CaughtUp ==
    /\ mirror = local
    /\ \A p \in Machines, d \in Dates : \A i \in 1..Len(local[p][d]) :
          /\ Holds(canon, local[p][d][i])
          /\ \A m \in Machines \ {p} : Holds(db[m], local[p][d][i])

Converges == []<>CaughtUp

(***************************************************************************)
(* A laptop's own database holds what it has logged, once the invocation   *)
(* that logged it is over.                                                 *)
(***************************************************************************)
OwnVisitsStored ==
    \A m \in Machines : Quiet(m) =>
        \A d \in Dates : \A i \in 1..Len(local[m][d]) :
            Holds(CommittedDb(m), local[m][d][i])

(***************************************************************************)
(* Nothing is under way: no invocation, and no open transaction.           *)
(***************************************************************************)
AtRest == \A m \in Machines : Quiet(m) /\ ~undo[m].open

Refused(l) == l.kind = "error"

(***************************************************************************)
(* What log lines carry: which urls have rows, the events, the counters,   *)
(* and the marks of interest unless messages carry alsoOfInterest, which   *)
(* no line records.  The time and title of a first visit and the directory *)
(* of an event are not shared.                                             *)
(***************************************************************************)
SameContents(x, y) ==
    /\ \A u \in Urls : HasRow(x, u) <=> HasRow(y, u)
    /\ x.events = y.events
    /\ x.count = y.count
    /\ (\A d \in Dates : \A msg \in Messages[d] : ~msg.also) => x.interest = y.interest

(***************************************************************************)
(* Once everything logged is delivered, and unless a laptop refused a      *)
(* message, every laptop's database and the canonical one agree on all     *)
(* that log lines carry, in whatever order and however often the host,     *)
(* ReplayLine and replay_into_db have applied the lines.                   *)
(***************************************************************************)
SameUnion ==
    CaughtUp /\ AtRest
    /\ (\A p \in Machines, d \in Dates :
           \A i \in 1..Len(local[p][d]) : ~Refused(local[p][d][i]))
    => \A m \in Machines : SameContents(db[m], canon)

(***************************************************************************)
(* As long as no sync is interrupted, a laptop's copy of a peer's log has  *)
(* every line once and in order.                                           *)
(***************************************************************************)
PeerLogIsPrefix ==
    \A m, p \in Machines, d \in Dates :
        /\ Len(peerLog[m][p][d]) <= Len(mirror[p][d])
        /\ \A i \in 1..Len(peerLog[m][p][d]) : peerLog[m][p][d][i] = mirror[p][d][i]

(***************************************************************************)
(* db_diff --ignore-counters verifies that a laptop has converged with the *)
(* VM: once everything logged is delivered it reports no difference, at    *)
(* least in the visits table.                                              *)
(***************************************************************************)
DiffClean ==
    CaughtUp /\ AtRest =>
        \A m \in Machines : ~AnyDifference(db[m], canon, CounterColumns)
=============================================================================
