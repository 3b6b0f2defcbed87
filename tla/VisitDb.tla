------------------------------- MODULE VisitDb -------------------------------
(***************************************************************************)
(* The visits database and the three writers of it: the native host that   *)
(* records what the user did, the sync server that replays pushed log      *)
(* lines into the canonical database, and the sync client that replays     *)
(* pulled log lines into a laptop's own database.                          *)
(*                                                                         *)
(* A database is a value and a writer is an operator from a database to a  *)
(* database, so that the modules that keep databases in variables share    *)
(* one definition of each statement the programs issue.                    *)
(*                                                                         *)
(* Abstracted: titles, file names and directories of events and the        *)
(* snapshots table.  No statement modelled here reads them, and only the   *)
(* host writes directories and days: databases do not share them.          *)
(***************************************************************************)
EXTENDS Integers, FiniteSets

CONSTANTS
    Urls,       \* the urls that may be visited
    Stamps,     \* the timestamps a message may carry
    NoStamp     \* the timestamp of a url without a row in visits

ASSUME NoStampAssumption == NoStamp \notin Stamps

Tags == {"read", "skimmed"}

(* What the action line of an invocation may ask for, and the two outcomes *)
(* its result line may report.                                             *)
ActionKinds == {"visit", "of_interest", "read", "skimmed"}
ResultKinds == {"success", "error"}

(* A log line.  In a result line, url and ts stand for the record id that  *)
(* pairs it with its action line.                                          *)
Line == [kind : ActionKinds \cup ResultKinds, url : Urls, ts : Stamps]

(* A message of the extension to the native host: `also' is its            *)
(* alsoOfInterest flag.                                                    *)
Message == [kind : ActionKinds, url : Urls, ts : Stamps, also : BOOLEAN]

ActionLine(msg) == [kind |-> msg.kind, url |-> msg.url, ts |-> msg.ts]
ResultLine(msg, res) == [kind |-> res, url |-> msg.url, ts |-> msg.ts]

(***************************************************************************)
(* The tables.  visits[u] is the timestamp column of u's row, `count' its  *)
(* read and skimmed columns; an event row is its primary key.              *)
(***************************************************************************)
Event == [tag : Tags, url : Urls, ts : Stamps]

Db == [visits   : [Urls -> Stamps \cup {NoStamp}],
       interest : SUBSET Urls,
       events   : SUBSET Event,
       count    : [Tags -> [Urls -> Nat]]]

EmptyDb == [visits   |-> [u \in Urls |-> NoStamp],
            interest |-> {},
            events   |-> {},
            count    |-> [t \in Tags |-> [u \in Urls |-> 0]]]

HasRow(db, u) == db.visits[u] # NoStamp

(***************************************************************************)
(* The statements.                                                         *)
(***************************************************************************)
(* INSERT OR IGNORE INTO visits: the first timestamp wins.                 *)
InsertVisit(db, u, ts) ==
    IF HasRow(db, u) THEN db ELSE [db EXCEPT !.visits[u] = ts]

(* UPDATE visits SET of_interest: nothing to update without a row.         *)
SetOfInterest(db, u) ==
    IF HasRow(db, u) THEN [db EXCEPT !.interest = @ \cup {u}] ELSE db

(* Mutant of BumpCounter: the wrong sign.                                  *)
BumpCounterDown(db, t, u) ==
    IF HasRow(db, u) THEN [db EXCEPT !.count[t][u] = @ - 1] ELSE db

(* UPDATE visits SET <tag> = <tag> + 1: nothing to update without a row.   *)
BumpCounter(db, t, u) ==
    IF HasRow(db, u) THEN [db EXCEPT !.count[t][u] = @ + 1] ELSE db

(* Mutant of TagWithFilename: the number of inserted rows is not looked at. *)
TagUngated(db, u, ts, t) ==
    BumpCounter([db EXCEPT !.events = @ \cup {[tag |-> t, url |-> u, ts |-> ts]}],
                t, u)

(* INSERT OR IGNORE INTO <tag>_events, and the counter only if a row was   *)
(* inserted; one transaction.                                              *)
TagWithFilename(db, u, ts, t) ==
    LET e == [tag |-> t, url |-> u, ts |-> ts]
    IN  IF e \in db.events
        THEN db
        ELSE BumpCounter([db EXCEPT !.events = @ \cup {e}], t, u)

(***************************************************************************)
(* The sync server: ReplayLine.                                            *)
(***************************************************************************)
ReplayBasic(db, l) ==
    IF l.kind \in ResultKinds THEN db ELSE InsertVisit(db, l.url, l.ts)

ReplayLine(db, l) ==
    LET b == ReplayBasic(db, l)
    IN  CASE l.kind = "of_interest" -> SetOfInterest(b, l.url)
          [] l.kind \in Tags        -> TagWithFilename(b, l.url, l.ts, l.kind)
          [] OTHER                  -> b

(***************************************************************************)
(* The sync client: replay_into_db.  Same statements, other code: a tag    *)
(* is handled before the event tables are considered.                      *)
(***************************************************************************)
(* Mutant of ReplayIntoDb: the counter does not look at cur.rowcount.      *)
ReplayIntoDbUngated(db, l) ==
    IF l.kind \in ResultKinds THEN db
    ELSE LET b == InsertVisit(db, l.url, l.ts)
         IN  IF l.kind = "visit" THEN b
             ELSE IF l.kind = "of_interest" THEN SetOfInterest(b, l.url)
             ELSE TagUngated(b, l.url, l.ts, l.kind)

ReplayIntoDb(db, l) ==
    IF l.kind \in ResultKinds THEN db
    ELSE LET b == InsertVisit(db, l.url, l.ts)
             e == [tag |-> l.kind, url |-> l.url, ts |-> l.ts]
         IN  IF l.kind = "visit" THEN b
             ELSE IF l.kind = "of_interest" THEN SetOfInterest(b, l.url)
             ELSE IF e \in b.events THEN b
             ELSE BumpCounter([b EXCEPT !.events = @ \cup {e}], l.kind, l.url)

(***************************************************************************)
(* The native host: one transaction per message.                           *)
(***************************************************************************)
(* Events.insertEvent looks for the visits row before it inserts.          *)
HostInsertEvent(db, u, ts, t) ==
    IF HasRow(db, u) THEN TagWithFilename(db, u, ts, t) ELSE db

HostTag(db, u, ts, k) ==
    CASE k = "of_interest" -> SetOfInterest(db, u)
      [] k \in Tags        -> HostInsertEvent(db, u, ts, k)
      [] OTHER             -> db

HostWrite(db, msg) ==
    LET tagged == HostTag(InsertVisit(db, msg.url, msg.ts),
                          msg.url, msg.ts, msg.kind)
    IN  IF msg.also /\ msg.kind \in Tags
        THEN HostTag(tagged, msg.url, msg.ts, "of_interest")
        ELSE tagged

(***************************************************************************)
(* What it means for a database to hold what a log line says, and for its  *)
(* counters to agree with its event rows.                                  *)
(***************************************************************************)
Holds(db, l) ==
    \/ l.kind \in ResultKinds
    \/ /\ HasRow(db, l.url)
       /\ l.kind = "of_interest" => l.url \in db.interest
       /\ l.kind \in Tags =>
            [tag |-> l.kind, url |-> l.url, ts |-> l.ts] \in db.events

EventsOf(db, t, u) == {e \in db.events : e.tag = t /\ e.url = u}

CountersExact(db) ==
    \A t \in Tags, u \in Urls :
        db.count[t][u] = Cardinality(EventsOf(db, t, u))
=============================================================================
