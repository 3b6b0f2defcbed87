--------------------------- MODULE VisitDb_proofs ---------------------------
(***************************************************************************)
(* Lemmas about the statements of VisitDb: they keep databases databases,  *)
(* the three replays agree, a replay makes its line hold and takes nothing *)
(* away, and the counters go on counting the event rows.                   *)
(***************************************************************************)
EXTENDS VisitDb, FiniteSetTheorems, TLAPS

(***************************************************************************)
(* EmptyDb, the database a program creates when there is none, is a Db.    *)
(***************************************************************************)
LEMMA EmptyDbType == EmptyDb \in Db
BY DEF EmptyDb, Db

LEMMA InsertVisitType ==
    ASSUME NEW db \in Db, NEW u \in Urls, NEW ts \in Stamps
    PROVE  /\ InsertVisit(db, u, ts) \in Db
           /\ HasRow(InsertVisit(db, u, ts), u)
BY NoStampAssumption DEF InsertVisit, HasRow, Db

LEMMA SetOfInterestType ==
    ASSUME NEW db \in Db, NEW u \in Urls
    PROVE  SetOfInterest(db, u) \in Db
BY DEF SetOfInterest, Db

LEMMA BumpCounterType ==
    ASSUME NEW db \in Db, NEW u \in Urls, NEW t \in Tags
    PROVE  BumpCounter(db, t, u) \in Db
<1>1. db.count[t][u] + 1 \in Nat
  BY DEF Db
<1>2. [db.count EXCEPT ![t][u] = @ + 1] \in [Tags -> [Urls -> Nat]]
  BY <1>1 DEF Db
<1> QED
  BY <1>2 DEF BumpCounter, Db

LEMMA TagWithFilenameType ==
    ASSUME NEW db \in Db, NEW u \in Urls, NEW ts \in Stamps, NEW t \in Tags
    PROVE  TagWithFilename(db, u, ts, t) \in Db
<1> DEFINE e == [tag |-> t, url |-> u, ts |-> ts]
<1>1. [db EXCEPT !.events = @ \cup {e}] \in Db
  BY DEF Db, Event
<1> QED
  BY <1>1, BumpCounterType DEF TagWithFilename

(***************************************************************************)
(* The replays.                                                            *)
(***************************************************************************)
LEMMA TagsAreActions == Tags \subseteq ActionKinds /\ ActionKinds \cap ResultKinds = {}
BY DEF Tags, ActionKinds, ResultKinds

LEMMA ReplayLineType ==
    ASSUME NEW db \in Db, NEW l \in Line
    PROVE  ReplayLine(db, l) \in Db
<1> DEFINE b == ReplayBasic(db, l)
<1>1. l.url \in Urls /\ l.ts \in Stamps
  BY DEF Line
<1>2. b \in Db
  BY <1>1, InsertVisitType DEF ReplayBasic
<1>3. CASE l.kind = "of_interest"
  BY <1>1, <1>2, <1>3, SetOfInterestType DEF ReplayLine, Tags
<1>4. CASE l.kind \in Tags
  BY <1>1, <1>2, <1>4, TagWithFilenameType DEF ReplayLine, Tags
<1>5. CASE l.kind # "of_interest" /\ l.kind \notin Tags
  BY <1>2, <1>5 DEF ReplayLine
<1> QED
  BY <1>3, <1>4, <1>5

(***************************************************************************)
(* The sync client's replay_into_db and the server's ReplayLine do the     *)
(* same to a database, whatever the line.                                  *)
(***************************************************************************)
THEOREM ReplaysAgree ==
    ASSUME NEW db \in Db, NEW l \in Line
    PROVE  ReplayIntoDb(db, l) = ReplayLine(db, l)
<1>1. l.kind \in ActionKinds \cup ResultKinds
  BY DEF Line
<1>2. CASE l.kind \in ResultKinds
  BY <1>2, TagsAreActions DEF ReplayIntoDb, ReplayLine, ReplayBasic, ResultKinds, Tags
<1>3. CASE l.kind = "visit"
  BY <1>3 DEF ReplayIntoDb, ReplayLine, ReplayBasic, ResultKinds, Tags
<1>4. CASE l.kind = "of_interest"
  BY <1>4 DEF ReplayIntoDb, ReplayLine, ReplayBasic, ResultKinds, Tags
<1>5. CASE l.kind \in Tags
  BY <1>5 DEF ReplayIntoDb, ReplayLine, ReplayBasic, TagWithFilename, ResultKinds, Tags
<1> QED
  BY <1>1, <1>2, <1>3, <1>4, <1>5 DEF ActionKinds, Tags

LEMMA HostWriteType ==
    ASSUME NEW db \in Db, NEW msg \in Message
    PROVE  HostWrite(db, msg) \in Db
<1>1. msg.url \in Urls /\ msg.ts \in Stamps
  BY DEF Message
<1>2. ASSUME NEW x \in Db, NEW k
      PROVE  HostTag(x, msg.url, msg.ts, k) \in Db
  <2>1. CASE k = "of_interest"
    BY <1>1, <2>1, SetOfInterestType DEF HostTag, Tags
  <2>2. CASE k \in Tags
    BY <1>1, <2>2, TagWithFilenameType DEF HostTag, HostInsertEvent, Tags
  <2>3. CASE k # "of_interest" /\ k \notin Tags
    BY <2>3 DEF HostTag
  <2> QED
    BY <2>1, <2>2, <2>3
<1> QED
  BY <1>1, <1>2, InsertVisitType DEF HostWrite

(***************************************************************************)
(* After a replay the database holds what the line says: what lets a       *)
(* cursor pass the line.                                                   *)
(***************************************************************************)
THEOREM ReplayedLineHolds ==
    ASSUME NEW db \in Db, NEW l \in Line
    PROVE  Holds(ReplayLine(db, l), l)
<1> DEFINE b == ReplayBasic(db, l)
<1>1. l.url \in Urls /\ l.ts \in Stamps
  BY DEF Line
<1>2. CASE l.kind \in ResultKinds
  BY <1>2 DEF Holds
<1>3. ASSUME l.kind \notin ResultKinds
      PROVE  b \in Db /\ HasRow(b, l.url)
  BY <1>1, <1>3, InsertVisitType DEF ReplayBasic
<1>4. CASE l.kind \notin ResultKinds /\ l.kind = "of_interest"
  <2>1. ReplayLine(db, l) = [b EXCEPT !.interest = @ \cup {l.url}]
    BY <1>3, <1>4 DEF ReplayLine, SetOfInterest, Tags
  <2> QED
    BY <1>3, <1>4, <2>1 DEF Holds, HasRow, Db, Tags
<1>5. CASE l.kind \notin ResultKinds /\ l.kind \in Tags
  <2> DEFINE e == [tag |-> l.kind, url |-> l.url, ts |-> l.ts]
  <2>1. ReplayLine(db, l) = TagWithFilename(b, l.url, l.ts, l.kind)
    BY <1>5 DEF ReplayLine, Tags
  <2>2. /\ TagWithFilename(b, l.url, l.ts, l.kind).visits = b.visits
        /\ e \in TagWithFilename(b, l.url, l.ts, l.kind).events
    BY <1>3, <1>5 DEF TagWithFilename, BumpCounter, Db
  <2> QED
    BY <1>3, <1>5, <2>1, <2>2 DEF Holds, HasRow, Tags
<1>6. CASE l.kind \notin ResultKinds /\ l.kind # "of_interest" /\ l.kind \notin Tags
  BY <1>3, <1>6 DEF Holds, ReplayLine
<1> QED
  BY <1>2, <1>4, <1>5, <1>6

(***************************************************************************)
(* Nothing is taken away: what a database holds it goes on holding.        *)
(***************************************************************************)
Grows(x, y) ==
    /\ \A u \in Urls : HasRow(x, u) => HasRow(y, u)
    /\ x.interest \subseteq y.interest
    /\ x.events \subseteq y.events

LEMMA GrowingKeepsLines ==
    ASSUME NEW x, NEW y, Grows(x, y), NEW l \in Line, Holds(x, l)
    PROVE  Holds(y, l)
BY DEF Grows, Holds, Line

LEMMA GrowsTransitive ==
    ASSUME NEW x, NEW y, NEW z, Grows(x, y), Grows(y, z)
    PROVE  Grows(x, z)
BY DEF Grows

LEMMA StatementsGrow ==
    ASSUME NEW db \in Db, NEW u \in Urls, NEW ts \in Stamps, NEW t \in Tags
    PROVE  /\ Grows(db, InsertVisit(db, u, ts))
           /\ Grows(db, SetOfInterest(db, u))
           /\ Grows(db, TagWithFilename(db, u, ts, t))
<1>1. Grows(db, InsertVisit(db, u, ts))
  BY NoStampAssumption DEF Grows, InsertVisit, HasRow, Db
<1>2. Grows(db, SetOfInterest(db, u))
  BY DEF Grows, SetOfInterest, HasRow, Db
<1>3. Grows(db, TagWithFilename(db, u, ts, t))
  BY DEF Grows, TagWithFilename, BumpCounter, HasRow, Db
<1> QED
  BY <1>1, <1>2, <1>3

LEMMA ReplayBasicGrows ==
    ASSUME NEW db \in Db, NEW l \in Line
    PROVE  ReplayBasic(db, l) \in Db /\ Grows(db, ReplayBasic(db, l))
<1>1. l.url \in Urls /\ l.ts \in Stamps
  BY DEF Line
<1>2. Grows(db, db)
  BY DEF Grows
<1>3. Grows(db, InsertVisit(db, l.url, l.ts))
  BY <1>1, NoStampAssumption DEF Grows, InsertVisit, HasRow, Db
<1> QED
  BY <1>1, <1>2, <1>3, InsertVisitType DEF ReplayBasic

(***************************************************************************)
(* A replay, whole or cut off after its first statement, and a write of    *)
(* the host keep every line a database holds.                              *)
(***************************************************************************)
THEOREM ReplayKeepsLines ==
    ASSUME NEW db \in Db, NEW l \in Line, NEW k \in Line, Holds(db, k)
    PROVE  Holds(ReplayLine(db, l), k) /\ Holds(ReplayBasic(db, l), k)
<1> DEFINE b == ReplayBasic(db, l)
<1>1. l.url \in Urls /\ l.ts \in Stamps
  BY DEF Line
<1>2. b \in Db /\ Grows(db, b)
  BY ReplayBasicGrows
<1>3. Grows(b, b)
  BY DEF Grows
<1>4. CASE l.kind = "of_interest"
  <2>1. ReplayLine(db, l) = SetOfInterest(b, l.url)
    BY <1>4 DEF ReplayLine, Tags
  <2>2. Grows(b, SetOfInterest(b, l.url))
    BY <1>1, <1>2 DEF Grows, SetOfInterest, HasRow, Db
  <2> QED
    BY <1>2, <2>1, <2>2, GrowsTransitive, GrowingKeepsLines
<1>5. CASE l.kind \in Tags
  <2>1. ReplayLine(db, l) = TagWithFilename(b, l.url, l.ts, l.kind)
    BY <1>5 DEF ReplayLine, Tags
  <2>2. Grows(b, TagWithFilename(b, l.url, l.ts, l.kind))
    BY <1>1, <1>2, <1>5, StatementsGrow
  <2> QED
    BY <1>2, <2>1, <2>2, GrowsTransitive, GrowingKeepsLines
<1>6. CASE l.kind # "of_interest" /\ l.kind \notin Tags
  BY <1>2, <1>6, GrowingKeepsLines DEF ReplayLine
<1> QED
  BY <1>4, <1>5, <1>6

(***************************************************************************)
(* The counters.                                                           *)
(***************************************************************************)
Counted(db) ==
    /\ db \in Db
    /\ IsFiniteSet(db.events)
    /\ CountersExact(db)

LEMMA EmptyDbCounted == Counted(EmptyDb)
<1>1. \A t \in Tags, u \in Urls : EventsOf(EmptyDb, t, u) = {}
  BY DEF EventsOf, EmptyDb
<1> QED
  BY <1>1, EmptyDbType, FS_EmptySet DEF Counted, CountersExact, EmptyDb

LEMMA SameEventsCounted ==
    ASSUME NEW x, NEW y \in Db, Counted(x), y.events = x.events, y.count = x.count
    PROVE  Counted(y)
<1>1. \A t, u : EventsOf(y, t, u) = EventsOf(x, t, u)
  BY DEF EventsOf
<1> QED
  BY <1>1 DEF Counted, CountersExact

LEMMA InsertVisitCounted ==
    ASSUME NEW db, Counted(db), NEW u \in Urls, NEW ts \in Stamps
    PROVE  Counted(InsertVisit(db, u, ts))
<1>1. InsertVisit(db, u, ts) \in Db
  BY InsertVisitType DEF Counted
<1>2. /\ InsertVisit(db, u, ts).events = db.events
      /\ InsertVisit(db, u, ts).count = db.count
  BY DEF InsertVisit, Counted, Db
<1> QED
  BY <1>1, <1>2, SameEventsCounted

LEMMA SetOfInterestCounted ==
    ASSUME NEW db, Counted(db), NEW u \in Urls
    PROVE  Counted(SetOfInterest(db, u))
<1>1. SetOfInterest(db, u) \in Db
  BY SetOfInterestType DEF Counted
<1>2. /\ SetOfInterest(db, u).events = db.events
      /\ SetOfInterest(db, u).count = db.count
  BY DEF SetOfInterest, Counted, Db
<1> QED
  BY <1>1, <1>2, SameEventsCounted

LEMMA TagCounted ==
    ASSUME NEW db, Counted(db), NEW u \in Urls, HasRow(db, u),
           NEW ts \in Stamps, NEW t \in Tags
    PROVE  Counted(TagWithFilename(db, u, ts, t))
<1> DEFINE e == [tag |-> t, url |-> u, ts |-> ts]
           x == [db EXCEPT !.events = @ \cup {e}]
           y == TagWithFilename(db, u, ts, t)
<1>1. CASE e \in db.events
  BY <1>1 DEF TagWithFilename
<1>2. CASE e \notin db.events
  <2>1. y \in Db
    BY TagWithFilenameType DEF Counted
  <2>2. /\ y.events = db.events \cup {e}
        /\ y.count = [db.count EXCEPT ![t][u] = @ + 1]
    BY <1>2 DEF TagWithFilename, BumpCounter, HasRow, Counted, Db
  <2>3. IsFiniteSet(y.events)
    BY <2>2, FS_AddElement DEF Counted
  <2>4. ASSUME NEW r \in Tags, NEW v \in Urls
        PROVE  y.count[r][v] = Cardinality(EventsOf(y, r, v))
    <3>1. EventsOf(db, r, v) \subseteq db.events
      BY DEF EventsOf
    <3>2. IsFiniteSet(EventsOf(db, r, v))
      BY <3>1, FS_Subset DEF Counted
    <3>3. CASE r = t /\ v = u
      <4>1. EventsOf(y, r, v) = EventsOf(db, r, v) \cup {e}
        BY <2>2, <3>3 DEF EventsOf
      <4>2. e \notin EventsOf(db, r, v)
        BY <1>2 DEF EventsOf
      <4>3. Cardinality(EventsOf(y, r, v)) = Cardinality(EventsOf(db, r, v)) + 1
        BY <3>2, <4>1, <4>2, FS_AddElement
      <4> QED
        BY <2>2, <3>3, <4>3 DEF Counted, CountersExact, Db
    <3>4. CASE ~(r = t /\ v = u)
      <4>1. EventsOf(y, r, v) = EventsOf(db, r, v)
        BY <2>2, <3>4 DEF EventsOf
      <4>2. y.count[r][v] = db.count[r][v]
        BY <2>2, <3>4 DEF Counted, Db
      <4> QED
        BY <4>1, <4>2 DEF Counted, CountersExact
    <3> QED
      BY <3>3, <3>4
  <2> QED
    BY <2>1, <2>3, <2>4 DEF Counted, CountersExact
<1> QED
  BY <1>1, <1>2

(***************************************************************************)
(* However often a line is replayed, by the server or by the sync client,  *)
(* and even if the replay stops after its first statement, the counters    *)
(* count the event rows; and so they do after a write of the host.         *)
(***************************************************************************)
THEOREM ReplayKeepsCounters ==
    ASSUME NEW db, Counted(db), NEW l \in Line
    PROVE  Counted(ReplayLine(db, l)) /\ Counted(ReplayBasic(db, l))
<1> DEFINE b == ReplayBasic(db, l)
<1>1. l.url \in Urls /\ l.ts \in Stamps
  BY DEF Line
<1>2. Counted(b)
  BY <1>1, InsertVisitCounted DEF ReplayBasic
<1>3. l.kind \notin ResultKinds => HasRow(b, l.url)
  BY <1>1, InsertVisitType DEF ReplayBasic, Counted
<1>4. CASE l.kind = "of_interest"
  <2>1. ReplayLine(db, l) = SetOfInterest(b, l.url)
    BY <1>4 DEF ReplayLine, Tags
  <2> QED
    BY <1>1, <1>2, <2>1, SetOfInterestCounted
<1>5. CASE l.kind \in Tags
  <2>1. ReplayLine(db, l) = TagWithFilename(b, l.url, l.ts, l.kind)
    BY <1>5 DEF ReplayLine, Tags
  <2>2. HasRow(b, l.url)
    BY <1>3, <1>5 DEF Tags, ResultKinds
  <2> QED
    BY <1>1, <1>2, <1>5, <2>1, <2>2, TagCounted
<1>6. CASE l.kind # "of_interest" /\ l.kind \notin Tags
  BY <1>2, <1>6 DEF ReplayLine
<1> QED
  BY <1>2, <1>4, <1>5, <1>6

LEMMA HostTagCounted ==
    ASSUME NEW db, Counted(db), NEW u \in Urls, NEW ts \in Stamps, NEW k
    PROVE  Counted(HostTag(db, u, ts, k))
<1>1. CASE k = "of_interest"
  <2>1. HostTag(db, u, ts, k) = SetOfInterest(db, u)
    BY <1>1 DEF HostTag, Tags
  <2> QED
    BY <2>1, SetOfInterestCounted
<1>2. CASE k \in Tags
  <2>1. HostTag(db, u, ts, k) = HostInsertEvent(db, u, ts, k)
    BY <1>2 DEF HostTag, Tags
  <2> QED
    BY <1>2, <2>1, TagCounted DEF HostInsertEvent
<1>3. CASE k # "of_interest" /\ k \notin Tags
  BY <1>3 DEF HostTag
<1> QED
  BY <1>1, <1>2, <1>3

THEOREM HostWriteKeepsCounters ==
    ASSUME NEW db, Counted(db), NEW msg \in Message
    PROVE  Counted(HostWrite(db, msg))
<1> DEFINE b == InsertVisit(db, msg.url, msg.ts)
           x == HostTag(b, msg.url, msg.ts, msg.kind)
<1>1. msg.url \in Urls /\ msg.ts \in Stamps
  BY DEF Message
<1>2. Counted(b)
  BY <1>1, InsertVisitCounted
<1>3. Counted(x)
  BY <1>1, <1>2, HostTagCounted
<1>4. Counted(HostTag(x, msg.url, msg.ts, "of_interest"))
  BY <1>1, <1>3, HostTagCounted
<1> QED
  BY <1>3, <1>4 DEF HostWrite
=============================================================================
